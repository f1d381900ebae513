--------------------------- MODULE TrainerCheckpoint ---------------------------
(***************************************************************************)
(* Saving, crashing and resuming: the loop of RayPPOTrainer.fit with       *)
(* _save_checkpoint and _load_checkpoint, and the FSDP checkpoint manager  *)
(* that runs on every rank of the actor's and the critic's worker group.   *)
(*                                                                         *)
(* Weights are the sequence of updates they are the result of; an update   *)
(* is a pair of the attempt (the process, a crash starts the next one) and *)
(* the batch.  Two attempts draw different samples on the same batch.      *)
(***************************************************************************)
EXTENDS Integers, Sequences, FiniteSets

CONSTANTS
  Ranks,       \* ranks of a worker group
  UseCritic,   \* self.use_critic
  NBatches,    \* len(train_dataloader) = total_training_steps (total_epochs is 1)
  EmptyChoices, \* which batches may have sample sizes that are all 0 (use_em)
  SaveFreq,    \* trainer.save_freq; 0 stands for every value that never saves
  MaxKeep,     \* max_actor_ckpt_to_keep = max_critic_ckpt_to_keep; 0 is None
  MaxCrashes   \* bound: crashes of the run

ASSUME CheckpointAssumption ==
  /\ IsFiniteSet(Ranks) /\ Ranks # {}
  /\ UseCritic \in BOOLEAN
  /\ NBatches \in Nat \ {0}
  /\ EmptyChoices \subseteq SUBSET (1 .. NBatches)
  /\ SaveFreq \in Nat /\ MaxKeep \in Nat /\ MaxCrashes \in Nat

Roles == IF UseCritic THEN {"actor", "critic"} ELSE {"actor"}
Steps == 1 .. NBatches

VARIABLES
  shard,     \* [Roles -> [Steps -> [Ranks -> file]]]: global_step_s/<role>/*_rank_r.pt
  data,      \* [Steps -> file]: global_step_s/data.pt
  tracker,   \* latest_checkpointed_iteration.txt
  pc,        \* the driver
  rank,      \* [Ranks -> state of the rank in the save_checkpoint that is running]
  saved,     \* [Roles -> [Ranks -> Seq(Steps)]]: previous_saved_paths
  mem,       \* [Roles -> [Ranks -> weights]]
  pos,       \* batches taken from the data loader
  gstep,     \* global_steps
  attempt,   \* crashes so far
  empty      \* the batches of the run whose sample sizes are all 0

disk == <<shard, data, tracker>>
vars == <<disk, pc, rank, saved, mem, pos, gstep, attempt, empty>>

\* A file is missing, torn (opened, not completed) or whole.
NoFile   == [is |-> "missing"]
TornFile == [is |-> "torn"]
File(content) == [is |-> "whole", of |-> content]
Whole(f) == f.is = "whole"

Files(S) == {NoFile, TornFile} \cup [is : {"whole"}, of : S]

Updates == (0 .. MaxCrashes) \X Steps

TypeOK ==
  /\ shard \in [Roles -> [Steps -> [Ranks -> Files(Seq(Updates))]]]
  /\ data \in [Steps -> Files(Steps)]
  /\ tracker \in Files(Steps)
  /\ pc \in {"down", "batch", "actor", "critic", "data", "dataing", "track",
             "tracking", "returned"}
  /\ rank \in [Ranks -> {"idle", "remove", "made", "writing", "written"}]
  /\ saved \in [Roles -> [Ranks -> Seq(Steps)]]
  /\ mem \in [Roles -> [Ranks -> Seq(Updates)]]
  /\ pos \in 0 .. NBatches
  /\ gstep \in 0 .. NBatches + 1
  /\ attempt \in 0 .. MaxCrashes
  /\ empty \in EmptyChoices

\* A process that is not running remembers nothing.
Forget ==
  /\ rank' = [r \in Ranks |-> "idle"]
  /\ saved' = [c \in Roles |-> [r \in Ranks |-> <<>>]]
  /\ mem' = [c \in Roles |-> [r \in Ranks |-> <<>>]]
  /\ pos' = 0
  /\ gstep' = 0

Init ==
  /\ shard = [c \in Roles |-> [s \in Steps |-> [r \in Ranks |-> NoFile]]]
  /\ data = [s \in Steps |-> NoFile]
  /\ tracker = NoFile
  /\ pc = "down"
  /\ rank = [r \in Ranks |-> "idle"]
  /\ saved = [c \in Roles |-> [r \in Ranks |-> <<>>]]
  /\ mem = [c \in Roles |-> [r \in Ranks |-> <<>>]]
  /\ pos = 0 /\ gstep = 0 /\ attempt = 0
  /\ empty \in EmptyChoices

-----------------------------------------------------------------------------
(* _load_checkpoint with resume_mode=auto.  A definition whose name has an     *)
(* underscore is a wrong version of the one that follows.                      *)

FolderExists(s) ==
  data[s] # NoFile \/ \E c \in Roles, r \in Ranks : shard[c][s][r] # NoFile

\* find_latest_ckpt_path: no tracker, or a tracked folder that is gone, is
\* "training from scratch".
FromScratch == tracker = NoFile \/ (Whole(tracker) /\ ~FolderExists(tracker.of))

\* int() raises on a torn tracker, torch.load on a missing or torn shard and
\* on a torn data.pt.
Loadable(s) ==
  /\ \A c \in Roles, r \in Ranks : Whole(shard[c][s][r])
  /\ data[s] # TornFile

\* Without a data.pt the data loader starts over, with a warning.
DataPosition_NotRestored(s) == 0
DataPosition(s) == IF Whole(data[s]) THEN data[s].of ELSE 0

TrainFromScratch ==
  /\ pc = "down" /\ pc' = "batch"
  /\ FromScratch
  /\ gstep' = 1
  /\ UNCHANGED <<disk, rank, saved, mem, pos, attempt, empty>>

Resume ==
  /\ pc = "down" /\ pc' = "batch"
  /\ Whole(tracker) /\ FolderExists(tracker.of)
  /\ Loadable(tracker.of)
  /\ mem' = [c \in Roles |-> [r \in Ranks |-> shard[c][tracker.of][r].of]]
  /\ pos' = DataPosition(tracker.of)
  /\ gstep' = tracker.of + 1
  /\ UNCHANGED <<disk, rank, saved, attempt, empty>>

-----------------------------------------------------------------------------
(* The loop of fit *)

IsLastStep == gstep >= NBatches

SaveDue_OnlyOnLastStep == SaveFreq > 0 /\ IsLastStep
SaveDue == SaveFreq > 0 /\ (IsLastStep \/ gstep % SaveFreq = 0)

\* The end of an iteration of the loop.
NextStep ==
  IF IsLastStep
    THEN pc' = "returned" /\ UNCHANGED gstep
    ELSE pc' = "batch" /\ gstep' = gstep + 1

MoreBatches_OneTooMany == pos <= NBatches
MoreBatches == pos < NBatches

\* A batch that is left without rows is skipped: its step is not counted.
SkipEmptyBatch ==
  /\ pc = "batch" /\ MoreBatches
  /\ pos + 1 \in empty
  /\ pos' = pos + 1
  /\ UNCHANGED <<disk, pc, rank, saved, mem, gstep, attempt, empty>>

TrainOnBatch ==
  /\ pc = "batch" /\ MoreBatches
  /\ pos + 1 \notin empty
  /\ pos' = pos + 1
  /\ mem' = [c \in Roles |-> [r \in Ranks |-> Append(mem[c][r], <<attempt, pos + 1>>)]]
  /\ IF SaveDue
       THEN /\ pc' = "actor"
            /\ rank' = [r \in Ranks |-> "remove"]
            /\ UNCHANGED gstep
       ELSE NextStep /\ UNCHANGED rank
  /\ UNCHANGED <<disk, saved, attempt, empty>>

DataLoaderExhausted ==
  /\ pc = "batch" /\ ~MoreBatches
  /\ pc' = "returned"
  /\ UNCHANGED <<disk, rank, saved, mem, pos, gstep, attempt, empty>>

-----------------------------------------------------------------------------
(* FSDPCheckpointManager.save_checkpoint, on every rank of one worker group    *)

Saving == pc \in {"actor", "critic"}

\* How many of the paths saved earlier go before the new one is written.
RemovedNow_OneTooMany(c, r) ==
  IF MaxKeep > 0 /\ Len(saved[c][r]) >= MaxKeep - 1
    THEN Len(saved[c][r]) - MaxKeep + 2 ELSE 0
RemovedNow(c, r) ==
  IF MaxKeep > 0 /\ Len(saved[c][r]) >= MaxKeep
    THEN Len(saved[c][r]) - MaxKeep + 1 ELSE 0

Doomed(c, r) == {saved[c][r][k] : k \in 1 .. RemovedNow(c, r)}

\* shutil.rmtree deletes file by file, the files of the other ranks included.
DeleteOldFile(r) ==
  /\ Saving /\ rank[r] = "remove"
  /\ \E s \in Doomed(pc, r), q \in Ranks :
       /\ shard[pc][s][q] # NoFile
       /\ shard' = [shard EXCEPT ![pc][s][q] = NoFile]
  /\ UNCHANGED <<data, tracker, pc, rank, saved, mem, pos, gstep, attempt, empty>>

MakeFolder(r) ==
  /\ Saving /\ rank[r] = "remove"
  /\ \A s \in Doomed(pc, r), q \in Ranks : shard[pc][s][q] = NoFile
  /\ saved' = [saved EXCEPT ![pc][r] = SubSeq(@, RemovedNow(pc, r) + 1, Len(@))]
  /\ rank' = [rank EXCEPT ![r] = "made"]
  /\ UNCHANGED <<disk, pc, mem, pos, gstep, attempt, empty>>

\* The barrier after mkdir: no rank writes while another is still removing.
OpenShard(r) ==
  /\ Saving /\ rank[r] = "made"
  /\ \A q \in Ranks : rank[q] # "remove"
  /\ shard' = [shard EXCEPT ![pc][gstep][r] = TornFile]
  /\ rank' = [rank EXCEPT ![r] = "writing"]
  /\ UNCHANGED <<data, tracker, pc, saved, mem, pos, gstep, attempt, empty>>

CloseShard(r) ==
  /\ Saving /\ rank[r] = "writing"
  /\ shard' = [shard EXCEPT ![pc][gstep][r] = File(mem[pc][r])]
  /\ rank' = [rank EXCEPT ![r] = "written"]
  /\ UNCHANGED <<data, tracker, pc, saved, mem, pos, gstep, attempt, empty>>

\* The last barrier, and the driver's wait for the results of all ranks.
AllWritten_AnyRank == \E r \in Ranks : rank[r] = "written"
AllWritten == \A r \in Ranks : rank[r] = "written"

SaveReturns ==
  /\ Saving /\ AllWritten
  /\ saved' = [saved EXCEPT ![pc] = [r \in Ranks |-> Append(@[r], gstep)]]
  /\ IF pc = "actor" /\ UseCritic
       THEN pc' = "critic" /\ rank' = [r \in Ranks |-> "remove"]
       ELSE pc' = "data" /\ rank' = [r \in Ranks |-> "idle"]
  /\ UNCHANGED <<disk, mem, pos, gstep, attempt, empty>>

-----------------------------------------------------------------------------
(* The rest of _save_checkpoint, on the driver *)

OpenData ==
  /\ pc = "data" /\ pc' = "dataing"
  /\ data' = [data EXCEPT ![gstep] = TornFile]
  /\ UNCHANGED <<shard, tracker, rank, saved, mem, pos, gstep, attempt, empty>>

CloseData ==
  /\ pc = "dataing" /\ pc' = "track"
  /\ data' = [data EXCEPT ![gstep] = File(pos)]
  /\ UNCHANGED <<shard, tracker, rank, saved, mem, pos, gstep, attempt, empty>>

\* The tracker is opened with "w" and written in place.
OpenTracker ==
  /\ pc = "track" /\ pc' = "tracking"
  /\ tracker' = TornFile
  /\ UNCHANGED <<shard, data, rank, saved, mem, pos, gstep, attempt, empty>>

CloseTracker ==
  /\ pc = "tracking"
  /\ tracker' = File(gstep)
  /\ NextStep
  /\ UNCHANGED <<shard, data, rank, saved, mem, pos, attempt, empty>>

\* The job is killed, or a rank dies and takes the driver with it.
Crash ==
  /\ attempt < MaxCrashes
  /\ pc \notin {"down", "returned"}
  /\ pc' = "down"
  /\ Forget
  /\ attempt' = attempt + 1
  /\ UNCHANGED <<disk, empty>>

-----------------------------------------------------------------------------
RankStep(r) == DeleteOldFile(r) \/ MakeFolder(r) \/ OpenShard(r) \/ CloseShard(r)

DriverStep ==
  \/ TrainFromScratch \/ Resume
  \/ SkipEmptyBatch \/ TrainOnBatch \/ DataLoaderExhausted
  \/ SaveReturns
  \/ OpenData \/ CloseData \/ OpenTracker \/ CloseTracker

Next == DriverStep \/ (\E r \in Ranks : RankStep(r)) \/ Crash

Spec == Init /\ [][Next]_vars

\* A running process makes progress and a crashed one is started again.
FairSpec == Spec /\ WF_vars(DriverStep) /\ \A r \in Ranks : WF_vars(RankStep(r))

-----------------------------------------------------------------------------
(* Safety *)

\* All ranks of actor and critic hold weights of one and the same history; a
\* mix of shards that two attempts wrote to one folder is never loaded.
RanksAgree ==
  \A c, d \in Roles, q, r \in Ranks : mem[c][q] = mem[d][r]

\* The tracker always names a folder that can be loaded.
TrackedCheckpointLoadable ==
  Whole(tracker) => Loadable(tracker.of) /\ Whole(data[tracker.of])

\* A crash costs fewer updates than save_freq, and a run without empty batches
\* ends with its last weights in the tracked checkpoint, whatever the remainder.
BoundedLoss ==
  SaveFreq > 0 =>
    /\ pc = "batch" => gstep - 1 - (IF Whole(tracker) THEN tracker.of ELSE 0) < SaveFreq
    /\ pc = "returned" /\ empty = {} =>
         /\ Whole(tracker)
         /\ \A c \in Roles, r \in Ranks : shard[c][tracker.of][r] = File(mem[c][r])

-----------------------------------------------------------------------------
(* Liveness *)

\* A run that is started again after every crash finishes, unless a crash tore
\* the tracker.
RestartedRunFinishes ==
  [](pc = "down" => tracker # TornFile) => <>(pc = "returned")

-----------------------------------------------------------------------------
(* Refinement *)

Complete(s) == Loadable(s) /\ Whole(data[s])
Newest(S) == CHOOSE s \in S : \A t \in S : t <= s

\* The checkpoint is the one the tracker names, from the moment the tracker is
\* opened to be overwritten the one it is about to name.
DurableStep ==
  IF Whole(tracker) THEN tracker.of
  ELSE Newest({s \in Steps : Complete(s)})

AnyRank == CHOOSE r \in Ranks : TRUE

Durable == INSTANCE DurableTraining WITH
  MaxBatch <- NBatches,
  batches <- Steps \ empty,
  Attempts <- 0 .. MaxCrashes,
  phase <- CASE pc = "down" -> "down" [] pc = "returned" -> "done" [] OTHER -> "running",
  mem <- mem["actor"][AnyRank],
  durable <- IF tracker = NoFile THEN <<>>
             ELSE shard["actor"][DurableStep][AnyRank].of

ImplementsDurableTraining == Durable!DurableSpec
===============================================================================
