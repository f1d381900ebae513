------------------------ MODULE TrainerCheckpointProofs ------------------------
(***************************************************************************)
(* Proofs about TrainerCheckpoint, for any number of ranks, batches and    *)
(* crashes, any save frequency and any number of checkpoints kept, and     *)
(* that it implements DurableTraining.                                     *)
(***************************************************************************)
EXTENDS TrainerCheckpoint, TLAPS

-----------------------------------------------------------------------------
(* The inductive invariant.                                                    *)

\* The weights w are the result of training on the first p batches, but for those in e.
History(w, p, e) ==
  /\ Len(w) <= p
  /\ \A k \in 1 .. Len(w) : w[k][2] \in (1 .. p) \ e
  /\ \A b \in (1 .. p) \ e : \E k \in 1 .. Len(w) : w[k][2] = b
  /\ e = {} => Len(w) = p

Up == pc \notin {"down", "returned"}
InSave == pc \in {"actor", "critic", "data", "dataing", "track", "tracking"}
Due(s) == SaveFreq > 0 /\ (s >= NBatches \/ s % SaveFreq = 0)

\* The step the tracker names, 0 when it names none.
Tracked == IF Whole(tracker) THEN tracker.of ELSE 0

\* What the processes hold in memory.
MemoryInv ==
  /\ pc = "down" =>
       /\ pos = 0
       /\ \A c \in Roles, r \in Ranks : mem[c][r] = <<>> /\ saved[c][r] = <<>>
  /\ pc # "down" => \A c \in Roles, r \in Ranks : History(mem[c][r], pos, empty)
  /\ Up => gstep \in 1 .. NBatches
  /\ pc = "batch" => \A c \in Roles, r \in Ranks : Len(mem[c][r]) + 1 = gstep
  /\ InSave => Due(gstep) /\ \A c \in Roles, r \in Ranks : Len(mem[c][r]) = gstep
  /\ pc = "critic" => UseCritic
  /\ RanksAgree

\* The tracked folder: one history in all its shards, as old as its data.pt.
TrackedInv ==
  /\ pc = "tracking" => tracker = TornFile
  /\ tracker = TornFile => pc \in {"tracking", "down"}
  /\ Whole(tracker) =>
       /\ Whole(data[tracker.of])
       /\ \A c \in Roles, r \in Ranks : shard[c][tracker.of][r] # NoFile =>
            /\ Whole(shard[c][tracker.of][r])
            /\ History(shard[c][tracker.of][r].of, data[tracker.of].of, empty)
            /\ Len(shard[c][tracker.of][r].of) = tracker.of
       /\ \A c, d \in Roles, q, r \in Ranks :
            shard[c][tracker.of][q] # NoFile /\ shard[d][tracker.of][r] # NoFile
              => shard[c][tracker.of][q].of = shard[d][tracker.of][r].of
       /\ MaxKeep # 1 => \A c \in Roles, r \in Ranks : Whole(shard[c][tracker.of][r])
       /\ pc # "returned" => tracker.of < NBatches
       /\ Up => tracker.of < gstep

\* No attempt has got further than the first save after the tracked one.
AheadInv ==
  /\ tracker # TornFile =>
       \A s, d \in Steps : FolderExists(s) /\ Tracked < d /\ d < s => ~Due(d)
  /\ Up /\ pc # "tracking" => \A d \in Steps : Tracked < d /\ d < gstep => ~Due(d)
  /\ pc = "tracking" => \A s \in Steps : gstep < s => ~FolderExists(s)

\* What the save that is running has written so far.
WrittenInv ==
  /\ Saving => \A r \in Ranks : rank[r] = "written" => shard[pc][gstep][r] = File(mem[pc][r])
  /\ pc = "critic" => \A r \in Ranks : shard["actor"][gstep][r] = File(mem["actor"][r])
  /\ pc \in {"data", "dataing", "track", "tracking"} =>
       \A c \in Roles, r \in Ranks : shard[c][gstep][r] = File(mem[c][r])
  /\ pc \in {"track", "tracking"} => data[gstep] = File(pos)

\* The role c has not been saved at this step yet.
Unsaved(c) == pc \in {"batch", "actor"} \/ (pc = "critic" /\ c = "critic")

\* The paths a rank remembers end with the tracked one, or with the one of the save
\* that is running.
KeepInv ==
  \A c \in Roles, r \in Ranks :
    /\ Unsaved(c) => \A k \in 1 .. Len(saved[c][r]) :
         saved[c][r][k] <= Tracked /\ (k < Len(saved[c][r]) => saved[c][r][k] < Tracked)
    /\ InSave /\ ~Unsaved(c) => \A k \in 1 .. Len(saved[c][r]) :
         saved[c][r][k] <= gstep /\ (k < Len(saved[c][r]) => saved[c][r][k] < gstep)

\* How far the tracker is behind.
LossInv ==
  SaveFreq > 0 =>
    /\ tracker # TornFile /\ pc # "returned" => Tracked % SaveFreq = 0
    /\ pc = "batch" => gstep <= Tracked + SaveFreq
    /\ pc = "returned" /\ empty = {} =>
         /\ Whole(tracker)
         /\ \A c \in Roles, r \in Ranks : shard[c][tracker.of][r] = File(mem[c][r])

IInv ==
  /\ TypeOK /\ MemoryInv /\ TrackedInv /\ AheadInv /\ WrittenInv /\ KeepInv /\ LossInv

-----------------------------------------------------------------------------
(* Types.                                                                      *)

LEMMA FileTypes ==
  /\ NoFile.is = "missing" /\ TornFile.is = "torn"
  /\ ~Whole(NoFile) /\ ~Whole(TornFile) /\ NoFile # TornFile
  /\ \A x : Whole(File(x)) /\ File(x).of = x /\ File(x) # NoFile /\ File(x) # TornFile
  /\ \A S : NoFile \in Files(S) /\ TornFile \in Files(S)
  /\ \A S : \A x \in S : File(x) \in Files(S)
  /\ \A S : \A f \in Files(S) :
       f = NoFile \/ f = TornFile \/ (Whole(f) /\ f.of \in S /\ f = File(f.of))
BY DEF NoFile, TornFile, Whole, File, Files

LEMMA InitType == CheckpointAssumption /\ Init => TypeOK
BY FileTypes DEF CheckpointAssumption, Init, TypeOK

\* One shard is written or deleted.
LEMMA PutShard ==
  ASSUME TypeOK, NEW c \in Roles, NEW s \in Steps, NEW r \in Ranks,
         NEW f \in Files(Seq(Updates)),
         shard' = [shard EXCEPT ![c][s][r] = f]
  PROVE  /\ shard' \in [Roles -> [Steps -> [Ranks -> Files(Seq(Updates))]]]
         /\ \A d \in Roles, t \in Steps, q \in Ranks :
              shard'[d][t][q] = IF d = c /\ t = s /\ q = r THEN f ELSE shard[d][t][q]
BY DEF TypeOK

LEMMA RolesType ==
  /\ "actor" \in Roles /\ (UseCritic <=> "critic" \in Roles)
  /\ Roles \subseteq {"actor", "critic"}
BY DEF Roles

LEMMA SavingRole == MemoryInv /\ Saving => pc \in Roles /\ gstep \in Steps
BY RolesType DEF MemoryInv, Saving, Steps, Up

\* Only paths that are remembered are removed, and with MaxKeep # 1 never the last one.
LEMMA RemovedType ==
  ASSUME CheckpointAssumption, TypeOK, NEW c \in Roles, NEW r \in Ranks
  PROVE  /\ Len(saved[c][r]) \in Nat
         /\ RemovedNow(c, r) \in 0 .. Len(saved[c][r])
         /\ MaxKeep # 1 /\ RemovedNow(c, r) > 0 => RemovedNow(c, r) < Len(saved[c][r])
         /\ \A k \in 1 .. Len(saved[c][r]) : saved[c][r][k] \in Steps
<1>1. saved[c][r] \in Seq(Steps)
  BY DEF TypeOK
<1> QED BY <1>1 DEF RemovedNow, CheckpointAssumption

LEMMA DoomedIsOld ==
  ASSUME CheckpointAssumption, TypeOK, NEW c \in Roles, NEW r \in Ranks,
         NEW s \in Doomed(c, r)
  PROVE  /\ s \in Steps
         /\ \E k \in 1 .. Len(saved[c][r]) :
              s = saved[c][r][k] /\ (MaxKeep # 1 => k < Len(saved[c][r]))
<1>1. PICK k \in 1 .. RemovedNow(c, r) : s = saved[c][r][k]
  BY DEF Doomed
<1>2. k \in 1 .. Len(saved[c][r]) /\ (MaxKeep # 1 => k < Len(saved[c][r]))
  BY <1>1, RemovedType
<1> QED BY <1>1, <1>2, RemovedType

LEMMA TypeStep == CheckpointAssumption /\ TypeOK /\ MemoryInv /\ [Next]_vars => TypeOK'
<1> SUFFICES ASSUME CheckpointAssumption, TypeOK, MemoryInv, [Next]_vars PROVE TypeOK'
  OBVIOUS
<1> USE FileTypes
<1>1. CASE TrainFromScratch
  BY <1>1 DEF TrainFromScratch, TypeOK, disk, CheckpointAssumption
<1>2. CASE Resume
  <2>1. tracker.of \in Steps
    BY <1>2 DEF Resume, TypeOK
  <2>2. \A c \in Roles, r \in Ranks : shard[c][tracker.of][r].of \in Seq(Updates)
    <3> SUFFICES ASSUME NEW c \in Roles, NEW r \in Ranks
                 PROVE  shard[c][tracker.of][r].of \in Seq(Updates)
      OBVIOUS
    <3>1. shard[c][tracker.of][r] \in Files(Seq(Updates))
      BY <2>1 DEF TypeOK
    <3>2. Whole(shard[c][tracker.of][r])
      BY <1>2 DEF Resume, Loadable
    <3> QED BY <3>1, <3>2
  <2>3. DataPosition(tracker.of) \in 0 .. NBatches
    <3>1. data[tracker.of] \in Files(Steps)
      BY <2>1 DEF TypeOK
    <3>2. Whole(data[tracker.of]) => data[tracker.of].of \in Steps
      BY <3>1
    <3> QED BY <3>2 DEF DataPosition, Steps, CheckpointAssumption
  <2>4. tracker.of + 1 \in 0 .. NBatches + 1
    BY <2>1 DEF Steps, CheckpointAssumption
  <2> QED BY <1>2, <2>2, <2>3, <2>4 DEF Resume, TypeOK, disk
<1>3. CASE SkipEmptyBatch
  BY <1>3 DEF SkipEmptyBatch, MoreBatches, TypeOK, disk, CheckpointAssumption
<1>4. CASE TrainOnBatch
  <2>1. <<attempt, pos + 1>> \in Updates
    BY <1>4 DEF TrainOnBatch, MoreBatches, TypeOK, Updates, Steps, CheckpointAssumption
  <2>2. mem' \in [Roles -> [Ranks -> Seq(Updates)]]
    BY <1>4, <2>1 DEF TrainOnBatch, TypeOK
  <2>3. pos' \in 0 .. NBatches
    BY <1>4 DEF TrainOnBatch, MoreBatches, TypeOK, CheckpointAssumption
  <2>4. gstep' \in 0 .. NBatches + 1
    BY <1>4 DEF TrainOnBatch, NextStep, IsLastStep, MemoryInv, Up, TypeOK, CheckpointAssumption
  <2>5. rank' \in [Ranks -> {"idle", "remove", "made", "writing", "written"}]
        /\ pc' \in {"batch", "actor", "returned"}
    BY <1>4 DEF TrainOnBatch, NextStep, TypeOK
  <2> QED BY <1>4, <2>2, <2>3, <2>4, <2>5 DEF TrainOnBatch, TypeOK, disk
<1>5. CASE DataLoaderExhausted
  BY <1>5 DEF DataLoaderExhausted, TypeOK, disk
<1>6. CASE SaveReturns
  <2>1. pc \in Roles /\ gstep \in Steps
    BY <1>6, SavingRole DEF SaveReturns
  <2>2. saved' \in [Roles -> [Ranks -> Seq(Steps)]]
    BY <1>6, <2>1 DEF SaveReturns, TypeOK
  <2> QED BY <1>6, <2>2 DEF SaveReturns, TypeOK, disk
<1>7. CASE OpenData \/ CloseData \/ OpenTracker \/ CloseTracker
  <2>1. gstep \in Steps
    BY <1>7 DEF OpenData, CloseData, OpenTracker, CloseTracker, MemoryInv, Up, Steps
  <2>2. pc = "dataing" => pos \in Steps
    <3>1. SUFFICES ASSUME pc = "dataing" PROVE pos \in Steps
      OBVIOUS
    <3>2. PICK r \in Ranks : TRUE
      BY DEF CheckpointAssumption
    <3>3. Len(mem["actor"][r]) = gstep /\ Len(mem["actor"][r]) <= pos
      BY <3>1, RolesType DEF MemoryInv, InSave, History
    <3> QED BY <3>3, <2>1 DEF TypeOK, Steps, CheckpointAssumption
  <2>3. CASE OpenData
    BY <2>3, <2>1 DEF OpenData, TypeOK
  <2>4. CASE CloseData
    BY <2>4, <2>1, <2>2 DEF CloseData, TypeOK
  <2>5. CASE OpenTracker
    BY <2>5, <2>1 DEF OpenTracker, TypeOK
  <2>6. CASE CloseTracker
    BY <2>6, <2>1 DEF CloseTracker, NextStep, IsLastStep, TypeOK, Steps, CheckpointAssumption
  <2> QED BY <1>7, <2>3, <2>4, <2>5, <2>6
<1>8. CASE Crash
  BY <1>8 DEF Crash, Forget, TypeOK, disk, CheckpointAssumption
<1>9. ASSUME NEW r \in Ranks, RankStep(r) PROVE TypeOK'
  <2>0. pc \in Roles /\ gstep \in Steps
    BY <1>9, SavingRole DEF RankStep, DeleteOldFile, MakeFolder, OpenShard, CloseShard
  <2>1. CASE DeleteOldFile(r)
    <3>1. PICK s \in Doomed(pc, r), q \in Ranks : shard' = [shard EXCEPT ![pc][s][q] = NoFile]
      BY <2>1 DEF DeleteOldFile
    <3>2. s \in Steps
      BY <2>0, <3>1, DoomedIsOld
    <3> QED BY <2>0, <2>1, <3>1, <3>2, PutShard DEF DeleteOldFile, TypeOK
  <2>2. CASE MakeFolder(r)
    <3>1. SubSeq(saved[pc][r], RemovedNow(pc, r) + 1, Len(saved[pc][r])) \in Seq(Steps)
      <4>1. saved[pc][r] \in Seq(Steps)
        BY <2>0 DEF TypeOK
      <4>2. RemovedNow(pc, r) \in Nat
        BY <2>0, RemovedType
      <4> QED BY <4>1, <4>2
    <3> QED BY <2>0, <2>2, <3>1 DEF MakeFolder, TypeOK, disk
  <2>3. CASE OpenShard(r)
    BY <2>0, <2>3, PutShard DEF OpenShard, TypeOK
  <2>4. CASE CloseShard(r)
    BY <2>0, <2>4, PutShard DEF CloseShard, TypeOK
  <2> QED BY <1>9, <2>1, <2>2, <2>3, <2>4 DEF RankStep
<1>10. CASE UNCHANGED vars
  BY <1>10 DEF vars, disk, TypeOK
<1> QED BY <1>1, <1>2, <1>3, <1>4, <1>5, <1>6, <1>7, <1>8, <1>9, <1>10 DEF Next, DriverStep

-----------------------------------------------------------------------------
(* Histories.                                                                  *)

LEMMA HistoryGrows ==
  ASSUME NEW w \in Seq(Updates), NEW p \in Nat, NEW u \in Updates,
         u[2] = p + 1, p + 1 \notin empty, History(w, p, empty)
  PROVE  History(Append(w, u), p + 1, empty) /\ Len(Append(w, u)) = Len(w) + 1
<1> DEFINE v == Append(w, u)
<1>1. /\ Len(w) \in Nat /\ Len(v) = Len(w) + 1 /\ v[Len(w) + 1] = u
      /\ \A k \in 1 .. Len(w) : v[k] = w[k]
  OBVIOUS
<1>2. \A k \in 1 .. Len(v) : v[k][2] \in (1 .. p + 1) \ empty
  <2> SUFFICES ASSUME NEW k \in 1 .. Len(v) PROVE v[k][2] \in (1 .. p + 1) \ empty
    OBVIOUS
  <2>1. CASE k = Len(w) + 1
    BY <1>1, <2>1
  <2>2. CASE k \in 1 .. Len(w)
    <3>1. w[k][2] \in (1 .. p) \ empty
      BY <2>2 DEF History
    <3> QED BY <1>1, <2>2, <3>1
  <2> QED BY <1>1, <2>1, <2>2
<1>3. \A b \in (1 .. p + 1) \ empty : \E k \in 1 .. Len(v) : v[k][2] = b
  <2> SUFFICES ASSUME NEW b \in (1 .. p + 1) \ empty
               PROVE  \E k \in 1 .. Len(v) : v[k][2] = b
    OBVIOUS
  <2>1. CASE b = p + 1
    BY <1>1, <2>1
  <2>2. CASE b \in 1 .. p
    <3>1. PICK k \in 1 .. Len(w) : w[k][2] = b
      BY <2>2 DEF History
    <3> QED BY <1>1, <3>1
  <2> QED BY <2>1, <2>2
<1>4. Len(v) <= p + 1 /\ (empty = {} => Len(v) = p + 1)
  BY <1>1 DEF History
<1> QED BY <1>1, <1>2, <1>3, <1>4 DEF History

LEMMA HistorySkips ==
  ASSUME NEW w \in Seq(Updates), NEW p \in Nat, p + 1 \in empty, History(w, p, empty)
  PROVE  History(w, p + 1, empty)
BY DEF History

LEMMA NoHistory == \A e : History(<<>>, 0, e)
BY DEF History

-----------------------------------------------------------------------------
(* What the processes hold in memory.                                          *)

LEMMA SaveDueIsDue == (SaveDue <=> Due(gstep))
BY DEF SaveDue, Due, IsLastStep

LEMMA InitMemory == CheckpointAssumption /\ Init => MemoryInv
BY DEF Init, MemoryInv, Up, InSave, RanksAgree

LEMMA MemoryFrame ==
  MemoryInv /\ UNCHANGED <<pc, saved, mem, pos, gstep, empty>> => MemoryInv'
BY DEF MemoryInv, Up, InSave, RanksAgree, Due

LEMMA MemoryStep ==
  CheckpointAssumption /\ TypeOK /\ MemoryInv /\ TrackedInv /\ [Next]_vars => MemoryInv'
<1> SUFFICES ASSUME CheckpointAssumption, TypeOK, MemoryInv, TrackedInv, [Next]_vars
             PROVE  MemoryInv'
  OBVIOUS
<1>1. CASE TrainFromScratch
  BY <1>1, NoHistory
  DEF TrainFromScratch, MemoryInv, Up, InSave, RanksAgree, TypeOK, CheckpointAssumption
<1>2. CASE Resume
  <2>1. tracker.of \in Steps /\ tracker.of < NBatches
    BY <1>2, FileTypes DEF Resume, TypeOK, TrackedInv
  <2>2. \A c \in Roles, r \in Ranks :
          /\ mem'[c][r] = shard[c][tracker.of][r].of
          /\ Whole(shard[c][tracker.of][r]) /\ shard[c][tracker.of][r] # NoFile
    BY <1>2, FileTypes DEF Resume, Loadable
  <2>3. pos' = data[tracker.of].of
    BY <1>2 DEF Resume, DataPosition, TrackedInv
  <2>4. \A c \in Roles, r \in Ranks :
          History(mem'[c][r], pos', empty) /\ Len(mem'[c][r]) = tracker.of
    BY <1>2, <2>2, <2>3 DEF Resume, TrackedInv
  <2>5. \A c, d \in Roles, q, r \in Ranks : mem'[c][q] = mem'[d][r]
    BY <1>2, <2>2 DEF Resume, TrackedInv
  <2>6. \A c \in Roles, r \in Ranks : History(mem'[c][r], pos', empty')
    BY <1>2, <2>4 DEF Resume
  <2>7. pc' = "batch" /\ gstep' = tracker.of + 1
    BY <1>2 DEF Resume
  <2>8. gstep' \in 1 .. NBatches /\ \A c \in Roles, r \in Ranks : Len(mem'[c][r]) + 1 = gstep'
    BY <2>1, <2>4, <2>7 DEF Steps, CheckpointAssumption
  <2>9. RanksAgree'
    BY <2>5 DEF RanksAgree
  <2> QED BY <2>6, <2>7, <2>8, <2>9 DEF MemoryInv, Up, InSave
<1>3. CASE SkipEmptyBatch
  <2>1. \A c \in Roles, r \in Ranks : History(mem[c][r], pos + 1, empty)
    BY <1>3, HistorySkips DEF SkipEmptyBatch, MemoryInv, TypeOK
  <2>2. \A c \in Roles, r \in Ranks : History(mem'[c][r], pos', empty')
    BY <1>3, <2>1 DEF SkipEmptyBatch
  <2> QED BY <1>3, <2>2 DEF SkipEmptyBatch, MemoryInv, Up, InSave, RanksAgree
<1>4. CASE TrainOnBatch
  <2>1. <<attempt, pos + 1>> \in Updates
    BY <1>4 DEF TrainOnBatch, MoreBatches, TypeOK, Updates, Steps, CheckpointAssumption
  <2>2. \A c \in Roles, r \in Ranks :
          /\ mem'[c][r] = Append(mem[c][r], <<attempt, pos + 1>>)
          /\ mem[c][r] \in Seq(Updates)
    BY <1>4 DEF TrainOnBatch, TypeOK
  <2>3. \A c \in Roles, r \in Ranks :
          History(mem'[c][r], pos + 1, empty) /\ Len(mem'[c][r]) = Len(mem[c][r]) + 1
    BY <1>4, <2>1, <2>2, HistoryGrows DEF TrainOnBatch, MemoryInv, TypeOK
  <2>4. \A c \in Roles, r \in Ranks : History(mem'[c][r], pos', empty')
    BY <1>4, <2>3 DEF TrainOnBatch
  <2>5. RanksAgree'
    <3>1. \A c, d \in Roles, q, r \in Ranks : mem[c][q] = mem[d][r]
      BY DEF MemoryInv, RanksAgree
    <3> SUFFICES ASSUME NEW c \in Roles, NEW d \in Roles, NEW q \in Ranks, NEW r \in Ranks
                 PROVE  mem'[c][q] = mem'[d][r]
      BY DEF RanksAgree
    <3>2. /\ mem'[c][q] = Append(mem[c][q], <<attempt, pos + 1>>)
          /\ mem'[d][r] = Append(mem[d][r], <<attempt, pos + 1>>)
      BY ONLY <2>2, c \in Roles, d \in Roles, q \in Ranks, r \in Ranks
    <3>3. mem[c][q] = mem[d][r]
      BY ONLY <3>1, c \in Roles, d \in Roles, q \in Ranks, r \in Ranks
    <3> QED BY ONLY <3>2, <3>3
  <2>6. \A c \in Roles, r \in Ranks : Len(mem'[c][r]) = gstep
    BY <1>4, <2>3 DEF TrainOnBatch, MemoryInv
  <2>7. CASE SaveDue
    <3>1. pc' = "actor" /\ gstep' = gstep /\ Due(gstep)'
      BY <1>4, <2>7, SaveDueIsDue DEF TrainOnBatch, Due
    <3> QED BY <1>4, <3>1, <2>4, <2>5, <2>6 DEF TrainOnBatch, MemoryInv, Up, InSave
  <2>8. CASE ~SaveDue /\ IsLastStep
    BY <1>4, <2>8, <2>4, <2>5 DEF TrainOnBatch, NextStep, MemoryInv, Up, InSave
  <2>9. CASE ~SaveDue /\ ~IsLastStep
    <3>1. pc' = "batch" /\ gstep' = gstep + 1 /\ gstep' \in 1 .. NBatches
      BY <1>4, <2>9 DEF TrainOnBatch, NextStep, IsLastStep, MemoryInv, Up,
         CheckpointAssumption
    <3> QED BY <3>1, <2>4, <2>5, <2>6 DEF MemoryInv, Up, InSave
  <2> QED BY <2>7, <2>8, <2>9
<1>5. CASE DataLoaderExhausted
  BY <1>5 DEF DataLoaderExhausted, MemoryInv, Up, InSave, RanksAgree
<1>6. CASE SaveReturns
  BY <1>6 DEF SaveReturns, Saving, MemoryInv, Up, InSave, RanksAgree, Due
<1>7. CASE OpenData \/ CloseData \/ OpenTracker
  BY <1>7 DEF OpenData, CloseData, OpenTracker, MemoryInv, Up, InSave, RanksAgree,
     Due
<1>8. CASE CloseTracker
  <2>1. \A c \in Roles, r \in Ranks : History(mem'[c][r], pos', empty')
    BY <1>8 DEF CloseTracker, MemoryInv
  <2> QED BY <1>8, <2>1 DEF CloseTracker, NextStep, IsLastStep, MemoryInv, Up, InSave,
      RanksAgree, CheckpointAssumption
<1>9. CASE Crash
  BY <1>9 DEF Crash, Forget, MemoryInv, Up, InSave, RanksAgree
<1>10. ASSUME NEW r \in Ranks, RankStep(r) PROVE MemoryInv'
  <2>1. CASE DeleteOldFile(r) \/ OpenShard(r) \/ CloseShard(r)
    BY <2>1, MemoryFrame DEF DeleteOldFile, OpenShard, CloseShard
  <2>2. CASE MakeFolder(r)
    BY <2>2 DEF MakeFolder, Saving, MemoryInv, Up, InSave, RanksAgree, Due
  <2> QED BY <1>10, <2>1, <2>2 DEF RankStep
<1>11. CASE UNCHANGED vars
  BY <1>11, MemoryFrame DEF vars
<1> QED BY <1>1, <1>2, <1>3, <1>4, <1>5, <1>6, <1>7, <1>8, <1>9, <1>10, <1>11
    DEF Next, DriverStep

-----------------------------------------------------------------------------
(* The tracked folder.                                                         *)

\* A rank only ever removes folders that are no newer than the tracked one, and not the
\* tracked one itself unless MaxKeep is 1.
LEMMA DoomedIsBehind ==
  ASSUME CheckpointAssumption, IInv, Saving, NEW r \in Ranks, NEW s \in Doomed(pc, r)
  PROVE  /\ s \in Steps /\ s <= Tracked /\ (MaxKeep # 1 => s < Tracked)
         /\ Tracked < gstep
<1>1. pc \in Roles /\ gstep \in Steps /\ Unsaved(pc) /\ Up
  BY SavingRole DEF IInv, Unsaved, Saving, Up
<1>2. PICK k \in 1 .. Len(saved[pc][r]) :
        s = saved[pc][r][k] /\ (MaxKeep # 1 => k < Len(saved[pc][r]))
  BY <1>1, DoomedIsOld DEF IInv
<1>3. s \in Steps
  BY <1>1, DoomedIsOld DEF IInv
<1>4. s <= Tracked /\ (MaxKeep # 1 => s < Tracked)
  BY <1>1, <1>2 DEF IInv, KeepInv
<1>5. Tracked < gstep
  BY <1>1 DEF IInv, TrackedInv, Tracked, Steps
<1> QED BY <1>3, <1>4, <1>5

\* Deleting and writing a shard leave the other files alone.
OneShard(c, s, r, f) ==
  \A d \in Roles, t \in Steps, q \in Ranks :
    shard'[d][t][q] = IF d = c /\ t = s /\ q = r THEN f ELSE shard[d][t][q]

LEMMA ShardStep ==
  ASSUME CheckpointAssumption, IInv, NEW r \in Ranks,
         DeleteOldFile(r) \/ OpenShard(r) \/ CloseShard(r)
  PROVE  /\ Saving /\ pc \in Roles /\ gstep \in Steps
         /\ \/ \E f \in Files(Seq(Updates)) : f # NoFile /\ OneShard(pc, gstep, r, f)
            \/ \E s \in Doomed(pc, r), q \in Ranks : OneShard(pc, s, q, NoFile)
<1>1. Saving /\ pc \in Roles /\ gstep \in Steps
  BY SavingRole DEF IInv, DeleteOldFile, OpenShard, CloseShard
<1>2. CASE DeleteOldFile(r)
  <2>1. PICK s \in Doomed(pc, r), q \in Ranks : shard' = [shard EXCEPT ![pc][s][q] = NoFile]
    BY <1>2 DEF DeleteOldFile
  <2>2. s \in Steps /\ NoFile \in Files(Seq(Updates))
    BY <1>1, <2>1, DoomedIsBehind, FileTypes
  <2>3. OneShard(pc, s, q, NoFile)
    <3>1. shard \in [Roles -> [Steps -> [Ranks -> Files(Seq(Updates))]]]
      BY DEF IInv, TypeOK
    <3> QED BY ONLY <1>1, <2>1, <2>2, <3>1, q \in Ranks DEF OneShard
  <2> QED BY <1>1, <2>1, <2>3
<1>3. CASE OpenShard(r)
  <2>1. TornFile \in Files(Seq(Updates)) /\ TornFile # NoFile
    BY FileTypes
  <2>2. shard' = [shard EXCEPT ![pc][gstep][r] = TornFile]
    BY <1>3 DEF OpenShard
  <2>3. OneShard(pc, gstep, r, TornFile)
    BY <1>1, <2>1, <2>2 DEF IInv, TypeOK, OneShard
  <2> QED BY <1>1, <2>1, <2>3
<1>4. CASE CloseShard(r)
  <2>1. File(mem[pc][r]) \in Files(Seq(Updates)) /\ File(mem[pc][r]) # NoFile
    BY <1>1, FileTypes DEF IInv, TypeOK
  <2>2. shard' = [shard EXCEPT ![pc][gstep][r] = File(mem[pc][r])]
    BY <1>4 DEF CloseShard
  <2>3. OneShard(pc, gstep, r, File(mem[pc][r]))
    BY <1>1, <2>1, <2>2 DEF IInv, TypeOK, OneShard
  <2> QED BY <1>1, <2>1, <2>3
<1> QED BY <1>1, <1>2, <1>3, <1>4

LEMMA InitTracked == CheckpointAssumption /\ Init => TrackedInv
BY FileTypes DEF Init, TrackedInv, Up

LEMMA TrackedFrame ==
  TrackedInv /\ UNCHANGED <<shard, data, tracker, pc, gstep, empty>> => TrackedInv'
BY DEF TrackedInv, Up

\* A step after which the tracker still names the same folder keeps the invariant when
\* it only deletes from that folder, and then only if MaxKeep is 1.
LEMMA TrackedKept ==
  ASSUME TypeOK, TrackedInv, UNCHANGED <<tracker, empty>>,
         pc' # "tracking", tracker # TornFile,
         Whole(tracker) =>
           /\ data'[tracker.of] = data[tracker.of]
           /\ \A c \in Roles, r \in Ranks :
                \/ shard'[c][tracker.of][r] = shard[c][tracker.of][r]
                \/ shard'[c][tracker.of][r] = NoFile /\ MaxKeep = 1
           /\ pc' # "returned" => tracker.of < NBatches
           /\ Up' => tracker.of < gstep'
  PROVE  TrackedInv'
<1>1. CASE ~Whole(tracker)
  BY <1>1 DEF TrackedInv, Whole
<1>2. CASE Whole(tracker)
  <2> DEFINE t == tracker.of
  <2>1. tracker' = tracker /\ t \in Steps
    BY <1>2, FileTypes DEF TypeOK
  <2>2. Whole(data[t])'
    BY <1>2, <2>1 DEF TrackedInv, Whole
  <2>3. \A c \in Roles, r \in Ranks :
          shard'[c][t][r] # NoFile => shard'[c][t][r] = shard[c][t][r]
    BY <1>2
  <2>4. \A c \in Roles, r \in Ranks : shard'[c][t][r] # NoFile =>
          /\ Whole(shard'[c][t][r])
          /\ History(shard'[c][t][r].of, data'[t].of, empty)
          /\ Len(shard'[c][t][r].of) = t
    BY <1>2, <2>3 DEF TrackedInv
  <2>5. \A c \in Roles, r \in Ranks :
          shard'[c][t][r] # NoFile => History(shard'[c][t][r].of, data'[t].of, empty')
    BY <2>4
  <2>6. \A c, d \in Roles, q, r \in Ranks :
          shard'[c][t][q] # NoFile /\ shard'[d][t][r] # NoFile
            => shard'[c][t][q].of = shard'[d][t][r].of
    <3> SUFFICES ASSUME NEW c \in Roles, NEW d \in Roles, NEW q \in Ranks, NEW r \in Ranks,
                        shard'[c][t][q] # NoFile, shard'[d][t][r] # NoFile
                 PROVE  shard'[c][t][q].of = shard'[d][t][r].of
      OBVIOUS
    <3>1. shard'[c][t][q] = shard[c][t][q] /\ shard'[d][t][r] = shard[d][t][r]
      BY <2>3
    <3> QED BY <1>2, <3>1 DEF TrackedInv
  <2>7. MaxKeep # 1 => \A c \in Roles, r \in Ranks : Whole(shard'[c][t][r])
    BY <1>2 DEF TrackedInv
  <2> QED BY <1>2, <2>1, <2>2, <2>4, <2>5, <2>6, <2>7 DEF TrackedInv, Whole
<1> QED BY <1>1, <1>2

LEMMA TrackedStep == CheckpointAssumption /\ IInv /\ [Next]_vars => TrackedInv'
<1> SUFFICES ASSUME CheckpointAssumption, IInv, [Next]_vars PROVE TrackedInv'
  OBVIOUS
<1>0. /\ TypeOK /\ TrackedInv /\ gstep \in Int
      /\ Whole(tracker) => tracker.of \in Steps
  <2>1. TypeOK /\ TrackedInv
    BY DEF IInv
  <2>2. gstep \in Int /\ tracker \in Files(Steps)
    BY <2>1 DEF TypeOK
  <2> QED BY <2>1, <2>2, FileTypes
<1>1. CASE TrainFromScratch
  <2>1. tracker = NoFile
    BY <1>0, <1>1, FileTypes DEF TrainFromScratch, FromScratch, FolderExists, TrackedInv
  <2> QED BY <1>1, <2>1, FileTypes DEF TrainFromScratch, TrackedInv, disk
<1>2. CASE Resume
  <2>1. tracker # TornFile /\ gstep' = tracker.of + 1 /\ tracker.of \in Int
    BY <1>0, <1>2, FileTypes DEF Resume, Steps
  <2>2. UNCHANGED <<disk, empty>> /\ pc' = "batch" /\ pc # "returned" /\ Whole(tracker)
    BY <1>2 DEF Resume, disk
  <2>3. tracker.of < NBatches
    BY <1>0, <2>2 DEF TrackedInv
  <2> QED BY <1>0, <2>1, <2>2, <2>3, TrackedKept DEF TrackedInv, Up, disk
<1>3. CASE SkipEmptyBatch
  BY <1>0, <1>3, TrackedFrame DEF SkipEmptyBatch, disk
<1>4. CASE TrainOnBatch
  <2>1. pc = "batch" /\ pc' \in {"batch", "actor", "returned"} /\ gstep' \in {gstep, gstep + 1}
    BY <1>4 DEF TrainOnBatch, NextStep
  <2>2. UNCHANGED <<disk, empty>>
    BY <1>4 DEF TrainOnBatch
  <2> QED BY <1>0, <2>1, <2>2, TrackedKept DEF TrackedInv, Up, disk, Steps
<1>5. CASE DataLoaderExhausted
  BY <1>0, <1>5, TrackedKept DEF DataLoaderExhausted, TrackedInv, Up, disk
<1>6. CASE SaveReturns
  BY <1>0, <1>6, TrackedKept DEF SaveReturns, Saving, TrackedInv, Up, disk
<1>7. CASE OpenData \/ CloseData
  <2>1. Whole(tracker) => tracker.of # gstep /\ tracker.of < NBatches
    BY <1>0, <1>7 DEF OpenData, CloseData, TrackedInv, Up, Steps
  <2>2. Whole(tracker) => data'[tracker.of] = data[tracker.of]
    BY <1>0, <1>7, <2>1 DEF OpenData, CloseData, TypeOK
  <2> QED BY <1>0, <1>7, <2>1, <2>2, TrackedKept DEF OpenData, CloseData, TrackedInv, Up
<1>8. CASE OpenTracker
  BY <1>8, FileTypes DEF OpenTracker, TrackedInv
<1>9. CASE CloseTracker
  <2>1. /\ tracker' = File(gstep) /\ Whole(tracker') /\ tracker'.of = gstep
        /\ tracker' # TornFile
    BY <1>9, FileTypes DEF CloseTracker
  <2>2. UNCHANGED <<shard, data, mem, pos, empty>> /\ pc = "tracking"
    BY <1>9 DEF CloseTracker
  <2>3. data'[gstep] = File(pos)
    BY <2>2 DEF IInv, WrittenInv
  <2>4. \A c \in Roles, r \in Ranks :
          /\ shard'[c][gstep][r] = File(mem[c][r])
          /\ History(mem'[c][r], pos', empty') /\ Len(mem[c][r]) = gstep
    <3>1. \A c \in Roles, r \in Ranks : History(mem[c][r], pos, empty)
      BY <2>2 DEF IInv, MemoryInv
    <3>2. \A c \in Roles, r \in Ranks : History(mem'[c][r], pos', empty')
      BY <3>1, <2>2
    <3> QED BY <3>2, <2>2 DEF IInv, WrittenInv, MemoryInv, InSave
  <2>5. \A c, d \in Roles, q, r \in Ranks : mem[c][q] = mem[d][r]
    BY DEF IInv, MemoryInv, RanksAgree
  <2>6. /\ pc' \in {"returned", "batch"}
        /\ pc' # "returned" => gstep < NBatches /\ gstep' = gstep + 1
    BY <1>0, <1>9 DEF CloseTracker, NextStep, IsLastStep, CheckpointAssumption
  <2>7. /\ Whole(data'[gstep]) /\ data'[gstep].of = pos
        /\ \A c \in Roles, r \in Ranks :
             Whole(shard'[c][gstep][r]) /\ shard'[c][gstep][r].of = mem[c][r]
    BY <2>3, <2>4, FileTypes
  <2> QED BY <1>0, <2>1, <2>2, <2>4, <2>5, <2>6, <2>7 DEF TrackedInv, Up, Whole
<1>10. CASE Crash
  BY <1>0, <1>10, TrackedKept DEF Crash, TrackedInv, Up, disk
<1>11. ASSUME NEW r \in Ranks, RankStep(r) PROVE TrackedInv'
  <2>1. CASE MakeFolder(r)
    BY <1>0, <2>1, TrackedFrame DEF MakeFolder, disk
  <2>2. CASE DeleteOldFile(r) \/ OpenShard(r) \/ CloseShard(r)
    <3>1. UNCHANGED <<data, tracker, pc, gstep, empty>>
      BY <2>2 DEF DeleteOldFile, OpenShard, CloseShard
    <3>2. Saving /\ tracker # TornFile
      BY <1>0, <2>2, ShardStep DEF Saving, TrackedInv
    <3>3. ASSUME Whole(tracker), NEW c \in Roles, NEW q \in Ranks
          PROVE  \/ shard'[c][tracker.of][q] = shard[c][tracker.of][q]
                 \/ shard'[c][tracker.of][q] = NoFile /\ MaxKeep = 1
      <4>1. Tracked = tracker.of /\ tracker.of < gstep /\ tracker.of \in Steps
        BY <1>0, <3>2, <3>3 DEF Tracked, TrackedInv, Up, Saving
      <4>2. ASSUME NEW f, OneShard(pc, gstep, r, f)
            PROVE  shard'[c][tracker.of][q] = shard[c][tracker.of][q]
        BY <4>1, <4>2, <3>3, <1>0 DEF OneShard, Steps
      <4>3. ASSUME NEW s \in Doomed(pc, r), NEW p \in Ranks, OneShard(pc, s, p, NoFile)
            PROVE  \/ shard'[c][tracker.of][q] = shard[c][tracker.of][q]
                   \/ shard'[c][tracker.of][q] = NoFile /\ MaxKeep = 1
        <5>1. s = tracker.of => MaxKeep = 1
          BY <4>1, <3>2, DoomedIsBehind DEF Steps
        <5> QED BY <4>1, <4>3, <5>1, <3>3 DEF OneShard
      <4> QED BY <2>2, ShardStep, <4>2, <4>3
    <3> QED BY <1>0, <3>1, <3>2, <3>3, TrackedKept DEF TrackedInv, Up, Saving
  <2> QED BY <1>11, <2>1, <2>2 DEF RankStep
<1>12. CASE UNCHANGED vars
  BY <1>0, <1>12, TrackedFrame DEF vars, disk
<1> QED BY <1>1, <1>2, <1>3, <1>4, <1>5, <1>6, <1>7, <1>8, <1>9, <1>10, <1>11, <1>12
    DEF Next, DriverStep

-----------------------------------------------------------------------------
(* No attempt got further than the save after the tracked one.                 *)

LEMMA TrackedType == CheckpointAssumption /\ TypeOK => Tracked \in Nat /\ gstep \in Int
<1> SUFFICES ASSUME CheckpointAssumption, TypeOK PROVE Tracked \in Nat /\ gstep \in Int
  OBVIOUS
<1>1. tracker \in Files(Steps) /\ gstep \in Int
  BY DEF TypeOK
<1>2. Whole(tracker) => tracker.of \in Nat
  BY <1>1, FileTypes DEF Steps
<1> QED BY <1>1, <1>2 DEF Tracked

LEMMA InitAhead == CheckpointAssumption /\ Init => AheadInv
<1> SUFFICES ASSUME CheckpointAssumption, Init PROVE AheadInv
  OBVIOUS
<1>1. \A s \in Steps : ~FolderExists(s)
  BY DEF Init, FolderExists
<1> QED BY <1>1 DEF Init, AheadInv, Up

LEMMA AheadFrame ==
  AheadInv /\ UNCHANGED <<shard, data, tracker, pc, gstep>> => AheadInv'
BY DEF AheadInv, Up, Tracked, FolderExists, Due

\* Writing in the folder of this step, and deleting in others, keeps the invariant as
\* long as the tracker names an earlier step.
LEMMA AheadKept ==
  ASSUME CheckpointAssumption, TypeOK, AheadInv,
         UNCHANGED <<tracker, gstep>>, Up, pc # "tracking", pc' # "tracking",
         tracker # TornFile, Due(gstep),
         \A s \in Steps : s # gstep /\ FolderExists(s)' => FolderExists(s)
  PROVE  AheadInv'
<1>1. Tracked' = Tracked /\ Tracked \in Nat /\ gstep \in Int
  BY TrackedType DEF Tracked
<1>2. ASSUME NEW s \in Steps, NEW d \in Steps, FolderExists(s)', Tracked < d, d < s
      PROVE  ~Due(d)
  <2>1. CASE s = gstep
    BY <1>2, <2>1 DEF AheadInv
  <2>2. CASE s # gstep
    BY <1>2, <2>2 DEF AheadInv
  <2> QED BY <2>1, <2>2
<1>3. \A d \in Steps : Tracked < d /\ d < gstep => ~Due(d)
  BY DEF AheadInv
<1> QED BY <1>1, <1>2, <1>3 DEF AheadInv, Due

LEMMA AheadStep == CheckpointAssumption /\ IInv /\ [Next]_vars => AheadInv'
<1> SUFFICES ASSUME CheckpointAssumption, IInv, [Next]_vars PROVE AheadInv'
  OBVIOUS
<1>0. /\ TypeOK /\ TrackedInv /\ AheadInv
      /\ Tracked \in Nat /\ gstep \in Int
      /\ InSave => Due(gstep) /\ gstep \in Steps
  BY TrackedType DEF IInv, MemoryInv, Up, InSave, Steps
<1>1. CASE TrainFromScratch
  <2>1. tracker = NoFile
    BY <1>0, <1>1, FileTypes DEF TrainFromScratch, FromScratch, FolderExists, TrackedInv
  <2>2. UNCHANGED <<shard, data, tracker>> /\ pc' = "batch" /\ gstep' = 1
    BY <1>1 DEF TrainFromScratch, disk
  <2>3. tracker # TornFile /\ Tracked = 0
    BY <2>1, FileTypes DEF Tracked
  <2> QED BY <1>0, <2>2, <2>3 DEF AheadInv, Up, Tracked, FolderExists, Due, Steps
<1>2. CASE Resume
  <2>1. UNCHANGED <<shard, data, tracker>> /\ pc' = "batch" /\ gstep' = Tracked + 1
    BY <1>2 DEF Resume, disk, Tracked
  <2>2. tracker # TornFile
    BY <1>2, FileTypes DEF Resume
  <2> QED BY <1>0, <2>1, <2>2 DEF AheadInv, Up, Tracked, FolderExists, Due, Steps
<1>3. CASE SkipEmptyBatch
  BY <1>0, <1>3, AheadFrame DEF SkipEmptyBatch, disk
<1>4. CASE TrainOnBatch
  <2>1. UNCHANGED <<shard, data, tracker>> /\ pc = "batch"
    BY <1>4 DEF TrainOnBatch, disk
  <2>2. CASE SaveDue
    BY <1>0, <1>4, <2>1, <2>2 DEF TrainOnBatch, AheadInv, Up, Tracked, FolderExists, Due
  <2>3. CASE ~SaveDue
    <3>1. ~Due(gstep) /\ pc' \in {"batch", "returned"} /\ gstep' \in {gstep, gstep + 1}
      BY <1>4, <2>3, SaveDueIsDue DEF TrainOnBatch, NextStep
    <3>2. \A d \in Steps : Tracked < d /\ d < gstep' => ~Due(d)
      BY <1>0, <2>1, <3>1 DEF AheadInv, Up, Steps
    <3> QED BY <1>0, <2>1, <3>1, <3>2 DEF AheadInv, Up, Tracked, FolderExists, Due
  <2> QED BY <2>2, <2>3
<1>5. CASE DataLoaderExhausted
  BY <1>0, <1>5 DEF DataLoaderExhausted, AheadInv, Up, Tracked, FolderExists, Due, disk
<1>6. CASE SaveReturns
  BY <1>0, <1>6 DEF SaveReturns, Saving, AheadInv, Up, Tracked, FolderExists, Due, disk
<1>7. CASE OpenData \/ CloseData
  <2>1. /\ UNCHANGED <<shard, tracker, gstep>> /\ pc \in {"data", "dataing"}
        /\ pc' \in {"dataing", "track"}
        /\ \A s \in Steps : s # gstep => data'[s] = data[s]
    BY <1>0, <1>7 DEF OpenData, CloseData, TypeOK
  <2>2. \A s \in Steps : s # gstep /\ FolderExists(s)' => FolderExists(s)
    BY <2>1 DEF FolderExists
  <2> QED BY <1>0, <2>1, <2>2, AheadKept DEF Up, InSave, TrackedInv
<1>8. CASE OpenTracker
  <2>1. /\ UNCHANGED <<shard, data, gstep>> /\ pc = "track" /\ pc' = "tracking"
        /\ tracker' = TornFile
    BY <1>8 DEF OpenTracker
  <2>2. Tracked < gstep /\ Due(gstep) /\ gstep \in Steps /\ tracker # TornFile
    BY <1>0, <2>1 DEF TrackedInv, Tracked, Up, InSave, Steps
  <2>3. \A s \in Steps : gstep < s => ~FolderExists(s)
    BY <1>0, <2>2 DEF AheadInv
  <2> QED BY <2>1, <2>3 DEF AheadInv, FolderExists
<1>9. CASE CloseTracker
  <2>1. /\ tracker' = File(gstep) /\ UNCHANGED <<shard, data>> /\ pc = "tracking"
        /\ pc' \in {"batch", "returned"} /\ gstep' \in {gstep, gstep + 1}
    BY <1>9 DEF CloseTracker, NextStep
  <2>2. Tracked' = gstep
    BY <2>1, FileTypes DEF Tracked, Whole
  <2> QED BY <1>0, <2>1, <2>2 DEF AheadInv, FolderExists, Steps
<1>10. CASE Crash
  BY <1>0, <1>10 DEF Crash, AheadInv, Up, Tracked, FolderExists, Due, disk
<1>11. ASSUME NEW r \in Ranks, RankStep(r) PROVE AheadInv'
  <2>1. CASE MakeFolder(r)
    BY <1>0, <2>1, AheadFrame DEF MakeFolder, disk
  <2>2. CASE DeleteOldFile(r) \/ OpenShard(r) \/ CloseShard(r)
    <3>1. UNCHANGED <<data, tracker, pc, gstep>>
      BY <2>2 DEF DeleteOldFile, OpenShard, CloseShard
    <3>2. Saving /\ pc \in Roles /\ gstep \in Steps
      BY <2>2, ShardStep
    <3>3. ASSUME NEW s \in Steps, s # gstep, FolderExists(s)' PROVE FolderExists(s)
      <4>1. ASSUME NEW f, OneShard(pc, gstep, r, f) PROVE FolderExists(s)
        BY <3>1, <3>3, <4>1 DEF FolderExists, OneShard
      <4>2. ASSUME NEW t \in Doomed(pc, r), NEW p \in Ranks, OneShard(pc, t, p, NoFile)
            PROVE  FolderExists(s)
        BY <3>1, <3>3, <4>2 DEF FolderExists, OneShard
      <4> QED BY <2>2, ShardStep, <4>1, <4>2
    <3> QED BY <1>0, <3>1, <3>2, <3>3, AheadKept DEF Up, Saving, InSave, TrackedInv
  <2> QED BY <1>11, <2>1, <2>2 DEF RankStep
<1>12. CASE UNCHANGED vars
  BY <1>0, <1>12, AheadFrame DEF vars, disk
<1> QED BY <1>1, <1>2, <1>3, <1>4, <1>5, <1>6, <1>7, <1>8, <1>9, <1>10, <1>11, <1>12
    DEF Next, DriverStep

-----------------------------------------------------------------------------
(* What the save that is running has written.                                  *)

LEMMA InitWritten == CheckpointAssumption /\ Init => WrittenInv
BY DEF Init, WrittenInv, Saving

LEMMA WrittenFrame ==
  WrittenInv /\ UNCHANGED <<shard, data, pc, rank, mem, pos, gstep>> => WrittenInv'
BY DEF WrittenInv, Saving

LEMMA WrittenStep == CheckpointAssumption /\ IInv /\ [Next]_vars => WrittenInv'
<1> SUFFICES ASSUME CheckpointAssumption, IInv, [Next]_vars PROVE WrittenInv'
  OBVIOUS
<1>0. /\ TypeOK /\ WrittenInv /\ (InSave => gstep \in Steps)
  BY DEF IInv, MemoryInv, Up, InSave, Steps
<1>1. CASE TrainFromScratch \/ Resume \/ SkipEmptyBatch \/ DataLoaderExhausted
           \/ CloseTracker \/ Crash
  BY <1>1 DEF TrainFromScratch, Resume, SkipEmptyBatch, DataLoaderExhausted,
     CloseTracker, NextStep, Crash, WrittenInv, Saving
<1>2. CASE TrainOnBatch
  <2>1. pc' \in {"batch", "returned"} \/ (pc' = "actor" /\ rank' = [r \in Ranks |-> "remove"])
    BY <1>2 DEF TrainOnBatch, NextStep
  <2> QED BY <2>1 DEF WrittenInv, Saving
<1>3. CASE SaveReturns
  <2>1. /\ UNCHANGED <<shard, mem, gstep>> /\ Saving
        /\ \A r \in Ranks : rank[r] = "written"
        /\ \/ pc = "actor" /\ pc' = "critic" /\ rank' = [r \in Ranks |-> "remove"]
           \/ pc = "critic" /\ pc' = "data"
           \/ pc = "actor" /\ pc' = "data" /\ ~UseCritic
    BY <1>3 DEF SaveReturns, Saving, AllWritten, disk
  <2>2. \A r \in Ranks : shard[pc][gstep][r] = File(mem[pc][r])
    BY <1>0, <2>1 DEF WrittenInv
  <2>3. pc = "critic" => \A r \in Ranks : shard["actor"][gstep][r] = File(mem["actor"][r])
    BY <1>0 DEF WrittenInv
  <2> QED BY <2>1, <2>2, <2>3, RolesType DEF WrittenInv, Saving
<1>4. CASE OpenData \/ OpenTracker
  BY <1>0, <1>4 DEF OpenData, OpenTracker, WrittenInv, Saving
<1>5. CASE CloseData
  BY <1>0, <1>5 DEF CloseData, WrittenInv, Saving, InSave, TypeOK
<1>6. ASSUME NEW r \in Ranks, RankStep(r) PROVE WrittenInv'
  <2>1. CASE MakeFolder(r)
    BY <1>0, <2>1 DEF MakeFolder, WrittenInv, Saving, TypeOK, disk
  <2>2. CASE DeleteOldFile(r)
    <3>1. UNCHANGED <<data, pc, rank, mem, pos, gstep>> /\ Saving
      BY <2>2 DEF DeleteOldFile
    <3>2. PICK s \in Doomed(pc, r), p \in Ranks :
            shard' = [shard EXCEPT ![pc][s][p] = NoFile]
      BY <2>2 DEF DeleteOldFile
    <3>3. s \in Steps /\ s # gstep /\ gstep \in Steps /\ pc \in Roles
      BY <3>1, <3>2, DoomedIsBehind, SavingRole, TrackedType DEF IInv, Steps
    <3>4. \A c \in Roles, q \in Ranks : shard'[c][gstep][q] = shard[c][gstep][q]
      BY <1>0, <3>2, <3>3 DEF TypeOK
    <3> QED BY <1>0, <3>1, <3>3, <3>4, RolesType DEF WrittenInv, Saving
  <2>3. CASE OpenShard(r) \/ CloseShard(r)
    <3>1. UNCHANGED <<data, pc, mem, pos, gstep>> /\ Saving
      BY <2>3 DEF OpenShard, CloseShard
    <3>2. pc \in Roles /\ gstep \in Steps
      BY <3>1, SavingRole DEF IInv
    <3>3. \A c \in Roles, q \in Ranks :
            c # pc \/ q # r => shard'[c][gstep][q] = shard[c][gstep][q]
      BY <1>0, <2>3, <3>2 DEF OpenShard, CloseShard, TypeOK
    <3>4. \A q \in Ranks : q # r => rank'[q] = rank[q]
      BY <1>0, <2>3 DEF OpenShard, CloseShard, TypeOK
    <3>5. rank'[r] = "written" => shard'[pc][gstep][r] = File(mem[pc][r])
      BY <1>0, <2>3, <3>2 DEF OpenShard, CloseShard, TypeOK
    <3> QED BY <1>0, <3>1, <3>2, <3>3, <3>4, <3>5, RolesType DEF WrittenInv, Saving
  <2> QED BY <1>6, <2>1, <2>2, <2>3 DEF RankStep
<1>7. CASE UNCHANGED vars
  BY <1>0, <1>7, WrittenFrame DEF vars, disk
<1> QED BY <1>1, <1>2, <1>3, <1>4, <1>5, <1>6, <1>7 DEF Next, DriverStep

-----------------------------------------------------------------------------
(* Which paths the ranks remember.                                             *)

LEMMA InitKeep == CheckpointAssumption /\ Init => KeepInv
BY DEF Init, KeepInv, Unsaved, InSave

LEMMA KeepFrame ==
  KeepInv /\ UNCHANGED <<tracker, pc, saved, gstep>> => KeepInv'
BY DEF KeepInv, Unsaved, InSave, Tracked

LEMMA KeepStep == CheckpointAssumption /\ IInv /\ [Next]_vars => KeepInv'
<1> SUFFICES ASSUME CheckpointAssumption, IInv, [Next]_vars PROVE KeepInv'
  OBVIOUS
<1>0. /\ TypeOK /\ KeepInv /\ Tracked \in Nat /\ gstep \in Int
      /\ \A c \in Roles, r \in Ranks : saved[c][r] \in Seq(Steps)
  BY TrackedType DEF IInv, TypeOK
<1>1. CASE TrainFromScratch \/ Resume
  <2>1. pc = "down" /\ pc' = "batch" /\ saved' = saved
    BY <1>1 DEF TrainFromScratch, Resume
  <2>2. \A c \in Roles, r \in Ranks : saved'[c][r] = <<>>
    BY <2>1 DEF IInv, MemoryInv
  <2> QED BY <2>1, <2>2 DEF KeepInv, InSave
<1>2. CASE SkipEmptyBatch
  BY <1>0, <1>2, KeepFrame DEF SkipEmptyBatch, disk
<1>3. CASE TrainOnBatch
  <2>1. pc = "batch" /\ pc' \in {"batch", "actor", "returned"} /\ UNCHANGED <<saved, tracker>>
    BY <1>3 DEF TrainOnBatch, NextStep, disk
  <2> QED BY <1>0, <2>1 DEF KeepInv, Unsaved, InSave, Tracked
<1>4. CASE DataLoaderExhausted
  BY <1>4 DEF DataLoaderExhausted, KeepInv, Unsaved, InSave
<1>5. CASE SaveReturns
  <2>1. /\ UNCHANGED <<tracker, gstep>> /\ Saving
        /\ \/ pc = "actor" /\ pc' = "critic"
           \/ pc = "critic" /\ pc' = "data"
           \/ pc = "actor" /\ pc' = "data" /\ ~UseCritic
    BY <1>5 DEF SaveReturns, Saving, disk
  <2>2. pc \in Roles /\ gstep \in Steps
    BY <2>1, SavingRole DEF IInv
  <2>3. \A c \in Roles, r \in Ranks :
          saved'[c][r] = IF c = pc THEN Append(saved[c][r], gstep) ELSE saved[c][r]
    BY <1>0, <1>5, <2>2 DEF SaveReturns, TypeOK
  <2>4. Tracked < gstep
    BY <2>1, <2>2 DEF IInv, TrackedInv, Tracked, Up, Saving, Steps
  <2>5. ASSUME NEW r \in Ranks, NEW k \in 1 .. Len(saved'[pc][r])
        PROVE  saved'[pc][r][k] <= gstep /\ (k < Len(saved'[pc][r]) => saved'[pc][r][k] < gstep)
    <3>1. saved[pc][r] \in Seq(Steps) /\ saved'[pc][r] = Append(saved[pc][r], gstep)
      BY <1>0, <2>2, <2>3
    <3>2. CASE k = Len(saved[pc][r]) + 1
      BY <3>1, <3>2, <2>2 DEF Steps
    <3>3. CASE k \in 1 .. Len(saved[pc][r])
      <4>1. saved'[pc][r][k] = saved[pc][r][k] /\ saved[pc][r][k] \in Steps
        BY <3>1, <3>3
      <4>2. saved[pc][r][k] <= Tracked
        BY <2>1, <2>2, <3>3, <1>0 DEF KeepInv, Unsaved, Saving
      <4> QED BY <4>1, <4>2, <2>4, <1>0 DEF Steps
    <3> QED BY <3>1, <3>2, <3>3
  <2>6. CASE pc = "actor" /\ pc' = "critic"
    BY <1>0, <2>1, <2>3, <2>5, <2>6, RolesType DEF KeepInv, Unsaved, InSave, Tracked
  <2>7. CASE pc' = "data"
    BY <1>0, <2>1, <2>3, <2>5, <2>7, RolesType DEF KeepInv, Unsaved, InSave, Tracked
  <2> QED BY <2>1, <2>6, <2>7
<1>6. CASE OpenData \/ CloseData \/ OpenTracker
  BY <1>0, <1>6 DEF OpenData, CloseData, OpenTracker, KeepInv, Unsaved, InSave
<1>7. CASE CloseTracker
  <2>1. /\ tracker' = File(gstep) /\ UNCHANGED saved /\ pc = "tracking"
        /\ pc' \in {"batch", "returned"}
    BY <1>7 DEF CloseTracker, NextStep
  <2>2. Tracked' = gstep
    BY <2>1, FileTypes DEF Tracked, Whole
  <2> QED BY <1>0, <2>1, <2>2 DEF KeepInv, Unsaved, InSave
<1>8. CASE Crash
  BY <1>8 DEF Crash, KeepInv, Unsaved, InSave
<1>9. ASSUME NEW r \in Ranks, RankStep(r) PROVE KeepInv'
  <2>1. CASE MakeFolder(r)
    <3>1. UNCHANGED <<tracker, pc, gstep>> /\ Saving
      BY <2>1 DEF MakeFolder, disk
    <3>2. pc \in Roles /\ gstep \in Steps /\ Unsaved(pc)
      BY <3>1, SavingRole DEF IInv, Saving, Unsaved
    <3> DEFINE n == RemovedNow(pc, r)
               old == saved[pc][r]
    <3>3. /\ n \in 0 .. Len(old) /\ old \in Seq(Steps)
          /\ \A c \in Roles, q \in Ranks :
               saved'[c][q] = IF c = pc /\ q = r THEN SubSeq(old, n + 1, Len(old)) ELSE saved[c][q]
      BY <1>0, <2>1, <3>2, RemovedType DEF MakeFolder, TypeOK
    <3>4. /\ Len(saved'[pc][r]) = Len(old) - n
          /\ \A k \in 1 .. Len(old) - n : saved'[pc][r][k] = old[k + n]
      <4>1. saved'[pc][r] = SubSeq(old, n + 1, Len(old))
        BY <3>2, <3>3
      <4> HIDE DEF n, old
      <4> QED BY <4>1, <3>3
    <3>5. \A k \in 1 .. Len(old) :
            old[k] <= Tracked /\ (k < Len(old) => old[k] < Tracked)
      BY <1>0, <3>2 DEF KeepInv
    <3>6. \A k \in 1 .. Len(saved'[pc][r]) :
            saved'[pc][r][k] <= Tracked /\ (k < Len(saved'[pc][r]) => saved'[pc][r][k] < Tracked)
      <4> HIDE DEF n, old
      <4>1. SUFFICES ASSUME NEW k \in 1 .. Len(saved'[pc][r])
                     PROVE  /\ saved'[pc][r][k] <= Tracked
                            /\ k < Len(saved'[pc][r]) => saved'[pc][r][k] < Tracked
        OBVIOUS
      <4>2. k + n \in 1 .. Len(old) /\ (k < Len(saved'[pc][r]) => k + n < Len(old))
        BY <3>3, <3>4
      <4> QED BY <3>3, <3>4, <3>5, <4>2
    <3>7. \A c \in Roles, q \in Ranks : c # pc \/ q # r => saved'[c][q] = saved[c][q]
      BY <3>3
    <3> HIDE DEF n, old
    <3>8. \A c \in Roles, q \in Ranks : Unsaved(c) => \A k \in 1 .. Len(saved'[c][q]) :
            saved'[c][q][k] <= Tracked /\ (k < Len(saved'[c][q]) => saved'[c][q][k] < Tracked)
      BY <1>0, <3>6, <3>7 DEF KeepInv
    <3>9. \A c \in Roles, q \in Ranks : InSave /\ ~Unsaved(c) => saved'[c][q] = saved[c][q]
      BY <3>2, <3>7
    <3>10. Tracked' = Tracked /\ InSave' = InSave /\ \A c \in Roles : Unsaved(c)' = Unsaved(c)
      BY <3>1 DEF Tracked, InSave, Unsaved
    <3> QED BY <1>0, <3>1, <3>8, <3>9, <3>10 DEF KeepInv
  <2>2. CASE DeleteOldFile(r) \/ OpenShard(r) \/ CloseShard(r)
    BY <1>0, <2>2, KeepFrame DEF DeleteOldFile, OpenShard, CloseShard
  <2> QED BY <1>9, <2>1, <2>2 DEF RankStep
<1>10. CASE UNCHANGED vars
  BY <1>0, <1>10, KeepFrame DEF vars, disk
<1> QED BY <1>1, <1>2, <1>3, <1>4, <1>5, <1>6, <1>7, <1>8, <1>9, <1>10
    DEF Next, DriverStep

-----------------------------------------------------------------------------
(* How far the tracker is behind.                                              *)

LEMMA NextMultiple ==
  ASSUME NEW n \in Nat, NEW f \in Nat \ {0}, n % f = 0
  PROVE  (n + f) % f = 0
<1> DEFINE q == n \div f
           p == (n + f) \div f
           m == (n + f) % f
<1>1. q \in Int /\ p \in Int /\ m \in 0 .. f - 1
  OBVIOUS
<1>2. n = f * q /\ n + f = f * p + m
  OBVIOUS
<1> HIDE DEF q, p, m
<1>3. f * (q + 1 - p) = m
  BY <1>1, <1>2
<1>4. CASE q + 1 - p <= 0
  <2>1. f * (q + 1 - p) <= 0
    BY <1>1, <1>4
  <2> QED BY <1>1, <1>3, <2>1 DEF m
<1>5. CASE q + 1 - p >= 1
  <2>1. f * (q + 1 - p) >= f
    BY <1>1, <1>5
  <2> QED BY <1>1, <1>3, <2>1
<1> QED BY <1>1, <1>4, <1>5

LEMMA InitLoss == CheckpointAssumption /\ Init => LossInv
<1> SUFFICES ASSUME CheckpointAssumption, Init, SaveFreq > 0 PROVE LossInv
  BY DEF LossInv
<1>1. Tracked = 0 /\ 0 % SaveFreq = 0
  BY FileTypes DEF Init, Tracked, CheckpointAssumption
<1> QED BY <1>1 DEF Init, LossInv

LEMMA LossFrame ==
  LossInv /\ UNCHANGED <<shard, tracker, pc, mem, gstep, empty>> => LossInv'
BY DEF LossInv, Tracked, Whole

LEMMA LossStep == CheckpointAssumption /\ IInv /\ [Next]_vars => LossInv'
<1> SUFFICES ASSUME CheckpointAssumption, IInv, [Next]_vars, SaveFreq > 0 PROVE LossInv'
  BY DEF LossInv
<1>0. /\ TypeOK /\ LossInv /\ TrackedInv
      /\ Tracked \in Nat /\ gstep \in Int /\ SaveFreq \in Nat \ {0}
  BY TrackedType DEF IInv, CheckpointAssumption
<1>1. CASE TrainFromScratch
  <2>1. tracker = NoFile
    BY <1>0, <1>1, FileTypes DEF TrainFromScratch, FromScratch, FolderExists, TrackedInv
  <2>2. UNCHANGED tracker /\ pc = "down" /\ pc' = "batch" /\ gstep' = 1
    BY <1>1 DEF TrainFromScratch, disk
  <2>3. tracker # TornFile /\ Tracked = 0
    BY <2>1, FileTypes DEF Tracked
  <2> QED BY <1>0, <2>2, <2>3 DEF LossInv, Tracked
<1>2. CASE Resume
  <2>1. UNCHANGED tracker /\ pc = "down" /\ pc' = "batch" /\ gstep' = Tracked + 1
    BY <1>2 DEF Resume, disk, Tracked
  <2>2. tracker # TornFile
    BY <1>2, FileTypes DEF Resume
  <2> QED BY <1>0, <2>1, <2>2 DEF LossInv, Tracked
<1>3. CASE SkipEmptyBatch
  BY <1>0, <1>3, LossFrame DEF SkipEmptyBatch, disk
<1>4. CASE TrainOnBatch
  <2>1. UNCHANGED tracker /\ pc = "batch" /\ tracker # TornFile
    BY <1>0, <1>4 DEF TrainOnBatch, disk, TrackedInv
  <2>2. CASE SaveDue
    BY <1>0, <1>4, <2>1, <2>2 DEF TrainOnBatch, LossInv, Tracked
  <2>3. CASE ~SaveDue
    <3>1. ~IsLastStep /\ gstep % SaveFreq # 0
      BY <1>0, <2>3 DEF SaveDue
    <3>2. pc' = "batch" /\ gstep' = gstep + 1
      BY <1>4, <2>3, <3>1 DEF TrainOnBatch, NextStep
    <3>3. gstep # Tracked + SaveFreq
      BY <1>0, <2>1, <3>1, NextMultiple DEF LossInv
    <3> QED BY <1>0, <2>1, <3>2, <3>3 DEF LossInv, Tracked
  <2> QED BY <2>2, <2>3
<1>5. CASE DataLoaderExhausted
  <2>1. PICK r \in Ranks : TRUE
    BY DEF CheckpointAssumption
  <2>2. /\ pc = "batch" /\ UNCHANGED <<tracker, empty>> /\ pos >= NBatches
        /\ pc' = "returned"
    BY <1>0, <1>5 DEF DataLoaderExhausted, MoreBatches, TypeOK, CheckpointAssumption, disk
  <2>3. gstep \in 1 .. NBatches /\ Len(mem["actor"][r]) + 1 = gstep
        /\ History(mem["actor"][r], pos, empty)
    BY <2>2, RolesType DEF IInv, MemoryInv, Up
  <2>4. mem["actor"][r] \in Seq(Updates)
    BY <1>0, RolesType DEF TypeOK
  <2>5. empty # {}
    BY <1>0, <2>2, <2>3, <2>4 DEF History, TypeOK, CheckpointAssumption
  <2> QED BY <2>2, <2>5 DEF LossInv
<1>6. CASE SaveReturns \/ OpenData \/ CloseData
  BY <1>0, <1>6 DEF SaveReturns, Saving, OpenData, CloseData, LossInv, Tracked, disk
<1>7. CASE OpenTracker
  BY <1>7 DEF OpenTracker, LossInv
<1>8. CASE CloseTracker
  <2>1. /\ tracker' = File(gstep) /\ UNCHANGED <<shard, mem>> /\ pc = "tracking"
        /\ pc' \in {"batch", "returned"}
        /\ pc' # "returned" => gstep < NBatches /\ gstep' = gstep + 1
    BY <1>0, <1>8 DEF CloseTracker, NextStep, IsLastStep, CheckpointAssumption
  <2>2. Tracked' = gstep /\ Whole(tracker') /\ tracker'.of = gstep
    BY <2>1, FileTypes DEF Tracked, Whole
  <2>3. gstep < NBatches => gstep % SaveFreq = 0
    BY <2>1, <1>0 DEF IInv, MemoryInv, InSave, Due, CheckpointAssumption
  <2>4. \A c \in Roles, r \in Ranks : shard'[c][gstep][r] = File(mem'[c][r])
    BY <2>1 DEF IInv, WrittenInv
  <2> QED BY <1>0, <2>1, <2>2, <2>3, <2>4 DEF LossInv, Whole
<1>9. CASE Crash
  BY <1>0, <1>9 DEF Crash, LossInv, Tracked, disk
<1>10. ASSUME NEW r \in Ranks, RankStep(r) PROVE LossInv'
  BY <1>0, <1>10 DEF RankStep, MakeFolder, DeleteOldFile, OpenShard, CloseShard, Saving,
     LossInv, Tracked, disk
<1>11. CASE UNCHANGED vars
  BY <1>0, <1>11, LossFrame DEF vars, disk
<1> QED BY <1>1, <1>2, <1>3, <1>4, <1>5, <1>6, <1>7, <1>8, <1>9, <1>10, <1>11
    DEF Next, DriverStep

-----------------------------------------------------------------------------
(* The invariant.                                                              *)

LEMMA InvariantInit == CheckpointAssumption /\ Init => IInv
BY InitType, InitMemory, InitTracked, InitAhead, InitWritten, InitKeep, InitLoss DEF IInv

LEMMA InvariantStep == CheckpointAssumption /\ IInv /\ [Next]_vars => IInv'
BY TypeStep, MemoryStep, TrackedStep, AheadStep, WrittenStep, KeepStep, LossStep DEF IInv

LEMMA Invariant == Spec => []IInv
BY CheckpointAssumption, InvariantInit, InvariantStep, PTL DEF Spec

\* Every variable keeps its type.
THEOREM TypeCorrect == Spec => []TypeOK
<1>1. IInv => TypeOK
  BY DEF IInv
<1> QED BY <1>1, Invariant, PTL

\* Whatever a crash left of a save, the shards that _load_checkpoint reads on resuming
\* are of one and the same history, over the ranks and over actor and critic.
THEOREM RanksAlwaysAgree == Spec => []RanksAgree
<1>1. IInv => RanksAgree
  BY DEF IInv, MemoryInv
<1> QED BY <1>1, Invariant, PTL

\* The tracker is moved last and the tracked folder is deleted only after that, so what it
\* names can always be loaded; with one checkpoint kept the code deletes it before.
THEOREM TrackedIsLoadable == MaxKeep # 1 => (Spec => []TrackedCheckpointLoadable)
<1> SUFFICES ASSUME MaxKeep # 1 PROVE Spec => []TrackedCheckpointLoadable
  OBVIOUS
<1>1. IInv => TrackedCheckpointLoadable
  BY FileTypes DEF IInv, TrackedInv, TrackedCheckpointLoadable, Loadable
<1> QED BY <1>1, Invariant, PTL

\* A save is due at every multiple of save_freq and at the last step: resuming loses fewer
\* updates than save_freq, and the last weights are the tracked ones.
THEOREM LossIsBounded == Spec => []BoundedLoss
<1>1. CheckpointAssumption /\ IInv => BoundedLoss
  <2> SUFFICES ASSUME CheckpointAssumption, IInv, SaveFreq > 0 PROVE BoundedLoss
    BY DEF BoundedLoss
  <2>1. Tracked \in Nat /\ gstep \in Int /\ SaveFreq \in Nat
    BY TrackedType DEF IInv, CheckpointAssumption
  <2>2. pc = "batch" => gstep - 1 - Tracked < SaveFreq
    BY <2>1 DEF IInv, LossInv
  <2> QED BY <2>2 DEF IInv, LossInv, BoundedLoss, Tracked
<1> QED BY <1>1, CheckpointAssumption, Invariant, PTL

-----------------------------------------------------------------------------
(* DurableTraining is implemented.                                             *)

\* What DurableTraining calls phase and durable; its mem is mem["actor"][AnyRank].
Phase == CASE pc = "down" -> "down" [] pc = "returned" -> "done" [] OTHER -> "running"
Kept == IF tracker = NoFile THEN <<>> ELSE shard["actor"][DurableStep][AnyRank].of

LEMMA AnyRankIsOne == CheckpointAssumption => "actor" \in Roles /\ AnyRank \in Ranks
BY RolesType DEF CheckpointAssumption, AnyRank

LEMMA KeptWhole ==
  Whole(tracker) => Kept = shard["actor"][tracker.of][AnyRank].of
BY FileTypes DEF Kept, DurableStep

\* While the tracker is being overwritten, the newest complete folder is the one that
\* has just been written.
LEMMA KeptWhileTracking ==
  CheckpointAssumption /\ IInv /\ pc = "tracking" => Kept = mem["actor"][AnyRank]
<1> SUFFICES ASSUME CheckpointAssumption, IInv, pc = "tracking"
             PROVE  Kept = mem["actor"][AnyRank]
  OBVIOUS
<1> DEFINE S == {s \in Steps : Complete(s)}
<1>1. tracker = TornFile /\ gstep \in Steps
  BY DEF IInv, TrackedInv, MemoryInv, Up, Steps
<1>2. \A c \in Roles, r \in Ranks : shard[c][gstep][r] = File(mem[c][r])
  BY DEF IInv, WrittenInv
<1>3. data[gstep] = File(pos)
  BY DEF IInv, WrittenInv
<1>4. gstep \in S
  BY <1>1, <1>2, <1>3, FileTypes DEF Complete, Loadable
<1>5. \A s \in S : s <= gstep
  <2> SUFFICES ASSUME NEW s \in S, s > gstep PROVE FALSE
    BY <1>1 DEF Steps
  <2>1. Whole(data[s])
    BY DEF Complete
  <2>2. FolderExists(s)
    BY <2>1, FileTypes DEF FolderExists
  <2> QED BY <2>2 DEF IInv, AheadInv
<1>6. S \subseteq Int
  BY DEF Steps
<1> HIDE DEF S
<1>7. Newest(S) = gstep
  <2>1. Newest(S) \in S /\ \A t \in S : t <= Newest(S)
    BY <1>4, <1>5 DEF Newest
  <2>2. gstep <= Newest(S) /\ Newest(S) <= gstep
    BY <1>4, <1>5, <2>1
  <2>3. \A x, y \in S : x <= y /\ y <= x => x = y
    BY <1>6
  <2> QED BY <1>4, <2>1, <2>2, <2>3
<1>8. DurableStep = gstep
  BY <1>1, <1>7, FileTypes DEF DurableStep, S
<1> QED BY <1>1, <1>2, <1>8, FileTypes, AnyRankIsOne DEF Kept

LEMMA KeptWhileTrackingNext ==
  (IInv /\ pc = "tracking" => Kept = mem["actor"][AnyRank])'
<1>1. IInv /\ pc = "tracking" => Kept = mem["actor"][AnyRank]
  BY CheckpointAssumption, KeptWhileTracking
<1> QED BY <1>1, PTL

LEMMA KeptFrame == UNCHANGED disk => UNCHANGED Kept
BY DEF disk, Kept, DurableStep, Newest, Complete, Loadable, Whole

\* Who has trained on all batches has covered them.
LEMMA AllBatchesCovered ==
  ASSUME CheckpointAssumption, TypeOK, NEW w, NEW p, p >= NBatches, p \in Int,
         History(w, p, empty)
  PROVE  \A b \in Steps \ empty : \E k \in 1 .. Len(w) : w[k][2] = b
BY DEF History, Steps, CheckpointAssumption

\* A step of an abstract variable that nothing touches.
LEMMA Stutter ==
  UNCHANGED <<empty, Phase, mem, Kept>> => UNCHANGED Durable!dvars
BY DEF Durable!dvars, Phase, Kept

LEMMA RefinementInit == CheckpointAssumption /\ Init => Durable!DInit
BY AnyRankIsOne DEF Init, Durable!DInit, CheckpointAssumption, Steps

LEMMA ResumeImplements ==
  CheckpointAssumption /\ IInv /\ (TrainFromScratch \/ Resume) => Durable!Start
<1> SUFFICES ASSUME CheckpointAssumption, IInv, TrainFromScratch \/ Resume
             PROVE  Durable!Start
  OBVIOUS
<1>1. UNCHANGED <<disk, empty>> /\ pc = "down" /\ pc' = "batch"
  BY DEF TrainFromScratch, Resume
<1>2. mem'["actor"][AnyRank] = Kept
  <2>1. CASE TrainFromScratch
    <3>1. tracker = NoFile
      BY <2>1, FileTypes DEF IInv, TypeOK, TrainFromScratch, FromScratch, FolderExists, TrackedInv
    <3> QED BY <1>1, <2>1, <3>1, AnyRankIsOne DEF TrainFromScratch, Kept, IInv, MemoryInv
  <2>2. CASE Resume
    BY <2>2, AnyRankIsOne, KeptWhole DEF Resume
  <2> QED BY <2>1, <2>2
<1> QED BY <1>1, <1>2, KeptFrame DEF Durable!Start, Kept

LEMMA UpdateImplements ==
  CheckpointAssumption /\ IInv /\ IInv' /\ TrainOnBatch => Durable!Update
<1> SUFFICES ASSUME CheckpointAssumption, IInv, IInv', TrainOnBatch PROVE Durable!Update
  OBVIOUS
<1> DEFINE w == mem["actor"][AnyRank]
           b == pos + 1
<1>1. /\ UNCHANGED <<disk, empty, attempt>> /\ pc = "batch" /\ pos' = b
      /\ pos \in Nat /\ b \in Steps \ empty /\ attempt \in 0 .. MaxCrashes
      /\ gstep \in Int /\ NBatches \in Nat
  BY DEF IInv, TypeOK, TrainOnBatch, MoreBatches, Steps, CheckpointAssumption
<1>2. mem'["actor"][AnyRank] = Append(w, <<attempt, b>>)
  BY AnyRankIsOne DEF TrainOnBatch, IInv, TypeOK
<1>3. w \in Seq(Updates) /\ History(w, pos, empty) /\ Len(w) + 1 = gstep
  BY <1>1, AnyRankIsOne DEF IInv, TypeOK, MemoryInv
<1>4. Durable!IsNext(b)
  <2>1. \A k \in 1 .. Len(w) : w[k][2] < b
    <3> HIDE DEF w
    <3>1. \A k \in 1 .. Len(w) : w[k][2] \in 1 .. pos
      BY <1>3 DEF History
    <3> QED BY ONLY <3>1, <1>1
  <2>2. \A c \in Steps \ empty : c < b => \E k \in 1 .. Len(w) : w[k][2] = c
    BY <1>1, <1>3 DEF History, Steps
  <2> QED BY <1>1, <2>1, <2>2 DEF Durable!IsNext
<1>5. pc' \in {"batch", "actor"} \/ (pc' = "returned" /\ gstep >= NBatches)
  BY DEF TrainOnBatch, NextStep, IsLastStep
<1>6. ASSUME pc' = "returned" PROVE Durable!Covered(mem'["actor"][AnyRank])
  <2> DEFINE v == mem'["actor"][AnyRank]
  <2>1. History(v, pos', empty) /\ pos' \in 0 .. NBatches
    BY <1>1, <1>6, AnyRankIsOne DEF IInv, MemoryInv, TypeOK
  <2>2. Len(v) = gstep
    BY <1>2, <1>3
  <2>3. pos' >= NBatches
    BY <1>1, <1>5, <1>6, <2>1, <2>2 DEF History
  <2> HIDE DEF v
  <2>4. \A c \in Steps \ empty : \E k \in 1 .. Len(v) : v[k][2] = c
    BY <2>1, <2>3, AllBatchesCovered DEF IInv
  <2> QED BY <2>4 DEF Durable!Covered, v
<1>7. UNCHANGED Kept
  BY <1>1, KeptFrame
<1> HIDE DEF w, b
<1> QED BY <1>1, <1>2, <1>4, <1>5, <1>6, <1>7 DEF Durable!Update, Kept, w

LEMMA FinishImplements ==
  ASSUME CheckpointAssumption, IInv, UNCHANGED <<empty, mem, Kept>>,
         Up, pc' = "returned", pos >= NBatches \/ Len(mem["actor"][AnyRank]) >= NBatches
  PROVE  Durable!Finish
<1> DEFINE w == mem["actor"][AnyRank]
<1>1. History(w, pos, empty) /\ pos \in 0 .. NBatches /\ Len(w) \in Nat /\ NBatches \in Nat
  BY AnyRankIsOne DEF IInv, TypeOK, MemoryInv, Up, CheckpointAssumption
<1>2. pos >= NBatches
  BY <1>1 DEF History
<1> HIDE DEF w
<1>3. \A c \in Steps \ empty : \E k \in 1 .. Len(w) : w[k][2] = c
  BY <1>1, <1>2, AllBatchesCovered DEF IInv
<1> QED BY <1>3 DEF Durable!Finish, Durable!Covered, Up, Kept, w

\* No rank deletes or overwrites the tracked shard, if more than one folder is kept.
LEMMA ShardsKept ==
  ASSUME CheckpointAssumption, IInv, MaxKeep # 1, NEW r \in Ranks, RankStep(r)
  PROVE  UNCHANGED Kept
<1>1. UNCHANGED tracker /\ Saving /\ tracker # TornFile
  BY DEF RankStep, DeleteOldFile, MakeFolder, OpenShard, CloseShard, disk, Saving, IInv, TrackedInv
<1>2. CASE MakeFolder(r)
  BY <1>2, KeptFrame DEF MakeFolder
<1>3. CASE tracker = NoFile
  BY <1>1, <1>3 DEF Kept
<1>4. CASE ~MakeFolder(r) /\ Whole(tracker)
  <2>1. tracker.of \in Steps /\ Tracked = tracker.of
    BY <1>4, FileTypes DEF IInv, TypeOK, Tracked
  <2>2. tracker.of # gstep
    BY <1>1, <1>4, <2>1 DEF IInv, TrackedInv, Saving, Up, Steps
  <2>3. \A s \in Doomed(pc, r) : s # tracker.of
    BY <1>1, <2>1, DoomedIsBehind DEF Steps
  <2>4. shard'["actor"][tracker.of][AnyRank] = shard["actor"][tracker.of][AnyRank]
    BY <1>4, <2>1, <2>2, <2>3, ShardStep, AnyRankIsOne DEF RankStep, OneShard
  <2>5. Whole(tracker') /\ tracker'.of = tracker.of
    BY <1>1, <1>4
  <2>6. DurableStep = tracker.of /\ DurableStep' = tracker.of
    BY <1>4, <2>5 DEF DurableStep
  <2> QED BY <1>1, <2>4, <2>6 DEF Kept
<1> QED BY <1>1, <1>2, <1>3, <1>4, FileTypes DEF IInv, TypeOK

LEMMA RefinementStep ==
  ASSUME CheckpointAssumption, IInv, IInv', MaxKeep # 1, [Next]_vars
  PROVE  [Durable!DNext]_Durable!dvars
<1>1. CASE TrainFromScratch \/ Resume
  BY <1>1, ResumeImplements DEF Durable!DNext
<1>2. CASE SkipEmptyBatch
  BY <1>2, KeptFrame, Stutter DEF SkipEmptyBatch, Phase
<1>3. CASE TrainOnBatch
  BY <1>3, UpdateImplements DEF Durable!DNext
<1>4. CASE DataLoaderExhausted
  BY <1>4, KeptFrame, FinishImplements
  DEF DataLoaderExhausted, MoreBatches, Up, IInv, TypeOK, CheckpointAssumption, Durable!DNext
<1>5. CASE SaveReturns
  <2>1. UNCHANGED <<disk, mem, empty, Phase>>
    BY <1>5 DEF SaveReturns, Saving, Phase
  <2> QED BY <2>1, KeptFrame, Stutter
<1>6. CASE OpenData \/ CloseData
  <2>1. UNCHANGED <<shard, tracker, mem, empty, Phase>> /\ tracker # TornFile
    BY <1>6 DEF OpenData, CloseData, Phase, IInv, TrackedInv
  <2>2. UNCHANGED Kept
    BY <2>1, FileTypes DEF Kept, DurableStep, IInv, TypeOK
  <2> QED BY <2>1, <2>2, Stutter
<1>7. CASE OpenTracker
  <2>1. UNCHANGED <<mem, empty, Phase>> /\ pc = "track" /\ pc' = "tracking"
    BY <1>7 DEF OpenTracker, Phase
  <2>2. Kept' = mem'["actor"][AnyRank]
    BY <2>1, KeptWhileTrackingNext
  <2> QED BY <2>1, <2>2 DEF Durable!DNext, Durable!Persist, Phase, Kept
<1>8. CASE CloseTracker
  <2>1. /\ tracker' = File(gstep) /\ pc = "tracking" /\ gstep \in Steps
        /\ UNCHANGED <<shard, mem, empty>>
    BY <1>8 DEF CloseTracker, IInv, MemoryInv, Up, Steps
  <2>2. Kept = mem["actor"][AnyRank]
    BY <2>1, KeptWhileTracking
  <2>3. Kept' = shard["actor"][gstep][AnyRank].of
    BY <2>1, FileTypes DEF Kept, DurableStep
  <2>4. shard["actor"][gstep][AnyRank] = File(mem["actor"][AnyRank])
    BY <2>1, AnyRankIsOne DEF IInv, WrittenInv
  <2>5. UNCHANGED Kept
    BY <2>2, <2>3, <2>4, FileTypes
  <2>6. CASE pc' = "batch"
    BY <2>1, <2>5, <2>6, Stutter DEF Phase
  <2>7. CASE pc' # "batch"
    <3>1. pc' = "returned" /\ gstep >= NBatches
      BY <1>8, <2>7 DEF CloseTracker, NextStep, IsLastStep
    <3>2. Len(mem["actor"][AnyRank]) >= NBatches /\ Up
      BY <2>1, <3>1, AnyRankIsOne DEF IInv, MemoryInv, InSave, Up
    <3> QED BY <2>1, <2>5, <3>1, <3>2, FinishImplements DEF Durable!DNext
  <2> QED BY <2>6, <2>7
<1>9. CASE Crash
  <2>1. /\ UNCHANGED <<disk, empty>> /\ pc \notin {"down", "returned"} /\ pc' = "down"
        /\ mem'["actor"][AnyRank] = <<>>
    BY <1>9, AnyRankIsOne DEF Crash, Forget
  <2> QED BY <2>1, KeptFrame DEF Durable!DNext, Durable!Crash, Kept
<1>10. ASSUME NEW r \in Ranks, RankStep(r) PROVE [Durable!DNext]_Durable!dvars
  <2>1. UNCHANGED <<mem, empty, pc>>
    BY <1>10 DEF RankStep, DeleteOldFile, MakeFolder, OpenShard, CloseShard
  <2> QED BY <1>10, <2>1, ShardsKept, Stutter DEF Phase
<1>11. CASE UNCHANGED vars
  BY <1>11, KeptFrame, Stutter DEF vars, disk, Phase
<1> QED BY <1>1, <1>2, <1>3, <1>4, <1>5, <1>6, <1>7, <1>8, <1>9, <1>10, <1>11
    DEF Next, DriverStep

\* A crash forgets the updates since the tracked checkpoint and nothing else, training
\* goes on in the order of the batches from there, each trained on once, and only ends
\* when all batches were.
THEOREM DurableTrainingIsImplemented ==
  MaxKeep # 1 => (Spec => ImplementsDurableTraining)
<1> SUFFICES ASSUME MaxKeep # 1 PROVE Spec => ImplementsDurableTraining
  OBVIOUS
<1>1. Init => Durable!DInit
  BY CheckpointAssumption, RefinementInit
<1>2. IInv /\ IInv' /\ [Next]_vars => [Durable!DNext]_Durable!dvars
  BY CheckpointAssumption, RefinementStep
<1> QED BY <1>1, <1>2, Invariant, PTL
    DEF Spec, ImplementsDurableTraining, Durable!DurableSpec
=============================================================================
