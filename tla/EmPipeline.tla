------------------------------ MODULE EmPipeline ------------------------------
(***************************************************************************)
(* The EM loop of runs/csf3/03_train_gvm.sbatch together with the worker   *)
(* programs it launches: the E-step (stage 1 pilot sampling, stage 2a      *)
(* accept rates and gradient norms, stage 2b budget allocation), the       *)
(* M-step (verl.trainer.main_ppo with resume_mode=auto) and the export of  *)
(* the trained weights that the next E-step samples from.                  *)
(*                                                                         *)
(* Every hand-over between the programs is a file.  A program opens a file *)
(* for writing, which truncates it, and completes it in a later step, so a *)
(* kill in between leaves a file that exists and cannot be read.  The job  *)
(* is resubmitted after a kill and skips a stage whose output it finds.    *)
(***************************************************************************)
EXTENDS Integers, FiniteSets

CONSTANTS
  NIter,      \* GVM_EM_ITERS
  NGpu,       \* GVM_GPUS: one E-step shard, and one worker, per GPU
  NSteps,     \* batches of the iteration's shard, total_training_steps
  EmptyBatches, \* sets of batches that an allocation may leave without a rollout
  SaveFreq,   \* trainer.save_freq
  Reuse,      \* GVM_REUSE_PILOTS
  MaxKills,   \* bound: wall-clock kills of the job
  MaxFails    \* bound: programs that die on their own (out of memory, full disk)

ASSUME PipelineAssumption ==
  /\ NIter \in Nat \ {0}
  /\ NGpu \in Nat \ {0}
  /\ NSteps \in Nat \ {0}
  /\ EmptyBatches # {} /\ EmptyBatches \subseteq SUBSET (1 .. NSteps)
  /\ SaveFreq \in Nat \ {0}
  /\ Reuse \in BOOLEAN
  /\ MaxKills \in Nat
  /\ MaxFails \in Nat

Iters  == 1 .. NIter
Shards == 0 .. NGpu - 1
LastShard == NGpu - 1
Steps  == 1 .. NSteps

(***************************************************************************)
(* A file is missing, torn (opened and not completed) or whole.  A whole   *)
(* file is the number that matters in its content: in E-step files and     *)
(* weights the policy they descend from (0 is the base model, i the export *)
(* of iteration i), in the tracker and the done marker a training step.    *)
(***************************************************************************)
NoFile   == -1
TornFile == -2
Policies == 0 .. NIter
PolicyFile == {NoFile, TornFile} \cup Policies
StepFile   == {NoFile, TornFile} \cup Steps

Exists(f) == f # NoFile
Whole(f)  == f >= 0

VARIABLES
  pilotsAll,  \* [Iters -> [Shards -> file]]: stage_1_collected_data_all_g.json
  pilots,     \* stage_1_collected_data_g.json, the correct rollouts only
  rates,      \* accept_rates_g.json
  grads,      \* grads_g.json
  sizes,      \* [Iters -> file]: sample_sizes_sample*.json
  empty,      \* in it: the batches all of whose prompts have a budget of zero
  ckpt,       \* [Iters -> [Steps -> file]]: global_step_s, the FSDP shards in it
  data,       \* its data.pt: the batches the loader had handed out
  tracker,    \* [Iters -> file]: latest_checkpointed_iteration.txt
  export,     \* [Iters -> [Steps -> file]]: merged weights in global_step_s
  marker,     \* [Iters -> file]: .gvm_iteration_done
  pc,         \* where the job script is; "idle" when no job runs
  iter,       \* the loop variable i
  policy,     \* the policy this iteration samples from and starts training from
  worker,     \* [Shards -> where the background worker on that GPU is]
  model,      \* policy the weights in the trainer's memory descend from
  gstep,      \* the trainer's global_steps
  loader,     \* batches the data loader has handed out
  kills,      \* kills so far
  fails       \* programs that have died so far

eFiles == <<pilotsAll, pilots, rates, grads, sizes, empty>>
mFiles == <<ckpt, data, tracker, export, marker>>
job    == <<pc, iter, policy, worker, model, gstep, loader>>
faults == <<kills, fails>>
vars   == <<eFiles, mFiles, job, faults>>

WorkerStates == {"none", "gen", "all", "score", "keep",
                 "load", "rate", "rates", "grad", "grads", "exited"}
Running(g) == worker[g] \notin {"none", "exited"}

JobStates == {"idle", "loop", "stage1", "wait1", "stage2", "wait2", "budget",
              "alloc", "sizes", "mstep", "train", "ckpt", "track", "tracking",
              "merge", "merging", "mark", "marking", "finished"}

TypeOK ==
  /\ pilotsAll \in [Iters -> [Shards -> PolicyFile]]
  /\ pilots \in [Iters -> [Shards -> PolicyFile]]
  /\ rates \in [Iters -> [Shards -> PolicyFile]]
  /\ grads \in [Iters -> [Shards -> PolicyFile]]
  /\ sizes \in [Iters -> PolicyFile]
  /\ empty \in [Iters -> SUBSET Steps]
  /\ ckpt \in [Iters -> [Steps -> PolicyFile]]
  /\ data \in [Iters -> [Steps -> 0 .. NSteps]]
  /\ tracker \in [Iters -> StepFile]
  /\ export \in [Iters -> [Steps -> PolicyFile]]
  /\ marker \in [Iters -> StepFile]
  /\ pc \in JobStates
  /\ iter \in 1 .. NIter + 1
  /\ policy \in Policies
  /\ worker \in [Shards -> WorkerStates]
  /\ model \in Policies
  /\ gstep \in 0 .. NSteps + 1
  /\ loader \in 0 .. NSteps
  /\ kills \in 0 .. MaxKills
  /\ fails \in 0 .. MaxFails

Init ==
  /\ pilotsAll = [i \in Iters |-> [g \in Shards |-> NoFile]]
  /\ pilots = [i \in Iters |-> [g \in Shards |-> NoFile]]
  /\ rates = [i \in Iters |-> [g \in Shards |-> NoFile]]
  /\ grads = [i \in Iters |-> [g \in Shards |-> NoFile]]
  /\ sizes = [i \in Iters |-> NoFile]
  /\ empty = [i \in Iters |-> {}]
  /\ ckpt = [i \in Iters |-> [s \in Steps |-> NoFile]]
  /\ data = [i \in Iters |-> [s \in Steps |-> 0]]
  /\ tracker = [i \in Iters |-> NoFile]
  /\ export = [i \in Iters |-> [s \in Steps |-> NoFile]]
  /\ marker = [i \in Iters |-> NoFile]
  /\ pc = "idle"
  /\ iter = 1
  /\ policy = 0
  /\ worker = [g \in Shards |-> "none"]
  /\ model = 0
  /\ gstep = 0
  /\ loader = 0
  /\ kills = 0
  /\ fails = 0

-----------------------------------------------------------------------------
(* Helpers of the script.  A definition whose name has an underscore is a      *)
(* wrong version of the one that follows: a property must notice the swap.    *)

\* has_weights "$(cat "$done_marker")": a glob, so torn weights count too.
HasWeights_WrongPattern(i) == FALSE
HasWeights(i) == Whole(marker[i]) /\ Exists(export[i][marker[i]])

\* The test at the top of the loop, and (exit 3 otherwise) of the predecessor.
Complete_MarkerOnly(i) == Exists(marker[i])
Complete(i) == Exists(marker[i]) /\ HasWeights(i)

\* set -e, or an explicit exit: the job ends with the disk as it is.
Exit ==
  /\ pc' = "idle"
  /\ iter' = 1
  /\ policy' = 0
  /\ worker' = [g \in Shards |-> "none"]
  /\ model' = 0
  /\ gstep' = 0
  /\ loader' = 0

\* The script goes on to its next command.
Proceed(to) ==
  /\ pc' = to
  /\ UNCHANGED <<iter, policy, worker, model, gstep, loader>>

Goto(from, to) == pc = from /\ Proceed(to)

-----------------------------------------------------------------------------
(* The loop head *)

\* sbatch: the loop starts over at the first iteration.
Submit ==
  /\ Goto("idle", "loop")
  /\ UNCHANGED <<eFiles, mFiles, faults>>

SkipIteration ==
  /\ pc = "loop" /\ iter \in Iters
  /\ Complete(iter)
  /\ iter' = iter + 1
  /\ UNCHANGED <<eFiles, mFiles, pc, policy, worker, model, gstep, loader, faults>>

\* The weights iteration i starts from: the base model, or the export that the
\* done marker of iteration i-1 names.
StartingPolicy_NeverRefreshed(i) == 0
StartingPolicy(i) == i - 1

PredecessorReady(i) == i > 1 => Complete(i - 1)

EnterIteration ==
  /\ pc = "loop" /\ iter \in Iters
  /\ ~Complete(iter)
  /\ IF PredecessorReady(iter)
       THEN /\ policy' = StartingPolicy(iter)
            /\ pc' = IF Exists(sizes[iter]) THEN "mstep" ELSE "stage1"
            /\ UNCHANGED <<iter, worker, model, gstep, loader>>
       ELSE Exit
  /\ UNCHANGED <<eFiles, mFiles, faults>>

Finish ==
  /\ pc = "loop" /\ iter = NIter + 1
  /\ Proceed("finished")
  /\ UNCHANGED <<eFiles, mFiles, faults>>

-----------------------------------------------------------------------------
(* Launching and awaiting the workers of the E-step *)

\* Only the last shard's output decides whether a stage is skipped.
StageDone(files) == Exists(files[iter][LastShard])

Launch(to, entry) ==
  /\ pc' = to
  /\ worker' = [g \in Shards |-> entry]
  /\ UNCHANGED <<iter, policy, model, gstep, loader>>

Stage1 ==
  /\ pc = "stage1"
  /\ IF StageDone(pilots) THEN Proceed("stage2") ELSE Launch("wait1", "gen")
  /\ UNCHANGED <<eFiles, mFiles, faults>>

Stage2 ==
  /\ pc = "stage2"
  /\ IF StageDone(grads) THEN Proceed("budget") ELSE Launch("wait2", "load")
  /\ UNCHANGED <<eFiles, mFiles, faults>>

\* A bare `wait` returns 0 whatever the workers' exit codes were.
Await(from, to) ==
  /\ Goto(from, to)
  /\ \A g \in Shards : ~Running(g)
  /\ UNCHANGED <<eFiles, mFiles, faults>>

AwaitStage1 == Await("wait1", "stage2")
AwaitStage2 == Await("wait2", "budget")

-----------------------------------------------------------------------------
(* A worker of stage 1 and of stage 2a, between two writes *)

Move(g, from, to) ==
  /\ worker[g] = from
  /\ worker' = [worker EXCEPT ![g] = to]
  /\ UNCHANGED <<sizes, empty, mFiles, pc, iter, policy, model, gstep, loader, faults>>

Put(file, g, content) == [file EXCEPT ![iter][g] = content]

OpenPilotsAll(g) ==
  /\ Move(g, "gen", "all")
  /\ pilotsAll' = Put(pilotsAll, g, TornFile)
  /\ UNCHANGED <<pilots, rates, grads>>

ClosePilotsAll(g) ==
  /\ Move(g, "all", "score")
  /\ pilotsAll' = Put(pilotsAll, g, policy)
  /\ UNCHANGED <<pilots, rates, grads>>

OpenPilots(g) ==
  /\ Move(g, "score", "keep")
  /\ pilots' = Put(pilots, g, TornFile)
  /\ UNCHANGED <<pilotsAll, rates, grads>>

ClosePilots(g) ==
  /\ Move(g, "keep", "exited")
  /\ pilots' = Put(pilots, g, policy)
  /\ UNCHANGED <<pilotsAll, rates, grads>>

\* json.load of this shard's pilots; the worker dies when that raises.
LoadPilots(g) ==
  /\ Move(g, "load", IF Whole(pilots[iter][g]) THEN "rate" ELSE "exited")
  /\ UNCHANGED <<pilotsAll, pilots, rates, grads>>

OpenRates(g) ==
  /\ Move(g, "rate", "rates")
  /\ rates' = Put(rates, g, TornFile)
  /\ UNCHANGED <<pilotsAll, pilots, grads>>

CloseRates(g) ==
  /\ Move(g, "rates", "grad")
  /\ rates' = Put(rates, g, pilots[iter][g])
  /\ UNCHANGED <<pilotsAll, pilots, grads>>

OpenGrads(g) ==
  /\ Move(g, "grad", "grads")
  /\ grads' = Put(grads, g, TornFile)
  /\ UNCHANGED <<pilotsAll, pilots, rates>>

CloseGrads(g) ==
  /\ Move(g, "grads", "exited")
  /\ grads' = Put(grads, g, policy)
  /\ UNCHANGED <<pilotsAll, pilots, rates>>

WorkerStep(g) ==
  \/ OpenPilotsAll(g) \/ ClosePilotsAll(g) \/ OpenPilots(g) \/ ClosePilots(g)
  \/ LoadPilots(g) \/ OpenRates(g) \/ CloseRates(g) \/ OpenGrads(g) \/ CloseGrads(g)

\* The worker dies on its own; a file it was writing stays torn.
WorkerDies(g) ==
  /\ fails < MaxFails
  /\ Running(g)
  /\ worker' = [worker EXCEPT ![g] = "exited"]
  /\ fails' = fails + 1
  /\ UNCHANGED <<eFiles, mFiles, pc, iter, policy, model, gstep, loader, kills>>

-----------------------------------------------------------------------------
(* Stage 2b: budget allocation *)

Readable(files) == \A g \in Shards : Whole(files[iter][g])

\* n_prompts sums the lengths of all accept_rates files.
CountPrompts == Readable(rates)

CountBudget ==
  /\ pc = "budget"
  /\ IF CountPrompts THEN Proceed("alloc") ELSE Exit
  /\ UNCHANGED <<eFiles, mFiles, faults>>

\* stage_2_calc_sample_size.py reads the rates and norms of every shard.
InputsReadable_RatesOnly == Readable(rates)
InputsReadable == Readable(rates) /\ Readable(grads)

OpenSizes ==
  /\ pc = "alloc"
  /\ IF InputsReadable
       THEN Proceed("sizes") /\ sizes' = [sizes EXCEPT ![iter] = TornFile]
       ELSE Exit /\ UNCHANGED sizes
  /\ UNCHANGED <<pilotsAll, pilots, rates, grads, empty, mFiles, faults>>

\* The allocation descends from the oldest policy behind any of its inputs.
Oldest(S) == CHOOSE x \in S : \A y \in S : x <= y
Inputs == {rates[iter][g] : g \in Shards} \cup {grads[iter][g] : g \in Shards}

\* Which batches are left without a rollout follows from the budgets and from
\* the seeded order of the prompts: it is the same for every trainer.
CloseSizes ==
  /\ Goto("sizes", "mstep")
  /\ sizes' = [sizes EXCEPT ![iter] = Oldest(Inputs)]
  /\ \E e \in EmptyBatches : empty' = [empty EXCEPT ![iter] = e]
  /\ UNCHANGED <<pilotsAll, pilots, rates, grads, mFiles, faults>>

-----------------------------------------------------------------------------
(* The M-step: main_ppo with resume_mode=auto *)

\* fit() reads the sizes, the pilots when they are reused, and the tracker;
\* any of them torn raises.  A tracked folder that is missing means "train
\* from scratch", one whose shards cannot be read raises.
Tracked == tracker[iter]
Scratch == ~Whole(Tracked) \/ ~Exists(ckpt[iter][Tracked])

TrainerInputsReadable ==
  /\ Whole(sizes[iter])
  /\ Reuse => \A g \in Shards : pilotsAll[iter][g] # TornFile
  /\ Tracked # TornFile
  /\ ~Scratch => Whole(ckpt[iter][Tracked])

StartTrainer ==
  /\ pc = "mstep"
  /\ IF TrainerInputsReadable
       THEN /\ pc' = "train"
            /\ gstep' = IF Scratch THEN 1 ELSE Tracked + 1
            /\ model' = IF Scratch THEN policy ELSE ckpt[iter][Tracked]
            /\ loader' = IF Scratch THEN 0 ELSE data[iter][Tracked]
            /\ UNCHANGED <<iter, policy, worker>>
       ELSE Exit
  /\ UNCHANGED <<eFiles, mFiles, faults>>

\* is_last_step compares with the number of batches, not with the steps that
\* the batches of this iteration will make.
SaveDue(s) == s = NSteps \/ s % SaveFreq = 0

MoreBatches == loader < NSteps
NextBatchEmpty == loader + 1 \in empty[iter]

\* `continue`: a batch without a rollout makes no step and reaches no save.
SkipEmptyBatch ==
  /\ pc = "train" /\ MoreBatches /\ NextBatchEmpty
  /\ loader' = loader + 1
  /\ UNCHANGED <<eFiles, mFiles, pc, iter, policy, worker, model, gstep, faults>>

\* One optimizer step; a due save begins by creating global_step_<gstep>.
TrainStep ==
  /\ pc = "train" /\ MoreBatches /\ ~NextBatchEmpty
  /\ loader' = loader + 1
  /\ IF SaveDue(gstep)
       THEN /\ pc' = "ckpt"
            /\ ckpt' = [ckpt EXCEPT ![iter][gstep] = TornFile]
            /\ UNCHANGED gstep
       ELSE gstep' = gstep + 1 /\ UNCHANGED <<pc, ckpt>>
  /\ UNCHANGED <<eFiles, data, tracker, export, marker, iter, policy, worker, model, faults>>

\* The shards, and then data.pt with the loader's position.
CloseCheckpoint_NotAwaited ==
  /\ Goto("ckpt", "track")
  /\ data' = [data EXCEPT ![iter][gstep] = loader]
  /\ UNCHANGED <<eFiles, ckpt, tracker, export, marker, faults>>

CloseCheckpoint ==
  /\ Goto("ckpt", "track")
  /\ ckpt' = [ckpt EXCEPT ![iter][gstep] = model]
  /\ data' = [data EXCEPT ![iter][gstep] = loader]
  /\ UNCHANGED <<eFiles, tracker, export, marker, faults>>

\* The tracker is opened with "w" and written in place.
OpenTracker ==
  /\ Goto("track", "tracking")
  /\ tracker' = [tracker EXCEPT ![iter] = TornFile]
  /\ UNCHANGED <<eFiles, ckpt, data, export, marker, faults>>

CloseTracker ==
  /\ pc = "tracking" /\ pc' = "train"
  /\ tracker' = [tracker EXCEPT ![iter] = gstep]
  /\ gstep' = gstep + 1
  /\ UNCHANGED <<eFiles, ckpt, data, export, marker, iter, policy, worker, model,
                 loader, faults>>

\* The data loader is exhausted, or fit() returned after the last step.
TrainerReturns ==
  /\ pc = "train" /\ ~MoreBatches
  /\ Proceed("merge")
  /\ UNCHANGED <<eFiles, mFiles, faults>>

-----------------------------------------------------------------------------
(* Export and completion *)

Saved == {s \in Steps : Exists(ckpt[iter][s])}
LastStepDir_FirstListed == CHOOSE s \in Saved : \A t \in Saved : s <= t
LastStepDir == CHOOSE s \in Saved : \A t \in Saved : t <= s

\* The merger reads the FSDP shards of the last folder; set -e, exit 5.
Mergeable == Saved # {} /\ Whole(ckpt[iter][LastStepDir])

OpenExport ==
  /\ pc = "merge"
  /\ IF Mergeable
       THEN /\ Proceed("merging")
            /\ export' = [export EXCEPT ![iter][LastStepDir] = TornFile]
       ELSE Exit /\ UNCHANGED export
  /\ UNCHANGED <<eFiles, ckpt, data, tracker, marker, faults>>

CloseExport ==
  /\ Goto("merging", "mark")
  /\ export' = [export EXCEPT ![iter][LastStepDir] = ckpt[iter][LastStepDir]]
  /\ UNCHANGED <<eFiles, ckpt, data, tracker, marker, faults>>

OpenMarker ==
  /\ Goto("mark", "marking")
  /\ marker' = [marker EXCEPT ![iter] = TornFile]
  /\ UNCHANGED <<eFiles, ckpt, data, tracker, export, faults>>

CloseMarker ==
  /\ pc = "marking" /\ pc' = "loop"
  /\ marker' = [marker EXCEPT ![iter] = LastStepDir]
  /\ iter' = iter + 1
  /\ UNCHANGED <<eFiles, ckpt, data, tracker, export, policy, worker, model, gstep,
                 loader, faults>>

-----------------------------------------------------------------------------
(* Faults *)

\* Slurm kills the job and everything it started, between any two steps.
Kill ==
  /\ kills < MaxKills
  /\ pc \notin {"idle", "finished"}
  /\ Exit
  /\ kills' = kills + 1
  /\ UNCHANGED <<eFiles, mFiles, fails>>

\* The foreground program dies on its own and set -e ends the script.
ProgramDies ==
  /\ fails < MaxFails
  /\ pc \in {"alloc", "sizes", "mstep", "train", "ckpt", "track", "tracking",
             "merge", "merging"}
  /\ Exit
  /\ fails' = fails + 1
  /\ UNCHANGED <<eFiles, mFiles, kills>>

-----------------------------------------------------------------------------
EStep == \/ Stage1 \/ AwaitStage1 \/ Stage2 \/ AwaitStage2
         \/ CountBudget \/ OpenSizes \/ CloseSizes

MStep == \/ StartTrainer \/ SkipEmptyBatch \/ TrainStep \/ CloseCheckpoint
         \/ OpenTracker \/ CloseTracker \/ TrainerReturns
         \/ OpenExport \/ CloseExport \/ OpenMarker \/ CloseMarker

JobStep == \/ SkipIteration \/ EnterIteration \/ Finish
           \/ EStep \/ MStep

Next ==
  \/ Submit
  \/ JobStep
  \/ \E g \in Shards : WorkerStep(g) \/ WorkerDies(g)
  \/ Kill
  \/ ProgramDies

Spec == Init /\ [][Next]_vars

\* A running program makes progress, and a job that ended is resubmitted.
Fairness ==
  /\ WF_vars(Submit)
  /\ WF_vars(JobStep)
  /\ \A g \in Shards : WF_vars(WorkerStep(g))

FairSpec == Spec /\ Fairness

-----------------------------------------------------------------------------
(* Safety *)

\* Whatever iteration j's E-step and M-step leave on disk descends from the
\* policy of iteration j-1: a kill or resubmission never mixes policies.
OnPolicy ==
  \A j \in Iters :
    /\ \A g \in Shards :
         \A f \in {pilotsAll[j][g], pilots[j][g], rates[j][g], grads[j][g]} :
           Whole(f) => f = j - 1
    /\ Whole(sizes[j]) => sizes[j] = j - 1
    /\ \A s \in Steps : \A f \in {ckpt[j][s], export[j][s]} : Whole(f) => f = j - 1

\* A budget is opened for writing only when every shard of the prompts is
\* accounted for, and no later job takes a shard's rates or norms away from it.
BudgetCoversAllShards ==
  \A j \in Iters : Exists(sizes[j]) =>
    \A g \in Shards : Whole(rates[j][g]) /\ Whole(grads[j][g])

\* The tracker never names a checkpoint that is not complete, through any
\* sequence of kills and resumed trainings.
TrackerNamesCompleteCheckpoint ==
  \A j \in Iters : Whole(tracker[j]) => Whole(ckpt[j][tracker[j]])

\* The steps of iteration j's M-step, and those of them that are saved.
TrainedSteps(j) == Cardinality(Steps \ empty[j])
SavedSteps(j) == {s \in 1 .. TrainedSteps(j) : SaveDue(s)}

\* A done marker names completely merged weights of the last step that the
\* iteration saves, whatever folders earlier jobs left.  A skipped batch may
\* leave the steps after it unsaved, fewer than trainer.save_freq; without one
\* the marker names the last step.
DoneNamesTheLastSave ==
  \A j \in Iters : Whole(marker[j]) =>
    /\ marker[j] \in SavedSteps(j) /\ Whole(export[j][marker[j]])
    /\ TrainedSteps(j) - marker[j] < SaveFreq
    /\ empty[j] = {} => marker[j] = NSteps

\* No file of an iteration exists before its predecessor is done.
IterationsInOrder ==
  \A j \in Iters : \A g \in Shards :
    Exists(pilotsAll[j][g]) \/ Exists(tracker[j]) =>
      \A k \in 1 .. j - 1 : Whole(marker[k])

\* No file of a completed iteration ever changes again.
CompletedIterationsFrozen ==
  [][\A j \in Iters : Whole(marker[j]) =>
       /\ pilotsAll'[j] = pilotsAll[j] /\ pilots'[j] = pilots[j]
       /\ rates'[j] = rates[j] /\ grads'[j] = grads[j]
       /\ sizes'[j] = sizes[j] /\ empty'[j] = empty[j]
       /\ ckpt'[j] = ckpt[j] /\ data'[j] = data[j] /\ tracker'[j] = tracker[j]
       /\ export'[j] = export[j] /\ marker'[j] = marker[j]]_vars

-----------------------------------------------------------------------------
(* Liveness *)

\* The disk, between two jobs, from which no resubmission gets further: the
\* last shard's file hides a missing or torn one, or a file whose mere
\* existence skips its stage is torn, or the budgets leave so few steps that no
\* one of them is saved and there is nothing to merge.
EStepWedged(j) ==
  /\ ~Exists(sizes[j])
  /\ Exists(pilots[j][LastShard])
  /\ \E g \in Shards :
       /\ ~(Whole(rates[j][g]) /\ Whole(grads[j][g]))
       /\ ~Whole(pilots[j][g]) \/ Exists(grads[j][LastShard])

MStepWedged(j) ==
  \/ sizes[j] = TornFile
  \/ tracker[j] = TornFile
  \/ Whole(sizes[j]) /\ SavedSteps(j) = {}
  \/ Reuse /\ Whole(sizes[j]) /\ \E g \in Shards : pilotsAll[j][g] = TornFile

Wedged == \E j \in Iters : ~Complete(j) /\ (EStepWedged(j) \/ MStepWedged(j))

\* Resubmitting always finishes the run in the end, unless a job left the disk
\* in one of the wedged shapes: those are the only way to get stuck.
ResubmitFinishesUnlessWedged ==
  [](pc = "idle" => ~Wedged) => <>(pc = "finished")

===============================================================================
