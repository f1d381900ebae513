--------------------------- MODULE EmPipelineProofs ---------------------------
(***************************************************************************)
(* For any number of iterations, GPUs, steps, kills and dying programs,    *)
(* the EM loop never mixes policies, never budgets from an incomplete      *)
(* E-step and never marks an iteration done but with its last save.        *)
(***************************************************************************)
EXTENDS EmPipeline, FiniteSetTheorems, WellFoundedInduction, TLAPS

\* A job that is past the loop head works on an iteration that is not done,
\* all of whose predecessors are done, and from the policy before it.
Inside == pc \notin {"idle", "loop", "finished"}

JobInv ==
  /\ Inside => /\ iter \in Iters
               /\ policy = iter - 1
               /\ ~Whole(marker[iter])
  /\ \A k \in 1 .. iter - 1 : Whole(marker[k])

\* Workers run only while the script waits for them; a stage 2a worker past
\* its first read has complete pilots.
WorkerInv ==
  \A g \in Shards :
    /\ worker[g] \in {"gen", "all", "score", "keep"} => pc = "wait1"
    /\ worker[g] \in {"load", "rate", "rates", "grad", "grads"} => pc = "wait2"
    /\ worker[g] \in {"rate", "rates", "grad", "grads"} => Whole(pilots[iter][g])

\* While the E-step of an iteration runs there is no budget file yet.
BudgetInv ==
  /\ pc \in {"stage1", "wait1", "stage2", "wait2", "budget", "alloc"} =>
       sizes[iter] = NoFile
  /\ pc = "sizes" => sizes[iter] = TornFile /\ Readable(rates) /\ Readable(grads)

\* The trainer is ahead of the tracker, which follows what is complete.
TrainInv ==
  /\ pc \in {"train", "ckpt", "track", "tracking"} => model = iter - 1 /\ gstep >= 1
  /\ pc \in {"ckpt", "track", "tracking"} => gstep \in Steps
  /\ pc \in {"train", "ckpt"} => (Whole(tracker[iter]) => tracker[iter] < gstep)
  /\ pc \in {"track", "tracking"} => Whole(ckpt[iter][gstep])

\* The steps that the first p batches of iteration j make.
Made(j, p) == Cardinality((1 .. p) \ empty[j])

\* The saves of iteration j up to step n are complete.
SavedUpTo(j, n) == \A s \in SavedSteps(j) : s <= n => Whole(ckpt[j][s])

\* Step numbers count the batches that made a step, on disk and in the trainer;
\* only due steps have a folder, and those the tracker or the trainer has
\* passed are complete.
DiskInv ==
  \A j \in Iters :
    /\ \A s \in Steps : Exists(ckpt[j][s]) => Whole(sizes[j]) /\ s \in SavedSteps(j)
    /\ \A s \in Steps : Whole(ckpt[j][s]) => Made(j, data[j][s]) = s
    /\ Whole(tracker[j]) => SavedUpTo(j, tracker[j])

StepInv ==
  /\ pc \in {"train", "ckpt", "track", "tracking", "merge", "merging", "mark", "marking"} =>
       Whole(sizes[iter])
  /\ pc = "train" => Made(iter, loader) = gstep - 1 /\ SavedUpTo(iter, gstep - 1)
  /\ pc \in {"ckpt", "track", "tracking"} => Made(iter, loader) = gstep /\ SaveDue(gstep)
  /\ pc = "ckpt" => SavedUpTo(iter, gstep - 1)
  /\ pc \in {"track", "tracking"} => SavedUpTo(iter, gstep)
  /\ pc \in {"merge", "merging", "mark", "marking"} => SavedUpTo(iter, NSteps)
  /\ pc \in {"merging", "mark", "marking"} => Saved # {}
  /\ pc \in {"mark", "marking"} => Whole(export[iter][LastStepDir])

IInv ==
  /\ TypeOK /\ JobInv /\ WorkerInv /\ BudgetInv /\ TrainInv /\ DiskInv /\ StepInv
  /\ OnPolicy /\ BudgetCoversAllShards /\ TrackerNamesCompleteCheckpoint
  /\ DoneNamesTheLastSave /\ IterationsInOrder

-----------------------------------------------------------------------------
(* Counting steps *)

LEMMA MadeBounds ==
  ASSUME TypeOK, NEW j \in Iters, NEW p \in 0 .. NSteps
  PROVE  /\ Made(j, p) \in 0 .. NSteps /\ Made(j, p) <= TrainedSteps(j)
         /\ TrainedSteps(j) = Made(j, NSteps) /\ TrainedSteps(j) \in 0 .. NSteps
<1> DEFINE S == Steps \ empty[j]
           P == (1 .. p) \ empty[j]
<1>1. IsFiniteSet(Steps) /\ Cardinality(Steps) = NSteps
  BY FS_Interval, PipelineAssumption DEF Steps
<1>2. IsFiniteSet(S) /\ Cardinality(S) <= NSteps /\ Cardinality(S) \in Nat
  <2>1. S \in SUBSET Steps
    OBVIOUS
  <2>. QED BY <1>1, <2>1, FS_Subset, FS_CardinalityType
<1>3. Cardinality(P) <= Cardinality(S) /\ Cardinality(P) \in Nat
  <2>1. P \in SUBSET S
    BY PipelineAssumption DEF Steps
  <2>. QED BY <1>2, <2>1, FS_Subset, FS_CardinalityType
<1>. QED BY <1>2, <1>3, PipelineAssumption DEF Made, TrainedSteps, Steps

\* A batch makes a step exactly when it is not left empty.
LEMMA MadeNext ==
  ASSUME TypeOK, NEW j \in Iters, NEW p \in 0 .. NSteps - 1
  PROVE  Made(j, p + 1) = IF p + 1 \in empty[j] THEN Made(j, p) ELSE Made(j, p) + 1
<1> DEFINE P == (1 .. p) \ empty[j]
<1>1. IsFiniteSet(P)
  <2>1. IsFiniteSet(1 .. p)
    BY FS_Interval, PipelineAssumption
  <2>2. P \in SUBSET (1 .. p)
    OBVIOUS
  <2>. QED BY <2>1, <2>2, FS_Subset
<1>2. 1 .. p + 1 = (1 .. p) \cup {p + 1} /\ p + 1 \notin P
  BY PipelineAssumption
<1>3. CASE p + 1 \in empty[j]
  <2>1. (1 .. p + 1) \ empty[j] = P
    BY <1>2, <1>3
  <2>. QED BY <1>3, <2>1 DEF Made
<1>4. CASE p + 1 \notin empty[j]
  <2>1. (1 .. p + 1) \ empty[j] = P \cup {p + 1}
    BY <1>2, <1>4
  <2>2. Cardinality(P \cup {p + 1}) = Cardinality(P) + 1
    BY <1>1, <1>2, FS_AddElement
  <2>. QED BY <1>4, <2>1, <2>2 DEF Made
<1>. QED BY <1>3, <1>4

LEMMA MadeNone ==
  ASSUME NEW j PROVE Made(j, 0) = 0
<1>1. (1 .. 0) \ empty[j] = {}
  OBVIOUS
<1>. QED BY <1>1, FS_EmptySet DEF Made

\* The number of the step that the trainer makes next.
LEMMA NextStep ==
  ASSUME IInv, pc = "train", MoreBatches
  PROVE  /\ iter \in Iters /\ loader \in 0 .. NSteps - 1 /\ loader + 1 \in 0 .. NSteps
         /\ NextBatchEmpty => Made(iter, loader + 1) = gstep - 1
         /\ ~NextBatchEmpty => /\ Made(iter, loader + 1) = gstep
                               /\ gstep \in Steps /\ gstep \in 1 .. TrainedSteps(iter)
<1> USE PipelineAssumption
<1>1. iter \in Iters
  BY DEF IInv, JobInv, Inside
<1>2. loader \in 0 .. NSteps - 1 /\ loader + 1 \in 0 .. NSteps
  BY DEF IInv, TypeOK, MoreBatches
<1>3. Made(iter, loader) = gstep - 1 /\ gstep >= 1 /\ gstep \in Nat
  BY DEF IInv, TypeOK, StepInv, TrainInv
<1>4. TypeOK
  BY DEF IInv
<1>5. NextBatchEmpty => Made(iter, loader + 1) = gstep - 1
  BY <1>1, <1>2, <1>3, <1>4, MadeNext DEF NextBatchEmpty
<1>6. ASSUME ~NextBatchEmpty
      PROVE  Made(iter, loader + 1) = gstep
  BY <1>1, <1>2, <1>3, <1>4, <1>6, MadeNext DEF NextBatchEmpty
<1>7. /\ Made(iter, loader + 1) <= TrainedSteps(iter)
      /\ TrainedSteps(iter) \in 0 .. NSteps
  BY <1>1, <1>2, <1>4, MadeBounds
<1>8. ASSUME ~NextBatchEmpty
      PROVE  gstep \in Steps /\ gstep \in 1 .. TrainedSteps(iter)
  BY <1>3, <1>6, <1>7, <1>8 DEF Steps
<1>. QED BY <1>1, <1>2, <1>5, <1>6, <1>8

-----------------------------------------------------------------------------
(* The last save *)

\* A set of step numbers has a greatest one.
LEMMA GreatestStep ==
  ASSUME NEW S \in SUBSET Steps, S # {}
  PROVE  \E m \in S : \A t \in S : t <= m
<1> DEFINE Bounds == {n \in Nat : \A t \in S : t <= n}
           Less == OpToRel(<, Nat)
<1>1. NSteps \in Bounds /\ Bounds \subseteq Nat
  BY PipelineAssumption DEF Steps
<1>2. IsWellFoundedOn(Less, Nat)
  BY NatLessThanWellFounded, Zenon DEF OpToRel
<1>3. PICK m \in Bounds : \A n \in Bounds : ~(<<n, m>> \in Less)
  <2> HIDE DEF Bounds, Less
  <2>1. Bounds # {}
    BY <1>1
  <2>. QED BY <1>1, <1>2, <2>1, WFMin
<1>4. m \in Nat /\ \A t \in S : t <= m
  OBVIOUS
<1>5. \A t \in S : t \in Nat /\ t >= 1
  BY DEF Steps
<1>6. SUFFICES ASSUME m \notin S PROVE FALSE
  BY <1>4
<1>7. \A t \in S : t <= m - 1
  BY <1>4, <1>5, <1>6
<1>8. m - 1 \in Nat
  <2>1. PICK t \in S : TRUE
    OBVIOUS
  <2>. QED BY <1>4, <1>5, <2>1
<1>9. m - 1 \in Bounds
  BY <1>7, <1>8
<1>10. <<m - 1, m>> \in Less
  BY <1>4, <1>8 DEF OpToRel
<1>. QED BY <1>3, <1>9, <1>10

\* The greatest folder there is, is the last save, once the trainer returned.
LEMMA LastDirIsLastSave ==
  ASSUME IInv, pc \in {"merge", "merging", "mark", "marking"}, Saved # {}
  PROVE  /\ iter \in Iters /\ LastStepDir \in Steps /\ LastStepDir \in SavedSteps(iter)
         /\ Whole(ckpt[iter][LastStepDir])
         /\ \A s \in SavedSteps(iter) : s <= LastStepDir
<1>1. iter \in Iters /\ TypeOK
  BY DEF IInv, JobInv, Inside
<1>2. SavedSteps(iter) \subseteq Steps
  <2>1. TrainedSteps(iter) \in 0 .. NSteps
    BY <1>1, MadeBounds, PipelineAssumption
  <2>. QED BY <2>1, PipelineAssumption DEF SavedSteps, Steps
<1>3. \A s \in SavedSteps(iter) : Whole(ckpt[iter][s])
  <2>1. SavedUpTo(iter, NSteps)
    BY DEF IInv, StepInv
  <2>. QED BY <1>2, <2>1 DEF SavedUpTo, Steps
<1>4. Saved = SavedSteps(iter)
  BY <1>1, <1>2, <1>3 DEF Saved, IInv, DiskInv, Exists, Whole, NoFile
<1>5. PICK m \in Saved : \A t \in Saved : t <= m
  BY <1>2, <1>4, GreatestStep
<1>6. LastStepDir \in Saved /\ \A t \in Saved : t <= LastStepDir
  BY <1>5 DEF LastStepDir
<1>. QED BY <1>1, <1>2, <1>3, <1>4, <1>6

LEMMA LastMultiple ==
  ASSUME NEW t \in Nat, NEW f \in Nat \ {0}
  PROVE  \E s \in 0 .. t : t - s < f /\ s % f = 0
<1> DEFINE s == t - (t % f)
<1>1. t % f \in 0 .. f - 1
  OBVIOUS
<1>2. t \div f \in Nat /\ t = f * (t \div f) + (t % f)
  OBVIOUS
<1>3. s = f * (t \div f) /\ s \in 0 .. t
  BY <1>1, <1>2
<1>4. s % f = 0
  BY <1>2, <1>3
<1>. QED BY <1>1, <1>3, <1>4

\* No more than save_freq steps follow the last save, and none does when every
\* batch makes a step.
LEMMA LastSaveIsClose ==
  ASSUME TypeOK, NEW j \in Iters, NEW m \in SavedSteps(j), \A s \in SavedSteps(j) : s <= m
  PROVE  TrainedSteps(j) - m < SaveFreq /\ (empty[j] = {} => m = NSteps)
<1> USE PipelineAssumption
<1>1. TrainedSteps(j) \in 0 .. NSteps
  BY MadeBounds
<1>2. m \in 1 .. TrainedSteps(j)
  BY DEF SavedSteps
<1>3. TrainedSteps(j) - m < SaveFreq
  <2>1. PICK s \in 0 .. TrainedSteps(j) : TrainedSteps(j) - s < SaveFreq /\ s % SaveFreq = 0
    <3>1. TrainedSteps(j) \in Nat /\ SaveFreq \in Nat \ {0}
      BY <1>1
    <3>. QED BY <3>1, LastMultiple
  <2>2. CASE s = 0
    BY <1>1, <1>2, <2>1, <2>2
  <2>3. CASE s # 0
    <3>1. s \in SavedSteps(j)
      BY <1>1, <2>1, <2>3 DEF SavedSteps, SaveDue
    <3>. QED BY <1>1, <1>2, <2>1, <3>1
  <2>. QED BY <2>2, <2>3
<1>4. ASSUME empty[j] = {} PROVE m = NSteps
  <2>1. Steps \ empty[j] = 1 .. NSteps
    BY <1>4 DEF Steps
  <2>2. TrainedSteps(j) = NSteps
    <3>1. Cardinality(1 .. NSteps) = NSteps
      BY FS_Interval
    <3>. QED BY <2>1, <3>1 DEF TrainedSteps
  <2>3. NSteps \in SavedSteps(j)
    BY <2>2 DEF SavedSteps, SaveDue
  <2>. QED BY <1>2, <2>2, <2>3
<1>. QED BY <1>3, <1>4

-----------------------------------------------------------------------------

\* When a budget is written, every one of its inputs is on the same policy.
LEMMA OldestInput ==
  ASSUME IInv, CloseSizes
  PROVE  Oldest(Inputs) = iter - 1
<1> USE PipelineAssumption
<1>1. \A x \in Inputs : x = iter - 1
  BY DEF CloseSizes, Goto, IInv, TypeOK, JobInv, Inside, BudgetInv, Readable,
    OnPolicy, Inputs, Shards, Iters
<1>2. iter - 1 \in Inputs
  <2>1. 0 \in Shards
    BY DEF Shards
  <2>. QED
    BY <1>1, <2>1 DEF Inputs
<1>3. iter - 1 \in Int
  BY DEF IInv, TypeOK
<1>. QED
  BY <1>1, <1>2, <1>3 DEF Oldest

LEMMA JobFrame ==
  ASSUME JobInv, UNCHANGED <<pc, iter, policy, marker>>
  PROVE  JobInv'
PROOF BY DEF JobInv, Inside

LEMMA WorkerFrame ==
  ASSUME WorkerInv, UNCHANGED <<worker, pc, pilots, iter>>
  PROVE  WorkerInv'
PROOF BY DEF WorkerInv

LEMMA BudgetFrame ==
  ASSUME BudgetInv, UNCHANGED <<pc, sizes, iter, rates, grads>>
  PROVE  BudgetInv'
PROOF BY DEF BudgetInv, Readable

LEMMA TrainFrame ==
  ASSUME TrainInv, UNCHANGED <<pc, model, iter, gstep, tracker, ckpt, export>>
  PROVE  TrainInv'
PROOF BY DEF TrainInv

LEMMA PolicyFrame ==
  ASSUME OnPolicy, UNCHANGED <<pilotsAll, pilots, rates, grads, sizes, ckpt, export>>
  PROVE  OnPolicy'
PROOF BY DEF OnPolicy

LEMMA CoversFrame ==
  ASSUME BudgetCoversAllShards, UNCHANGED <<sizes, rates, grads>>
  PROVE  BudgetCoversAllShards'
PROOF BY DEF BudgetCoversAllShards

LEMMA TrackerFrame ==
  ASSUME TrackerNamesCompleteCheckpoint, UNCHANGED <<tracker, ckpt>>
  PROVE  TrackerNamesCompleteCheckpoint'
PROOF BY DEF TrackerNamesCompleteCheckpoint

LEMMA DoneFrame ==
  ASSUME DoneNamesTheLastSave, UNCHANGED <<marker, export, empty>>
  PROVE  DoneNamesTheLastSave'
PROOF BY DEF DoneNamesTheLastSave, SavedSteps, TrainedSteps

\* What is on disk for the saves, and between two jobs nothing else, is as it was.
LEMMA DiskFrame ==
  ASSUME DiskInv, UNCHANGED <<sizes, empty, ckpt, data, tracker>>
  PROVE  DiskInv'
PROOF BY DEF DiskInv, SavedUpTo, SavedSteps, TrainedSteps, Made

LEMMA StepFrame ==
  ASSUME StepInv, UNCHANGED <<pc, iter, gstep, loader, sizes, empty, ckpt, export>>
  PROVE  StepInv'
PROOF BY DEF StepInv, SavedUpTo, SavedSteps, TrainedSteps, Made, Saved, LastStepDir

LEMMA OrderFrame ==
  ASSUME IterationsInOrder, UNCHANGED <<pilotsAll, tracker, marker>>
  PROVE  IterationsInOrder'
PROOF BY DEF IterationsInOrder

\* What the programs write has the type of the file it is written to.
LEMMA FileTypes ==
  /\ TornFile \in PolicyFile /\ TornFile \in StepFile
  /\ \A p \in Policies : p \in PolicyFile
  /\ \A s \in Steps : s \in StepFile /\ s \in Int /\ s >= 1 /\ s <= NSteps
  /\ \A f \in PolicyFile : Whole(f) => f \in Policies
  /\ \A f \in StepFile : f \in Steps \/ ~Whole(f)
  /\ 0 \in Policies /\ NSteps \in Steps
  /\ \A i \in Iters : i \in Int /\ i \in 1 .. NIter + 1 /\ i + 1 \in 1 .. NIter + 1
                      /\ i - 1 \in Policies
PROOF BY PipelineAssumption DEF PolicyFile, StepFile, Policies, Steps, Iters,
  TornFile, NoFile, Whole

LEMMA PutTyped ==
  ASSUME NEW I, NEW S, NEW T, NEW f \in [I -> [S -> T]], NEW i, NEW s, NEW v \in T
  PROVE  [f EXCEPT ![i][s] = v] \in [I -> [S -> T]]
OBVIOUS

LEMMA PutWorkerFile ==
  ASSUME NEW f \in [Iters -> [Shards -> PolicyFile]], NEW g, NEW v \in PolicyFile
  PROVE  Put(f, g, v) \in [Iters -> [Shards -> PolicyFile]]
PROOF BY PutTyped DEF Put

LEMMA ExitTypes ==
  ASSUME TypeOK, Exit, UNCHANGED <<eFiles, mFiles>>,
         kills' \in 0 .. MaxKills, fails' \in 0 .. MaxFails
  PROVE  TypeOK'
PROOF BY PipelineAssumption, FileTypes
  DEF TypeOK, Exit, eFiles, mFiles, JobStates, WorkerStates

\* The job may end, with the disk as it is, between any two steps.
LEMMA ExitKeepsInvariant ==
  ASSUME IInv, Exit, UNCHANGED <<eFiles, mFiles>>,
         kills' \in 0 .. MaxKills, fails' \in 0 .. MaxFails
  PROVE  IInv'
<1> USE PipelineAssumption DEF Exit, eFiles, mFiles
<1>1. TypeOK'
  BY ExitTypes DEF IInv
<1>2. JobInv' /\ WorkerInv' /\ BudgetInv' /\ TrainInv' /\ StepInv'
  BY DEF JobInv, Inside, WorkerInv, BudgetInv, TrainInv, StepInv
<1>3. DiskInv' /\ OnPolicy' /\ BudgetCoversAllShards' /\ TrackerNamesCompleteCheckpoint'
      /\ DoneNamesTheLastSave' /\ IterationsInOrder'
  BY PolicyFrame, CoversFrame, TrackerFrame, DoneFrame, OrderFrame, DiskFrame DEF IInv
<1>. QED BY <1>1, <1>2, <1>3 DEF IInv

\* Every step of every program keeps the types.
LEMMA TypeStep == IInv /\ [Next]_vars => TypeOK'
<1> SUFFICES ASSUME IInv, TypeOK, [Next]_vars PROVE TypeOK'
  BY DEF IInv
<1> USE FileTypes DEF TypeOK
<1>1. CASE \/ Submit \/ Finish \/ Stage1 \/ AwaitStage1 \/ Stage2 \/ AwaitStage2
           \/ TrainerReturns
  BY <1>1 DEF Submit, Finish, Stage1, AwaitStage1, Stage2, AwaitStage2, Await,
    TrainerReturns, Launch, Goto, Proceed, eFiles, mFiles, faults, JobStates,
    WorkerStates
<1>2. CASE SkipIteration
  BY <1>2 DEF SkipIteration, eFiles, mFiles, faults
<1>3. CASE EnterIteration
  <2>1. CASE PredecessorReady(iter)
    BY <1>3, <2>1 DEF EnterIteration, StartingPolicy, eFiles, mFiles, faults,
      JobStates
  <2>2. CASE ~PredecessorReady(iter)
    BY <1>3, <2>2, ExitTypes DEF EnterIteration, eFiles, mFiles, faults
  <2>. QED BY <2>1, <2>2
<1>4. CASE CountBudget
  <2>1. CASE CountPrompts
    BY <1>4, <2>1 DEF CountBudget, Proceed, eFiles, mFiles, faults, JobStates
  <2>2. CASE ~CountPrompts
    BY <1>4, <2>2, ExitTypes DEF CountBudget, eFiles, mFiles, faults
  <2>. QED BY <2>1, <2>2
<1>5. CASE OpenSizes
  <2>1. CASE InputsReadable
    BY <1>5, <2>1 DEF OpenSizes, Proceed, eFiles, mFiles, faults, JobStates
  <2>2. CASE ~InputsReadable
    BY <1>5, <2>2, ExitTypes DEF OpenSizes, eFiles, mFiles, faults
  <2>. QED BY <2>1, <2>2
<1>6. CASE CloseSizes
  <2>1. iter - 1 \in Policies
    BY <1>6 DEF CloseSizes, Goto, IInv, JobInv, Inside
  <2>2. empty' \in [Iters -> SUBSET Steps]
    BY <1>6, PipelineAssumption DEF CloseSizes, Steps
  <2>. QED
    BY <1>6, <2>1, <2>2, OldestInput DEF CloseSizes, Goto, Proceed, eFiles, mFiles,
      faults, JobStates
<1>7. CASE StartTrainer
  <2>1. CASE TrainerInputsReadable
    <3>1. iter \in Iters /\ Tracked \in StepFile
      BY <1>7 DEF StartTrainer, Tracked, IInv, JobInv, Inside
    <3>2. gstep' \in 0 .. NSteps + 1 /\ model' \in Policies /\ loader' \in 0 .. NSteps
      <4>1. CASE Scratch
        BY <1>7, <2>1, <4>1, PipelineAssumption DEF StartTrainer
      <4>2. CASE ~Scratch
        <5>1. Tracked \in Steps
          BY <3>1, <4>2 DEF Scratch
        <5>2. Whole(ckpt[iter][Tracked])
          BY <2>1, <4>2 DEF TrainerInputsReadable
        <5>3. ckpt[iter][Tracked] \in Policies
          BY <3>1, <5>1, <5>2
        <5>4. /\ gstep' = Tracked + 1 /\ model' = ckpt[iter][Tracked]
              /\ loader' = data[iter][Tracked]
          BY <1>7, <2>1, <4>2 DEF StartTrainer
        <5>. QED BY <3>1, <5>1, <5>3, <5>4, PipelineAssumption
      <4>. QED BY <4>1, <4>2
    <3>. QED
      BY <1>7, <2>1, <3>2 DEF StartTrainer, eFiles, mFiles, faults, JobStates
  <2>2. CASE ~TrainerInputsReadable
    BY <1>7, <2>2, ExitTypes DEF StartTrainer, eFiles, mFiles, faults
  <2>. QED BY <2>1, <2>2
<1>8. CASE TrainStep
  <2>1. gstep \in Steps /\ gstep + 1 \in 0 .. NSteps + 1 /\ loader' \in 0 .. NSteps
    <3>1. gstep \in Steps /\ loader + 1 \in 0 .. NSteps
      BY <1>8, NextStep DEF TrainStep
    <3>. QED BY <1>8, <3>1, PipelineAssumption DEF TrainStep
  <2>2. CASE SaveDue(gstep)
    <3>1. ckpt' \in [Iters -> [Steps -> PolicyFile]]
      <4>1. ckpt' = [ckpt EXCEPT ![iter][gstep] = TornFile]
        BY <1>8, <2>2 DEF TrainStep
      <4>2. ckpt \in [Iters -> [Steps -> PolicyFile]]
        OBVIOUS
      <4>. QED BY ONLY <4>1, <4>2, FileTypes, PutTyped
    <3>. QED BY <1>8, <2>1, <2>2, <3>1 DEF TrainStep, eFiles, faults, JobStates
  <2>3. CASE ~SaveDue(gstep)
    BY <1>8, <2>1, <2>3 DEF TrainStep, eFiles, faults
  <2>. QED BY <2>2, <2>3
<1>19. CASE SkipEmptyBatch
  <2>1. loader + 1 \in 0 .. NSteps
    BY <1>19, NextStep DEF SkipEmptyBatch
  <2>. QED BY <1>19, <2>1 DEF SkipEmptyBatch, eFiles, mFiles, faults
<1>9. CASE CloseCheckpoint
  <2>1. data' \in [Iters -> [Steps -> 0 .. NSteps]]
    <3>1. data' = [data EXCEPT ![iter][gstep] = loader]
      BY <1>9 DEF CloseCheckpoint
    <3>. QED BY <3>1, PutTyped
  <2>. QED BY <1>9, <2>1 DEF CloseCheckpoint, Goto, Proceed, eFiles, faults, JobStates
<1>10. CASE OpenTracker
  BY <1>10 DEF OpenTracker, Goto, Proceed, eFiles, faults, JobStates
<1>11. CASE CloseTracker
  <2>1. gstep \in Steps
    BY <1>11 DEF CloseTracker, IInv, TrainInv
  <2>2. gstep + 1 \in 0 .. NSteps + 1
    BY <2>1, PipelineAssumption
  <2>. QED BY <1>11, <2>1, <2>2 DEF CloseTracker, eFiles, faults, JobStates
<1>12. CASE OpenExport
  <2>1. CASE Mergeable
    <3>1. export' \in [Iters -> [Steps -> PolicyFile]]
      <4>1. export' = [export EXCEPT ![iter][LastStepDir] = TornFile]
        BY <1>12, <2>1 DEF OpenExport
      <4>2. export \in [Iters -> [Steps -> PolicyFile]]
        OBVIOUS
      <4>. QED BY ONLY <4>1, <4>2, FileTypes, PutTyped
    <3>. QED
      BY <1>12, <2>1, <3>1 DEF OpenExport, Proceed, eFiles, faults, JobStates
  <2>2. CASE ~Mergeable
    BY <1>12, <2>2, ExitTypes DEF OpenExport, eFiles, mFiles, faults
  <2>. QED BY <2>1, <2>2
<1>13. CASE CloseExport \/ CloseMarker
  <2>1. iter \in Iters /\ LastStepDir \in Steps
    BY <1>13, LastDirIsLastSave DEF CloseExport, CloseMarker, Goto, IInv, StepInv
  <2>2. CASE CloseExport
    BY <2>1, <2>2 DEF CloseExport, Goto, Proceed, eFiles, faults, JobStates
  <2>3. CASE CloseMarker
    BY <2>1, <2>3 DEF CloseMarker, eFiles, faults, JobStates
  <2>. QED BY <1>13, <2>2, <2>3
<1>14. CASE OpenMarker
  BY <1>14 DEF OpenMarker, Goto, Proceed, eFiles, faults, JobStates
<1>15. ASSUME NEW g \in Shards, WorkerStep(g) PROVE TypeOK'
  <2>1. worker' \in [Shards -> WorkerStates]
    BY <1>15 DEF WorkerStep, Move, OpenPilotsAll, ClosePilotsAll, OpenPilots,
      ClosePilots, LoadPilots, OpenRates, CloseRates, OpenGrads, CloseGrads,
      WorkerStates
  <2>2. /\ pilotsAll' \in [Iters -> [Shards -> PolicyFile]]
        /\ pilots' \in [Iters -> [Shards -> PolicyFile]]
        /\ rates' \in [Iters -> [Shards -> PolicyFile]]
        /\ grads' \in [Iters -> [Shards -> PolicyFile]]
    <3>1. TornFile \in PolicyFile /\ policy \in PolicyFile
      OBVIOUS
    <3>2. CASE OpenPilotsAll(g) \/ ClosePilotsAll(g)
      BY <3>1, <3>2, PutWorkerFile DEF OpenPilotsAll, ClosePilotsAll
    <3>3. CASE OpenPilots(g) \/ ClosePilots(g)
      BY <3>1, <3>3, PutWorkerFile DEF OpenPilots, ClosePilots
    <3>4. CASE OpenRates(g) \/ LoadPilots(g)
      BY <3>1, <3>4, PutWorkerFile DEF OpenRates, LoadPilots
    <3>6. CASE OpenGrads(g) \/ CloseGrads(g)
      BY <3>1, <3>6, PutWorkerFile DEF OpenGrads, CloseGrads
    <3>5. CASE CloseRates(g)
      <4>1. Move(g, "rates", "grad")
        BY <3>5 DEF CloseRates
      <4>2. iter \in Iters
        BY <4>1 DEF Move, IInv, WorkerInv, JobInv, Inside
      <4>3. pilots[iter][g] \in PolicyFile
        BY <4>2
      <4>. QED BY <3>5, <4>3, PutWorkerFile DEF CloseRates
    <3>. QED BY <1>15, <3>2, <3>3, <3>4, <3>5, <3>6 DEF WorkerStep
  <2>3. UNCHANGED <<sizes, empty, mFiles, pc, iter, policy, model, gstep, loader, faults>>
    BY <1>15 DEF WorkerStep, Move, OpenPilotsAll, ClosePilotsAll, OpenPilots,
      ClosePilots, LoadPilots, OpenRates, CloseRates, OpenGrads, CloseGrads
  <2>. QED BY <2>1, <2>2, <2>3 DEF mFiles, faults
<1>16. ASSUME NEW g \in Shards, WorkerDies(g) PROVE TypeOK'
  <2>1. fails' \in 0 .. MaxFails
    BY <1>16, PipelineAssumption DEF WorkerDies
  <2>. QED BY <1>16, <2>1 DEF WorkerDies, eFiles, mFiles, WorkerStates
<1>17. CASE Kill \/ ProgramDies
  <2>1. kills' \in 0 .. MaxKills /\ fails' \in 0 .. MaxFails
    BY <1>17, PipelineAssumption DEF Kill, ProgramDies
  <2>. QED BY <1>17, <2>1, ExitTypes DEF Kill, ProgramDies
<1>18. CASE UNCHANGED vars
  BY <1>18 DEF vars, eFiles, mFiles, job, faults
<1>. QED
  BY <1>1, <1>2, <1>3, <1>4, <1>5, <1>6, <1>7, <1>8, <1>9, <1>10, <1>11, <1>12,
    <1>13, <1>14, <1>15, <1>16, <1>17, <1>18, <1>19 DEF Next, JobStep, EStep, MStep

\* The trainer's files change only while it saves, and the budgets only before
\* there is any.
LEMMA DiskStep == IInv /\ [Next]_vars => DiskInv'
<1> SUFFICES ASSUME IInv, [Next]_vars PROVE DiskInv'
  OBVIOUS
<1> USE DEF Iters, Steps, NoFile, TornFile, Exists, Whole
<1>0. DiskInv /\ TypeOK /\ TrainInv /\ StepInv
  BY DEF IInv
<1>1. CASE OpenSizes \/ CloseSizes
  <2>1. /\ iter \in Iters /\ ~Whole(sizes[iter]) /\ UNCHANGED <<ckpt, data, tracker>>
        /\ TrackerNamesCompleteCheckpoint
    BY <1>1 DEF OpenSizes, CloseSizes, Goto, mFiles, IInv, JobInv, Inside, BudgetInv
  <2>2. /\ \A s \in Steps : ckpt[iter][s] = NoFile
        /\ ~Whole(tracker[iter])
    BY <1>0, <2>1 DEF DiskInv, TypeOK, TrackerNamesCompleteCheckpoint, StepFile
  <2>3. \A j \in Iters \ {iter} : sizes'[j] = sizes[j] /\ empty'[j] = empty[j]
    BY <1>0, <1>1 DEF OpenSizes, CloseSizes, TypeOK
  <2>4. ASSUME NEW j \in Iters \ {iter}
        PROVE  /\ SavedSteps(j)' = SavedSteps(j)
               /\ \A n : SavedUpTo(j, n)' <=> SavedUpTo(j, n)
               /\ \A q : Made(j, q)' = Made(j, q)
    BY <2>1, <2>3 DEF SavedSteps, TrainedSteps, SavedUpTo, Made
  <2>. QED BY <1>0, <2>1, <2>2, <2>3, <2>4 DEF DiskInv
<1>2. CASE TrainStep
  <2>1. /\ iter \in Iters /\ gstep \in Steps /\ gstep \in 1 .. TrainedSteps(iter)
        /\ UNCHANGED <<sizes, empty, data, tracker>> /\ Whole(sizes[iter])
        /\ Whole(tracker[iter]) => tracker[iter] < gstep
    BY <1>0, <1>2, NextStep DEF TrainStep, eFiles, TrainInv, StepInv
  <2>2. CASE SaveDue(gstep)
    <3>1. ckpt' = [ckpt EXCEPT ![iter] = [ckpt[iter] EXCEPT ![gstep] = TornFile]]
      BY <1>2, <2>2 DEF TrainStep
    <3>2. gstep \in SavedSteps(iter)
      BY <2>1, <2>2 DEF SavedSteps
    <3>3. /\ \A j \in Iters : \A s \in Steps : (j # iter \/ s # gstep) => ckpt'[j][s] = ckpt[j][s]
          /\ ckpt'[iter][gstep] = TornFile
      BY <1>0, <2>1, <3>1 DEF TypeOK
    <3>4. \A j \in Iters : /\ SavedSteps(j)' = SavedSteps(j)
                           /\ \A q : Made(j, q)' = Made(j, q)
      BY <2>1 DEF SavedSteps, TrainedSteps, Made
    <3>5. ASSUME NEW j \in Iters, Whole(tracker[j])
          PROVE  SavedUpTo(j, tracker[j])'
      <4>1. SavedUpTo(j, tracker[j])
        BY <1>0, <3>5 DEF DiskInv
      <4>2. ASSUME NEW s \in SavedSteps(j), s <= tracker[j]
            PROVE  Whole(ckpt'[j][s])
        <5>1. s \in Steps
          BY <1>0, MadeBounds, PipelineAssumption DEF SavedSteps
        <5>2. tracker[j] \in Int
          BY <1>0 DEF TypeOK, StepFile
        <5>3. j # iter \/ s # gstep
          BY <2>1, <3>5, <4>2, <5>1, <5>2
        <5>. QED BY <3>3, <4>1, <4>2, <5>1, <5>3 DEF SavedUpTo
      <4>. QED BY <2>1, <3>4, <4>2 DEF SavedUpTo
    <3>. QED BY <1>0, <2>1, <3>2, <3>3, <3>4, <3>5 DEF DiskInv
  <2>3. CASE ~SaveDue(gstep)
    BY <1>0, <1>2, <2>1, <2>3, DiskFrame DEF TrainStep
  <2>. QED BY <2>2, <2>3
<1>3. CASE CloseCheckpoint
  <2>1. /\ iter \in Iters /\ gstep \in Steps /\ Whole(model) /\ Whole(sizes[iter])
        /\ Made(iter, loader) = gstep /\ SaveDue(gstep)
        /\ UNCHANGED <<sizes, empty, tracker>>
        /\ ckpt' = [ckpt EXCEPT ![iter] = [ckpt[iter] EXCEPT ![gstep] = model]]
        /\ data' = [data EXCEPT ![iter] = [data[iter] EXCEPT ![gstep] = loader]]
    BY <1>0, <1>3 DEF CloseCheckpoint, Goto, eFiles, IInv, JobInv, Inside, TrainInv,
      StepInv, TypeOK, Policies
  <2>2. gstep \in SavedSteps(iter)
    <3>1. loader \in 0 .. NSteps
      BY <1>0 DEF TypeOK
    <3>. QED BY <1>0, <2>1, <3>1, MadeBounds DEF SavedSteps
  <2>3. /\ \A j \in Iters : \A s \in Steps :
             (j # iter \/ s # gstep) => ckpt'[j][s] = ckpt[j][s] /\ data'[j][s] = data[j][s]
        /\ ckpt'[iter][gstep] = model /\ data'[iter][gstep] = loader
    BY <1>0, <2>1 DEF TypeOK
  <2>4. \A j \in Iters : /\ SavedSteps(j)' = SavedSteps(j) /\ SavedSteps(j) \subseteq Steps
                         /\ \A q : Made(j, q)' = Made(j, q)
    <3>1. \A j \in Iters : SavedSteps(j) \subseteq Steps
      BY <1>0, MadeBounds, PipelineAssumption DEF SavedSteps
    <3>. QED BY <2>1, <3>1 DEF SavedSteps, TrainedSteps, Made
  <2>5. ASSUME NEW j \in Iters, Whole(tracker[j])
        PROVE  SavedUpTo(j, tracker[j])'
    BY <1>0, <2>1, <2>3, <2>4, <2>5 DEF DiskInv, SavedUpTo
  <2>. QED BY <1>0, <2>1, <2>2, <2>3, <2>4, <2>5 DEF DiskInv
<1>4. CASE OpenTracker \/ CloseTracker
  <2>1. /\ iter \in Iters /\ UNCHANGED <<sizes, empty, ckpt, data>>
        /\ tracker' = [tracker EXCEPT ![iter] = TornFile]
           \/ /\ tracker' = [tracker EXCEPT ![iter] = gstep]
              /\ SavedUpTo(iter, gstep)
    BY <1>0, <1>4 DEF OpenTracker, CloseTracker, Goto, eFiles, IInv, JobInv, Inside, StepInv
  <2>2. /\ \A j \in Iters \ {iter} : tracker'[j] = tracker[j]
        /\ Whole(tracker'[iter]) => tracker'[iter] = gstep /\ SavedUpTo(iter, gstep)
    <3>1. tracker \in [Iters -> StepFile]
      BY <1>0 DEF TypeOK
    <3>2. CASE tracker' = [tracker EXCEPT ![iter] = TornFile]
      <4>1. iter \in Iters
        BY <2>1
      <4>2. tracker'[iter] = TornFile /\ \A j \in Iters \ {iter} : tracker'[j] = tracker[j]
        BY ONLY <3>1, <3>2, <4>1
      <4>3. ~Whole(tracker'[iter])
        BY <4>2
      <4>. QED BY <4>2, <4>3
    <3>3. CASE tracker' = [tracker EXCEPT ![iter] = gstep] /\ SavedUpTo(iter, gstep)
      BY <2>1, <3>1, <3>3
    <3>. QED BY <2>1, <3>2, <3>3
  <2>3. \A j \in Iters : /\ SavedSteps(j)' = SavedSteps(j)
                         /\ \A n : SavedUpTo(j, n)' <=> SavedUpTo(j, n)
                         /\ \A q : Made(j, q)' = Made(j, q)
    BY <2>1 DEF SavedSteps, TrainedSteps, SavedUpTo, Made
  <2>4. ASSUME NEW j \in Iters, Whole(tracker'[j])
        PROVE  SavedUpTo(j, tracker'[j])
    BY <1>0, <2>2, <2>4 DEF DiskInv
  <2>5. \A j \in Iters : Whole(tracker'[j]) => SavedUpTo(j, tracker[j])'
    BY <2>1, <2>4 DEF SavedUpTo, SavedSteps, TrainedSteps
  <2>. QED BY <1>0, <2>1, <2>3, <2>5 DEF DiskInv
<1>5. CASE UNCHANGED <<sizes, empty, ckpt, data, tracker>>
  BY <1>0, <1>5, DiskFrame
<1>6. CASE \/ Submit \/ SkipIteration \/ EnterIteration \/ Finish \/ Stage1 \/ Stage2
           \/ AwaitStage1 \/ AwaitStage2 \/ CountBudget \/ StartTrainer \/ SkipEmptyBatch
           \/ TrainerReturns \/ OpenExport \/ CloseExport \/ OpenMarker \/ CloseMarker
           \/ Kill \/ ProgramDies
  BY <1>5, <1>6 DEF Submit, SkipIteration, EnterIteration, Finish, Stage1, Stage2,
    AwaitStage1, AwaitStage2, Await, CountBudget, StartTrainer, SkipEmptyBatch,
    TrainerReturns, OpenExport, CloseExport, OpenMarker, CloseMarker, Kill, ProgramDies,
    eFiles, mFiles
<1>7. ASSUME NEW g \in Shards, WorkerStep(g) \/ WorkerDies(g) PROVE DiskInv'
  BY <1>5, <1>7 DEF WorkerStep, WorkerDies, Move, OpenPilotsAll, ClosePilotsAll,
    OpenPilots, ClosePilots, LoadPilots, OpenRates, CloseRates, OpenGrads, CloseGrads,
    eFiles, mFiles
<1>8. CASE UNCHANGED vars
  BY <1>5, <1>8 DEF vars, eFiles, mFiles
<1>. QED
  BY <1>1, <1>2, <1>3, <1>4, <1>6, <1>7, <1>8 DEF Next, JobStep, EStep, MStep

\* The trainer counts the batches that make a step, saves the due ones, and
\* returns with all of them saved.
LEMMA StepStep == IInv /\ [Next]_vars => StepInv'
<1> SUFFICES ASSUME IInv, [Next]_vars PROVE StepInv'
  OBVIOUS
<1> USE DEF Iters, Steps, NoFile, TornFile, Exists, Whole
<1>0. DiskInv /\ TypeOK /\ TrainInv /\ StepInv
  BY DEF IInv
<1>1. CASE StartTrainer
  <2>1. CASE TrainerInputsReadable
    <3>1. /\ iter \in Iters /\ pc' = "train" /\ Whole(sizes[iter])
          /\ UNCHANGED <<iter, sizes, empty, ckpt>>
          /\ gstep' = IF Scratch THEN 1 ELSE Tracked + 1
          /\ loader' = IF Scratch THEN 0 ELSE data[iter][Tracked]
      BY <1>1, <2>1 DEF StartTrainer, TrainerInputsReadable, eFiles, mFiles, IInv,
        JobInv, Inside
    <3>2. Made(iter, loader') = gstep' - 1 /\ SavedUpTo(iter, gstep' - 1)
      <4>1. CASE Scratch
        <5>1. SavedUpTo(iter, 0)
          BY <1>0, <3>1, MadeBounds DEF SavedUpTo, SavedSteps
        <5>. QED BY <3>1, <4>1, <5>1, MadeNone
      <4>2. CASE ~Scratch
        <5>1. Tracked \in Steps /\ Whole(ckpt[iter][Tracked]) /\ Whole(tracker[iter])
              /\ Tracked = tracker[iter]
          BY <1>0, <2>1, <3>1, <4>2 DEF Scratch, Tracked, TrainerInputsReadable, TypeOK, StepFile
        <5>2. Made(iter, data[iter][Tracked]) = Tracked /\ SavedUpTo(iter, Tracked)
          BY <1>0, <3>1, <5>1 DEF DiskInv
        <5>3. (Tracked + 1) - 1 = Tracked
          BY <5>1, PipelineAssumption
        <5>. QED BY <3>1, <4>2, <5>2, <5>3
      <4>. QED BY <4>1, <4>2
    <3>3. Made(iter, loader)' = Made(iter, loader') /\ (SavedUpTo(iter, gstep - 1)' <=> SavedUpTo(iter, gstep' - 1))
      BY <3>1 DEF Made, SavedUpTo, SavedSteps, TrainedSteps
    <3>. QED BY <3>1, <3>2, <3>3 DEF StepInv
  <2>2. CASE ~TrainerInputsReadable
    BY <1>1, <2>2 DEF StartTrainer, Exit, StepInv
  <2>. QED BY <2>1, <2>2
<1>2. CASE SkipEmptyBatch
  <2>1. /\ pc = "train" /\ UNCHANGED <<pc, iter, gstep, sizes, empty, ckpt>> /\ loader' = loader + 1
        /\ Made(iter, loader + 1) = gstep - 1
        /\ SavedUpTo(iter, gstep - 1) /\ Whole(sizes[iter])
    BY <1>0, <1>2, NextStep DEF SkipEmptyBatch, StepInv, eFiles, mFiles
  <2>2. Made(iter, loader)' = Made(iter, loader + 1) /\ (SavedUpTo(iter, gstep - 1)' <=> SavedUpTo(iter, gstep - 1))
    BY <2>1 DEF Made, SavedUpTo, SavedSteps, TrainedSteps
  <2>. QED BY <2>1, <2>2 DEF StepInv
<1>3. CASE TrainStep
  <2>1. /\ pc = "train" /\ UNCHANGED <<iter, sizes, empty>> /\ loader' = loader + 1
        /\ iter \in Iters /\ Made(iter, loader + 1) = gstep /\ gstep \in Steps
        /\ SavedUpTo(iter, gstep - 1) /\ Whole(sizes[iter])
    BY <1>0, <1>3, NextStep DEF TrainStep, StepInv, eFiles
  <2>2. Made(iter, loader)' = gstep /\ SavedSteps(iter)' = SavedSteps(iter)
    BY <2>1 DEF Made, SavedSteps, TrainedSteps
  <2>3. SavedSteps(iter) \subseteq Steps
    BY <1>0, <2>1, MadeBounds, PipelineAssumption DEF SavedSteps
  <2>4. CASE SaveDue(gstep)
    <3>1. /\ pc' = "ckpt" /\ gstep' = gstep
          /\ ckpt' = [ckpt EXCEPT ![iter] = [ckpt[iter] EXCEPT ![gstep] = TornFile]]
      BY <1>3, <2>4 DEF TrainStep
    <3>2. \A s \in Steps \ {gstep} : ckpt'[iter][s] = ckpt[iter][s]
      BY <1>0, <2>1, <3>1 DEF TypeOK
    <3>3. \A s \in SavedSteps(iter) : s <= gstep - 1 => Whole(ckpt'[iter][s])
      BY <2>1, <2>3, <3>2, PipelineAssumption DEF SavedUpTo
    <3>4. SavedUpTo(iter, gstep - 1)'
      BY <2>1, <2>2, <3>1, <3>3 DEF SavedUpTo
    <3>. QED BY <2>1, <2>2, <2>4, <3>1, <3>4 DEF StepInv, SaveDue
  <2>5. CASE ~SaveDue(gstep)
    <3>1. pc' = "train" /\ gstep' = gstep + 1 /\ ckpt' = ckpt
      BY <1>3, <2>1, <2>5 DEF TrainStep
    <3>2. \A s \in SavedSteps(iter) : s <= gstep => s <= gstep - 1
      <4>1. gstep \notin SavedSteps(iter)
        BY <2>5 DEF SavedSteps
      <4>. QED BY <2>1, <2>3, <4>1, PipelineAssumption
    <3>3. gstep' - 1 = gstep
      BY <2>1, <3>1, PipelineAssumption
    <3>4. SavedUpTo(iter, gstep - 1)'
      BY <2>1, <2>2, <3>1, <3>2, <3>3 DEF SavedUpTo
    <3>. QED BY <2>1, <2>2, <3>1, <3>3, <3>4 DEF StepInv
  <2>. QED BY <2>4, <2>5
<1>4. CASE CloseCheckpoint
  <2>1. /\ pc = "ckpt" /\ pc' = "track" /\ UNCHANGED <<iter, gstep, loader, sizes, empty>>
        /\ iter \in Iters /\ gstep \in Steps /\ Whole(model) /\ Whole(sizes[iter])
        /\ Made(iter, loader) = gstep /\ SaveDue(gstep) /\ SavedUpTo(iter, gstep - 1)
        /\ ckpt' = [ckpt EXCEPT ![iter] = [ckpt[iter] EXCEPT ![gstep] = model]]
    BY <1>0, <1>4 DEF CloseCheckpoint, Goto, Proceed, eFiles, IInv, JobInv, Inside, TrainInv,
      StepInv, TypeOK, Policies
  <2>2. Made(iter, loader)' = gstep /\ SavedSteps(iter)' = SavedSteps(iter)
    BY <2>1 DEF Made, SavedSteps, TrainedSteps
  <2>3. SavedSteps(iter) \subseteq Steps
    BY <1>0, <2>1, MadeBounds, PipelineAssumption DEF SavedSteps
  <2>4. /\ \A s \in Steps \ {gstep} : ckpt'[iter][s] = ckpt[iter][s]
        /\ Whole(ckpt'[iter][gstep])
    BY <1>0, <2>1 DEF TypeOK
  <2>5. \A s \in SavedSteps(iter) : s <= gstep => Whole(ckpt'[iter][s])
    BY <2>1, <2>3, <2>4, PipelineAssumption DEF SavedUpTo
  <2>6. SavedUpTo(iter, gstep)'
    BY <2>1, <2>2, <2>5 DEF SavedUpTo
  <2>. QED BY <2>1, <2>2, <2>6 DEF StepInv, SaveDue
<1>5. CASE OpenTracker \/ CloseTracker
  <2>1. /\ UNCHANGED <<iter, loader, sizes, empty, ckpt>>
        /\ Whole(sizes[iter]) /\ gstep \in Nat
        /\ Made(iter, loader) = gstep /\ SaveDue(gstep) /\ SavedUpTo(iter, gstep)
        /\ \/ pc' = "tracking" /\ gstep' = gstep
           \/ pc' = "train" /\ gstep' = gstep + 1
    BY <1>0, <1>5 DEF OpenTracker, CloseTracker, Goto, Proceed, eFiles, StepInv, TypeOK
  <2>2. /\ Made(iter, loader)' = gstep
        /\ SavedSteps(iter)' = SavedSteps(iter)
    BY <2>1 DEF Made, SavedSteps, TrainedSteps
  <2>3. CASE pc' = "tracking" /\ gstep' = gstep
    <3>1. SavedUpTo(iter, gstep)'
      BY <2>1, <2>2, <2>3 DEF SavedUpTo
    <3>. QED BY <2>1, <2>2, <2>3, <3>1 DEF StepInv, SaveDue
  <2>4. CASE pc' = "train" /\ gstep' = gstep + 1
    <3>1. gstep' - 1 = gstep
      BY <2>1, <2>4
    <3>2. SavedUpTo(iter, gstep - 1)'
      BY <2>1, <2>2, <3>1 DEF SavedUpTo
    <3>. QED BY <2>1, <2>2, <2>4, <3>1, <3>2 DEF StepInv
  <2>. QED BY <2>1, <2>3, <2>4
<1>6. CASE TrainerReturns
  <2>1. /\ pc = "train" /\ pc' = "merge" /\ UNCHANGED <<iter, sizes, empty, ckpt>>
        /\ iter \in Iters /\ loader = NSteps /\ Whole(sizes[iter])
        /\ Made(iter, loader) = gstep - 1 /\ SavedUpTo(iter, gstep - 1)
    BY <1>0, <1>6, PipelineAssumption DEF TrainerReturns, MoreBatches, Proceed, eFiles, mFiles,
      IInv, JobInv, Inside, StepInv, TypeOK
  <2>2. gstep - 1 = TrainedSteps(iter) /\ TrainedSteps(iter) \in 0 .. NSteps
    BY <1>0, <2>1, MadeBounds, PipelineAssumption
  <2>3. \A s \in SavedSteps(iter) : Whole(ckpt[iter][s])
    <3>1. \A s \in SavedSteps(iter) : s <= gstep - 1
      BY <2>2 DEF SavedSteps
    <3>. QED BY <2>1, <3>1 DEF SavedUpTo
  <2>4. SavedUpTo(iter, NSteps)'
    BY <2>1, <2>3 DEF SavedUpTo, SavedSteps, TrainedSteps
  <2>. QED BY <2>1, <2>4 DEF StepInv
<1>7. CASE OpenExport \/ CloseExport \/ OpenMarker
  <2>1. /\ pc \in {"merge", "merging", "mark"} /\ SavedUpTo(iter, NSteps) /\ Whole(sizes[iter])
        /\ UNCHANGED <<sizes, empty, ckpt>> /\ iter \in Iters
    BY <1>0, <1>7 DEF OpenExport, CloseExport, OpenMarker, Goto, StepInv, eFiles, IInv, JobInv,
      Inside
  <2>2. CASE OpenExport
    <3>1. CASE Mergeable
      <4>1. pc' = "merging" /\ iter' = iter /\ Saved # {}
        BY <2>2, <3>1 DEF OpenExport, Proceed, Mergeable
      <4>2. (SavedUpTo(iter, NSteps)' <=> SavedUpTo(iter, NSteps)) /\ Saved' = Saved
        BY <2>1, <4>1 DEF SavedUpTo, SavedSteps, TrainedSteps, Saved
      <4>. QED BY <2>1, <4>1, <4>2 DEF StepInv
    <3>2. CASE ~Mergeable
      BY <2>2, <3>2 DEF OpenExport, Exit, StepInv
    <3>. QED BY <3>1, <3>2
  <2>3. CASE CloseExport \/ OpenMarker
    <3>1. pc' \in {"mark", "marking"} /\ iter' = iter /\ pc \in {"merging", "mark"} /\ Saved # {}
      BY <1>0, <2>3 DEF CloseExport, OpenMarker, Goto, Proceed, StepInv
    <3>2. /\ SavedUpTo(iter, NSteps)' <=> SavedUpTo(iter, NSteps)
          /\ Saved' = Saved /\ LastStepDir' = LastStepDir
      BY <2>1, <3>1 DEF SavedUpTo, SavedSteps, TrainedSteps, Saved, LastStepDir
    <3>3. LastStepDir \in Steps /\ Whole(ckpt[iter][LastStepDir])
      BY <2>1, <3>1, LastDirIsLastSave
    <3>4. Whole(export'[iter][LastStepDir])
      <4>1. CASE CloseExport
        <5>1. export \in [Iters -> [Steps -> PolicyFile]]
          BY <1>0 DEF TypeOK
        <5>2. export' = [export EXCEPT ![iter][LastStepDir] = ckpt[iter][LastStepDir]]
          BY <4>1 DEF CloseExport
        <5>. QED BY <2>1, <3>3, <5>1, <5>2
      <4>2. CASE OpenMarker
        BY <1>0, <4>2 DEF OpenMarker, Goto, StepInv
      <4>. QED BY <2>3, <4>1, <4>2
    <3>. QED BY <2>1, <3>1, <3>2, <3>4 DEF StepInv
  <2>. QED BY <1>7, <2>2, <2>3
<1>8. CASE pc' \notin {"train", "ckpt", "track", "tracking", "merge", "merging", "mark", "marking"}
  BY <1>8 DEF StepInv
<1>9. CASE UNCHANGED <<pc, iter, gstep, loader, sizes, empty, ckpt, export>>
  BY <1>0, <1>9, StepFrame
<1>10. CASE \/ Submit \/ SkipIteration \/ EnterIteration \/ Finish \/ Stage1 \/ Stage2
            \/ AwaitStage1 \/ AwaitStage2 \/ CountBudget \/ OpenSizes \/ CloseSizes
            \/ CloseMarker \/ Kill \/ ProgramDies
  BY <1>8, <1>10 DEF Submit, SkipIteration, EnterIteration, Finish, Stage1, Stage2,
    AwaitStage1, AwaitStage2, Await, CountBudget, OpenSizes, CloseSizes, CloseMarker,
    Kill, ProgramDies, Goto, Proceed, Launch, Exit
<1>11. ASSUME NEW g \in Shards, WorkerStep(g) \/ WorkerDies(g) PROVE StepInv'
  BY <1>9, <1>11 DEF WorkerStep, WorkerDies, Move, OpenPilotsAll, ClosePilotsAll,
    OpenPilots, ClosePilots, LoadPilots, OpenRates, CloseRates, OpenGrads, CloseGrads,
    eFiles, mFiles
<1>12. CASE UNCHANGED vars
  BY <1>9, <1>12 DEF vars, eFiles, mFiles, job
<1>. QED
  BY <1>1, <1>2, <1>3, <1>4, <1>5, <1>6, <1>7, <1>10, <1>11, <1>12
    DEF Next, JobStep, EStep, MStep

\* Every step of every program keeps the invariant.
LEMMA InvariantStep == IInv /\ [Next]_vars => IInv'
<1> SUFFICES ASSUME IInv, [Next]_vars PROVE IInv'
  OBVIOUS
<1> USE PipelineAssumption DEF Iters, Shards, Steps, NoFile, TornFile, Exists, Whole
<1>00. /\ pilotsAll \in [Iters -> [Shards -> PolicyFile]]
       /\ pilots \in [Iters -> [Shards -> PolicyFile]]
       /\ rates \in [Iters -> [Shards -> PolicyFile]]
       /\ grads \in [Iters -> [Shards -> PolicyFile]]
       /\ sizes \in [Iters -> PolicyFile] /\ tracker \in [Iters -> StepFile]
       /\ ckpt \in [Iters -> [Steps -> PolicyFile]]
       /\ export \in [Iters -> [Steps -> PolicyFile]] /\ marker \in [Iters -> StepFile]
       /\ iter \in 1 .. NIter + 1
  BY DEF IInv, TypeOK
<1>0. TypeOK' /\ DiskInv' /\ StepInv'
  BY TypeStep, DiskStep, StepStep
<1>1. CASE Submit
  <2>1. JobInv'
    BY <1>1 DEF Submit, Goto, Proceed, eFiles, mFiles, faults, IInv, TypeOK,
      JobInv, Inside, DoneNamesTheLastSave
  <2>2. WorkerInv'
    BY <1>1 DEF Submit, Goto, Proceed, eFiles, mFiles, faults, IInv, TypeOK,
      WorkerInv
  <2>3. BudgetInv'
    BY <1>1 DEF Submit, Goto, Proceed, eFiles, mFiles, faults, IInv, TypeOK,
      JobInv, Inside, WorkerInv, BudgetInv, Readable
  <2>4. TrainInv'
    BY <1>1 DEF Submit, Goto, Proceed, eFiles, mFiles, faults, IInv, TypeOK,
      JobInv, Inside, TrainInv, TrackerNamesCompleteCheckpoint, OnPolicy
  <2>5. OnPolicy' /\ BudgetCoversAllShards' /\ TrackerNamesCompleteCheckpoint'
    /\ DoneNamesTheLastSave' /\ IterationsInOrder'
    BY <1>1, PolicyFrame, CoversFrame, TrackerFrame, DoneFrame, OrderFrame DEF
      IInv, Submit, Goto, Proceed, eFiles, mFiles, faults
  <2>. QED BY <1>0, <2>1, <2>2, <2>3, <2>4, <2>5 DEF IInv
<1>2. CASE SkipIteration
  <2>1. iter \in Iters /\ Whole(marker[iter])
    BY <1>2 DEF SkipIteration, Complete, HasWeights
  <2>2. JobInv'
    <3>1. pc = "loop" /\ UNCHANGED <<pc, marker>> /\ iter' = iter + 1
      BY <1>2 DEF SkipIteration, mFiles
    <3>2. ASSUME NEW k \in 1 .. iter' - 1 PROVE Whole(marker[k])
      <4>1. k \in 1 .. iter - 1 \/ k = iter
        BY <2>1, <3>1
      <4>. QED BY <2>1, <4>1 DEF IInv, JobInv
    <3>. QED BY <3>1, <3>2 DEF JobInv, Inside
  <2>3. WorkerInv'
    BY <1>2, <2>1 DEF SkipIteration, Complete, HasWeights, eFiles, mFiles,
      faults, IInv, TypeOK, WorkerInv
  <2>4. BudgetInv'
    BY <1>2, <2>1 DEF SkipIteration, Complete, HasWeights, eFiles, mFiles,
      faults, IInv, TypeOK, JobInv, Inside, WorkerInv, BudgetInv, Readable
  <2>5. TrainInv'
    BY <1>2, <2>1 DEF SkipIteration, Complete, HasWeights, eFiles, mFiles,
      faults, IInv, TypeOK, JobInv, Inside, TrainInv,
      TrackerNamesCompleteCheckpoint, OnPolicy
  <2>6. OnPolicy' /\ BudgetCoversAllShards' /\ TrackerNamesCompleteCheckpoint'
    /\ DoneNamesTheLastSave' /\ IterationsInOrder'
    BY <1>2, <2>1, PolicyFrame, CoversFrame, TrackerFrame, DoneFrame,
      OrderFrame DEF IInv, SkipIteration, Complete, HasWeights, eFiles,
      mFiles, faults
  <2>. QED BY <1>0, <2>2, <2>3, <2>4, <2>5, <2>6 DEF IInv
<1>3. CASE EnterIteration
  <2>1. CASE PredecessorReady(iter)
    <3>1. JobInv'
      <4>1. iter \in Iters /\ ~Whole(marker[iter])
        BY <1>3 DEF EnterIteration, Complete, HasWeights, IInv, DoneNamesTheLastSave
      <4>2. policy' = iter - 1 /\ UNCHANGED <<iter, marker>>
        BY <1>3, <2>1 DEF EnterIteration, StartingPolicy, mFiles
      <4>. QED BY <4>1, <4>2 DEF IInv, JobInv
    <3>2. WorkerInv'
      BY <1>3, <2>1 DEF EnterIteration, PredecessorReady, StartingPolicy,
        Complete, HasWeights, eFiles, mFiles, faults, IInv, TypeOK, WorkerInv
    <3>3. BudgetInv'
      BY <1>3, <2>1 DEF EnterIteration, PredecessorReady, StartingPolicy,
        Complete, HasWeights, eFiles, mFiles, faults, IInv, TypeOK, JobInv,
        Inside, WorkerInv, BudgetInv, Readable
    <3>4. TrainInv'
      BY <1>3, <2>1 DEF EnterIteration, PredecessorReady, StartingPolicy,
        Complete, HasWeights, eFiles, mFiles, faults, IInv, TypeOK, JobInv,
        Inside, TrainInv, TrackerNamesCompleteCheckpoint, OnPolicy
    <3>5. OnPolicy' /\ BudgetCoversAllShards' /\
      TrackerNamesCompleteCheckpoint' /\ DoneNamesTheLastSave' /\
      IterationsInOrder'
      BY <1>3, <2>1, PolicyFrame, CoversFrame, TrackerFrame, DoneFrame,
        OrderFrame DEF IInv, EnterIteration, PredecessorReady, StartingPolicy,
        Complete, HasWeights, eFiles, mFiles, faults
    <3>. QED BY <1>0, <3>1, <3>2, <3>3, <3>4, <3>5 DEF IInv
  <2>2. CASE ~PredecessorReady(iter)
    BY <1>3, <2>2, ExitKeepsInvariant DEF EnterIteration, IInv, TypeOK,
      eFiles, mFiles, faults
  <2>. QED BY <2>1, <2>2
<1>4. CASE Finish
  <2>1. JobInv'
    BY <1>4 DEF Finish, Proceed, eFiles, mFiles, faults, IInv, TypeOK, JobInv,
      Inside, DoneNamesTheLastSave
  <2>2. WorkerInv'
    BY <1>4 DEF Finish, Proceed, eFiles, mFiles, faults, IInv, TypeOK,
      WorkerInv
  <2>3. BudgetInv'
    BY <1>4 DEF Finish, Proceed, eFiles, mFiles, faults, IInv, TypeOK, JobInv,
      Inside, WorkerInv, BudgetInv, Readable
  <2>4. TrainInv'
    BY <1>4 DEF Finish, Proceed, eFiles, mFiles, faults, IInv, TypeOK, JobInv,
      Inside, TrainInv, TrackerNamesCompleteCheckpoint, OnPolicy
  <2>5. OnPolicy' /\ BudgetCoversAllShards' /\ TrackerNamesCompleteCheckpoint'
    /\ DoneNamesTheLastSave' /\ IterationsInOrder'
    BY <1>4, PolicyFrame, CoversFrame, TrackerFrame, DoneFrame, OrderFrame DEF
      IInv, Finish, Proceed, eFiles, mFiles, faults
  <2>. QED BY <1>0, <2>1, <2>2, <2>3, <2>4, <2>5 DEF IInv
<1>5. CASE Stage1
  <2>1. CASE StageDone(pilots)
    <3>1. JobInv'
      BY <1>5, <2>1 DEF Stage1, Proceed, eFiles, mFiles, faults, IInv, TypeOK,
        JobInv, Inside, DoneNamesTheLastSave
    <3>2. WorkerInv'
      BY <1>5, <2>1 DEF Stage1, Proceed, eFiles, mFiles, faults, IInv, TypeOK,
        WorkerInv
    <3>3. BudgetInv'
      BY <1>5, <2>1 DEF Stage1, Proceed, eFiles, mFiles, faults, IInv, TypeOK,
        JobInv, Inside, WorkerInv, BudgetInv, Readable
    <3>4. TrainInv'
      BY <1>5, <2>1 DEF Stage1, Proceed, eFiles, mFiles, faults, IInv, TypeOK,
        JobInv, Inside, TrainInv, TrackerNamesCompleteCheckpoint, OnPolicy
    <3>5. OnPolicy' /\ BudgetCoversAllShards' /\
      TrackerNamesCompleteCheckpoint' /\ DoneNamesTheLastSave' /\
      IterationsInOrder'
      BY <1>5, <2>1, PolicyFrame, CoversFrame, TrackerFrame, DoneFrame,
        OrderFrame DEF IInv, Stage1, Proceed, eFiles, mFiles, faults
    <3>. QED BY <1>0, <3>1, <3>2, <3>3, <3>4, <3>5 DEF IInv
  <2>2. CASE ~StageDone(pilots)
    <3>1. JobInv'
      BY <1>5, <2>2 DEF Stage1, Launch, eFiles, mFiles, faults, IInv, TypeOK,
        JobInv, Inside, DoneNamesTheLastSave
    <3>2. WorkerInv'
      BY <1>5, <2>2 DEF Stage1, Launch, eFiles, mFiles, faults, IInv, TypeOK,
        WorkerInv
    <3>3. BudgetInv'
      BY <1>5, <2>2 DEF Stage1, Launch, eFiles, mFiles, faults, IInv, TypeOK,
        JobInv, Inside, WorkerInv, BudgetInv, Readable
    <3>4. TrainInv'
      BY <1>5, <2>2 DEF Stage1, Launch, eFiles, mFiles, faults, IInv, TypeOK,
        JobInv, Inside, TrainInv, TrackerNamesCompleteCheckpoint, OnPolicy
    <3>5. OnPolicy' /\ BudgetCoversAllShards' /\
      TrackerNamesCompleteCheckpoint' /\ DoneNamesTheLastSave' /\
      IterationsInOrder'
      BY <1>5, <2>2, PolicyFrame, CoversFrame, TrackerFrame, DoneFrame,
        OrderFrame DEF IInv, Stage1, Launch, eFiles, mFiles, faults
    <3>. QED BY <1>0, <3>1, <3>2, <3>3, <3>4, <3>5 DEF IInv
  <2>. QED BY <2>1, <2>2
<1>6. CASE AwaitStage1
  <2>1. JobInv'
    BY <1>6 DEF AwaitStage1, Await, Running, Goto, Proceed, eFiles, mFiles,
      faults, IInv, TypeOK, JobInv, Inside, DoneNamesTheLastSave
  <2>2. WorkerInv'
    BY <1>6 DEF AwaitStage1, Await, Running, Goto, Proceed, eFiles, mFiles,
      faults, IInv, TypeOK, WorkerInv
  <2>3. BudgetInv'
    BY <1>6 DEF AwaitStage1, Await, Running, Goto, Proceed, eFiles, mFiles,
      faults, IInv, TypeOK, JobInv, Inside, WorkerInv, BudgetInv, Readable
  <2>4. TrainInv'
    BY <1>6 DEF AwaitStage1, Await, Running, Goto, Proceed, eFiles, mFiles,
      faults, IInv, TypeOK, JobInv, Inside, TrainInv,
      TrackerNamesCompleteCheckpoint, OnPolicy
  <2>5. OnPolicy' /\ BudgetCoversAllShards' /\ TrackerNamesCompleteCheckpoint'
    /\ DoneNamesTheLastSave' /\ IterationsInOrder'
    BY <1>6, PolicyFrame, CoversFrame, TrackerFrame, DoneFrame, OrderFrame DEF
      IInv, AwaitStage1, Await, Running, Goto, Proceed, eFiles, mFiles, faults
  <2>. QED BY <1>0, <2>1, <2>2, <2>3, <2>4, <2>5 DEF IInv
<1>7. CASE Stage2
  <2>1. CASE StageDone(grads)
    <3>1. JobInv'
      BY <1>7, <2>1 DEF Stage2, Proceed, eFiles, mFiles, faults, IInv, TypeOK,
        JobInv, Inside, DoneNamesTheLastSave
    <3>2. WorkerInv'
      BY <1>7, <2>1 DEF Stage2, Proceed, eFiles, mFiles, faults, IInv, TypeOK,
        WorkerInv
    <3>3. BudgetInv'
      BY <1>7, <2>1 DEF Stage2, Proceed, eFiles, mFiles, faults, IInv, TypeOK,
        JobInv, Inside, WorkerInv, BudgetInv, Readable
    <3>4. TrainInv'
      BY <1>7, <2>1 DEF Stage2, Proceed, eFiles, mFiles, faults, IInv, TypeOK,
        JobInv, Inside, TrainInv, TrackerNamesCompleteCheckpoint, OnPolicy
    <3>5. OnPolicy' /\ BudgetCoversAllShards' /\
      TrackerNamesCompleteCheckpoint' /\ DoneNamesTheLastSave' /\
      IterationsInOrder'
      BY <1>7, <2>1, PolicyFrame, CoversFrame, TrackerFrame, DoneFrame,
        OrderFrame DEF IInv, Stage2, Proceed, eFiles, mFiles, faults
    <3>. QED BY <1>0, <3>1, <3>2, <3>3, <3>4, <3>5 DEF IInv
  <2>2. CASE ~StageDone(grads)
    <3>1. JobInv'
      BY <1>7, <2>2 DEF Stage2, Launch, eFiles, mFiles, faults, IInv, TypeOK,
        JobInv, Inside, DoneNamesTheLastSave
    <3>2. WorkerInv'
      BY <1>7, <2>2 DEF Stage2, Launch, eFiles, mFiles, faults, IInv, TypeOK,
        WorkerInv
    <3>3. BudgetInv'
      BY <1>7, <2>2 DEF Stage2, Launch, eFiles, mFiles, faults, IInv, TypeOK,
        JobInv, Inside, WorkerInv, BudgetInv, Readable
    <3>4. TrainInv'
      BY <1>7, <2>2 DEF Stage2, Launch, eFiles, mFiles, faults, IInv, TypeOK,
        JobInv, Inside, TrainInv, TrackerNamesCompleteCheckpoint, OnPolicy
    <3>5. OnPolicy' /\ BudgetCoversAllShards' /\
      TrackerNamesCompleteCheckpoint' /\ DoneNamesTheLastSave' /\
      IterationsInOrder'
      BY <1>7, <2>2, PolicyFrame, CoversFrame, TrackerFrame, DoneFrame,
        OrderFrame DEF IInv, Stage2, Launch, eFiles, mFiles, faults
    <3>. QED BY <1>0, <3>1, <3>2, <3>3, <3>4, <3>5 DEF IInv
  <2>. QED BY <2>1, <2>2
<1>8. CASE AwaitStage2
  <2>1. JobInv'
    BY <1>8 DEF AwaitStage2, Await, Running, Goto, Proceed, eFiles, mFiles,
      faults, IInv, TypeOK, JobInv, Inside, DoneNamesTheLastSave
  <2>2. WorkerInv'
    BY <1>8 DEF AwaitStage2, Await, Running, Goto, Proceed, eFiles, mFiles,
      faults, IInv, TypeOK, WorkerInv
  <2>3. BudgetInv'
    BY <1>8 DEF AwaitStage2, Await, Running, Goto, Proceed, eFiles, mFiles,
      faults, IInv, TypeOK, JobInv, Inside, WorkerInv, BudgetInv, Readable
  <2>4. TrainInv'
    BY <1>8 DEF AwaitStage2, Await, Running, Goto, Proceed, eFiles, mFiles,
      faults, IInv, TypeOK, JobInv, Inside, TrainInv,
      TrackerNamesCompleteCheckpoint, OnPolicy
  <2>5. OnPolicy' /\ BudgetCoversAllShards' /\ TrackerNamesCompleteCheckpoint'
    /\ DoneNamesTheLastSave' /\ IterationsInOrder'
    BY <1>8, PolicyFrame, CoversFrame, TrackerFrame, DoneFrame, OrderFrame DEF
      IInv, AwaitStage2, Await, Running, Goto, Proceed, eFiles, mFiles, faults
  <2>. QED BY <1>0, <2>1, <2>2, <2>3, <2>4, <2>5 DEF IInv
<1>9. CASE CountBudget
  <2>1. CASE CountPrompts
    <3>1. JobInv'
      BY <1>9, <2>1 DEF CountBudget, Proceed, eFiles, mFiles, faults, IInv,
        TypeOK, JobInv, Inside, DoneNamesTheLastSave
    <3>2. WorkerInv'
      BY <1>9, <2>1 DEF CountBudget, Proceed, eFiles, mFiles, faults, IInv,
        TypeOK, WorkerInv
    <3>3. BudgetInv'
      BY <1>9, <2>1 DEF CountBudget, Proceed, eFiles, mFiles, faults, IInv,
        TypeOK, JobInv, Inside, WorkerInv, BudgetInv, Readable
    <3>4. TrainInv'
      BY <1>9, <2>1 DEF CountBudget, Proceed, eFiles, mFiles, faults, IInv,
        TypeOK, JobInv, Inside, TrainInv, TrackerNamesCompleteCheckpoint,
        OnPolicy
    <3>5. OnPolicy' /\ BudgetCoversAllShards' /\
      TrackerNamesCompleteCheckpoint' /\ DoneNamesTheLastSave' /\
      IterationsInOrder'
      BY <1>9, <2>1, PolicyFrame, CoversFrame, TrackerFrame, DoneFrame,
        OrderFrame DEF IInv, CountBudget, Proceed, eFiles, mFiles, faults
    <3>. QED BY <1>0, <3>1, <3>2, <3>3, <3>4, <3>5 DEF IInv
  <2>2. CASE ~CountPrompts
    BY <1>9, <2>2, ExitKeepsInvariant DEF CountBudget, IInv, TypeOK, eFiles,
      mFiles, faults
  <2>. QED BY <2>1, <2>2
<1>10. CASE OpenSizes
  <2>1. CASE InputsReadable
    <3>1. JobInv'
      BY <1>10, <2>1 DEF OpenSizes, InputsReadable, Proceed, eFiles, mFiles,
        faults, IInv, TypeOK, JobInv, Inside, DoneNamesTheLastSave
    <3>2. WorkerInv'
      BY <1>10, <2>1 DEF OpenSizes, InputsReadable, Proceed, eFiles, mFiles,
        faults, IInv, TypeOK, WorkerInv
    <3>3. BudgetInv'
      BY <1>10, <2>1, SMTT(30) DEF OpenSizes, InputsReadable, Proceed, eFiles, mFiles,
        faults, IInv, TypeOK, JobInv, Inside, WorkerInv, BudgetInv, Readable
    <3>4. TrainInv'
      BY <1>10, <2>1 DEF OpenSizes, InputsReadable, Proceed, eFiles, mFiles,
        faults, IInv, TypeOK, JobInv, Inside, TrainInv,
        TrackerNamesCompleteCheckpoint, OnPolicy
    <3>5. OnPolicy'
      BY <1>00, <1>10, <2>1, SMTT(30) DEF OpenSizes, InputsReadable, Proceed, eFiles, mFiles,
        faults, IInv, JobInv, Inside, WorkerInv, TrainInv, OnPolicy
    <3>6. BudgetCoversAllShards'
      BY <1>10, <2>1 DEF OpenSizes, InputsReadable, Proceed, eFiles, mFiles,
        faults, IInv, TypeOK, JobInv, Inside, WorkerInv, BudgetInv, Readable,
        BudgetCoversAllShards
    <3>7. TrackerNamesCompleteCheckpoint' /\ DoneNamesTheLastSave' /\
      IterationsInOrder'
      BY <1>10, <2>1, TrackerFrame, DoneFrame, OrderFrame DEF IInv, OpenSizes,
        InputsReadable, Proceed, eFiles, mFiles, faults
    <3>. QED BY <1>0, <3>1, <3>2, <3>3, <3>4, <3>5, <3>6, <3>7 DEF IInv
  <2>2. CASE ~InputsReadable
    BY <1>10, <2>2, ExitKeepsInvariant DEF OpenSizes, IInv, TypeOK, eFiles,
      mFiles, faults
  <2>. QED BY <2>1, <2>2
<1>11. CASE CloseSizes
  <2>1. Oldest(Inputs) = iter - 1
    BY <1>11, OldestInput DEF IInv
  <2>2. JobInv'
    BY <1>11, <2>1 DEF CloseSizes, Goto, Proceed, eFiles, mFiles, faults,
      IInv, TypeOK, JobInv, Inside, DoneNamesTheLastSave
  <2>3. WorkerInv'
    BY <1>11, <2>1 DEF CloseSizes, Goto, Proceed, eFiles, mFiles, faults,
      IInv, TypeOK, WorkerInv
  <2>4. BudgetInv'
    BY <1>11, <2>1 DEF CloseSizes, Goto, Proceed, eFiles, mFiles, faults,
      IInv, TypeOK, JobInv, Inside, WorkerInv, BudgetInv, Readable
  <2>5. TrainInv'
    BY <1>11, <2>1 DEF CloseSizes, Goto, Proceed, eFiles, mFiles, faults,
      IInv, TypeOK, JobInv, Inside, TrainInv, TrackerNamesCompleteCheckpoint,
      OnPolicy
  <2>6. OnPolicy'
    BY <1>00, <1>11, <2>1 DEF CloseSizes, Goto, Proceed, eFiles, mFiles, faults,
      IInv, JobInv, Inside, WorkerInv, TrainInv, OnPolicy
  <2>7. BudgetCoversAllShards'
    BY <1>11, <2>1 DEF CloseSizes, Goto, Proceed, eFiles, mFiles, faults,
      IInv, TypeOK, JobInv, Inside, WorkerInv, BudgetInv, Readable,
      BudgetCoversAllShards
  <2>8. TrackerNamesCompleteCheckpoint' /\ IterationsInOrder'
    BY <1>11, <2>1, TrackerFrame, OrderFrame DEF IInv, CloseSizes,
      Goto, Proceed, eFiles, mFiles, faults
  <2>9. DoneNamesTheLastSave'
    <3>1. UNCHANGED <<marker, export>> /\ iter \in Iters /\ ~Whole(marker[iter])
      BY <1>11 DEF CloseSizes, Goto, mFiles, IInv, JobInv, Inside
    <3>2. \A j \in Iters \ {iter} : empty'[j] = empty[j]
      BY <1>11 DEF CloseSizes, IInv, TypeOK
    <3>. QED BY <3>1, <3>2 DEF IInv, DoneNamesTheLastSave, SavedSteps, TrainedSteps
  <2>. QED BY <1>0, <2>2, <2>3, <2>4, <2>5, <2>6, <2>7, <2>8, <2>9 DEF IInv
<1>12. CASE StartTrainer
  <2>1. CASE TrainerInputsReadable
    <3>1. /\ pc = "mstep" /\ gstep' \in 1 .. NSteps + 1 /\ model' = iter - 1 /\ pc' = "train"
          /\ Whole(tracker[iter]) => tracker[iter] < gstep'
          /\ iter \in Iters /\ policy = iter - 1
          /\ UNCHANGED <<eFiles, mFiles, iter, policy, worker, faults>>
      <4>1. /\ pc = "mstep" /\ iter \in Iters /\ policy = iter - 1
            /\ pc' = "train" /\ Tracked \in StepFile /\ Tracked # TornFile
            /\ UNCHANGED <<eFiles, mFiles, iter, policy, worker, faults>>
        BY <1>12, <2>1 DEF StartTrainer, TrainerInputsReadable, Tracked, IInv,
          TypeOK, JobInv, Inside
      <4>2. CASE Scratch
        <5>1. gstep' = 1 /\ model' = policy
          BY <1>12, <2>1,       <4>2 DEF StartTrainer
        <5>2. ~Whole(Tracked)
          BY <4>1, <4>2 DEF Scratch, Tracked, IInv, TrackerNamesCompleteCheckpoint
        <5>. QED BY <4>1, <5>1, <5>2 DEF Tracked
      <4>3. CASE ~Scratch
        <5>1. gstep' = Tracked + 1 /\ model' = ckpt[iter][Tracked]
          BY <1>12, <2>1,       <4>3 DEF StartTrainer
        <5>2. Tracked \in Steps /\ Whole(ckpt[iter][Tracked])
          BY <4>1, <4>3, <2>1 DEF Scratch, StepFile, TrainerInputsReadable
        <5>3. ckpt[iter][Tracked] = iter - 1
          BY <4>1, <5>2 DEF IInv, OnPolicy
        <5>. QED BY <4>1, <5>1, <5>2, <5>3 DEF Tracked
      <4>. QED BY <4>2, <4>3
    <3>2. JobInv'
      BY <3>1 DEF eFiles, mFiles, faults, IInv, TypeOK, JobInv, Inside,
        DoneNamesTheLastSave
    <3>3. WorkerInv'
      BY <3>1 DEF eFiles, mFiles, faults, IInv, TypeOK, WorkerInv
    <3>4. BudgetInv'
      BY <3>1 DEF eFiles, mFiles, faults, IInv, TypeOK, JobInv, Inside,
        WorkerInv, BudgetInv, Readable
    <3>5. TrainInv'
      BY <3>1 DEF eFiles, mFiles, faults, IInv, TypeOK, JobInv, Inside,
        TrainInv, TrackerNamesCompleteCheckpoint, OnPolicy
    <3>6. OnPolicy' /\ BudgetCoversAllShards' /\
      TrackerNamesCompleteCheckpoint' /\ DoneNamesTheLastSave' /\
      IterationsInOrder'
      BY <3>1, PolicyFrame, CoversFrame, TrackerFrame, DoneFrame, OrderFrame
        DEF IInv, eFiles, mFiles, faults
    <3>. QED BY <1>0, <3>2, <3>3, <3>4, <3>5, <3>6 DEF IInv
  <2>2. CASE ~TrainerInputsReadable
    BY <1>12, <2>2, ExitKeepsInvariant DEF StartTrainer, IInv, TypeOK, eFiles,
      mFiles, faults
  <2>. QED BY <2>1, <2>2
<1>13. CASE TrainStep
  <2>1. CASE SaveDue(gstep)
    <3>1. /\ pc = "train" /\ pc' = "ckpt" /\ iter \in Iters /\ gstep \in Steps
          /\ ckpt' = [ckpt EXCEPT ![iter] = [ckpt[iter] EXCEPT ![gstep] = TornFile]]
          /\ UNCHANGED <<eFiles, tracker, export, marker, iter, policy, worker, model, gstep, faults>>
      BY <1>13, <2>1, NextStep DEF TrainStep
    <3>2. JobInv'
      BY <3>1 DEF eFiles, mFiles, faults, IInv, TypeOK, JobInv, Inside,
        DoneNamesTheLastSave
    <3>3. WorkerInv'
      BY <3>1 DEF eFiles, mFiles, faults, IInv, TypeOK, WorkerInv
    <3>4. BudgetInv'
      BY <3>1 DEF eFiles, mFiles, faults, IInv, TypeOK, JobInv, Inside,
        WorkerInv, BudgetInv, Readable
    <3>5. TrainInv'
      BY <3>1 DEF eFiles, mFiles, faults, IInv, TypeOK, JobInv, Inside,
        TrainInv, TrackerNamesCompleteCheckpoint, OnPolicy
    <3>6. OnPolicy'
      BY <1>00, <3>1 DEF eFiles, mFiles, faults, IInv, JobInv, Inside,
        WorkerInv, TrainInv, OnPolicy
    <3>7. TrackerNamesCompleteCheckpoint'
      BY <1>00, <3>1 DEF eFiles, mFiles, faults, IInv, JobInv, Inside,
        TrainInv, TrackerNamesCompleteCheckpoint
    <3>8. BudgetCoversAllShards' /\ DoneNamesTheLastSave' /\
      IterationsInOrder'
      BY <3>1, CoversFrame, DoneFrame, OrderFrame DEF IInv, eFiles, mFiles,
        faults
    <3>. QED BY <1>0, <3>2, <3>3, <3>4, <3>5, <3>6, <3>7, <3>8 DEF IInv
  <2>2. CASE ~SaveDue(gstep)
    <3>1. gstep \in Int
      BY DEF IInv, TypeOK
    <3>2. TrainInv'
      <4>1. /\ pc = "train" /\ gstep' = gstep + 1
            /\ UNCHANGED <<pc, ckpt, tracker, export, iter, model>>
        BY <1>13, <2>2 DEF TrainStep
      <4>2. gstep >= 1 /\ model = iter - 1
        BY <4>1 DEF IInv, TrainInv
      <4>3. Whole(tracker[iter]) => tracker[iter] < gstep + 1
        <5>1. iter \in Iters
          BY <4>1 DEF IInv, JobInv, Inside
        <5>2. tracker[iter] \in Int
          <6>1. tracker \in [Iters -> StepFile]
            BY DEF IInv, TypeOK
          <6>2. \A f \in StepFile : f \in Int
            BY DEF StepFile
          <6>. QED BY <5>1, <6>1, <6>2
        <5>3. Whole(tracker[iter]) => tracker[iter] < gstep
          BY <4>1 DEF IInv, TrainInv
        <5>. QED BY <3>1, <5>2, <5>3
      <4>. QED BY <3>1, <4>1, <4>2, <4>3 DEF TrainInv
    <3>3. JobInv' /\ WorkerInv' /\ BudgetInv' /\ OnPolicy' /\
      BudgetCoversAllShards' /\ TrackerNamesCompleteCheckpoint' /\
      DoneNamesTheLastSave' /\ IterationsInOrder'
      BY <1>13, <2>2, <3>1, JobFrame, WorkerFrame, BudgetFrame, PolicyFrame,
        CoversFrame, TrackerFrame, DoneFrame, OrderFrame DEF IInv, TrainStep,
        MoreBatches, eFiles, mFiles, faults
    <3>. QED BY <1>0, <3>2, <3>3 DEF IInv
  <2>. QED BY <2>1, <2>2
<1>34. CASE SkipEmptyBatch
  BY <1>0, <1>34, JobFrame, WorkerFrame, BudgetFrame, TrainFrame, PolicyFrame,
    CoversFrame, TrackerFrame, DoneFrame, OrderFrame DEF IInv, SkipEmptyBatch,
    eFiles, mFiles
<1>14. CASE CloseCheckpoint
  <2>1. JobInv'
    BY <1>14 DEF CloseCheckpoint, Goto, Proceed, eFiles, mFiles, faults, IInv,
      TypeOK, JobInv, Inside, DoneNamesTheLastSave
  <2>2. WorkerInv'
    BY <1>14 DEF CloseCheckpoint, Goto, Proceed, eFiles, mFiles, faults, IInv,
      TypeOK, WorkerInv
  <2>3. BudgetInv'
    BY <1>14 DEF CloseCheckpoint, Goto, Proceed, eFiles, mFiles, faults, IInv,
      TypeOK, JobInv, Inside, WorkerInv, BudgetInv, Readable
  <2>4. TrainInv'
    BY <1>14 DEF CloseCheckpoint, Goto, Proceed, eFiles, mFiles, faults, IInv,
      TypeOK, JobInv, Inside, TrainInv, TrackerNamesCompleteCheckpoint,
      OnPolicy
  <2>5. OnPolicy'
    BY <1>00, <1>14, SMTT(30) DEF CloseCheckpoint, Goto, Proceed, eFiles, mFiles, faults, IInv,
      JobInv, Inside, WorkerInv, TrainInv, OnPolicy
  <2>6. TrackerNamesCompleteCheckpoint'
    BY <1>00, <1>14 DEF CloseCheckpoint, Goto, Proceed, eFiles, mFiles, faults, IInv,
      JobInv, Inside, TrainInv, TrackerNamesCompleteCheckpoint
  <2>7. BudgetCoversAllShards' /\ DoneNamesTheLastSave' /\ IterationsInOrder'
    BY <1>14, CoversFrame, DoneFrame, OrderFrame DEF IInv, CloseCheckpoint,
      Goto, Proceed, eFiles, mFiles, faults
  <2>. QED BY <1>0, <2>1, <2>2, <2>3, <2>4, <2>5, <2>6, <2>7 DEF IInv
<1>15. CASE OpenTracker
  <2>1. JobInv'
    BY <1>15 DEF OpenTracker, Goto, Proceed, eFiles, mFiles, faults, IInv,
      TypeOK, JobInv, Inside, DoneNamesTheLastSave
  <2>2. WorkerInv'
    BY <1>15 DEF OpenTracker, Goto, Proceed, eFiles, mFiles, faults, IInv,
      TypeOK, WorkerInv
  <2>3. BudgetInv'
    BY <1>15 DEF OpenTracker, Goto, Proceed, eFiles, mFiles, faults, IInv,
      TypeOK, JobInv, Inside, WorkerInv, BudgetInv, Readable
  <2>4. TrainInv'
    BY <1>15 DEF OpenTracker, Goto, Proceed, eFiles, mFiles, faults, IInv,
      TypeOK, JobInv, Inside, TrainInv, TrackerNamesCompleteCheckpoint,
      OnPolicy
  <2>5. TrackerNamesCompleteCheckpoint'
    BY <1>00, <1>15 DEF OpenTracker, Goto, Proceed, eFiles, mFiles, faults, IInv,
      JobInv, Inside, TrainInv, TrackerNamesCompleteCheckpoint
  <2>6. IterationsInOrder'
    BY <1>00, <1>15 DEF OpenTracker, Goto, Proceed, eFiles, mFiles, faults, IInv,
      JobInv, Inside, WorkerInv, IterationsInOrder
  <2>7. OnPolicy' /\ BudgetCoversAllShards' /\ DoneNamesTheLastSave'
    BY <1>15, PolicyFrame, CoversFrame, DoneFrame DEF IInv, OpenTracker, Goto,
      Proceed, eFiles, mFiles, faults
  <2>. QED BY <1>0, <2>1, <2>2, <2>3, <2>4, <2>5, <2>6, <2>7 DEF IInv
<1>16. CASE CloseTracker
  <2>1. JobInv'
    BY <1>16 DEF CloseTracker, eFiles, mFiles, faults, IInv, TypeOK, JobInv,
      Inside, DoneNamesTheLastSave
  <2>2. WorkerInv'
    BY <1>16 DEF CloseTracker, eFiles, mFiles, faults, IInv, TypeOK, WorkerInv
  <2>3. BudgetInv'
    BY <1>16 DEF CloseTracker, eFiles, mFiles, faults, IInv, TypeOK, JobInv,
      Inside, WorkerInv, BudgetInv, Readable
  <2>4. TrainInv'
    BY <1>16 DEF CloseTracker, eFiles, mFiles, faults, IInv, TypeOK, JobInv,
      Inside, TrainInv, TrackerNamesCompleteCheckpoint, OnPolicy
  <2>5. TrackerNamesCompleteCheckpoint'
    BY <1>00, <1>16 DEF CloseTracker, eFiles, mFiles, faults, IInv, JobInv,
      Inside, TrainInv, TrackerNamesCompleteCheckpoint
  <2>6. IterationsInOrder'
    BY <1>00, <1>16 DEF CloseTracker, eFiles, mFiles, faults, IInv, JobInv,
      Inside, WorkerInv, IterationsInOrder
  <2>7. OnPolicy' /\ BudgetCoversAllShards' /\ DoneNamesTheLastSave'
    BY <1>16, PolicyFrame, CoversFrame, DoneFrame DEF IInv, CloseTracker,
      eFiles, mFiles, faults
  <2>. QED BY <1>0, <2>1, <2>2, <2>3, <2>4, <2>5, <2>6, <2>7 DEF IInv
<1>17. CASE TrainerReturns
  <2>1. JobInv'
    BY <1>17 DEF TrainerReturns, MoreBatches, Proceed, eFiles, mFiles, faults,
      IInv, TypeOK, JobInv, Inside, DoneNamesTheLastSave
  <2>2. WorkerInv'
    BY <1>17 DEF TrainerReturns, MoreBatches, Proceed, eFiles, mFiles, faults,
      IInv, TypeOK, WorkerInv
  <2>3. BudgetInv'
    BY <1>17 DEF TrainerReturns, MoreBatches, Proceed, eFiles, mFiles, faults,
      IInv, TypeOK, JobInv, Inside, WorkerInv, BudgetInv, Readable
  <2>4. TrainInv'
    BY <1>17 DEF TrainerReturns, MoreBatches, Proceed, eFiles, mFiles, faults,
      IInv, TypeOK, JobInv, Inside, TrainInv, TrackerNamesCompleteCheckpoint,
      OnPolicy
  <2>5. OnPolicy' /\ BudgetCoversAllShards' /\ TrackerNamesCompleteCheckpoint'
    /\ DoneNamesTheLastSave' /\ IterationsInOrder'
    BY <1>17, PolicyFrame, CoversFrame, TrackerFrame, DoneFrame, OrderFrame
      DEF IInv, TrainerReturns, MoreBatches, Proceed, eFiles, mFiles, faults
  <2>. QED BY <1>0, <2>1, <2>2, <2>3, <2>4, <2>5 DEF IInv
<1>18. CASE OpenExport
  <2>1. CASE Mergeable
    <3>1. iter \in Iters /\ LastStepDir \in Steps
      BY <1>18, <2>1, LastDirIsLastSave DEF OpenExport, Mergeable
    <3>2. /\ pc = "merge" /\ pc' = "merging" /\ iter \in Iters /\ LastStepDir \in Steps
          /\ export' = [export EXCEPT ![iter] = [export[iter] EXCEPT ![LastStepDir] = TornFile]]
          /\ UNCHANGED <<eFiles, ckpt, tracker, marker, iter, policy, worker, model, gstep, faults>>
      BY <1>18, <2>1, <3>1 DEF OpenExport, Proceed, IInv, TypeOK, JobInv,
        Inside
    <3>3. JobInv'
      BY <3>2 DEF eFiles, mFiles, faults, IInv, TypeOK, JobInv, Inside,
        DoneNamesTheLastSave
    <3>4. WorkerInv'
      BY <3>2 DEF eFiles, mFiles, faults, IInv, TypeOK, WorkerInv
    <3>5. BudgetInv'
      BY <3>2 DEF eFiles, mFiles, faults, IInv, TypeOK, JobInv, Inside,
        WorkerInv, BudgetInv, Readable
    <3>6. TrainInv'
      BY <3>2 DEF eFiles, mFiles, faults, IInv, TypeOK, JobInv, Inside,
        TrainInv, TrackerNamesCompleteCheckpoint, OnPolicy
    <3>7. OnPolicy'
      BY <1>00, <3>2 DEF eFiles, mFiles, faults, IInv, JobInv, Inside,
        WorkerInv, TrainInv, OnPolicy
    <3>8. DoneNamesTheLastSave'
      BY <1>00, <3>2 DEF eFiles, mFiles, faults, IInv, JobInv, Inside,
        DoneNamesTheLastSave, SavedSteps, TrainedSteps
    <3>9. BudgetCoversAllShards' /\ TrackerNamesCompleteCheckpoint' /\
      IterationsInOrder'
      BY <3>2, CoversFrame, TrackerFrame, OrderFrame DEF IInv, eFiles, mFiles,
        faults
    <3>. QED BY <1>0, <3>3, <3>4, <3>5, <3>6, <3>7, <3>8, <3>9 DEF IInv
  <2>2. CASE ~Mergeable
    BY <1>18, <2>2, ExitKeepsInvariant DEF OpenExport, IInv, TypeOK, eFiles,
      mFiles, faults
  <2>. QED BY <2>1, <2>2
<1>19. CASE CloseExport
  <2>1. iter \in Iters /\ LastStepDir \in Steps
    BY <1>19, LastDirIsLastSave DEF CloseExport, Goto, IInv, StepInv
  <2>2. JobInv'
    BY <1>19, <2>1 DEF CloseExport, Goto, Proceed, eFiles, mFiles, faults,
      IInv, TypeOK, JobInv, Inside, DoneNamesTheLastSave
  <2>3. WorkerInv'
    BY <1>19, <2>1 DEF CloseExport, Goto, Proceed, eFiles, mFiles, faults,
      IInv, TypeOK, WorkerInv
  <2>4. BudgetInv'
    BY <1>19, <2>1 DEF CloseExport, Goto, Proceed, eFiles, mFiles, faults,
      IInv, TypeOK, JobInv, Inside, WorkerInv, BudgetInv, Readable
  <2>5. TrainInv'
    BY <1>19, <2>1 DEF CloseExport, Goto, Proceed, eFiles, mFiles, faults,
      IInv, TypeOK, JobInv, Inside, TrainInv, TrackerNamesCompleteCheckpoint,
      OnPolicy
  <2>6. OnPolicy'
    BY <1>00, <1>19, <2>1 DEF CloseExport, Goto, Proceed, eFiles, mFiles, faults,
      IInv, JobInv, Inside, WorkerInv, TrainInv, OnPolicy
  <2>7. DoneNamesTheLastSave'
    BY <1>00, <1>19, <2>1 DEF CloseExport, Goto, Proceed, eFiles, mFiles, faults,
      IInv, JobInv, Inside, DoneNamesTheLastSave, SavedSteps, TrainedSteps
  <2>8. BudgetCoversAllShards' /\ TrackerNamesCompleteCheckpoint' /\
    IterationsInOrder'
    BY <1>19, <2>1, CoversFrame, TrackerFrame, OrderFrame DEF IInv,
      CloseExport, Goto, Proceed, eFiles, mFiles, faults
  <2>. QED BY <1>0, <2>2, <2>3, <2>4, <2>5, <2>6, <2>7, <2>8 DEF IInv
<1>20. CASE OpenMarker
  <2>1. JobInv'
    BY <1>20 DEF OpenMarker, Goto, Proceed, eFiles, mFiles, faults, IInv,
      TypeOK, JobInv, Inside, DoneNamesTheLastSave
  <2>2. WorkerInv'
    BY <1>20 DEF OpenMarker, Goto, Proceed, eFiles, mFiles, faults, IInv,
      TypeOK, WorkerInv
  <2>3. BudgetInv'
    BY <1>20 DEF OpenMarker, Goto, Proceed, eFiles, mFiles, faults, IInv,
      TypeOK, JobInv, Inside, WorkerInv, BudgetInv, Readable
  <2>4. TrainInv'
    BY <1>20 DEF OpenMarker, Goto, Proceed, eFiles, mFiles, faults, IInv,
      TypeOK, JobInv, Inside, TrainInv, TrackerNamesCompleteCheckpoint,
      OnPolicy
  <2>5. DoneNamesTheLastSave'
    <3>1. /\ iter \in Iters /\ UNCHANGED <<export, empty>>
          /\ marker' = [marker EXCEPT ![iter] = TornFile]
      BY <1>20 DEF OpenMarker, Goto, eFiles, IInv, JobInv, Inside
    <3>2. \A j \in Iters : marker'[j] = IF j = iter THEN TornFile ELSE marker[j]
      BY <1>00, <3>1
    <3>. QED BY <3>1, <3>2 DEF IInv, DoneNamesTheLastSave, SavedSteps, TrainedSteps
  <2>6. IterationsInOrder'
    BY <1>00, <1>20 DEF OpenMarker, Goto, Proceed, eFiles, mFiles, faults, IInv,
      JobInv, Inside, WorkerInv, IterationsInOrder
  <2>7. OnPolicy' /\ BudgetCoversAllShards' /\ TrackerNamesCompleteCheckpoint'
    BY <1>20, PolicyFrame, CoversFrame, TrackerFrame DEF IInv, OpenMarker,
      Goto, Proceed, eFiles, mFiles, faults
  <2>. QED BY <1>0, <2>1, <2>2, <2>3, <2>4, <2>5, <2>6, <2>7 DEF IInv
<1>21. CASE CloseMarker
  <2>1. /\ iter \in Iters /\ LastStepDir \in SavedSteps(iter) /\ LastStepDir \in Steps
        /\ TrainedSteps(iter) - LastStepDir < SaveFreq
        /\ empty[iter] = {} => LastStepDir = NSteps
    BY <1>21, LastDirIsLastSave, LastSaveIsClose DEF CloseMarker, IInv, StepInv
  <2>10. Whole(export[iter][LastStepDir])
    BY <1>21 DEF CloseMarker, IInv, StepInv
  <2>2. JobInv'
    BY <1>21, <2>1, SMTT(30) DEF CloseMarker, eFiles, mFiles, faults, IInv, TypeOK,
      JobInv, Inside, DoneNamesTheLastSave, TrainInv
  <2>3. WorkerInv'
    BY <1>21, <2>1 DEF CloseMarker, eFiles, mFiles, faults, IInv, TypeOK,
      WorkerInv
  <2>4. BudgetInv'
    BY <1>21, <2>1 DEF CloseMarker, eFiles, mFiles, faults, IInv, TypeOK,
      JobInv, Inside, WorkerInv, BudgetInv, Readable
  <2>5. TrainInv'
    BY <1>21, <2>1 DEF CloseMarker, eFiles, mFiles, faults, IInv, TypeOK,
      JobInv, Inside, TrainInv, TrackerNamesCompleteCheckpoint, OnPolicy
  <2>6. DoneNamesTheLastSave'
    <3>1. /\ marker' = [marker EXCEPT ![iter] = LastStepDir]
          /\ UNCHANGED <<export, empty>>
      BY <1>21 DEF CloseMarker, eFiles
    <3>2. marker \in [Iters -> StepFile]
      BY DEF IInv, TypeOK
    <3>3. DoneNamesTheLastSave
      BY DEF IInv
    <3>4. \A j \in Iters : SavedSteps(j)' = SavedSteps(j) /\ TrainedSteps(j)' = TrainedSteps(j)
      BY <3>1 DEF SavedSteps, TrainedSteps
    <3>5. \A j \in Iters : marker'[j] = IF j = iter THEN LastStepDir ELSE marker[j]
      BY <2>1, <3>1, <3>2
    <3>. QED BY <2>1, <2>10, <3>1, <3>3, <3>4, <3>5 DEF DoneNamesTheLastSave
  <2>7. IterationsInOrder'
    BY <1>00, <1>21, <2>1 DEF CloseMarker, eFiles, mFiles, faults, IInv, JobInv, Inside, WorkerInv, IterationsInOrder
  <2>8. OnPolicy' /\ BudgetCoversAllShards' /\ TrackerNamesCompleteCheckpoint'
    BY <1>21, <2>1, PolicyFrame, CoversFrame, TrackerFrame DEF IInv,
      CloseMarker, eFiles, mFiles, faults
  <2>. QED BY <1>0, <2>2, <2>3, <2>4, <2>5, <2>6, <2>7, <2>8 DEF IInv
<1>22. ASSUME NEW g \in Shards, OpenPilotsAll(g) PROVE IInv'
  <2>1. WorkerInv'
    BY <1>22 DEF OpenPilotsAll, Move, Put, eFiles, mFiles, faults, IInv,
      TypeOK, WorkerInv
  <2>2. OnPolicy'
    BY <1>00, <1>22, SMTT(30) DEF OpenPilotsAll, Move, Put, eFiles, mFiles, faults, IInv,
      JobInv, Inside, WorkerInv, TrainInv, OnPolicy
  <2>3. IterationsInOrder'
    BY <1>00, <1>22 DEF OpenPilotsAll, Move, Put, eFiles, mFiles, faults, IInv,
      JobInv, Inside, WorkerInv, IterationsInOrder
  <2>4. JobInv' /\ BudgetInv' /\ TrainInv' /\ BudgetCoversAllShards' /\
    TrackerNamesCompleteCheckpoint' /\ DoneNamesTheLastSave'
    BY <1>22, JobFrame, BudgetFrame, TrainFrame, CoversFrame, TrackerFrame,
      DoneFrame DEF IInv, OpenPilotsAll, Move, Put, eFiles, mFiles, faults
  <2>. QED BY <1>0, <2>1, <2>2, <2>3, <2>4 DEF IInv
<1>23. ASSUME NEW g \in Shards, ClosePilotsAll(g) PROVE IInv'
  <2>1. WorkerInv'
    BY <1>23 DEF ClosePilotsAll, Move, Put, eFiles, mFiles, faults, IInv,
      TypeOK, WorkerInv
  <2>2. OnPolicy'
    BY <1>00, <1>23 DEF ClosePilotsAll, Move, Put, eFiles, mFiles, faults, IInv,
      JobInv, Inside, WorkerInv, TrainInv, OnPolicy
  <2>3. IterationsInOrder'
    BY <1>00, <1>23 DEF ClosePilotsAll, Move, Put, eFiles, mFiles, faults, IInv,
      JobInv, Inside, WorkerInv, IterationsInOrder
  <2>4. JobInv' /\ BudgetInv' /\ TrainInv' /\ BudgetCoversAllShards' /\
    TrackerNamesCompleteCheckpoint' /\ DoneNamesTheLastSave'
    BY <1>23, JobFrame, BudgetFrame, TrainFrame, CoversFrame, TrackerFrame,
      DoneFrame DEF IInv, ClosePilotsAll, Move, Put, eFiles, mFiles, faults
  <2>. QED BY <1>0, <2>1, <2>2, <2>3, <2>4 DEF IInv
<1>24. ASSUME NEW g \in Shards, OpenPilots(g) PROVE IInv'
  <2>1. WorkerInv'
    BY <1>24 DEF OpenPilots, Move, Put, eFiles, mFiles, faults, IInv, TypeOK,
      WorkerInv
  <2>2. OnPolicy'
    BY <1>00, <1>24, SMTT(30), SMTT(30) DEF OpenPilots, Move, Put, eFiles, mFiles, faults,
      IInv, JobInv, Inside, WorkerInv, TrainInv, OnPolicy
  <2>3. JobInv' /\ BudgetInv' /\ TrainInv' /\ BudgetCoversAllShards' /\
    TrackerNamesCompleteCheckpoint' /\ DoneNamesTheLastSave' /\
    IterationsInOrder'
    BY <1>24, JobFrame, BudgetFrame, TrainFrame, CoversFrame, TrackerFrame,
      DoneFrame, OrderFrame DEF IInv, OpenPilots, Move, Put, eFiles, mFiles,
      faults
  <2>. QED BY <1>0, <2>1, <2>2, <2>3 DEF IInv
<1>25. ASSUME NEW g \in Shards, ClosePilots(g) PROVE IInv'
  <2>1. WorkerInv'
    BY <1>25 DEF ClosePilots, Move, Put, eFiles, mFiles, faults, IInv, TypeOK,
      WorkerInv
  <2>2. OnPolicy'
    BY <1>00, <1>25, SMTT(30) DEF ClosePilots, Move, Put, eFiles, mFiles, faults, IInv, JobInv,
      Inside, WorkerInv, TrainInv, OnPolicy
  <2>3. JobInv' /\ BudgetInv' /\ TrainInv' /\ BudgetCoversAllShards' /\
    TrackerNamesCompleteCheckpoint' /\ DoneNamesTheLastSave' /\
    IterationsInOrder'
    BY <1>25, JobFrame, BudgetFrame, TrainFrame, CoversFrame, TrackerFrame,
      DoneFrame, OrderFrame DEF IInv, ClosePilots, Move, Put, eFiles, mFiles,
      faults
  <2>. QED BY <1>0, <2>1, <2>2, <2>3 DEF IInv
<1>26. ASSUME NEW g \in Shards, LoadPilots(g) PROVE IInv'
  <2>1. WorkerInv'
    BY <1>26 DEF LoadPilots, Move, eFiles, mFiles, faults, IInv, TypeOK,
      WorkerInv
  <2>2. JobInv' /\ BudgetInv' /\ TrainInv' /\ OnPolicy' /\
    BudgetCoversAllShards' /\ TrackerNamesCompleteCheckpoint' /\
    DoneNamesTheLastSave' /\ IterationsInOrder'
    BY <1>26, JobFrame, BudgetFrame, TrainFrame, PolicyFrame, CoversFrame,
      TrackerFrame, DoneFrame, OrderFrame DEF IInv, LoadPilots, Move, eFiles,
      mFiles, faults
  <2>. QED BY <1>0, <2>1, <2>2 DEF IInv
<1>27. ASSUME NEW g \in Shards, OpenRates(g) PROVE IInv'
  <2>1. WorkerInv'
    BY <1>27 DEF OpenRates, Move, Put, eFiles, mFiles, faults, IInv, TypeOK,
      WorkerInv
  <2>2. BudgetInv'
    BY <1>27 DEF OpenRates, Move, Put, eFiles, mFiles, faults, IInv, TypeOK,
      JobInv, Inside, WorkerInv, BudgetInv, Readable
  <2>3. OnPolicy'
    BY <1>00, <1>27, SMTT(30) DEF OpenRates, Move, Put, eFiles, mFiles, faults, IInv, JobInv,
      Inside, WorkerInv, TrainInv, OnPolicy
  <2>4. BudgetCoversAllShards'
    BY <1>27 DEF OpenRates, Move, Put, eFiles, mFiles, faults, IInv, TypeOK,
      JobInv, Inside, WorkerInv, BudgetInv, Readable, BudgetCoversAllShards
  <2>5. JobInv' /\ TrainInv' /\ TrackerNamesCompleteCheckpoint' /\
    DoneNamesTheLastSave' /\ IterationsInOrder'
    BY <1>27, JobFrame, TrainFrame, TrackerFrame, DoneFrame, OrderFrame DEF
      IInv, OpenRates, Move, Put, eFiles, mFiles, faults
  <2>. QED BY <1>0, <2>1, <2>2, <2>3, <2>4, <2>5 DEF IInv
<1>28. ASSUME NEW g \in Shards, CloseRates(g) PROVE IInv'
  <2>1. WorkerInv'
    BY <1>28 DEF CloseRates, Move, Put, eFiles, mFiles, faults, IInv, TypeOK,
      WorkerInv
  <2>2. BudgetInv'
    BY <1>28 DEF CloseRates, Move, Put, eFiles, mFiles, faults, IInv, TypeOK,
      JobInv, Inside, WorkerInv, BudgetInv, Readable
  <2>3. OnPolicy'
    BY <1>00, <1>28, SMTT(30) DEF CloseRates, Move, Put, eFiles, mFiles, faults, IInv, JobInv,
      Inside, WorkerInv, TrainInv, OnPolicy
  <2>4. BudgetCoversAllShards'
    BY <1>28 DEF CloseRates, Move, Put, eFiles, mFiles, faults, IInv, TypeOK,
      JobInv, Inside, WorkerInv, BudgetInv, Readable, BudgetCoversAllShards
  <2>5. JobInv' /\ TrainInv' /\ TrackerNamesCompleteCheckpoint' /\
    DoneNamesTheLastSave' /\ IterationsInOrder'
    BY <1>28, JobFrame, TrainFrame, TrackerFrame, DoneFrame, OrderFrame DEF
      IInv, CloseRates, Move, Put, eFiles, mFiles, faults
  <2>. QED BY <1>0, <2>1, <2>2, <2>3, <2>4, <2>5 DEF IInv
<1>29. ASSUME NEW g \in Shards, OpenGrads(g) PROVE IInv'
  <2>1. WorkerInv'
    BY <1>29 DEF OpenGrads, Move, Put, eFiles, mFiles, faults, IInv, TypeOK,
      WorkerInv
  <2>2. BudgetInv'
    BY <1>29 DEF OpenGrads, Move, Put, eFiles, mFiles, faults, IInv, TypeOK,
      JobInv, Inside, WorkerInv, BudgetInv, Readable
  <2>3. OnPolicy'
    BY <1>00, <1>29, SMTT(30) DEF OpenGrads, Move, Put, eFiles, mFiles, faults, IInv, JobInv,
      Inside, WorkerInv, TrainInv, OnPolicy
  <2>4. BudgetCoversAllShards'
    BY <1>29 DEF OpenGrads, Move, Put, eFiles, mFiles, faults, IInv, TypeOK,
      JobInv, Inside, WorkerInv, BudgetInv, Readable, BudgetCoversAllShards
  <2>5. JobInv' /\ TrainInv' /\ TrackerNamesCompleteCheckpoint' /\
    DoneNamesTheLastSave' /\ IterationsInOrder'
    BY <1>29, JobFrame, TrainFrame, TrackerFrame, DoneFrame, OrderFrame DEF
      IInv, OpenGrads, Move, Put, eFiles, mFiles, faults
  <2>. QED BY <1>0, <2>1, <2>2, <2>3, <2>4, <2>5 DEF IInv
<1>30. ASSUME NEW g \in Shards, CloseGrads(g) PROVE IInv'
  <2>1. WorkerInv'
    BY <1>30 DEF CloseGrads, Move, Put, eFiles, mFiles, faults, IInv, TypeOK,
      WorkerInv
  <2>2. BudgetInv'
    BY <1>30 DEF CloseGrads, Move, Put, eFiles, mFiles, faults, IInv, TypeOK,
      JobInv, Inside, WorkerInv, BudgetInv, Readable
  <2>3. OnPolicy'
    BY <1>00, <1>30, SMTT(30) DEF CloseGrads, Move, Put, eFiles, mFiles, faults, IInv, JobInv,
      Inside, WorkerInv, TrainInv, OnPolicy
  <2>4. BudgetCoversAllShards'
    BY <1>30 DEF CloseGrads, Move, Put, eFiles, mFiles, faults, IInv, TypeOK,
      JobInv, Inside, WorkerInv, BudgetInv, Readable, BudgetCoversAllShards
  <2>5. JobInv' /\ TrainInv' /\ TrackerNamesCompleteCheckpoint' /\
    DoneNamesTheLastSave' /\ IterationsInOrder'
    BY <1>30, JobFrame, TrainFrame, TrackerFrame, DoneFrame, OrderFrame DEF
      IInv, CloseGrads, Move, Put, eFiles, mFiles, faults
  <2>. QED BY <1>0, <2>1, <2>2, <2>3, <2>4, <2>5 DEF IInv
<1>31. ASSUME NEW g \in Shards, WorkerDies(g) PROVE IInv'
  <2>1. WorkerInv'
    BY <1>31 DEF WorkerDies, Running, eFiles, mFiles, faults, IInv, TypeOK,
      WorkerInv
  <2>2. JobInv' /\ BudgetInv' /\ TrainInv' /\ OnPolicy' /\
    BudgetCoversAllShards' /\ TrackerNamesCompleteCheckpoint' /\
    DoneNamesTheLastSave' /\ IterationsInOrder'
    BY <1>31, JobFrame, BudgetFrame, TrainFrame, PolicyFrame, CoversFrame,
      TrackerFrame, DoneFrame, OrderFrame DEF IInv, WorkerDies, Running,
      eFiles, mFiles, faults
  <2>. QED BY <1>0, <2>1, <2>2 DEF IInv
<1>32. CASE Kill \/ ProgramDies
  <2>1. kills' \in 0 .. MaxKills /\ fails' \in 0 .. MaxFails
    BY <1>0 DEF TypeOK
  <2>. QED BY <1>32, <2>1, ExitKeepsInvariant DEF Kill, ProgramDies
<1>33. CASE UNCHANGED vars
  BY <1>0, <1>33, JobFrame, WorkerFrame, BudgetFrame, TrainFrame, PolicyFrame,
    CoversFrame, TrackerFrame, DoneFrame, OrderFrame DEF IInv, vars, eFiles,
    mFiles, job
<1>. QED
  BY <1>1, <1>2, <1>3, <1>4, <1>5, <1>6, <1>7, <1>8, <1>9, <1>10, <1>11,
    <1>12, <1>13, <1>14, <1>15, <1>16, <1>17, <1>18, <1>19, <1>20, <1>21,
    <1>22, <1>23, <1>24, <1>25, <1>26, <1>27, <1>28, <1>29, <1>30, <1>31,
    <1>32, <1>33, <1>34 DEF Next, JobStep, EStep, MStep, WorkerStep

LEMMA InvariantInit == Init => IInv
<1> SUFFICES ASSUME Init PROVE IInv
  OBVIOUS
<1> USE PipelineAssumption DEF Init, Iters, Shards, Steps, NoFile, TornFile, Exists, Whole
<1>1. TypeOK
  BY DEF TypeOK, PolicyFile, StepFile, Policies, WorkerStates, JobStates
<1>2. JobInv /\ WorkerInv /\ BudgetInv /\ TrainInv /\ DiskInv /\ StepInv
  BY DEF JobInv, Inside, WorkerInv, BudgetInv, TrainInv, DiskInv, StepInv
<1>3. OnPolicy
  BY DEF OnPolicy
<1>4. BudgetCoversAllShards /\ TrackerNamesCompleteCheckpoint
      /\ DoneNamesTheLastSave /\ IterationsInOrder
  BY DEF BudgetCoversAllShards, TrackerNamesCompleteCheckpoint,
         DoneNamesTheLastSave, IterationsInOrder
<1>. QED BY <1>1, <1>2, <1>3, <1>4 DEF IInv

LEMMA Invariant == Spec => []IInv
PROOF BY InvariantInit, InvariantStep, PTL DEF Spec

-----------------------------------------------------------------------------
(* What the code relies on, for every instance. *)

\* Every file and every program variable keeps its type.
THEOREM TypeCorrect == Spec => []TypeOK
<1>1. IInv => TypeOK
  BY DEF IInv
<1>. QED BY <1>1, Invariant, PTL

\* No sequence of kills, dying workers and resubmissions mixes into iteration
\* j anything that does not descend from the export of iteration j-1.
THEOREM AlwaysOnPolicy == Spec => []OnPolicy
<1>1. IInv => OnPolicy
  BY DEF IInv
<1>. QED BY <1>1, Invariant, PTL

\* Although a stage is skipped on its last shard alone, a budget is never
\* computed from fewer than all shards.
THEOREM BudgetsCoverAllShards == Spec => []BudgetCoversAllShards
<1>1. IInv => BudgetCoversAllShards
  BY DEF IInv
<1>. QED BY <1>1, Invariant, PTL

\* The tracker that resume_mode=auto follows never names an incomplete
\* checkpoint.
THEOREM TrackerIsSafeToFollow == Spec => []TrackerNamesCompleteCheckpoint
<1>1. IInv => TrackerNamesCompleteCheckpoint
  BY DEF IInv
<1>. QED BY <1>1, Invariant, PTL

\* A done marker is only ever written for the complete weights of the last
\* save of its iteration, which lies fewer than save_freq steps before the last
\* step and, unless a batch is skipped, is the last step; and no iteration starts
\* before its predecessors are done.
THEOREM DoneIterations == Spec => [](DoneNamesTheLastSave /\ IterationsInOrder)
<1>1. IInv => DoneNamesTheLastSave /\ IterationsInOrder
  BY DEF IInv
<1>. QED BY <1>1, Invariant, PTL

\* A completed iteration is skipped by every later job, so none of its files
\* is ever written again.
THEOREM DoneIterationsAreFrozen == Spec => CompletedIterationsFrozen
<1> DEFINE Frozen ==
      \A j \in Iters : Whole(marker[j]) =>
        /\ pilotsAll'[j] = pilotsAll[j] /\ pilots'[j] = pilots[j]
        /\ rates'[j] = rates[j] /\ grads'[j] = grads[j]
        /\ sizes'[j] = sizes[j] /\ empty'[j] = empty[j]
        /\ ckpt'[j] = ckpt[j] /\ data'[j] = data[j] /\ tracker'[j] = tracker[j]
        /\ export'[j] = export[j] /\ marker'[j] = marker[j]
<1>1. IInv /\ [Next]_vars => [Frozen]_vars
  <2> SUFFICES ASSUME IInv, Next PROVE Frozen
    OBVIOUS
  <2>0. /\ iter \in Iters => (~Inside \/ ~Whole(marker[iter]))
        /\ Inside => iter \in Iters
        /\ \A g \in Shards : Running(g) => Inside
        /\ \A g \in Shards : worker[g] \in WorkerStates
    BY DEF IInv, TypeOK, JobInv, WorkerInv, WorkerStates, Running, Inside
  <2>1. CASE Submit \/ SkipIteration \/ EnterIteration \/ Finish \/ Stage1 \/ Stage2
             \/ AwaitStage1 \/ AwaitStage2 \/ CountBudget \/ StartTrainer
             \/ SkipEmptyBatch \/ TrainerReturns \/ Kill \/ ProgramDies
    BY <2>1 DEF Submit, SkipIteration, EnterIteration, Finish, Stage1, Stage2,
       AwaitStage1, AwaitStage2, Await, CountBudget, StartTrainer, SkipEmptyBatch,
       TrainerReturns, Kill, ProgramDies, eFiles, mFiles
  <2>2. CASE OpenSizes \/ CloseSizes
    BY <2>2, <2>0 DEF OpenSizes, CloseSizes, Goto, Inside, mFiles, IInv, TypeOK, Iters
  <2>3. CASE TrainStep \/ CloseCheckpoint \/ OpenTracker \/ CloseTracker
    BY <2>3, <2>0 DEF TrainStep, CloseCheckpoint, OpenTracker, CloseTracker, Goto,
       Inside, eFiles, IInv, TypeOK, Iters
  <2>4. CASE OpenExport \/ CloseExport \/ OpenMarker \/ CloseMarker
    BY <2>4, <2>0 DEF OpenExport, CloseExport, OpenMarker, CloseMarker, Goto,
       Inside, eFiles, IInv, TypeOK, Iters
  <2>5. ASSUME NEW g \in Shards, WorkerStep(g) \/ WorkerDies(g) PROVE Frozen
    <3>1. Running(g)
      BY <2>5 DEF WorkerStep, WorkerDies, Move, Running, OpenPilotsAll, ClosePilotsAll,
         OpenPilots, ClosePilots, LoadPilots, OpenRates, CloseRates, OpenGrads,
         CloseGrads
    <3>2. iter \in Iters /\ ~Whole(marker[iter])
      BY <3>1, <2>0
    <3>3. CASE WorkerDies(g)
      BY <3>3 DEF WorkerDies, eFiles, mFiles
    <3>4. CASE WorkerStep(g)
      BY <3>4, <3>2 DEF WorkerStep, Move, Put, OpenPilotsAll, ClosePilotsAll,
         OpenPilots, ClosePilots, LoadPilots, OpenRates, CloseRates, OpenGrads,
         CloseGrads, mFiles, IInv, TypeOK, Iters
    <3>. QED BY <2>5, <3>3, <3>4
  <2>. QED BY <2>1, <2>2, <2>3, <2>4, <2>5 DEF Next, JobStep, EStep, MStep
<1>. QED BY <1>1, Invariant, PTL DEF Spec, CompletedIterationsFrozen
===============================================================================
