# A verification project for GVM

GVM trains a language model by expectation maximisation. In each iteration an
E-step samples a few pilot rollouts per prompt, measures how often they are
correct and how large their gradients are, and gives each prompt a rollout budget;
an M-step trains on that many rollouts per prompt with verl, a distributed
reinforcement learning library of which the repository holds an adapted copy. The
trained weights are what the next E-step samples from.

This directory holds TLA+ modules translated from that code, TLC configurations
that check them on small instances, and proofs that TLAPS checks for every value
of the constants. `PROJECT.json` lists the components, the runs, the mutants each
property rejects, the source lines behind each definition, the hazards and the
findings.

To check one model, to check the proofs of one module:

    tlc -config EmPipeline.cfg EmPipeline
    tlapm EmPipelineProofs.tla

## 1. Inventory

### The EM loop (`runs/csf3/03_train_gvm.sbatch`, `em/stage_*.py`)

- State: only files. Per iteration and shard the pilots, rates and gradient norms;
  per iteration the budget file, the checkpoints, the tracker, the merged export
  and the done marker.
- Operations: one background worker per GPU for stage 1 and for stage 2a, each
  followed by a bare `wait`; stage 2b; the trainer; the merge; the marker. A stage
  is skipped when a file of its output exists.
- Interaction: every hand-over is a file, found by its name.
- Hard: the scheduler kills the job at any instant, a worker may die while `wait`
  returns 0, and the same script is submitted again and starts at iteration 1.
- Correct when: an iteration only ever uses what its own policy sampled, a budget
  covers all shards, completed iterations are not touched, resubmitting finishes.

### Sample allocation (`em/stage_2_calc_sample_size.py`, `ray_trainer.py` 1056-1071)

- State: lists of rates and norms per shard, one list of budgets; in the trainer a
  map from a prompt's index to its pilots.
- Operations: cutting the data set into shards, joining the shards' files, two
  filters, shares, rounding with a correction of the sum, reading the pilots back.
- Interaction: three programs agree on the index of a prompt without sending it.
- Hard: shards of unequal size, ties, rounding errors of many prompts, the order of
  file names, a total weight of zero.
- Correct when: the budget is spent exactly, by share, on the right prompt.

### Checkpointing (`ray_trainer.py`, `utils/checkpoint/`)

- State: shard files per role, rank and step, `data.pt`, the tracker file; in memory
  weights, data position, step and the list of folders to rotate.
- Operations: removing old folders, creating one, writing a shard, two barriers,
  writing data and tracker on the driver; finding and loading on start.
- Interaction: all ranks work on one folder; the driver writes after they return.
- Hard: crashes at any file operation, ranks at different points of a save, a second
  attempt that rewrites the folder of a torn save, rotation.
- Correct when: weights are always the result of each batch once and of one history,
  the tracked folder can be loaded, a resumed run finishes.

### Sequence-length balancing (`utils/seqlen_balancing.py`)

- State: the heap of partial partitions of the largest differencing method.
- Operations: sorting the lengths, merging the two states of largest spread, the
  assertions on the result; the number of micro batches.
- Hard: ties broken by sums, then counts, then indices; equal sizes on request.
- Correct when: each row is in one part, parts are as even as promised, assertions
  about the result cannot fire in the middle of training.

### The training step (`RayPPOTrainer.fit`, `protocol.py`, `decorator.py`, `reward.py`, `core_algos.py`)

- State: a `DataProto` of rows with columns that are added at different places, and a
  call of the reward manager that may run in a task of its own.
- Operations: repeating prompts by budget, taking reused pilots off, padding, chunk
  and concat over the ranks, generation, union, pilots appended, balancing, scoring,
  micro batching and its reversal, advantages by prompt, per-prompt weights.
- Interaction: driver, ranks and reward task pass rows by position; ranks end in any
  order, the task at any time or not at all.
- Hard: five permutations or repetitions of the rows, each to be matched by the
  columns that did not travel; sizes that must divide by the ranks; groups that are
  scattered over the batch; a reward call that fails and is made again.
- Correct when: all columns of a row are about one rollout, every rollout is used
  once, every budget leads to a batch the ranks accept, and a prompt's weight does not
  depend on its budget where it should not.

### PRIME reward manager (`workers/reward_manager/prime.py`)

- State: a pool of processes, a coroutine with a timer for each row.
- Operations: submitting, starting, ending, failing and timing out calls; gathering;
  leaving the pool; turning results into scores.
- Hard: late answers against timers, processes that die, evaluations that never end,
  verdicts of several kinds.
- Correct when: a row gets its own verdict or 0 for a reason of its own, and training
  is not held up by one evaluation.

### Calls on a model (`dp_actor.py`, `dp_critic.py`, `megatron_actor.py`, `ulysses.py`, `models/`)

- State: on every rank rows, mini batches, micro batches, packed tokens, gradients.
- Operations: log probabilities, values, scores, updates; splitting by count or by
  tokens; removing padding; slicing over sequence, context or tensor parallel ranks
  and putting together again; scaling losses; optimizer steps.
- Interaction: collective calls inside every pass; all ranks agree on a number of
  micro batches.
- Hard: five reorderings inside each other; numbers that do not divide; key heads
  fewer than ranks; four places where a gradient is scaled.
- Correct when: a row's numbers come from its own tokens, each row weighs the same in
  every optimizer step, and nothing raises that the configuration let through.

### Workers and hybrid engine (`fsdp_workers.py`, `megatron_workers.py`, `sharding_manager/`, `rollout/`)

- State, per rank: parameters, gathered parameters and optimizer on GPU or CPU, the
  engine's weights and cache, three random states, the sequence parallel group,
  sampling parameters.
- Operations: the methods the trainer calls, each a sequence of loading, entering a
  sharding manager, computing, leaving it, offloading.
- Interaction: training and generation share one GPU; ranks meet in collective calls.
- Hard: what one call leaves behind is what the next one starts from, on every rank
  and for every back end; a rank may be several steps ahead of another.
- Correct when: generation uses the weights of the last update, tensor parallel ranks
  draw alike and others apart, memory is where a call needs it, rows come home.

### Worker groups (`single_controller/`)

- State: placement groups, named actors, the register center, the jobs of a cluster.
- Operations: placing, starting rank 0, polling for its address, joining; dispatching
  and collecting by the coordinates of a rank; padding and unpadding.
- Hard: Ray's order of nodes changes from job to job; a center an earlier job left;
  coordinates against the order of ranks.
- Correct when: ranks stay on their nodes, meet at their own job's address, and
  every call returns its rows in their order.

### Megatron weights (`models/mcore/`, `models/*/megatron/checkpoint_utils/`, `megatron_vllm.py`, `legacy_model_merger.py`)

- State: a state dict, and per rank its parameters; files of a checkpoint.
- Operations: loading by broadcast or by fetching, replicating, merging on one rank,
  streaming into vLLM, writing and merging files, reading them back.
- Hard: five pieces of code compute which layer a virtual stage holds and how fused
  tensors are cut; every rank must make the same collective calls in the same order.
- Correct when: ranks hold whole neurons, nothing is lost, every route gives back the
  model, no rank waits for ever.

### Not modelled

| component | why |
|---|---|
| scoring functions beyond their kind of result | string matching without state |
| GAE, whitening, clipped losses, metrics | tensor formulas without grouping or order |
| KL penalty in the reward, greedy baseline of ReMax | off in the EM runs; both are row by row |
| multi-modal models and inputs | the sequence parallel path asserts they are absent |
| FIRE and naive rollouts, `DP_COMPUTE`, `MEGATRON_PP_ONLY`, futures | no caller in the repository |
| Megatron models that keep the padding | cannot be constructed: they build layers without the required `layer_idx` |
| model definitions, datasets, vendored engines, tracking | numerical code, single rows, copies of other projects, output |
| SFT trainer, data preparation, evaluation, converters, `microgvm`, `analysis` | one-shot programs beside the loop |
| the older drivers `em/run_em.sh`, `stage_2_sample.py`, `stage_2_merge_data.py` | replaced by `03_train_gvm.sbatch` |

## 2. Modules and the code they model

| module | models | used by |
|---|---|---|
| `EmPipeline` | the driver script, its workers, the trainer's file hand-over | `EmPipelineProofs` |
| `SampleAllocation` | from shards to budgets and back to prompts | `MCSampleAllocation`, `SampleAllocationProofs` |
| `TrainerCheckpoint` | save, rotate, crash, resume, on every rank | `MCTrainerCheckpoint`, `TrainerCheckpointProofs` |
| `DurableTraining` | abstract: what checkpointing promises | refined by `TrainerCheckpoint` |
| `SeqlenBalance` | `karmarkar_karp` and its callers' assertions | `MCSeqlenBalance`, `ModelCallsProofs` |
| `RolloutBatch` | one step of `fit` from budgets to weighted advantages, the reward managers | `MCRolloutBatch`, `RolloutBatchProofs` |
| `PrimeReward` | `verify` and its process pool | `RolloutBatchProofs` |
| `SequenceParallel` | a forward pass under FSDP and Ulysses (definitions) | `MegatronForward` |
| `MegatronForward` | a forward pass under Megatron (definitions) | `ModelCalls` |
| `ModelCalls` | a call on a model: splits, passes, reversal, gradients, optimizer steps | `MCModelCalls`, `ModelCallsProofs` |
| `WorkerCalls` | the workers' methods as sequences of effects (definitions) | `HybridEngine` |
| `HybridEngine` | the ranks carrying those out, through a run of the trainer | `MCHybridEngine`, `HybridEngineProofs` |
| `WorkerGroup` | start-up, placement, dispatch and collect, jobs in a row | `MCWorkerGroup`, `WorkerGroupProofs` |
| `MegatronLayout` | coordinates, layer maps, shards and merging (definitions) | `MegatronWeights` |
| `MegatronWeights` | loading, streaming, saving and merging by collective calls | `MCMegatronWeights` |
| `FoldTheorems` | no code: facts about sums over finite sets, joined sequences and quotients | `SampleAllocationProofs`, `RolloutBatchProofs`, `ModelCallsProofs`, `WorkerGroupProofs`, `HybridEngineProofs` |

The modules cut the system at its hand-overs. `EmPipeline` has all files but looks
into none: a file is missing, torn or whole, and a whole one is a number.
`SampleAllocation` is what those files hold, `TrainerCheckpoint` opens up the
checkpoints that are one action per save in `EmPipeline`, `RolloutBatch` is one batch
between two saves, and its balancing step may choose every partition that
`SeqlenBalance` proves the code can only choose from. Each remote call of
`RolloutBatch` is opened up three ways: `WorkerGroup` has how its rows are dealt and
collected, `HybridEngine` what a rank does around the computation, `ModelCalls` the
computation itself, over the passes of `SequenceParallel` or `MegatronForward`.
`MegatronWeights` is what entering the Megatron sharding manager, one effect in
`HybridEngine`, does to the weights.

A definition whose name has an underscore followed by a capital, like
`Merged_LargestWithLargest`, is a wrong version of the definition after it. It is
used by no specification; substituted for its neighbour it makes the property named
beside it in `PROJECT.json` fail, which shows that the property depends on that code.

### EmPipeline

Variables named for the files: `pilotsAll`, `pilots`, `rates`, `grads`, `sizes`,
`ckpt`, `tracker`, `export`, `marker`; `pc` is the line the script is at and
`worker[g]` the background process on GPU g. Writing is two actions, because
`open(..., "w")` truncates: `OpenSizes` and `CloseSizes` are
`stage_2_calc_sample_size.py`'s last lines, and so on. `Kill` models the scheduler,
`WorkerDies` a background process that fails and that `wait` does not report,
`ProgramDies` a foreground program that ends the script through `set -e`, `Submit`
the next job, which starts with empty memory at iteration 1.

The trainer counts two things. `gstep` is `global_steps`, `loader` the batches its data
loader has handed out, saved with a checkpoint as `data`. `CloseSizes` chooses from the
constant `EmptyBatches` which batches the budgets leave without a rollout, and keeps it in
`empty` with the budget file, since the budgets and the seeded order of prompts decide it for
every later job. `SkipEmptyBatch` is the `continue` on such a batch: it moves the loader and
neither makes a step nor reaches a save, while `SaveDue` knows the last step by the number of
batches. So the steps an iteration makes are `TrainedSteps`, and `SavedSteps` are those of them that
are ever on disk.

### TrainerCheckpoint and DurableTraining

Weights are the sequence of updates (attempt, batch) they are the result of, so
that weights of two attempts at the same batch differ. Ranks move alone between the
barriers of `save_checkpoint`: `DeleteOldFile`, `MakeFolder`, `OpenShard`,
`CloseShard`; the driver's `SaveReturns`, `OpenData`, `CloseData`, `OpenTracker`,
`CloseTracker` follow. `Resume` is `_load_checkpoint` with `resume_mode=auto`.
`DurableTraining` has three variables: the phase, the updates in memory and the
updates that are durable. The refinement maps durable to the shard of the folder the
tracker names, and, while the tracker is empty between being opened and written, to
that of the newest complete folder. Its `Update` may end the training at once, because `fit` returns
from inside the loop when the last step was not saved (`SaveFreq = 0`, or an
unsaved last step).

### SeqlenBalance

`states_pq` is the heap, as a set of states; a state is a sequence of k sets with
their sums. Ties that Python's heap would break by its layout are broken any way.
`Begin` builds the first states, `Merge` joins the two with the largest spread, the
largest set of one with the smallest of the other, `Finish` makes the checks. The
initial states and steps are called `BalanceInit`, `BalanceNext` and `BalanceSpec`, for one module of proofs
extends both this one and `ModelCalls`.

### SampleAllocation

`Collect` cuts the data set as `stage_1_collect_data.py` does, with the remainder to
the last shard; `Measure` writes rates and norms per shard; `Allocate` joins, filters,
shares out and rounds; `LoadPilots` is the trainer, which sorts file names. Numbers
are exact fractions. Every outcome of the pilots is possible.

### RolloutBatch

A row is a record of columns, each naming the prompt or response it belongs to.
`SpendBudgets` subtracts reused pilots and pads to `n_gpus_per_node`, while `chunk` divides among
the `World` ranks of all nodes; `RankGenerates(r)` and `RankScores(r)`
run once per rank in any order; `Assemble` repeats the metadata, unites and appends the
pilots; `Balance` reorders; `Union` adds the log probabilities. An exception of
`chunk` or of the micro batching is `Fail`, after which the step stops.
`StartReward` gives the manager the rows, `RewardReturns` and `RewardRaises` are the
two attempts of `compute_reward`; with `launch_reward_fn_async` they interleave with the
ranks' scoring and `ComputeAdvantage` waits for them. Scores stay symbolic (which
response they are of) until `ComputeAdvantage` chooses which responses were correct.
A score is counted in units of 1 / `buffer_len`, because DAPO's penalty for length takes
`penalty_factor` of them off for every token too many. Advantages are exact fractions; GRPO's division by the group's standard deviation and
the common factor that `compute_gvm_reweight` scales all weights by are left out,
since neither changes how a prompt's rows compare. The column `acc` that two managers write into the data
is read by nothing and left out, as are the scores of a reward model (`use_rm`), which the
EM runs do not have.

### PrimeReward

`HandOver`, `Start`, `End` and `Break` are the process pool, `Answer` and `TimeOut` the
two ways `single_compute_score` ends, `Gather` and `Close` the body of
`parallel_compute_score_async`. The pool and the event loop belong to Python and are
modelled from how this code uses them (its names differ from `RolloutBatch`'s, for one
module of proofs extends both): calls wait in a queue one longer than the
number of processes, a call in it can no longer be cancelled, and a process that dies
fails every call. All timers are set when the rows are submitted, so one flag stands
for them.

### SequenceParallel, MegatronForward and ModelCalls

A token is a row and a column; what a token's number is, is abstracted to where it
came from: for every layer and head, the key head and the tokens it saw, with their
positions. `SequenceParallel` pads, slices, exchanges sequence for heads, attends,
exchanges back and gathers, as `ulysses.py` and `monkey_patch.py` do;
`MegatronForward` packs rows for context parallel ranks, or gathers and scatters over
tensor parallel ranks and hands over between stages and virtual chunks. `OwnNumber`
says, without ranks, what a number should be.

`ModelCalls` chooses a kind of call, a setting and a batch. `DriverAccepts`,
`Normalised` and `FsdpAccepts` are the checks and divisions of `_validate_config` and
of the workers' constructors; a setting they refuse ends there. `SplitMinis` and
`Split` cut the rows (`num_micro_batches` agreed by the largest need), `PassTogether`
is a pass of all FSDP ranks, `PassAlone` of one Megatron rank, `OptimizerStep` clips
and steps or, on a gradient that is not finite, does not, `Return` reverts the order.
A gradient is the weight of each row in it. Losses are the "seq-mean" ones, where a
row's weight is defined without its length. `Dynamic` says whether rows are split by their
tokens: under FSDP where `use_dynamic_bsz` asks for it, under Megatron never, where the
option only spares the sizes the driver's checks. `ModelCallsAssumption` says which settings and
batches are meant: sizes that are positive but for the micro batch sizes, which may be unset, and as many rows
on each rank.

### WorkerCalls and HybridEngine

`WorkerCalls` gives each method as a sequence of effects, in the order of the code and
with its conditions on the configuration: `Program(call)`. `HybridEngine` lets each rank
take the next effect of its program; effects with communication need all ranks of a
group to be at them. `Schedule` is the order of the trainer's calls: resuming,
validation, steps, saving.

### WorkerGroup

`CreatePool`, `StartWorker`, `Register`, `Poll`, `Join` and `ComeUp` are
`ResourcePoolManager`, `RayWorkerGroup._init_with_resource_pool` and `Worker.__init__`;
`Dispatch`, `Work` and `Collect` one call, in the mode its method is registered with, on a batch
whose size is what the trainer gives it (`Sizes`): a multiple of one node's GPUs, or for validation any;
`NextJob` kills a job anywhere and starts another on the same cluster. All roles share
one pool and one process per GPU, as `TaskRunner` maps them, and every call is blocking.

### MegatronLayout and MegatronWeights

A tensor is the sequence of its blocks: heads, rows of the vocabulary, neurons. Three
families of code (`impl`: Megatron core, and the older Llama and Qwen2 loaders and
savers) have their own layer maps and their own way to cut fused tensors. A rank has a
list of collective calls to make, `todo`; a call happens when every rank of its group is
at it, so a mismatch shows as a deadlock, which this run checks for.

## 3. Runs

| run | configuration | shows |
|---|---|---|
| `em` | `EmPipeline` | no kill, death or resubmission mixes policies, loses a shard, misnames a checkpoint or touches a done iteration, whichever batches are skipped; a done marker names the last save; resubmitting finishes unless the disk was left in one of the wedged shapes |
| `ckpt` | `TrainerCheckpoint` | one history on all ranks, tracked folder loadable, bounded loss and the last step saved, refinement of `DurableTraining`, termination |
| `balance` | `SeqlenBalance` | items once, equal sizes, one sequence of balance |
| `allocation` | `SampleAllocation` | the budget is spent exactly, by share, on the right prompts |
| `batch` | `RolloutBatch` | rows stay together with their scores and rollouts are used once, with GRPO, RLOO, RAFT, reused pilots, every reward manager, at once or beside, on one node or two; only a batch that two nodes cannot share is refused without pilots; prompts count once |
| `batch_covered` | `RolloutBatchCovered` | finding: prompts covered by their pilots are dropped |
| `prime` | `PrimeReward` | each row its own score; waits are bounded |
| `calls` | `ModelCalls` | numbers belong to their rows, steps weigh rows evenly, only rows that do not fit raise |
| `engine` | `HybridEngine` | weights, memory, random states, rows and sampling parameters are where each call needs them; no deadlock |
| `workers` | `WorkerGroup` | ranks keep their nodes, meet at their own center, return rows in order or, on several nodes, refuse a batch that does not go round; no deadlock |
| `workers_stages` | `WorkerGroupStages` | finding: generation over pipeline stages returns rows in another order |
| `weights` | `MegatronWeights` | whole neurons, nothing lost, every route gives back the model, no deadlock |

Some scenarios are values of a variable that `Init` chooses and no step changes, so
that one run covers them side by side: `empty` in `TrainerCheckpoint`, `config` or
`setting` in most others, the list of lengths in `SeqlenBalance`.

### Bounds, and why they are enough

- `EmPipeline`: two iterations, because what can go wrong is between an iteration
  and its successor; three shards, because the skip tests look at the last shard and a
  first and a middle one are the other cases; four batches saved every second step, of which
  none is empty (the last step is saved for being last), the second is (the
  third step is the last and is not saved), or all but the first are (nothing is
  saved and nothing can be merged); two kills, so that the job that repairs a kill
  is killed too; one program failure.
- `TrainerCheckpoint`: two ranks are all that barriers can separate; both roles; five
  batches of which none or the second is empty, saved every second step and for being
  last; two folders kept, so that rotation happens during the third save; two crashes,
  the second during recovery from the first.
- `SeqlenBalance`: every list of up to six lengths from {1, 2, 5}, for up to three
  parts: ties, lists shorter than the parts and uneven counts all occur.
- `SampleAllocation`: up to four prompts on three shards, so that shards differ in size
  and may be empty; two pilots, so that a prompt has none, some or all correct; two
  norms; budgets below, at and above the pilots drawn.
- `RolloutBatch`: two prompts, budgets up to three, two or three ranks on one node, four on
  two: sums of budgets that divide by a node's GPUs, by the ranks or by neither, pilots
  below, at and above a budget; a buffer of two tokens, so that a long correct response scores
  one half; the
  correct responses are any union of a prompt's even and odd ones; data sources that
  score with a number, with a dict, and one of each.
- `PrimeReward`: three rows on one process: one row runs, others wait in the queue and
  behind it.
- `ModelCalls`: two to four rows per rank, prompts of up to three tokens, responses of up
  to two, one to four sequence parallel ranks with one, two or four key heads, so that
  tokens, rows and heads divide by the ranks or do not; mini batches that are full and
  short; two layers, four where stages have virtual chunks; a maximal number of tokens
  below the width of the grid, and a micro batch size left unset under Megatron.
- `HybridEngine`: two ranks, in one setting four; two training steps, so that what the
  first leaves is what the second finds; every back end with each tensor parallel size
  and with offloading on and off, in the combinations `MCHybridEngine` lists.
- `WorkerGroup`: three nodes, two jobs, layouts of FSDP and Megatron that cut four GPUs
  in every pair of directions, and one node with two GPUs; training batches that are multiples
  of a node's GPUs up to twice the ranks, and one, three or six rows where padding is allowed.
- `MegatronWeights`: up to four tensor parallel ranks, two stages with two virtual
  stages, groups as many as, fewer than and more than ranks.

Settings the code accepts but cannot run are left out of the instances; section 5
lists them.

### Fairness and deadlock

- `EmPipeline`: a script or worker that can take its next step
  eventually does, and a job that ended is submitted again, which is what the script's
  header asks the user to do. Kills and failures are bounded and never fair. A batch
  that makes the trainer raise on every attempt is `RolloutBatch`'s subject and is not among them.
- `TrainerCheckpoint`: the driver and each rank make progress, and a crashed run is
  started again. A rank's steps need no other rank except at the barriers, which NCCL
  provides.
- `PrimeReward`: timers run out, the event loop runs every callback that is due, the
  pool hands over and starts calls, and an evaluation that computes a verdict or an
  exception gets there. An evaluation that never ends has no fairness, nor has the
  death of a process.
- `MegatronWeights`: weak fairness of the next step: a collective call whose ranks have
  all come takes place.

`weights`, `engine`, `workers` and `calls` check deadlock: ranks that wait for each other
would show as one, and a finished behaviour has an explicit stuttering step. The other
models stop where their program returns or raises; that they do not stop too early is
what the liveness properties and `BatchGetsThrough` say.

## 4. Proofs

Every theorem is for all values of the constants that its module's assumption admits;
nothing bounds a size.

| module | assumes |
|---|---|
| `EmPipelineProofs` | at least one iteration, shard and step, a positive save frequency; any batches left empty; any number of kills and failures |
| `TrainerCheckpointProofs` | at least one rank and batch; any save frequency, none included, any number of folders kept, any number of crashes |
| `ModelCallsProofs` | `BalanceAssumption`: the lists are of naturals, the numbers of parts are positive; `ModelCallsAssumption`: settings of positive sizes, an unset micro batch size being 0, and a unit of weight no smaller than a mini batch; at least one rank, at least one row on each, as many on each, and no row without a token |
| `SampleAllocationProofs` | at least one shard, prompt and pilot; natural norms and budgets, a positive weight for every number of correct pilots |
| `RolloutBatchProofs` | `RolloutAssumption`: at least one prompt, node, GPU and response, any penalty for length over a buffer of at least one token, a budget of tokens that the longest response fits, managers, estimators and reweightings that exist; `PrimeAssumption`: at least one row and one process |
| `WorkerGroupProofs` | nodes are numbers, for their addresses are compared; a setting has at least one node and GPU, and its group sizes multiply to the GPUs; any sizes of validation batches |
| `HybridEngineProofs` | `SettingsAssumption`: at least one rank, positive group sizes that divide the ranks, at least one response per prompt, engines and model names that exist |

Some theorems have a hypothesis of their own, which is a fact about the code rather
than about the proof. `TrackedIsLoadable` and the refinement need `MaxKeep # 1`, because
with one folder kept the code deletes the tracked one before it writes the next
(section 5). `AsAsked` needs that validation is greedy where the engine is SGLang, because
`sglang_rollout.py` looks at `do_sample` and at no validation parameter. `PilotsAreTheirOwn`
and the type invariant of `SampleAllocation` need `World <= 10`, because from eleven shards on
the names do not sort as the numbers do; the budgets themselves need no such bound.

### EmPipelineProofs

For any number of iterations, shards, steps, save frequency, kills and failures:
`TypeCorrect`, `AlwaysOnPolicy`, `BudgetsCoverAllShards`, `TrackerIsSafeToFollow`,
`DoneIterations` and the action property `DoneIterationsAreFrozen`.

None of these is inductive. `AlwaysOnPolicy` speaks of files, but the next step writes
what a process holds in memory, and who may write depends on the line the script is
at. `IInv` adds six parts: `JobInv` (inside an iteration its predecessors are done,
it is not, and the policy in memory is its predecessor's export), `WorkerInv` (a
worker runs only during its stage, and its stage's output is not complete before
it), `BudgetInv` (from the budget stage on all rates and norms are whole),
`TrainInv` (during training the model descends from the policy, folders that are
complete stay so, and what the tracker names lies behind the current step), `DiskInv` and
`StepInv`. The last two are for `DoneIterations`: a step's number counts the batches up to the
loader's position that were not empty (`Made`), in memory and, by `data`, on disk, also over resumptions;
there are folders of due steps only, and all that lie behind the tracker or the running trainer are
complete (`SavedUpTo`). So when the loader is exhausted the highest folder is the last save
(`LastDirIsLastSave`), and as two multiples of the save frequency are no further apart, it is
fewer than `SaveFreq` steps from the end (`LastSaveIsClose`). The step
lemma has one case per action; frame lemmas say that each part depends on few
variables, so that an action that leaves them alone is done by citing one. Frozenness
follows because every action that writes is inside the current iteration, which
`JobInv` says is not done.

### TrainerCheckpointProofs

For any number of ranks, batches and crashes: `TypeCorrect`, `RanksAlwaysAgree`,
`TrackedIsLoadable`, `LossIsBounded` and the refinement `DurableTrainingIsImplemented`.

A checkpoint becomes the one to resume from long after its shards were written, and a
crash can leave the folders of several attempts behind, so `IInv` says what is true of
every file that a later step may rely on. `MemoryInv`: what a rank holds is the history of
the batches the loader handed out, the same on all of them. `TrackedInv`: the
folder the tracker names holds one such history in all shards it still has, as old as its
`data.pt`. `AheadInv`: no folder lies further ahead than the first step after the tracked
one at which a save is due, so the newest complete folder is the tracked one or the one
being written; this is what makes the refinement mapping right while the tracker is
torn. `WrittenInv`: what the running save has written so far, rank by rank and role by
role. `KeepInv`: the paths a rank remembers end with the tracked folder, or with the one
of the running save, so rotation never removes the tracked folder unless one is kept.
`LossInv`: how far the tracker may be behind. The refinement then maps every action to
one of `DurableTraining` or to a stutter: only closing the tracker makes anything durable.
With saving off there is nothing durable and `LossIsBounded` claims nothing, as the code
promises nothing.

### ModelCallsProofs

One module for `SeqlenBalance` and for `ModelCalls`, whose choice of micro batches it is.
For every list of lengths and number of parts: `BalanceTypeCorrect`, `RowsOnceEach`,
`PartitionsEven` and `BalancedWithinOneSequence`.

The invariant `BalanceInv` is about every state of the heap, not only about the result: its
sets are in decreasing order of their sums (`SumsDecrease`), its largest sum exceeds
its smallest by no more than the longest sequence (`WithinOneSequence`), no item is in
two sets or two states (`PairwiseApart`), and with equal sizes the sets have equally
many items (`EvenStates`); every item is in some set (`Covered`), and a set's recorded sum
is that of its items (`SumsAreTheItems`). `WithinOneSequence` is where the largest differencing method
matters: joining the largest set of one state with the smallest of the other leaves a
spread no larger than the larger of the two spreads, so the bound of the first states,
which hold one sequence per set, survives every merge; this needs `SumsDecrease`.
`EvenStates` needs `PairwiseApart`, since sets that share an item would count it once
after they are joined. The first states need that the sorted list's places are a
permutation, which is a counting argument with the library's theorems on cardinality.
`RowsOnceEach` is `PairwiseApart` and `Covered` read as a count, together with the sums; that
joining two sets adds their sums is again only true because they are apart.

`ReturnedPartitionsAreChoices` joins the two models: whatever partition the differencing
method returns for the rows of a mini batch, each part put in order, is one of the
`OrderedPartitions` that `Split` chooses from. So what is proved of `ModelCalls` for every such
choice holds for the one the code makes.

For every setting and batch: `StepsWeighAllRows` (`StepsWeighRowsEvenly`) and `RaisesOnlyForRows`
(`RaisesOnlyIfRowsDoNotFit`), with `CallsHold` for the invariant both need. `CallsInv` has these parts.

- `SettingIsSound`: what the driver and the workers let through divides as the loops expect,
  the mini batch into micro batches and the rows into ranks.
- `MinisLeft`: the mini batches a rank has left are the ones from `MiniAt(Len(steps) + 1)` on, epoch after
  epoch, so the number of optimizer steps says where all ranks are.
- `MicrosLeft`: the micro batches left are disjoint parts of the current mini batch, and of full size
  where sizes are fixed and the mini batch is full.
- `Weights`: a row of the current mini batch whose micro batch has passed has the weight its loss
  gives it, any other row has 0; and with fixed sizes the weights so far together with the shares of the
  micro batches left are at most the rank's share of the unit. The second half is what bounds a short mini
  batch, whose micro batches need not be equal.
- `StepsAreEven`: the property of every step taken, by its number.
- `Shapes` and `Settled`: types, and what holds before the passes begin and after they end.

The weight of a row is a product of four factors, two of which divide: the sum over the sequence
parallel ranks, which `Gather` scales up, and the mean over all ranks. `WeightOfARow` shows that they
cancel to `1 / (mini * ranks)` (`CommonFactor`), whatever the micro batch's size; `ChopSeparates` and `PartitionsSeparate`,
that every row of a mini batch is in exactly one micro batch. A
call of FSDP raises only below the width of the grid because a row's tokens then fit a micro batch, so
that a rank's need is at most its rows (`NeedFits`), and, since ranks have equally many rows in a mini
batch, so is the largest need of any (`AgreedFits`). A call of Megatron raises in packing only for a row with fewer
tokens than there are pieces (`FirstPieceIsFull`, `PackFits`).

### FoldTheorems

The community modules define a sum by recursion over the set, so nothing about one is
immediate. What the proofs use (the sum of a union, of a multiple, of a constant, that
one element may be taken out first) is proved here by induction over a finite set. The
library states that induction with a predicate as a parameter, which the installed provers
cannot instantiate; here it is about a set of subsets instead (`AllSubsets`), and follows
from the well-foundedness of the naturals.

`FlattenSeq` joins a sequence of sequences by recursion too. `EntriesOfFlatten` gives the joined
sequence by position: if `off[i]` is the length of the first i together, entry j of the
i-th is at `off[i - 1] + j`. `QuotientAndRemainder` and `GroupInRange` are what group and place
of a rank need: the provers know `\div` and `%` of numbers, not of products. `OneTo` and `LargestOf` are
the size of an interval from 1 and that a finite set of numbers has a largest.

### SampleAllocationProofs

For every data set, number of shards, outcome of the pilots, norms, weights, filters and
budget: `TheBudgetIsSpent`, `QuotaIsKept`, and with at most ten shards `PilotsAreTheirOwn` and
`TypeCorrect`.

`Inv` says that shard k holds the prompts from `one_num_share * k` on, one entry each, with
rates and norms of the same length, and that the sizes are a result of
`float_to_int_preserve_sum` on the shares. The rest is about operators.

- `WholeNumbersFit` is the rounding. Each residual is at most half a unit, so with n
  entries the error is at most n / 2 and there are always enough entries to correct. The error
  is the sum of the residuals: were one of the largest residuals that are chosen not
  positive, the residuals of all others would not be either, and fewer entries than the error,
  each at most a half, could not add up to it (`LargestArePositive`, `SmallestAreNegative`). So
  the correction moves a number towards its exact value, past it by less than a
  unit, never below 0, and a share of 0 keeps 0.
- `JoinedShards` is the join: entry j of shard k is at place `one_num_share * k + j` of the joined
  list, whatever the shards hold, which is `EntriesOfFlatten` at the cuts of the shards. `ShardOfPrompt` and `ShardsApart` say that each place is
  reached from one shard only, so that `Share`, which looks a prompt up by its name, is the entry
  the program computes by position (`ShareByIndex`).
- `FilesInOrder` and `OffsetOfFile` are the trainer: with at most ten names the sorted order is
  that of the numbers, and the offset it counts up is the one the shards were cut at.

### RolloutBatchProofs

For any number of prompts and ranks, any budgets, lengths and pilots, every manager,
estimator and reweighting, and any order in which ranks and the reward return:
`RowsOfOneRollout`, `RolloutsOnce`, `GetsThrough` and `PromptsCountOnce`.

The four properties speak of the batch late in the step; the code that could break
them runs before, on lists whose order differs from step to step. The invariant `IInv`
therefore does not follow positions. It fixes, from the budgets on, which responses the
batch has to have (`Wanted`: n to each copy of a prompt, numbered in the order of the copies, and
the pilots set aside), and `BatchInv` says that the column of responses is a bijection
between the places of the batch and these (`IsBatch`). A reordering keeps that whatever it is
(`Reordered`), so nothing has to be known of the partitions of the balancing but what
`SeqlenBalance` proves. The lists that travel beside the batch are tied to its order:
`GenerateInv` and `ScoreInv` say that a rank which has returned has returned the rows of its
own chunk in their order, `RewardInv` that the manager's rows and its result are those of the
batch, during both attempts and beside the other calls; `AdvantageInv` and `TrainedInv` that they
have joined it.

- That the assembled rows are such a batch is `AssembledBatch`. Copies of a prompt are
  neighbours (`CopiesShape`), a rank answers its chunk of them (`RankAnswers`), so joined by rank the
  responses are numbered through (`AllAnswers`), and `repeat` gives the k-th response
  the metadata of the copy it answers (`FreshShape`); both sides number by the same division, which
  `CopyOfResponse` and `OwnerOf` work out.
- `EachOnce` counts: the places whose response is one of a range of numbers are as many as
  the range, because the batch is a bijection.
- `Scored` is the log probabilities: what lists the micro batches is a permutation
  (`ListedOnce`), so reverting it puts every number back to its row, while the entropies, which are
  not reverted, stay with theirs only if there is one micro batch (`ListedOfOne`).
- With `PaddedTotal` the rows are the budgets rounded up to a node's GPUs (`RoundedUp`). These divide among
  the ranks of one node; on several, `GetsThrough` says that a batch is refused at its
  first call or divides at all of them. A rank never needs more micro batches than it has rows, because no response is longer than a micro batch (`MicroBatchesFit`). With
  sources that score alike a column of extra information is as long as the batch
  (`DictColumnOK`). So no call but the reward's can fail: that is `GetsThrough`.
- `PromptsCountOnce` is about sums over a prompt's rows: under RAFT each advantage is zero or a score of
  at most one, and there are as many that are not zero as the weight divides by, so the total lies
  between zero and one and is one where no penalty applies (`RaftCounts`);
  differences from the mean of a group, or of its other rows, cancel (`CentredCancel`).

The PRIME manager scores the rows of such a batch in a pool of processes. For any number of
rows and processes, with timeouts, exceptions and dying processes: `PrimeTypeCorrect` and
`OwnScores`, in the last sections of the module. The scores are made from the results only after the
last coroutine ended, so `ResultInv` says of every result, while others are still
running, what it says about its row and why it may be none; `ScoresInv` that `Close`
finds a result for every row. That the count of ended coroutines reaches the number of
rows only when all of them ended is a cardinality argument.

### WorkerGroupProofs

For any pool, placement and sequence of jobs: `RanksKeepTheirNodes` and `RanksMeet`; for any
sizes of the groups and of a batch: `RowsReturn`.

`PlacedInv` gives every started worker its group, node and bundle in closed form, from its
rank; with it, two workers on one bundle would have one rank. `HomeInv` says the same of the
placement an earlier job left. The theorem then compares two lists of nodes that
Ray filled in different orders: at every place of the sorted lists the nodes agree,
because as many groups are on each node, which is proved by counting the groups up to
a node (`SameNodeAtEveryPlace`). `RendezvousInv` says that a center with this job's name
was made by this job's rank 0; older centers have older names, which is why names are
drawn anew.

`CallInv` follows a call: while it runs, every worker has the chunk of its mode, and has
answered with just this chunk or not yet, because its partners were sent the same
(`PartnersAgree`). What is left is arithmetic on ranks.

- `ComputeLayout` and `PpAsDpLayout` list the ranks whose answers are taken. Under
  `MEGATRON_COMPUTE_PROTO` they are b * (d * (p - 1) + k) for the replicas k, b being a
  replica's tensor and context ranks; under `MEGATRON_PP_AS_DP_PROTO` the multiples of the tensor
  size, and these are numbered as their chunks are if at most one of the context,
  data and pipeline sizes is more than one. That is the exception in `RowsComeBack`,
  where it is the negation of `Stages`; run `workers_stages` shows what happens without it.
- So the answers come in the order of the chunks (`CollectedInOrder`), and the joined list has the
  batch's row at each place (`FlattenSelected`, `ConcatInOrder`).
- A validation batch is a multiple of the chunks after `pad_dataproto_to_divisor` (`PaddedRows`), and
  so is a training batch that is a multiple of the ranks (`BatchDivides`), which on one node
  each is (`OneNodeDivides`). A batch is refused only otherwise, and what `Unpad` leaves of the
  answers are the rows (`AnswerIsTheRows`).

### HybridEngineProofs

For every setting: `TrainedWeights`, `StreamsApart`, `InItsPlace`, `TheMemory`, `AsAsked`,
`RowsAreHome`.

A rank runs some forty kinds of effects in programs that depend on the setting, and a
property like `GenerationHasTheMemory` depends on all that ran before. The proof therefore
follows a rank as one does a sequential program. An assertion is a set of views, a view
being what one rank sees of its own memory, versions, engine, random states and group;
each effect has a rule that takes an assertion to another, provided what the five
theorems ask at that effect holds there (`Fit`); a program leads from P to Q if a chain
of rules does (`Leads`). One lemma per helper of `WorkerCalls` (loading, entering a
manager, waking up, ...) and one per worker call gives `CallLeads`: every method takes a
rank from rest to rest. `SchedulePlan` does the same one level up, for the trainer's
order of calls; a training step leads from "going" to "going", so that the number of steps,
two in the model, does not matter.

The invariant is `Typed`, `StageInv` (what is left of the schedule is a plan, and from where
each rank is, what is left of its call leads to rest) and `SameDraws` (ranks that generate
together have the same generation stream, running or put aside). `MovesKeep` and
`DispatchKeeps` show that every action keeps it: all of them move a set of ranks by their
next effect, or hand out the next call. The five properties are read off `Fit` at the head
of each rank's program. Only `SameDraws` speaks of two ranks.

The rows are a second invariant, `RowsInv`, for they do depend on other ranks. Between two
steps they are in one of a few forms (`Forms`): the prompts of one rank or of a whole group, or
the Megatron rank's share of its group's, or none, each with or without results. `Shape` says
which rows these are on which rank, as a stretch of all prompts numbered through
(`Block`), with the copies of each next to each other. `FormStep` is the form each effect needs and the
form it gives, `Brings` a chain of these as before, and `CallBrings` takes every method from the
prompts to what it returns. `RowsInv` says that every rank's rows have some form, and that
what is left of its call brings this form to the result. That a group has gathered the same forms
when it meets needs no argument about where the other ranks are: each of them is at the same
effect, and the effect names the form. The work is in the data (`GatherPlain`, `KeepShape`,
`JoinShape`, `AnsweredShape`): a group's blocks joined in the order of ranks are one block,
and the n-th part of a block of answers is the block of the n-th rank's answers.

### What is only model-checked

- Liveness in all modules (`RestartedRunFinishes`, `ResubmitFinishesUnlessWedged` and the
  others), and that nothing deadlocks: `ENABLED` is beyond the provers.
- `ResultsAreTheRowsOwn` of `ModelCalls`: a forward pass is defined layer by layer over tokens that are
  packed, exchanged and gathered, and its numbers are read off by position after every layer.
- The three properties of `MegatronWeights`, whose layouts and shards come from finite tables.

## 5. Findings

Two are runs that TLC refutes, quoting what the repository says; `PROJECT.json` has
the lines.

1. `batch_covered`: a prompt whose pilots cover its budget is not trained on.
2. `workers_stages`: with pipeline stages and replicas generation returns the rows in
   another order than it was given them.

The models also contain behaviour that a property has to leave out of its claim, or
that an instance has to exclude; the property that passes says what remains true.

### In the EM loop and its files

- A kill between two shards' writes can leave a run that no resubmission finishes,
  although `03_train_gvm.sbatch:22-23` calls it safe to resubmit: stages are skipped when
  the *last* shard's file exists (:110). `Wedged` names all such shapes, and
  `ResubmitFinishesUnlessWedged` claims the rest.
- `ray_trainer.py:1063` sorts shard files by name, the driver joins them by number
  (:164-165): from eleven shards on pilots go to other prompts. `SampleAllocation` is
  checked with fewer.
- The tracker is rewritten in place, and a kill in between leaves it empty, after which
  every later attempt raises: `RestartedRunFinishes` claims nothing for that case.
- With `max_ckpt_to_keep=1` the tracked folder is deleted before the new one is
  written: `TrackedCheckpointLoadable` holds from two on.
- A batch whose budgets are all zero is skipped without advancing `global_steps`
  (`ray_trainer.py:1152`), while the last step is known by the number of batches (:1186), so it is
  never saved. An earlier step is then merged and the iteration marked done, although
  `03_train_gvm.sbatch:89-90` says the next policy is the export of "the previous iteration's last step".
  `DoneNamesTheLastSave` and `BoundedLoss` claim the last step for runs without such a batch, and
  fewer than `save_freq` lost steps for all. If the budgets leave so few steps that none is
  saved, no job can finish: `Wedged` has it.
- After a resumption the epoch loop starts at epoch 0 with the restored data position; with
  several epochs the run ends by `total_training_steps` alone. The EM runs have one.

### In the training step

- With pilot reuse the padding aligns fresh rows and pilots together
  (`ray_trainer.py:1153-1156`, "the per-rank chunking sees both"), but generation chunks the
  fresh rows alone and may refuse them (`protocol.py:615`); and a batch whose
  budgets are all covered has nothing to stack. `BatchGetsThrough` is claimed without
  reuse.
- DAPO's penalty for length is a fraction (`dapo.py:107-113`), so a response that
  `compute_gvm_reweight` counts as accepted (`ray_trainer.py:286`) may have an advantage below one, and a
  solved prompt's total is below the 1 that its docstring states (:253-255).
  `EveryPromptCountsOnce` claims more than zero and at most one, and one where no penalty applies.
- The padding is to `trainer.n_gpus_per_node` (`ray_trainer.py:1118`, 1125, 1156), the chunking
  among the ranks of all nodes (`protocol.py:615`): on several nodes a batch is refused whenever its
  rows do not go round. `BatchGetsThrough` and `RowsComeBack` have it as an exception. The
  run script has one node.
- Data sources of which some score with a dict leave lists of extra information
  shorter than the batch, and the dispatch of the update asserts: `BatchGetsThrough` asks
  for sources that score alike.
- PRIME's result has no `reward_extra_info`, so `compute_reward` takes its KeyError for a
  failure and scores every batch twice.
- With dynamic micro batches the entropies come back in another order than the rows:
  `RowsStayTogether` claims them for one micro batch only.
- GRPO leaves a group of one its raw score, although the comment of `compute_gvm_reweight`
  (`ray_trainer.py:257`) calls GRPO's advantages mean-centred: `EveryPromptCountsOnce` claims
  centred ones from two rows on. The weights make a prompt count once in rollouts; under
  token-mean its share still grows with the length of its responses. With a KL penalty in
  the reward, which is off, a rejected rollout could get a positive RAFT advantage.
- A pilot's row ends in the pad token where a generated one has its end token.
- The batch manager needs a custom reward function and the DAPO manager its
  `overlong_buffer_cfg`, or both attempts raise.
- One verdict that is a dict sets every score of PRIME's batch to 0: `EachRowItsOwnScore`
  has it as an exception. One evaluation without end keeps `verify` from returning: the
  branch that would kill the processes is not reached (`prime.py:53`).

### In the calls on a model

- `dp_critic.compute_values` masks the values before it reverts the dynamic order
  (:174-180), with the mask of other rows: `ResultsAreTheRowsOwn` leaves that case out.
- `update_critic` under FSDP takes the response mask one token to the left, under Megatron
  it does not.
- Megatron's reward model concatenates a list of dicts, which always raises.
- The driver accepts batch sizes that a worker then refuses (mini batch 14, micro batch 7,
  two ranks); an EM batch, whose number of rows varies, may not divide into Megatron's mini
  or micro batches. FSDP refuses when it is configured
  (`FsdpAccepts`), Megatron in the call; `RaisesOnlyIfRowsDoNotFit` bounds the latter: an
  FSDP call raises only where `max_token_len` is below the width of the grid, which
  `rearrange_micro_batches` asserts, and a Megatron `log_prob` or `values` call only when no micro batch
  size is set, its rows are no multiple of it, or a row is shorter than the pieces of its ranks.
- `use_dynamic_bsz` spares a Megatron configuration the driver's checks of its sizes, though nothing
  in the Megatron workers reads it: an unset micro batch size then fails in the call.
- Under token-mean, the default, a token's weight depends on the micro batch it is packed
  in, although `runs/csf3/README.md:101-103` says dynamic sizes keep the objective.
- `pack_seqs=False` is never used; the Llama and Qwen2 models without padding are reached
  only through the registry; their twins are the same code.

### In the workers

- Hugging Face generation with offloaded parameters computes on parameters just moved to
  the CPU; it ignores `rollout.n`, and it and SGLang ignore `val_kwargs`.
- New vLLM under Megatron with a tensor size strictly between one and the trainer's gives
  members of one inference group different prompts; the old one sizes its lists by another
  group than it gathers over and raises.
- `compute_values` leaves the critic's root gathered until its update frees it.
- FIRE sampling with several responses extends a prompt by the first token of another.
- Old vLLM holds its cache until after the first generation even with `free_cache_engine`.
- The random states of generation are not saved in checkpoints.
- The critic's own Megatron layout is ignored where roles share a process.
- An exception in a worker ends the job: nothing recovers within a process.

### In Megatron's weights

- A tied Qwen2 keeps a fresh output layer on the last stage (`qwen2_loader_depracated.py:446`
  against `modeling_qwen2_megatron.py:610`): `NothingIsLost` leaves it out (`HeadIsNew`).
- The older savers ask for an attribute `reward_weight` that no model has, so a value
  head is never merged.
- `scripts/model_merger.py` looks for `mp_rank_dd_ddd` directories that no manager writes.
- Ranks that are not the source load meta tensors; several context parallel ranks write
  the same file, with the same contents; the registry maps every architecture to the
  Megatron core loader.
- `converter_hf_to_mcore.py` splits the fused heads of Qwen2-MoE wrongly when key heads
  are fewer than query heads (not modelled).

## 6. Plan

Done, in this order: `EmPipeline` with its proofs, `TrainerCheckpoint` with
`DurableTraining`, `SeqlenBalance` with its proofs, `SampleAllocation`, `RolloutBatch`,
`PrimeReward`, `MegatronWeights`, `HybridEngine`, `WorkerGroup`, `ModelCalls`, and the
reward and the advantages in `RolloutBatch`.

The safety properties of `EmPipeline`, of `TrainerCheckpoint` with its refinement, of `PrimeReward`,
`HybridEngine`, `WorkerGroup`, `SeqlenBalance`, `SampleAllocation` and `RolloutBatch`, and two
of the three of `ModelCalls` are proved.

What is left to prove: `ResultsAreTheRowsOwn`, layer by layer, first for a pass without
sequence parallelism; and the three properties of `MegatronWeights`, which need facts about its
layouts by arithmetic instead of by table.

Then, the models: an abstract EM loop that `EmPipeline` implements and whose iteration
`SampleAllocation` fills in; several epochs in `TrainerCheckpoint`.
