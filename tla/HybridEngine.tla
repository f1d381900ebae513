---------------------------- MODULE HybridEngine ----------------------------
(***************************************************************************)
(* Training and generation on the same GPUs. Each rank is one process that *)
(* holds an actor, perhaps a reference, critic and reward model, and the   *)
(* generation engine. The trainer calls them one after another, on all     *)
(* ranks; the ranks run through the calls at their own pace and meet only  *)
(* in collective operations. Between calls weights, memory, random state,  *)
(* sampling parameters and rows have to be where the next call needs them. *)
(***************************************************************************)
EXTENDS WorkerCalls, FiniteSets

VARIABLES
  schedule,  \* the calls the trainer has still to make
  call,      \* the call that is running or ran last
  todo,      \* what is left of it on each rank
  memory,    \* per rank and model: where its parameters and optimizer are, and whether its root is unsharded
  version,   \* per rank and model: the number of updates its weights are the result of
  engine,    \* per rank: what is awake, whose weights it has, what its cache was computed with, its sampling parameters
  random,    \* per rank: the generator's state, and the states put aside for training and generation
  group,     \* per rank: the model whose sequence parallel group is set
  rows       \* per rank: the rows at hand

vars == <<config, schedule, call, todo, memory, version, engine, random, group, rows>>

None == "none"

\* Weights are told apart by their number of updates. The engine starts with dummy ones.
Dummy == -1
Empty == -2

Consecutive(n, r) == {q \in Ranks : q \div n = r \div n}
TpGroup(r) == Consecutive(config.tp, r)
SpGroup(m, r) == Consecutive(Sp(m), r)
Micro == config.ttp \div config.tp
MicroGroup(r) == Consecutive(Micro, r)

---------------------------------------------------------------------------
(* Start: init_model of every worker                                         *)

\* An optimizer has no state before its first step.
Placed(where) == [params |-> where, optimizer |-> None, unsharded |-> FALSE]

BuiltActor == Placed("gpu")
BuiltCritic == Placed(IF Offloads("critic") THEN "cpu" ELSE "gpu")
BuiltRewardModel == Placed(IF ByFsdp("rm") THEN "cpu" ELSE "gpu")
BuiltRef == Placed(IF ByFsdp("ref") THEN "cpu" ELSE "gpu")

Built(m) == CASE m = "actor" -> BuiltActor [] m = "critic" -> BuiltCritic
              [] m = "rm" -> BuiltRewardModel [] m = "ref" -> BuiltRef

\* The engine starts with dummy weights and is put to sleep. The old vLLM keeps the
\* cache it starts with, until the end of the first generation if it frees it at all.
Asleep_KeepsCache(e) == [e EXCEPT !.awake = IF config.engine = "vllm063" THEN @ \ {"weights"} ELSE {}]

Asleep(e) ==
  [e EXCEPT !.cache = Empty, !.awake = IF config.engine = "vllm063" THEN @ \ {"weights"} ELSE {}]

NewEngine ==
  [weights |-> Dummy, cache |-> Empty, sampling |-> "rollout", awake |-> {"weights", "cache"}]
BuiltVllm == Asleep(NewEngine)
BuiltVllm063 == [NewEngine EXCEPT !.awake = {"cache"}]
BuiltSglang == Asleep(NewEngine)

BuiltEngine == CASE config.engine = "vllm063" -> BuiltVllm063
                 [] config.engine = "sglang" -> BuiltSglang
                 [] OTHER -> BuiltVllm

\* A state of the generator is a stream and the number of draws from it. Generation
\* starts from a seed that is the same on all ranks of a tensor parallel group.
Stream(name, id) == [name |-> name, id |-> id, draws |-> 0]
BuiltRandom(r) ==
  [now |-> Stream("training", r), training |-> Stream("training", r),
   generation |-> Stream("generation", r \div config.tp)]

Init ==
  /\ config \in Settings
  /\ \E resume \in BOOLEAN : schedule = Schedule(resume)
  /\ call = Call("actor", None)
  /\ todo = [r \in Ranks |-> <<>>]
  /\ memory = [r \in Ranks |-> [m \in Models |-> Built(m)]]
  /\ version = [r \in Ranks |-> [m \in Models |-> 0]]
  /\ engine = [r \in Ranks |-> BuiltEngine]
  /\ random = [r \in Ranks |-> BuiltRandom(r)]
  /\ group = [r \in Ranks |-> [now |-> None, before |-> None]]
  /\ rows = [r \in Ranks |-> <<>>]

---------------------------------------------------------------------------
(* A call: every rank gets its rows and the method's effects                 *)

Row(home, i, copy) == [home |-> home, i |-> i, copy |-> copy, result |-> None]

\* Ranks of one Megatron tensor group get the same rows, other ranks rows of their own.
Home(r) == IF Megatron THEN r \div config.ttp ELSE r
RowsPerHome == IF Megatron THEN 2 * Micro ELSE 2
Dispatched(r) == [i \in 1 .. RowsPerHome |-> Row(Home(r), i, 1)]

Dispatch ==
  /\ schedule # <<>> /\ \A r \in Ranks : todo[r] = <<>>
  /\ schedule' = Tail(schedule)
  /\ call' = Head(schedule)
  /\ todo' = [r \in Ranks |-> Program(Head(schedule))]
  /\ rows' = [r \in Ranks |-> Dispatched(r)]
  /\ UNCHANGED <<config, memory, version, engine, random, group>>

At(r, what) == todo[r] # <<>> /\ Head(todo[r]).do = what
Model(r) == Head(todo[r]).of
Pass(Q) == todo' = [r \in Ranks |-> IF r \in Q THEN Tail(todo[r]) ELSE todo[r]]
Driver == <<config, schedule, call>>

---------------------------------------------------------------------------
(* Memory                                                                    *)

Put(r, field, where) ==
  /\ memory' = [memory EXCEPT ![r][Model(r)][field] = where]
  /\ Pass({r})
  /\ UNCHANGED <<Driver, version, engine, random, group, rows>>

ParamsToGpu(r) == At(r, "load params") /\ Put(r, "params", "gpu")
ParamsToCpu(r) == At(r, "offload params") /\ Put(r, "params", "cpu")

\* An optimizer without state is left alone.
MoveOptimizer(r, what, where) ==
  At(r, what) /\ Put(r, "optimizer", IF memory[r][Model(r)].optimizer = None THEN None ELSE where)
LoadOptimizer(r) == MoveOptimizer(r, "load optimizer", "gpu")
OffloadOptimizer(r) == MoveOptimizer(r, "offload optimizer", "cpu")
Unshard(r) == At(r, "reshard") /\ Put(r, "unsharded", FALSE)

---------------------------------------------------------------------------
(* Computing with a model: all ranks take part, FSDP gathers its parameters  *)

Everywhere(what) == \A r \in Ranks : At(r, what)
Done(r) == [i \in DOMAIN rows[r] |-> [rows[r][i] EXCEPT !.result = call.method]]

Forward ==
  /\ Everywhere("forward") /\ Pass(Ranks)
  /\ memory' = [r \in Ranks |-> [memory[r] EXCEPT ![Model(r)].unsharded =
                                    ~Megatron /\ config.world > 1]]
  /\ rows' = [r \in Ranks |-> Done(r)]
  /\ UNCHANGED <<Driver, version, engine, random, group>>

\* The backward pass reshards; the step makes the optimizer's state. Only metrics are
\* returned. Dropout draws from the generator.
Drawn(s) == [s EXCEPT !.draws = @ + 1]
Update ==
  /\ Everywhere("update") /\ Pass(Ranks)
  /\ memory' = [r \in Ranks |-> [memory[r] EXCEPT ![Model(r)].unsharded = FALSE,
                                                  ![Model(r)].optimizer = "gpu"]]
  /\ version' = [r \in Ranks |-> [version[r] EXCEPT ![Model(r)] = @ + 1]]
  /\ random' = [r \in Ranks |-> [random[r] EXCEPT !.now = Drawn(@)]]
  /\ rows' = [r \in Ranks |-> <<>>]
  /\ UNCHANGED <<Driver, engine, group>>

Save ==
  /\ Everywhere("save") /\ Pass(Ranks)
  /\ UNCHANGED <<Driver, memory, version, engine, random, group, rows>>

\* The checkpoint holds one update of each model, the optimizer's state and the training
\* stream at that point.
Restore ==
  /\ Everywhere("restore") /\ Pass(Ranks)
  /\ version' = [r \in Ranks |-> [version[r] EXCEPT ![Model(r)] = 1]]
  /\ memory' = [r \in Ranks |-> [memory[r] EXCEPT ![Model(r)].optimizer = "gpu"]]
  /\ random' = [r \in Ranks |-> [random[r] EXCEPT
                   !.now = [Stream("training", r) EXCEPT !.draws = Cardinality({m \in Models : Trained(m)})]]]
  /\ UNCHANGED <<Driver, engine, group, rows>>

---------------------------------------------------------------------------
(* Sequence parallel groups                                                  *)

EnterSequenceGroup(r) ==
  /\ At(r, "enter sequence group") /\ Pass({r})
  /\ group' = IF Sp(Model(r)) = 1 THEN group
              ELSE [group EXCEPT ![r] = [now |-> Model(r), before |-> group[r].now]]
  /\ UNCHANGED <<Driver, memory, version, engine, random, rows>>

LeaveSequenceGroup_KeepsGroup(r) ==
  /\ At(r, "leave sequence group") /\ Pass({r})
  /\ UNCHANGED <<Driver, memory, version, engine, random, group, rows>>

LeaveSequenceGroup(r) ==
  /\ At(r, "leave sequence group") /\ Pass({r})
  /\ group' = IF Sp(Model(r)) = 1 THEN group ELSE [group EXCEPT ![r].now = group[r].before]
  /\ UNCHANGED <<Driver, memory, version, engine, random, rows>>

---------------------------------------------------------------------------
(* Rows: gathered over a group, and each rank's part of the results          *)

Rank(Q, r) == Cardinality({q \in Q : q < r})
Gathered(Q) == FlattenSeq([i \in 1 .. Cardinality(Q) |-> rows[CHOOSE q \in Q : Rank(Q, q) = i - 1]])
Part(s, n, i) == SubSeq(s, i * (Len(s) \div n) + 1, (i + 1) * (Len(s) \div n))

GatherIn(Q, what) ==
  /\ \A q \in Q : At(q, what)
  /\ Pass(Q)
  /\ rows' = [r \in Ranks |-> IF r \in Q THEN Gathered(Q) ELSE rows[r]]
  /\ UNCHANGED <<Driver, memory, version, engine, random, group>>

Gather(r) == At(r, "gather") /\ GatherIn(SpGroup(Model(r), r), "gather")
GatherPrompts(r) == GatherIn(TpGroup(r), "gather prompts")
JoinMicroRows(r) == GatherIn(MicroGroup(r), "join micro rows")

KeepPart(r, what, n) ==
  /\ At(r, what) /\ Pass({r})
  /\ rows' = [rows EXCEPT ![r] = Part(rows[r], n, r % n)]
  /\ UNCHANGED <<Driver, memory, version, engine, random, group>>

KeepOwnResponses_OfTheGroup(r) ==
  /\ At(r, "keep own responses") /\ Pass({r})
  /\ rows' = [rows EXCEPT ![r] = Part(rows[r], config.tp, (r \div config.tp) % config.tp)]
  /\ UNCHANGED <<Driver, memory, version, engine, random, group>>

KeepOwnRows(r) == At(r, "keep own rows") /\ KeepPart(r, "keep own rows", Sp(Model(r)))
KeepOwnResponses(r) == KeepPart(r, "keep own responses", config.tp)
TakeMicroRows(r) == KeepPart(r, "take micro rows", Micro)

\* SGLang: the first rank of the group broadcasts its responses.
CopyResponses(r) ==
  /\ \A q \in TpGroup(r) : At(q, "copy responses")
  /\ Pass(TpGroup(r))
  /\ rows' = [q \in Ranks |-> IF q \in TpGroup(r) THEN rows[(r \div config.tp) * config.tp] ELSE rows[q]]
  /\ UNCHANGED <<Driver, memory, version, engine, random, group>>

---------------------------------------------------------------------------
(* The engine                                                                *)

Set(r, e) ==
  /\ engine' = [engine EXCEPT ![r] = e]
  /\ Pass({r})
  /\ UNCHANGED <<Driver, memory, version, random, group, rows>>

StateDict(r) == At(r, "state dict") /\ Set(r, engine[r])

Wake(r, what, part) ==
  At(r, what) /\ Set(r, [engine[r] EXCEPT !.awake = @ \cup {part}])
WakeWeights(r) == Wake(r, "wake weights", "weights")
WakeCache(r) == Wake(r, "wake cache", "cache") \/ Wake(r, "make cache", "cache")

\* load_weights gathers every parameter over all ranks.
SyncWeights ==
  /\ Everywhere("sync") /\ Pass(Ranks)
  /\ engine' = [r \in Ranks |-> [engine[r] EXCEPT !.weights = version[r].actor]]
  /\ UNCHANGED <<Driver, memory, version, random, group, rows>>

\* sleep discards the cache, as does freeing or flushing it. The old vLLM gives up its
\* weights only and looks nothing up in its cache.
Sleep(r) == At(r, "sleep") /\ Set(r, Asleep(engine[r]))
DropCache(r) ==
  \/ At(r, "free cache") /\ Set(r, [engine[r] EXCEPT !.cache = Empty, !.awake = @ \ {"cache"}])
  \/ At(r, "flush cache") /\ Set(r, [engine[r] EXCEPT !.cache = Empty])

\* Parameters are changed when nothing is to be sampled and, by vLLM, for validation.
Changed == call.how = "greedy" \/ (call.how = "validation" /\ config.engine # "sglang")
SetSampling(r) ==
  At(r, "set sampling") /\ Set(r, IF Changed THEN [engine[r] EXCEPT !.sampling = call.how] ELSE engine[r])

RollBackSampling_Never(r) == At(r, "roll back sampling") /\ Set(r, engine[r])

RollBackSampling(r) == At(r, "roll back sampling") /\ Set(r, [engine[r] EXCEPT !.sampling = "rollout"])

\* The ranks of a tensor parallel group generate together, each answer on all of them.
Copies == IF call.how = "rollout" THEN config.n ELSE 1
Answered(r) ==
  FlattenSeq([i \in DOMAIN rows[r] |->
    [c \in 1 .. Copies |-> [rows[r][i] EXCEPT !.copy = c, !.result = call.method]]])

GenerateTogether(r) ==
  /\ \A q \in TpGroup(r) : At(q, "generate")
  /\ Pass(TpGroup(r))
  /\ rows' = [q \in Ranks |-> IF q \in TpGroup(r) THEN Answered(q) ELSE rows[q]]
  /\ engine' = [q \in Ranks |-> IF q \in TpGroup(r)
                                THEN [engine[q] EXCEPT !.cache = IF @ = Empty THEN engine[q].weights ELSE @]
                                ELSE engine[q]]
  /\ random' = [q \in Ranks |-> IF q \in TpGroup(r) /\ call.how # "greedy"
                                THEN [random[q] EXCEPT !.now = Drawn(@)] ELSE random[q]]
  /\ UNCHANGED <<Driver, memory, version, group>>

---------------------------------------------------------------------------
(* Random state                                                              *)

Swap(r, what, s) ==
  /\ At(r, what) /\ Pass({r})
  /\ random' = [random EXCEPT ![r] = s]
  /\ UNCHANGED <<Driver, memory, version, engine, group, rows>>

SwapIn(r) ==
  Swap(r, "swap in", [random[r] EXCEPT !.training = random[r].now, !.now = random[r].generation])

SwapOut_RestoresFirst(r) ==
  Swap(r, "swap out", [random[r] EXCEPT !.generation = random[r].training, !.now = random[r].training])

SwapOut(r) ==
  Swap(r, "swap out", [random[r] EXCEPT !.generation = random[r].now, !.now = random[r].training])

---------------------------------------------------------------------------
\* The trainer's last call has returned.
Finished == schedule = <<>> /\ (\A r \in Ranks : todo[r] = <<>>) /\ UNCHANGED vars

Step(r) ==
  \/ ParamsToGpu(r) \/ ParamsToCpu(r) \/ LoadOptimizer(r) \/ OffloadOptimizer(r) \/ Unshard(r)
  \/ EnterSequenceGroup(r) \/ LeaveSequenceGroup(r)
  \/ Gather(r) \/ GatherPrompts(r) \/ JoinMicroRows(r)
  \/ KeepOwnRows(r) \/ KeepOwnResponses(r) \/ TakeMicroRows(r) \/ CopyResponses(r)
  \/ StateDict(r) \/ WakeWeights(r) \/ WakeCache(r) \/ Sleep(r) \/ DropCache(r)
  \/ SetSampling(r) \/ GenerateTogether(r) \/ RollBackSampling(r)
  \/ SwapIn(r) \/ SwapOut(r)

Next ==
  \/ Dispatch \/ Forward \/ Update \/ Save \/ Restore \/ SyncWeights
  \/ \E r \in Ranks : Step(r)
  \/ Finished

Spec == Init /\ [][Next]_vars

---------------------------------------------------------------------------
(* Properties                                                                *)

Generates(r) == config.engine # "hf" /\ At(r, "generate")
Computes(r) == At(r, "forward") \/ At(r, "update")
Updates(r) == version[r].actor + (IF "critic" \in Models THEN version[r].critic ELSE 0)

\* What is generated comes from the weights of the last update, and no prefix is taken
\* from a cache computed with older ones, whatever ran between two generations.
GeneratesWithTheTrainedWeights ==
  \A r \in Ranks : Generates(r) =>
    engine[r].weights = version[r].actor /\ engine[r].cache \in {Empty, version[r].actor}

\* The ranks that share one generation draw the same random numbers, and no rank ever
\* trains with them: its own stream goes on where the last update left it.
RandomStreamsApart ==
  /\ \A r \in Ranks : Generates(r) /\ config.engine # "megatron" =>
        \A q \in TpGroup(r) : At(q, "generate") => random[q].now = random[r].now
  /\ \A r \in Ranks : At(r, "update") /\ config.engine \notin {"megatron", "hf"} =>
        random[r].now = [Stream("training", r) EXCEPT !.draws = Updates(r)]

\* Whatever needs a model's parameters or optimizer finds them on the GPU, and sequences
\* are split over that model's own groups and no group of another model's call.
ComputesInItsPlace ==
  \A r \in Ranks :
    /\ todo[r] # <<>> /\ Head(todo[r]).do \in {"forward", "update", "save", "restore", "state dict"}
          => memory[r][Model(r)].params = "gpu" \/ ByFsdp(Model(r))
    /\ At(r, "update") => memory[r][Model(r)].optimizer # "cpu"
    /\ Computes(r) => group[r].now = IF Sp(Model(r)) > 1 THEN Model(r) ELSE None

\* While the engine has weights and cache in memory no trained model that is to be
\* offloaded is there, nor whole parameters of a pass that is over; otherwise the engine
\* has given its memory back.  (Megatron's reference model is there until its first pass
\* has offloaded it.)
GenerationHasTheMemory ==
  \A r \in Ranks :
    /\ Generates(r) =>
          /\ engine[r].awake = {"weights", "cache"}
          /\ \A m \in {n \in Models : Offloads(n) /\ Trained(n)} :
                memory[r][m].params = "cpu" /\ memory[r][m].optimizer # "gpu"
          /\ \A m \in Models : ~memory[r][m].unsharded
    /\ At(r, "sync") => "weights" \in engine[r].awake
    /\ Computes(r) => engine[r].awake = IF config.engine = "vllm063" /\ ~config.free THEN {"cache"} ELSE {}

\* Each rank returns results for exactly the rows it was given, in their order, though
\* the groups that computed them overlap other ranks' rows; a rollout has all copies of
\* a prompt next to each other.
RowsComeHome ==
  (\A r \in Ranks : todo[r] = <<>>) =>
    \A r \in Ranks :
      rows[r] = CASE call.method = "generate_sequences" ->
                       FlattenSeq([i \in 1 .. RowsPerHome |->
                         [c \in 1 .. Copies |-> [Row(Home(r), i, c) EXCEPT !.result = call.method]]])
                  [] call.method \in {"update_actor", "update_critic", None} -> <<>>
                  [] call.method \in {"save_checkpoint", "load_checkpoint"} -> Dispatched(r)
                  [] OTHER -> [i \in 1 .. RowsPerHome |-> [Row(Home(r), i, 1) EXCEPT !.result = call.method]]

\* Sampling parameters of one call never reach the next: a rollout after validation or
\* a greedy baseline samples as configured.
SampledAsAsked ==
  \A r \in Ranks : Generates(r) => engine[r].sampling = call.how
=============================================================================
