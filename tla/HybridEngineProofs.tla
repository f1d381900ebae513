------------------------- MODULE HybridEngineProofs -------------------------
(***************************************************************************)
(* What holds of the hybrid engine on any number of ranks and for every    *)
(* setting. A rank's memory, weights, random state and sampling parameters *)
(* change only by its own steps, so the proof follows one rank through one *)
(* call as through a sequential program: an assertion before and after     *)
(* each step, a rule for each kind of step, and a chain of such rules from *)
(* the assertion a rank rests in before the call to the one it rests in    *)
(* after it. The trainer's schedule is a chain of calls of the same form.  *)
(* The invariant says that what is left of the call and of the schedule is *)
(* still such a chain.                                                     *)
(*                                                                         *)
(* The rows of a rank depend on those of other ranks, but only through the *)
(* form they are in: a group's or a rank's own, with or without results. A *)
(* second invariant says that every rank's rows are what their form says   *)
(* they are and that what is left of the call is a chain from that form to *)
(* the one its results have.                                               *)
(***************************************************************************)
EXTENDS HybridEngine, FoldTheorems

---------------------------------------------------------------------------
(* Chains of steps                                                           *)

\* The steps of s lead from P to Q by the rules: with an assertion of N before each.
Chain(N, O, rules, s, P, Q) ==
  /\ s \in Seq(O)
  /\ \E f \in [1 .. Len(s) + 1 -> N] :
       /\ f[1] = P /\ f[Len(s) + 1] = Q
       /\ \A i \in 1 .. Len(s) : [pre |-> f[i], op |-> s[i], post |-> f[i + 1]] \in rules

\* No step leads from any assertion of N to itself, and to no other.
LEMMA ChainEmpty ==
  ASSUME NEW N, NEW O, NEW rules, NEW P
  PROVE  /\ P \in N => Chain(N, O, rules, <<>>, P, P)
         /\ \A Q : Chain(N, O, rules, <<>>, P, Q) => P = Q /\ P \in N
<1>1. Len(<<>>) = 0 /\ <<>> \in Seq(O) OBVIOUS
<1>2. ASSUME P \in N PROVE Chain(N, O, rules, <<>>, P, P)
  <2> DEFINE f == [i \in 1 .. 1 |-> P]
  <2>1. f \in [1 .. 1 -> N] /\ f[1] = P BY <1>2
  <2> HIDE DEF f
  <2> QED BY <1>1, <2>1 DEF Chain
<1>3. ASSUME NEW Q, Chain(N, O, rules, <<>>, P, Q) PROVE P = Q /\ P \in N
  <2>1. PICK f \in [1 .. 0 + 1 -> N] : f[1] = P /\ f[0 + 1] = Q BY <1>1, <1>3 DEF Chain
  <2> QED BY <2>1
<1> QED BY <1>2, <1>3

\* One step by one rule.
LEMMA ChainOne ==
  ASSUME NEW N, NEW O, NEW rules, NEW P \in N, NEW Q \in N, NEW o \in O,
         [pre |-> P, op |-> o, post |-> Q] \in rules
  PROVE  Chain(N, O, rules, <<o>>, P, Q)
<1> DEFINE s == <<o>>
           f == [i \in 1 .. 2 |-> IF i = 1 THEN P ELSE Q]
<1>1. f \in [1 .. 2 -> N] /\ f[1] = P /\ f[2] = Q OBVIOUS
<1>2. s \in Seq(O) /\ Len(s) = 1 /\ s[1] = o OBVIOUS
<1> HIDE DEF f, s
<1>3. \A i \in 1 .. Len(s) : [pre |-> f[i], op |-> s[i], post |-> f[i + 1]] \in rules
  BY <1>1, <1>2
<1>4. Chain(N, O, rules, s, P, Q) BY <1>1, <1>2, <1>3 DEF Chain
<1> QED BY <1>4 DEF s

\* Two chains that meet make one.
LEMMA ChainJoin ==
  ASSUME NEW N, NEW O, NEW rules, NEW P, NEW M, NEW Q, NEW s, NEW t,
         Chain(N, O, rules, s, P, M), Chain(N, O, rules, t, M, Q)
  PROVE  Chain(N, O, rules, s \o t, P, Q)
<1> s \in Seq(O) /\ t \in Seq(O) BY DEF Chain
<1>1. PICK f \in [1 .. Len(s) + 1 -> N] :
        /\ f[1] = P /\ f[Len(s) + 1] = M
        /\ \A i \in 1 .. Len(s) : [pre |-> f[i], op |-> s[i], post |-> f[i + 1]] \in rules
  BY DEF Chain
<1>2. PICK g \in [1 .. Len(t) + 1 -> N] :
        /\ g[1] = M /\ g[Len(t) + 1] = Q
        /\ \A i \in 1 .. Len(t) : [pre |-> g[i], op |-> t[i], post |-> g[i + 1]] \in rules
  BY DEF Chain
<1> DEFINE u == s \o t
           h == [i \in 1 .. Len(u) + 1 |-> IF i <= Len(s) THEN f[i] ELSE g[i - Len(s)]]
<1>0. u \in Seq(O) OBVIOUS
<1>3. Len(u) = Len(s) + Len(t) /\ Len(s) \in Nat /\ Len(t) \in Nat OBVIOUS
<1>4. \A i \in 1 .. Len(u) : u[i] = IF i <= Len(s) THEN s[i] ELSE t[i - Len(s)]
  <2>1. \A i \in 1 .. Len(s) + Len(t) : (s \o t)[i] = IF i <= Len(s) THEN s[i] ELSE t[i - Len(s)]
    BY <1>3 DEF u
  <2> QED BY <2>1, <1>3 DEF u
<1> HIDE DEF u
<1>5. h \in [1 .. Len(u) + 1 -> N] BY <1>1, <1>2, <1>3
<1>6. \A i \in 1 .. Len(u) + 1 : h[i] = IF i <= Len(s) THEN f[i] ELSE g[i - Len(s)] OBVIOUS
<1> HIDE DEF h
<1>7. h[1] = P /\ h[Len(u) + 1] = Q
  <2>1. 1 \in 1 .. Len(u) + 1 /\ 1 <= Len(s) + 1 /\ Len(u) + 1 \in 1 .. Len(u) + 1 BY <1>3
  <2>2. h[1] = P
    <3>1. CASE Len(s) = 0
      <4>1. h[1] = g[1 - 0] /\ f[0 + 1] = P /\ f[0 + 1] = M BY <1>1, <1>3, <1>6, <2>1, <3>1
      <4> QED BY <1>2, <4>1
    <3>2. CASE Len(s) >= 1 BY <1>1, <1>3, <1>6, <2>1, <3>2
    <3> QED BY <1>3, <3>1, <3>2
  <2>3. h[Len(u) + 1] = g[Len(t) + 1]
    <3>1. ~(Len(u) + 1 <= Len(s)) /\ Len(u) + 1 - Len(s) = Len(t) + 1 BY <1>3
    <3> QED BY <1>6, <2>1, <3>1
  <2> QED BY <1>2, <2>2, <2>3
<1>8. ASSUME NEW i \in 1 .. Len(u)
      PROVE [pre |-> h[i], op |-> u[i], post |-> h[i + 1]] \in rules
  <2>1. CASE i < Len(s)
    <3>1. i \in 1 .. Len(u) + 1 /\ i + 1 \in 1 .. Len(u) + 1 /\ i \in 1 .. Len(s) /\ i + 1 <= Len(s)
      BY <1>3, <2>1
    <3>2. h[i] = f[i] BY <1>6, <3>1
    <3>3. h[i + 1] = f[i + 1] BY <1>6, <3>1
    <3>4. u[i] = s[i] BY <1>4, <3>1
    <3> QED BY <1>1, <3>1, <3>2, <3>3, <3>4
  <2>2. CASE i = Len(s)
    <3>1. h[i] = f[i] /\ h[i + 1] = f[i + 1] /\ u[i] = s[i] BY <1>1, <1>2, <1>3, <1>4, <1>6, <2>2
    <3> QED BY <1>1, <2>2, <3>1, <1>3
  <2>3. CASE i > Len(s)
    <3> DEFINE j == i - Len(s)
    <3>1. j \in 1 .. Len(t) /\ h[i] = g[j] /\ h[i + 1] = g[j + 1] /\ u[i] = t[j]
      BY <1>3, <1>4, <1>6, <2>3
    <3> QED BY <1>2, <3>1
  <2> QED BY <1>3, <2>1, <2>2, <2>3
<1>9. Chain(N, O, rules, u, P, Q) BY <1>0, <1>5, <1>7, <1>8 DEF Chain
<1> QED BY <1>9 DEF u

\* The first step of a chain is by a rule, and the rest is a chain.
LEMMA ChainNext ==
  ASSUME NEW N, NEW O, NEW rules, NEW P, NEW Q, NEW s, s # <<>>,
         Chain(N, O, rules, s, P, Q)
  PROVE  \E M \in N : /\ [pre |-> P, op |-> Head(s), post |-> M] \in rules
                      /\ Chain(N, O, rules, Tail(s), M, Q)
<1> s \in Seq(O) BY DEF Chain
<1>1. PICK f \in [1 .. Len(s) + 1 -> N] :
        /\ f[1] = P /\ f[Len(s) + 1] = Q
        /\ \A i \in 1 .. Len(s) : [pre |-> f[i], op |-> s[i], post |-> f[i + 1]] \in rules
  BY DEF Chain
<1> DEFINE t == Tail(s)
           g == [i \in 1 .. Len(t) + 1 |-> f[i + 1]]
<1>0. t \in Seq(O) OBVIOUS
<1>2. Len(t) = Len(s) - 1 /\ Len(s) \in Nat \ {0} /\ Head(s) = s[1] OBVIOUS
<1>3. \A i \in 1 .. Len(t) : t[i] = s[i + 1] OBVIOUS
<1> HIDE DEF t
<1>4. g \in [1 .. Len(t) + 1 -> N]
  <2>1. \A i \in 1 .. Len(t) + 1 : f[i + 1] \in N BY <1>1, <1>2
  <2> QED BY <2>1
<1>5. \A i \in 1 .. Len(t) + 1 : g[i] = f[i + 1] OBVIOUS
<1> HIDE DEF g
<1>6. g[1] = f[2] /\ g[Len(t) + 1] = Q BY <1>1, <1>2, <1>5
<1>7. ASSUME NEW i \in 1 .. Len(t)
      PROVE [pre |-> g[i], op |-> t[i], post |-> g[i + 1]] \in rules
  <2>1. i \in 1 .. Len(t) + 1 /\ i + 1 \in 1 .. Len(t) + 1 /\ i + 1 \in 1 .. Len(s) BY <1>2
  <2>2. g[i] = f[i + 1] BY <1>5, <2>1
  <2>3. g[i + 1] = f[(i + 1) + 1] BY <1>5, <2>1
  <2>4. t[i] = s[i + 1] BY <1>3
  <2> QED BY <1>1, <2>1, <2>2, <2>3, <2>4
<1>8. Chain(N, O, rules, t, f[2], Q) BY <1>0, <1>4, <1>6, <1>7 DEF Chain
<1>9. f[2] \in N /\ [pre |-> P, op |-> Head(s), post |-> f[2]] \in rules BY <1>1, <1>2
<1> QED BY <1>8, <1>9 DEF t

---------------------------------------------------------------------------
(* One rank: its view of the state, and what a step does to it               *)

\* The definitions of WorkerCalls for a given setting.
ModelsOf(k) == {"actor"} \cup k.others
Mega(k) == k.engine = "megatron"
SpOf(k, m) == IF Mega(k) THEN 1 ELSE k.sp[m]
MovedByFsdp(k, m) == ~Mega(k) /\ m \in {"ref", "rm"}
Moved(k, m) == k.offload /\ (IF Mega(k) THEN m = "ref" ELSE m \in {"actor", "critic"})
UpdatesOf(k, V) == V["actor"] + (IF "critic" \in ModelsOf(k) THEN V["critic"] ELSE 0)
OwnStream(k) == k.engine \notin {"megatron", "hf"}

Place == [params : {"gpu", "cpu"}, optimizer : {None, "gpu", "cpu"}, unsharded : BOOLEAN]
Streams == [name : {"training", "generation"}, id : Int, draws : Int]
Engines ==
  [weights : Int, cache : Int, sampling : {"rollout", "greedy", "validation"},
   awake : SUBSET {"weights", "cache"}]
Randoms == [now : Streams, training : Streams, generation : Streams]
Groups(k) == [now : ModelsOf(k) \cup {None}, before : ModelsOf(k) \cup {None}]

Views(k) ==
  [rank : Nat, memory : [ModelsOf(k) -> Place], version : [ModelsOf(k) -> Int],
   engine : Engines, random : Randoms, group : Groups(k)]

View(r) ==
  [rank |-> r, memory |-> memory[r], version |-> version[r], engine |-> engine[r],
   random |-> random[r], group |-> group[r]]

\* Steps that change one model's place in memory, or nothing; and the others.
MemorySteps ==
  {"load params", "offload params", "load optimizer", "offload optimizer", "reshard", "forward",
   "save", "state dict", "gather", "keep own rows", "gather prompts", "take micro rows",
   "join micro rows", "copy responses", "keep own responses"}
EngineSteps ==
  {"wake weights", "wake cache", "make cache", "sync", "set sampling", "roll back sampling",
   "free cache", "flush cache", "sleep"}
Steps ==
  MemorySteps \cup EngineSteps
  \cup {"enter sequence group", "leave sequence group", "update", "restore", "generate",
        "swap in", "swap out"}

Ops(k) == [do : Steps, of : ModelsOf(k)]

MemoryAfter(k, o, M) ==
  CASE o.do = "load params" -> [M EXCEPT ![o.of].params = "gpu"]
    [] o.do = "offload params" -> [M EXCEPT ![o.of].params = "cpu"]
    [] o.do = "load optimizer" ->
         [M EXCEPT ![o.of].optimizer = IF M[o.of].optimizer = None THEN None ELSE "gpu"]
    [] o.do = "offload optimizer" ->
         [M EXCEPT ![o.of].optimizer = IF M[o.of].optimizer = None THEN None ELSE "cpu"]
    [] o.do = "reshard" -> [M EXCEPT ![o.of].unsharded = FALSE]
    [] o.do = "forward" -> [M EXCEPT ![o.of].unsharded = ~Mega(k) /\ k.world > 1]
    [] o.do = "update" -> [M EXCEPT ![o.of].unsharded = FALSE, ![o.of].optimizer = "gpu"]
    [] o.do = "restore" -> [M EXCEPT ![o.of].optimizer = "gpu"]
    [] OTHER -> M

VersionAfter(o, V) ==
  CASE o.do = "update" -> [V EXCEPT ![o.of] = @ + 1]
    [] o.do = "restore" -> [V EXCEPT ![o.of] = 1]
    [] OTHER -> V

EngineAfter(k, c, o, V, E) ==
  CASE o.do = "wake weights" -> [E EXCEPT !.awake = @ \cup {"weights"}]
    [] o.do \in {"wake cache", "make cache"} -> [E EXCEPT !.awake = @ \cup {"cache"}]
    [] o.do = "sync" -> [E EXCEPT !.weights = V["actor"]]
    [] o.do = "set sampling" ->
         IF c.how = "greedy" \/ (c.how = "validation" /\ k.engine # "sglang")
         THEN [E EXCEPT !.sampling = c.how] ELSE E
    [] o.do = "generate" -> [E EXCEPT !.cache = IF @ = Empty THEN E.weights ELSE @]
    [] o.do = "roll back sampling" -> [E EXCEPT !.sampling = "rollout"]
    [] o.do = "free cache" -> [E EXCEPT !.cache = Empty, !.awake = @ \ {"cache"}]
    [] o.do = "flush cache" -> [E EXCEPT !.cache = Empty]
    [] o.do = "sleep" ->
         [E EXCEPT !.cache = Empty, !.awake = IF k.engine = "vllm063" THEN @ \ {"weights"} ELSE {}]
    [] OTHER -> E

RandomAfter(k, c, o, rank, R) ==
  CASE o.do = "update" -> [R EXCEPT !.now = Drawn(@)]
    [] o.do = "restore" ->
         [R EXCEPT !.now = [Stream("training", rank) EXCEPT
                              !.draws = IF "critic" \in ModelsOf(k) THEN 2 ELSE 1]]
    [] o.do = "generate" -> IF c.how # "greedy" THEN [R EXCEPT !.now = Drawn(@)] ELSE R
    [] o.do = "swap in" -> [R EXCEPT !.training = R.now, !.now = R.generation]
    [] o.do = "swap out" -> [R EXCEPT !.generation = R.now, !.now = R.training]
    [] OTHER -> R

GroupAfter(k, o, G) ==
  CASE o.do = "enter sequence group" ->
         (IF SpOf(k, o.of) = 1 THEN G ELSE [now |-> o.of, before |-> G.now])
    [] o.do = "leave sequence group" ->
         (IF SpOf(k, o.of) = 1 THEN G ELSE [G EXCEPT !.now = G.before])
    [] OTHER -> G

After(k, c, o, l) ==
  [rank |-> l.rank,
   memory |-> MemoryAfter(k, o, l.memory),
   version |-> VersionAfter(o, l.version),
   engine |-> EngineAfter(k, c, o, l.version, l.engine),
   random |-> RandomAfter(k, c, o, l.rank, l.random),
   group |-> GroupAfter(k, o, l.group)]

---------------------------------------------------------------------------
(* What a step needs: the properties, said of one rank                       *)

\* The part of the engine that stays awake: before the first generation, and after it.
Started(k) == IF k.engine = "vllm063" THEN {"cache"} ELSE {}
Kept(k) == IF k.engine = "vllm063" /\ ~k.free THEN {"cache"} ELSE {}
OwnGroup(k, m) == IF SpOf(k, m) = 1 THEN None ELSE m

\* Validation with SGLang is greedy: the back end has no parameters of its own for it.
GreedyValidation(k) == k.engine = "sglang" => k.val = "greedy"

InPlace(k, o, l) ==
  /\ o.do \in {"forward", "update", "save", "restore", "state dict"} =>
        l.memory[o.of].params = "gpu" \/ MovedByFsdp(k, o.of)
  /\ o.do = "update" => l.memory[o.of].optimizer # "cpu"
  /\ o.do \in {"forward", "update"} =>
        l.group.now = OwnGroup(k, o.of) /\ l.engine.awake = Kept(k)

Drawing(k, o, l) ==
  /\ o.do \in {"update", "restore", "swap in"} => l.random.now.name = "training"
  /\ o.do = "update" /\ OwnStream(k) =>
        l.random.now = [name |-> "training", id |-> l.rank, draws |-> UpdatesOf(k, l.version)]
  /\ o.do = "generate" =>
        l.random.now.name = IF OwnStream(k) THEN "generation" ELSE "training"
  /\ o.do = "swap in" => l.random.generation.name = "generation"
  /\ o.do = "swap out" => l.random.now.name = "generation" /\ l.random.training.name = "training"

Generating(k, c, o, l) ==
  /\ o.do = "sync" => "weights" \in l.engine.awake
  /\ o.do = "generate" /\ k.engine # "hf" =>
        /\ l.engine.weights = l.version["actor"]
        /\ l.engine.cache \in {Empty, l.version["actor"]}
        /\ GreedyValidation(k) => l.engine.sampling = c.how
        /\ l.engine.awake = {"weights", "cache"}
        /\ \A m \in ModelsOf(k) :
             /\ Moved(k, m) /\ Trained(m) =>
                  l.memory[m].params = "cpu" /\ l.memory[m].optimizer # "gpu"
             /\ ~l.memory[m].unsharded

Fit(k, c, o, l) == InPlace(k, o, l) /\ Drawing(k, o, l) /\ Generating(k, c, o, l)

\* A rule: from the first assertion the step is fit to be taken and leads to the second.
Rules(k, c) ==
  {t \in [pre : SUBSET Views(k), op : Ops(k), post : SUBSET Views(k)] :
     \A l \in t.pre : Fit(k, c, t.op, l) /\ After(k, c, t.op, l) \in t.post}

Leads(k, c, s, P, Q) == Chain(SUBSET Views(k), Ops(k), Rules(k, c), s, P, Q)

---------------------------------------------------------------------------
(* Assertions                                                                *)

\* Where a model's parameters and optimizer are. Only one that is moved ever leaves the
\* GPU: it is "idle" between calls, then its "params" or all of it is "loaded", until it
\* is "unloading" or all "away" again.
Sits(k, m, is, p) ==
  /\ ~Moved(k, m) => (p.params = "gpu" \/ MovedByFsdp(k, m)) /\ p.optimizer # "cpu"
  /\ Moved(k, m) =>
       /\ is \in {"params", "loaded"} => p.params = "gpu"
       /\ is \in {"unloading", "away"} \/ (is = "idle" /\ m = "critic") => p.params = "cpu"
       /\ is = "loaded" => p.optimizer # "cpu"
       /\ is \in {"idle", "params", "away"} /\ Trained(m) => p.optimizer # "gpu"

\* mem.of is the model at work, mem.is where it is, mem.whole the models whose root may
\* still be unsharded.
MemoryIs(k, mem, M) ==
  \A n \in ModelsOf(k) :
    /\ Sits(k, n, IF n = mem.of THEN mem.is ELSE "idle", M[n])
    /\ M[n].unsharded => n \in mem.whole /\ ~Mega(k) /\ k.world > 1

\* The engine holds "old" weights and no cache, then the "synced" weights of the last
\* update, and then a cache computed with them.
EngineIs(k, eng, E, V) ==
  /\ E.awake = eng.awake
  /\ k.engine # "hf" =>
       /\ E.sampling = eng.sampling
       /\ eng.holds # "old" => E.weights = V["actor"]
       /\ E.cache # Empty => eng.holds = "cached" /\ E.cache = V["actor"]

\* The draws of a rank's training stream count its updates, except after the actor was
\* restored and the critic was not.
Counted(k, count, V, draws) ==
  IF count = "half" THEN draws = 2 /\ "critic" \in ModelsOf(k) /\ V["actor"] = 1
  ELSE draws = UpdatesOf(k, V)

\* The generator runs the "training" or the "generation" stream; the other is put aside.
RandomIs(k, count, run, R, V, rank) ==
  /\ (IF run = "generation" THEN R.now ELSE R.generation).name = "generation"
  /\ (IF run = "generation" THEN R.training ELSE R.now).name = "training"
  /\ (IF run = "generation" THEN R.training ELSE R.now).id = rank
  /\ OwnStream(k) => Counted(k, count, V, (IF run = "generation" THEN R.training ELSE R.now).draws)

GroupIs(g, G) == G.now = g /\ (g # None => G.before = None)

Where(k, count, mem, grp, eng, run) ==
  {l \in Views(k) :
     /\ MemoryIs(k, mem, l.memory)
     /\ EngineIs(k, eng, l.engine, l.version)
     /\ RandomIs(k, count, run, l.random, l.version, l.rank)
     /\ GroupIs(grp, l.group)}

\* What a rank rests in between two calls, by the stage the trainer is at: "ready" to
\* generate for the first time, "half" restored before that, "going", or with the critic's
\* "values" computed and the critic not yet updated.
Stages == {"ready", "half", "going", "values"}
CountAt(stage) == IF stage = "half" THEN "half" ELSE "all"
WholeAt(stage) == IF stage = "values" THEN {"critic"} ELSE {}
AwakeAt(k, stage) == IF stage \in {"going", "values"} THEN Kept(k) ELSE Started(k)
Mem(m, is, whole) == [of |-> m, is |-> is, whole |-> whole]
Eng(awake, sampling, holds) == [awake |-> awake, sampling |-> sampling, holds |-> holds]
Resting(k, stage) == Eng(AwakeAt(k, stage), "rollout", "old")

Rest(k, stage) ==
  Where(k, CountAt(stage), Mem("actor", "idle", WholeAt(stage)), None, Resting(k, stage), "training")

---------------------------------------------------------------------------
(* Rules                                                                     *)

LEMMA FunctionIsSequence ==
  ASSUME NEW T, NEW n \in Nat, NEW f \in [1 .. n -> T]
  PROVE  f \in Seq(T) /\ Len(f) = n
OBVIOUS

LEMMA DoOne == \A m, a : Do(m, <<a>>) = <<[do |-> a, of |-> m]>>
BY DEF Do

LEMMA DoJoin ==
  ASSUME NEW m, NEW S, NEW v \in Seq(S), NEW w \in Seq(S)
  PROVE  Do(m, v \o w) = Do(m, v) \o Do(m, w)
<1> DEFINE u == v \o w
           dv == Do(m, v)
           dw == Do(m, w)
           d == Do(m, u)
           T == [do : S, of : {m}]
<1>0. ASSUME NEW x \in Seq(S)
      PROVE  /\ Do(m, x) \in Seq([do : S, of : {m}]) /\ Len(Do(m, x)) = Len(x)
             /\ \A i \in 1 .. Len(x) : Do(m, x)[i] = [do |-> x[i], of |-> m]
  <2> HIDE DEF u, dv, dw, d, T
  <2> DEFINE n == Len(x)
             e == [i \in 1 .. n |-> [do |-> x[i], of |-> m]]
  <2>1. n \in Nat /\ DOMAIN x = 1 .. n /\ \A i \in 1 .. n : x[i] \in S OBVIOUS
  <2>2. Do(m, x) = e BY <2>1 DEF Do
  <2> HIDE DEF n
  <2>3. e \in [1 .. n -> [do : S, of : {m}]] BY <2>1
  <2>4. \A i \in 1 .. n : e[i] = [do |-> x[i], of |-> m] OBVIOUS
  <2> HIDE DEF e
  <2>5. e \in Seq([do : S, of : {m}]) /\ Len(e) = n BY <2>1, <2>3, FunctionIsSequence
  <2>6. /\ Do(m, x) \in Seq([do : S, of : {m}]) /\ Len(Do(m, x)) = n
        /\ \A i \in 1 .. n : Do(m, x)[i] = [do |-> x[i], of |-> m]
    BY <2>2, <2>4, <2>5
  <2> QED BY <2>6 DEF n
<1>1. dv \in Seq(T) /\ Len(dv) = Len(v) /\ \A i \in 1 .. Len(v) : dv[i] = [do |-> v[i], of |-> m]
  BY ONLY <1>0, v \in Seq(S)
<1>2. dw \in Seq(T) /\ Len(dw) = Len(w) /\ \A i \in 1 .. Len(w) : dw[i] = [do |-> w[i], of |-> m]
  BY ONLY <1>0, w \in Seq(S)
<1>3. /\ u \in Seq(S) /\ Len(u) = Len(v) + Len(w)
      /\ \A i \in 1 .. Len(v) + Len(w) : u[i] = IF i <= Len(v) THEN v[i] ELSE w[i - Len(v)]
  BY ElementsOfJoin
<1> HIDE DEF u
<1>4. d \in Seq(T) /\ Len(d) = Len(u) /\ \A i \in 1 .. Len(u) : d[i] = [do |-> u[i], of |-> m]
  BY ONLY <1>0, <1>3
<1> HIDE DEF d, dv, dw
<1>5. /\ dv \o dw \in Seq(T) /\ Len(dv \o dw) = Len(v) + Len(w)
      /\ \A i \in 1 .. Len(v) + Len(w) : (dv \o dw)[i] = IF i <= Len(v) THEN dv[i] ELSE dw[i - Len(v)]
  <2>1. dv \in Seq(T) /\ dw \in Seq(T) BY <1>1, <1>2
  <2>2. /\ dv \o dw \in Seq(T) /\ Len(dv \o dw) = Len(dv) + Len(dw)
        /\ \A i \in 1 .. Len(dv) + Len(dw) :
             (dv \o dw)[i] = IF i <= Len(dv) THEN dv[i] ELSE dw[i - Len(dv)]
    BY <2>1, ElementsOfJoin
  <2>3. Len(dv) = Len(v) /\ Len(dw) = Len(w) BY <1>1, <1>2
  <2> QED BY <2>2, <2>3
<1>6. Len(v) \in Nat /\ Len(w) \in Nat OBVIOUS
<1>7. ASSUME NEW i \in 1 .. Len(v) + Len(w) PROVE d[i] = (dv \o dw)[i]
  <2>1. CASE i <= Len(v) BY <1>1, <1>3, <1>4, <1>5, <1>6, <2>1
  <2>2. CASE i > Len(v)
    <3>1. i - Len(v) \in 1 .. Len(w) BY <1>6, <2>2
    <3>2. ~(i <= Len(v)) BY <1>6, <2>2
    <3>3. d[i] = [do |-> w[i - Len(v)], of |-> m] BY <1>3, <1>4, <3>2
    <3>4. (dv \o dw)[i] = dw[i - Len(v)] BY <1>5, <3>2
    <3> QED BY <1>2, <3>1, <3>3, <3>4
  <2>3. i <= Len(v) \/ i > Len(v) BY <1>6
  <2> QED BY <2>1, <2>2, <2>3
<1>8. d = dv \o dw BY <1>3, <1>4, <1>5, <1>7
<1> QED BY <1>8 DEF d, dv, dw, u

LEMMA WhereIsAssertion ==
  \A k, count, mem, grp, eng, swapped : Where(k, count, mem, grp, eng, swapped) \in SUBSET Views(k)
BY DEF Where

\* A rule for one step is a chain.
LEMMA OneStep ==
  ASSUME NEW k, NEW c, NEW m \in ModelsOf(k), NEW a \in Steps,
         NEW P \in SUBSET Views(k), NEW Q \in SUBSET Views(k),
         \A l \in P : Fit(k, c, [do |-> a, of |-> m], l) /\ After(k, c, [do |-> a, of |-> m], l) \in Q
  PROVE  Leads(k, c, Do(m, <<a>>), P, Q)
<1> DEFINE o == [do |-> a, of |-> m]
<1>1. o \in Ops(k) BY DEF Ops
<1>2. [pre |-> P, op |-> o, post |-> Q] \in Rules(k, c) BY <1>1 DEF Rules
<1>3. Chain(SUBSET Views(k), Ops(k), Rules(k, c), <<o>>, P, Q) BY <1>1, <1>2, ChainOne
<1> QED BY <1>3, DoOne DEF Leads

\* A step that only touches memory.
LEMMA MemoryStep ==
  ASSUME NEW k, NEW c, NEW m \in ModelsOf(k), NEW a \in MemorySteps,
         NEW count, NEW mem, NEW mem2, NEW grp, NEW eng, NEW run,
         \A M \in [ModelsOf(k) -> Place] :
           MemoryIs(k, mem, M) =>
             /\ MemoryAfter(k, [do |-> a, of |-> m], M) \in [ModelsOf(k) -> Place]
             /\ MemoryIs(k, mem2, MemoryAfter(k, [do |-> a, of |-> m], M)),
         \A l \in Where(k, count, mem, grp, eng, run) : InPlace(k, [do |-> a, of |-> m], l)
  PROVE  Leads(k, c, Do(m, <<a>>), Where(k, count, mem, grp, eng, run),
                                   Where(k, count, mem2, grp, eng, run))
<1> DEFINE o == [do |-> a, of |-> m]
           P == Where(k, count, mem, grp, eng, run)
           Q == Where(k, count, mem2, grp, eng, run)
<1>1. ASSUME NEW l \in P PROVE Fit(k, c, o, l) /\ After(k, c, o, l) \in Q
  <2>1. l \in Views(k) /\ MemoryIs(k, mem, l.memory) BY DEF Where
  <2>2. InPlace(k, o, l) OBVIOUS
  <2>3. Drawing(k, o, l) /\ Generating(k, c, o, l) BY DEF Drawing, Generating, MemorySteps
  <2>4. /\ VersionAfter(o, l.version) = l.version
        /\ EngineAfter(k, c, o, l.version, l.engine) = l.engine
        /\ RandomAfter(k, c, o, l.rank, l.random) = l.random
        /\ GroupAfter(k, o, l.group) = l.group
    BY DEF VersionAfter, EngineAfter, RandomAfter, GroupAfter, MemorySteps
  <2> DEFINE M == MemoryAfter(k, o, l.memory)
  <2>5. M \in [ModelsOf(k) -> Place] /\ MemoryIs(k, mem2, M) BY <2>1 DEF Views
  <2> HIDE DEF M
  <2> DEFINE l2 == [rank |-> l.rank, memory |-> M, version |-> l.version,
                    engine |-> l.engine, random |-> l.random, group |-> l.group]
  <2>6. l2 \in Views(k) BY <2>1, <2>5 DEF Views
  <2>7. l2 \in Q BY <2>5, <2>6 DEF Where
  <2>8. After(k, c, o, l) = l2 BY <2>4 DEF After, M
  <2> QED BY <2>2, <2>3, <2>7, <2>8 DEF Fit
<1>2. P \in SUBSET Views(k) /\ Q \in SUBSET Views(k) BY WhereIsAssertion
<1>3. a \in Steps BY DEF Steps
<1> HIDE DEF P, Q
<1>4. Leads(k, c, Do(m, <<a>>), P, Q) BY <1>1, <1>2, <1>3, OneStep
<1> QED BY <1>4 DEF P, Q

\* What moves a model's parameters and optimizer.
LEMMA Loading ==
  ASSUME NEW k \in Settings, NEW c, NEW m \in ModelsOf(k), Moved(k, m),
         NEW count, NEW whole, NEW grp, NEW eng, NEW run
  PROVE  LET Loc(is) == Where(k, count, Mem(m, is, whole), grp, eng, run)
         IN  /\ Leads(k, c, Do(m, <<"load params">>), Loc("idle"), Loc("params"))
             /\ Leads(k, c, Do(m, <<"load optimizer">>), Loc("params"), Loc("loaded"))
             /\ Leads(k, c, Do(m, <<"offload params">>), Loc("loaded"), Loc("unloading"))
             /\ Leads(k, c, Do(m, <<"offload optimizer">>), Loc("unloading"), Loc("idle"))
             /\ Leads(k, c, Do(m, <<"offload params">>), Loc("params"), Loc("away"))
             /\ Leads(k, c, Do(m, <<"offload params">>), Loc("params"), Loc("idle"))
             /\ Leads(k, c, Do(m, <<"offload optimizer">>), Loc("away"), Loc("away"))
<1> DEFINE Moves(a, is, is2) ==
             \A M \in [ModelsOf(k) -> Place] :
               MemoryIs(k, Mem(m, is, whole), M) =>
                 /\ MemoryAfter(k, [do |-> a, of |-> m], M) \in [ModelsOf(k) -> Place]
                 /\ MemoryIs(k, Mem(m, is2, whole), MemoryAfter(k, [do |-> a, of |-> m], M))
<1>1. ASSUME NEW a \in {"load params", "load optimizer", "offload params", "offload optimizer"},
             NEW is, NEW is2, Moves(a, is, is2)
      PROVE  Leads(k, c, Do(m, <<a>>), Where(k, count, Mem(m, is, whole), grp, eng, run),
                                       Where(k, count, Mem(m, is2, whole), grp, eng, run))
  <2>1. a \in MemorySteps BY DEF MemorySteps
  <2>2. \A l : InPlace(k, [do |-> a, of |-> m], l) BY DEF InPlace
  <2> QED BY <1>1, <2>1, <2>2, MemoryStep
<1>2. Moves("load params", "idle", "params")
  BY DEF MemoryIs, MemoryAfter, Mem, Sits, Place
<1>3. Moves("load optimizer", "params", "loaded")
  BY DEF MemoryIs, MemoryAfter, Mem, Sits, Place, None
<1>4. Moves("offload params", "loaded", "unloading")
  BY DEF MemoryIs, MemoryAfter, Mem, Sits, Place
<1>5. Moves("offload optimizer", "unloading", "idle")
  BY DEF MemoryIs, MemoryAfter, Mem, Sits, Place, None
<1>6. Moves("offload params", "params", "away")
  BY DEF MemoryIs, MemoryAfter, Mem, Sits, Place
<1>7. Moves("offload params", "params", "idle")
  BY DEF MemoryIs, MemoryAfter, Mem, Sits, Place
<1>8. Moves("offload optimizer", "away", "away")
  BY DEF MemoryIs, MemoryAfter, Mem, Sits, Place, None
<1> HIDE DEF Moves
<1> QED BY <1>1, <1>2, <1>3, <1>4, <1>5, <1>6, <1>7, <1>8

\* Steps that only concern rows.
RowSteps ==
  {"gather", "keep own rows", "gather prompts", "take micro rows", "join micro rows",
   "copy responses", "keep own responses"}

LEMMA RowStep ==
  ASSUME NEW k, NEW c, NEW m \in ModelsOf(k), NEW a \in RowSteps,
         NEW count, NEW mem, NEW grp, NEW eng, NEW run
  PROVE  Leads(k, c, Do(m, <<a>>), Where(k, count, mem, grp, eng, run),
                                   Where(k, count, mem, grp, eng, run))
<1>1. a \in MemorySteps BY DEF RowSteps, MemorySteps
<1>2. \A M : MemoryAfter(k, [do |-> a, of |-> m], M) = M BY DEF MemoryAfter, RowSteps
<1>3. \A l : InPlace(k, [do |-> a, of |-> m], l) BY DEF InPlace, RowSteps
<1> QED BY <1>1, <1>2, <1>3, MemoryStep

\* A model that was loaded, or never moves, can be used.
LEMMA Using ==
  ASSUME NEW k, NEW c, NEW m \in ModelsOf(k), NEW a \in {"save", "state dict"},
         NEW count, NEW is \in {"params", "loaded"}, NEW whole, NEW grp, NEW eng, NEW run
  PROVE  Leads(k, c, Do(m, <<a>>), Where(k, count, Mem(m, is, whole), grp, eng, run),
                                   Where(k, count, Mem(m, is, whole), grp, eng, run))
<1>1. a \in MemorySteps BY DEF MemorySteps
<1>2. \A M : MemoryAfter(k, [do |-> a, of |-> m], M) = M BY DEF MemoryAfter
<1>3. ASSUME NEW l \in Where(k, count, Mem(m, is, whole), grp, eng, run)
      PROVE  InPlace(k, [do |-> a, of |-> m], l)
  <2>1. Sits(k, m, is, l.memory[m]) BY DEF Where, MemoryIs, Mem
  <2> QED BY <2>1 DEF InPlace, Sits
<1> QED BY <1>1, <1>2, <1>3, MemoryStep

\* Where a model is does not depend on its root.
LEMMA Unsharding ==
  ASSUME NEW k, NEW m \in ModelsOf(k), NEW M \in [ModelsOf(k) -> Place], NEW b \in BOOLEAN
  PROVE  LET M2 == [M EXCEPT ![m].unsharded = b]
         IN  /\ M2 \in [ModelsOf(k) -> Place]
             /\ \A n \in ModelsOf(k) \ {m} : M2[n] = M[n]
             /\ \A n \in ModelsOf(k) : \A is : Sits(k, n, is, M2[n]) <=> Sits(k, n, is, M[n])
             /\ M2[m].unsharded <=> b
<1> DEFINE p == [M[m] EXCEPT !.unsharded = b]
           M2 == [M EXCEPT ![m] = p]
<1>1. M[m] \in Place OBVIOUS
<1>2. p \in Place /\ p.params = M[m].params /\ p.optimizer = M[m].optimizer /\ p.unsharded = b
  BY <1>1 DEF Place
<1> HIDE DEF p
<1>3. M2 \in [ModelsOf(k) -> Place] /\ M2[m] = p /\ \A n \in ModelsOf(k) \ {m} : M2[n] = M[n]
  BY <1>2
<1> HIDE DEF M2
<1>4. ASSUME NEW n \in ModelsOf(k), NEW is PROVE Sits(k, n, is, M2[n]) <=> Sits(k, n, is, M[n])
  <2>1. CASE n = m BY <1>2, <1>3, <2>1 DEF Sits
  <2>2. CASE n # m BY <1>3, <2>2
  <2> QED BY <2>1, <2>2
<1>5. M2[m].unsharded <=> b BY <1>2, <1>3
<1> QED BY <1>3, <1>4, <1>5 DEF M2, p

LEMMA NothingWhole ==
  ASSUME NEW k, NEW m \in ModelsOf(k), NEW M \in [ModelsOf(k) -> Place], NEW is,
         MemoryIs(k, Mem(m, is, {m}), M)
  PROVE  LET M2 == [M EXCEPT ![m].unsharded = FALSE]
         IN  M2 \in [ModelsOf(k) -> Place] /\ MemoryIs(k, Mem(m, is, {}), M2)
<1> DEFINE M2 == [M EXCEPT ![m].unsharded = FALSE]
<1>1. M2 \in [ModelsOf(k) -> Place] BY Unsharding
<1>2. /\ \A n \in ModelsOf(k) \ {m} : M2[n] = M[n]
      /\ \A n \in ModelsOf(k) : \A i : Sits(k, n, i, M2[n]) <=> Sits(k, n, i, M[n])
      /\ ~M2[m].unsharded
  BY Unsharding
<1> HIDE DEF M2
<1>3. MemoryIs(k, Mem(m, is, {}), M2) BY <1>2 DEF MemoryIs, Mem
<1> QED BY <1>1, <1>3 DEF M2

\* A pass leaves the root of an FSDP model whole, until it is resharded.
LEMMA ForwardPass ==
  ASSUME NEW k, NEW c, NEW m \in ModelsOf(k), NEW count, NEW is \in {"params", "loaded"},
         NEW eng, NEW run, eng.awake = Kept(k)
  PROVE  Leads(k, c, Do(m, <<"forward">>),
               Where(k, count, Mem(m, is, {}), OwnGroup(k, m), eng, run),
               Where(k, count, Mem(m, is, {m}), OwnGroup(k, m), eng, run))
<1> DEFINE o == [do |-> "forward", of |-> m]
<1>1. ASSUME NEW M \in [ModelsOf(k) -> Place], MemoryIs(k, Mem(m, is, {}), M)
      PROVE  /\ MemoryAfter(k, o, M) \in [ModelsOf(k) -> Place]
             /\ MemoryIs(k, Mem(m, is, {m}), MemoryAfter(k, o, M))
  <2>1. MemoryAfter(k, o, M) = [M EXCEPT ![m].unsharded = ~Mega(k) /\ k.world > 1]
    BY DEF MemoryAfter
  <2> DEFINE b == ~Mega(k) /\ k.world > 1
  <2>2. b \in BOOLEAN OBVIOUS
  <2> HIDE DEF b
  <2>3. [M EXCEPT ![m].unsharded = b] \in [ModelsOf(k) -> Place] BY <2>2, Unsharding
  <2>4. MemoryIs(k, Mem(m, is, {m}), [M EXCEPT ![m].unsharded = b])
    <3>1. b => ~Mega(k) /\ k.world > 1 BY DEF b
    <3> QED BY <1>1, <2>2, <3>1, Unsharding DEF MemoryIs, Mem
  <2> QED BY <2>1, <2>3, <2>4 DEF b
<1>2. ASSUME NEW l \in Where(k, count, Mem(m, is, {}), OwnGroup(k, m), eng, run)
      PROVE  InPlace(k, o, l)
  <2>1. Sits(k, m, is, l.memory[m]) BY DEF Where, MemoryIs, Mem
  <2>2. l.group.now = OwnGroup(k, m) /\ l.engine.awake = Kept(k) BY DEF Where, GroupIs, EngineIs
  <2> QED BY <2>1, <2>2 DEF InPlace, Sits
<1>3. "forward" \in MemorySteps BY DEF MemorySteps
<1> QED BY <1>1, <1>2, <1>3, MemoryStep

LEMMA Resharding ==
  ASSUME NEW k, NEW c, NEW m \in ModelsOf(k), NEW count, NEW is, NEW grp, NEW eng, NEW run
  PROVE  Leads(k, c, Do(m, <<"reshard">>), Where(k, count, Mem(m, is, {m}), grp, eng, run),
                                           Where(k, count, Mem(m, is, {}), grp, eng, run))
<1> DEFINE o == [do |-> "reshard", of |-> m]
<1>1. ASSUME NEW M \in [ModelsOf(k) -> Place], MemoryIs(k, Mem(m, is, {m}), M)
      PROVE  /\ MemoryAfter(k, o, M) \in [ModelsOf(k) -> Place]
             /\ MemoryIs(k, Mem(m, is, {}), MemoryAfter(k, o, M))
  <2>1. MemoryAfter(k, o, M) = [M EXCEPT ![m].unsharded = FALSE] BY DEF MemoryAfter
  <2> DEFINE M2 == [M EXCEPT ![m].unsharded = FALSE]
  <2>2. M2 \in [ModelsOf(k) -> Place] /\ MemoryIs(k, Mem(m, is, {}), M2) BY <1>1, NothingWhole
  <2> HIDE DEF M2
  <2>3. MemoryAfter(k, o, M) = M2 BY <2>1 DEF M2
  <2> QED BY <2>2, <2>3
<1>2. \A l : InPlace(k, o, l) BY DEF InPlace
<1>3. "reshard" \in MemorySteps BY DEF MemorySteps
<1> QED BY <1>1, <1>2, <1>3, MemoryStep

\* Sequence parallel groups are entered from none and left to none.
LEMMA ModelNames ==
  ASSUME NEW k \in Settings
  PROVE  ModelsOf(k) \subseteq {"actor", "critic", "ref", "rm"} /\ None \notin ModelsOf(k)
BY SettingsAssumption DEF ModelsOf, None

LEMMA GroupStep ==
  ASSUME NEW k \in Settings, NEW c, NEW m \in ModelsOf(k), NEW count, NEW mem, NEW eng, NEW run
  PROVE  LET Loc(g) == Where(k, count, mem, g, eng, run)
         IN  /\ Leads(k, c, Do(m, <<"enter sequence group">>), Loc(None), Loc(OwnGroup(k, m)))
             /\ Leads(k, c, Do(m, <<"leave sequence group">>), Loc(OwnGroup(k, m)), Loc(None))
<1> DEFINE Loc(g) == Where(k, count, mem, g, eng, run)
<1>1. ASSUME NEW a \in {"enter sequence group", "leave sequence group"}, NEW g, NEW g2,
             \A G \in Groups(k) :
               GroupIs(g, G) => /\ GroupAfter(k, [do |-> a, of |-> m], G) \in Groups(k)
                                /\ GroupIs(g2, GroupAfter(k, [do |-> a, of |-> m], G))
      PROVE  Leads(k, c, Do(m, <<a>>), Loc(g), Loc(g2))
  <2> DEFINE o == [do |-> a, of |-> m]
  <2>1. ASSUME NEW l \in Loc(g) PROVE Fit(k, c, o, l) /\ After(k, c, o, l) \in Loc(g2)
    <3>1. l \in Views(k) /\ GroupIs(g, l.group) BY DEF Where
    <3>2. Fit(k, c, o, l) BY DEF Fit, InPlace, Drawing, Generating
    <3>3. /\ VersionAfter(o, l.version) = l.version
          /\ EngineAfter(k, c, o, l.version, l.engine) = l.engine
          /\ RandomAfter(k, c, o, l.rank, l.random) = l.random
          /\ MemoryAfter(k, o, l.memory) = l.memory
      BY DEF VersionAfter, EngineAfter, RandomAfter, MemoryAfter
    <3> DEFINE G == GroupAfter(k, o, l.group)
    <3>4. G \in Groups(k) /\ GroupIs(g2, G) BY <1>1, <3>1 DEF Views
    <3> HIDE DEF G
    <3> DEFINE l2 == [rank |-> l.rank, memory |-> l.memory, version |-> l.version,
                      engine |-> l.engine, random |-> l.random, group |-> G]
    <3>5. l2 \in Views(k) BY <3>1, <3>4 DEF Views
    <3>6. l2 \in Loc(g2) BY <3>4, <3>5 DEF Where
    <3>7. After(k, c, o, l) = l2 BY <3>3 DEF After, G
    <3> QED BY <3>2, <3>6, <3>7
  <2>2. Loc(g) \in SUBSET Views(k) /\ Loc(g2) \in SUBSET Views(k) BY WhereIsAssertion
  <2>3. a \in Steps BY DEF Steps
  <2> HIDE DEF Loc
  <2> QED BY <2>1, <2>2, <2>3, OneStep
<1> DEFINE Moves(a, g, g2) ==
             \A G \in Groups(k) :
               GroupIs(g, G) => /\ GroupAfter(k, [do |-> a, of |-> m], G) \in Groups(k)
                                /\ GroupIs(g2, GroupAfter(k, [do |-> a, of |-> m], G))
<1>2. Moves("enter sequence group", None, OwnGroup(k, m))
  BY ModelNames DEF GroupAfter, GroupIs, OwnGroup, Groups
<1>3. Moves("leave sequence group", OwnGroup(k, m), None)
  BY ModelNames DEF GroupAfter, GroupIs, OwnGroup, Groups
<1> HIDE DEF Loc
<1>4. /\ Leads(k, c, Do(m, <<"enter sequence group">>), Loc(None), Loc(OwnGroup(k, m)))
      /\ Leads(k, c, Do(m, <<"leave sequence group">>), Loc(OwnGroup(k, m)), Loc(None))
  BY <1>1, <1>2, <1>3
<1> QED BY <1>4 DEF Loc

\* An update counts in the version and in the draws alike.
LEMMA Updating ==
  ASSUME NEW k \in Settings, NEW c, NEW m \in ModelsOf(k), Trained(m), NEW whole \in {{}, {m}},
         NEW eng, eng.awake = Kept(k), eng.holds = "old"
  PROVE  Leads(k, c, Do(m, <<"update">>),
               Where(k, "all", Mem(m, "loaded", whole), OwnGroup(k, m), eng, "training"),
               Where(k, "all", Mem(m, "loaded", {}), OwnGroup(k, m), eng, "training"))
<1> DEFINE o == [do |-> "update", of |-> m]
           P == Where(k, "all", Mem(m, "loaded", whole), OwnGroup(k, m), eng, "training")
           Q == Where(k, "all", Mem(m, "loaded", {}), OwnGroup(k, m), eng, "training")
<1>1. ASSUME NEW l \in P PROVE Fit(k, c, o, l) /\ After(k, c, o, l) \in Q
  <2> DEFINE V == l.version
             M == l.memory
             R == l.random
             V2 == [V EXCEPT ![m] = V[m] + 1]
             M2 == [M EXCEPT ![m].unsharded = FALSE, ![m].optimizer = "gpu"]
             R2 == [R EXCEPT !.now = [R.now EXCEPT !.draws = R.now.draws + 1]]
             l2 == [rank |-> l.rank, memory |-> M2, version |-> V2,
                    engine |-> l.engine, random |-> R2, group |-> l.group]
  <2>1. /\ l \in Views(k) /\ MemoryIs(k, Mem(m, "loaded", whole), M) /\ EngineIs(k, eng, l.engine, V)
        /\ RandomIs(k, "all", "training", R, V, l.rank) /\ GroupIs(OwnGroup(k, m), l.group)
    BY DEF Where
  <2>2. /\ M \in [ModelsOf(k) -> Place] /\ V \in [ModelsOf(k) -> Int] /\ R \in Randoms
        /\ "actor" \in ModelsOf(k)
    BY <2>1 DEF Views, ModelsOf
  <2>3. Fit(k, c, o, l)
    <3>1. InPlace(k, o, l)
      <4>1. Sits(k, m, "loaded", M[m]) BY <2>1 DEF MemoryIs, Mem
      <4>2. l.group.now = OwnGroup(k, m) /\ l.engine.awake = Kept(k) BY <2>1 DEF GroupIs, EngineIs
      <4> QED BY <4>1, <4>2 DEF InPlace, Sits
    <3>2. Drawing(k, o, l)
      <4>1. R.now \in Streams BY <2>2 DEF Randoms
      <4>2. R.now.name = "training" /\ R.now.id = l.rank BY <2>1 DEF RandomIs
      <4>3. OwnStream(k) => R.now.draws = UpdatesOf(k, V) BY <2>1 DEF RandomIs, Counted
      <4>4. OwnStream(k) => R.now = [name |-> "training", id |-> l.rank, draws |-> UpdatesOf(k, V)]
        BY <4>1, <4>2, <4>3 DEF Streams
      <4> QED BY <4>2, <4>4 DEF Drawing
    <3>3. Generating(k, c, o, l) BY DEF Generating
    <3> QED BY <3>1, <3>2, <3>3 DEF Fit
  <2>4. M2 \in [ModelsOf(k) -> Place] /\ MemoryIs(k, Mem(m, "loaded", {}), M2)
    <3> DEFINE M1 == [M EXCEPT ![m].unsharded = FALSE]
               p == [M1[m] EXCEPT !.optimizer = "gpu"]
    <3>0. MemoryIs(k, Mem(m, "loaded", whole), M) => MemoryIs(k, Mem(m, "loaded", {m}), M)
      BY DEF MemoryIs, Mem
    <3>1. M1 \in [ModelsOf(k) -> Place] /\ MemoryIs(k, Mem(m, "loaded", {}), M1)
      BY <2>1, <2>2, <3>0, NothingWhole
    <3>2. M2 = [M1 EXCEPT ![m] = p] BY <2>2
    <3> HIDE DEF M1, M2
    <3>3. p \in Place /\ p.params = M1[m].params /\ p.unsharded = M1[m].unsharded /\ p.optimizer = "gpu"
      BY <3>1 DEF Place
    <3> HIDE DEF p
    <3>4. Sits(k, m, "loaded", p) /\ ~p.unsharded BY <3>1, <3>3 DEF MemoryIs, Mem, Sits
    <3>5. M2 \in [ModelsOf(k) -> Place] /\ M2[m] = p /\ \A n \in ModelsOf(k) \ {m} : M2[n] = M1[n]
      BY <3>1, <3>2, <3>3
    <3> QED BY <3>1, <3>4, <3>5 DEF MemoryIs, Mem
  <2>5. V2 \in [ModelsOf(k) -> Int] /\ UpdatesOf(k, V2) = UpdatesOf(k, V) + 1
    <3>1. m \in {"actor", "critic"} BY DEF Trained
    <3> QED BY <2>2, <3>1 DEF UpdatesOf
  <2>6. R2 \in Randoms /\ RandomIs(k, "all", "training", R2, V2, l.rank)
    <3>1. R.now \in Streams BY <2>2 DEF Randoms
    <3>2. /\ R2 \in Randoms /\ R2.now.name = R.now.name /\ R2.now.id = R.now.id
          /\ R2.now.draws = R.now.draws + 1 /\ R2.generation = R.generation
      BY <2>2, <3>1 DEF Randoms, Streams
    <3> HIDE DEF R2, V2
    <3> QED BY <2>1, <2>5, <3>2 DEF RandomIs, Counted
  <2>7. EngineIs(k, eng, l.engine, V2) BY <2>1 DEF EngineIs
  <2> HIDE DEF V2, M2, R2
  <2>8. l2 \in Views(k) BY <2>1, <2>4, <2>5, <2>6 DEF Views
  <2>9. l2 \in Q BY <2>1, <2>4, <2>6, <2>7, <2>8 DEF Where
  <2>10. /\ VersionAfter(o, V) = V2 /\ MemoryAfter(k, o, M) = M2
         /\ RandomAfter(k, c, o, l.rank, R) = R2
         /\ EngineAfter(k, c, o, V, l.engine) = l.engine /\ GroupAfter(k, o, l.group) = l.group
    BY DEF VersionAfter, MemoryAfter, RandomAfter, EngineAfter, GroupAfter, V2, M2, R2, Drawn
  <2>11. After(k, c, o, l) = l2 BY <2>10 DEF After
  <2> QED BY <2>3, <2>9, <2>11
<1>2. P \in SUBSET Views(k) /\ Q \in SUBSET Views(k) BY WhereIsAssertion
<1>3. "update" \in Steps BY DEF Steps
<1> HIDE DEF P, Q
<1>4. Leads(k, c, Do(m, <<"update">>), P, Q) BY <1>1, <1>2, <1>3, OneStep
<1> QED BY <1>4 DEF P, Q

\* What is restored: the actor, then, where there is one, the critic.
Restored(k, m, count, count2) ==
  \/ m = "actor" /\ count = "all" /\ count2 = IF "critic" \in ModelsOf(k) THEN "half" ELSE "all"
  \/ m = "critic" /\ count = "half" /\ count2 = "all"

LEMMA Restoring ==
  ASSUME NEW k \in Settings, NEW c, NEW m \in ModelsOf(k), NEW count, NEW count2,
         Restored(k, m, count, count2), NEW eng, eng.holds = "old"
  PROVE  Leads(k, c, Do(m, <<"restore">>), Where(k, count, Mem(m, "params", {}), None, eng, "training"),
                                           Where(k, count2, Mem(m, "loaded", {}), None, eng, "training"))
<1> DEFINE o == [do |-> "restore", of |-> m]
           P == Where(k, count, Mem(m, "params", {}), None, eng, "training")
           Q == Where(k, count2, Mem(m, "loaded", {}), None, eng, "training")
<1>1. ASSUME NEW l \in P PROVE Fit(k, c, o, l) /\ After(k, c, o, l) \in Q
  <2> DEFINE V == l.version
             M == l.memory
             R == l.random
             V2 == [V EXCEPT ![m] = 1]
             M2 == [M EXCEPT ![m].optimizer = "gpu"]
             d == IF "critic" \in ModelsOf(k) THEN 2 ELSE 1
             t == [name |-> "training", id |-> l.rank, draws |-> d]
             R2 == [R EXCEPT !.now = t]
             l2 == [rank |-> l.rank, memory |-> M2, version |-> V2,
                    engine |-> l.engine, random |-> R2, group |-> l.group]
  <2>1. /\ l \in Views(k) /\ MemoryIs(k, Mem(m, "params", {}), M) /\ EngineIs(k, eng, l.engine, V)
        /\ RandomIs(k, count, "training", R, V, l.rank) /\ GroupIs(None, l.group)
    BY DEF Where
  <2>2. /\ M \in [ModelsOf(k) -> Place] /\ V \in [ModelsOf(k) -> Int] /\ R \in Randoms
        /\ "actor" \in ModelsOf(k) /\ l.rank \in Int
    BY <2>1 DEF Views, ModelsOf
  <2>3. Fit(k, c, o, l)
    <3>1. Sits(k, m, "params", M[m]) BY <2>1 DEF MemoryIs, Mem
    <3>2. InPlace(k, o, l) BY <3>1 DEF InPlace, Sits
    <3>3. Drawing(k, o, l) BY <2>1 DEF Drawing, RandomIs
    <3>4. Generating(k, c, o, l) BY DEF Generating
    <3> QED BY <3>2, <3>3, <3>4 DEF Fit
  <2>4. M2 \in [ModelsOf(k) -> Place] /\ MemoryIs(k, Mem(m, "loaded", {}), M2)
    <3> DEFINE p == [M[m] EXCEPT !.optimizer = "gpu"]
    <3>1. M2 = [M EXCEPT ![m] = p] BY <2>2
    <3> HIDE DEF M2
    <3>2. p \in Place /\ p.params = M[m].params /\ p.unsharded = M[m].unsharded /\ p.optimizer = "gpu"
      BY <2>2 DEF Place
    <3> HIDE DEF p
    <3>3. Sits(k, m, "loaded", p) /\ ~p.unsharded BY <2>1, <3>2 DEF MemoryIs, Mem, Sits
    <3>4. M2 \in [ModelsOf(k) -> Place] /\ M2[m] = p /\ \A n \in ModelsOf(k) \ {m} : M2[n] = M[n]
      BY <2>2, <3>1, <3>2
    <3> QED BY <2>1, <3>3, <3>4 DEF MemoryIs, Mem
  <2>5. V2 \in [ModelsOf(k) -> Int] /\ (OwnStream(k) => Counted(k, count2, V2, d))
    <3>1. V2 \in [ModelsOf(k) -> Int] /\ V2[m] = 1 /\ \A n \in ModelsOf(k) \ {m} : V2[n] = V[n]
      BY <2>2
    <3> HIDE DEF V2
    <3>2. CASE m = "actor" BY <3>1, <3>2 DEF Counted, Restored, UpdatesOf
    <3>3. CASE m = "critic"
      <4>1. OwnStream(k) => V["actor"] = 1 BY <2>1, <3>3 DEF RandomIs, Counted, Restored
      <4> QED BY <2>2, <3>1, <3>3, <4>1, ModelNames DEF Counted, Restored, UpdatesOf
    <3> QED BY <3>1, <3>2, <3>3 DEF Restored
  <2>6. R2 \in Randoms /\ RandomIs(k, count2, "training", R2, V2, l.rank)
    <3>1. t \in Streams /\ t.name = "training" /\ t.id = l.rank /\ t.draws = d BY <2>2 DEF Streams
    <3> HIDE DEF t, d
    <3>2. R2 \in Randoms /\ R2.now = t /\ R2.generation = R.generation
      BY <2>2, <3>1 DEF Randoms
    <3> HIDE DEF R2, V2
    <3> QED BY <2>1, <2>5, <3>1, <3>2 DEF RandomIs
  <2>7. EngineIs(k, eng, l.engine, V2) BY <2>1 DEF EngineIs
  <2>8. /\ VersionAfter(o, V) = V2 /\ MemoryAfter(k, o, M) = M2
        /\ RandomAfter(k, c, o, l.rank, R) = R2
        /\ EngineAfter(k, c, o, V, l.engine) = l.engine /\ GroupAfter(k, o, l.group) = l.group
    BY DEF VersionAfter, MemoryAfter, RandomAfter, EngineAfter, GroupAfter, Stream
  <2> HIDE DEF V2, M2, R2
  <2>9. l2 \in Views(k) BY <2>1, <2>4, <2>5, <2>6 DEF Views
  <2>10. l2 \in Q BY <2>1, <2>4, <2>6, <2>7, <2>9 DEF Where
  <2>11. After(k, c, o, l) = l2 BY <2>8 DEF After
  <2> QED BY <2>3, <2>10, <2>11
<1>2. P \in SUBSET Views(k) /\ Q \in SUBSET Views(k) BY WhereIsAssertion
<1>3. "restore" \in Steps BY DEF Steps
<1> HIDE DEF P, Q
<1>4. Leads(k, c, Do(m, <<"restore">>), P, Q) BY <1>1, <1>2, <1>3, OneStep
<1> QED BY <1>4 DEF P, Q

\* A step that only touches the engine.
LEMMA EngineStep ==
  ASSUME NEW k, NEW c, NEW m \in ModelsOf(k), NEW a \in EngineSteps,
         NEW count, NEW mem, NEW grp, NEW eng, NEW eng2, NEW run,
         a = "sync" => "weights" \in eng.awake,
         \A E \in Engines, V \in [ModelsOf(k) -> Int] :
           EngineIs(k, eng, E, V) =>
             /\ EngineAfter(k, c, [do |-> a, of |-> m], V, E) \in Engines
             /\ EngineIs(k, eng2, EngineAfter(k, c, [do |-> a, of |-> m], V, E), V)
  PROVE  Leads(k, c, Do(m, <<a>>), Where(k, count, mem, grp, eng, run),
                                   Where(k, count, mem, grp, eng2, run))
<1> DEFINE o == [do |-> a, of |-> m]
           P == Where(k, count, mem, grp, eng, run)
           Q == Where(k, count, mem, grp, eng2, run)
<1>1. ASSUME NEW l \in P PROVE Fit(k, c, o, l) /\ After(k, c, o, l) \in Q
  <2>1. l \in Views(k) /\ EngineIs(k, eng, l.engine, l.version) BY DEF Where
  <2>2. Fit(k, c, o, l)
    BY <2>1 DEF Fit, InPlace, Drawing, Generating, EngineSteps, EngineIs
  <2>3. /\ VersionAfter(o, l.version) = l.version
        /\ MemoryAfter(k, o, l.memory) = l.memory
        /\ RandomAfter(k, c, o, l.rank, l.random) = l.random
        /\ GroupAfter(k, o, l.group) = l.group
    BY DEF VersionAfter, MemoryAfter, RandomAfter, GroupAfter, EngineSteps
  <2> DEFINE E == EngineAfter(k, c, o, l.version, l.engine)
  <2>4. E \in Engines /\ EngineIs(k, eng2, E, l.version) BY <2>1 DEF Views
  <2> HIDE DEF E
  <2> DEFINE l2 == [rank |-> l.rank, memory |-> l.memory, version |-> l.version,
                    engine |-> E, random |-> l.random, group |-> l.group]
  <2>5. l2 \in Views(k) BY <2>1, <2>4 DEF Views
  <2>6. l2 \in Q BY <2>4, <2>5 DEF Where
  <2>7. After(k, c, o, l) = l2 BY <2>3 DEF After, E
  <2> QED BY <2>2, <2>6, <2>7
<1>2. P \in SUBSET Views(k) /\ Q \in SUBSET Views(k) BY WhereIsAssertion
<1>3. a \in Steps BY DEF Steps
<1> HIDE DEF P, Q
<1>4. Leads(k, c, Do(m, <<a>>), P, Q) BY <1>1, <1>2, <1>3, OneStep
<1> QED BY <1>4 DEF P, Q

\* What a call samples with once its parameters are set.
Asked(k, c) ==
  IF c.how = "greedy" \/ (c.how = "validation" /\ k.engine # "sglang") THEN c.how ELSE "rollout"
Slept(k, awake) == IF k.engine = "vllm063" THEN awake \ {"weights"} ELSE {}

LEMMA Cleared ==
  ASSUME NEW E \in Engines, NEW S \in SUBSET E.awake
  PROVE  LET E2 == [E EXCEPT !.cache = Empty, !.awake = S]
         IN  /\ E2 \in Engines /\ E2.awake = S /\ E2.cache = Empty
             /\ E2.weights = E.weights /\ E2.sampling = E.sampling
<1>1. S \in SUBSET {"weights", "cache"} /\ Empty \in Int BY DEF Engines, Empty
<1> QED BY <1>1 DEF Engines

LEMMA EngineRules ==
  ASSUME NEW k, NEW c, NEW count, NEW mem, NEW grp, NEW run,
         NEW awake, NEW sampling, NEW holds
  PROVE  LET Loc(eng) == Where(k, count, mem, grp, eng, run)
             Does(a, eng, eng2) == Leads(k, c, Do("actor", <<a>>), Loc(eng), Loc(eng2))
             Now == Eng(awake, sampling, holds)
         IN  /\ Does("wake weights", Now, Eng(awake \cup {"weights"}, sampling, holds))
             /\ Does("wake cache", Now, Eng(awake \cup {"cache"}, sampling, holds))
             /\ Does("make cache", Now, Eng(awake \cup {"cache"}, sampling, holds))
             /\ "weights" \in awake =>
                  Does("sync", Eng(awake, sampling, "old"), Eng(awake, sampling, "synced"))
             /\ Does("set sampling", Eng(awake, "rollout", holds),
                                     Eng(awake, Asked(k, c), holds))
             /\ Does("roll back sampling", Now, Eng(awake, "rollout", holds))
             /\ Does("free cache", Eng(awake, sampling, "cached"), Eng(awake \ {"cache"}, sampling, "synced"))
             /\ Does("flush cache", Eng(awake, sampling, "cached"), Eng(awake, sampling, "synced"))
             /\ Does("sleep", Now, Eng(Slept(k, awake), sampling, "old"))
<1> DEFINE Loc(eng) == Where(k, count, mem, grp, eng, run)
           Does(a, eng, eng2) == Leads(k, c, Do("actor", <<a>>), Loc(eng), Loc(eng2))
           Now == Eng(awake, sampling, holds)
           Moves(a, eng, eng2) ==
             \A E \in Engines, V \in [ModelsOf(k) -> Int] :
               EngineIs(k, eng, E, V) =>
                 /\ EngineAfter(k, c, [do |-> a, of |-> "actor"], V, E) \in Engines
                 /\ EngineIs(k, eng2, EngineAfter(k, c, [do |-> a, of |-> "actor"], V, E), V)
<1>1. ASSUME NEW a \in EngineSteps, NEW eng, NEW eng2, Moves(a, eng, eng2),
             a = "sync" => "weights" \in eng.awake
      PROVE  Does(a, eng, eng2)
  <2>1. "actor" \in ModelsOf(k) BY DEF ModelsOf
  <2> QED BY <1>1, <2>1, EngineStep
<1>2. Moves("wake weights", Now, Eng(awake \cup {"weights"}, sampling, holds))
  BY DEF EngineIs, EngineAfter, Eng, Engines
<1>3. Moves("wake cache", Now, Eng(awake \cup {"cache"}, sampling, holds))
  BY DEF EngineIs, EngineAfter, Eng, Engines
<1>4. Moves("make cache", Now, Eng(awake \cup {"cache"}, sampling, holds))
  BY DEF EngineIs, EngineAfter, Eng, Engines
<1>5. Moves("sync", Eng(awake, sampling, "old"), Eng(awake, sampling, "synced"))
  BY DEF EngineIs, EngineAfter, Eng, Engines, ModelsOf
<1>6. Moves("set sampling", Eng(awake, "rollout", holds),
                            Eng(awake, Asked(k, c), holds))
  BY DEF EngineIs, EngineAfter, Eng, Engines, Asked
<1>7. Moves("roll back sampling", Now, Eng(awake, "rollout", holds))
  BY DEF EngineIs, EngineAfter, Eng, Engines
<1>8. Moves("free cache", Eng(awake, sampling, "cached"), Eng(awake \ {"cache"}, sampling, "synced"))
  <2> TAKE E \in Engines, V \in [ModelsOf(k) -> Int]
  <2> HAVE EngineIs(k, Eng(awake, sampling, "cached"), E, V)
  <2> DEFINE S == E.awake \ {"cache"}
             E2 == [E EXCEPT !.cache = Empty, !.awake = S]
  <2>1. EngineAfter(k, c, [do |-> "free cache", of |-> "actor"], V, E) = E2 BY DEF EngineAfter
  <2>2. E.awake = awake /\ (k.engine # "hf" => E.sampling = sampling /\ E.weights = V["actor"])
    BY DEF EngineIs, Eng, Now
  <2>3. S \subseteq E.awake OBVIOUS
  <2>4. E2 \in Engines /\ E2.awake = S /\ E2.cache = Empty /\ E2.weights = E.weights /\ E2.sampling = E.sampling
    BY <2>3, Cleared
  <2> HIDE DEF E2
  <2>5. EngineIs(k, Eng(awake \ {"cache"}, sampling, "synced"), E2, V)
    BY <2>2, <2>4 DEF EngineIs, Eng
  <2> QED BY <2>1, <2>4, <2>5
<1>9. Moves("flush cache", Eng(awake, sampling, "cached"), Eng(awake, sampling, "synced"))
  BY DEF EngineIs, EngineAfter, Eng, Engines, Empty
<1>10. Moves("sleep", Now, Eng(Slept(k, awake), sampling, "old"))
  <2> TAKE E \in Engines, V \in [ModelsOf(k) -> Int]
  <2> HAVE EngineIs(k, Now, E, V)
  <2> DEFINE S == Slept(k, E.awake)
             E2 == [E EXCEPT !.cache = Empty, !.awake = S]
  <2>1. EngineAfter(k, c, [do |-> "sleep", of |-> "actor"], V, E) = E2 BY DEF EngineAfter, Slept
  <2>2. E.awake = awake /\ (k.engine # "hf" => E.sampling = sampling) BY DEF EngineIs, Eng, Now
  <2>3. S \subseteq E.awake BY DEF Slept
  <2>4. E2 \in Engines /\ E2.awake = S /\ E2.cache = Empty /\ E2.weights = E.weights /\ E2.sampling = E.sampling
    BY <2>3, Cleared
  <2> HIDE DEF E2
  <2>5. EngineIs(k, Eng(Slept(k, awake), sampling, "old"), E2, V)
    BY <2>2, <2>4 DEF EngineIs, Eng
  <2> QED BY <2>1, <2>4, <2>5
<1>11. /\ {"wake weights", "wake cache", "make cache", "sync", "set sampling", "roll back sampling",
           "free cache", "flush cache", "sleep"} \subseteq EngineSteps
       /\ "weights" \in awake => "weights" \in Eng(awake, sampling, "old").awake
  BY DEF EngineSteps, Eng
<1> HIDE DEF Does, Moves, Now
<1>12. /\ Does("wake weights", Now, Eng(awake \cup {"weights"}, sampling, holds))
       /\ Does("wake cache", Now, Eng(awake \cup {"cache"}, sampling, holds))
       /\ Does("make cache", Now, Eng(awake \cup {"cache"}, sampling, holds))
  BY <1>1, <1>2, <1>3, <1>4, <1>11
<1>13. "weights" \in awake =>
         Does("sync", Eng(awake, sampling, "old"), Eng(awake, sampling, "synced"))
  BY <1>1, <1>5, <1>11
<1>14. /\ Does("set sampling", Eng(awake, "rollout", holds),
                               Eng(awake, Asked(k, c), holds))
       /\ Does("roll back sampling", Now, Eng(awake, "rollout", holds))
       /\ Does("free cache", Eng(awake, sampling, "cached"), Eng(awake \ {"cache"}, sampling, "synced"))
       /\ Does("flush cache", Eng(awake, sampling, "cached"), Eng(awake, sampling, "synced"))
       /\ Does("sleep", Now, Eng(Slept(k, awake), sampling, "old"))
  BY <1>1, <1>6, <1>7, <1>8, <1>9, <1>10, <1>11
<1> QED BY <1>12, <1>13, <1>14 DEF Does, Now

\* Swapping the random states, and swapping them back.
LEMMA Swapping ==
  ASSUME NEW k, NEW c, NEW count, NEW mem, NEW grp, NEW eng
  PROVE  LET Loc(run) == Where(k, count, mem, grp, eng, run)
         IN  /\ Leads(k, c, Do("actor", <<"swap in">>), Loc("training"), Loc("generation"))
             /\ Leads(k, c, Do("actor", <<"swap out">>), Loc("generation"), Loc("training"))
<1> DEFINE Loc(run) == Where(k, count, mem, grp, eng, run)
<1>1. ASSUME NEW a \in {"swap in", "swap out"}, NEW s, NEW s2,
             a = "swap in" => s = "training" /\ s2 = "generation",
             a = "swap out" => s = "generation" /\ s2 = "training"
      PROVE  Leads(k, c, Do("actor", <<a>>), Loc(s), Loc(s2))
  <2> DEFINE o == [do |-> a, of |-> "actor"]
  <2>1. ASSUME NEW l \in Loc(s) PROVE Fit(k, c, o, l) /\ After(k, c, o, l) \in Loc(s2)
    <3>1. l \in Views(k) /\ RandomIs(k, count, s, l.random, l.version, l.rank) BY DEF Where
    <3>2. Fit(k, c, o, l)
      BY <1>1, <3>1 DEF Fit, InPlace, Drawing, Generating, RandomIs
    <3>3. /\ VersionAfter(o, l.version) = l.version
          /\ EngineAfter(k, c, o, l.version, l.engine) = l.engine
          /\ GroupAfter(k, o, l.group) = l.group
          /\ MemoryAfter(k, o, l.memory) = l.memory
      BY DEF VersionAfter, EngineAfter, GroupAfter, MemoryAfter
    <3> DEFINE R == RandomAfter(k, c, o, l.rank, l.random)
    <3>4. R \in Randoms /\ RandomIs(k, count, s2, R, l.version, l.rank)
      <4>1. CASE a = "swap in" BY <1>1, <3>1, <4>1 DEF Views, Randoms, RandomAfter, RandomIs
      <4>2. CASE a = "swap out" BY <1>1, <3>1, <4>2 DEF Views, Randoms, RandomAfter, RandomIs
      <4> QED BY <4>1, <4>2
    <3> HIDE DEF R
    <3> DEFINE l2 == [rank |-> l.rank, memory |-> l.memory, version |-> l.version,
                      engine |-> l.engine, random |-> R, group |-> l.group]
    <3>5. l2 \in Views(k) BY <3>1, <3>4 DEF Views
    <3>6. l2 \in Loc(s2) BY <3>4, <3>5 DEF Where
    <3>7. After(k, c, o, l) = l2 BY <3>3 DEF After, R
    <3> QED BY <3>2, <3>6, <3>7
  <2>2. Loc(s) \in SUBSET Views(k) /\ Loc(s2) \in SUBSET Views(k) BY WhereIsAssertion
  <2>3. a \in Steps /\ "actor" \in ModelsOf(k) BY DEF Steps, ModelsOf
  <2> HIDE DEF Loc
  <2> QED BY <2>1, <2>2, <2>3, OneStep
<1>2. Leads(k, c, Do("actor", <<"swap in">>), Loc("training"), Loc("generation")) BY <1>1
<1>3. Leads(k, c, Do("actor", <<"swap out">>), Loc("generation"), Loc("training")) BY <1>1
<1> QED BY <1>2, <1>3

\* Back ends that swap the random states generate with a stream of their own.
StreamOf(k) == IF OwnStream(k) THEN "generation" ELSE "training"

\* Generation needs everything the properties say of it, and nothing but its random
\* state and the cache is changed by it.
LEMMA GenerateStep ==
  ASSUME NEW k \in Settings, NEW c, NEW count, NEW eng, NEW eng2,
         c.how \in {"rollout", "greedy", k.val},
         k.engine = "hf" => eng2 = eng,
         k.engine # "hf" => /\ eng = Eng({"weights", "cache"}, Asked(k, c), "synced")
                            /\ eng2 = Eng({"weights", "cache"}, Asked(k, c), "cached")
  PROVE  Leads(k, c, Do("actor", <<"generate">>),
               Where(k, count, Mem("actor", "away", {}), None, eng, StreamOf(k)),
               Where(k, count, Mem("actor", "idle", {}), None, eng2, StreamOf(k)))
<1> DEFINE o == [do |-> "generate", of |-> "actor"]
           s == StreamOf(k)
           P == Where(k, count, Mem("actor", "away", {}), None, eng, s)
           Q == Where(k, count, Mem("actor", "idle", {}), None, eng2, s)
<1>1. ASSUME NEW l \in P PROVE Fit(k, c, o, l) /\ After(k, c, o, l) \in Q
  <2>1. /\ l \in Views(k) /\ MemoryIs(k, Mem("actor", "away", {}), l.memory)
        /\ EngineIs(k, eng, l.engine, l.version)
        /\ RandomIs(k, count, s, l.random, l.version, l.rank) /\ GroupIs(None, l.group)
    BY DEF Where
  <2>2. /\ l.memory \in [ModelsOf(k) -> Place] /\ l.version \in [ModelsOf(k) -> Int]
        /\ l.random \in Randoms /\ l.engine \in Engines /\ "actor" \in ModelsOf(k)
    BY <2>1 DEF Views, ModelsOf
  <2>3. Fit(k, c, o, l)
    <3>1. InPlace(k, o, l) BY DEF InPlace
    <3>2. Drawing(k, o, l) BY <2>1 DEF Drawing, RandomIs, StreamOf
    <3>3. Generating(k, c, o, l)
      <4>1. CASE k.engine = "hf" BY <4>1 DEF Generating
      <4>2. CASE k.engine # "hf"
        <5>1. /\ l.engine.weights = l.version["actor"] /\ l.engine.sampling = Asked(k, c)
              /\ l.engine.cache = Empty /\ l.engine.awake = {"weights", "cache"}
          BY <2>1, <4>2 DEF EngineIs, Eng
        <5>2. GreedyValidation(k) => Asked(k, c) = c.how
          BY SettingsAssumption DEF GreedyValidation, Asked
        <5>3. ASSUME NEW n \in ModelsOf(k)
              PROVE  /\ Moved(k, n) /\ Trained(n) =>
                          l.memory[n].params = "cpu" /\ l.memory[n].optimizer # "gpu"
                     /\ ~l.memory[n].unsharded
          <6>1. Sits(k, n, IF n = "actor" THEN "away" ELSE "idle", l.memory[n])
            BY <2>1 DEF MemoryIs, Mem
          <6>2. ~l.memory[n].unsharded BY <2>1 DEF MemoryIs, Mem
          <6> QED BY <6>1, <6>2 DEF Sits, Trained
        <5> QED BY <5>1, <5>2, <5>3 DEF Generating
      <4> QED BY <4>1, <4>2
    <3> QED BY <3>1, <3>2, <3>3 DEF Fit
  <2>4. MemoryIs(k, Mem("actor", "idle", {}), l.memory)
    BY <2>1 DEF MemoryIs, Mem, Sits
  <2> DEFINE E == EngineAfter(k, c, o, l.version, l.engine)
             R == RandomAfter(k, c, o, l.rank, l.random)
  <2>5. E \in Engines /\ EngineIs(k, eng2, E, l.version)
    <3> DEFINE d == IF l.engine.cache = Empty THEN l.engine.weights ELSE l.engine.cache
    <3>1. E = [l.engine EXCEPT !.cache = d] BY DEF EngineAfter
    <3>2. d \in Int BY <2>2 DEF Engines
    <3> HIDE DEF d, E
    <3>3. E \in Engines /\ E.cache = d /\ E.weights = l.engine.weights /\ E.sampling = l.engine.sampling
          /\ E.awake = l.engine.awake
      BY <2>2, <3>1, <3>2 DEF Engines
    <3>4. CASE k.engine = "hf" BY <2>1, <3>3, <3>4 DEF EngineIs
    <3>5. CASE k.engine # "hf"
      <4>1. l.engine.cache = Empty /\ l.engine.weights = l.version["actor"]
            /\ l.engine.sampling = Asked(k, c) /\ l.engine.awake = {"weights", "cache"}
        BY <2>1, <3>5 DEF EngineIs, Eng
      <4>2. d = l.version["actor"] BY <4>1 DEF d
      <4> QED BY <3>3, <3>5, <4>1, <4>2 DEF EngineIs, Eng
    <3> QED BY <3>3, <3>4, <3>5
  <2>6. R \in Randoms /\ RandomIs(k, count, s, R, l.version, l.rank)
    <3> DEFINE N == [l.random.now EXCEPT !.draws = l.random.now.draws + 1]
    <3>1. N \in Streams /\ N.name = l.random.now.name /\ N.id = l.random.now.id
      BY <2>2 DEF Randoms, Streams
    <3>2. R = IF c.how # "greedy" THEN [l.random EXCEPT !.now = N] ELSE l.random
      BY DEF RandomAfter, Drawn
    <3>4. OwnStream(k) => s = "generation" BY DEF StreamOf
    <3> HIDE DEF N, R, s
    <3>3. /\ R \in Randoms /\ R.training = l.random.training /\ R.generation = l.random.generation
          /\ R.now.name = l.random.now.name /\ R.now.id = l.random.now.id
      BY <2>2, <3>1, <3>2 DEF Randoms
    <3> QED BY <2>1, <3>3, <3>4 DEF RandomIs
  <2>7. /\ VersionAfter(o, l.version) = l.version /\ MemoryAfter(k, o, l.memory) = l.memory
        /\ GroupAfter(k, o, l.group) = l.group
    BY DEF VersionAfter, MemoryAfter, GroupAfter
  <2> HIDE DEF E, R
  <2> DEFINE l2 == [rank |-> l.rank, memory |-> l.memory, version |-> l.version,
                    engine |-> E, random |-> R, group |-> l.group]
  <2>8. l2 \in Views(k) BY <2>1, <2>5, <2>6 DEF Views
  <2>9. l2 \in Q BY <2>1, <2>4, <2>5, <2>6, <2>8 DEF Where
  <2>10. After(k, c, o, l) = l2 BY <2>7 DEF After, E, R
  <2> QED BY <2>3, <2>9, <2>10
<1>2. P \in SUBSET Views(k) /\ Q \in SUBSET Views(k) BY WhereIsAssertion
<1>3. "generate" \in Steps /\ "actor" \in ModelsOf(k) BY DEF Steps, ModelsOf
<1> HIDE DEF P, Q
<1>4. Leads(k, c, Do("actor", <<"generate">>), P, Q) BY <1>1, <1>2, <1>3, OneStep
<1> QED BY <1>4 DEF P, Q

---------------------------------------------------------------------------
(* Calls                                                                     *)

LEMMA OfTheSetting ==
  ASSUME NEW k, config = k
  PROVE  /\ Models = ModelsOf(k) /\ (Megatron <=> Mega(k))
         /\ \A m : Sp(m) = SpOf(k, m)
         /\ \A m : (ByFsdp(m) <=> MovedByFsdp(k, m)) /\ (Offloads(m) <=> Moved(k, m))
BY DEF Models, ModelsOf, Megatron, Mega, Sp, SpOf, ByFsdp, MovedByFsdp, Offloads, Moved

\* Between calls no model is at work; a model that never moves is where it is; and only
\* FSDP on several ranks leaves a root whole.
LEMMA SameIdle ==
  ASSUME NEW k, NEW count, NEW m, NEW n, NEW whole, NEW grp, NEW eng, NEW run
  PROVE  Where(k, count, Mem(m, "idle", whole), grp, eng, run)
           = Where(k, count, Mem(n, "idle", whole), grp, eng, run)
<1>1. \A M : MemoryIs(k, Mem(m, "idle", whole), M) <=> MemoryIs(k, Mem(n, "idle", whole), M)
  BY DEF MemoryIs, Mem
<1> QED BY <1>1 DEF Where

LEMMA SameUnmoved ==
  ASSUME NEW k, NEW count, NEW m, NEW is, NEW is2, NEW whole, NEW grp, NEW eng, NEW run,
         ~Moved(k, m)
  PROVE  Where(k, count, Mem(m, is, whole), grp, eng, run)
           = Where(k, count, Mem(m, is2, whole), grp, eng, run)
<1>1. \A M : MemoryIs(k, Mem(m, is, whole), M) <=> MemoryIs(k, Mem(m, is2, whole), M)
  BY DEF MemoryIs, Mem, Sits
<1> QED BY <1>1 DEF Where

LEMMA SameSharded ==
  ASSUME NEW k, NEW count, NEW m, NEW is, NEW whole, NEW whole2, NEW grp, NEW eng, NEW run,
         Mega(k) \/ ~(k.world > 1)
  PROVE  Where(k, count, Mem(m, is, whole), grp, eng, run)
           = Where(k, count, Mem(m, is, whole2), grp, eng, run)
<1>1. \A M : MemoryIs(k, Mem(m, is, whole), M) <=> MemoryIs(k, Mem(m, is, whole2), M)
  BY DEF MemoryIs, Mem
<1> QED BY <1>1 DEF Where

LEMMA LeadsNowhere ==
  ASSUME NEW k, NEW c, NEW P \in SUBSET Views(k)
  PROVE  Leads(k, c, <<>>, P, P)
BY ChainEmpty DEF Leads

LEMMA LeadsJoin ==
  ASSUME NEW k, NEW c, NEW s, NEW t, NEW P, NEW M, NEW Q,
         Leads(k, c, s, P, M), Leads(k, c, t, M, Q)
  PROVE  Leads(k, c, s \o t, P, Q)
BY ChainJoin DEF Leads

LEMMA DoLeads ==
  ASSUME NEW k, NEW c, NEW m, NEW v \in Seq(Steps), NEW w \in Seq(Steps), NEW P, NEW M, NEW Q,
         Leads(k, c, Do(m, v), P, M), Leads(k, c, Do(m, w), M, Q)
  PROVE  Leads(k, c, Do(m, v \o w), P, Q)
<1>1. Do(m, v \o w) = Do(m, v) \o Do(m, w) BY DoJoin
<1> QED BY <1>1, LeadsJoin

LEMMA Tuples ==
  ASSUME NEW S, NEW a \in S, NEW b \in S
  PROVE  /\ <<a>> \in Seq(S) /\ <<b>> \in Seq(S) /\ <<a, b>> \in Seq(S)
         /\ <<a, b>> = <<a>> \o <<b>>
<1>1. <<a>> \in Seq(S) /\ <<b>> \in Seq(S) /\ <<a, b>> \in Seq(S) OBVIOUS
<1> DEFINE s == <<a>>
           t == <<b>>
           u == <<a, b>>
<1>2. Len(s) = 1 /\ s[1] = a /\ Len(t) = 1 /\ t[1] = b /\ Len(u) = 2 /\ u[1] = a /\ u[2] = b OBVIOUS
<1>3. s \in Seq(S) /\ t \in Seq(S) /\ u \in Seq(S) BY <1>1
<1> HIDE DEF s, t, u
<1>4. s \o t \in Seq(S) /\ Len(s \o t) = 2 /\ (s \o t)[1] = a /\ (s \o t)[2] = b
  <2>1. /\ s \o t \in Seq(S) /\ Len(s \o t) = Len(s) + Len(t)
        /\ \A i \in 1 .. Len(s) + Len(t) :
             (s \o t)[i] = IF i <= Len(s) THEN s[i] ELSE t[i - Len(s)]
    BY <1>3, ElementsOfJoin
  <2> QED BY ONLY <1>2, <2>1
<1>5. u = s \o t BY <1>2, <1>3, <1>4
<1> QED BY <1>1, <1>5 DEF s, t, u

LEMMA TwoSteps ==
  ASSUME NEW k, NEW c, NEW m, NEW a \in Steps, NEW b \in Steps, NEW P, NEW M, NEW Q,
         Leads(k, c, Do(m, <<a>>), P, M), Leads(k, c, Do(m, <<b>>), M, Q)
  PROVE  Leads(k, c, Do(m, <<a, b>>), P, Q)
<1>1. <<a, b>> = <<a>> \o <<b>> /\ <<a>> \in Seq(Steps) /\ <<b>> \in Seq(Steps) BY Tuples
<1> QED BY <1>1, DoLeads

\* Loading and offloading, of models that are moved and of others.
LEMMA LoadingCalls ==
  ASSUME NEW k \in Settings, config = k, NEW c, NEW m \in ModelsOf(k),
         NEW count, NEW whole, NEW grp, NEW eng, NEW run
  PROVE  LET Loc(is) == Where(k, count, Mem(m, is, whole), grp, eng, run)
         IN  /\ Leads(k, c, LoadParams(m), Loc("idle"), Loc("params"))
             /\ Leads(k, c, LoadAll(m), Loc("idle"), Loc("loaded"))
             /\ Leads(k, c, OffloadParams(m), Loc("params"), Loc("idle"))
             /\ Leads(k, c, OffloadAll(m), Loc("loaded"), Loc("idle"))
             /\ Leads(k, c, OffloadAll(m), Loc("params"), Loc("away"))
<1> DEFINE Loc(is) == Where(k, count, Mem(m, is, whole), grp, eng, run)
<1>1. Offloads(m) <=> Moved(k, m) BY OfTheSetting
<1>2. CASE Moved(k, m)
  <2>1. /\ Leads(k, c, Do(m, <<"load params">>), Loc("idle"), Loc("params"))
        /\ Leads(k, c, Do(m, <<"load optimizer">>), Loc("params"), Loc("loaded"))
        /\ Leads(k, c, Do(m, <<"offload params">>), Loc("loaded"), Loc("unloading"))
        /\ Leads(k, c, Do(m, <<"offload optimizer">>), Loc("unloading"), Loc("idle"))
        /\ Leads(k, c, Do(m, <<"offload params">>), Loc("params"), Loc("away"))
        /\ Leads(k, c, Do(m, <<"offload params">>), Loc("params"), Loc("idle"))
        /\ Leads(k, c, Do(m, <<"offload optimizer">>), Loc("away"), Loc("away"))
    BY <1>2, Loading
  <2>2. {"load params", "load optimizer", "offload params", "offload optimizer"} \subseteq Steps
    BY DEF Steps, MemorySteps
  <2> HIDE DEF Loc
  <2>3. Leads(k, c, Do(m, <<"load params", "load optimizer">>), Loc("idle"), Loc("loaded"))
    BY <2>1, <2>2, TwoSteps
  <2>4. /\ Leads(k, c, Do(m, <<"offload params", "offload optimizer">>), Loc("loaded"), Loc("idle"))
        /\ Leads(k, c, Do(m, <<"offload params", "offload optimizer">>), Loc("params"), Loc("away"))
    BY <2>1, <2>2, TwoSteps
  <2>5. /\ LoadParams(m) = Do(m, <<"load params">>)
        /\ LoadAll(m) = Do(m, <<"load params", "load optimizer">>)
        /\ OffloadParams(m) = Do(m, <<"offload params">>)
        /\ OffloadAll(m) = Do(m, <<"offload params", "offload optimizer">>)
    BY <1>1, <1>2 DEF LoadParams, LoadAll, OffloadParams, OffloadAll, When
  <2>6. /\ Leads(k, c, LoadParams(m), Loc("idle"), Loc("params"))
        /\ Leads(k, c, LoadAll(m), Loc("idle"), Loc("loaded"))
        /\ Leads(k, c, OffloadParams(m), Loc("params"), Loc("idle"))
        /\ Leads(k, c, OffloadAll(m), Loc("loaded"), Loc("idle"))
        /\ Leads(k, c, OffloadAll(m), Loc("params"), Loc("away"))
    BY <2>1, <2>3, <2>4, <2>5
  <2> QED BY <2>6 DEF Loc
<1>3. CASE ~Moved(k, m)
  <2>1. Loc("params") = Loc("idle") /\ Loc("loaded") = Loc("idle") /\ Loc("away") = Loc("idle")
    BY <1>3, SameUnmoved
  <2>2. /\ LoadParams(m) = <<>> /\ LoadAll(m) = <<>> /\ OffloadParams(m) = <<>> /\ OffloadAll(m) = <<>>
    BY <1>1, <1>3 DEF LoadParams, LoadAll, OffloadParams, OffloadAll, When
  <2>3. Loc("idle") \in SUBSET Views(k) BY WhereIsAssertion
  <2> HIDE DEF Loc
  <2>4. Leads(k, c, <<>>, Loc("idle"), Loc("idle")) BY <2>3, LeadsNowhere
  <2>5. /\ Leads(k, c, LoadParams(m), Loc("idle"), Loc("params"))
        /\ Leads(k, c, LoadAll(m), Loc("idle"), Loc("loaded"))
        /\ Leads(k, c, OffloadParams(m), Loc("params"), Loc("idle"))
        /\ Leads(k, c, OffloadAll(m), Loc("loaded"), Loc("idle"))
        /\ Leads(k, c, OffloadAll(m), Loc("params"), Loc("away"))
    BY <2>1, <2>2, <2>4
  <2> QED BY <2>5 DEF Loc
<1> QED BY <1>2, <1>3

\* What is computed is computed in the model's own sequence group.
LEMMA SequenceGroup ==
  ASSUME NEW k \in Settings, config = k, NEW c, NEW m \in ModelsOf(k), NEW a \in Steps,
         NEW count, NEW mem, NEW mem2, NEW eng,
         Leads(k, c, Do(m, <<a>>), Where(k, count, mem, OwnGroup(k, m), eng, "training"),
                                   Where(k, count, mem2, OwnGroup(k, m), eng, "training"))
  PROVE  Leads(k, c, InSequenceGroup(m, <<a>>), Where(k, count, mem, None, eng, "training"),
                                                Where(k, count, mem2, None, eng, "training"))
<1> DEFINE Loc(n, g) == Where(k, count, n, g, eng, "training")
<1>1. CASE Mega(k)
  <2>1. OwnGroup(k, m) = None BY <1>1 DEF OwnGroup, SpOf
  <2>2. InSequenceGroup(m, <<a>>) = Do(m, <<a>>) BY <1>1, OfTheSetting DEF InSequenceGroup
  <2> QED BY <2>1, <2>2
<1>2. CASE ~Mega(k)
  <2>1. /\ Leads(k, c, Do(m, <<"enter sequence group">>), Loc(mem, None), Loc(mem, OwnGroup(k, m)))
        /\ Leads(k, c, Do(m, <<"leave sequence group">>), Loc(mem2, OwnGroup(k, m)), Loc(mem2, None))
    BY GroupStep
  <2>2. /\ Leads(k, c, Do(m, <<"gather">>), Loc(mem, OwnGroup(k, m)), Loc(mem, OwnGroup(k, m)))
        /\ Leads(k, c, Do(m, <<"keep own rows">>), Loc(mem2, OwnGroup(k, m)), Loc(mem2, OwnGroup(k, m)))
    BY RowStep DEF RowSteps
  <2>3. {"enter sequence group", "gather", "keep own rows", "leave sequence group"} \subseteq Steps
    BY DEF Steps, MemorySteps
  <2>4. Leads(k, c, Do(m, <<a>>), Loc(mem, OwnGroup(k, m)), Loc(mem2, OwnGroup(k, m))) OBVIOUS
  <2> DEFINE before == <<"enter sequence group", "gather">>
             after == <<"keep own rows", "leave sequence group">>
             one == <<a>>
  <2>5. InSequenceGroup(m, one) = Do(m, before \o one \o after)
    BY <1>2, OfTheSetting DEF InSequenceGroup
  <2> HIDE DEF Loc
  <2>6. Leads(k, c, Do(m, before), Loc(mem, None), Loc(mem, OwnGroup(k, m)))
    BY <2>1, <2>2, <2>3, TwoSteps
  <2>7. Leads(k, c, Do(m, after), Loc(mem2, OwnGroup(k, m)), Loc(mem2, None))
    BY <2>1, <2>2, <2>3, TwoSteps
  <2>8. before \in Seq(Steps) /\ after \in Seq(Steps) /\ one \in Seq(Steps) BY <2>3, Tuples
  <2> HIDE DEF before, after
  <2>9. Leads(k, c, Do(m, one), Loc(mem, OwnGroup(k, m)), Loc(mem2, OwnGroup(k, m))) BY <2>4
  <2> HIDE DEF one
  <2>10. before \o one \in Seq(Steps) BY <2>8
  <2>11. Leads(k, c, Do(m, before \o one), Loc(mem, None), Loc(mem2, OwnGroup(k, m)))
    BY <2>6, <2>8, <2>9, DoLeads
  <2>12. Leads(k, c, Do(m, before \o one \o after), Loc(mem, None), Loc(mem2, None))
    BY <2>7, <2>8, <2>10, <2>11, DoLeads
  <2> QED BY <2>5, <2>12 DEF Loc, one
<1> QED BY <1>1, <1>2

\* Once the engine has generated for the first time, anything can be computed.
Going(k, m, is, whole, grp) ==
  Where(k, "all", Mem(m, is, whole), grp, Resting(k, "going"), "training")

LEMMA GoingIsRest ==
  ASSUME NEW k, NEW m
  PROVE  /\ Rest(k, "going") = Going(k, m, "idle", {}, None)
         /\ Rest(k, "values") = Going(k, m, "idle", {"critic"}, None)
<1>1. /\ CountAt("going") = "all" /\ WholeAt("going") = {}
      /\ CountAt("values") = "all" /\ WholeAt("values") = {"critic"}
      /\ Resting(k, "values") = Resting(k, "going")
  BY DEF CountAt, WholeAt, Resting, AwakeAt
<1>2. \A whole : Where(k, "all", Mem("actor", "idle", whole), None, Resting(k, "going"), "training")
                   = Where(k, "all", Mem(m, "idle", whole), None, Resting(k, "going"), "training")
  BY SameIdle
<1> QED BY <1>1, <1>2 DEF Rest, Going

LEMMA RestIsAssertion == \A k, stage : Rest(k, stage) \in SUBSET Views(k)
BY WhereIsAssertion DEF Rest

LEMMA GoingEngine ==
  ASSUME NEW k
  PROVE  LET eng == Resting(k, "going")
         IN  eng.awake = Kept(k) /\ eng.holds = "old"
BY DEF Resting, AwakeAt, Eng

\* The updates of the actor and of the critic.
LEMMA UpdateCall ==
  ASSUME NEW k \in Settings, config = k, NEW c, NEW m \in ModelsOf(k), Trained(m),
         NEW whole \in {{}, {m}}
  PROVE  Leads(k, c, LoadAll(m) \o InSequenceGroup(m, <<"update">>) \o OffloadAll(m),
               Going(k, m, "idle", whole, None), Going(k, m, "idle", {}, None))
<1> DEFINE Loc(is, w, g) == Going(k, m, is, w, g)
<1>1. /\ Leads(k, c, LoadAll(m), Loc("idle", whole, None), Loc("loaded", whole, None))
      /\ Leads(k, c, OffloadAll(m), Loc("loaded", {}, None), Loc("idle", {}, None))
  BY LoadingCalls DEF Going
<1>2. Leads(k, c, Do(m, <<"update">>), Loc("loaded", whole, OwnGroup(k, m)), Loc("loaded", {}, OwnGroup(k, m)))
  BY Updating, GoingEngine DEF Going
<1>3. "update" \in Steps BY DEF Steps
<1>4. Leads(k, c, InSequenceGroup(m, <<"update">>), Loc("loaded", whole, None), Loc("loaded", {}, None))
  BY <1>2, <1>3, SequenceGroup DEF Going
<1> HIDE DEF Loc
<1> QED BY <1>1, <1>4, LeadsJoin DEF Loc

\* Passes without a backward pass: the root is whole afterwards.
LEMMA ForwardCall ==
  ASSUME NEW k \in Settings, config = k, NEW c, NEW m \in ModelsOf(k)
  PROVE  Leads(k, c, InSequenceGroup(m, <<"forward">>),
               Going(k, m, "params", {}, None), Going(k, m, "params", {m}, None))
<1>1. Leads(k, c, Do(m, <<"forward">>),
            Going(k, m, "params", {}, OwnGroup(k, m)), Going(k, m, "params", {m}, OwnGroup(k, m)))
  BY ForwardPass, GoingEngine DEF Going
<1>2. "forward" \in Steps BY DEF Steps, MemorySteps
<1> QED BY <1>1, <1>2, SequenceGroup DEF Going

LEMMA ReshardCall ==
  ASSUME NEW k \in Settings, config = k, NEW c, NEW m \in ModelsOf(k), NEW is
  PROVE  /\ Leads(k, c, Reshard(m), Going(k, m, is, {m}, None), Going(k, m, is, {}, None))
         /\ Leads(k, c, When(~Megatron, Do(m, <<"reshard">>)),
                  Going(k, m, is, {m}, None), Going(k, m, is, {}, None))
<1> DEFINE P == Going(k, m, is, {m}, None)
           Q == Going(k, m, is, {}, None)
<1>1. Leads(k, c, Do(m, <<"reshard">>), P, Q) BY Resharding DEF Going
<1>2. Mega(k) \/ ~(k.world > 1) => P = Q BY SameSharded DEF Going
<1>3. P \in SUBSET Views(k) BY WhereIsAssertion DEF Going
<1>4. Megatron <=> Mega(k) BY OfTheSetting
<1> HIDE DEF P, Q
<1>5. Leads(k, c, <<>>, P, P) BY <1>3, LeadsNowhere
<1>6. Leads(k, c, Reshard(m), P, Q) BY <1>1, <1>2, <1>4, <1>5 DEF Reshard, When
<1>7. Leads(k, c, When(~Megatron, Do(m, <<"reshard">>)), P, Q) BY <1>1, <1>2, <1>4, <1>5 DEF When
<1> QED BY <1>6, <1>7 DEF P, Q

LEMMA LogProbCall ==
  ASSUME NEW k \in Settings, config = k, NEW c, NEW m \in ModelsOf(k)
  PROVE  Leads(k, c, LoadParams(m) \o InSequenceGroup(m, <<"forward">>)
                       \o Reshard(m) \o OffloadParams(m),
               Going(k, m, "idle", {}, None), Going(k, m, "idle", {}, None))
<1>1. /\ Leads(k, c, LoadParams(m), Going(k, m, "idle", {}, None), Going(k, m, "params", {}, None))
      /\ Leads(k, c, OffloadParams(m), Going(k, m, "params", {}, None), Going(k, m, "idle", {}, None))
  BY LoadingCalls DEF Going
<1>2. Leads(k, c, InSequenceGroup(m, <<"forward">>),
            Going(k, m, "params", {}, None), Going(k, m, "params", {m}, None))
  BY ForwardCall
<1>3. Leads(k, c, Reshard(m), Going(k, m, "params", {m}, None), Going(k, m, "params", {}, None))
  BY ReshardCall
<1>4. Leads(k, c, LoadParams(m) \o InSequenceGroup(m, <<"forward">>),
            Going(k, m, "idle", {}, None), Going(k, m, "params", {m}, None))
  BY <1>1, <1>2, LeadsJoin
<1>5. Leads(k, c, LoadParams(m) \o InSequenceGroup(m, <<"forward">>) \o Reshard(m),
            Going(k, m, "idle", {}, None), Going(k, m, "params", {}, None))
  BY <1>3, <1>4, LeadsJoin
<1> QED BY <1>1, <1>5, LeadsJoin

LEMMA ValuesCall ==
  ASSUME NEW k \in Settings, config = k, NEW c, "critic" \in ModelsOf(k)
  PROVE  Leads(k, c, compute_values, Rest(k, "going"), Rest(k, "values"))
<1> DEFINE m == "critic"
<1>1. /\ Leads(k, c, LoadParams(m), Going(k, m, "idle", {}, None), Going(k, m, "params", {}, None))
      /\ Leads(k, c, OffloadParams(m), Going(k, m, "params", {m}, None), Going(k, m, "idle", {m}, None))
  BY LoadingCalls DEF Going
<1>2. Leads(k, c, InSequenceGroup(m, <<"forward">>),
            Going(k, m, "params", {}, None), Going(k, m, "params", {m}, None))
  BY ForwardCall
<1>3. Leads(k, c, LoadParams(m) \o InSequenceGroup(m, <<"forward">>),
            Going(k, m, "idle", {}, None), Going(k, m, "params", {m}, None))
  BY <1>1, <1>2, LeadsJoin
<1>4. Leads(k, c, compute_values, Going(k, m, "idle", {}, None), Going(k, m, "idle", {m}, None))
  BY <1>1, <1>3, LeadsJoin DEF compute_values
<1> QED BY <1>4, GoingIsRest

LEMMA RewardModelCall ==
  ASSUME NEW k \in Settings, config = k, NEW c, "rm" \in ModelsOf(k)
  PROVE  Leads(k, c, compute_rm_score, Rest(k, "going"), Rest(k, "going"))
<1> DEFINE m == "rm"
<1>1. ~Moved(k, m) BY DEF Moved
<1>2. Going(k, m, "params", {}, None) = Going(k, m, "idle", {}, None)
  BY <1>1, SameUnmoved DEF Going
<1>3. Leads(k, c, InSequenceGroup(m, <<"forward">>),
            Going(k, m, "params", {}, None), Going(k, m, "params", {m}, None))
  BY ForwardCall
<1>4. Leads(k, c, When(~Megatron, Do(m, <<"reshard">>)),
            Going(k, m, "params", {m}, None), Going(k, m, "params", {}, None))
  BY ReshardCall
<1>5. Leads(k, c, compute_rm_score, Going(k, m, "params", {}, None), Going(k, m, "params", {}, None))
  BY <1>3, <1>4, LeadsJoin DEF compute_rm_score
<1> QED BY <1>2, <1>5, GoingIsRest

LEMMA SaveCall ==
  ASSUME NEW k \in Settings, config = k, NEW c, NEW m \in ModelsOf(k)
  PROVE  Leads(k, c, save_checkpoint(m), Rest(k, "going"), Rest(k, "going"))
<1>1. /\ Leads(k, c, LoadParams(m), Going(k, m, "idle", {}, None), Going(k, m, "params", {}, None))
      /\ Leads(k, c, OffloadParams(m), Going(k, m, "params", {}, None), Going(k, m, "idle", {}, None))
  BY LoadingCalls DEF Going
<1>2. Leads(k, c, Do(m, <<"save">>), Going(k, m, "params", {}, None), Going(k, m, "params", {}, None))
  BY Using DEF Going
<1>3. Leads(k, c, LoadParams(m) \o Do(m, <<"save">>),
            Going(k, m, "idle", {}, None), Going(k, m, "params", {}, None))
  BY <1>1, <1>2, LeadsJoin
<1>4. Leads(k, c, save_checkpoint(m), Going(k, m, "idle", {}, None), Going(k, m, "idle", {}, None))
  BY <1>1, <1>3, LeadsJoin DEF save_checkpoint
<1> QED BY <1>4, GoingIsRest

\* Restoring: from "ready" through "half", where there is a critic, back to "ready".
LEMMA LoadCall ==
  ASSUME NEW k \in Settings, config = k, NEW c, NEW m \in ModelsOf(k),
         NEW stage \in {"ready", "half"}, NEW stage2 \in {"ready", "half"},
         Restored(k, m, CountAt(stage), CountAt(stage2))
  PROVE  Leads(k, c, load_checkpoint(m), Rest(k, stage), Rest(k, stage2))
<1> DEFINE eng == Eng(Started(k), "rollout", "old")
           Loc(count, is) == Where(k, count, Mem(m, is, {}), None, eng, "training")
           n == CountAt(stage)
           n2 == CountAt(stage2)
<1>1. Leads(k, c, LoadParams(m), Loc(n, "idle"), Loc(n, "params")) BY LoadingCalls
<1>2. eng.holds = "old" BY DEF Eng
<1>3. Leads(k, c, Do(m, <<"restore">>), Loc(n, "params"), Loc(n2, "loaded"))
  <2> HIDE DEF eng, n, n2
  <2>1. Restored(k, m, n, n2) BY DEF n, n2
  <2> QED BY <1>2, <2>1, Restoring
<1>4. Leads(k, c, OffloadAll(m), Loc(n2, "loaded"), Loc(n2, "idle")) BY LoadingCalls
<1>5. Rest(k, stage) = Loc(n, "idle") /\ Rest(k, stage2) = Loc(n2, "idle")
  <2>1. ASSUME NEW s \in {"ready", "half"} PROVE Rest(k, s) = Loc(CountAt(s), "idle")
    <3>1. WholeAt(s) = {} /\ Resting(k, s) = eng BY DEF WholeAt, Resting, AwakeAt
    <3> HIDE DEF eng
    <3>2. Where(k, CountAt(s), Mem("actor", "idle", {}), None, eng, "training")
            = Where(k, CountAt(s), Mem(m, "idle", {}), None, eng, "training")
      BY SameIdle
    <3> QED BY <3>1, <3>2 DEF Rest
  <2> QED BY <2>1
<1> HIDE DEF Loc, n, n2
<1>6. Leads(k, c, LoadParams(m) \o Do(m, <<"restore">>), Loc(n, "idle"), Loc(n2, "loaded"))
  BY <1>1, <1>3, LeadsJoin
<1>7. Leads(k, c, load_checkpoint(m), Loc(n, "idle"), Loc(n2, "idle"))
  BY <1>4, <1>6, LeadsJoin DEF load_checkpoint
<1> QED BY <1>5, <1>7

\* Tuples of three steps and more, and where they lead.
LEMMA JoinOne ==
  ASSUME NEW S, NEW a \in S, NEW t \in Seq(S), NEW u \in Seq(S), Len(u) = Len(t) + 1,
         \A i \in 1 .. Len(t) : u[i] = t[i], u[Len(t) + 1] = a
  PROVE  u = t \o <<a>>
<1> DEFINE s == <<a>>
           v == t \o s
<1>1. s \in Seq(S) /\ Len(s) = 1 /\ s[1] = a OBVIOUS
<1> HIDE DEF s
<1>2. v \in Seq(S) /\ Len(v) = Len(t) + Len(s)
  BY <1>1, ElementsOfJoin
<1>6. \A i \in 1 .. Len(t) + Len(s) : v[i] = IF i <= Len(t) THEN t[i] ELSE s[i - Len(t)]
  BY <1>1, ElementsOfJoin
<1> HIDE DEF v
<1>3. Len(t) \in Nat OBVIOUS
<1>4. ASSUME NEW i \in 1 .. Len(t) + 1 PROVE u[i] = v[i]
  <2>1. CASE i <= Len(t) BY <1>6, <1>1, <1>3, <2>1
  <2>2. CASE i = Len(t) + 1
    <3>1. ~(i <= Len(t)) /\ i - Len(t) = 1 BY <1>3, <2>2
    <3> QED BY <1>1, <1>6, <2>2, <3>1
  <2> QED BY <1>3, <2>1, <2>2
<1>5. u = v BY <1>1, <1>2, <1>4
<1> QED BY <1>5 DEF v, s

LEMMA TupleOf3 ==
  ASSUME NEW a \in Steps, NEW b \in Steps, NEW d \in Steps
  PROVE  /\ <<a, b, d>> \in Seq(Steps) /\ <<a, b>> \in Seq(Steps) /\ <<d>> \in Seq(Steps)
         /\ <<a, b, d>> = <<a, b>> \o <<d>>
<1> DEFINE t == <<a, b>>
           u == <<a, b, d>>
<1>1. t \in Seq(Steps) /\ u \in Seq(Steps) /\ <<d>> \in Seq(Steps) OBVIOUS
<1>2. Len(t) = 2 /\ Len(u) = 3 /\ u[1] = t[1] /\ u[2] = t[2] /\ u[3] = d
  OBVIOUS
<1> HIDE DEF t, u
<1>3. \A i \in 1 .. 2 : i = 1 \/ i = 2 OBVIOUS
<1>4. Len(u) = Len(t) + 1 /\ u[Len(t) + 1] = d /\ \A i \in 1 .. Len(t) : u[i] = t[i]
  BY <1>2, <1>3
<1>5. u = t \o <<d>> BY <1>1, <1>4, JoinOne
<1> QED BY <1>1, <1>5 DEF t, u

LEMMA ThreeSteps ==
  ASSUME NEW k, NEW c, NEW m, NEW a \in Steps, NEW b \in Steps, NEW d \in Steps,
         NEW P, NEW M1, NEW M2, NEW Q,
         Leads(k, c, Do(m, <<a>>), P, M1), Leads(k, c, Do(m, <<b>>), M1, M2),
         Leads(k, c, Do(m, <<d>>), M2, Q)
  PROVE  Leads(k, c, Do(m, <<a, b, d>>), P, Q)
<1>1. Leads(k, c, Do(m, <<a, b>>), P, M2) BY TwoSteps
<1>2. <<a, b, d>> = <<a, b>> \o <<d>> /\ <<a, b>> \in Seq(Steps) /\ <<d>> \in Seq(Steps)
  BY TupleOf3
<1> QED BY <1>1, <1>2, DoLeads

LEMMA FourSteps ==
  ASSUME NEW k, NEW c, NEW m, NEW a \in Steps, NEW b \in Steps, NEW d \in Steps, NEW e \in Steps,
         NEW P, NEW M1, NEW M2, NEW M3, NEW Q,
         Leads(k, c, Do(m, <<a>>), P, M1), Leads(k, c, Do(m, <<b>>), M1, M2),
         Leads(k, c, Do(m, <<d>>), M2, M3), Leads(k, c, Do(m, <<e>>), M3, Q)
  PROVE  Leads(k, c, Do(m, <<a, b, d, e>>), P, Q)
<1>1. Leads(k, c, Do(m, <<a, b, d>>), P, M3) BY ThreeSteps
<1>2. /\ <<a, b, d, e>> = <<a, b, d>> \o <<e>>
      /\ <<a, b, d>> \in Seq(Steps) /\ <<e>> \in Seq(Steps)
  <2> DEFINE t == <<a, b, d>>
             u == <<a, b, d, e>>
  <2>1. t \in Seq(Steps) /\ u \in Seq(Steps) /\ <<e>> \in Seq(Steps) OBVIOUS
  <2>2. Len(t) = 3 /\ Len(u) = 4 /\ u[1] = t[1] /\ u[2] = t[2] /\ u[3] = t[3] /\ u[4] = e
    OBVIOUS
  <2> HIDE DEF t, u
  <2>3. \A i \in 1 .. 3 : i = 1 \/ i = 2 \/ i = 3 OBVIOUS
  <2>4. Len(u) = Len(t) + 1 /\ u[Len(t) + 1] = e /\ \A i \in 1 .. Len(t) : u[i] = t[i]
    BY <2>2, <2>3
  <2>5. u = t \o <<e>> BY <2>1, <2>4, JoinOne
  <2> QED BY <2>1, <2>5 DEF t, u
<1> QED BY <1>1, <1>2, DoLeads

LEMMA FiveSteps ==
  ASSUME NEW k, NEW c, NEW m, NEW a \in Steps, NEW b \in Steps, NEW d \in Steps, NEW e \in Steps,
         NEW g \in Steps, NEW P, NEW M1, NEW M2, NEW M3, NEW M4, NEW Q,
         Leads(k, c, Do(m, <<a>>), P, M1), Leads(k, c, Do(m, <<b>>), M1, M2),
         Leads(k, c, Do(m, <<d>>), M2, M3), Leads(k, c, Do(m, <<e>>), M3, M4),
         Leads(k, c, Do(m, <<g>>), M4, Q)
  PROVE  Leads(k, c, Do(m, <<a, b, d, e, g>>), P, Q)
<1>1. Leads(k, c, Do(m, <<a, b, d, e>>), P, M4) BY FourSteps
<1>2. /\ <<a, b, d, e, g>> = <<a, b, d, e>> \o <<g>>
      /\ <<a, b, d, e>> \in Seq(Steps) /\ <<g>> \in Seq(Steps)
  <2> DEFINE t == <<a, b, d, e>>
             u == <<a, b, d, e, g>>
  <2>1. t \in Seq(Steps) /\ u \in Seq(Steps) /\ <<g>> \in Seq(Steps) OBVIOUS
  <2>2. Len(t) = 4 /\ Len(u) = 5 /\ u[1] = t[1] /\ u[2] = t[2] /\ u[3] = t[3] /\ u[4] = t[4] /\ u[5] = g
    OBVIOUS
  <2> HIDE DEF t, u
  <2>3. \A i \in 1 .. 4 : i = 1 \/ i = 2 \/ i = 3 \/ i = 4 OBVIOUS
  <2>4. Len(u) = Len(t) + 1 /\ u[Len(t) + 1] = g /\ \A i \in 1 .. Len(t) : u[i] = t[i]
    BY <2>2, <2>3
  <2>5. u = t \o <<g>> BY <2>1, <2>4, JoinOne
  <2> QED BY <2>1, <2>5 DEF t, u
<1> QED BY <1>1, <1>2, DoLeads

\* generate_sequences: with its parameters on the GPU the actor's weights go to the engine,
\* then it leaves the GPU and the engine generates.
Entered(k, awake) ==
  IF k.engine = "hf" THEN Eng(awake, "rollout", "old")
  ELSE IF k.engine = "vllm063" THEN Eng(awake \cup {"weights"}, "rollout", "synced")
  ELSE Eng({"weights", "cache"}, "rollout", "synced")

\* What is awake before a generation: nothing, or what the old vLLM keeps.
Before(k, awake) ==
  IF k.engine = "vllm063" THEN awake = {"cache"} \/ (k.free /\ awake = {}) ELSE awake = {}

\* The engine when it has generated.
Left(k, awake) ==
  IF k.engine = "hf" THEN Eng(awake, "rollout", "old")
  ELSE IF k.engine = "vllm063" /\ k.free THEN Eng({"weights"}, "rollout", "synced")
  ELSE IF k.engine = "sglang" /\ k.free THEN Eng({"weights", "cache"}, "rollout", "synced")
  ELSE Eng({"weights", "cache"}, "rollout", "cached")

Inside(k, is, eng, run) == Where(k, "all", Mem("actor", is, {}), None, eng, run)

LEMMA InsideRules ==
  ASSUME NEW k, NEW c, NEW is, NEW run, NEW awake, NEW sampling, NEW holds
  PROVE  /\ Leads(k, c, Do("actor", <<"wake weights">>),
                  Inside(k, is, Eng(awake, sampling, holds), run),
                  Inside(k, is, Eng(awake \cup {"weights"}, sampling, holds), run))
         /\ Leads(k, c, Do("actor", <<"wake cache">>),
                  Inside(k, is, Eng(awake, sampling, holds), run),
                  Inside(k, is, Eng(awake \cup {"cache"}, sampling, holds), run))
         /\ Leads(k, c, Do("actor", <<"make cache">>),
                  Inside(k, is, Eng(awake, sampling, holds), run),
                  Inside(k, is, Eng(awake \cup {"cache"}, sampling, holds), run))
         /\ "weights" \in awake =>
              Leads(k, c, Do("actor", <<"sync">>),
                    Inside(k, is, Eng(awake, sampling, "old"), run),
                    Inside(k, is, Eng(awake, sampling, "synced"), run))
         /\ Leads(k, c, Do("actor", <<"set sampling">>),
                  Inside(k, is, Eng(awake, "rollout", holds), run),
                  Inside(k, is, Eng(awake, Asked(k, c), holds), run))
         /\ Leads(k, c, Do("actor", <<"roll back sampling">>),
                  Inside(k, is, Eng(awake, sampling, holds), run),
                  Inside(k, is, Eng(awake, "rollout", holds), run))
         /\ Leads(k, c, Do("actor", <<"free cache">>),
                  Inside(k, is, Eng(awake, sampling, "cached"), run),
                  Inside(k, is, Eng(awake \ {"cache"}, sampling, "synced"), run))
         /\ Leads(k, c, Do("actor", <<"flush cache">>),
                  Inside(k, is, Eng(awake, sampling, "cached"), run),
                  Inside(k, is, Eng(awake, sampling, "synced"), run))
         /\ Leads(k, c, Do("actor", <<"sleep">>),
                  Inside(k, is, Eng(awake, sampling, holds), run),
                  Inside(k, is, Eng(Slept(k, awake), sampling, "old"), run))
BY EngineRules DEF Inside

LEMMA InsideSwap ==
  ASSUME NEW k, NEW c, NEW is, NEW eng
  PROVE  /\ Leads(k, c, Do("actor", <<"swap in">>),
                  Inside(k, is, eng, "training"), Inside(k, is, eng, "generation"))
         /\ Leads(k, c, Do("actor", <<"swap out">>),
                  Inside(k, is, eng, "generation"), Inside(k, is, eng, "training"))
BY Swapping DEF Inside

LEMMA EnterCall ==
  ASSUME NEW k \in Settings, config = k, NEW c, NEW awake, Before(k, awake)
  PROVE  Leads(k, c, Do("actor", Enter),
               Inside(k, "params", Eng(awake, "rollout", "old"), "training"),
               Inside(k, "params", Entered(k, awake), StreamOf(k)))
<1> DEFINE Loc(eng, run) == Inside(k, "params", eng, run)
           E(a, h) == Eng(a, "rollout", h)
           W == {"weights"}
           B == {"weights", "cache"}
           Does(a, P, Q) == Leads(k, c, Do("actor", <<a>>), P, Q)
           r == "training"
<1>1. {"state dict", "wake weights", "wake cache", "sync", "swap in"} \subseteq Steps
  BY DEF Steps, MemorySteps, EngineSteps
<1>2. Does("state dict", Loc(E(awake, "old"), r), Loc(E(awake, "old"), r))
  BY Using DEF Inside, ModelsOf
<1>3. Does("wake weights", Loc(E(awake, "old"), r), Loc(E(awake \cup W, "old"), r)) BY InsideRules
<1>4. Does("sync", Loc(E(awake \cup W, "old"), r), Loc(E(awake \cup W, "synced"), r))
  <2>1. "weights" \in awake \cup W OBVIOUS
  <2> HIDE DEF W
  <2> QED BY <2>1, InsideRules
<1>5. Does("wake cache", Loc(E(W, "synced"), r), Loc(E(B, "synced"), r))
  <2>1. W \cup {"cache"} = B OBVIOUS
  <2> HIDE DEF W, B
  <2> QED BY <2>1, InsideRules
<1>6. /\ Does("wake cache", Loc(E(W, "old"), r), Loc(E(B, "old"), r))
      /\ Does("sync", Loc(E(B, "old"), r), Loc(E(B, "synced"), r))
  <2>1. W \cup {"cache"} = B /\ "weights" \in B OBVIOUS
  <2> HIDE DEF W, B
  <2> QED BY <2>1, InsideRules
<1>7. \A eng : Does("swap in", Loc(eng, r), Loc(eng, "generation")) BY InsideSwap
<1>8. k.engine \in {"vllm", "untagged", "vllm063", "sglang", "hf", "megatron"}
  BY SettingsAssumption
<1>9. k.engine # "vllm063" => awake = {} /\ awake \cup W = W BY DEF Before
<1> HIDE DEF Loc, E, W, B, Does, r
<1>10. CASE k.engine = "vllm"
  <2>1. Enter = <<"state dict", "wake weights", "sync", "wake cache", "swap in">>
    BY <1>10 DEF Enter, FsdpVllmEnter
  <2>2. Entered(k, awake) = E(B, "synced") /\ StreamOf(k) = "generation"
    BY <1>10 DEF Entered, StreamOf, OwnStream, E, B
  <2>3. Leads(k, c, Do("actor", <<"state dict", "wake weights", "sync", "wake cache", "swap in">>),
              Loc(E(awake, "old"), r), Loc(E(B, "synced"), "generation"))
    <3>1. awake \cup W = W BY <1>9, <1>10
    <3>2. /\ Does("wake weights", Loc(E(awake, "old"), r), Loc(E(W, "old"), r))
          /\ Does("sync", Loc(E(W, "old"), r), Loc(E(W, "synced"), r))
          /\ Does("swap in", Loc(E(B, "synced"), r), Loc(E(B, "synced"), "generation"))
      BY <1>3, <1>4, <1>7, <3>1
    <3> DEFINE P0 == Loc(E(awake, "old"), r)
               P1 == Loc(E(W, "old"), r)
               P2 == Loc(E(W, "synced"), r)
               P3 == Loc(E(B, "synced"), r)
               P4 == Loc(E(B, "synced"), "generation")
    <3>3. /\ Leads(k, c, Do("actor", <<"state dict">>), P0, P0)
          /\ Leads(k, c, Do("actor", <<"wake weights">>), P0, P1)
          /\ Leads(k, c, Do("actor", <<"sync">>), P1, P2)
          /\ Leads(k, c, Do("actor", <<"wake cache">>), P2, P3)
          /\ Leads(k, c, Do("actor", <<"swap in">>), P3, P4)
      BY <1>2, <1>5, <3>2 DEF Does
    <3> HIDE DEF P0, P1, P2, P3, P4
    <3>4. Leads(k, c, Do("actor", <<"state dict", "wake weights", "sync", "wake cache", "swap in">>), P0, P4)
      BY <1>1, <3>3, FiveSteps
    <3> QED BY <3>4 DEF P0, P4
  <2> QED BY <2>1, <2>2, <2>3 DEF Loc, E, r
<1>11. CASE k.engine = "vllm063"
  <2>1. Enter = <<"state dict", "wake weights", "sync", "swap in">>
    BY <1>11 DEF Enter, FsdpVllmEnter
  <2>2. Entered(k, awake) = E(awake \cup W, "synced") /\ StreamOf(k) = "generation"
    BY <1>11 DEF Entered, StreamOf, OwnStream, E, W
  <2>3. Leads(k, c, Do("actor", <<"state dict", "wake weights", "sync", "swap in">>),
              Loc(E(awake, "old"), r), Loc(E(awake \cup W, "synced"), "generation"))
    BY <1>1, <1>2, <1>3, <1>4, <1>7, FourSteps DEF Does
  <2> QED BY <2>1, <2>2, <2>3 DEF Loc, E, r
<1>12. CASE k.engine \in {"untagged", "sglang"}
  <2>1. Enter = <<"state dict", "wake weights", "wake cache", "sync", "swap in">>
    BY <1>12 DEF Enter, FsdpVllmEnter, FsdpSglangEnter
  <2>2. Entered(k, awake) = E(B, "synced") /\ StreamOf(k) = "generation"
    BY <1>12 DEF Entered, StreamOf, OwnStream, E, B
  <2>3. Leads(k, c, Do("actor", <<"state dict", "wake weights", "wake cache", "sync", "swap in">>),
              Loc(E(awake, "old"), r), Loc(E(B, "synced"), "generation"))
    <3>1. awake \cup W = W BY <1>9, <1>12
    <3>2. /\ Does("wake weights", Loc(E(awake, "old"), r), Loc(E(W, "old"), r))
          /\ Does("swap in", Loc(E(B, "synced"), r), Loc(E(B, "synced"), "generation"))
      BY <1>3, <1>7, <3>1
    <3> DEFINE P0 == Loc(E(awake, "old"), r)
               P1 == Loc(E(W, "old"), r)
               P2 == Loc(E(B, "old"), r)
               P3 == Loc(E(B, "synced"), r)
               P4 == Loc(E(B, "synced"), "generation")
    <3>3. /\ Leads(k, c, Do("actor", <<"state dict">>), P0, P0)
          /\ Leads(k, c, Do("actor", <<"wake weights">>), P0, P1)
          /\ Leads(k, c, Do("actor", <<"wake cache">>), P1, P2)
          /\ Leads(k, c, Do("actor", <<"sync">>), P2, P3)
          /\ Leads(k, c, Do("actor", <<"swap in">>), P3, P4)
      BY <1>2, <1>6, <3>2 DEF Does
    <3> HIDE DEF P0, P1, P2, P3, P4
    <3>4. Leads(k, c, Do("actor", <<"state dict", "wake weights", "wake cache", "sync", "swap in">>), P0, P4)
      BY <1>1, <3>3, FiveSteps
    <3> QED BY <3>4 DEF P0, P4
  <2> QED BY <2>1, <2>2, <2>3 DEF Loc, E, r
<1>13. CASE k.engine = "megatron"
  <2>1. Enter = <<"wake weights", "sync", "wake cache">> BY <1>13 DEF Enter, MegatronEnter
  <2>2. Entered(k, awake) = E(B, "synced") /\ StreamOf(k) = r
    BY <1>13 DEF Entered, StreamOf, OwnStream, E, B, r
  <2>3. Leads(k, c, Do("actor", <<"wake weights", "sync", "wake cache">>),
              Loc(E(awake, "old"), r), Loc(E(B, "synced"), r))
    BY <1>1, <1>3, <1>4, <1>5, <1>9, <1>13, ThreeSteps DEF Does
  <2> QED BY <2>1, <2>2, <2>3 DEF Loc, E, r
<1>14. CASE k.engine = "hf"
  <2>1. Enter = <<>> BY <1>14 DEF Enter
  <2>2. Entered(k, awake) = E(awake, "old") /\ StreamOf(k) = r
    BY <1>14 DEF Entered, StreamOf, OwnStream, E, r
  <2>3. Do("actor", <<>>) = <<>> BY DEF Do
  <2>4. Loc(E(awake, "old"), r) \in SUBSET Views(k) BY WhereIsAssertion DEF Loc, Inside
  <2>5. Leads(k, c, <<>>, Loc(E(awake, "old"), r), Loc(E(awake, "old"), r)) BY <2>4, LeadsNowhere
  <2> QED BY <2>1, <2>2, <2>3, <2>5 DEF Loc, E, r
<1> QED BY <1>8, <1>10, <1>11, <1>12, <1>13, <1>14

\* The three steps of a generation, for a back end with an engine.
LEMMA Sampling ==
  ASSUME NEW k \in Settings, NEW c, c.how \in {"rollout", "greedy", k.val}, k.engine # "hf"
  PROVE  /\ VllmGenerate \in Seq(Steps)
         /\ Leads(k, c, Do("actor", VllmGenerate),
                  Inside(k, "away", Eng({"weights", "cache"}, "rollout", "synced"), StreamOf(k)),
                  Inside(k, "idle", Eng({"weights", "cache"}, "rollout", "cached"), StreamOf(k)))
<1> DEFINE B == {"weights", "cache"}
           A == Asked(k, c)
           r == StreamOf(k)
           P0 == Inside(k, "away", Eng(B, "rollout", "synced"), r)
           P1 == Inside(k, "away", Eng(B, A, "synced"), r)
           P2 == Inside(k, "idle", Eng(B, A, "cached"), r)
           P3 == Inside(k, "idle", Eng(B, "rollout", "cached"), r)
<1>1. {"set sampling", "generate", "roll back sampling"} \subseteq Steps BY DEF Steps, EngineSteps
<1>2. Leads(k, c, Do("actor", <<"generate">>), P1, P2) BY GenerateStep DEF Inside
<1> HIDE DEF B, r
<1>3. Leads(k, c, Do("actor", <<"set sampling">>), P0, P1) BY InsideRules
<1>4. Leads(k, c, Do("actor", <<"roll back sampling">>), P2, P3) BY InsideRules
<1> HIDE DEF P0, P1, P2, P3
<1>5. Leads(k, c, Do("actor", <<"set sampling", "generate", "roll back sampling">>), P0, P3)
  BY <1>1, <1>2, <1>3, <1>4, ThreeSteps
<1>6. VllmGenerate \in Seq(Steps) BY <1>1, TupleOf3 DEF VllmGenerate
<1> QED BY <1>5, <1>6 DEF VllmGenerate, P0, P3, B, r

LEMMA GenerateCall ==
  ASSUME NEW k \in Settings, config = k, NEW c, c.how \in {"rollout", "greedy", k.val},
         NEW awake, Before(k, awake)
  PROVE  /\ Generate \in Seq(Steps)
         /\ Leads(k, c, Do("actor", Generate), Inside(k, "away", Entered(k, awake), StreamOf(k)),
                                               Inside(k, "idle", Left(k, awake), StreamOf(k)))
<1> DEFINE B == {"weights", "cache"}
           W == {"weights"}
           r == StreamOf(k)
           P0 == Inside(k, "away", Eng(W, "rollout", "synced"), r)
           P1 == Inside(k, "away", Eng(B, "rollout", "synced"), r)
           P2 == Inside(k, "idle", Eng(B, "rollout", "cached"), r)
           P3 == Inside(k, "idle", Eng(B, "rollout", "synced"), r)
           P4 == Inside(k, "idle", Eng(W, "rollout", "synced"), r)
<1>1. {"make cache", "free cache", "flush cache", "generate"} \subseteq Steps
  BY DEF Steps, EngineSteps
<1>0. \A a \in Steps : <<a>> \in Seq(Steps) OBVIOUS
<1>2. k.engine \in {"vllm", "untagged", "vllm063", "sglang", "hf", "megatron"}
  BY SettingsAssumption
<1>3. W \cup {"cache"} = B /\ B \ {"cache"} = W OBVIOUS
<1>4. k.engine # "hf" => VllmGenerate \in Seq(Steps) /\ Leads(k, c, Do("actor", VllmGenerate), P1, P2)
  BY Sampling
<1> HIDE DEF B, W, r
<1>5. Leads(k, c, Do("actor", <<"make cache">>), P0, P1) BY <1>3, InsideRules
<1>6. Leads(k, c, Do("actor", <<"free cache">>), P2, P4) BY <1>3, InsideRules
<1>7. Leads(k, c, Do("actor", <<"flush cache">>), P2, P3) BY InsideRules
<1>8. CASE k.engine \in {"vllm", "untagged", "megatron"}
  <2>1. Generate = VllmGenerate BY <1>8 DEF Generate
  <2>2. /\ Entered(k, awake) = Eng(B, "rollout", "synced")
        /\ Left(k, awake) = Eng(B, "rollout", "cached")
    BY <1>8 DEF Entered, Left, B
  <2> QED BY <1>4, <1>8, <2>1, <2>2 DEF r
<1>9. CASE k.engine = "vllm063" /\ ~k.free
  <2>1. Generate = <<>> \o VllmGenerate \o <<>> BY <1>9 DEF Generate, Vllm063Generate, When
  <2>2. Generate = VllmGenerate BY <1>4, <1>9, <2>1
  <2>3. /\ Entered(k, awake) = Eng(B, "rollout", "synced")
        /\ Left(k, awake) = Eng(B, "rollout", "cached")
    <3>1. awake \cup W = B BY <1>9 DEF Before, B, W
    <3> QED BY <1>9, <3>1 DEF Entered, Left, B, W
  <2> QED BY <1>4, <1>9, <2>2, <2>3 DEF r
<1>10. CASE k.engine = "vllm063" /\ k.free
  <2> DEFINE make == <<"make cache">>
             free == <<"free cache">>
  <2>1. Generate = make \o VllmGenerate \o free BY <1>10 DEF Generate, Vllm063Generate, When
  <2>2. make \in Seq(Steps) /\ free \in Seq(Steps) BY <1>1, <1>0
  <2>3. Inside(k, "away", Entered(k, awake), r) \in {P0, P1}
    <3>1. awake \cup W \in {W, B} BY <1>10 DEF Before, B, W
    <3> QED BY <1>10, <3>1 DEF Entered, W
  <2>4. Leads(k, c, Do("actor", <<"make cache">>), P1, P1)
    <3>1. B \cup {"cache"} = B BY DEF B
    <3> QED BY <3>1, InsideRules
  <2>5. Left(k, awake) = Eng(W, "rollout", "synced") BY <1>10 DEF Left, W
  <2>6. Leads(k, c, Do("actor", make), Inside(k, "away", Entered(k, awake), r), P1)
    BY <1>5, <2>3, <2>4
  <2> HIDE DEF P0, P1, P2, P3, P4
  <2>7. Leads(k, c, Do("actor", free), P2, P4) BY <1>6
  <2> HIDE DEF make, free
  <2>8. make \o VllmGenerate \in Seq(Steps)
        /\ Leads(k, c, Do("actor", make \o VllmGenerate), Inside(k, "away", Entered(k, awake), r), P2)
    BY <1>4, <1>10, <2>2, <2>6, DoLeads
  <2> DEFINE both == make \o VllmGenerate
  <2> HIDE DEF both
  <2>9. both \o free \in Seq(Steps)
        /\ Leads(k, c, Do("actor", both \o free), Inside(k, "away", Entered(k, awake), r), P4)
    <3>1. both \in Seq(Steps)
          /\ Leads(k, c, Do("actor", both), Inside(k, "away", Entered(k, awake), r), P2)
      BY <2>8 DEF both
    <3> QED BY <2>2, <2>7, <3>1, DoLeads
  <2> QED BY <2>1, <2>5, <2>9 DEF P4, r, both
<1>11. CASE k.engine = "sglang"
  <2>1. Inside(k, "away", Entered(k, awake), r) = P1 BY <1>11 DEF Entered, B
  <2>2. CASE k.free
    <3> DEFINE flush == <<"flush cache">>
    <3>1. Generate = VllmGenerate \o flush BY <1>11, <2>2 DEF Generate, SglangGenerate, When
    <3>2. flush \in Seq(Steps) /\ Leads(k, c, Do("actor", flush), P2, P3) BY <1>1, <1>7, <1>0
    <3>3. Inside(k, "idle", Left(k, awake), r) = P3 BY <1>11, <2>2 DEF Left, B
    <3> HIDE DEF flush, P0, P1, P2, P3, P4
    <3>4. VllmGenerate \o flush \in Seq(Steps)
          /\ Leads(k, c, Do("actor", VllmGenerate \o flush), P1, P3)
      BY <1>4, <1>11, <3>2, DoLeads
    <3> QED BY <2>1, <3>1, <3>3, <3>4 DEF r
  <2>3. CASE ~k.free
    <3>1. Generate = VllmGenerate \o <<>> BY <1>11, <2>3 DEF Generate, SglangGenerate, When
    <3>2. Generate = VllmGenerate BY <1>4, <1>11, <3>1
    <3>3. Inside(k, "idle", Left(k, awake), r) = P2 BY <1>11, <2>3 DEF Left, B
    <3> HIDE DEF P0, P1, P2, P3, P4
    <3> QED BY <1>4, <1>11, <2>1, <3>2, <3>3 DEF r
  <2> QED BY <2>2, <2>3
<1>12. CASE k.engine = "hf"
  <2>1. Generate = <<"generate">> BY <1>12 DEF Generate, HfGenerate
  <2>2. Generate \in Seq(Steps) BY <1>1, <1>0, <2>1
  <2>3. Left(k, awake) = Entered(k, awake) BY <1>12 DEF Entered, Left
  <2> DEFINE e == Entered(k, awake)
  <2> HIDE DEF e
  <2>4. Leads(k, c, Do("actor", <<"generate">>),
              Where(k, "all", Mem("actor", "away", {}), None, e, StreamOf(k)),
              Where(k, "all", Mem("actor", "idle", {}), None, e, StreamOf(k)))
    BY <1>12, GenerateStep
  <2> QED BY <2>1, <2>2, <2>3, <2>4 DEF Inside, e
<1> QED BY <1>2, <1>8, <1>9, <1>10, <1>11, <1>12

\* The engine sleeps again, and the ranks take up their own random states.
LEMMA ExitCall ==
  ASSUME NEW k \in Settings, config = k, NEW c, NEW awake, Before(k, awake)
  PROVE  /\ Exit \in Seq(Steps)
         /\ Leads(k, c, Do("actor", Exit), Inside(k, "idle", Left(k, awake), StreamOf(k)),
                                           Inside(k, "idle", Eng(Kept(k), "rollout", "old"), "training"))
<1> DEFINE r == StreamOf(k)
           l == Left(k, awake)
           asleep == Eng(Kept(k), "rollout", "old")
<1>1. "sleep" \in Steps /\ "swap out" \in Steps BY DEF Steps, EngineSteps
<1>0. \A a \in Steps : <<a>> \in Seq(Steps) OBVIOUS
<1>2. k.engine \in {"vllm", "untagged", "vllm063", "sglang", "hf", "megatron"}
  BY SettingsAssumption
<1>3. k.engine # "hf" => Leads(k, c, Do("actor", <<"sleep">>), Inside(k, "idle", l, r), Inside(k, "idle", asleep, r))
  <2> HAVE k.engine # "hf"
  <2>1. PICK S \in SUBSET {"weights", "cache"}, h \in {"synced", "cached"} :
           l = Eng(S, "rollout", h) /\ Slept(k, S) = Kept(k)
    <3>1. CASE k.engine = "vllm063" /\ k.free
      <4>1. l = Eng({"weights"}, "rollout", "synced") BY <3>1 DEF Left
      <4>2. Slept(k, {"weights"}) = Kept(k) BY <3>1 DEF Slept, Kept
      <4> HIDE DEF l
      <4> QED BY <4>1, <4>2
    <3>2. CASE k.engine = "sglang" /\ k.free
      <4>1. l = Eng({"weights", "cache"}, "rollout", "synced") BY <3>2 DEF Left
      <4>2. Slept(k, {"weights", "cache"}) = Kept(k) BY <3>2 DEF Slept, Kept
      <4> HIDE DEF l
      <4> QED BY <4>1, <4>2
    <3>3. CASE ~(k.engine = "vllm063" /\ k.free) /\ ~(k.engine = "sglang" /\ k.free)
      <4>1. l = Eng({"weights", "cache"}, "rollout", "cached") BY <3>3 DEF Left
      <4>2. Slept(k, {"weights", "cache"}) = Kept(k) BY <3>3 DEF Slept, Kept
      <4> HIDE DEF l
      <4> QED BY <4>1, <4>2
    <3> QED BY <3>1, <3>2, <3>3
  <2> HIDE DEF l, r
  <2>2. Leads(k, c, Do("actor", <<"sleep">>), Inside(k, "idle", Eng(S, "rollout", h), r),
                                             Inside(k, "idle", Eng(Slept(k, S), "rollout", "old"), r))
    BY InsideRules
  <2> QED BY <2>1, <2>2
<1>4. Leads(k, c, Do("actor", <<"swap out">>), Inside(k, "idle", asleep, "generation"),
                                               Inside(k, "idle", asleep, "training"))
  BY InsideSwap
<1>5. CASE k.engine \in {"vllm", "untagged", "vllm063", "sglang"}
  <2>1. Exit = <<"sleep", "swap out">> BY <1>5 DEF Exit, FsdpVllmExit, FsdpSglangExit
  <2>2. r = "generation" BY <1>5 DEF StreamOf, OwnStream
  <2>3. Exit \in Seq(Steps) BY <1>1, <2>1, Tuples
  <2> DEFINE P0 == Inside(k, "idle", l, r)
             P1 == Inside(k, "idle", asleep, r)
             P2 == Inside(k, "idle", asleep, "training")
  <2>4. Leads(k, c, Do("actor", <<"sleep">>), P0, P1) /\ Leads(k, c, Do("actor", <<"swap out">>), P1, P2)
    BY <1>3, <1>4, <1>5, <2>2
  <2> HIDE DEF P0, P1, P2
  <2>5. Leads(k, c, Do("actor", <<"sleep", "swap out">>), P0, P2) BY <1>1, <2>4, TwoSteps
  <2> QED BY <2>1, <2>3, <2>5 DEF P0, P2
<1>6. CASE k.engine = "megatron"
  <2>1. Exit = <<"sleep">> BY <1>6 DEF Exit, MegatronExit
  <2>2. r = "training" BY <1>6 DEF StreamOf, OwnStream
  <2>3. Exit \in Seq(Steps) BY <1>1, <1>0, <2>1
  <2> HIDE DEF l, asleep
  <2> QED BY <1>3, <1>6, <2>1, <2>2, <2>3 DEF l, asleep
<1>7. CASE k.engine = "hf"
  <2>1. Exit = <<>> BY <1>7 DEF Exit
  <2>2. r = "training" /\ Kept(k) = {} /\ l = Eng(awake, "rollout", "old")
    BY <1>7 DEF StreamOf, OwnStream, Kept, Left
  <2>3. l = asleep BY <1>7, <2>2 DEF Before
  <2>4. Do("actor", <<>>) = <<>> BY DEF Do
  <2> DEFINE P == Inside(k, "idle", asleep, "training")
  <2>5. P \in SUBSET Views(k) BY WhereIsAssertion DEF Inside
  <2> HIDE DEF P
  <2>6. Leads(k, c, <<>>, P, P) BY <2>5, LeadsNowhere
  <2>7. Exit \in Seq(Steps) BY <2>1
  <2> QED BY <2>1, <2>2, <2>3, <2>4, <2>6, <2>7 DEF P
<1> QED BY <1>2, <1>5, <1>6, <1>7

LEMMA RowsAround ==
  ASSUME NEW k \in Settings, config = k, NEW c, NEW is, NEW eng, NEW run
  PROVE  /\ Preprocess \in Seq(Steps) /\ Postprocess \in Seq(Steps)
         /\ Leads(k, c, Do("actor", Preprocess), Inside(k, is, eng, run), Inside(k, is, eng, run))
         /\ Leads(k, c, Do("actor", Postprocess), Inside(k, is, eng, run), Inside(k, is, eng, run))
<1> DEFINE P == Inside(k, is, eng, run)
<1>1. RowSteps \subseteq Steps BY DEF RowSteps, Steps, MemorySteps
<1>2. \A a \in RowSteps : Leads(k, c, Do("actor", <<a>>), P, P)
  <2>1. "actor" \in ModelsOf(k) BY DEF ModelsOf
  <2> QED BY <2>1, RowStep DEF Inside
<1>3. P \in SUBSET Views(k) BY WhereIsAssertion DEF Inside
<1> HIDE DEF P
<1>4. Leads(k, c, Do("actor", <<>>), P, P)
  <2>1. Do("actor", <<>>) = <<>> BY DEF Do
  <2> QED BY <1>3, <2>1, LeadsNowhere
<1>5. \A a \in Steps : <<a>> \in Seq(Steps) OBVIOUS
<1>6. {"gather prompts", "take micro rows", "join micro rows", "copy responses", "keep own responses"}
        \subseteq RowSteps
  BY DEF RowSteps
<1>7. Preprocess \in {<<>>, <<"take micro rows">>, <<"gather prompts">>} BY DEF Preprocess
<1>8. Postprocess \in {<<>>, <<"join micro rows">>, <<"keep own responses">>,
                       <<"copy responses", "keep own responses">>}
  BY DEF Postprocess
<1>9. /\ <<"copy responses", "keep own responses">> \in Seq(Steps)
      /\ Leads(k, c, Do("actor", <<"copy responses", "keep own responses">>), P, P)
  <2>1. "copy responses" \in Steps /\ "keep own responses" \in Steps BY <1>1, <1>6
  <2>2. <<"copy responses", "keep own responses">> \in Seq(Steps) BY <2>1, Tuples
  <2>3. /\ Leads(k, c, Do("actor", <<"copy responses">>), P, P)
        /\ Leads(k, c, Do("actor", <<"keep own responses">>), P, P)
    BY <1>2, <1>6
  <2> QED BY <2>1, <2>2, <2>3, TwoSteps
<1>10. <<>> \in Seq(Steps) OBVIOUS
<1>11. Preprocess \in Seq(Steps) /\ Leads(k, c, Do("actor", Preprocess), P, P)
  BY <1>1, <1>2, <1>4, <1>5, <1>6, <1>7, <1>10
<1>12. Postprocess \in Seq(Steps) /\ Leads(k, c, Do("actor", Postprocess), P, P)
  BY <1>1, <1>2, <1>4, <1>5, <1>6, <1>8, <1>9, <1>10
<1> QED BY <1>11, <1>12 DEF P

LEMMA SequencesCall ==
  ASSUME NEW k \in Settings, config = k, NEW c, c.how \in {"rollout", "greedy", k.val},
         NEW stage \in {"ready", "going"}
  PROVE  Leads(k, c, generate_sequences, Rest(k, stage), Rest(k, "going"))
<1> DEFINE awake == AwakeAt(k, stage)
           e0 == Eng(awake, "rollout", "old")
           e1 == Entered(k, awake)
           e2 == Left(k, awake)
           e3 == Eng(Kept(k), "rollout", "old")
           r == StreamOf(k)
           gen == Generate
           pre == Preprocess
           post == Postprocess
           out == Exit
<1>1. Before(k, awake) BY DEF Before, AwakeAt, Started, Kept
<1>2. Rest(k, stage) = Inside(k, "idle", e0, "training")
  BY DEF Rest, Inside, CountAt, WholeAt, Resting
<1>3. Rest(k, "going") = Inside(k, "idle", e3, "training")
  BY DEF Rest, Inside, CountAt, WholeAt, Resting, AwakeAt
<1> HIDE DEF awake
<1>4. "actor" \in ModelsOf(k) BY DEF ModelsOf
<1>5. Leads(k, c, LoadParams("actor"), Inside(k, "idle", e0, "training"), Inside(k, "params", e0, "training"))
  BY <1>4, LoadingCalls DEF Inside
<1>6. Leads(k, c, Do("actor", Enter), Inside(k, "params", e0, "training"), Inside(k, "params", e1, r))
  BY <1>1, EnterCall
<1>7. Leads(k, c, OffloadAll("actor"), Inside(k, "params", e1, r), Inside(k, "away", e1, r))
  BY <1>4, LoadingCalls DEF Inside
<1>8. /\ pre \in Seq(Steps) /\ post \in Seq(Steps)
      /\ Leads(k, c, Do("actor", pre), Inside(k, "away", e1, r), Inside(k, "away", e1, r))
      /\ Leads(k, c, Do("actor", post), Inside(k, "idle", e2, r), Inside(k, "idle", e2, r))
  BY RowsAround
<1>9. /\ gen \in Seq(Steps)
      /\ Leads(k, c, Do("actor", gen), Inside(k, "away", e1, r), Inside(k, "idle", e2, r))
  BY <1>1, GenerateCall
<1>10. /\ out \in Seq(Steps)
       /\ Leads(k, c, Do("actor", out), Inside(k, "idle", e2, r), Inside(k, "idle", e3, "training"))
  BY <1>1, ExitCall
<1> DEFINE P0 == Inside(k, "idle", e0, "training")
           P1 == Inside(k, "params", e0, "training")
           P2 == Inside(k, "params", e1, r)
           P3 == Inside(k, "away", e1, r)
           P4 == Inside(k, "idle", e2, r)
           P5 == Inside(k, "idle", e3, "training")
<1>11. generate_sequences = LoadParams("actor") \o Do("actor", Enter) \o OffloadAll("actor")
                            \o Do("actor", pre \o gen \o post \o out)
  BY DEF generate_sequences
<1> HIDE DEF e0, e1, e2, e3, r, pre, gen, post, out
<1> DEFINE pg == pre \o gen
           pgp == pg \o post
<1>12. pg \in Seq(Steps) /\ Leads(k, c, Do("actor", pg), P3, P4)
  BY <1>8, <1>9, DoLeads
<1> HIDE DEF pg, P0, P1, P2, P3, P4, P5
<1>13. pgp \in Seq(Steps) /\ Leads(k, c, Do("actor", pgp), P3, P4)
  BY <1>8, <1>12, DoLeads DEF P4
<1> HIDE DEF pgp
<1>14. Leads(k, c, Do("actor", pgp \o out), P3, P5)
  BY <1>10, <1>13, DoLeads DEF P4, P5
<1>15. Leads(k, c, LoadParams("actor") \o Do("actor", Enter), P0, P2)
  BY <1>5, <1>6, LeadsJoin DEF P0, P1, P2
<1>16. Leads(k, c, LoadParams("actor") \o Do("actor", Enter) \o OffloadAll("actor"), P0, P3)
  BY <1>7, <1>15, LeadsJoin DEF P2, P3
<1>17. Leads(k, c, LoadParams("actor") \o Do("actor", Enter) \o OffloadAll("actor")
                     \o Do("actor", pgp \o out), P0, P5)
  BY <1>14, <1>16, LeadsJoin
<1> QED BY <1>2, <1>3, <1>11, <1>17 DEF P0, P5, pg, pgp

---------------------------------------------------------------------------
(* The trainer's schedule                                                    *)

TrainerCalls(k) ==
  [of : ModelsOf(k),
   method : {"load_checkpoint", "save_checkpoint", "generate_sequences", "compute_log_prob",
             "compute_ref_log_prob", "compute_rm_score", "compute_values", "update_actor",
             "update_critic"},
   how : {"none", "rollout", "greedy", "validation"}]

\* The calls that any number of which may be made once the engine has generated.
AnyTime(k) ==
  {Call("actor", "update_actor"), Call("actor", "compute_log_prob")}
  \cup {Call("ref", "compute_ref_log_prob") : x \in ModelsOf(k) \cap {"ref"}}
  \cup {Call("rm", "compute_rm_score") : x \in ModelsOf(k) \cap {"rm"}}
  \cup {Call(m, "save_checkpoint") : m \in ModelsOf(k) \cap {"actor", "critic"}}

\* Which call may be made at which stage, and the stage after it. Only an update of the
\* critic comes after its values, and nothing is computed before the first generation.
Allowed(k, x, c, y) ==
  \/ c \in AnyTime(k) /\ x = "going" /\ y = "going"
  \/ c \in {Sample("rollout"), Sample("greedy"), Sample(k.val)} /\ x \in {"ready", "going"} /\ y = "going"
  \/ /\ c = Call("actor", "load_checkpoint") /\ x = "ready"
     /\ y = IF "critic" \in ModelsOf(k) THEN "half" ELSE "ready"
  \/ /\ "critic" \in ModelsOf(k)
     /\ \/ c = Call("critic", "load_checkpoint") /\ x = "half" /\ y = "ready"
        \/ c = Call("critic", "compute_values") /\ x = "going" /\ y = "values"
        \/ c = Call("critic", "update_critic") /\ x = "values" /\ y = "going"

StageRules(k) ==
  {t \in [pre : Stages, op : TrainerCalls(k), post : Stages] : Allowed(k, t.pre, t.op, t.post)}

Plan(k, s, x, y) == Chain(Stages, TrainerCalls(k), StageRules(k), s, x, y)

\* Every rank gets from the one stage to the other through the call's effects.
LEMMA CallLeads ==
  ASSUME NEW k \in Settings, config = k, NEW c, NEW x, NEW y, Allowed(k, x, c, y)
  PROVE  Leads(k, c, Program(c), Rest(k, x), Rest(k, y))
<1>1. CASE c \in AnyTime(k) /\ x = "going" /\ y = "going"
  <2>0. "actor" \in ModelsOf(k) BY DEF ModelsOf
  <2>1. CASE c = Call("actor", "update_actor")
    <3>1. Program(c) = update_actor BY <2>1 DEF Program, Call
    <3>2. Leads(k, c, update_actor, Going(k, "actor", "idle", {}, None), Going(k, "actor", "idle", {}, None))
      BY <2>0, UpdateCall DEF update_actor, Trained
    <3> QED BY <1>1, <3>1, <3>2, GoingIsRest
  <2>2. CASE c = Call("actor", "compute_log_prob")
    <3>1. Program(c) = compute_log_prob BY <2>2 DEF Program, Call
    <3>2. Leads(k, c, compute_log_prob, Going(k, "actor", "idle", {}, None), Going(k, "actor", "idle", {}, None))
      BY <2>0, LogProbCall DEF compute_log_prob
    <3> QED BY <1>1, <3>1, <3>2, GoingIsRest
  <2>3. CASE "ref" \in ModelsOf(k) /\ c = Call("ref", "compute_ref_log_prob")
    <3>1. Program(c) = compute_ref_log_prob BY <2>3 DEF Program, Call
    <3>2. Leads(k, c, compute_ref_log_prob, Going(k, "ref", "idle", {}, None), Going(k, "ref", "idle", {}, None))
      BY <2>3, LogProbCall DEF compute_ref_log_prob
    <3> QED BY <1>1, <3>1, <3>2, GoingIsRest
  <2>4. CASE "rm" \in ModelsOf(k) /\ c = Call("rm", "compute_rm_score")
    <3>1. Program(c) = compute_rm_score BY <2>4 DEF Program, Call
    <3> QED BY <1>1, <2>4, <3>1, RewardModelCall
  <2>5. ASSUME NEW m \in ModelsOf(k), c = Call(m, "save_checkpoint")
        PROVE  Leads(k, c, Program(c), Rest(k, x), Rest(k, y))
    <3>1. Program(c) = save_checkpoint(m) BY <2>5 DEF Program, Call
    <3> QED BY <1>1, <3>1, SaveCall
  <2> QED BY <1>1, <2>1, <2>2, <2>3, <2>4, <2>5 DEF AnyTime
<1>2. CASE /\ c \in {Sample("rollout"), Sample("greedy"), Sample(k.val)}
           /\ x \in {"ready", "going"} /\ y = "going"
  <2>1. Program(c) = generate_sequences BY <1>2 DEF Program, Sample
  <2>2. c.how \in {"rollout", "greedy", k.val} BY <1>2 DEF Sample
  <2> QED BY <1>2, <2>1, <2>2, SequencesCall
<1>3. CASE /\ c = Call("actor", "load_checkpoint") /\ x = "ready"
           /\ y = IF "critic" \in ModelsOf(k) THEN "half" ELSE "ready"
  <2>1. Program(c) = load_checkpoint("actor") BY <1>3 DEF Program, Call
  <2>2. Restored(k, "actor", CountAt(x), CountAt(y)) /\ y \in {"ready", "half"}
    BY <1>3 DEF Restored, CountAt
  <2>3. "actor" \in ModelsOf(k) BY DEF ModelsOf
  <2>4. Leads(k, c, load_checkpoint("actor"), Rest(k, x), Rest(k, y)) BY <1>3, <2>2, <2>3, LoadCall
  <2> QED BY <2>1, <2>4
<1>4. CASE "critic" \in ModelsOf(k) /\ c = Call("critic", "load_checkpoint") /\ x = "half" /\ y = "ready"
  <2>1. Program(c) = load_checkpoint("critic") BY <1>4 DEF Program, Call
  <2>2. Restored(k, "critic", CountAt(x), CountAt(y)) BY <1>4 DEF Restored, CountAt
  <2>3. Leads(k, c, load_checkpoint("critic"), Rest(k, x), Rest(k, y)) BY <1>4, <2>2, LoadCall
  <2> QED BY <2>1, <2>3
<1>5. CASE "critic" \in ModelsOf(k) /\ c = Call("critic", "compute_values") /\ x = "going" /\ y = "values"
  <2>1. Program(c) = compute_values BY <1>5 DEF Program, Call
  <2> QED BY <1>5, <2>1, ValuesCall
<1>6. CASE "critic" \in ModelsOf(k) /\ c = Call("critic", "update_critic") /\ x = "values" /\ y = "going"
  <2>1. Program(c) = update_critic BY <1>6 DEF Program, Call
  <2>2. Leads(k, c, update_critic, Going(k, "critic", "idle", {"critic"}, None),
                                   Going(k, "critic", "idle", {}, None))
    BY <1>6, UpdateCall DEF update_critic, Trained
  <2> QED BY <1>6, <2>1, <2>2, GoingIsRest
<1> QED BY <1>1, <1>2, <1>3, <1>4, <1>5, <1>6 DEF Allowed

LEMMA PlanJoin ==
  ASSUME NEW k, NEW s, NEW t, NEW x, NEW y, NEW z, Plan(k, s, x, y), Plan(k, t, y, z)
  PROVE  Plan(k, s \o t, x, z)
BY ChainJoin DEF Plan

LEMMA PlanNothing == ASSUME NEW k, NEW x \in Stages PROVE Plan(k, <<>>, x, x)
BY ChainEmpty DEF Plan

LEMMA CallsAreTyped ==
  ASSUME NEW k \in Settings, NEW c, NEW x, NEW y, Allowed(k, x, c, y)
  PROVE  c \in TrainerCalls(k) /\ x \in Stages /\ y \in Stages
<1>1. k.val \in {"validation", "greedy"} BY SettingsAssumption
<1> QED BY <1>1 DEF Allowed, AnyTime, TrainerCalls, Stages, Call, Sample, ModelsOf

LEMMA PlanOne ==
  ASSUME NEW k \in Settings, NEW c, NEW x, NEW y, Allowed(k, x, c, y)
  PROVE  Plan(k, <<c>>, x, y)
<1>1. c \in TrainerCalls(k) /\ x \in Stages /\ y \in Stages BY CallsAreTyped
<1>2. [pre |-> x, op |-> c, post |-> y] \in StageRules(k) BY <1>1 DEF StageRules
<1> QED BY <1>1, <1>2, ChainOne DEF Plan

\* One step of training: from any stage a generation may start at.
LEMMA TrainingPlan ==
  ASSUME NEW k \in Settings, config = k, NEW s,
         s \in {TrainingStep(b) : b \in BOOLEAN}
  PROVE  Plan(k, s, "going", "going")
<1> DEFINE s1 == <<Sample("rollout")>>
           s2 == When(config.baseline, <<Sample("greedy")>>)
           s3 == With("rm", "compute_rm_score")
           s4 == With("actor", "compute_log_prob")
           s5 == With("ref", "compute_ref_log_prob")
           s6 == With("critic", "compute_values")
           s7 == With("critic", "update_critic")
           s8 == With("actor", "update_actor")
           g == "going"
<1>0. "going" \in Stages /\ "values" \in Stages BY DEF Stages
<1>1. Models = ModelsOf(k) /\ "actor" \in ModelsOf(k) BY OfTheSetting DEF ModelsOf
<1>2. Plan(k, <<>>, g, g) BY <1>0, PlanNothing
<1>3. /\ Allowed(k, g, Sample("rollout"), g) /\ Allowed(k, g, Sample("greedy"), g)
      /\ Allowed(k, g, Call("actor", "compute_log_prob"), g)
      /\ Allowed(k, g, Call("actor", "update_actor"), g)
      /\ "ref" \in ModelsOf(k) => Allowed(k, g, Call("ref", "compute_ref_log_prob"), g)
      /\ "rm" \in ModelsOf(k) => Allowed(k, g, Call("rm", "compute_rm_score"), g)
      /\ "critic" \in ModelsOf(k) => /\ Allowed(k, g, Call("critic", "compute_values"), "values")
                                     /\ Allowed(k, "values", Call("critic", "update_critic"), g)
  BY DEF Allowed, AnyTime
<1>4. Plan(k, s1, g, g) BY <1>3, PlanOne
<1>5. Plan(k, s2, g, g)
  <2>1. Plan(k, <<Sample("greedy")>>, g, g) BY <1>3, PlanOne
  <2>2. s2 = <<Sample("greedy")>> \/ s2 = <<>> BY DEF When
  <2> HIDE DEF s2
  <2> QED BY <1>2, <2>1, <2>2
<1>6. Plan(k, s3, g, g)
  <2>1. CASE "rm" \in ModelsOf(k)
    <3>1. s3 = <<Call("rm", "compute_rm_score")>> BY <1>1, <2>1 DEF With, When
    <3> HIDE DEF s3
    <3> QED BY <1>3, <2>1, <3>1, PlanOne
  <2>2. CASE "rm" \notin ModelsOf(k)
    <3>1. s3 = <<>> BY <1>1, <2>2 DEF With, When
    <3> QED BY <1>2, <3>1
  <2> QED BY <2>1, <2>2
<1>7. Plan(k, s4, g, g)
  <2>1. s4 = <<Call("actor", "compute_log_prob")>> BY <1>1 DEF With, When
  <2> HIDE DEF s4
  <2> QED BY <1>3, <2>1, PlanOne
<1>8. Plan(k, s5, g, g)
  <2>1. CASE "ref" \in ModelsOf(k)
    <3>1. s5 = <<Call("ref", "compute_ref_log_prob")>> BY <1>1, <2>1 DEF With, When
    <3> HIDE DEF s5
    <3> QED BY <1>3, <2>1, <3>1, PlanOne
  <2>2. CASE "ref" \notin ModelsOf(k)
    <3>1. s5 = <<>> BY <1>1, <2>2 DEF With, When
    <3> QED BY <1>2, <3>1
  <2> QED BY <2>1, <2>2
<1>9. \E y \in Stages : Plan(k, s6, g, y) /\ Plan(k, s7, y, g)
  <2>1. CASE "critic" \in ModelsOf(k)
    <3>1. s6 = <<Call("critic", "compute_values")>> /\ s7 = <<Call("critic", "update_critic")>>
      BY <1>1, <2>1 DEF With, When
    <3> HIDE DEF s6, s7
    <3>2. Plan(k, s6, g, "values") BY <1>3, <2>1, <3>1, PlanOne
    <3>3. Plan(k, s7, "values", g) BY <1>3, <2>1, <3>1, PlanOne
    <3> QED BY <1>0, <3>2, <3>3
  <2>2. CASE "critic" \notin ModelsOf(k)
    <3>1. s6 = <<>> /\ s7 = <<>> BY <1>1, <2>2 DEF With, When
    <3> QED BY <1>0, <1>2, <3>1
  <2> QED BY <2>1, <2>2
<1>10. Plan(k, s8, g, g)
  <2>1. s8 = <<Call("actor", "update_actor")>> BY <1>1 DEF With, When
  <2> HIDE DEF s8
  <2> QED BY <1>3, <2>1, PlanOne
<1>11. s \in {s1 \o s2 \o s3 \o s4 \o s5 \o s6 \o s7 \o s8, s1 \o s2 \o s3 \o s4 \o s5 \o s6 \o s7 \o <<>>}
  BY DEF TrainingStep, When
<1> HIDE DEF s1, s2, s3, s4, s5, s6, s7, s8, g
<1>12. Plan(k, s1 \o s2, g, g) BY <1>4, <1>5, PlanJoin
<1>13. Plan(k, s1 \o s2 \o s3, g, g) BY <1>6, <1>12, PlanJoin
<1>14. Plan(k, s1 \o s2 \o s3 \o s4, g, g) BY <1>7, <1>13, PlanJoin
<1>15. Plan(k, s1 \o s2 \o s3 \o s4 \o s5, g, g) BY <1>8, <1>14, PlanJoin
<1>16. Plan(k, s1 \o s2 \o s3 \o s4 \o s5 \o s6 \o s7, g, g)
  <2>1. PICK y \in Stages : Plan(k, s6, g, y) /\ Plan(k, s7, y, g) BY <1>9
  <2>2. Plan(k, s1 \o s2 \o s3 \o s4 \o s5 \o s6, g, y) BY <1>15, <2>1, PlanJoin
  <2> QED BY <2>1, <2>2, PlanJoin
<1>17. Plan(k, s1 \o s2 \o s3 \o s4 \o s5 \o s6 \o s7 \o s8, g, g) BY <1>10, <1>16, PlanJoin
<1>18. Plan(k, s1 \o s2 \o s3 \o s4 \o s5 \o s6 \o s7 \o <<>>, g, g) BY <1>2, <1>16, PlanJoin
<1> QED BY <1>11, <1>17, <1>18 DEF g

\* The whole schedule: resuming or not, validating, two steps, validating and saving.
LEMMA SchedulePlan ==
  ASSUME NEW k \in Settings, config = k, NEW s, s \in {Schedule(b) : b \in BOOLEAN}
  PROVE  Plan(k, s, "ready", "going")
<1> DEFINE load == Checkpoint("load_checkpoint")
           val == <<Sample(config.val)>>
           step1 == TrainingStep("critic" \notin Models)
           step2 == TrainingStep(TRUE)
           save == Checkpoint("save_checkpoint")
<1>0. {"ready", "half", "going"} \subseteq Stages BY DEF Stages
<1>1. Models = ModelsOf(k) /\ "actor" \in ModelsOf(k) BY OfTheSetting DEF ModelsOf
<1>2. /\ Allowed(k, "ready", Sample(k.val), "going") /\ Allowed(k, "going", Sample(k.val), "going")
      /\ Allowed(k, "ready", Call("actor", "load_checkpoint"),
                 IF "critic" \in ModelsOf(k) THEN "half" ELSE "ready")
      /\ "critic" \in ModelsOf(k) => /\ Allowed(k, "half", Call("critic", "load_checkpoint"), "ready")
                                     /\ Allowed(k, "going", Call("critic", "save_checkpoint"), "going")
      /\ Allowed(k, "going", Call("actor", "save_checkpoint"), "going")
  BY <1>1 DEF Allowed, AnyTime
<1>3. Plan(k, val, "ready", "going") /\ Plan(k, val, "going", "going") BY <1>2, PlanOne
<1>4. Plan(k, load, "ready", "ready") /\ Plan(k, save, "going", "going")
  <2>1. CASE "critic" \in ModelsOf(k)
    <3> DEFINE la == <<Call("actor", "load_checkpoint")>>
               lc == <<Call("critic", "load_checkpoint")>>
               sa == <<Call("actor", "save_checkpoint")>>
               sc == <<Call("critic", "save_checkpoint")>>
    <3>1. load = la \o lc /\ save = sa \o sc BY <1>1, <2>1 DEF Checkpoint, With, When
    <3>2. Plan(k, la, "ready", "half") BY <1>2, <2>1, PlanOne
    <3>3. Plan(k, lc, "half", "ready") BY <1>2, <2>1, PlanOne
    <3>4. Plan(k, sa, "going", "going") /\ Plan(k, sc, "going", "going") BY <1>2, <2>1, PlanOne
    <3> HIDE DEF la, lc, sa, sc, load, save
    <3> QED BY <3>1, <3>2, <3>3, <3>4, PlanJoin
  <2>2. CASE "critic" \notin ModelsOf(k)
    <3> DEFINE la == <<Call("actor", "load_checkpoint")>>
               sa == <<Call("actor", "save_checkpoint")>>
    <3>1. load = la \o <<>> /\ save = sa \o <<>> BY <1>1, <2>2 DEF Checkpoint, With, When
    <3>2. Plan(k, la, "ready", "ready") BY <1>2, <2>2, PlanOne
    <3>3. Plan(k, sa, "going", "going") BY <1>2, PlanOne
    <3>4. Plan(k, <<>>, "ready", "ready") /\ Plan(k, <<>>, "going", "going") BY <1>0, PlanNothing
    <3> HIDE DEF la, sa, load, save
    <3> QED BY <3>1, <3>2, <3>3, <3>4, PlanJoin
  <2> QED BY <2>1, <2>2
<1>5. Plan(k, step1, "going", "going") /\ Plan(k, step2, "going", "going")
  <2>1. step1 \in {TrainingStep(b) : b \in BOOLEAN} /\ step2 \in {TrainingStep(b) : b \in BOOLEAN}
    OBVIOUS
  <2> HIDE DEF step1, step2
  <2> QED BY <2>1, TrainingPlan
<1>6. Plan(k, <<>>, "ready", "ready") BY <1>0, PlanNothing
<1>7. s \in {load \o val \o step1 \o step2 \o val \o save, <<>> \o val \o step1 \o step2 \o val \o save}
  BY DEF Schedule, When
<1> HIDE DEF load, val, step1, step2, save
<1>8. ASSUME NEW first, Plan(k, first, "ready", "ready")
      PROVE  Plan(k, first \o val \o step1 \o step2 \o val \o save, "ready", "going")
  <2>1. Plan(k, first \o val, "ready", "going") BY <1>3, <1>8, PlanJoin
  <2>2. Plan(k, first \o val \o step1, "ready", "going") BY <1>5, <2>1, PlanJoin
  <2>3. Plan(k, first \o val \o step1 \o step2, "ready", "going") BY <1>5, <2>2, PlanJoin
  <2>4. Plan(k, first \o val \o step1 \o step2 \o val, "ready", "going") BY <1>3, <2>3, PlanJoin
  <2> QED BY <1>4, <2>4, PlanJoin
<1> QED BY <1>4, <1>6, <1>7, <1>8

---------------------------------------------------------------------------
(* The invariant                                                             *)

Typed ==
  /\ config \in Settings
  /\ todo \in [Ranks -> Seq(Ops(config))]
  /\ memory \in [Ranks -> [ModelsOf(config) -> Place]]
  /\ version \in [Ranks -> [ModelsOf(config) -> Int]]
  /\ engine \in [Ranks -> Engines]
  /\ random \in [Ranks -> Randoms]
  /\ group \in [Ranks -> Groups(config)]

\* What is left of the call leads every rank to where the schedule goes on, and the
\* schedule from there to its end.
OnItsWay(r, stage) ==
  \E P \in SUBSET Views(config) :
    View(r) \in P /\ Leads(config, call, todo[r], P, Rest(config, stage))

StageInv ==
  \E stage \in Stages :
    /\ Plan(config, schedule, stage, "going")
    /\ \A r \in Ranks : OnItsWay(r, stage)

\* The stream of generation is the same on all ranks that generate together, whether it is
\* running or put aside.
Generation(R) == IF R.now.name = "generation" THEN R.now ELSE R.generation
SameDraws ==
  \A q, r \in Ranks : q \div config.tp = r \div config.tp => Generation(random[q]) = Generation(random[r])

IInv == Typed /\ StageInv /\ SameDraws

---------------------------------------------------------------------------
(* Every action but the trainer's moves some ranks, each by its next step    *)

MemoryMoves(Q) ==
  memory' = [r \in Ranks |-> IF r \in Q THEN MemoryAfter(config, Head(todo[r]), memory[r]) ELSE memory[r]]
VersionMoves(Q) ==
  version' = [r \in Ranks |-> IF r \in Q THEN VersionAfter(Head(todo[r]), version[r]) ELSE version[r]]
EngineMoves(Q) ==
  engine' = [r \in Ranks |-> IF r \in Q
                             THEN EngineAfter(config, call, Head(todo[r]), version[r], engine[r])
                             ELSE engine[r]]
RandomMoves(Q) ==
  random' = [r \in Ranks |-> IF r \in Q
                             THEN RandomAfter(config, call, Head(todo[r]), r, random[r]) ELSE random[r]]
GroupMoves(Q) ==
  group' = [r \in Ranks |-> IF r \in Q THEN GroupAfter(config, Head(todo[r]), group[r]) ELSE group[r]]

Moves(Q) ==
  /\ Q \subseteq Ranks /\ \A r \in Q : todo[r] # <<>>
  /\ \A r \in Q : Head(todo[r]).do = "generate" =>
       TpGroup(r) \subseteq Q /\ \A q \in TpGroup(r) : Head(todo[q]).do = "generate"
  /\ Pass(Q) /\ UNCHANGED Driver
  /\ MemoryMoves(Q) /\ VersionMoves(Q) /\ EngineMoves(Q) /\ RandomMoves(Q) /\ GroupMoves(Q)

\* A rank whose call is not over is fit for its next step, and after it on its way.
LEMMA NextStep ==
  ASSUME config \in Settings, NEW r \in Ranks, NEW stage, OnItsWay(r, stage), todo[r] # <<>>
  PROVE  /\ Fit(config, call, Head(todo[r]), View(r))
         /\ After(config, call, Head(todo[r]), View(r)) \in Views(config)
         /\ \E M \in SUBSET Views(config) :
              /\ After(config, call, Head(todo[r]), View(r)) \in M
              /\ Leads(config, call, Tail(todo[r]), M, Rest(config, stage))
<1>1. PICK P \in SUBSET Views(config) :
        View(r) \in P /\ Leads(config, call, todo[r], P, Rest(config, stage))
  BY DEF OnItsWay
<1> DEFINE o == Head(todo[r])
<1>2. PICK M \in SUBSET Views(config) :
        /\ [pre |-> P, op |-> o, post |-> M] \in Rules(config, call)
        /\ Leads(config, call, Tail(todo[r]), M, Rest(config, stage))
  BY <1>1, ChainNext DEF Leads
<1> HIDE DEF o
<1>3. Fit(config, call, o, View(r)) /\ After(config, call, o, View(r)) \in M
  <2> DEFINE t == [pre |-> P, op |-> o, post |-> M]
  <2>1. \A l \in t.pre : Fit(config, call, t.op, l) /\ After(config, call, t.op, l) \in t.post
    BY <1>2 DEF Rules
  <2> QED BY <1>1, <2>1
<1> QED BY <1>2, <1>3 DEF o

\* The generator's stream of generation after a step.
LEMMA GenerationAfter ==
  ASSUME NEW k, NEW c, NEW o, NEW l \in Views(k), Drawing(k, o, l)
  PROVE  Generation(RandomAfter(k, c, o, l.rank, l.random)) =
           IF o.do = "generate" /\ OwnStream(k) /\ c.how # "greedy"
           THEN Drawn(Generation(l.random)) ELSE Generation(l.random)
<1> DEFINE R == l.random
<1>1. R \in Randoms /\ R.now \in Streams /\ R.training \in Streams /\ R.generation \in Streams
  BY DEF Views, Randoms
<1>2. CASE o.do = "update" \/ o.do = "generate"
  <2> DEFINE N == [R.now EXCEPT !.draws = R.now.draws + 1]
             R2 == [R EXCEPT !.now = N]
  <2>1. N.name = R.now.name /\ Drawn(R.now) = N BY <1>1 DEF Streams, Drawn
  <2> HIDE DEF N
  <2>2. R2.now = N /\ R2.generation = R.generation BY <1>1 DEF Randoms
  <2>3. RandomAfter(k, c, o, l.rank, R) = IF o.do = "generate" /\ c.how = "greedy" THEN R ELSE R2
    BY <1>2, <2>1 DEF RandomAfter, Drawn, N
  <2> HIDE DEF R2, R
  <2> QED BY <1>2, <2>1, <2>2, <2>3 DEF Drawing, Generation, R
<1>3. CASE o.do = "restore"
  <2> DEFINE N == [Stream("training", l.rank) EXCEPT !.draws = IF "critic" \in ModelsOf(k) THEN 2 ELSE 1]
             R2 == [R EXCEPT !.now = N]
  <2>1. N.name = "training" BY DEF Stream
  <2>2. RandomAfter(k, c, o, l.rank, R) = R2 BY <1>3 DEF RandomAfter
  <2> HIDE DEF N
  <2>3. R2.now = N /\ R2.generation = R.generation BY <1>1 DEF Randoms
  <2> QED BY <1>3, <2>1, <2>2, <2>3 DEF Drawing, Generation
<1>4. CASE o.do = "swap in" \/ o.do = "swap out"
  BY <1>1, <1>4 DEF Drawing, Generation, RandomAfter, Randoms
<1>5. CASE o.do \notin {"update", "generate", "restore", "swap in", "swap out"}
  BY <1>5 DEF RandomAfter
<1> QED BY <1>2, <1>3, <1>4, <1>5

LEMMA MovesKeep == ASSUME IInv, NEW Q, Moves(Q) PROVE IInv'
<1>1. PICK stage \in Stages : /\ Plan(config, schedule, stage, "going")
                              /\ \A r \in Ranks : OnItsWay(r, stage)
  BY DEF IInv, StageInv
<1>2. Typed /\ SameDraws /\ config \in Settings BY DEF IInv, Typed
<1>3. config' = config /\ schedule' = schedule /\ call' = call /\ Ranks' = Ranks
  BY DEF Moves, Driver, Ranks
<1>4. Q \subseteq Ranks /\ \A r \in Q : todo[r] # <<>> BY DEF Moves
<1> DEFINE o(r) == Head(todo[r])
           after(r) == After(config, call, o(r), View(r))
<1>5. ASSUME NEW r \in Q
      PROVE  /\ Fit(config, call, o(r), View(r)) /\ after(r) \in Views(config)
             /\ \E M \in SUBSET Views(config) :
                  after(r) \in M /\ Leads(config, call, Tail(todo[r]), M, Rest(config, stage))
  BY <1>1, <1>2, <1>4, NextStep
<1>6. ASSUME NEW r \in Ranks PROVE View(r)' = IF r \in Q THEN after(r) ELSE View(r)
  <2>1. /\ memory'[r] = IF r \in Q THEN MemoryAfter(config, o(r), memory[r]) ELSE memory[r]
        /\ version'[r] = IF r \in Q THEN VersionAfter(o(r), version[r]) ELSE version[r]
        /\ engine'[r] = IF r \in Q THEN EngineAfter(config, call, o(r), version[r], engine[r]) ELSE engine[r]
        /\ random'[r] = IF r \in Q THEN RandomAfter(config, call, o(r), r, random[r]) ELSE random[r]
        /\ group'[r] = IF r \in Q THEN GroupAfter(config, o(r), group[r]) ELSE group[r]
    BY DEF Moves, MemoryMoves, VersionMoves, EngineMoves, RandomMoves, GroupMoves
  <2> HIDE DEF o
  <2> QED BY <2>1 DEF View, After
<1>7. todo' = [r \in Ranks |-> IF r \in Q THEN Tail(todo[r]) ELSE todo[r]] BY DEF Moves, Pass
<1>8. ASSUME NEW r \in Ranks PROVE View(r)' \in Views(config)
  <2>1. View(r) \in Views(config) BY <1>1 DEF OnItsWay
  <2> HIDE DEF after
  <2> QED BY <1>5, <1>6, <2>1
<1>9. Typed'
  <2>1. ASSUME NEW r \in Ranks
        PROVE  /\ memory'[r] \in [ModelsOf(config) -> Place] /\ version'[r] \in [ModelsOf(config) -> Int]
               /\ engine'[r] \in Engines /\ random'[r] \in Randoms /\ group'[r] \in Groups(config)
    BY <1>8 DEF View, Views
  <2>2. todo' \in [Ranks -> Seq(Ops(config))]
    <3>1. ASSUME NEW r \in Ranks PROVE (IF r \in Q THEN Tail(todo[r]) ELSE todo[r]) \in Seq(Ops(config))
      <4>1. todo[r] \in Seq(Ops(config)) BY <1>2 DEF Typed
      <4> QED BY <1>4, <4>1
    <3> QED BY <1>7, <3>1
  <2>3. /\ memory' = [r \in Ranks |-> memory'[r]] /\ version' = [r \in Ranks |-> version'[r]]
        /\ engine' = [r \in Ranks |-> engine'[r]] /\ random' = [r \in Ranks |-> random'[r]]
        /\ group' = [r \in Ranks |-> group'[r]]
    BY DEF Moves, MemoryMoves, VersionMoves, EngineMoves, RandomMoves, GroupMoves
  <2>4. /\ memory' \in [Ranks -> [ModelsOf(config) -> Place]] /\ version' \in [Ranks -> [ModelsOf(config) -> Int]]
        /\ engine' \in [Ranks -> Engines] /\ random' \in [Ranks -> Randoms]
        /\ group' \in [Ranks -> Groups(config)]
    BY <2>1, <2>3
  <2> QED BY <1>2, <1>3, <2>2, <2>4 DEF Typed
<1>10. StageInv'
  <2>1. ASSUME NEW r \in Ranks PROVE OnItsWay(r, stage)'
    <3>1. CASE r \in Q
      <4>1. PICK M \in SUBSET Views(config) :
              after(r) \in M /\ Leads(config, call, Tail(todo[r]), M, Rest(config, stage))
        BY <1>5, <3>1
      <4>2. View(r)' \in M /\ todo'[r] = Tail(todo[r]) BY <1>6, <1>7, <3>1, <4>1
      <4> QED BY <1>3, <4>1, <4>2 DEF OnItsWay
    <3>2. CASE r \notin Q
      <4>1. View(r)' = View(r) /\ todo'[r] = todo[r] BY <1>6, <1>7, <3>2
      <4> QED BY <1>1, <1>3, <4>1 DEF OnItsWay
    <3> QED BY <3>1, <3>2
  <2> QED BY <1>1, <1>3, <2>1 DEF StageInv
<1>11. SameDraws'
  <2>1. ASSUME NEW r \in Ranks
        PROVE  Generation(random'[r]) =
                 IF r \in Q /\ o(r).do = "generate" /\ OwnStream(config) /\ call.how # "greedy"
                 THEN Drawn(Generation(random[r])) ELSE Generation(random[r])
    <3>1. CASE r \in Q
      <4>1. View(r) \in Views(config) /\ Drawing(config, o(r), View(r))
        BY <1>1, <1>5, <3>1 DEF OnItsWay, Fit
      <4>2. View(r).random = random[r] /\ View(r).rank = r BY DEF View
      <4>3. random'[r] = RandomAfter(config, call, o(r), r, random[r])
        BY <3>1 DEF Moves, RandomMoves
      <4> HIDE DEF o
      <4> QED BY <3>1, <4>1, <4>2, <4>3, GenerationAfter
    <3>2. CASE r \notin Q
      <4>1. random'[r] = random[r] BY <3>2 DEF Moves, RandomMoves
      <4> QED BY <3>2, <4>1
    <3> QED BY <3>1, <3>2
  <2>2. ASSUME NEW q \in Ranks, NEW r \in Ranks, q \div config.tp = r \div config.tp
        PROVE  Generation(random'[q]) = Generation(random'[r])
    <3>1. Generation(random[q]) = Generation(random[r]) BY <1>2, <2>2 DEF SameDraws
    <3>2. q \in TpGroup(r) /\ r \in TpGroup(q) BY <2>2 DEF TpGroup, Consecutive
    <3>3. (q \in Q /\ o(q).do = "generate") <=> (r \in Q /\ o(r).do = "generate")
      BY <3>2 DEF Moves
    <3> HIDE DEF o
    <3> QED BY <2>1, <3>1, <3>3
  <2> QED BY <1>3, <2>2 DEF SameDraws
<1> QED BY <1>9, <1>10, <1>11 DEF IInv

LEMMA InitIsReady ==
  ASSUME Init, NEW r \in Ranks
  PROVE  View(r) \in Rest(config, "ready")
<1> DEFINE k == config
           M == memory[r]
           V == version[r]
           E == engine[r]
           R == random[r]
           G == group[r]
<1>1. k \in Settings /\ Models = ModelsOf(k) /\ r \in Nat
  BY SettingsAssumption, OfTheSetting DEF Init, Ranks
<1>2. M = [m \in ModelsOf(k) |-> Built(m)] BY <1>1 DEF Init
<1>3. \A m \in ModelsOf(k) : Built(m) \in Place /\ ~Built(m).unsharded /\ Sits(k, m, "idle", Built(m))
  <2> TAKE m \in ModelsOf(k)
  <2>1. m \in {"actor", "critic", "ref", "rm"} BY <1>1, ModelNames
  <2>2. /\ Offloads("critic") <=> Moved(k, "critic")
        /\ ByFsdp("rm") <=> MovedByFsdp(k, "rm")
        /\ ByFsdp("ref") <=> MovedByFsdp(k, "ref")
    BY OfTheSetting
  <2>3. \E w \in {"gpu", "cpu"} :
          /\ Built(m) = [params |-> w, optimizer |-> None, unsharded |-> FALSE]
          /\ m = "actor" => w = "gpu"
          /\ m = "critic" => w = IF Moved(k, "critic") THEN "cpu" ELSE "gpu"
          /\ m \in {"ref", "rm"} => w = IF MovedByFsdp(k, m) THEN "cpu" ELSE "gpu"
    <3>1. CASE m = "actor" BY <3>1 DEF Built, BuiltActor, Placed
    <3>2. CASE m = "critic" BY <2>2, <3>2 DEF Built, BuiltCritic, Placed
    <3>3. CASE m = "ref" BY <2>2, <3>3 DEF Built, BuiltRef, Placed
    <3>4. CASE m = "rm" BY <2>2, <3>4 DEF Built, BuiltRewardModel, Placed
    <3> QED BY <2>1, <3>1, <3>2, <3>3, <3>4
  <2>4. PICK w \in {"gpu", "cpu"} :
          /\ Built(m) = [params |-> w, optimizer |-> None, unsharded |-> FALSE]
          /\ m = "actor" => w = "gpu"
          /\ m = "critic" => w = IF Moved(k, "critic") THEN "cpu" ELSE "gpu"
          /\ m \in {"ref", "rm"} => w = IF MovedByFsdp(k, m) THEN "cpu" ELSE "gpu"
    BY <2>3
  <2> DEFINE p == [params |-> w, optimizer |-> None, unsharded |-> FALSE]
  <2>5. p \in Place /\ p.params = w /\ p.optimizer = None /\ ~p.unsharded BY <2>4 DEF Place
  <2>6. Built(m) = p BY <2>4
  <2> HIDE DEF p
  <2>7. Sits(k, m, "idle", p) BY <2>1, <2>4, <2>5 DEF Sits, None, Moved, MovedByFsdp
  <2> QED BY <2>5, <2>6, <2>7
<1>4. M \in [ModelsOf(k) -> Place] /\ MemoryIs(k, Mem("actor", "idle", {}), M)
  <2>1. M \in [ModelsOf(k) -> Place] /\ \A m \in ModelsOf(k) : M[m] = Built(m) BY <1>2, <1>3
  <2> HIDE DEF M
  <2> QED BY <1>3, <2>1 DEF MemoryIs, Mem
<1>5. V \in [ModelsOf(k) -> Int] /\ UpdatesOf(k, V) = 0
  <2>1. V = [m \in ModelsOf(k) |-> 0] BY <1>1 DEF Init
  <2> HIDE DEF V
  <2> QED BY <2>1 DEF UpdatesOf, ModelsOf
<1>6. E \in Engines /\ EngineIs(k, Eng(Started(k), "rollout", "old"), E, V)
  <2>1. E = [weights |-> Dummy, cache |-> Empty, sampling |-> "rollout", awake |-> Started(k)]
    <3>1. E = BuiltEngine BY DEF Init
    <3>2. CASE k.engine = "vllm063" BY <3>1, <3>2 DEF BuiltEngine, BuiltVllm063, NewEngine, Started
    <3>3. CASE k.engine # "vllm063"
      <4>1. BuiltEngine = Asleep(NewEngine) BY <3>3 DEF BuiltEngine, BuiltVllm, BuiltSglang
      <4> QED BY <3>1, <3>3, <4>1 DEF Asleep, NewEngine, Started
    <3> QED BY <3>2, <3>3
  <2>2. Started(k) \in SUBSET {"weights", "cache"} /\ Dummy \in Int /\ Empty \in Int
    BY DEF Started, Dummy, Empty
  <2> HIDE DEF E
  <2> QED BY <2>1, <2>2 DEF Engines, EngineIs, Eng
<1>7. R \in Randoms /\ RandomIs(k, "all", "training", R, V, r)
  <2>1. R = BuiltRandom(r) BY DEF Init
  <2>2. k.tp \in Nat \ {0} BY <1>1, SettingsAssumption
  <2>3. r \div k.tp \in Int BY <1>1, <2>2
  <2> HIDE DEF R, V
  <2>4. R = [now |-> [name |-> "training", id |-> r, draws |-> 0],
             training |-> [name |-> "training", id |-> r, draws |-> 0],
             generation |-> [name |-> "generation", id |-> r \div k.tp, draws |-> 0]]
    BY <2>1 DEF BuiltRandom, Stream
  <2>5. R \in Randoms BY <1>1, <2>3, <2>4 DEF Randoms, Streams
  <2> QED BY <1>5, <2>4, <2>5 DEF RandomIs, Counted
<1>8. G \in Groups(k) /\ GroupIs(None, G)
  <2>1. G = [now |-> None, before |-> None] BY DEF Init
  <2> HIDE DEF G
  <2> QED BY <2>1 DEF Groups, GroupIs
<1> DEFINE l == [rank |-> r, memory |-> M, version |-> V, engine |-> E, random |-> R, group |-> G]
<1>9. View(r) = l BY DEF View
<1>10. Rest(k, "ready") =
         Where(k, "all", Mem("actor", "idle", {}), None, Eng(Started(k), "rollout", "old"), "training")
  BY DEF Rest, CountAt, WholeAt, Resting, AwakeAt
<1> HIDE DEF M, V, E, R, G, k
<1>11. l \in Views(k) BY <1>1, <1>4, <1>5, <1>6, <1>7, <1>8 DEF Views
<1>12. l \in Where(k, "all", Mem("actor", "idle", {}), None, Eng(Started(k), "rollout", "old"), "training")
  BY <1>4, <1>6, <1>7, <1>8, <1>11 DEF Where
<1> QED BY <1>9, <1>10, <1>12 DEF k

LEMMA InitInv == ASSUME Init PROVE IInv
<1>1. config \in Settings BY DEF Init
<1>2. \A r \in Ranks : View(r) \in Rest(config, "ready") BY InitIsReady
<1>3. \A r \in Ranks : View(r) \in Views(config) BY <1>2, RestIsAssertion
<1>4. todo = [r \in Ranks |-> <<>>] BY DEF Init
<1>5. Typed
  <2>1. /\ memory = [r \in Ranks |-> memory[r]] /\ version = [r \in Ranks |-> version[r]]
        /\ engine = [r \in Ranks |-> engine[r]] /\ random = [r \in Ranks |-> random[r]]
        /\ group = [r \in Ranks |-> group[r]]
    BY DEF Init
  <2>2. \A r \in Ranks :
          /\ memory[r] \in [ModelsOf(config) -> Place] /\ version[r] \in [ModelsOf(config) -> Int]
          /\ engine[r] \in Engines /\ random[r] \in Randoms /\ group[r] \in Groups(config)
    BY <1>3 DEF View, Views
  <2>3. todo \in [Ranks -> Seq(Ops(config))]
    <3>1. <<>> \in Seq(Ops(config)) OBVIOUS
    <3> QED BY <1>4, <3>1
  <2>4. /\ memory \in [Ranks -> [ModelsOf(config) -> Place]] /\ version \in [Ranks -> [ModelsOf(config) -> Int]]
        /\ engine \in [Ranks -> Engines] /\ random \in [Ranks -> Randoms]
        /\ group \in [Ranks -> Groups(config)]
    BY <2>1, <2>2
  <2> QED BY <1>1, <2>3, <2>4 DEF Typed
<1>6. StageInv
  <2>1. schedule \in {Schedule(b) : b \in BOOLEAN} BY DEF Init
  <2>2. Plan(config, schedule, "ready", "going") BY <1>1, <2>1, SchedulePlan
  <2>3. ASSUME NEW r \in Ranks PROVE OnItsWay(r, "ready")
    <3>1. todo[r] = <<>> BY <1>4
    <3>2. Rest(config, "ready") \in SUBSET Views(config) BY RestIsAssertion
    <3>3. Leads(config, call, <<>>, Rest(config, "ready"), Rest(config, "ready")) BY <3>2, LeadsNowhere
    <3> QED BY <1>2, <3>1, <3>2, <3>3 DEF OnItsWay
  <2>4. "ready" \in Stages BY DEF Stages
  <2> QED BY <2>2, <2>3, <2>4 DEF StageInv
<1>7. SameDraws
  <2>1. \A r \in Ranks : Generation(random[r]) = Stream("generation", r \div config.tp)
    BY DEF Init, Generation, BuiltRandom, Stream
  <2> QED BY <2>1 DEF SameDraws
<1> QED BY <1>5, <1>6, <1>7 DEF IInv

\* The trainer's next call: what every rank rests in is where the call starts.
LEMMA DispatchKeeps == ASSUME IInv, Dispatch PROVE IInv'
<1>1. PICK stage \in Stages : /\ Plan(config, schedule, stage, "going")
                              /\ \A r \in Ranks : OnItsWay(r, stage)
  BY DEF IInv, StageInv
<1>2. Typed /\ SameDraws /\ config \in Settings BY DEF IInv, Typed
<1>3. /\ schedule # <<>> /\ schedule' = Tail(schedule) /\ call' = Head(schedule)
      /\ \A r \in Ranks : todo[r] = <<>>
      /\ todo' = [r \in Ranks |-> Program(Head(schedule))]
      /\ UNCHANGED <<config, memory, version, engine, random, group>> /\ Ranks' = Ranks
  BY DEF Dispatch, Ranks
<1> DEFINE c == Head(schedule)
<1>4. PICK next \in Stages : /\ [pre |-> stage, op |-> c, post |-> next] \in StageRules(config)
                             /\ Plan(config, Tail(schedule), next, "going")
  BY <1>1, <1>3, ChainNext DEF Plan
<1>5. Allowed(config, stage, c, next)
  <2> DEFINE t == [pre |-> stage, op |-> c, post |-> next]
  <2>1. Allowed(config, t.pre, t.op, t.post) BY <1>4 DEF StageRules
  <2> QED BY <2>1
<1> HIDE DEF c
<1>6. Leads(config, c, Program(c), Rest(config, stage), Rest(config, next)) BY <1>2, <1>5, CallLeads
<1>7. ASSUME NEW r \in Ranks PROVE View(r) \in Rest(config, stage)
  <2>1. PICK P \in SUBSET Views(config) :
          View(r) \in P /\ Leads(config, call, <<>>, P, Rest(config, stage))
    BY <1>1, <1>3 DEF OnItsWay
  <2>2. P = Rest(config, stage) BY <2>1, ChainEmpty DEF Leads
  <2> QED BY <2>1, <2>2
<1>8. StageInv'
  <2>1. ASSUME NEW r \in Ranks PROVE OnItsWay(r, next)'
    <3>1. View(r)' = View(r) BY <1>3 DEF View
    <3>2. todo'[r] = Program(c) /\ call' = c /\ config' = config BY <1>3 DEF c
    <3>3. Rest(config, stage) \in SUBSET Views(config) BY RestIsAssertion
    <3> QED BY <1>6, <1>7, <3>1, <3>2, <3>3 DEF OnItsWay
  <2> QED BY <1>3, <1>4, <2>1 DEF StageInv
<1>9. Typed'
  <2>1. Program(c) \in Seq(Ops(config)) BY <1>6 DEF Leads, Chain
  <2>2. todo' \in [Ranks -> Seq(Ops(config))] BY <1>3, <2>1 DEF c
  <2> QED BY <1>2, <1>3, <2>2 DEF Typed
<1>10. SameDraws' BY <1>2, <1>3 DEF SameDraws
<1> QED BY <1>8, <1>9, <1>10 DEF IInv

\* What a step does not change it need not be asked about.
LEMMA Still ==
  ASSUME Typed, NEW Q
  PROVE  /\ memory' = memory /\ (\A r \in Q : Head(todo[r]).do \notin
              {"load params", "offload params", "load optimizer", "offload optimizer", "reshard",
               "forward", "update", "restore"}) => MemoryMoves(Q)
         /\ version' = version /\ (\A r \in Q : Head(todo[r]).do \notin {"update", "restore"})
              => VersionMoves(Q)
         /\ engine' = engine /\ (\A r \in Q : Head(todo[r]).do \notin EngineSteps \cup {"generate"})
              => EngineMoves(Q)
         /\ random' = random /\ (\A r \in Q : Head(todo[r]).do \notin
              {"update", "restore", "generate", "swap in", "swap out"}) => RandomMoves(Q)
         /\ group' = group /\ (\A r \in Q : Head(todo[r]).do \notin
              {"enter sequence group", "leave sequence group"}) => GroupMoves(Q)
<1>1. ASSUME memory' = memory,
             \A r \in Q : Head(todo[r]).do \notin
              {"load params", "offload params", "load optimizer", "offload optimizer", "reshard",
               "forward", "update", "restore"}
      PROVE  MemoryMoves(Q)
  <2>1. \A r \in Q : MemoryAfter(config, Head(todo[r]), memory[r]) = memory[r]
    BY <1>1 DEF MemoryAfter
  <2> QED BY <1>1, <2>1 DEF MemoryMoves, Typed
<1>2. ASSUME version' = version, \A r \in Q : Head(todo[r]).do \notin {"update", "restore"}
      PROVE  VersionMoves(Q)
  <2>1. \A r \in Q : VersionAfter(Head(todo[r]), version[r]) = version[r] BY <1>2 DEF VersionAfter
  <2> QED BY <1>2, <2>1 DEF VersionMoves, Typed
<1>3. ASSUME engine' = engine, \A r \in Q : Head(todo[r]).do \notin EngineSteps \cup {"generate"}
      PROVE  EngineMoves(Q)
  <2>1. \A r \in Q : EngineAfter(config, call, Head(todo[r]), version[r], engine[r]) = engine[r]
    BY <1>3 DEF EngineAfter, EngineSteps
  <2> QED BY <1>3, <2>1 DEF EngineMoves, Typed
<1>4. ASSUME random' = random, \A r \in Q : Head(todo[r]).do \notin
              {"update", "restore", "generate", "swap in", "swap out"}
      PROVE  RandomMoves(Q)
  <2>1. \A r \in Q : RandomAfter(config, call, Head(todo[r]), r, random[r]) = random[r]
    BY <1>4 DEF RandomAfter
  <2> QED BY <1>4, <2>1 DEF RandomMoves, Typed
<1>5. ASSUME group' = group, \A r \in Q : Head(todo[r]).do \notin
              {"enter sequence group", "leave sequence group"}
      PROVE  GroupMoves(Q)
  <2>1. \A r \in Q : GroupAfter(config, Head(todo[r]), group[r]) = group[r] BY <1>5 DEF GroupAfter
  <2> QED BY <1>5, <2>1 DEF GroupMoves, Typed
<1> QED BY <1>1, <1>2, <1>3, <1>4, <1>5

LEMMA PutMoves ==
  ASSUME Typed, NEW r \in Ranks,
         ParamsToGpu(r) \/ ParamsToCpu(r) \/ LoadOptimizer(r) \/ OffloadOptimizer(r) \/ Unshard(r)
  PROVE  Moves({r})
<1> DEFINE o == Head(todo[r])
           m == o.of
           a == o.do
<1>1. todo[r] # <<>> /\ a \in {"load params", "offload params", "load optimizer", "offload optimizer", "reshard"}
  BY DEF ParamsToGpu, ParamsToCpu, LoadOptimizer, OffloadOptimizer, MoveOptimizer, Unshard, At
<1>2. Pass({r}) /\ UNCHANGED <<Driver, version, engine, random, group>>
  BY DEF ParamsToGpu, ParamsToCpu, LoadOptimizer, OffloadOptimizer, MoveOptimizer, Unshard, Put
<1>3. memory' = [memory EXCEPT ![r] = MemoryAfter(config, o, memory[r])]
  <2>1. CASE ParamsToGpu(r)
    <3>1. memory' = [memory EXCEPT ![r][m].params = "gpu"] /\ a = "load params"
      BY <2>1 DEF ParamsToGpu, Put, Model, At
    <3> QED BY <3>1 DEF MemoryAfter
  <2>2. CASE ParamsToCpu(r)
    <3>1. memory' = [memory EXCEPT ![r][m].params = "cpu"] /\ a = "offload params"
      BY <2>2 DEF ParamsToCpu, Put, Model, At
    <3> QED BY <3>1 DEF MemoryAfter
  <2>3. CASE LoadOptimizer(r)
    <3>1. /\ memory' = [memory EXCEPT ![r][m].optimizer =
                                        IF memory[r][m].optimizer = None THEN None ELSE "gpu"]
          /\ a = "load optimizer"
      BY <2>3 DEF LoadOptimizer, MoveOptimizer, Put, Model, At
    <3> QED BY <3>1 DEF MemoryAfter
  <2>4. CASE OffloadOptimizer(r)
    <3>1. /\ memory' = [memory EXCEPT ![r][m].optimizer =
                                        IF memory[r][m].optimizer = None THEN None ELSE "cpu"]
          /\ a = "offload optimizer"
      BY <2>4 DEF OffloadOptimizer, MoveOptimizer, Put, Model, At
    <3> QED BY <3>1 DEF MemoryAfter
  <2>5. CASE Unshard(r)
    <3>1. memory' = [memory EXCEPT ![r][m].unsharded = FALSE] /\ a = "reshard"
      BY <2>5 DEF Unshard, Put, Model, At
    <3> QED BY <3>1 DEF MemoryAfter
  <2> QED BY <2>1, <2>2, <2>3, <2>4, <2>5
<1> HIDE DEF o
<1>4. MemoryMoves({r}) BY <1>3 DEF MemoryMoves, Typed, o
<1>5. VersionMoves({r}) /\ EngineMoves({r}) /\ RandomMoves({r}) /\ GroupMoves({r})
  BY <1>1, <1>2, Still DEF o, EngineSteps
<1> QED BY <1>1, <1>2, <1>4, <1>5 DEF Moves, o

LEMMA GroupMove ==
  ASSUME Typed, NEW r \in Ranks, EnterSequenceGroup(r) \/ LeaveSequenceGroup(r)
  PROVE  Moves({r})
<1> DEFINE o == Head(todo[r])
<1>1. todo[r] # <<>> /\ o.do \in {"enter sequence group", "leave sequence group"}
  BY DEF EnterSequenceGroup, LeaveSequenceGroup, At
<1>2. Pass({r}) /\ UNCHANGED <<Driver, memory, version, engine, random>>
  BY DEF EnterSequenceGroup, LeaveSequenceGroup
<1>3. group' = [group EXCEPT ![r] = GroupAfter(config, o, group[r])]
  <2>1. group = [group EXCEPT ![r] = group[r]] BY DEF Typed
  <2>2. Sp(o.of) = SpOf(config, o.of) BY OfTheSetting
  <2>3. CASE EnterSequenceGroup(r)
    BY <2>1, <2>2, <2>3 DEF EnterSequenceGroup, Model, At, GroupAfter
  <2>4. CASE LeaveSequenceGroup(r)
    <3>1. /\ o.do = "leave sequence group"
          /\ group' = IF SpOf(config, o.of) = 1 THEN group ELSE [group EXCEPT ![r].now = group[r].before]
      BY <2>2, <2>4 DEF LeaveSequenceGroup, Model, At
    <3> QED BY <2>1, <3>1 DEF GroupAfter
  <2> QED BY <2>3, <2>4
<1> HIDE DEF o
<1>4. GroupMoves({r}) BY <1>3 DEF GroupMoves, Typed, o
<1>5. VersionMoves({r}) /\ EngineMoves({r}) /\ RandomMoves({r}) /\ MemoryMoves({r})
  BY <1>1, <1>2, Still DEF o, EngineSteps
<1> QED BY <1>1, <1>2, <1>4, <1>5 DEF Moves, o

\* Gathering rows, keeping a part, saving, and the state dict leave all else alone.
LEMMA RowsMove ==
  ASSUME Typed, NEW Q \in SUBSET Ranks,
         \A q \in Q : todo[q] # <<>> /\ Head(todo[q]).do \in RowSteps \cup {"save", "state dict"},
         Pass(Q), UNCHANGED <<Driver, memory, version, engine, random, group>>
  PROVE  Moves(Q)
<1>1. \A q \in Q : Head(todo[q]).do \in
        {"gather", "keep own rows", "gather prompts", "take micro rows", "join micro rows",
         "copy responses", "keep own responses", "save", "state dict"}
  BY DEF RowSteps
<1>2. /\ MemoryMoves(Q) /\ VersionMoves(Q) /\ EngineMoves(Q) /\ RandomMoves(Q) /\ GroupMoves(Q)
  BY <1>1, Still DEF EngineSteps
<1> QED BY <1>1, <1>2 DEF Moves

LEMMA RowActionsMove ==
  ASSUME Typed, NEW r \in Ranks,
         \/ Gather(r) \/ GatherPrompts(r) \/ JoinMicroRows(r) \/ KeepOwnRows(r)
         \/ KeepOwnResponses(r) \/ TakeMicroRows(r) \/ CopyResponses(r) \/ StateDict(r)
  PROVE  \E Q \in SUBSET Ranks : Moves(Q)
<1> DEFINE still(Q) == Pass(Q) /\ UNCHANGED <<Driver, memory, version, engine, random, group>>
           all(Q) == \A q \in Q : todo[q] # <<>> /\ Head(todo[q]).do \in RowSteps \cup {"save", "state dict"}
<1>1. ASSUME NEW Q, NEW a \in RowSteps, GatherIn(Q, a) PROVE all(Q) /\ still(Q)
  BY <1>1 DEF GatherIn, At
<1>2. ASSUME NEW n, NEW a \in RowSteps, KeepPart(r, a, n) PROVE all({r}) /\ still({r})
  BY <1>2 DEF KeepPart, At
<1>3. {"gather", "gather prompts", "join micro rows", "keep own rows", "keep own responses",
       "take micro rows", "copy responses"} \subseteq RowSteps
  BY DEF RowSteps
<1>4. /\ \A m : SpGroup(m, r) \in SUBSET Ranks
      /\ TpGroup(r) \in SUBSET Ranks /\ MicroGroup(r) \in SUBSET Ranks /\ {r} \in SUBSET Ranks
  BY DEF SpGroup, TpGroup, MicroGroup, Consecutive
<1>5. CopyResponses(r) => all(TpGroup(r)) /\ still(TpGroup(r)) BY <1>3 DEF CopyResponses, At
<1>6. StateDict(r) => all({r}) /\ still({r})
  <2>1. engine = [engine EXCEPT ![r] = engine[r]] BY DEF Typed
  <2> QED BY <2>1 DEF StateDict, Set, At
<1>7. Gather(r) => \E m : all(SpGroup(m, r)) /\ still(SpGroup(m, r)) BY <1>1, <1>3 DEF Gather
<1>8. GatherPrompts(r) => all(TpGroup(r)) /\ still(TpGroup(r)) BY <1>1, <1>3 DEF GatherPrompts
<1>9. JoinMicroRows(r) => all(MicroGroup(r)) /\ still(MicroGroup(r)) BY <1>1, <1>3 DEF JoinMicroRows
<1>10. KeepOwnRows(r) \/ KeepOwnResponses(r) \/ TakeMicroRows(r) => all({r}) /\ still({r})
  BY <1>2, <1>3 DEF KeepOwnRows, KeepOwnResponses, TakeMicroRows
<1> HIDE DEF still, all
<1>11. PICK Q \in SUBSET Ranks : all(Q) /\ still(Q)
  BY <1>4, <1>5, <1>6, <1>7, <1>8, <1>9, <1>10
<1>12. Moves(Q) BY <1>11, RowsMove DEF all, still
<1> QED BY <1>12

LEMMA SetMoves ==
  ASSUME Typed, NEW r \in Ranks, todo[r] # <<>>, Head(todo[r]).do \in EngineSteps,
         Set(r, EngineAfter(config, call, Head(todo[r]), version[r], engine[r]))
  PROVE  Moves({r})
<1> DEFINE o == Head(todo[r])
           E == EngineAfter(config, call, o, version[r], engine[r])
<1>1. /\ engine' = [engine EXCEPT ![r] = E]
      /\ Pass({r}) /\ UNCHANGED <<Driver, memory, version, random, group>>
  BY DEF Set
<1> HIDE DEF E
<1>2. EngineMoves({r}) BY <1>1 DEF EngineMoves, Typed, E
<1>3. VersionMoves({r}) /\ MemoryMoves({r}) /\ RandomMoves({r}) /\ GroupMoves({r})
  BY <1>1, Still DEF EngineSteps
<1> QED BY <1>1, <1>2, <1>3 DEF Moves, EngineSteps

LEMMA EngineActionsMove ==
  ASSUME Typed, NEW r \in Ranks,
         \/ WakeWeights(r) \/ WakeCache(r) \/ Sleep(r) \/ DropCache(r)
         \/ SetSampling(r) \/ RollBackSampling(r)
  PROVE  Moves({r})
<1> DEFINE o == Head(todo[r])
           E == engine[r]
           after == EngineAfter(config, call, o, version[r], E)
<1>1. todo[r] # <<>> /\ o.do \in EngineSteps /\ Set(r, after)
  <2>1. CASE WakeWeights(r)
    <3>1. o.do = "wake weights" /\ todo[r] # <<>> /\ Set(r, [E EXCEPT !.awake = @ \cup {"weights"}])
      BY <2>1 DEF WakeWeights, Wake, At
    <3> QED BY <3>1 DEF EngineAfter, EngineSteps
  <2>2. CASE WakeCache(r)
    <3>1. /\ o.do \in {"wake cache", "make cache"} /\ todo[r] # <<>>
          /\ Set(r, [E EXCEPT !.awake = @ \cup {"cache"}])
      BY <2>2 DEF WakeCache, Wake, At
    <3> QED BY <3>1 DEF EngineAfter, EngineSteps
  <2>3. CASE Sleep(r)
    <3>1. o.do = "sleep" /\ todo[r] # <<>> /\ Set(r, Asleep(E)) BY <2>3 DEF Sleep, At
    <3>2. after = Asleep(E) BY <3>1 DEF EngineAfter, Asleep
    <3> QED BY <3>1, <3>2 DEF EngineSteps
  <2>4. CASE DropCache(r)
    <3>1. CASE o.do = "free cache"
      <4>1. todo[r] # <<>> /\ Set(r, [E EXCEPT !.cache = Empty, !.awake = @ \ {"cache"}])
        BY <2>4, <3>1 DEF DropCache, At
      <4> QED BY <3>1, <4>1 DEF EngineAfter, EngineSteps
    <3>2. CASE o.do = "flush cache"
      <4>1. todo[r] # <<>> /\ Set(r, [E EXCEPT !.cache = Empty]) BY <2>4, <3>2 DEF DropCache, At
      <4> QED BY <3>2, <4>1 DEF EngineAfter, EngineSteps
    <3> QED BY <2>4, <3>1, <3>2 DEF DropCache, At
  <2>5. CASE SetSampling(r)
    <3>1. /\ o.do = "set sampling" /\ todo[r] # <<>>
          /\ Set(r, IF Changed THEN [E EXCEPT !.sampling = call.how] ELSE E)
      BY <2>5 DEF SetSampling, At
    <3>2. after = IF Changed THEN [E EXCEPT !.sampling = call.how] ELSE E
      BY <3>1 DEF EngineAfter, Changed
    <3> QED BY <3>1, <3>2 DEF EngineSteps
  <2>6. CASE RollBackSampling(r)
    <3>1. o.do = "roll back sampling" /\ todo[r] # <<>> /\ Set(r, [E EXCEPT !.sampling = "rollout"])
      BY <2>6 DEF RollBackSampling, At
    <3> QED BY <3>1 DEF EngineAfter, EngineSteps
  <2> QED BY <2>1, <2>2, <2>3, <2>4, <2>5, <2>6
<1> QED BY <1>1, SetMoves

LEMMA SwapMoves ==
  ASSUME Typed, NEW r \in Ranks, SwapIn(r) \/ SwapOut(r)
  PROVE  Moves({r})
<1> DEFINE o == Head(todo[r])
           R == RandomAfter(config, call, o, r, random[r])
<1>1. /\ todo[r] # <<>> /\ o.do \in {"swap in", "swap out"}
      /\ Pass({r}) /\ UNCHANGED <<Driver, memory, version, engine, group>>
  BY DEF SwapIn, SwapOut, Swap, At
<1>2. random' = [random EXCEPT ![r] = R]
  <2>1. CASE SwapIn(r) BY <2>1 DEF SwapIn, Swap, At, RandomAfter
  <2>2. CASE SwapOut(r) BY <2>2 DEF SwapOut, Swap, At, RandomAfter
  <2> QED BY <2>1, <2>2
<1> HIDE DEF R
<1>3. RandomMoves({r}) BY <1>2 DEF RandomMoves, Typed, R
<1>4. VersionMoves({r}) /\ MemoryMoves({r}) /\ EngineMoves({r}) /\ GroupMoves({r})
  BY <1>1, Still DEF EngineSteps
<1> QED BY <1>1, <1>3, <1>4 DEF Moves

LEMMA GenerateMoves ==
  ASSUME Typed, NEW r \in Ranks, GenerateTogether(r)
  PROVE  TpGroup(r) \in SUBSET Ranks /\ Moves(TpGroup(r))
<1> DEFINE Q == TpGroup(r)
<1>1. Q \in SUBSET Ranks BY DEF TpGroup, Consecutive
<1>2. /\ \A q \in Q : todo[q] # <<>> /\ Head(todo[q]).do = "generate"
      /\ Pass(Q) /\ UNCHANGED <<Driver, memory, version, group>>
  BY DEF GenerateTogether, At
<1>3. \A q \in Q : TpGroup(q) = Q BY <1>1 DEF TpGroup, Consecutive
<1>4. EngineMoves(Q)
  <2>1. engine' = [q \in Ranks |->
          IF q \in Q THEN [engine[q] EXCEPT !.cache = IF engine[q].cache = Empty THEN engine[q].weights
                                                      ELSE engine[q].cache]
          ELSE engine[q]]
    BY DEF GenerateTogether
  <2>2. \A q \in Q : EngineAfter(config, call, Head(todo[q]), version[q], engine[q]) =
          [engine[q] EXCEPT !.cache = IF engine[q].cache = Empty THEN engine[q].weights
                                      ELSE engine[q].cache]
    BY <1>2 DEF EngineAfter
  <2> HIDE DEF Q
  <2> QED BY <2>1, <2>2 DEF EngineMoves
<1>5. RandomMoves(Q)
  <2>1. random' = [q \in Ranks |->
          IF q \in Q /\ call.how # "greedy" THEN [random[q] EXCEPT !.now = Drawn(random[q].now)]
          ELSE random[q]]
    BY DEF GenerateTogether
  <2>2. \A q \in Q : RandomAfter(config, call, Head(todo[q]), q, random[q]) =
          IF call.how # "greedy" THEN [random[q] EXCEPT !.now = Drawn(random[q].now)] ELSE random[q]
    BY <1>2 DEF RandomAfter
  <2> HIDE DEF Q
  <2> QED BY <2>1, <2>2 DEF RandomMoves
<1> HIDE DEF Q
<1>6. VersionMoves(Q) /\ MemoryMoves(Q) /\ GroupMoves(Q) BY <1>1, <1>2, Still
<1> QED BY <1>1, <1>2, <1>3, <1>4, <1>5, <1>6 DEF Moves, Q

LEMMA ForwardMoves == ASSUME Typed, Forward PROVE Moves(Ranks)
<1>1. /\ \A r \in Ranks : todo[r] # <<>> /\ Head(todo[r]).do = "forward"
      /\ Pass(Ranks) /\ UNCHANGED <<Driver, version, engine, random, group>>
  BY DEF Forward, Everywhere, At
<1>2. MemoryMoves(Ranks)
  <2>1. memory' = [r \in Ranks |-> [memory[r] EXCEPT ![Head(todo[r]).of].unsharded =
                                      ~Mega(config) /\ config.world > 1]]
    BY OfTheSetting DEF Forward, Model
  <2>2. \A r \in Ranks : MemoryAfter(config, Head(todo[r]), memory[r]) =
          [memory[r] EXCEPT ![Head(todo[r]).of].unsharded = ~Mega(config) /\ config.world > 1]
    BY <1>1 DEF MemoryAfter
  <2> QED BY <2>1, <2>2 DEF MemoryMoves
<1>3. VersionMoves(Ranks) /\ EngineMoves(Ranks) /\ RandomMoves(Ranks) /\ GroupMoves(Ranks)
  BY <1>1, Still DEF EngineSteps
<1> QED BY <1>1, <1>2, <1>3 DEF Moves

LEMMA UpdateMoves == ASSUME Typed, Update PROVE Moves(Ranks)
<1>1. /\ \A r \in Ranks : todo[r] # <<>> /\ Head(todo[r]).do = "update"
      /\ Pass(Ranks) /\ UNCHANGED <<Driver, engine, group>>
  BY DEF Update, Everywhere, At
<1>2. MemoryMoves(Ranks)
  <2>1. memory' = [r \in Ranks |-> [memory[r] EXCEPT ![Head(todo[r]).of].unsharded = FALSE,
                                                     ![Head(todo[r]).of].optimizer = "gpu"]]
    BY DEF Update, Model
  <2>2. \A r \in Ranks : MemoryAfter(config, Head(todo[r]), memory[r]) =
          [memory[r] EXCEPT ![Head(todo[r]).of].unsharded = FALSE,
                            ![Head(todo[r]).of].optimizer = "gpu"]
    BY <1>1 DEF MemoryAfter
  <2> QED BY <2>1, <2>2 DEF MemoryMoves
<1>3. VersionMoves(Ranks) BY <1>1 DEF VersionMoves, VersionAfter, Update, Model
<1>4. RandomMoves(Ranks) BY <1>1 DEF RandomMoves, RandomAfter, Update
<1>5. EngineMoves(Ranks) /\ GroupMoves(Ranks) BY <1>1, Still DEF EngineSteps
<1> QED BY <1>1, <1>2, <1>3, <1>4, <1>5 DEF Moves

\* The checkpoint's random state comes after one update of each model there is.
LEMMA TrainedModels ==
  ASSUME config \in Settings
  PROVE  Cardinality({m \in Models : Trained(m)}) = IF "critic" \in ModelsOf(config) THEN 2 ELSE 1
<1>1. Models = ModelsOf(config) BY OfTheSetting
<1>2. CASE "critic" \in ModelsOf(config)
  <2>1. {m \in Models : Trained(m)} = {"actor", "critic"} BY <1>1, <1>2 DEF Trained, ModelsOf
  <2>2. IsFiniteSet({"actor"}) /\ Cardinality({"actor"}) = 1 BY FS_Singleton
  <2>3. Cardinality({"actor"} \cup {"critic"}) = Cardinality({"actor"}) + 1
    BY <2>2, FS_AddElement
  <2>4. {"actor"} \cup {"critic"} = {"actor", "critic"} OBVIOUS
  <2> QED BY <1>2, <2>1, <2>2, <2>3, <2>4
<1>3. CASE "critic" \notin ModelsOf(config)
  <2>1. {m \in Models : Trained(m)} = {"actor"} BY <1>1, <1>3 DEF Trained, ModelsOf
  <2>2. Cardinality({"actor"}) = 1 BY FS_Singleton
  <2> QED BY <1>3, <2>1, <2>2
<1> QED BY <1>2, <1>3

LEMMA RestoreMoves == ASSUME Typed, Restore PROVE Moves(Ranks)
<1>1. /\ \A r \in Ranks : todo[r] # <<>> /\ Head(todo[r]).do = "restore"
      /\ Pass(Ranks) /\ UNCHANGED <<Driver, engine, group>>
  BY DEF Restore, Everywhere, At
<1>2. MemoryMoves(Ranks) BY <1>1 DEF MemoryMoves, MemoryAfter, Restore, Model
<1>3. VersionMoves(Ranks) BY <1>1 DEF VersionMoves, VersionAfter, Restore, Model
<1>4. RandomMoves(Ranks)
  <2> DEFINE d == Cardinality({m \in Models : Trained(m)})
  <2>1. random' = [r \in Ranks |-> [random[r] EXCEPT !.now = [Stream("training", r) EXCEPT !.draws = d]]]
    BY DEF Restore
  <2>2. d = IF "critic" \in ModelsOf(config) THEN 2 ELSE 1 BY TrainedModels DEF Typed
  <2> HIDE DEF d
  <2> QED BY <1>1, <2>1, <2>2 DEF RandomMoves, RandomAfter
<1>5. EngineMoves(Ranks) /\ GroupMoves(Ranks) BY <1>1, Still DEF EngineSteps
<1> QED BY <1>1, <1>2, <1>3, <1>4, <1>5 DEF Moves

LEMMA SaveMoves == ASSUME Typed, Save PROVE Moves(Ranks)
<1>1. /\ \A r \in Ranks : todo[r] # <<>> /\ Head(todo[r]).do = "save"
      /\ Pass(Ranks) /\ UNCHANGED <<Driver, memory, version, engine, random, group>>
  BY DEF Save, Everywhere, At
<1> QED BY <1>1, RowsMove

LEMMA SyncMoves == ASSUME Typed, SyncWeights PROVE Moves(Ranks)
<1>1. /\ \A r \in Ranks : todo[r] # <<>> /\ Head(todo[r]).do = "sync"
      /\ Pass(Ranks) /\ UNCHANGED <<Driver, memory, version, random, group>>
  BY DEF SyncWeights, Everywhere, At
<1>2. EngineMoves(Ranks)
  <2>1. engine' = [r \in Ranks |-> [engine[r] EXCEPT !.weights = version[r]["actor"]]]
    BY DEF SyncWeights
  <2>2. \A r \in Ranks : EngineAfter(config, call, Head(todo[r]), version[r], engine[r])
                           = [engine[r] EXCEPT !.weights = version[r]["actor"]]
    BY <1>1 DEF EngineAfter
  <2> QED BY <2>1, <2>2 DEF EngineMoves
<1>3. VersionMoves(Ranks) /\ MemoryMoves(Ranks) /\ RandomMoves(Ranks) /\ GroupMoves(Ranks)
  BY <1>1, Still DEF EngineSteps
<1> QED BY <1>1, <1>2, <1>3 DEF Moves

LEMMA StutterKeeps == ASSUME IInv, UNCHANGED vars PROVE IInv'
<1>1. UNCHANGED <<config, schedule, call, todo, memory, version, engine, random, group>> BY DEF vars
<1>2. Typed' BY <1>1 DEF IInv, Typed, Ranks
<1>3. StageInv' BY <1>1 DEF IInv, StageInv, OnItsWay, View, Ranks
<1>4. SameDraws' BY <1>1 DEF IInv, SameDraws, Ranks
<1> QED BY <1>2, <1>3, <1>4 DEF IInv

LEMMA NextKeeps == ASSUME IInv, [Next]_vars PROVE IInv'
<1>1. Typed BY DEF IInv
<1>2. CASE Dispatch BY <1>2, DispatchKeeps
<1>3. CASE Forward BY <1>1, <1>3, ForwardMoves, MovesKeep
<1>4. CASE Update BY <1>1, <1>4, UpdateMoves, MovesKeep
<1>5. CASE Save BY <1>1, <1>5, SaveMoves, MovesKeep
<1>6. CASE Restore BY <1>1, <1>6, RestoreMoves, MovesKeep
<1>7. CASE SyncWeights BY <1>1, <1>7, SyncMoves, MovesKeep
<1>8. ASSUME NEW r \in Ranks, Step(r) PROVE IInv'
  <2>1. \E Q : Moves(Q)
    <3>1. CASE ParamsToGpu(r) \/ ParamsToCpu(r) \/ LoadOptimizer(r) \/ OffloadOptimizer(r) \/ Unshard(r)
      BY <1>1, <3>1, PutMoves
    <3>2. CASE EnterSequenceGroup(r) \/ LeaveSequenceGroup(r) BY <1>1, <3>2, GroupMove
    <3>3. CASE \/ Gather(r) \/ GatherPrompts(r) \/ JoinMicroRows(r) \/ KeepOwnRows(r)
               \/ KeepOwnResponses(r) \/ TakeMicroRows(r) \/ CopyResponses(r) \/ StateDict(r)
      BY <1>1, <3>3, RowActionsMove
    <3>4. CASE \/ WakeWeights(r) \/ WakeCache(r) \/ Sleep(r) \/ DropCache(r)
               \/ SetSampling(r) \/ RollBackSampling(r)
      BY <1>1, <3>4, EngineActionsMove
    <3>5. CASE GenerateTogether(r) BY <1>1, <3>5, GenerateMoves
    <3>6. CASE SwapIn(r) \/ SwapOut(r) BY <1>1, <3>6, SwapMoves
    <3> QED BY <1>8, <3>1, <3>2, <3>3, <3>4, <3>5, <3>6 DEF Step
  <2> QED BY <2>1, MovesKeep
<1>9. CASE Finished BY <1>9, StutterKeeps DEF Finished
<1>10. CASE UNCHANGED vars BY <1>10, StutterKeeps
<1> QED BY <1>2, <1>3, <1>4, <1>5, <1>6, <1>7, <1>8, <1>9, <1>10 DEF Next

LEMMA Invariance == Spec => []IInv
<1>1. Init => IInv BY InitInv
<1>2. IInv /\ [Next]_vars => IInv' BY NextKeeps
<1> QED BY <1>1, <1>2, PTL DEF Spec

---------------------------------------------------------------------------
(* Rows                                                                      *)

\* The prompts are numbered through, L of them to a home. A block is the answers to
\* count prompts from first on, C copies of each next to each other, or the prompts.
RowAt(L, g, copy, result) ==
  [home |-> g \div L, i |-> (g % L) + 1, copy |-> copy, result |-> result]
Block(L, first, count, C, result) ==
  [j \in 1 .. count * C |-> RowAt(L, first + ((j - 1) \div C), ((j - 1) % C) + 1, result)]
RowsOf(result) == [home : Int, i : Int, copy : Int, result : {result}]

IsSeqOf(b, n, T) == b \in Seq(T) /\ Len(b) = n /\ n \in Nat

LEMMA BlockIsSeq ==
  ASSUME NEW L \in Nat \ {0}, NEW first \in Nat, NEW count \in Nat, NEW C \in Nat \ {0}, NEW result
  PROVE  IsSeqOf(Block(L, first, count, C, result), count * C, RowsOf(result))
<1> DEFINE f == Block(L, first, count, C, result)
           n == count * C
<1>1. n \in Nat OBVIOUS
<1>2. ASSUME NEW j \in 1 .. n
      PROVE  RowAt(L, first + ((j - 1) \div C), ((j - 1) % C) + 1, result) \in RowsOf(result)
  <2> DEFINE g == first + ((j - 1) \div C)
             d == ((j - 1) % C) + 1
  <2>1. g \in Nat /\ d \in Nat
    <3>1. j - 1 \in Nat BY <1>1
    <3> QED BY <3>1
  <2> HIDE DEF g, d
  <2>2. g \div L \in Int /\ (g % L) + 1 \in Int BY <2>1
  <2>3. RowAt(L, g, d, result) \in RowsOf(result) BY <2>1, <2>2 DEF RowAt, RowsOf
  <2> QED BY <2>3 DEF g, d
<1>3. f = [j \in 1 .. n |-> RowAt(L, first + ((j - 1) \div C), ((j - 1) % C) + 1, result)]
  BY DEF Block
<1> HIDE DEF f, n
<1>4. f \in [1 .. n -> RowsOf(result)] BY <1>2, <1>3
<1>5. f \in Seq(RowsOf(result)) /\ Len(f) = n BY <1>1, <1>4, FunctionIsSequence
<1> QED BY <1>1, <1>5 DEF f, n, IsSeqOf

\* Past i whole runs of m prompts, the y-th answer is to the same prompt of its run.
Past(C, m, i, y) ==
  /\ (i * (m * C) + y) \div C = i * m + (y \div C)
  /\ ((i * (m * C) + y) % C) = (y % C)

LEMMA PastRuns ==
  ASSUME NEW C \in Nat \ {0}, NEW m \in Nat, NEW i \in Nat, NEW y \in Nat
  PROVE  Past(C, m, i, y)
<1> DEFINE p == y \div C
           t == (y % C)
           x == i * (m * C) + y
           q == i * m + p
<1>1. p \in Nat /\ t \in 0 .. C - 1 /\ y = C * p + t OBVIOUS
<1> HIDE DEF p, t
<1>2. q \in Nat BY <1>1
<1>3. x = C * q + t
  <2> DEFINE u == i * m
             v == C * u
             w == C * p
  <2>1. i * (m * C) = v OBVIOUS
  <2>2. u \in Nat OBVIOUS
  <2> HIDE DEF u
  <2>3. C * q = v + w /\ v \in Nat /\ w \in Nat BY <1>1, <2>2 DEF u
  <2> HIDE DEF v, q
  <2> QED BY <1>1, <2>1, <2>3
<1> HIDE DEF q, x
<1>4. x \div C = q /\ (x % C) = t BY <1>1, <1>2, <1>3, QuotientAndRemainder
<1> QED BY <1>4 DEF x, q, p, t, Past

\* The blocks of m prompts each from the first on.
Blocks(c, n, L, first, m, C, result) ==
  Len(c) = n /\ \A i \in 1 .. n : c[i] = Block(L, first + (i - 1) * m, m, C, result)

\* Blocks one after another are one block.
LEMMA BlocksJoin ==
  ASSUME NEW L \in Nat \ {0}, NEW first \in Nat, NEW m \in Nat, NEW C \in Nat \ {0}, NEW result,
         NEW n \in Nat \ {0}, NEW c, Blocks(c, n, L, first, m, C, result)
  PROVE  FlattenSeq(c) = Block(L, first, n * m, C, result)
<1>0. Len(c) = n /\ \A i \in 1 .. n : c[i] = Block(L, first + (i - 1) * m, m, C, result)
  BY DEF Blocks
<1> DEFINE w == m * C
           T == RowsOf(result)
           off == [i \in 0 .. n |-> i * w]
           s == FlattenSeq(c)
           b == Block(L, first, n * m, C, result)
<1>1. w \in Nat /\ n * m \in Nat OBVIOUS
<1>2. ASSUME NEW i \in 1 .. n PROVE c[i] \in Seq(T) /\ Len(c[i]) = w
  <2> DEFINE z == i - 1
             g == first + z * m
  <2>1. z \in Nat OBVIOUS
  <2> HIDE DEF z
  <2>2. g \in Nat BY <2>1
  <2>3. c[i] = Block(L, g, m, C, result) BY <1>0 DEF g, z
  <2> HIDE DEF g
  <2>4. IsSeqOf(Block(L, g, m, C, result), m * C, RowsOf(result)) BY <2>2, BlockIsSeq
  <2> QED BY <2>3, <2>4 DEF IsSeqOf
<1>3. \A i \in 0 .. n : off[i] = i * w OBVIOUS
<1>4. Offsets(off, c, n, T)
  <2> HIDE DEF off, T, w
  <2>1. \A i \in 0 .. n : off[i] \in Nat
    <3>1. \A i \in 0 .. n : i * w \in Nat BY <1>1
    <3> QED BY <1>3, <3>1
  <2>2. off[0] = 0
    <3>1. 0 \in 0 .. n /\ 0 * w = 0 BY <1>1
    <3> QED BY <1>3, <3>1
  <2>3. ASSUME NEW i \in 1 .. n PROVE off[i] = off[i - 1] + Len(c[i])
    <3>1. i \in 0 .. n /\ i - 1 \in 0 .. n OBVIOUS
    <3>2. i * w = (i - 1) * w + w BY <1>1
    <3> QED BY <1>2, <1>3, <3>1, <3>2
  <2> QED BY <1>0, <1>2, <2>1, <2>2, <2>3 DEF Offsets
<1>5. EntriesAt(s, off, c, n, T) BY <1>4, EntriesOfFlatten
<1>6. /\ s \in Seq(T) /\ Len(s) = n * w
      /\ \A i \in 1 .. n : \A j \in 1 .. w : s[(i - 1) * w + j] = c[i][j]
  <2> HIDE DEF off, T, w, s
  <2>1. n \in 0 .. n OBVIOUS
  <2>2. \A i \in 1 .. n : i - 1 \in 0 .. n OBVIOUS
  <2>3. /\ s \in Seq(T) /\ Len(s) = off[n]
        /\ \A i \in 1 .. n : \A j \in 1 .. Len(c[i]) : s[off[i - 1] + j] = c[i][j]
    BY <1>5 DEF EntriesAt
  <2>4. \A i \in 1 .. n : off[i - 1] = (i - 1) * w /\ Len(c[i]) = w BY <1>2, <1>3, <2>2
  <2>5. \A i \in 1 .. n : \A j \in 1 .. w : s[(i - 1) * w + j] = c[i][j] BY ONLY <2>3, <2>4
  <2>6. off[n] = n * w BY <1>3, <2>1
  <2> QED BY ONLY <2>3, <2>5, <2>6
<1>7. b \in Seq(T) /\ Len(b) = n * w
  <2> DEFINE N == n * m
  <2>1. N * C = n * w /\ N \in Nat OBVIOUS
  <2> HIDE DEF N, w
  <2>2. IsSeqOf(Block(L, first, N, C, result), N * C, RowsOf(result)) BY <2>1, BlockIsSeq
  <2> QED BY ONLY <2>1, <2>2 DEF N, b, T, IsSeqOf
<1>8. ASSUME NEW x \in 1 .. n * w PROVE s[x] = b[x]
  <2> DEFINE i == (x - 1) \div w
             y == ((x - 1) % w)
  <2>1. w # 0 /\ x - 1 \in 0 .. n * w - 1
    <3>1. n * 0 = 0 OBVIOUS
    <3> QED BY <1>1, <3>1
  <2>2. i \in 0 .. n - 1 /\ y \in 0 .. w - 1 /\ x - 1 = w * i + y
    <3>1. w \in Nat \ {0} BY <1>1, <2>1
    <3>2. i \in 0 .. n - 1 /\ x - 1 = w * i + y
      <4> HIDE DEF w
      <4> QED BY <2>1, <3>1, GroupInRange
    <3>3. y \in 0 .. w - 1
      <4> HIDE DEF w
      <4> QED BY <2>1, <3>1
    <3> QED BY <3>2, <3>3
  <2> HIDE DEF i, y
  <2>3. i + 1 \in 1 .. n /\ y + 1 \in 1 .. w /\ (i + 1) - 1 = i BY <1>1, <2>2
  <2>4. x = i * w + (y + 1)
    <3>1. w * i = i * w BY <1>1, <2>2
    <3> QED BY <1>1, <2>2, <3>1
  <2>5. s[x] = c[i + 1][y + 1]
    <3>1. s[((i + 1) - 1) * w + (y + 1)] = c[i + 1][y + 1] BY <1>6, <2>3
    <3> QED BY <2>3, <2>4, <3>1
  <2>6. c[i + 1] = Block(L, first + i * m, m, C, result) BY <1>0, <2>3
  <2>7. c[i + 1][y + 1] = RowAt(L, (first + i * m) + (y \div C), (y % C) + 1, result)
    <3>1. (y + 1) - 1 = y BY <2>2
    <3> QED BY <2>3, <2>6, <3>1 DEF Block
  <2>8. (x - 1) \div C = i * m + (y \div C) /\ ((x - 1) % C) = (y % C)
    <3>1. x - 1 = i * (m * C) + y BY <1>1, <2>2, <2>4
    <3>2. i \in Nat /\ y \in Nat BY <2>2
    <3>3. Past(C, m, i, y) BY <3>2, PastRuns
    <3> QED BY ONLY <3>1, <3>3 DEF Past
  <2>9. b[x] = RowAt(L, first + (i * m + (y \div C)), (y % C) + 1, result)
    <3>1. x \in 1 .. (n * m) * C
      <4>1. (n * m) * C = n * w OBVIOUS
      <4> QED BY <4>1
    <3> QED BY <2>8, <3>1 DEF Block
  <2>10. first + (i * m + (y \div C)) = (first + i * m) + (y \div C)
    <3>1. i \in Nat /\ y \in Nat BY <1>1, <2>2
    <3>2. i * m \in Nat /\ y \div C \in Nat BY <3>1
    <3> QED BY <3>2
  <2> QED BY <2>5, <2>7, <2>9, <2>10
<1> HIDE DEF s, b, w, T
<1>9. s = b
  <2> DEFINE N == n * w
  <2>1. s \in Seq(T) /\ b \in Seq(T) /\ Len(s) = N /\ Len(b) = N BY <1>6, <1>7
  <2>2. \A x \in 1 .. N : s[x] = b[x] BY <1>8
  <2> HIDE DEF N
  <2> QED BY <2>1, <2>2
<1> QED BY <1>9 DEF s, b

\* The i-th of n parts of a block is a block.
PartIs(L, first, m, C, result, n, i) ==
  Part(Block(L, first, n * m, C, result), n, i) = Block(L, first + i * m, m, C, result)

LEMMA PartOfBlock ==
  ASSUME NEW L \in Nat \ {0}, NEW first \in Nat, NEW m \in Nat, NEW C \in Nat \ {0}, NEW result,
         NEW n \in Nat \ {0}, NEW i \in 0 .. n - 1
  PROVE  PartIs(L, first, m, C, result, n, i)
<1> DEFINE w == m * C
           T == RowsOf(result)
           b == Block(L, first, n * m, C, result)
           d == Block(L, first + i * m, m, C, result)
           p == Part(b, n, i)
<1>1. w \in Nat /\ n * m \in Nat /\ i * m \in Nat OBVIOUS
<1>2. b \in Seq(T) /\ Len(b) = n * w
  <2> DEFINE N == n * m
  <2>1. N * C = n * w /\ N \in Nat OBVIOUS
  <2> HIDE DEF N, w
  <2>2. IsSeqOf(Block(L, first, N, C, result), N * C, RowsOf(result)) BY <2>1, BlockIsSeq
  <2> QED BY ONLY <2>1, <2>2 DEF N, b, T, IsSeqOf
<1>3. d \in Seq(T) /\ Len(d) = w
  <2> DEFINE g == first + i * m
  <2>1. g \in Nat BY <1>1
  <2> HIDE DEF g
  <2>2. IsSeqOf(Block(L, g, m, C, result), m * C, RowsOf(result)) BY <2>1, BlockIsSeq
  <2> QED BY ONLY <2>2 DEF d, g, T, w, IsSeqOf
<1>4. Len(b) \div n = w
  <2>1. Len(b) = n * w + 0 /\ 0 \in 0 .. n - 1 BY <1>1, <1>2
  <2> HIDE DEF w, b
  <2> QED BY <1>1, <2>1, QuotientAndRemainder
<1>5. /\ i * w + 1 \in Nat /\ (i + 1) * w \in Nat /\ (i + 1) * w = i * w + w
      /\ i * w + w <= n * w /\ i * w \in Nat
  <2> HIDE DEF w
  <2>1. (i + 1) * w <= n * w BY <1>1
  <2>2. (i + 1) * w = i * w + w BY <1>1
  <2>3. i * w \in Nat BY <1>1
  <2> QED BY <1>1, <2>1, <2>2, <2>3
<1>6. p = SubSeq(b, i * w + 1, (i + 1) * w) BY <1>4 DEF Part
<1> HIDE DEF p, w, b, d
<1>7. p \in Seq(T) /\ Len(p) = w /\ \A x \in 1 .. w : p[x] = b[i * w + x]
  <2> DEFINE lo == i * w
             hi == (i + 1) * w
  <2>1. lo \in Nat /\ hi = lo + w /\ hi <= Len(b) /\ p = SubSeq(b, lo + 1, hi)
    BY <1>2, <1>5, <1>6
  <2> HIDE DEF lo, hi, T
  <2>2. \A x \in lo + 1 .. hi : b[x] \in T BY <1>1, <1>2, <2>1
  <2>3. p \in Seq(T) /\ Len(p) = w /\ \A x \in 1 .. w : p[x] = b[lo + x]
    BY <1>1, <1>2, <2>1, <2>2
  <2> QED BY <2>3 DEF lo
<1>8. ASSUME NEW x \in 1 .. w PROVE p[x] = d[x]
  <2> DEFINE y == x - 1
  <2>1. y \in Nat /\ x \in 1 .. m * C BY <1>1 DEF w
  <2>2. i * w + x \in 1 .. (n * m) * C /\ (i * w + x) - 1 = i * (m * C) + y
    <3>1. (n * m) * C = n * w BY DEF w
    <3>2. i * w + x \in 1 .. n * w /\ (i * w + x) - 1 = i * w + y BY <1>1, <1>5
    <3> QED BY <3>1, <3>2 DEF w
  <2>3. /\ (i * (m * C) + y) \div C = i * m + (y \div C)
        /\ ((i * (m * C) + y) % C) = (y % C)
    <3>1. i \in Nat OBVIOUS
    <3>2. Past(C, m, i, y) BY <2>1, <3>1, PastRuns
    <3> QED BY ONLY <3>2 DEF Past
  <2>4. b[i * w + x] = RowAt(L, first + (i * m + (y \div C)), (y % C) + 1, result)
    BY <2>2, <2>3 DEF b, Block
  <2>5. d[x] = RowAt(L, (first + i * m) + (y \div C), (y % C) + 1, result)
    BY <2>1 DEF d, Block
  <2>6. first + (i * m + (y \div C)) = (first + i * m) + (y \div C)
    <3>1. y \div C \in Nat BY <2>1
    <3> QED BY <1>1, <3>1
  <2> QED BY <1>7, <2>4, <2>5, <2>6
<1>9. p = d BY <1>3, <1>7, <1>8
<1> QED BY <1>9 DEF p, d, b, PartIs

LEMMA SameEntries ==
  ASSUME NEW T, NEW N, NEW v \in Seq(T), NEW w \in Seq(T), Len(v) = N, Len(w) = N,
         \A x \in 1 .. N : v[x] = w[x]
  PROVE  v = w
OBVIOUS

\* The entries of a block of prompts.
LEMMA BlockOfPrompts ==
  ASSUME NEW L, NEW first, NEW m \in Nat, NEW result
  PROVE  /\ DOMAIN Block(L, first, m, 1, result) = 1 .. m
         /\ \A j \in 1 .. m : /\ Block(L, first, m, 1, result)[j] = RowAt(L, first + (j - 1), 1, result)
<1>1. m * 1 = m OBVIOUS
<1>2. \A j \in 1 .. m : (j - 1) \div 1 = j - 1 /\ ((j - 1) % 1) + 1 = 1 OBVIOUS
<1>3. Block(L, first, m, 1, result) =
        [j \in 1 .. m |-> RowAt(L, first + ((j - 1) \div 1), ((j - 1) % 1) + 1, result)]
  BY <1>1 DEF Block
<1> QED BY <1>2, <1>3

Finish(d, result) == [d EXCEPT !.result = result]
Answer(d, c, result) == [d EXCEPT !.copy = c, !.result = result]

LEMMA RowAgain ==
  ASSUME NEW L, NEW g, NEW c, NEW result, NEW d, d = RowAt(L, g, 1, None)
  PROVE  Finish(d, result) = RowAt(L, g, 1, result) /\ Answer(d, c, result) = RowAt(L, g, c, result)
<1> DEFINE h == g \div L
           e == (g % L) + 1
<1>1. \A x, y : RowAt(L, g, x, y) = [home |-> h, i |-> e, copy |-> x, result |-> y] BY DEF RowAt
<1> HIDE DEF h, e
<1>2. PICK n : d = [home |-> h, i |-> e, copy |-> 1, result |-> n] BY <1>1
<1>3. [d EXCEPT !.result = result] = [home |-> h, i |-> e, copy |-> 1, result |-> result]
  BY ONLY <1>2
<1> DEFINE f == [d EXCEPT !.copy = c]
<1>4. f = [home |-> h, i |-> e, copy |-> c, result |-> n]
  BY ONLY <1>2
<1> HIDE DEF f
<1>5. [f EXCEPT !.result = result] = [home |-> h, i |-> e, copy |-> c, result |-> result]
  BY ONLY <1>4
<1>6. Answer(d, c, result) = [f EXCEPT !.result = result] BY DEF Answer, f
<1> QED BY <1>1, <1>3, <1>5, <1>6 DEF Finish

\* Every row of a block has a result.
LEMMA BlockDone ==
  ASSUME NEW L, NEW first, NEW m \in Nat, NEW s, s = Block(L, first, m, 1, None), NEW result
  PROVE  [i \in DOMAIN s |-> Finish(s[i], result)] = Block(L, first, m, 1, result)
<1> DEFINE b == Block(L, first, m, 1, result)
           row(j) == RowAt(L, first + (j - 1), 1, result)
<1>1. /\ DOMAIN s = 1 .. m
      /\ \A j \in 1 .. m : s[j] = RowAt(L, first + (j - 1), 1, None)
  BY BlockOfPrompts
<1>2. DOMAIN b = 1 .. m /\ \A j \in 1 .. m : b[j] = row(j)
  BY BlockOfPrompts
<1>3. \A j \in 1 .. m : Finish(s[j], result) = row(j)
  BY <1>1, RowAgain
<1>4. b = [j \in DOMAIN b |-> b[j]] BY DEF Block
<1> HIDE DEF b, row
<1> QED BY <1>1, <1>2, <1>3, <1>4 DEF b

\* Every prompt of a block gets C answers.
LEMMA BlockAnswered ==
  ASSUME NEW L \in Nat \ {0}, NEW first \in Nat, NEW m \in Nat \ {0}, NEW C \in Nat \ {0},
         NEW s, s = Block(L, first, m, 1, None), NEW result
  PROVE  FlattenSeq([i \in DOMAIN s |-> [c \in 1 .. C |-> Answer(s[i], c, result)]])
           = Block(L, first, m, C, result)
<1> DEFINE a == [i \in DOMAIN s |-> [c \in 1 .. C |-> Answer(s[i], c, result)]]
<1>1. /\ DOMAIN s = 1 .. m
      /\ \A j \in 1 .. m : s[j] = RowAt(L, first + (j - 1), 1, None)
  BY BlockOfPrompts
<1>2. ASSUME NEW i \in 1 .. m PROVE a[i] = Block(L, first + (i - 1) * 1, 1, C, result)
  <2> DEFINE g == first + (i - 1)
  <2>1. g \in Nat /\ first + (i - 1) * 1 = g /\ 1 * C = C OBVIOUS
  <2>2. a[i] = [c \in 1 .. C |-> Answer(s[i], c, result)]
        /\ s[i] = RowAt(L, g, 1, None)
    BY <1>1
  <2>3. \A c \in 1 .. C : (c - 1) \div C = 0 /\ ((c - 1) % C) + 1 = c
    <3> TAKE c \in 1 .. C
    <3> DEFINE y == c - 1
               p == y \div C
               t == (y % C)
    <3>1. y \in 0 .. C - 1 /\ y + 1 = c OBVIOUS
    <3>2. p \in Nat /\ t \in Nat /\ y = C * p + t BY <3>1
    <3> HIDE DEF p, t
    <3>3. p = 0
      <4> HIDE DEF y
      <4>1. p >= 1 => C * p >= C * 1 BY <3>2
      <4> QED BY <3>1, <3>2, <4>1
    <3> QED BY <3>1, <3>2, <3>3 DEF p, t
  <2>4. Block(L, g, 1, C, result) =
          [c \in 1 .. C |-> RowAt(L, g + ((c - 1) \div C), ((c - 1) % C) + 1, result)]
    BY <2>1 DEF Block
  <2> HIDE DEF g, a
  <2>5. g + 0 = g BY <2>1
  <2>6. Block(L, g, 1, C, result) = [c \in 1 .. C |-> RowAt(L, g, c, result)]
    BY <2>3, <2>4, <2>5
  <2>7. \A c : Answer(s[i], c, result) = RowAt(L, g, c, result)
    BY <2>2, RowAgain
  <2> QED BY <2>1, <2>2, <2>6, <2>7
<1>3. Len(a) = m BY <1>1
<1> HIDE DEF a
<1>4. FlattenSeq(a) = Block(L, first, m * 1, C, result)
  <2>1. Blocks(a, m, L, first, 1, C, result) BY <1>2, <1>3 DEF Blocks
  <2> QED BY <2>1, BlocksJoin
<1>5. m * 1 = m OBVIOUS
<1> QED BY <1>4, <1>5 DEF a

---------------------------------------------------------------------------
(* Groups of ranks                                                           *)

\* A group is n ranks that follow each other.
IsGroup(n, r, b) ==
  /\ b \in Nat /\ Consecutive(n, r) = b .. b + n - 1 /\ r \in Consecutive(n, r)
  /\ \A i \in 1 .. n : /\ b + (i - 1) \in Ranks /\ (b + (i - 1)) \div n = r \div n
                      /\ ((b + (i - 1)) % n) = i - 1

LEMMA GroupOfRanks ==
  ASSUME config \in Settings, NEW n \in Nat \ {0}, config.world % n = 0, NEW r \in Ranks,
         NEW b, b = n * (r \div n)
  PROVE  IsGroup(n, r, b)
<1> DEFINE w == config.world
           d == w \div n
           p == r \div n
<1>1. w \in Nat \ {0} /\ Ranks = 0 .. w - 1 BY SettingsAssumption DEF Ranks
<1> HIDE DEF w
<1>2. d \in Nat /\ w = n * d
  <2>1. (w % n) = 0 BY DEF w
  <2> QED BY <1>1, <2>1
<1> HIDE DEF d
<1>3. d \in Nat \ {0} /\ w = d * n BY <1>1, <1>2
<1>4. r \in 0 .. d * n - 1 BY <1>1, <1>3
<1>5. p \in 0 .. d - 1 /\ (r % n) \in 0 .. n - 1 /\ r = n * p + (r % n)
  <2>1. p \in 0 .. d - 1 /\ r = n * p + (r % n) BY <1>3, <1>4, GroupInRange
  <2>2. r \in Nat BY <1>1
  <2> QED BY <2>1, <2>2
<1>6. b = n * p OBVIOUS
<1> HIDE DEF p
<1>7. b \in Nat /\ b + n <= w
  <2>1. n * (p + 1) <= n * d BY <1>3, <1>5
  <2>2. n * (p + 1) = n * p + n /\ n * p \in Nat BY <1>5
  <2> QED BY <1>2, <1>6, <2>1, <2>2
<1>8. ASSUME NEW i \in 1 .. n
      PROVE  /\ b + (i - 1) \in Ranks /\ (b + (i - 1)) \div n = p
             /\ ((b + (i - 1)) % n) = i - 1
  <2> DEFINE x == b + (i - 1)
             y == i - 1
  <2>1. y \in 0 .. n - 1 /\ x = n * p + y /\ p \in Nat BY <1>5, <1>6
  <2>2. x \in Ranks BY <1>1, <1>7
  <2> HIDE DEF x, y
  <2>4. x \in Nat BY <1>1, <2>2
  <2>3. x \div n = p /\ (x % n) = y
    <3>1. n \in Nat \ {0} /\ p \in Nat /\ y \in 0 .. n - 1 /\ x = n * p + y BY <2>1
    <3> QED BY ONLY <3>1, QuotientAndRemainder
  <2> QED BY <2>2, <2>3 DEF x, y
<1>9. Consecutive(n, r) = b .. b + n - 1
  <2>1. ASSUME NEW q \in Consecutive(n, r) PROVE q \in b .. b + n - 1
    <3>1. q \in Nat /\ q \div n = p BY <1>1 DEF Consecutive, p
    <3> DEFINE t == (q % n)
               u == q \div n
    <3>2. t \in 0 .. n - 1 /\ q = n * u + t BY <3>1
    <3>3. u = p BY <3>1
    <3> HIDE DEF t, u
    <3>4. q = b + t BY <1>6, <3>2, <3>3
    <3> QED BY <1>7, <3>2, <3>4
  <2>2. ASSUME NEW q \in b .. b + n - 1 PROVE q \in Consecutive(n, r)
    <3> DEFINE i == (q - b) + 1
    <3>1. i \in 1 .. n /\ q = b + (i - 1) BY <1>7
    <3> HIDE DEF i
    <3>2. q \in Ranks /\ q \div n = r \div n BY <1>8, <3>1 DEF p
    <3> QED BY <3>2 DEF Consecutive
  <2> QED BY <2>1, <2>2
<1>10. r \in Consecutive(n, r) BY DEF Consecutive
<1> QED BY <1>7, <1>8, <1>9, <1>10 DEF p, IsGroup

\* What a group gathers are the rows of its ranks in their order.
LEMMA GatheredInOrder ==
  ASSUME config \in Settings, NEW n \in Nat \ {0}, config.world % n = 0, NEW r \in Ranks,
         NEW b, b = n * (r \div n)
  PROVE  Gathered(Consecutive(n, r)) = FlattenSeq([i \in 1 .. n |-> rows[b + (i - 1)]])
<1> DEFINE Q == Consecutive(n, r)
<1>1. b \in Nat /\ Q = b .. b + n - 1 BY GroupOfRanks DEF IsGroup
<1> HIDE DEF Q
<1>2. Cardinality(Q) = n
  <2>1. b + n - 1 \in Int /\ b <= b + n - 1 /\ (b + n - 1) - b + 1 = n BY <1>1
  <2>2. Cardinality(b .. b + n - 1) = (b + n - 1) - b + 1 BY <1>1, <2>1, FS_Interval
  <2> QED BY <1>1, <2>1, <2>2
<1>3. ASSUME NEW q \in Q PROVE Rank(Q, q) = q - b
  <2>1. q \in Nat /\ b <= q /\ q - 1 \in Int BY <1>1
  <2>2. {p \in Q : p < q} = b .. q - 1 BY <1>1, <2>1
  <2>3. Cardinality(b .. q - 1) = q - b
    <3>1. CASE b <= q - 1
      <4>1. Cardinality(b .. q - 1) = (q - 1) - b + 1 BY <1>1, <2>1, <3>1, FS_Interval
      <4> QED BY <1>1, <2>1, <4>1
    <3>2. CASE b > q - 1
      <4>1. b .. q - 1 = {} /\ q - b = 0 BY <1>1, <2>1, <3>2
      <4> QED BY <4>1, FS_EmptySet
    <3> QED BY <1>1, <2>1, <3>1, <3>2
  <2> QED BY <2>2, <2>3 DEF Rank
<1> DEFINE at(i) == CHOOSE q \in Q : Rank(Q, q) = i - 1
<1>4. ASSUME NEW i \in 1 .. n PROVE at(i) = b + (i - 1)
  <2> DEFINE x == at(i)
  <2>1. b + (i - 1) \in Q /\ (b + (i - 1)) - b = i - 1 BY <1>1
  <2>2. Rank(Q, b + (i - 1)) = i - 1 BY <1>3, <2>1
  <2>3. x \in Q /\ Rank(Q, x) = i - 1 BY <2>1, <2>2
  <2> HIDE DEF x, at
  <2>4. x - b = i - 1 BY <1>3, <2>3
  <2>5. x = b + (i - 1) BY <1>1, <2>3, <2>4
  <2> QED BY <2>5 DEF x
<1>5. Gathered(Q) = FlattenSeq([i \in 1 .. Cardinality(Q) |-> rows[at(i)]]) BY DEF Gathered
<1> HIDE DEF at
<1>6. [i \in 1 .. Cardinality(Q) |-> rows[at(i)]] = [i \in 1 .. n |-> rows[b + (i - 1)]]
  BY <1>2, <1>4
<1> QED BY <1>5, <1>6 DEF Q

---------------------------------------------------------------------------
(* The rows a rank has at hand                                               *)

MicroOf(k) == k.ttp \div k.tp
HomeOf(k, r) == IF Mega(k) THEN r \div k.ttp ELSE r
PerHome(k) == IF Mega(k) THEN 2 * MicroOf(k) ELSE 2
CopiesOf(k, c) == IF c.method = "generate_sequences" /\ c.how = "rollout" THEN k.n ELSE 1

\* Those of as many ranks as it gathered them over, all of them or the micro part or none;
\* with their results when these are done.
Forms == [ranks : Nat \ {0}, rows : {"all", "part", "none"}, done : BOOLEAN]
Held(n, which, done) == [ranks |-> n, rows |-> which, done |-> done]

FirstOf(k, f, r) ==
  IF f.rows = "part" THEN HomeOf(k, r) * PerHome(k) + (r % MicroOf(k)) * 2
  ELSE (f.ranks * (HomeOf(k, r) \div f.ranks)) * PerHome(k)
CountOf(k, f) ==
  CASE f.rows = "all" -> f.ranks * PerHome(k) [] f.rows = "part" -> 2 [] f.rows = "none" -> 0

Shape(k, c, f, r) ==
  Block(PerHome(k), FirstOf(k, f, r), CountOf(k, f),
        IF f.done THEN CopiesOf(k, c) ELSE 1, IF f.done THEN c.method ELSE None)

\* The numbers of a setting.
LEMMA Numbers ==
  ASSUME NEW k \in Settings, NEW c
  PROVE  /\ k.world \in Nat \ {0} /\ k.tp \in Nat \ {0} /\ k.ttp \in Nat \ {0} /\ k.world % k.tp = 0
         /\ MicroOf(k) \in Nat \ {0} /\ k.ttp = MicroOf(k) * k.tp
         /\ PerHome(k) \in Nat \ {0} /\ CopiesOf(k, c) \in Nat \ {0}
         /\ \A m \in ModelsOf(k) : SpOf(k, m) \in Nat \ {0} /\ k.world % SpOf(k, m) = 0
         /\ Mega(k) => k.world % MicroOf(k) = 0
<1>1. /\ k.world \in Nat \ {0} /\ k.tp \in Nat \ {0} /\ k.ttp \in Nat \ {0} /\ k.n \in Nat \ {0}
      /\ k.world % k.tp = 0 /\ k.ttp % k.tp = 0 /\ (Mega(k) => k.world % k.ttp = 0)
      /\ \A m \in {"actor", "ref", "critic", "rm"} : k.sp[m] \in Nat \ {0} /\ k.world % k.sp[m] = 0
  BY SettingsAssumption DEF Mega
<1> DEFINE w == k.world
           t == k.tp
           u == k.ttp
           a == MicroOf(k)
<1>2. w \in Nat \ {0} /\ t \in Nat \ {0} /\ u \in Nat \ {0} /\ u % t = 0 /\ a = u \div t
      /\ (Mega(k) => w % u = 0)
  BY <1>1 DEF MicroOf
<1> HIDE DEF w, t, u, a
<1>3. a \in Nat /\ u = t * a BY <1>2
<1>4. a \in Nat \ {0} /\ u = a * t
  <2>1. a = 0 => u = 0 BY <1>2, <1>3
  <2>2. t * a = a * t BY <1>2, <1>3
  <2> QED BY <1>2, <1>3, <2>1, <2>2
<1>5. ASSUME Mega(k) PROVE w % a = 0
  <2> DEFINE d == w \div u
             e == t * d
  <2>1. d \in Nat /\ w = u * d BY <1>2, <1>5
  <2> HIDE DEF d
  <2>2. e \in Nat /\ w = a * e + 0 /\ 0 \in 0 .. a - 1
    <3>1. (a * t) * d = a * (t * d) BY <1>2, <1>4, <2>1
    <3> QED BY <1>2, <1>4, <2>1, <3>1
  <2> HIDE DEF e
  <2> QED BY <1>4, <2>2, QuotientAndRemainder
<1>6. PerHome(k) \in Nat \ {0} BY <1>4 DEF PerHome, a
<1>7. CopiesOf(k, c) \in Nat \ {0} BY <1>1 DEF CopiesOf
<1>8. ASSUME NEW m \in ModelsOf(k) PROVE SpOf(k, m) \in Nat \ {0} /\ k.world % SpOf(k, m) = 0
  <2>1. m \in {"actor", "critic", "ref", "rm"} BY ModelNames
  <2>2. k.world % 1 = 0 BY <1>1
  <2> QED BY <1>1, <2>1, <2>2 DEF SpOf
<1> QED BY <1>1, <1>4, <1>5, <1>6, <1>7, <1>8 DEF w, t, u, a

LEMMA NamesOf ==
  ASSUME NEW k, config = k
  PROVE  /\ Micro = MicroOf(k) /\ RowsPerHome = PerHome(k) /\ \A r : Home(r) = HomeOf(k, r)
         /\ call.method = "generate_sequences" => Copies = CopiesOf(k, call)
BY DEF Micro, MicroOf, RowsPerHome, PerHome, Home, HomeOf, Megatron, Mega, Copies, CopiesOf

Copied(k, c, done) == IF done THEN CopiesOf(k, c) ELSE 1
Result(c, done) == IF done THEN c.method ELSE None

\* The shapes, one by one.
LEMMA Shapes ==
  ASSUME NEW k \in Settings, config = k, NEW c, NEW r \in Ranks, NEW done \in BOOLEAN
  PROVE  /\ HomeOf(k, r) \in Nat
         /\ Shape(k, c, Held(1, "all", done), r) =
              Block(PerHome(k), HomeOf(k, r) * PerHome(k), PerHome(k), Copied(k, c, done), Result(c, done))
         /\ Shape(k, c, Held(1, "part", done), r) =
              Block(PerHome(k), HomeOf(k, r) * PerHome(k) + (r % MicroOf(k)) * 2, 2,
                    Copied(k, c, done), Result(c, done))
         /\ ~Mega(k) => \A n \in Nat \ {0} :
              Shape(k, c, Held(n, "all", done), r) =
                Block(PerHome(k), (n * (r \div n)) * PerHome(k), n * PerHome(k),
                      Copied(k, c, done), Result(c, done))
<1>1. /\ k.ttp \in Nat \ {0} /\ PerHome(k) \in Nat \ {0} /\ r \in Nat
  BY Numbers DEF Ranks
<1> DEFINE h == HomeOf(k, r)
           L == PerHome(k)
<1>2. h \in Nat
  <2>1. r \div k.ttp \in Nat BY <1>1
  <2> QED BY <1>1, <2>1 DEF HomeOf
<1>3. \A n, which : Held(n, which, done).ranks = n /\ Held(n, which, done).rows = which
                   /\ Held(n, which, done).done = done
  BY DEF Held
<1>4. 1 * (h \div 1) = h /\ 1 * L = L
  <2> HIDE DEF h, L
  <2> QED BY <1>1, <1>2 DEF L
<1>5. \A n : Shape(k, c, Held(n, "all", done), r) =
              Block(L, (n * (h \div n)) * L, n * L, Copied(k, c, done), Result(c, done))
  BY <1>3 DEF Shape, FirstOf, CountOf, Copied, Result
<1>6. Shape(k, c, Held(1, "part", done), r) =
        Block(L, h * L + (r % MicroOf(k)) * 2, 2, Copied(k, c, done), Result(c, done))
  BY <1>3 DEF Shape, FirstOf, CountOf, Copied, Result
<1>7. ~Mega(k) => h = r BY DEF HomeOf
<1> HIDE DEF h, L
<1>8. Shape(k, c, Held(1, "all", done), r) = Block(L, h * L, L, Copied(k, c, done), Result(c, done))
  <2>1. Shape(k, c, Held(1, "all", done), r) =
          Block(L, (1 * (h \div 1)) * L, 1 * L, Copied(k, c, done), Result(c, done))
    BY <1>5, Zenon
  <2> QED BY <1>4, <2>1, Zenon
<1>9. ~Mega(k) => \A n \in Nat \ {0} :
        Shape(k, c, Held(n, "all", done), r) =
          Block(L, (n * (r \div n)) * L, n * L, Copied(k, c, done), Result(c, done))
  BY <1>5, <1>7, Zenon
<1> QED BY <1>2, <1>6, <1>8, <1>9 DEF h, L

\* Rows gathered over n ranks; and each rank's own part of them.
LEMMA GatherShape ==
  ASSUME NEW k \in Settings, config = k, ~Mega(k), NEW c, NEW n \in Nat \ {0}, k.world % n = 0,
         NEW done \in BOOLEAN, NEW r \in Ranks,
         \A q \in Consecutive(n, r) : rows[q] = Shape(k, c, Held(1, "all", done), q)
  PROVE  Gathered(Consecutive(n, r)) = Shape(k, c, Held(n, "all", done), r)
<1> DEFINE b == n * (r \div n)
           L == PerHome(k)
           C == Copied(k, c, done)
           x == Result(c, done)
           a == [i \in 1 .. n |-> rows[b + (i - 1)]]
           first == b * L
<1>1. L \in Nat \ {0} /\ C \in Nat \ {0} BY Numbers DEF Copied
<1>2. /\ b \in Nat /\ Consecutive(n, r) = b .. b + n - 1
      /\ \A i \in 1 .. n : b + (i - 1) \in Ranks
  <2>1. IsGroup(n, r, b) BY GroupOfRanks
  <2> QED BY ONLY <2>1 DEF IsGroup
<1>3. Gathered(Consecutive(n, r)) = FlattenSeq(a) BY GatheredInOrder
<1>4. ASSUME NEW i \in 1 .. n PROVE a[i] = Block(L, first + (i - 1) * L, L, C, x)
  <2> DEFINE q == b + (i - 1)
  <2>1. a[i] = rows[q] OBVIOUS
  <2>2. q \in Ranks /\ q \in Consecutive(n, r)
    <3> HIDE DEF b
    <3>1. q \in b .. b + n - 1 BY <1>2
    <3> QED BY <1>2, <3>1
  <2>3. q * L = first + (i - 1) * L
    <3> HIDE DEF b, L
    <3> QED BY <1>1, <1>2
  <2> HIDE DEF q, first, a, L, C, x
  <2>4. rows[q] = Shape(k, c, Held(1, "all", done), q) BY <2>2
  <2>5. HomeOf(k, q) = q BY DEF HomeOf
  <2>6. Shape(k, c, Held(1, "all", done), q) = Block(L, q * L, L, C, x)
    BY <2>2, <2>5, Shapes DEF L, C, x
  <2> QED BY <2>1, <2>3, <2>4, <2>6
<1>5. first \in Nat BY <1>1, <1>2
<1>6. Blocks(a, n, L, first, L, C, x)
  <2>1. Len(a) = n OBVIOUS
  <2> HIDE DEF a, L, C, x, first
  <2> QED BY <1>4, <2>1 DEF Blocks
<1>7. Shape(k, c, Held(n, "all", done), r) = Block(L, first, n * L, C, x) BY Shapes
<1> HIDE DEF a, L, C, x, first
<1>8. FlattenSeq(a) = Block(L, first, n * L, C, x)
  <2>1. L \in Nat BY <1>1
  <2> QED BY <1>1, <1>5, <1>6, <2>1, BlocksJoin
<1> QED BY <1>3, <1>7, <1>8

\* Before results are there, in a form that can be cited.
Divides(n, w) == (w % n) = 0
Ungathered(k, c, Q) == \A q \in Q : rows[q] = Shape(k, c, Held(1, "all", FALSE), q)

LEMMA GatherPlain ==
  ASSUME config \in Settings, ~Mega(config), NEW n \in Nat \ {0}, Divides(n, config.world), NEW r \in Ranks,
         Ungathered(config, call, Consecutive(n, r))
  PROVE  Gathered(Consecutive(n, r)) = Shape(config, call, Held(n, "all", FALSE), r)
<1>1. (config.world % n) = 0 BY DEF Divides
<1>2. \A q \in Consecutive(n, r) : rows[q] = Shape(config, call, Held(1, "all", FALSE), q) BY DEF Ungathered
<1>3. PICK done : done = FALSE OBVIOUS
<1>4. done \in BOOLEAN BY <1>3
<1>5. \A q \in Consecutive(n, r) : rows[q] = Shape(config, call, Held(1, "all", done), q) BY <1>2, <1>3
<1>6. Gathered(Consecutive(n, r)) = Shape(config, call, Held(n, "all", done), r)
  BY <1>1, <1>4, <1>5, GatherShape
<1> QED BY <1>3, <1>6

LEMMA KeepShape ==
  ASSUME NEW k \in Settings, config = k, ~Mega(k), NEW c, NEW n \in Nat \ {0},
         NEW done \in BOOLEAN, NEW r \in Ranks
  PROVE  Part(Shape(k, c, Held(n, "all", done), r), n, r % n) = Shape(k, c, Held(1, "all", done), r)
<1> DEFINE b == n * (r \div n)
           t == (r % n)
           L == PerHome(k)
           C == Copied(k, c, done)
           x == Result(c, done)
           first == b * L
<1>1. L \in Nat \ {0} /\ C \in Nat \ {0} BY Numbers DEF Copied
<1>2. r \in Nat BY Numbers DEF Ranks
<1>3. b \in Nat /\ t \in 0 .. n - 1 /\ r = b + t
  <2> DEFINE p == r \div n
  <2>1. p \in Nat /\ t \in 0 .. n - 1 /\ r = n * p + t BY <1>2
  <2> HIDE DEF p, t
  <2>2. n * p \in Nat BY <2>1
  <2> QED BY <2>1, <2>2 DEF p
<1>4. Shape(k, c, Held(n, "all", done), r) = Block(L, first, n * L, C, x) BY Shapes
<1>5. Shape(k, c, Held(1, "all", done), r) = Block(L, r * L, L, C, x)
  <2>1. HomeOf(k, r) = r BY DEF HomeOf
  <2> HIDE DEF L, C, x
  <2> QED BY <2>1, Shapes DEF L, C, x
<1> HIDE DEF b, t, L, C, x
<1>6. first \in Nat /\ first + t * L = r * L BY <1>1, <1>3
<1> HIDE DEF first
<1>7. Part(Block(L, first, n * L, C, x), n, t) = Block(L, first + t * L, L, C, x)
  <2>1. L \in Nat BY <1>1
  <2>2. PartIs(L, first, L, C, x, n, t) BY <1>1, <1>3, <1>6, <2>1, PartOfBlock
  <2> QED BY <2>2 DEF PartIs
<1> QED BY <1>4, <1>5, <1>6, <1>7 DEF t

\* The same for a Megatron group's rows: each rank takes its part first.
LEMMA TakeShape ==
  ASSUME NEW k \in Settings, config = k, Mega(k), NEW c, NEW done \in BOOLEAN, NEW r \in Ranks
  PROVE  Part(Shape(k, c, Held(1, "all", done), r), MicroOf(k), r % MicroOf(k))
           = Shape(k, c, Held(1, "part", done), r)
<1> DEFINE n == MicroOf(k)
           t == (r % n)
           L == PerHome(k)
           C == Copied(k, c, done)
           x == Result(c, done)
           first == HomeOf(k, r) * L
<1>1. n \in Nat \ {0} /\ L \in Nat \ {0} /\ C \in Nat \ {0} /\ L = 2 * n
  BY Numbers DEF Copied, PerHome
<1>2. r \in Nat BY Numbers DEF Ranks
<1>3. /\ Shape(k, c, Held(1, "all", done), r) = Block(L, first, L, C, x)
      /\ Shape(k, c, Held(1, "part", done), r) = Block(L, first + t * 2, 2, C, x)
      /\ HomeOf(k, r) \in Nat
  BY Shapes
<1> HIDE DEF n, C, x
<1>4. t \in 0 .. n - 1 BY <1>1, <1>2
<1> HIDE DEF L, t
<1>5. first \in Nat BY <1>1, <1>3
<1> HIDE DEF first
<1>6. Part(Block(L, first, n * 2, C, x), n, t) = Block(L, first + t * 2, 2, C, x)
  <2>1. 2 \in Nat OBVIOUS
  <2>2. PartIs(L, first, 2, C, x, n, t) BY <1>1, <1>4, <1>5, <2>1, PartOfBlock
  <2> QED BY <2>2 DEF PartIs
<1>7. n * 2 = L BY <1>1
<1> QED BY <1>3, <1>6, <1>7 DEF n, t

LEMMA JoinShape ==
  ASSUME NEW k \in Settings, config = k, Mega(k), NEW c, NEW done \in BOOLEAN, NEW r \in Ranks,
         \A q \in Consecutive(MicroOf(k), r) : rows[q] = Shape(k, c, Held(1, "part", done), q)
  PROVE  Gathered(Consecutive(MicroOf(k), r)) = Shape(k, c, Held(1, "all", done), r)
<1> DEFINE n == MicroOf(k)
           b == n * (r \div n)
           L == PerHome(k)
           C == Copied(k, c, done)
           x == Result(c, done)
           a == [i \in 1 .. n |-> rows[b + (i - 1)]]
           home == HomeOf(k, r)
           first == home * L
<1>1. /\ n \in Nat \ {0} /\ L \in Nat \ {0} /\ C \in Nat \ {0} /\ L = 2 * n
      /\ k.tp \in Nat \ {0} /\ k.ttp = n * k.tp /\ k.world % n = 0
  BY Numbers DEF Copied, PerHome
<1>2. /\ b \in Nat /\ Consecutive(n, r) = b .. b + n - 1
      /\ \A i \in 1 .. n : /\ b + (i - 1) \in Ranks /\ (b + (i - 1)) \div n = r \div n
                          /\ ((b + (i - 1)) % n) = i - 1
  <2>1. config.world % n = 0 /\ b = n * (r \div n) /\ config \in Settings BY <1>1
  <2> HIDE DEF n, b
  <2>2. IsGroup(n, r, b) BY <1>1, <2>1, GroupOfRanks
  <2> QED BY ONLY <2>2 DEF IsGroup
<1>3. Gathered(Consecutive(n, r)) = FlattenSeq(a)
  <2> HIDE DEF n
  <2> QED BY <1>1, GatheredInOrder
<1>4. Shape(k, c, Held(1, "all", done), r) = Block(L, first, L, C, x) /\ home \in Nat BY Shapes
<1>5. \A q \in Ranks : q \div n = r \div n => HomeOf(k, q) = home
  <2>1. \A q \in Ranks : HomeOf(k, q) = (q \div n) \div k.tp
    <3> TAKE q \in Ranks
    <3>1. q \in Nat BY Numbers DEF Ranks
    <3>2. HomeOf(k, q) = q \div (n * k.tp) BY <1>1 DEF HomeOf
    <3> HIDE DEF n
    <3>3. (q \div n) \div k.tp = q \div (n * k.tp) BY <1>1, <3>1, QuotientOfQuotient
    <3> QED BY <3>2, <3>3
  <2> HIDE DEF n
  <2> QED BY <2>1 DEF home
<1> HIDE DEF n
<1>6. ASSUME NEW i \in 1 .. n PROVE a[i] = Block(L, first + (i - 1) * 2, 2, C, x)
  <2> DEFINE q == b + (i - 1)
  <2>1. a[i] = rows[q] OBVIOUS
  <2>2. q \in Ranks /\ q \in Consecutive(n, r) /\ q \div n = r \div n /\ (q % n) = i - 1
    <3> HIDE DEF b
    <3>1. q \in b .. b + n - 1 BY <1>1, <1>2
    <3> QED BY <1>2, <3>1
  <2> HIDE DEF q, a, L, C, x, home
  <2>3. rows[q] = Shape(k, c, Held(1, "part", done), q) BY <2>2 DEF n
  <2>4. HomeOf(k, q) = home BY <1>5, <2>2
  <2>5. Shape(k, c, Held(1, "part", done), q) = Block(L, HomeOf(k, q) * L + (q % n) * 2, 2, C, x)
    BY <2>2, Shapes DEF L, C, x, n
  <2> QED BY <2>1, <2>2, <2>3, <2>4, <2>5
<1>7. first \in Nat
  <2> HIDE DEF L, home
  <2> QED BY <1>1, <1>4
<1>8. Blocks(a, n, L, first, 2, C, x)
  <2>1. Len(a) = n BY <1>1
  <2> HIDE DEF a, L, C, x, first
  <2> QED BY <1>6, <2>1 DEF Blocks
<1> HIDE DEF a, L, C, x, first
<1>9. FlattenSeq(a) = Block(L, first, n * 2, C, x)
  <2>1. 2 \in Nat OBVIOUS
  <2> QED BY <1>1, <1>7, <1>8, <2>1, BlocksJoin
<1>10. n * 2 = L BY <1>1
<1> QED BY <1>3, <1>4, <1>9, <1>10 DEF n

\* No rows have no parts.
LEMMA NoShape ==
  ASSUME NEW k \in Settings, NEW c, NEW r
  PROVE  /\ Shape(k, c, Held(1, "none", FALSE), r) = <<>>
         /\ \A n \in Nat \ {0}, i \in Nat : Part(<<>>, n, i) = <<>>
<1>1. Shape(k, c, Held(1, "none", FALSE), r) = <<>>
  <2>1. CountOf(k, Held(1, "none", FALSE)) = 0 /\ Held(1, "none", FALSE).done = FALSE
    BY DEF CountOf, Held
  <2>2. \A L, first, x : Block(L, first, 0, 1, x) = <<>> BY DEF Block
  <2> QED BY <2>1, <2>2 DEF Shape
<1>2. ASSUME NEW n \in Nat \ {0}, NEW i \in Nat PROVE Part(<<>>, n, i) = <<>>
  <2>1. Len(<<>>) = 0 /\ 0 \div n = 0
    <3>1. 0 = n * 0 + 0 /\ 0 \in 0 .. n - 1 OBVIOUS
    <3> QED BY <3>1, QuotientAndRemainder
  <2>2. i * 0 + 1 = 1 /\ (i + 1) * 0 = 0 OBVIOUS
  <2>3. Part(<<>>, n, i) = SubSeq(<<>>, 1, 0) BY <2>1, <2>2 DEF Part
  <2> QED BY <2>3
<1> QED BY <1>1, <1>2

\* The rows with and without results: the same prompts.
BothShapes(k, c, r, n, which, first, count) ==
  /\ first \in Nat /\ count \in Nat \ {0}
  /\ Shape(k, c, Held(n, which, FALSE), r) = Block(PerHome(k), first, count, 1, None)
  /\ Shape(k, c, Held(n, which, TRUE), r) = Block(PerHome(k), first, count, CopiesOf(k, c), c.method)

LEMMA ShapeOf ==
  ASSUME NEW k \in Settings, config = k, NEW c, NEW r \in Ranks, NEW n \in Nat \ {0},
         NEW which \in {"all", "part"}
  PROVE  \E first, count : BothShapes(k, c, r, n, which, first, count)
<1> DEFINE first == FirstOf(k, Held(n, which, FALSE), r)
           count == CountOf(k, Held(n, which, FALSE))
           h == HomeOf(k, r)
           L == PerHome(k)
           M == MicroOf(k)
<1>1. M \in Nat \ {0} /\ L \in Nat \ {0} /\ r \in Nat /\ h \in Nat
  <2>1. HomeOf(k, r) \in Nat BY Shapes
  <2> QED BY <2>1, Numbers DEF Ranks
<1>2. \A done : Held(n, which, done).ranks = n /\ Held(n, which, done).rows = which
                /\ Held(n, which, done).done = done
  BY DEF Held
<1>3. \A done : FirstOf(k, Held(n, which, done), r) = first /\ CountOf(k, Held(n, which, done)) = count
  BY <1>2 DEF FirstOf, CountOf
<1>4. first \in Nat /\ count \in Nat \ {0}
  <2>1. CASE which = "part"
    <3>1. first = h * L + (r % M) * 2 /\ count = 2
      BY <1>2, <2>1 DEF FirstOf, CountOf
    <3> DEFINE t == (r % M)
               u == h * L
    <3> HIDE DEF first, count, h, L, M
    <3>2. u \in Nat /\ t \in Nat BY <1>1
    <3>3. first = u + t * 2 /\ count = 2 BY <3>1
    <3> HIDE DEF t, u
    <3> QED BY ONLY <3>2, <3>3
  <2>2. CASE which = "all"
    <3> DEFINE q == h \div n
    <3>1. first = (n * q) * L /\ count = n * L
      BY <1>2, <2>2 DEF FirstOf, CountOf
    <3> HIDE DEF first, count, h, L, M
    <3>2. q \in Nat
      <4>1. n \in Nat \ {0} /\ h \in Nat BY <1>1
      <4> QED BY ONLY <4>1 DEF q
    <3> HIDE DEF q
    <3>3. n * q \in Nat BY <3>2
    <3>4. (n * q) * L \in Nat /\ n * L \in Nat \ {0} BY <1>1, <3>3
    <3> QED BY <3>1, <3>4
  <2> QED BY <2>1, <2>2
<1>5. /\ Shape(k, c, Held(n, which, FALSE), r) = Block(L, first, count, 1, None)
      /\ Shape(k, c, Held(n, which, TRUE), r) = Block(L, first, count, CopiesOf(k, c), c.method)
  <2> HIDE DEF first, count, L
  <2> QED BY <1>2, <1>3 DEF Shape, L
<1>6. BothShapes(k, c, r, n, which, first, count) BY <1>4, <1>5 DEF BothShapes
<1> QED BY <1>6

\* Computing gives every row its result.
LEMMA DoneShape ==
  ASSUME NEW k \in Settings, config = k, NEW r \in Ranks, NEW n \in Nat \ {0},
         call.method # "generate_sequences", rows[r] = Shape(k, call, Held(n, "all", FALSE), r)
  PROVE  Done(r) = Shape(k, call, Held(n, "all", TRUE), r)
<1> DEFINE L == PerHome(k)
           s == rows[r]
           m == call.method
<1>1. PICK first, count : BothShapes(k, call, r, n, "all", first, count) BY ShapeOf
<1>2. CopiesOf(k, call) = 1 BY DEF CopiesOf
<1>3. Done(r) = [i \in DOMAIN s |-> Finish(s[i], m)] BY DEF Done, Finish
<1>4. /\ first \in Nat /\ count \in Nat /\ s = Block(L, first, count, 1, None)
      /\ Shape(k, call, Held(n, "all", TRUE), r) = Block(L, first, count, 1, m)
  BY <1>1, <1>2 DEF BothShapes
<1> HIDE DEF L, s, m
<1>5. [i \in DOMAIN s |-> Finish(s[i], m)] = Block(L, first, count, 1, m)
  BY <1>4, BlockDone
<1> QED BY <1>3, <1>4, <1>5

\* Generating gives every prompt its answers.
LEMMA AnsweredShape ==
  ASSUME NEW k \in Settings, config = k, NEW r \in Ranks, NEW n \in Nat \ {0},
         NEW which \in {"all", "part"},
         call.method = "generate_sequences", rows[r] = Shape(k, call, Held(n, which, FALSE), r)
  PROVE  Answered(r) = Shape(k, call, Held(n, which, TRUE), r)
<1> DEFINE L == PerHome(k)
           C == CopiesOf(k, call)
           s == rows[r]
           m == call.method
<1>1. PICK first, count : BothShapes(k, call, r, n, which, first, count) BY ShapeOf
<1>2. C \in Nat \ {0} /\ L \in Nat \ {0} /\ Copies = C BY Numbers, NamesOf
<1>3. Answered(r) = FlattenSeq([i \in DOMAIN s |-> [c \in 1 .. Copies |-> Answer(s[i], c, m)]])
  BY DEF Answered, Answer
<1>4. /\ first \in Nat /\ count \in Nat \ {0} /\ s = Block(L, first, count, 1, None)
      /\ Shape(k, call, Held(n, which, TRUE), r) = Block(L, first, count, C, m)
  BY <1>1 DEF BothShapes
<1> HIDE DEF L, s, m, C
<1>5. FlattenSeq([i \in DOMAIN s |-> [c \in 1 .. C |-> Answer(s[i], c, m)]]) = Block(L, first, count, C, m)
  BY <1>2, <1>4, BlockAnswered
<1> QED BY <1>2, <1>3, <1>4, <1>5

\* The trainer gives every rank the prompts of its home.
LEMMA DispatchedShape ==
  ASSUME NEW k \in Settings, config = k, NEW c, NEW r \in Ranks
  PROVE  Dispatched(r) = Shape(k, c, Held(1, "all", FALSE), r)
<1> DEFINE h == HomeOf(k, r)
           L == PerHome(k)
           first == h * L
           b == Block(L, first, L, 1, None)
<1>1. h \in Nat /\ L \in Nat \ {0} /\ Shape(k, c, Held(1, "all", FALSE), r) = b
  <2>1. h \in Nat BY Shapes
  <2>2. L \in Nat \ {0} BY Numbers
  <2> QED BY <2>1, <2>2, Shapes DEF Copied, Result
<1>2. Dispatched(r) = [i \in 1 .. L |-> Row(h, i, 1)] BY NamesOf DEF Dispatched
<1>3. DOMAIN b = 1 .. L /\ \A j \in 1 .. L : b[j] = RowAt(L, first + (j - 1), 1, None)
  <2>1. L \in Nat BY <1>1
  <2> HIDE DEF L, first
  <2> QED BY <2>1, BlockOfPrompts
<1>4. b = [j \in DOMAIN b |-> b[j]] BY DEF Block
<1> HIDE DEF h, L, b
<1>5. ASSUME NEW j \in 1 .. L PROVE RowAt(L, first + (j - 1), 1, None) = Row(h, j, 1)
  <2> DEFINE x == first + (j - 1)
  <2>1. x = L * h + (j - 1) /\ j - 1 \in 0 .. L - 1 BY <1>1
  <2> HIDE DEF x
  <2>2. x \div L = h /\ (x % L) = j - 1
    <3> DEFINE t == j - 1
    <3>1. x = L * h + t /\ t \in 0 .. L - 1 BY <2>1
    <3> HIDE DEF t
    <3>2. x \div L = h /\ (x % L) = t BY <1>1, <3>1, QuotientAndRemainder
    <3> QED BY <3>2 DEF t
  <2>3. (j - 1) + 1 = j BY <1>1
  <2>4. RowAt(L, x, 1, None) = Row(h, j, 1) BY <2>2, <2>3 DEF RowAt, Row
  <2> QED BY <2>4 DEF x
<1> HIDE DEF first
<1> QED BY <1>1, <1>2, <1>3, <1>4, <1>5

\* What a call leaves behind.
Final(c) ==
  CASE c.method \in {"update_actor", "update_critic", None} -> Held(1, "none", FALSE)
    [] c.method \in {"save_checkpoint", "load_checkpoint"} -> Held(1, "all", FALSE)
    [] OTHER -> Held(1, "all", TRUE)

LEMMA RowAnswered ==
  ASSUME NEW h, NEW i, NEW c, NEW result
  PROVE  /\ [Row(h, i, c) EXCEPT !.result = result] = Answer(Row(h, i, 1), c, result)
         /\ [Row(h, i, 1) EXCEPT !.result = result] = Finish(Row(h, i, 1), result)
<1>1. \A x : Row(h, i, x) = [home |-> h, i |-> i, copy |-> x, result |-> None] BY DEF Row
<1> DEFINE d == Row(h, i, 1)
           e == Row(h, i, c)
           f == [d EXCEPT !.copy = c]
<1>2. d = [home |-> h, i |-> i, copy |-> 1, result |-> None]
      /\ e = [home |-> h, i |-> i, copy |-> c, result |-> None]
  BY <1>1
<1> HIDE DEF d, e
<1>3. f = [home |-> h, i |-> i, copy |-> c, result |-> None] BY ONLY <1>2
<1> HIDE DEF f
<1>4. f = e BY <1>2, <1>3
<1>5. Answer(d, c, result) = [f EXCEPT !.result = result] BY DEF Answer, f
<1>6. Finish(d, result) = [d EXCEPT !.result = result] BY DEF Finish
<1> QED BY <1>4, <1>5, <1>6 DEF d, e

LEMMA FinalShape ==
  ASSUME NEW k \in Settings, config = k, NEW r \in Ranks, rows[r] = Shape(k, call, Final(call), r)
  PROVE  rows[r] = CASE call.method = "generate_sequences" ->
                       FlattenSeq([i \in 1 .. RowsPerHome |->
                         [c \in 1 .. Copies |-> [Row(Home(r), i, c) EXCEPT !.result = call.method]]])
                  [] call.method \in {"update_actor", "update_critic", None} -> <<>>
                  [] call.method \in {"save_checkpoint", "load_checkpoint"} -> Dispatched(r)
                  [] OTHER -> [i \in 1 .. RowsPerHome |-> [Row(Home(r), i, 1) EXCEPT !.result = call.method]]
<1> DEFINE m == call.method
           L == PerHome(k)
           C == CopiesOf(k, call)
           h == HomeOf(k, r)
           s == Dispatched(r)
           answers == FlattenSeq([i \in 1 .. RowsPerHome |->
                        [c \in 1 .. Copies |-> [Row(Home(r), i, c) EXCEPT !.result = m]]])
           results == [i \in 1 .. RowsPerHome |-> [Row(Home(r), i, 1) EXCEPT !.result = m]]
<1>1. L \in Nat \ {0} /\ C \in Nat \ {0} /\ h \in Nat /\ RowsPerHome = L /\ Home(r) = h
  <2>1. /\ L \in Nat \ {0} /\ C \in Nat \ {0} BY Numbers
  <2>2. h \in Nat BY Shapes
  <2> QED BY <2>1, <2>2, NamesOf
<1>2. s = Shape(k, call, Held(1, "all", FALSE), r) BY DispatchedShape
<1>3. PICK first, count : BothShapes(k, call, r, 1, "all", first, count)
  <2>1. 1 \in Nat \ {0} /\ "all" \in {"all", "part"} OBVIOUS
  <2> QED BY <2>1, ShapeOf
<1>4. s = Block(L, first, count, 1, None) /\ first \in Nat /\ count \in Nat \ {0}
      /\ Shape(k, call, Held(1, "all", TRUE), r) = Block(L, first, count, C, m)
  BY <1>2, <1>3 DEF BothShapes
<1>5. DOMAIN s = 1 .. L /\ \A i \in 1 .. L : s[i] = Row(h, i, 1)
  BY <1>1 DEF Dispatched
<1>6. CASE m = "generate_sequences"
  <2>1. rows[r] = Block(L, first, count, C, m) BY <1>4, <1>6 DEF Final, None
  <2>2. Copies = C BY <1>6, NamesOf
  <2>3. answers = FlattenSeq([i \in 1 .. L |->
                    [c \in 1 .. C |-> [Row(h, i, c) EXCEPT !.result = m]]])
    BY <1>1, <2>2
  <2> HIDE DEF answers, s, L, C, h, m
  <2>4. [i \in DOMAIN s |-> [c \in 1 .. C |-> Answer(s[i], c, m)]]
          = [i \in 1 .. L |-> [c \in 1 .. C |-> Answer(Row(h, i, 1), c, m)]]
    BY <1>5
  <2>5. \A i, c : [Row(h, i, c) EXCEPT !.result = m] = Answer(Row(h, i, 1), c, m)
    BY RowAnswered
  <2>6. [i \in 1 .. L |-> [c \in 1 .. C |-> [Row(h, i, c) EXCEPT !.result = m]]]
          = [i \in 1 .. L |-> [c \in 1 .. C |-> Answer(Row(h, i, 1), c, m)]]
    BY <2>5, Zenon
  <2>7. FlattenSeq([i \in DOMAIN s |-> [c \in 1 .. C |-> Answer(s[i], c, m)]]) = Block(L, first, count, C, m)
    BY <1>1, <1>4, BlockAnswered
  <2>8. answers = Block(L, first, count, C, m) BY <2>3, <2>4, <2>6, <2>7
  <2> QED BY <1>6, <2>1, <2>8 DEF answers, m, None
<1>7. CASE m \in {"update_actor", "update_critic", None}
  <2>1. Final(call) = Held(1, "none", FALSE) BY <1>7 DEF Final, None
  <2>2. rows[r] = <<>> BY <2>1, NoShape
  <2>3. m # "generate_sequences" BY <1>7 DEF None
  <2> QED BY <1>7, <2>2, <2>3 DEF None
<1>8. CASE m \in {"save_checkpoint", "load_checkpoint"}
  <2>1. m # "generate_sequences" /\ m \notin {"update_actor", "update_critic", None}
    BY <1>8 DEF None
  <2>2. Final(call) = Held(1, "all", FALSE) BY <1>8, <2>1 DEF Final
  <2>3. rows[r] = Dispatched(r) BY <1>2, <2>2
  <2> QED BY <1>8, <2>1, <2>3
<1>9. CASE m \notin {"generate_sequences", "update_actor", "update_critic", None,
                     "save_checkpoint", "load_checkpoint"}
  <2>1. Final(call) = Held(1, "all", TRUE) BY <1>9 DEF Final
  <2>2. C = 1 BY <1>9 DEF CopiesOf
  <2>3. rows[r] = Block(L, first, count, 1, m) BY <1>4, <2>1, <2>2
  <2>4. results = [i \in 1 .. L |-> [Row(h, i, 1) EXCEPT !.result = m]]
    <3> HIDE DEF L, h, m
    <3> QED BY <1>1
  <2> HIDE DEF results, s, L, C, h, m
  <2>5. [i \in DOMAIN s |-> Finish(s[i], m)] = [i \in 1 .. L |-> Finish(Row(h, i, 1), m)]
    BY <1>5
  <2>6. \A i : [Row(h, i, 1) EXCEPT !.result = m] = Finish(Row(h, i, 1), m)
    BY RowAnswered
  <2>7. [i \in 1 .. L |-> [Row(h, i, 1) EXCEPT !.result = m]] = [i \in 1 .. L |-> Finish(Row(h, i, 1), m)]
    BY <2>6, Zenon
  <2>8. [i \in DOMAIN s |-> Finish(s[i], m)] = Block(L, first, count, 1, m)
    BY <1>4, BlockDone
  <2>9. rows[r] = results BY <2>3, <2>4, <2>5, <2>7, <2>8
  <2> QED BY <1>9, <2>9 DEF results, m
<1> QED BY <1>6, <1>7, <1>8, <1>9

---------------------------------------------------------------------------
(* What each step does to the rows, and a call's steps one after another     *)

Changing ==
  {"gather", "keep own rows", "gather prompts", "keep own responses", "copy responses",
   "take micro rows", "join micro rows", "forward", "generate", "update"}
Neutral == Steps \ Changing

\* The rows a generation starts with.
Prompts(k, done) ==
  CASE Mega(k) -> Held(1, "part", done)
    [] k.engine = "hf" -> Held(1, "all", done)
    [] OTHER -> Held(k.tp, "all", done)

MegatronFormStep(k, o, f, g) ==
  \/ o.do = "take micro rows" /\ f = Held(1, "all", FALSE) /\ g = Held(1, "part", FALSE)
  \/ o.do = "join micro rows" /\ f = Held(1, "part", TRUE) /\ g = Held(1, "all", TRUE)

FsdpFormStep(k, c, o, f, g) ==
  \/ /\ o.do = "gather" /\ o.of = c.of
     /\ f = Held(1, "all", FALSE) /\ g = Held(SpOf(k, c.of), "all", FALSE)
  \/ o.do = "keep own rows" /\ f = Held(SpOf(k, o.of), "all", TRUE) /\ g = Held(1, "all", TRUE)
  \/ o.do = "keep own rows" /\ f = Held(1, "none", FALSE) /\ g = f
  \/ o.do = "gather prompts" /\ f = Held(1, "all", FALSE) /\ g = Held(k.tp, "all", FALSE)
  \/ o.do = "copy responses" /\ f = Held(k.tp, "all", TRUE) /\ g = f
  \/ o.do = "keep own responses" /\ f = Held(k.tp, "all", TRUE) /\ g = Held(1, "all", TRUE)

FormStep(k, c, o, f, g) ==
  \/ o.do \in Neutral /\ g = f
  \/ o.do = "update" /\ g = Held(1, "none", FALSE)
  \/ /\ o.do = "forward" /\ c.method # "generate_sequences"
     /\ f = Held(SpOf(k, o.of), "all", FALSE) /\ g = Held(SpOf(k, o.of), "all", TRUE)
  \/ /\ o.do = "generate" /\ c.method = "generate_sequences"
     /\ f = Prompts(k, FALSE) /\ g = Prompts(k, TRUE)
  \/ Mega(k) /\ MegatronFormStep(k, o, f, g)
  \/ ~Mega(k) /\ FsdpFormStep(k, c, o, f, g)

FormRules(k, c) ==
  {t \in [pre : Forms, op : Ops(k), post : Forms] : FormStep(k, c, t.op, t.pre, t.post)}

Brings(k, c, s, f, g) == Chain(Forms, Ops(k), FormRules(k, c), s, f, g)

LEMMA HeldIsForm ==
  /\ \A n \in Nat \ {0} : Held(n, "all", TRUE) \in Forms /\ Held(n, "all", FALSE) \in Forms
  /\ Held(1, "part", TRUE) \in Forms /\ Held(1, "part", FALSE) \in Forms
  /\ Held(1, "all", TRUE) \in Forms /\ Held(1, "all", FALSE) \in Forms
  /\ Held(1, "none", FALSE) \in Forms
BY DEF Held, Forms

LEMMA GroupIsForm ==
  ASSUME NEW k \in Settings, NEW m \in ModelsOf(k)
  PROVE  Held(SpOf(k, m), "all", TRUE) \in Forms /\ Held(SpOf(k, m), "all", FALSE) \in Forms
<1>1. SpOf(k, m) \in Nat \ {0} BY Numbers
<1> QED BY <1>1, HeldIsForm

LEMMA BringsJoin ==
  ASSUME NEW k, NEW c, NEW s, NEW t, NEW f, NEW m, NEW g, Brings(k, c, s, f, m), Brings(k, c, t, m, g)
  PROVE  Brings(k, c, s \o t, f, g)
BY ChainJoin DEF Brings

LEMMA DoBrings ==
  ASSUME NEW k, NEW c, NEW m, NEW v \in Seq(Steps), NEW w \in Seq(Steps), NEW f, NEW h, NEW g,
         Brings(k, c, Do(m, v), f, h), Brings(k, c, Do(m, w), h, g)
  PROVE  Brings(k, c, Do(m, v \o w), f, g)
<1>1. Do(m, v \o w) = Do(m, v) \o Do(m, w) BY DoJoin
<1> QED BY <1>1, BringsJoin

\* One step.
LEMMA StepBrings ==
  ASSUME NEW k, NEW c, NEW m \in ModelsOf(k), NEW a \in Steps, NEW f \in Forms, NEW g \in Forms,
         NEW o, o = [do |-> a, of |-> m], FormStep(k, c, o, f, g)
  PROVE  Brings(k, c, Do(m, <<a>>), f, g)
<1>1. o \in Ops(k) BY DEF Ops
<1>2. Do(m, <<a>>) = <<o>> BY DoOne
<1> DEFINE t == [pre |-> f, op |-> o, post |-> g]
<1>3. t \in [pre : Forms, op : Ops(k), post : Forms] /\ t.pre = f /\ t.op = o /\ t.post = g BY <1>1
<1> HIDE DEF t
<1>4. t \in FormRules(k, c) BY <1>3 DEF FormRules
<1>5. Chain(Forms, Ops(k), FormRules(k, c), <<o>>, f, g) BY <1>1, <1>4, ChainOne DEF t
<1> QED BY <1>2, <1>5 DEF Brings

\* Steps that leave the rows alone.
LEMMA NeutralBrings ==
  ASSUME NEW k, NEW c, NEW m \in ModelsOf(k), NEW w \in Seq(Neutral), NEW f \in Forms
  PROVE  Brings(k, c, Do(m, w), f, f) /\ w \in Seq(Steps)
<1> DEFINE s == Do(m, w)
           n == Len(w)
           h == [i \in 1 .. n + 1 |-> f]
<1>1. n \in Nat /\ DOMAIN w = 1 .. n /\ \A i \in 1 .. n : w[i] \in Neutral OBVIOUS
<1>2. s = [i \in 1 .. n |-> [do |-> w[i], of |-> m]] BY <1>1 DEF Do
<1>3. w \in Seq(Steps)
  <2>1. Neutral \subseteq Steps BY DEF Neutral
  <2> HIDE DEF s, n
  <2> QED BY <2>1
<1> HIDE DEF s, n
<1>4. \A i \in 1 .. n : [do |-> w[i], of |-> m] \in Ops(k)
  BY <1>1 DEF Ops, Neutral
<1>5. s \in [1 .. n -> Ops(k)] BY <1>2, <1>4
<1>6. s \in Seq(Ops(k)) /\ Len(s) = n BY <1>1, <1>5, FunctionIsSequence
<1>7. h \in [1 .. n + 1 -> Forms] /\ \A i \in 1 .. n + 1 : h[i] = f OBVIOUS
<1> HIDE DEF h
<1>8. ASSUME NEW i \in 1 .. n
      PROVE  [pre |-> h[i], op |-> s[i], post |-> h[i + 1]] \in FormRules(k, c)
  <2> DEFINE t == [pre |-> f, op |-> s[i], post |-> f]
  <2>1. h[i] = f /\ h[i + 1] = f
    <3>1. i \in 1 .. n + 1 /\ i + 1 \in 1 .. n + 1 BY <1>1
    <3> QED BY <1>7, <3>1
  <2>2. s[i] \in Ops(k) /\ s[i].do \in Neutral BY <1>1, <1>2, <1>4
  <2>3. t \in [pre : Forms, op : Ops(k), post : Forms] /\ t.pre = f /\ t.op = s[i] /\ t.post = f
    BY <2>2
  <2>4. FormStep(k, c, s[i], f, f) BY <2>2 DEF FormStep
  <2> HIDE DEF t
  <2>5. t \in FormRules(k, c) BY <2>3, <2>4 DEF FormRules
  <2> QED BY <2>1, <2>5 DEF t
<1>9. h[1] = f /\ h[n + 1] = f
  <2>1. 1 \in 1 .. n + 1 /\ n + 1 \in 1 .. n + 1 BY <1>1
  <2> QED BY <1>7, <2>1
<1>10. Brings(k, c, s, f, f) BY <1>6, <1>7, <1>8, <1>9 DEF Brings, Chain
<1> QED BY <1>3, <1>10 DEF s

LEMMA NothingBrings ==
  ASSUME NEW k, NEW c, NEW f \in Forms
  PROVE  Brings(k, c, <<>>, f, f)
BY ChainEmpty DEF Brings

---------------------------------------------------------------------------
(* Calls                                                                     *)

LEMMA NeutralSteps ==
  {"load params", "offload params", "load optimizer", "offload optimizer", "reshard", "save",
   "state dict", "restore", "enter sequence group", "leave sequence group", "swap in", "swap out",
   "wake weights", "wake cache", "make cache", "sync", "set sampling", "roll back sampling",
   "free cache", "flush cache", "sleep"} \subseteq Neutral
BY DEF Neutral, Changing, Steps, MemorySteps, EngineSteps

LEMMA NeutralStep ==
  ASSUME NEW k, NEW c, NEW m \in ModelsOf(k), NEW a \in Neutral, NEW f \in Forms
  PROVE  Brings(k, c, Do(m, <<a>>), f, f)
<1>1. <<a>> \in Seq(Neutral) OBVIOUS
<1> QED BY <1>1, NeutralBrings

\* Moving a model leaves the rows alone.
LEMMA MovesBring ==
  ASSUME NEW k \in Settings, config = k, NEW c, NEW m \in ModelsOf(k), NEW f \in Forms
  PROVE  /\ Brings(k, c, LoadParams(m), f, f) /\ Brings(k, c, LoadAll(m), f, f)
         /\ Brings(k, c, OffloadParams(m), f, f) /\ Brings(k, c, OffloadAll(m), f, f)
         /\ Brings(k, c, Reshard(m), f, f)
         /\ Brings(k, c, When(~Megatron, Do(m, <<"reshard">>)), f, f)
<1>1. Brings(k, c, <<>>, f, f) BY NothingBrings
<1>2. ASSUME NEW a \in Neutral PROVE Brings(k, c, Do(m, <<a>>), f, f) BY NeutralStep
<1>3. ASSUME NEW a \in Neutral, NEW b \in Neutral PROVE Brings(k, c, Do(m, <<a, b>>), f, f)
  <2>1. <<a, b>> \in Seq(Neutral) OBVIOUS
  <2> QED BY <2>1, NeutralBrings
<1>4. /\ Brings(k, c, Do(m, <<"load params">>), f, f) /\ Brings(k, c, Do(m, <<"offload params">>), f, f)
      /\ Brings(k, c, Do(m, <<"reshard">>), f, f)
      /\ Brings(k, c, Do(m, <<"load params", "load optimizer">>), f, f)
      /\ Brings(k, c, Do(m, <<"offload params", "offload optimizer">>), f, f)
  BY <1>2, <1>3, NeutralSteps
<1> QED BY <1>1, <1>4 DEF LoadParams, LoadAll, OffloadParams, OffloadAll, Reshard, When

\* Computing in a sequence group: what it makes of the gathered rows, each rank keeps its part of.
LEMMA GroupBrings ==
  ASSUME NEW k \in Settings, config = k, NEW c, NEW m \in ModelsOf(k), c.of = m, NEW a \in Steps,
         NEW f, NEW g \in Forms,
         Brings(k, c, Do(m, <<a>>), Held(SpOf(k, m), "all", FALSE), f),
         ~Mega(k) => Brings(k, c, Do(m, <<"keep own rows">>), f, g), Mega(k) => f = g
  PROVE  Brings(k, c, InSequenceGroup(m, <<a>>), Held(1, "all", FALSE), g)
<1>1. CASE Mega(k)
  <2>1. SpOf(k, m) = 1 BY <1>1 DEF SpOf
  <2>2. InSequenceGroup(m, <<a>>) = Do(m, <<a>>) BY <1>1, OfTheSetting DEF InSequenceGroup
  <2> QED BY <1>1, <2>1, <2>2
<1>2. CASE ~Mega(k)
  <2> DEFINE before == <<"enter sequence group", "gather">>
             after == <<"keep own rows", "leave sequence group">>
             one == <<a>>
             p == Held(1, "all", FALSE)
             q == Held(SpOf(k, m), "all", FALSE)
  <2>1. InSequenceGroup(m, one) = Do(m, before \o one \o after)
    BY <1>2, OfTheSetting DEF InSequenceGroup
  <2>2. p \in Forms /\ q \in Forms BY GroupIsForm, HeldIsForm
  <2>4. {"enter sequence group", "gather", "keep own rows", "leave sequence group"} \subseteq Steps
    BY DEF Steps, MemorySteps
  <2>5. before \in Seq(Steps) /\ after \in Seq(Steps) /\ one \in Seq(Steps)
        /\ before = <<"enter sequence group">> \o <<"gather">>
        /\ after = <<"keep own rows">> \o <<"leave sequence group">>
        /\ \A x \in Steps : <<x>> \in Seq(Steps)
    BY <2>4, Tuples
  <2>6. \A h \in Forms : /\ Brings(k, c, Do(m, <<"enter sequence group">>), h, h)
                         /\ Brings(k, c, Do(m, <<"leave sequence group">>), h, h)
    <3>1. "enter sequence group" \in Neutral /\ "leave sequence group" \in Neutral BY NeutralSteps
    <3> QED BY <3>1, NeutralStep
  <2>7. Brings(k, c, Do(m, <<"gather">>), p, q)
    <3> DEFINE o == [do |-> "gather", of |-> m]
    <3>1. FormStep(k, c, o, p, q)
      BY <1>2 DEF FormStep, FsdpFormStep
    <3> HIDE DEF p, q
    <3> QED BY <2>2, <2>4, <3>1, StepBrings
  <2> HIDE DEF before, after, p, q
  <2>8. Brings(k, c, Do(m, before), p, q) BY <2>2, <2>4, <2>5, <2>6, <2>7, DoBrings
  <2>9. Brings(k, c, Do(m, after), f, g) BY <1>2, <2>4, <2>5, <2>6, DoBrings
  <2>10. Brings(k, c, Do(m, one), q, f) BY DEF q
  <2> HIDE DEF one
  <2>11. before \o one \in Seq(Steps)
    <3>1. before \in Seq(Steps) /\ one \in Seq(Steps) BY <2>5 DEF one
    <3> QED BY ONLY <3>1
  <2>12. Brings(k, c, Do(m, before \o one), p, f) BY <2>5, <2>8, <2>10, DoBrings
  <2>13. Brings(k, c, Do(m, before \o one \o after), p, g) BY <2>5, <2>9, <2>11, <2>12, DoBrings
  <2> QED BY <2>1, <2>13 DEF one, p
<1> QED BY <1>1, <1>2

\* An update leaves no rows, a pass the rank's own rows with their results.
LEMMA UpdateBrings ==
  ASSUME NEW k \in Settings, config = k, NEW c, NEW m \in ModelsOf(k), c.of = m
  PROVE  Brings(k, c, InSequenceGroup(m, <<"update">>), Held(1, "all", FALSE), Held(1, "none", FALSE))
<1> DEFINE q == Held(SpOf(k, m), "all", FALSE)
           g == Held(1, "none", FALSE)
<1>1. q \in Forms /\ g \in Forms BY GroupIsForm, HeldIsForm
<1>2. "update" \in Steps /\ "keep own rows" \in Steps BY DEF Steps, MemorySteps
<1>3. FormStep(k, c, [do |-> "update", of |-> m], q, g) BY DEF FormStep
<1>4. ~Mega(k) => FormStep(k, c, [do |-> "keep own rows", of |-> m], g, g)
  BY DEF FormStep, FsdpFormStep
<1> HIDE DEF g
<1>5. Brings(k, c, Do(m, <<"update">>), Held(SpOf(k, m), "all", FALSE), g)
  BY <1>1, <1>2, <1>3, StepBrings DEF q
<1>6. ~Mega(k) => Brings(k, c, Do(m, <<"keep own rows">>), g, g)
  BY <1>1, <1>2, <1>4, StepBrings
<1>7. Brings(k, c, InSequenceGroup(m, <<"update">>), Held(1, "all", FALSE), g)
  BY <1>1, <1>2, <1>5, <1>6, GroupBrings
<1> QED BY <1>7 DEF g

LEMMA ForwardBrings ==
  ASSUME NEW k \in Settings, config = k, NEW c, NEW m \in ModelsOf(k), c.of = m,
         c.method # "generate_sequences"
  PROVE  Brings(k, c, InSequenceGroup(m, <<"forward">>), Held(1, "all", FALSE), Held(1, "all", TRUE))
<1> DEFINE q == Held(SpOf(k, m), "all", FALSE)
           f == Held(SpOf(k, m), "all", TRUE)
           g == Held(1, "all", TRUE)
<1>1. q \in Forms /\ f \in Forms /\ g \in Forms BY GroupIsForm, HeldIsForm
<1>2. "forward" \in Steps /\ "keep own rows" \in Steps BY DEF Steps, MemorySteps
<1>3. FormStep(k, c, [do |-> "forward", of |-> m], q, f) BY DEF FormStep
<1>4. ~Mega(k) => FormStep(k, c, [do |-> "keep own rows", of |-> m], f, g)
  BY DEF FormStep, FsdpFormStep
<1>5. Mega(k) => f = g BY DEF SpOf
<1> HIDE DEF f, g
<1>6. Brings(k, c, Do(m, <<"forward">>), Held(SpOf(k, m), "all", FALSE), f)
  BY <1>1, <1>2, <1>3, StepBrings DEF q
<1>7. ~Mega(k) => Brings(k, c, Do(m, <<"keep own rows">>), f, g)
  BY <1>1, <1>2, <1>4, StepBrings
<1>8. Brings(k, c, InSequenceGroup(m, <<"forward">>), Held(1, "all", FALSE), g)
  BY <1>1, <1>2, <1>5, <1>6, <1>7, GroupBrings
<1> QED BY <1>8 DEF g

\* generate_sequences: the prompts are gathered, or split, answered, and each rank keeps
\* the answers to its own, or gathers its group's.
LEMMA NeutralTuples ==
  ASSUME NEW a \in Neutral, NEW b \in Neutral, NEW d \in Neutral, NEW e \in Neutral, NEW g \in Neutral
  PROVE  /\ <<>> \in Seq(Neutral) /\ <<a>> \in Seq(Neutral) /\ <<a, b>> \in Seq(Neutral)
         /\ <<a, b, d>> \in Seq(Neutral) /\ <<a, b, d, e>> \in Seq(Neutral)
         /\ <<a, b, d, e, g>> \in Seq(Neutral)
OBVIOUS

LEMMA EnterIsNeutral == Enter \in Seq(Neutral) /\ Exit \in Seq(Neutral)
<1>1. /\ "state dict" \in Neutral /\ "wake weights" \in Neutral /\ "wake cache" \in Neutral
      /\ "sync" \in Neutral /\ "swap in" \in Neutral /\ "swap out" \in Neutral /\ "sleep" \in Neutral
  BY NeutralSteps
<1>2. FsdpSglangEnter \in Seq(Neutral) BY <1>1, NeutralTuples DEF FsdpSglangEnter
<1>3. MegatronEnter \in Seq(Neutral) BY <1>1, NeutralTuples DEF MegatronEnter
<1>4. FsdpVllmEnter \in Seq(Neutral) BY <1>1, NeutralTuples DEF FsdpVllmEnter
<1>5. FsdpVllmExit \in Seq(Neutral) /\ FsdpSglangExit \in Seq(Neutral) /\ MegatronExit \in Seq(Neutral)
  BY <1>1, Tuples DEF FsdpVllmExit, FsdpSglangExit, MegatronExit
<1>6. <<>> \in Seq(Neutral) OBVIOUS
<1> QED BY <1>2, <1>3, <1>4, <1>5, <1>6 DEF Enter, Exit

LEMMA PromptsAreForms ==
  ASSUME NEW k \in Settings
  PROVE  /\ Prompts(k, TRUE) \in Forms /\ Prompts(k, FALSE) \in Forms
         /\ Held(k.tp, "all", TRUE) \in Forms /\ Held(k.tp, "all", FALSE) \in Forms
<1>1. k.tp \in Nat \ {0} BY Numbers
<1> QED BY <1>1, HeldIsForm DEF Prompts

LEMMA GenerateBrings ==
  ASSUME NEW k \in Settings, config = k, NEW c, c.method = "generate_sequences"
  PROVE  /\ Generate \in Seq(Steps)
         /\ Brings(k, c, Do("actor", Generate), Prompts(k, FALSE), Prompts(k, TRUE))
<1> DEFINE p == Prompts(k, FALSE)
           q == Prompts(k, TRUE)
           m == "actor"
<1>0. m \in ModelsOf(k) BY DEF ModelsOf
<1>1. p \in Forms /\ q \in Forms BY PromptsAreForms
<1>2. {"generate", "set sampling", "roll back sampling"} \subseteq Steps BY DEF Steps, EngineSteps
<1>3. FormStep(k, c, [do |-> "generate", of |-> m], p, q) BY DEF FormStep
<1> HIDE DEF p, q, m
<1>4. Brings(k, c, Do(m, <<"generate">>), p, q) BY <1>0, <1>1, <1>2, <1>3, StepBrings
<1>5. \A f \in Forms : /\ Brings(k, c, Do(m, <<"set sampling">>), f, f)
                       /\ Brings(k, c, Do(m, <<"roll back sampling">>), f, f)
  BY <1>0, NeutralSteps, NeutralStep
<1>6. HfGenerate \in Seq(Steps) /\ Brings(k, c, Do(m, HfGenerate), p, q)
  <2>1. <<"generate">> \in Seq(Steps) BY <1>2, Tuples
  <2> QED BY <1>4, <2>1 DEF HfGenerate
<1>7. VllmGenerate \in Seq(Steps) /\ Brings(k, c, Do(m, VllmGenerate), p, q)
  <2> DEFINE a == <<"set sampling">>
             b == <<"generate">>
             d == <<"roll back sampling">>
             ab == <<"set sampling", "generate">>
  <2>1. /\ a \in Seq(Steps) /\ b \in Seq(Steps) /\ d \in Seq(Steps) /\ ab \in Seq(Steps)
        /\ ab = a \o b
    BY <1>2, Tuples
  <2>2. VllmGenerate \in Seq(Steps) /\ VllmGenerate = ab \o d
    BY <1>2, TupleOf3 DEF VllmGenerate
  <2> HIDE DEF a, b, d, ab
  <2>3. Brings(k, c, Do(m, a), p, p) /\ Brings(k, c, Do(m, b), p, q) /\ Brings(k, c, Do(m, d), q, q)
    BY <1>1, <1>4, <1>5 DEF a, b, d
  <2>4. Brings(k, c, Do(m, ab), p, q) BY <2>1, <2>3, DoBrings
  <2>5. Brings(k, c, Do(m, ab \o d), p, q) BY <2>1, <2>3, <2>4, DoBrings
  <2> QED BY <2>2, <2>5
<1> DEFINE make == When(config.free, <<"make cache">>)
           free == When(config.free, <<"free cache">>)
           flush == When(config.free, <<"flush cache">>)
           gen == VllmGenerate
<1>8. make \in Seq(Neutral) /\ free \in Seq(Neutral) /\ flush \in Seq(Neutral)
  <2>1. "make cache" \in Neutral /\ "free cache" \in Neutral /\ "flush cache" \in Neutral
    BY NeutralSteps
  <2> QED BY <2>1, NeutralTuples DEF When
<1>9. /\ Vllm063Generate = make \o gen \o free /\ SglangGenerate = gen \o flush
  BY DEF Vllm063Generate, SglangGenerate
<1> HIDE DEF make, free, flush, gen
<1>10. \A w \in {make, free, flush} : \A f \in Forms : w \in Seq(Steps) /\ Brings(k, c, Do(m, w), f, f)
  BY <1>0, <1>8, NeutralBrings
<1>11. gen \in Seq(Steps) /\ Brings(k, c, Do(m, gen), p, q) BY <1>7 DEF gen
<1>12. SglangGenerate \in Seq(Steps) /\ Brings(k, c, Do(m, SglangGenerate), p, q)
  <2>1. gen \o flush \in Seq(Steps) BY <1>1, <1>10, <1>11
  <2>2. Brings(k, c, Do(m, gen \o flush), p, q) BY <1>1, <1>10, <1>11, DoBrings
  <2> QED BY <1>9, <2>1, <2>2
<1>13. Vllm063Generate \in Seq(Steps) /\ Brings(k, c, Do(m, Vllm063Generate), p, q)
  <2>1. make \o gen \in Seq(Steps) BY <1>1, <1>10, <1>11
  <2>2. Brings(k, c, Do(m, make \o gen), p, q) BY <1>1, <1>10, <1>11, DoBrings
  <2> DEFINE mg == make \o gen
  <2> HIDE DEF mg
  <2>3. mg \in Seq(Steps) /\ Brings(k, c, Do(m, mg), p, q) BY <2>1, <2>2 DEF mg
  <2>4. mg \o free \in Seq(Steps) BY <1>1, <1>10, <2>3
  <2>5. Brings(k, c, Do(m, mg \o free), p, q) BY <1>1, <1>10, <2>3, DoBrings
  <2> QED BY <1>9, <2>4, <2>5 DEF mg
<1> QED BY <1>6, <1>7, <1>12, <1>13 DEF Generate, p, q, m

LEMMA AroundBrings ==
  ASSUME NEW k \in Settings, config = k, NEW c
  PROVE  /\ Preprocess \in Seq(Steps) /\ Postprocess \in Seq(Steps)
         /\ Brings(k, c, Do("actor", Preprocess), Held(1, "all", FALSE), Prompts(k, FALSE))
         /\ Brings(k, c, Do("actor", Postprocess), Prompts(k, TRUE), Held(1, "all", TRUE))
<1> DEFINE p == Held(1, "all", FALSE)
           q == Held(1, "all", TRUE)
           f == Prompts(k, FALSE)
           g == Prompts(k, TRUE)
           m == "actor"
<1>0. m \in ModelsOf(k) /\ (Megatron <=> Mega(k)) /\ (Mega(k) => k.engine # "hf") /\ (Mega(k) => k.engine # "sglang")
  BY DEF ModelsOf, Megatron, Mega
<1>1. p \in Forms /\ q \in Forms /\ f \in Forms /\ g \in Forms BY PromptsAreForms, HeldIsForm
<1>2. {"gather prompts", "take micro rows", "join micro rows", "copy responses", "keep own responses"}
        \subseteq Steps
  BY DEF Steps, MemorySteps
<1>3. \A a \in Steps : <<a>> \in Seq(Steps) OBVIOUS
<1>4. CASE k.engine = "hf"
  <2>1. Preprocess = <<>> /\ Postprocess = <<>> BY <1>0, <1>4 DEF Preprocess, Postprocess
  <2>2. f = p /\ g = q BY <1>0, <1>4 DEF Prompts
  <2>3. Do(m, <<>>) = <<>> BY DEF Do
  <2>4. <<>> \in Seq(Steps) OBVIOUS
  <2> HIDE DEF p, q, f, g, m
  <2> QED BY <1>1, <2>1, <2>2, <2>3, <2>4, NothingBrings DEF p, q, f, g, m
<1>5. CASE Mega(k)
  <2>1. Preprocess = <<"take micro rows">> /\ Postprocess = <<"join micro rows">>
    BY <1>0, <1>5 DEF Preprocess, Postprocess
  <2>2. /\ FormStep(k, c, [do |-> "take micro rows", of |-> m], p, f)
        /\ FormStep(k, c, [do |-> "join micro rows", of |-> m], g, q)
    BY <1>0, <1>5 DEF FormStep, MegatronFormStep, Prompts
  <2> HIDE DEF p, q, f, g, m
  <2> QED BY <1>0, <1>1, <1>2, <1>3, <2>1, <2>2, StepBrings DEF p, q, f, g, m
<1>6. CASE ~Mega(k) /\ k.engine # "hf"
  <2>1. /\ Preprocess = <<"gather prompts">>
        /\ Postprocess = IF k.engine = "sglang" THEN <<"copy responses", "keep own responses">>
                         ELSE <<"keep own responses">>
    BY <1>0, <1>6 DEF Preprocess, Postprocess
  <2>2. /\ FormStep(k, c, [do |-> "gather prompts", of |-> m], p, f)
        /\ FormStep(k, c, [do |-> "copy responses", of |-> m], g, g)
        /\ FormStep(k, c, [do |-> "keep own responses", of |-> m], g, q)
    BY <1>6 DEF FormStep, FsdpFormStep, Prompts
  <2> HIDE DEF p, q, f, g, m
  <2>3. /\ Brings(k, c, Do(m, <<"gather prompts">>), p, f)
        /\ Brings(k, c, Do(m, <<"copy responses">>), g, g)
        /\ Brings(k, c, Do(m, <<"keep own responses">>), g, q)
    BY <1>0, <1>1, <1>2, <2>2, StepBrings
  <2>4. /\ <<"copy responses", "keep own responses">> \in Seq(Steps)
        /\ <<"copy responses", "keep own responses">> = <<"copy responses">> \o <<"keep own responses">>
    BY <1>2, Tuples
  <2>5. Brings(k, c, Do(m, <<"copy responses", "keep own responses">>), g, q)
    BY <1>2, <1>3, <2>3, <2>4, DoBrings
  <2> QED BY <1>2, <1>3, <2>1, <2>3, <2>4, <2>5 DEF p, q, f, g, m
<1> QED BY <1>4, <1>5, <1>6

LEMMA SequencesBring ==
  ASSUME NEW k \in Settings, config = k, NEW c, c.method = "generate_sequences"
  PROVE  Brings(k, c, generate_sequences, Held(1, "all", FALSE), Held(1, "all", TRUE))
<1> DEFINE p == Held(1, "all", FALSE)
           q == Held(1, "all", TRUE)
           f == Prompts(k, FALSE)
           g == Prompts(k, TRUE)
           m == "actor"
           in == Enter
           gen == Generate
           pre == Preprocess
           post == Postprocess
           out == Exit
<1>0. m \in ModelsOf(k) BY DEF ModelsOf
<1>1. p \in Forms /\ q \in Forms BY HeldIsForm
<1>2. /\ gen \in Seq(Steps) /\ Brings(k, c, Do(m, gen), f, g) BY GenerateBrings
<1>3. /\ pre \in Seq(Steps) /\ post \in Seq(Steps)
      /\ Brings(k, c, Do(m, pre), p, f) /\ Brings(k, c, Do(m, post), g, q)
  BY AroundBrings
<1>4. in \in Seq(Neutral) /\ out \in Seq(Neutral) BY EnterIsNeutral
<1>5. generate_sequences = LoadParams(m) \o Do(m, in) \o OffloadAll(m)
                           \o Do(m, pre \o gen \o post \o out)
  BY DEF generate_sequences
<1> HIDE DEF p, q, f, g, m, in, gen, pre, post, out
<1>6. Brings(k, c, LoadParams(m), p, p) /\ Brings(k, c, OffloadAll(m), p, p) BY <1>0, <1>1, MovesBring
<1>7. Brings(k, c, Do(m, in), p, p) /\ Brings(k, c, Do(m, out), q, q) /\ out \in Seq(Steps)
  BY <1>0, <1>1, <1>4, NeutralBrings
<1> DEFINE pg == pre \o gen
           pgp == pg \o post
<1>8. pg \in Seq(Steps) /\ Brings(k, c, Do(m, pg), p, g) BY <1>2, <1>3, DoBrings
<1> HIDE DEF pg
<1>9. pgp \in Seq(Steps) /\ Brings(k, c, Do(m, pgp), p, q) BY <1>3, <1>8, DoBrings
<1> HIDE DEF pgp
<1>10. Brings(k, c, Do(m, pgp \o out), p, q) BY <1>7, <1>9, DoBrings
<1>11. Brings(k, c, LoadParams(m) \o Do(m, in), p, p) BY <1>6, <1>7, BringsJoin
<1>12. Brings(k, c, LoadParams(m) \o Do(m, in) \o OffloadAll(m), p, p) BY <1>6, <1>11, BringsJoin
<1>13. Brings(k, c, LoadParams(m) \o Do(m, in) \o OffloadAll(m) \o Do(m, pgp \o out), p, q)
  BY <1>10, <1>12, BringsJoin
<1> QED BY <1>5, <1>13 DEF p, q, pg, pgp

\* Every call the trainer makes brings each rank from the prompts given to it to what the
\* call leaves behind.
LEMMA CallBrings ==
  ASSUME NEW k \in Settings, config = k, NEW c, NEW x, NEW y, Allowed(k, x, c, y)
  PROVE  Brings(k, c, Program(c), Held(1, "all", FALSE), Final(c))
<1> DEFINE p == Held(1, "all", FALSE)
           q == Held(1, "all", TRUE)
           z == Held(1, "none", FALSE)
<1>0. p \in Forms /\ q \in Forms /\ z \in Forms /\ "actor" \in ModelsOf(k)
  BY HeldIsForm DEF ModelsOf
<1>1. ASSUME NEW m \in ModelsOf(k), c.of = m
      PROVE  Brings(k, c, LoadAll(m) \o InSequenceGroup(m, <<"update">>) \o OffloadAll(m), p, z)
  <2>1. /\ Brings(k, c, LoadAll(m), p, p) /\ Brings(k, c, OffloadAll(m), z, z)
        /\ Brings(k, c, InSequenceGroup(m, <<"update">>), p, z)
    BY <1>0, <1>1, MovesBring, UpdateBrings
  <2> HIDE DEF p, q, z
  <2> QED BY <2>1, BringsJoin
<1>2. ASSUME NEW m \in ModelsOf(k), c.of = m, c.method # "generate_sequences"
      PROVE  /\ Brings(k, c, LoadParams(m) \o InSequenceGroup(m, <<"forward">>), p, q)
             /\ Brings(k, c, InSequenceGroup(m, <<"forward">>)
                               \o When(~Megatron, Do(m, <<"reshard">>)), p, q)
             /\ Brings(k, c, LoadParams(m) \o InSequenceGroup(m, <<"forward">>) \o OffloadParams(m), p, q)
             /\ Brings(k, c, LoadParams(m) \o InSequenceGroup(m, <<"forward">>)
                               \o Reshard(m) \o OffloadParams(m), p, q)
  <2>1. /\ Brings(k, c, LoadParams(m), p, p) /\ Brings(k, c, OffloadParams(m), q, q)
        /\ Brings(k, c, Reshard(m), q, q)
        /\ Brings(k, c, When(~Megatron, Do(m, <<"reshard">>)), q, q)
        /\ Brings(k, c, InSequenceGroup(m, <<"forward">>), p, q)
    BY <1>0, <1>2, MovesBring, ForwardBrings
  <2> HIDE DEF p, q, z
  <2>2. Brings(k, c, LoadParams(m) \o InSequenceGroup(m, <<"forward">>), p, q) BY <2>1, BringsJoin
  <2>3. Brings(k, c, LoadParams(m) \o InSequenceGroup(m, <<"forward">>) \o Reshard(m), p, q)
    BY <2>1, <2>2, BringsJoin
  <2> QED BY <2>1, <2>2, <2>3, BringsJoin
<1>3. ASSUME NEW m \in ModelsOf(k)
      PROVE  Brings(k, c, save_checkpoint(m), p, p) /\ Brings(k, c, load_checkpoint(m), p, p)
  <2>1. /\ Brings(k, c, LoadParams(m), p, p) /\ Brings(k, c, OffloadParams(m), p, p)
        /\ Brings(k, c, OffloadAll(m), p, p)
    BY <1>0, MovesBring
  <2>2. Brings(k, c, Do(m, <<"save">>), p, p) /\ Brings(k, c, Do(m, <<"restore">>), p, p)
    BY <1>0, NeutralSteps, NeutralStep
  <2> HIDE DEF p, q, z
  <2>3. /\ Brings(k, c, LoadParams(m) \o Do(m, <<"save">>), p, p)
        /\ Brings(k, c, LoadParams(m) \o Do(m, <<"restore">>), p, p)
    BY <2>1, <2>2, BringsJoin
  <2> QED BY <2>1, <2>3, BringsJoin DEF save_checkpoint, load_checkpoint
<1>4. /\ c.method \in {"update_actor", "update_critic"} => Final(c) = z
      /\ c.method \in {"save_checkpoint", "load_checkpoint"} => Final(c) = p
      /\ c.method \in {"compute_log_prob", "compute_ref_log_prob", "compute_rm_score",
                       "compute_values", "generate_sequences"} => Final(c) = q
  BY DEF Final, None
<1> HIDE DEF p, q, z
<1>5. ASSUME NEW m, NEW a
      PROVE  Call(m, a).of = m /\ Call(m, a).method = a /\ Sample(a).method = "generate_sequences"
  BY DEF Call, Sample
<1>6. CASE c = Call("actor", "update_actor")
  <2>1. c.of = "actor" /\ c.method = "update_actor" BY <1>5, <1>6
  <2>2. Program(c) = update_actor BY <2>1 DEF Program
  <2> QED BY <1>0, <1>1, <1>4, <2>1, <2>2 DEF update_actor, p
<1>7. CASE "critic" \in ModelsOf(k) /\ c = Call("critic", "update_critic")
  <2>1. c.of = "critic" /\ c.method = "update_critic" BY <1>5, <1>7
  <2>2. Program(c) = update_critic BY <2>1 DEF Program
  <2> QED BY <1>1, <1>4, <1>7, <2>1, <2>2 DEF update_critic, p
<1>8. CASE c = Call("actor", "compute_log_prob")
  <2>1. c.of = "actor" /\ c.method = "compute_log_prob" BY <1>5, <1>8
  <2>2. Program(c) = compute_log_prob BY <2>1 DEF Program
  <2> QED BY <1>0, <1>2, <1>4, <2>1, <2>2 DEF compute_log_prob, p
<1>9. CASE "ref" \in ModelsOf(k) /\ c = Call("ref", "compute_ref_log_prob")
  <2>1. c.of = "ref" /\ c.method = "compute_ref_log_prob" BY <1>5, <1>9
  <2>2. Program(c) = compute_ref_log_prob BY <2>1 DEF Program
  <2> QED BY <1>2, <1>4, <1>9, <2>1, <2>2 DEF compute_ref_log_prob, p
<1>10. CASE "rm" \in ModelsOf(k) /\ c = Call("rm", "compute_rm_score")
  <2>1. c.of = "rm" /\ c.method = "compute_rm_score" BY <1>5, <1>10
  <2>2. Program(c) = compute_rm_score BY <2>1 DEF Program
  <2> QED BY <1>2, <1>4, <1>10, <2>1, <2>2 DEF compute_rm_score, p
<1>11. CASE "critic" \in ModelsOf(k) /\ c = Call("critic", "compute_values")
  <2>1. c.of = "critic" /\ c.method = "compute_values" BY <1>5, <1>11
  <2>2. Program(c) = compute_values BY <2>1 DEF Program
  <2> QED BY <1>2, <1>4, <1>11, <2>1, <2>2 DEF compute_values, p
<1>12. ASSUME NEW m \in ModelsOf(k), c = Call(m, "save_checkpoint") \/ c = Call(m, "load_checkpoint")
       PROVE  Brings(k, c, Program(c), p, Final(c))
  <2>1. c.of = m /\ c.method \in {"save_checkpoint", "load_checkpoint"} BY <1>5, <1>12
  <2>2. Program(c) = IF c.method = "save_checkpoint" THEN save_checkpoint(m) ELSE load_checkpoint(m)
    BY <2>1 DEF Program
  <2> QED BY <1>3, <1>4, <2>1, <2>2
<1>13. CASE c \in {Sample("rollout"), Sample("greedy"), Sample(k.val)}
  <2>1. c.method = "generate_sequences" BY <1>5, <1>13
  <2>2. Program(c) = generate_sequences BY <2>1 DEF Program
  <2>3. Brings(k, c, generate_sequences, p, q) BY <2>1, SequencesBring DEF p, q
  <2> QED BY <1>4, <2>1, <2>2, <2>3 DEF p
<1>14. \/ c = Call("actor", "update_actor") \/ c = Call("actor", "compute_log_prob")
       \/ "ref" \in ModelsOf(k) /\ c = Call("ref", "compute_ref_log_prob")
       \/ "rm" \in ModelsOf(k) /\ c = Call("rm", "compute_rm_score")
       \/ \E m \in ModelsOf(k) : c = Call(m, "save_checkpoint") \/ c = Call(m, "load_checkpoint")
       \/ c \in {Sample("rollout"), Sample("greedy"), Sample(k.val)}
       \/ "critic" \in ModelsOf(k) /\ c = Call("critic", "compute_values")
       \/ "critic" \in ModelsOf(k) /\ c = Call("critic", "update_critic")
  BY <1>0 DEF Allowed, AnyTime
<1> QED BY <1>6, <1>7, <1>8, <1>9, <1>10, <1>11, <1>12, <1>13, <1>14 DEF p

---------------------------------------------------------------------------
(* The rows of all ranks                                                     *)

\* Each rank has its rows in some form, and what is left of the call brings them from
\* there to what the call leaves behind.
Fits(F) ==
  /\ F \in [Ranks -> Forms]
  /\ \A r \in Ranks : /\ rows[r] = Shape(config, call, F[r], r)
                      /\ Brings(config, call, todo[r], F[r], Final(call))

RowsInv == rows = [r \in Ranks |-> rows[r]] /\ \E F : Fits(F)

\* A step of some ranks that gives their rows the form the step leads to.
RowsGo(F, Q) ==
  /\ Q \subseteq Ranks /\ (\A q \in Q : todo[q] # <<>>)
  /\ Pass(Q) /\ UNCHANGED Driver
  /\ rows' = [r \in Ranks |-> rows'[r]]
  /\ \A r \in Ranks : r \notin Q => rows'[r] = rows[r]
  /\ \A q \in Q : \A g \in Forms : FormStep(config, call, Head(todo[q]), F[q], g) =>
                                    rows'[q] = Shape(config, call, g, q)

LEMMA NextForm ==
  ASSUME NEW F, Fits(F), NEW r \in Ranks, todo[r] # <<>>
  PROVE  /\ Head(todo[r]) \in Ops(config)
         /\ \E g \in Forms : /\ FormStep(config, call, Head(todo[r]), F[r], g)
                             /\ Brings(config, call, Tail(todo[r]), g, Final(call))
<1> DEFINE s == todo[r]
           f == F[r]
           o == Head(s)
<1>1. Chain(Forms, Ops(config), FormRules(config, call), s, f, Final(call)) BY DEF Fits, Brings
<1> HIDE DEF s, f
<1>2. s # <<>> BY DEF s
<1>3. PICK g \in Forms :
        /\ [pre |-> f, op |-> o, post |-> g] \in FormRules(config, call)
        /\ Chain(Forms, Ops(config), FormRules(config, call), Tail(s), g, Final(call))
  BY <1>1, <1>2, ChainNext
<1> DEFINE t == [pre |-> f, op |-> o, post |-> g]
<1>4. FormStep(config, call, t.op, t.pre, t.post) BY <1>3 DEF FormRules
<1>5. FormStep(config, call, o, f, g) BY <1>4
<1>6. o \in Ops(config)
  <2>1. s \in Seq(Ops(config)) BY <1>1 DEF Chain
  <2> QED BY <1>2, <2>1
<1> QED BY <1>3, <1>5, <1>6 DEF Brings, s, f

LEMMA GoKeeps == ASSUME NEW F, Fits(F), NEW Q, RowsGo(F, Q) PROVE RowsInv'
<1> DEFINE ok(q, g) == /\ FormStep(config, call, Head(todo[q]), F[q], g)
                       /\ Brings(config, call, Tail(todo[q]), g, Final(call))
           G == [r \in Ranks |-> IF r \in Q THEN CHOOSE g \in Forms : ok(r, g) ELSE F[r]]
<1>1. /\ config' = config /\ call' = call /\ Ranks' = Ranks
      /\ todo' = [r \in Ranks |-> IF r \in Q THEN Tail(todo[r]) ELSE todo[r]]
      /\ rows' = [r \in Ranks |-> rows'[r]] /\ Q \subseteq Ranks
  BY DEF RowsGo, Driver, Ranks, Pass
<1>2. ASSUME NEW q \in Q PROVE G[q] \in Forms /\ ok(q, G[q])
  <2>1. \E g \in Forms : ok(q, g) BY <1>1, NextForm DEF RowsGo
  <2>2. G[q] = CHOOSE g \in Forms : ok(q, g) BY <1>1
  <2> HIDE DEF ok, G
  <2> QED BY <2>1, <2>2
<1>3. \A r \in Ranks : r \notin Q => G[r] = F[r] OBVIOUS
<1> DEFINE shape(g, q) == Shape(config, call, g, q)
           final == Final(call)
           brings(s, g) == Brings(config, call, s, g, final)
<1>4. G \in [Ranks -> Forms]
  <2>1. F \in [Ranks -> Forms] BY DEF Fits
  <2>2. \A r \in Ranks : G[r] \in Forms BY <1>2, <1>3, <2>1
  <2>3. G = [r \in Ranks |-> G[r]] OBVIOUS
  <2> HIDE DEF G
  <2> QED BY <2>2, <2>3
<1>5. ASSUME NEW r \in Ranks PROVE rows'[r] = shape(G[r], r) /\ brings(todo'[r], G[r])
  <2>1. CASE r \in Q
    <3>1. rows'[r] = Shape(config, call, G[r], r)
      <4>1. FormStep(config, call, Head(todo[r]), F[r], G[r]) /\ G[r] \in Forms BY <1>2, <2>1
      <4> HIDE DEF G
      <4> QED BY <2>1, <4>1 DEF RowsGo
    <3>2. todo'[r] = Tail(todo[r]) BY <1>1, <2>1
    <3>3. Brings(config, call, Tail(todo[r]), G[r], Final(call)) BY <1>2, <2>1
    <3> HIDE DEF G
    <3> QED BY <3>1, <3>2, <3>3
  <2>2. CASE r \notin Q
    <3>1. rows'[r] = rows[r] /\ todo'[r] = todo[r] /\ G[r] = F[r]
      BY <1>1, <1>3, <2>2 DEF RowsGo
    <3> HIDE DEF G
    <3> QED BY <3>1 DEF Fits
  <2> QED BY <2>1, <2>2
<1> HIDE DEF G
<1>6. PICK H \in [Ranks -> Forms] : \A r \in Ranks : rows'[r] = shape(H[r], r) /\ brings(todo'[r], H[r])
  BY <1>4, <1>5
<1>7. Fits(H)' BY <1>1, <1>6 DEF Fits
<1> QED BY <1>1, <1>7 DEF RowsInv

\* The forms before and after each step.
LEMMA NeutralForm ==
  ASSUME NEW k, NEW c, NEW o, NEW f, NEW g, FormStep(k, c, o, f, g), o.do \in Neutral
  PROVE  g = f
<1>1. o.do \notin Changing BY DEF Neutral
<1> QED BY <1>1 DEF Changing, FormStep, MegatronFormStep, FsdpFormStep

LEMMA ChangingForm ==
  ASSUME NEW k, NEW c, NEW o, NEW f, NEW g, FormStep(k, c, o, f, g), o.do \in Changing
  PROVE  \/ o.do = "update" /\ g = Held(1, "none", FALSE)
         \/ /\ o.do = "forward" /\ c.method # "generate_sequences"
            /\ f = Held(SpOf(k, o.of), "all", FALSE) /\ g = Held(SpOf(k, o.of), "all", TRUE)
         \/ /\ o.do = "generate" /\ c.method = "generate_sequences"
            /\ f = Prompts(k, FALSE) /\ g = Prompts(k, TRUE)
         \/ Mega(k) /\ MegatronFormStep(k, o, f, g)
         \/ ~Mega(k) /\ FsdpFormStep(k, c, o, f, g)
BY DEF Neutral, FormStep

OwnForms(n, f, g) == f = Held(n, "all", TRUE) /\ g = Held(1, "all", TRUE)
NoForms(f, g) == f = Held(1, "none", FALSE) /\ g = f
CopiedForms(n, f, g) == f = Held(n, "all", TRUE) /\ g = f

LEMMA OwnRowsForm ==
  ASSUME NEW k, NEW c, NEW o, NEW f, NEW g, FormStep(k, c, o, f, g), o.do = "keep own rows"
  PROVE  ~Mega(k) /\ (OwnForms(SpOf(k, o.of), f, g) \/ NoForms(f, g))
<1>1. o.do \in Changing BY DEF Changing
<1>2. ~Mega(k) /\ FsdpFormStep(k, c, o, f, g) BY <1>1, ChangingForm DEF MegatronFormStep
<1> QED BY <1>2 DEF FsdpFormStep, OwnForms, NoForms

LEMMA OwnResponsesForm ==
  ASSUME NEW k, NEW c, NEW o, NEW f, NEW g, FormStep(k, c, o, f, g), o.do = "keep own responses"
  PROVE  ~Mega(k) /\ OwnForms(k.tp, f, g)
<1>1. o.do \in Changing BY DEF Changing
<1>2. ~Mega(k) /\ FsdpFormStep(k, c, o, f, g) BY <1>1, ChangingForm DEF MegatronFormStep
<1> QED BY <1>2 DEF FsdpFormStep, OwnForms

LEMMA CopiedForm ==
  ASSUME NEW k, NEW c, NEW o, NEW f, NEW g, FormStep(k, c, o, f, g), o.do = "copy responses"
  PROVE  ~Mega(k) /\ CopiedForms(k.tp, f, g)
<1>1. o.do \in Changing BY DEF Changing
<1>2. ~Mega(k) /\ FsdpFormStep(k, c, o, f, g) BY <1>1, ChangingForm DEF MegatronFormStep
<1> QED BY <1>2 DEF FsdpFormStep, CopiedForms

\* Steps that leave the rows alone.
NeutralGoes(Q) ==
  /\ Q \subseteq Ranks /\ \A q \in Q : todo[q] # <<>> /\ Head(todo[q]).do \in Neutral
  /\ Pass(Q) /\ UNCHANGED Driver /\ rows' = rows

LEMMA NeutralGo ==
  ASSUME RowsInv, NEW F, Fits(F), NEW Q, NeutralGoes(Q)
  PROVE  RowsGo(F, Q)
<1>1. /\ Q \subseteq Ranks /\ \A q \in Q : todo[q] # <<>> /\ Head(todo[q]).do \in Neutral
      /\ Pass(Q) /\ UNCHANGED Driver /\ rows' = rows
  BY DEF NeutralGoes
<1>2. ASSUME NEW q \in Q, NEW g \in Forms, FormStep(config, call, Head(todo[q]), F[q], g)
      PROVE  rows'[q] = Shape(config, call, g, q)
  <2>1. g = F[q] BY <1>1, <1>2, NeutralForm
  <2> QED BY <1>1, <2>1 DEF Fits
<1>3. rows' = [r \in Ranks |-> rows'[r]] BY <1>1 DEF RowsInv
<1> QED BY <1>1, <1>2, <1>3 DEF RowsGo

LEMMA NeutralTogether ==
  ASSUME Save \/ Restore \/ SyncWeights
  PROVE  NeutralGoes(Ranks)
<1>1. "save" \in Neutral /\ "restore" \in Neutral /\ "sync" \in Neutral BY NeutralSteps
<1>2. CASE Save BY <1>1, <1>2 DEF Save, Everywhere, At, NeutralGoes
<1>3. CASE Restore BY <1>1, <1>3 DEF Restore, Everywhere, At, NeutralGoes
<1>4. CASE SyncWeights BY <1>1, <1>4 DEF SyncWeights, Everywhere, At, NeutralGoes
<1> QED BY <1>2, <1>3, <1>4

LEMMA NeutralAlone ==
  ASSUME NEW r \in Ranks,
         \/ ParamsToGpu(r) \/ ParamsToCpu(r) \/ LoadOptimizer(r) \/ OffloadOptimizer(r) \/ Unshard(r)
         \/ EnterSequenceGroup(r) \/ LeaveSequenceGroup(r)
         \/ StateDict(r) \/ WakeWeights(r) \/ WakeCache(r) \/ Sleep(r) \/ DropCache(r)
         \/ SetSampling(r) \/ RollBackSampling(r) \/ SwapIn(r) \/ SwapOut(r)
  PROVE  NeutralGoes({r})
<1> DEFINE goes(a) == At(r, a) /\ Pass({r}) /\ UNCHANGED Driver /\ rows' = rows
<1>1. ASSUME NEW a \in Neutral, goes(a) PROVE NeutralGoes({r})
  BY <1>1 DEF At, NeutralGoes
<1>2. \A field, where : Put(r, field, where) => Pass({r}) /\ UNCHANGED Driver /\ rows' = rows
  BY DEF Put
<1>3. \A e : Set(r, e) => Pass({r}) /\ UNCHANGED Driver /\ rows' = rows
  BY DEF Set
<1>4. \E a \in {"load params", "offload params", "load optimizer", "offload optimizer", "reshard",
                "enter sequence group", "leave sequence group", "state dict", "wake weights", "wake cache",
                "make cache", "sleep", "free cache", "flush cache", "set sampling", "roll back sampling",
                "swap in", "swap out"} : goes(a)
  <2>1. ParamsToGpu(r) => goes("load params") BY <1>2 DEF ParamsToGpu
  <2>2. ParamsToCpu(r) => goes("offload params") BY <1>2 DEF ParamsToCpu
  <2>3. LoadOptimizer(r) => goes("load optimizer") BY <1>2 DEF LoadOptimizer, MoveOptimizer
  <2>4. OffloadOptimizer(r) => goes("offload optimizer") BY <1>2 DEF OffloadOptimizer, MoveOptimizer
  <2>5. Unshard(r) => goes("reshard") BY <1>2 DEF Unshard
  <2>6. EnterSequenceGroup(r) => goes("enter sequence group") BY DEF EnterSequenceGroup
  <2>7. LeaveSequenceGroup(r) => goes("leave sequence group") BY DEF LeaveSequenceGroup
  <2>8. StateDict(r) => goes("state dict") BY <1>3 DEF StateDict
  <2>9. WakeWeights(r) => goes("wake weights") BY <1>3 DEF WakeWeights, Wake
  <2>10. WakeCache(r) => goes("wake cache") \/ goes("make cache") BY <1>3 DEF WakeCache, Wake
  <2>11. Sleep(r) => goes("sleep") BY <1>3 DEF Sleep
  <2>12. DropCache(r) => goes("free cache") \/ goes("flush cache") BY <1>3 DEF DropCache
  <2>13. SetSampling(r) => goes("set sampling") BY <1>3 DEF SetSampling
  <2>14. RollBackSampling(r) => goes("roll back sampling") BY <1>3 DEF RollBackSampling
  <2>15. SwapIn(r) => goes("swap in") BY DEF SwapIn, Swap
  <2>16. SwapOut(r) => goes("swap out") BY DEF SwapOut, Swap
  <2> HIDE DEF goes
  <2> QED BY <2>1, <2>2, <2>3, <2>4, <2>5, <2>6, <2>7, <2>8, <2>9, <2>10, <2>11, <2>12, <2>13,
             <2>14, <2>15, <2>16
<1> HIDE DEF goes
<1>5. PICK a \in Neutral : goes(a) BY <1>4, NeutralSteps
<1> QED BY <1>1, <1>5

\* Computing, on all ranks.
LEMMA ForwardGo == ASSUME config \in Settings, NEW F, Fits(F), Forward PROVE RowsGo(F, Ranks)
<1> DEFINE k == config
           o(r) == Head(todo[r])
<1>1. /\ \A r \in Ranks : todo[r] # <<>> /\ o(r).do = "forward"
      /\ Pass(Ranks) /\ UNCHANGED Driver /\ rows' = [r \in Ranks |-> Done(r)]
  BY DEF Forward, Everywhere, At
<1>2. ASSUME NEW r \in Ranks, NEW g \in Forms, FormStep(k, call, o(r), F[r], g)
      PROVE  rows'[r] = Shape(k, call, g, r)
  <2> DEFINE n == SpOf(k, o(r).of)
  <2>1. o(r) \in Ops(k) BY <1>1, NextForm
  <2>2. n \in Nat \ {0} BY <2>1, Numbers DEF Ops
  <2>3. "forward" \in Changing /\ o(r).do = "forward" BY <1>1 DEF Changing
  <2>4. /\ call.method # "generate_sequences"
        /\ F[r] = Held(n, "all", FALSE) /\ g = Held(n, "all", TRUE)
    BY <1>2, <2>3, ChangingForm DEF MegatronFormStep, FsdpFormStep
  <2> HIDE DEF n, o
  <2>5. rows[r] = Shape(k, call, Held(n, "all", FALSE), r) BY <2>4 DEF Fits
  <2>6. Done(r) = Shape(k, call, Held(n, "all", TRUE), r) BY <2>2, <2>4, <2>5, DoneShape
  <2> QED BY <1>1, <2>4, <2>6
<1>3. rows' = [r \in Ranks |-> rows'[r]] BY <1>1
<1> QED BY <1>1, <1>2, <1>3 DEF RowsGo

LEMMA UpdateGo == ASSUME config \in Settings, NEW F, Fits(F), Update PROVE RowsGo(F, Ranks)
<1> DEFINE k == config
           o(r) == Head(todo[r])
<1>1. /\ \A r \in Ranks : todo[r] # <<>> /\ o(r).do = "update"
      /\ Pass(Ranks) /\ UNCHANGED Driver /\ rows' = [r \in Ranks |-> <<>>]
  BY DEF Update, Everywhere, At
<1>2. ASSUME NEW r \in Ranks, NEW g \in Forms, FormStep(k, call, o(r), F[r], g)
      PROVE  rows'[r] = Shape(k, call, g, r)
  <2>1. "update" \in Changing /\ o(r).do = "update" BY <1>1 DEF Changing
  <2>2. g = Held(1, "none", FALSE)
    BY <1>2, <2>1, ChangingForm DEF MegatronFormStep, FsdpFormStep
  <2> QED BY <1>1, <2>2, NoShape
<1>3. rows' = [r \in Ranks |-> rows'[r]] BY <1>1
<1> QED BY <1>1, <1>2, <1>3 DEF RowsGo

\* Groups of consecutive ranks are the same for all of their ranks.
LEMMA SameGroup ==
  ASSUME NEW n, NEW r \in Ranks, NEW q \in Consecutive(n, r)
  PROVE  q \in Ranks /\ r \in Consecutive(n, r) /\ Consecutive(n, q) = Consecutive(n, r)
BY DEF Consecutive

\* Rows gathered over a group: before it each of its ranks has rows of the form the step
\* starts with, and so what it has gathered is what the step leads to.
LEMMA GatherGo ==
  ASSUME config \in Settings, NEW F, Fits(F), NEW n, NEW r \in Ranks, NEW what,
         GatherIn(Consecutive(n, r), what),
         \A q \in Consecutive(n, r) : \A g \in Forms :
           FormStep(config, call, Head(todo[q]), F[q], g) =>
             Gathered(Consecutive(n, q)) = Shape(config, call, g, q)
  PROVE  RowsGo(F, Consecutive(n, r))
<1> DEFINE Q == Consecutive(n, r)
<1>1. /\ \A q \in Q : todo[q] # <<>>
      /\ Pass(Q) /\ UNCHANGED Driver
      /\ rows' = [q \in Ranks |-> IF q \in Q THEN Gathered(Q) ELSE rows[q]]
  BY DEF GatherIn, At
<1>2. ASSUME NEW q \in Q, NEW g \in Forms, FormStep(config, call, Head(todo[q]), F[q], g)
      PROVE  rows'[q] = Shape(config, call, g, q)
  <2>1. q \in Ranks /\ Consecutive(n, q) = Q BY SameGroup
  <2>2. Gathered(Consecutive(n, q)) = Shape(config, call, g, q) BY <1>2
  <2> QED BY <1>1, <2>1, <2>2
<1>3. Q \subseteq Ranks BY DEF Consecutive
<1> HIDE DEF Q
<1>4. /\ rows' = [q \in Ranks |-> rows'[q]] /\ \A q \in Ranks : q \notin Q => rows'[q] = rows[q]
  BY <1>1
<1>5. RowsGo(F, Q) BY <1>1, <1>2, <1>3, <1>4 DEF RowsGo
<1> QED BY <1>5 DEF Q

LEMMA GatherRowsGo ==
  ASSUME config \in Settings, NEW F, Fits(F), NEW r \in Ranks, Gather(r)
  PROVE  \E Q : RowsGo(F, Q)
<1> DEFINE k == config
           m == call.of
           n == SpOf(k, m)
           o(q) == Head(todo[q])
           Q == SpGroup(Model(r), r)
<1>1. todo[r] # <<>> /\ o(r).do = "gather" /\ GatherIn(Q, "gather") BY DEF Gather, At
<1>2. ASSUME NEW q \in Ranks, todo[q] # <<>>, o(q).do = "gather", NEW g \in Forms,
             FormStep(k, call, o(q), F[q], g)
      PROVE  ~Mega(k) /\ o(q).of = m /\ F[q] = Held(1, "all", FALSE) /\ g = Held(n, "all", FALSE)
  <2>1. "gather" \in Changing BY DEF Changing
  <2> QED BY <1>2, <2>1, ChangingForm DEF MegatronFormStep, FsdpFormStep
<1>3. ~Mega(k) /\ o(r).of = m /\ m \in ModelsOf(k)
  <2>1. PICK g \in Forms : FormStep(k, call, o(r), F[r], g) BY <1>1, NextForm
  <2>2. o(r) \in Ops(k) BY <1>1, NextForm
  <2>3. o(r).of \in ModelsOf(k) BY <2>2 DEF Ops
  <2> QED BY <1>1, <1>2, <2>1, <2>3
<1>4. n \in Nat \ {0} /\ Divides(n, k.world) BY <1>3, Numbers DEF Divides
<1>5. Q = Consecutive(n, r) BY <1>3, OfTheSetting DEF SpGroup, Model
<1> HIDE DEF n, Q
<1>6. \A q \in Q : q \in Ranks /\ todo[q] # <<>> /\ o(q).do = "gather" /\ Consecutive(n, q) = Q
  BY <1>1, <1>5, SameGroup DEF GatherIn, At
<1>7. ASSUME NEW q \in Q PROVE rows[q] = Shape(k, call, Held(1, "all", FALSE), q)
  <2>1. q \in Ranks /\ todo[q] # <<>> /\ o(q).do = "gather" BY <1>6
  <2>2. PICK g \in Forms : FormStep(k, call, o(q), F[q], g) BY <2>1, NextForm
  <2>3. F[q] = Held(1, "all", FALSE) BY <1>2, <2>1, <2>2
  <2> QED BY <2>1, <2>3 DEF Fits
<1>8. ASSUME NEW q \in Q, NEW g \in Forms, FormStep(k, call, o(q), F[q], g)
      PROVE  Gathered(Consecutive(n, q)) = Shape(k, call, g, q)
  <2>1. g = Held(n, "all", FALSE) BY <1>2, <1>6, <1>8
  <2>2. q \in Ranks /\ Ungathered(k, call, Consecutive(n, q)) BY <1>6, <1>7 DEF Ungathered
  <2>3. Gathered(Consecutive(n, q)) = Shape(k, call, Held(n, "all", FALSE), q)
    BY <1>3, <1>4, <2>2, GatherPlain
  <2> QED BY <2>1, <2>3
<1>9. RowsGo(F, Consecutive(n, r)) BY <1>1, <1>5, <1>8, GatherGo
<1> QED BY <1>9

LEMMA GatherPromptsGo ==
  ASSUME config \in Settings, NEW F, Fits(F), NEW r \in Ranks, GatherPrompts(r)
  PROVE  \E Q : RowsGo(F, Q)
<1> DEFINE k == config
           n == k.tp
           o(q) == Head(todo[q])
           Q == TpGroup(r)
<1>1. GatherIn(Q, "gather prompts") /\ Q = Consecutive(n, r) BY DEF GatherPrompts, TpGroup
<1>2. ASSUME NEW q \in Ranks, todo[q] # <<>>, o(q).do = "gather prompts", NEW g \in Forms,
             FormStep(k, call, o(q), F[q], g)
      PROVE  ~Mega(k) /\ F[q] = Held(1, "all", FALSE) /\ g = Held(n, "all", FALSE)
  <2>1. "gather prompts" \in Changing BY DEF Changing
  <2> QED BY <1>2, <2>1, ChangingForm DEF MegatronFormStep, FsdpFormStep
<1>3. n \in Nat \ {0} /\ Divides(n, k.world) BY Numbers DEF Divides
<1> HIDE DEF n, Q
<1>4. \A q \in Q : q \in Ranks /\ todo[q] # <<>> /\ o(q).do = "gather prompts" /\ Consecutive(n, q) = Q
  BY <1>1, SameGroup DEF GatherIn, At
<1>5. ASSUME NEW q \in Q PROVE ~Mega(k) /\ rows[q] = Shape(k, call, Held(1, "all", FALSE), q)
  <2>1. q \in Ranks /\ todo[q] # <<>> /\ o(q).do = "gather prompts" BY <1>4
  <2>2. PICK g \in Forms : FormStep(k, call, o(q), F[q], g) BY <2>1, NextForm
  <2>3. ~Mega(k) /\ F[q] = Held(1, "all", FALSE) BY <1>2, <2>1, <2>2
  <2> QED BY <2>1, <2>3 DEF Fits
<1>6. ASSUME NEW q \in Q, NEW g \in Forms, FormStep(k, call, o(q), F[q], g)
      PROVE  Gathered(Consecutive(n, q)) = Shape(k, call, g, q)
  <2>1. g = Held(n, "all", FALSE) /\ ~Mega(k) BY <1>2, <1>4, <1>6
  <2>2. q \in Ranks /\ Ungathered(k, call, Consecutive(n, q)) BY <1>4, <1>5 DEF Ungathered
  <2>3. Gathered(Consecutive(n, q)) = Shape(k, call, Held(n, "all", FALSE), q)
    BY <1>3, <2>1, <2>2, GatherPlain
  <2> QED BY <2>1, <2>3
<1>7. RowsGo(F, Consecutive(n, r)) BY <1>1, <1>6, GatherGo
<1> QED BY <1>7

LEMMA JoinMicroRowsGo ==
  ASSUME config \in Settings, NEW F, Fits(F), NEW r \in Ranks, JoinMicroRows(r)
  PROVE  \E Q : RowsGo(F, Q)
<1> DEFINE k == config
           n == MicroOf(k)
           o(q) == Head(todo[q])
           Q == MicroGroup(r)
<1>1. GatherIn(Q, "join micro rows") /\ Q = Consecutive(n, r)
  BY NamesOf DEF JoinMicroRows, MicroGroup
<1>2. ASSUME NEW q \in Ranks, todo[q] # <<>>, o(q).do = "join micro rows", NEW g \in Forms,
             FormStep(k, call, o(q), F[q], g)
      PROVE  Mega(k) /\ F[q] = Held(1, "part", TRUE) /\ g = Held(1, "all", TRUE)
  <2>1. "join micro rows" \in Changing BY DEF Changing
  <2> QED BY <1>2, <2>1, ChangingForm DEF MegatronFormStep, FsdpFormStep
<1> HIDE DEF Q
<1>4. \A q \in Q : q \in Ranks /\ todo[q] # <<>> /\ o(q).do = "join micro rows" /\ Consecutive(n, q) = Q
  <2> HIDE DEF n
  <2> QED BY <1>1, SameGroup DEF GatherIn, At
<1>5. ASSUME NEW q \in Q PROVE Mega(k) /\ rows[q] = Shape(k, call, Held(1, "part", TRUE), q)
  <2>1. q \in Ranks /\ todo[q] # <<>> /\ o(q).do = "join micro rows" BY <1>4
  <2>2. PICK g \in Forms : FormStep(k, call, o(q), F[q], g) BY <2>1, NextForm
  <2>3. Mega(k) /\ F[q] = Held(1, "part", TRUE) BY <1>2, <2>1, <2>2
  <2> QED BY <2>1, <2>3 DEF Fits
<1>6. ASSUME NEW q \in Q, NEW g \in Forms, FormStep(k, call, o(q), F[q], g)
      PROVE  Gathered(Consecutive(n, q)) = Shape(k, call, g, q)
  <2>1. g = Held(1, "all", TRUE) /\ Mega(k) BY <1>2, <1>4, <1>6
  <2>2. q \in Ranks /\ \A p \in Consecutive(n, q) : rows[p] = Shape(k, call, Held(1, "part", TRUE), p)
    BY <1>4, <1>5
  <2>3. Gathered(Consecutive(n, q)) = Shape(k, call, Held(1, "all", TRUE), q)
    BY <2>1, <2>2, JoinShape
  <2> QED BY <2>1, <2>3
<1> HIDE DEF n
<1>7. RowsGo(F, Consecutive(n, r)) BY <1>1, <1>6, GatherGo
<1> QED BY <1>7

\* A rank keeps its own part.
LEMMA KeepGo ==
  ASSUME config \in Settings, RowsInv, NEW F, Fits(F), NEW r \in Ranks, NEW x,
         todo[r] # <<>>, Pass({r}), UNCHANGED Driver, rows' = [rows EXCEPT ![r] = x],
         \A g \in Forms : FormStep(config, call, Head(todo[r]), F[r], g) => x = Shape(config, call, g, r)
  PROVE  \E Q : RowsGo(F, Q)
<1>1. rows = [q \in Ranks |-> rows[q]] BY DEF RowsInv
<1>2. rows' = [q \in Ranks |-> IF q = r THEN x ELSE rows[q]] BY <1>1
<1>3. /\ rows' = [q \in Ranks |-> rows'[q]] /\ rows'[r] = x
      /\ \A q \in Ranks : q \notin {r} => rows'[q] = rows[q]
  BY <1>2
<1>4. RowsGo(F, {r}) BY <1>3 DEF RowsGo
<1> QED BY <1>4

LEMMA KeepOwnRowsGo ==
  ASSUME config \in Settings, RowsInv, NEW F, Fits(F), NEW r \in Ranks, KeepOwnRows(r)
  PROVE  \E Q : RowsGo(F, Q)
<1> DEFINE k == config
           o == Head(todo[r])
           n == SpOf(k, o.of)
           x == Part(rows[r], n, r % n)
<1>1. /\ todo[r] # <<>> /\ o.do = "keep own rows"
      /\ Pass({r}) /\ UNCHANGED Driver /\ rows' = [rows EXCEPT ![r] = x]
  BY OfTheSetting DEF KeepOwnRows, KeepPart, At, Model
<1>2. o \in Ops(k) BY <1>1, NextForm
<1>3. n \in Nat \ {0} BY <1>2, Numbers DEF Ops
<1>4. rows[r] = Shape(k, call, F[r], r) BY DEF Fits
<1>5. ASSUME NEW g \in Forms, FormStep(k, call, o, F[r], g)
      PROVE  x = Shape(k, call, g, r)
  <2>1. o.do = "keep own rows" BY <1>1
  <2>2. /\ ~Mega(k)
        /\ \/ F[r] = Held(n, "all", TRUE) /\ g = Held(1, "all", TRUE)
           \/ F[r] = Held(1, "none", FALSE) /\ g = F[r]
    <3>1. ~Mega(k) /\ (OwnForms(n, F[r], g) \/ NoForms(F[r], g)) BY <1>5, <2>1, OwnRowsForm
    <3> QED BY <3>1 DEF OwnForms, NoForms
  <2> HIDE DEF n
  <2>3. CASE F[r] = Held(n, "all", TRUE) /\ g = Held(1, "all", TRUE)
    <3>1. Part(Shape(k, call, Held(n, "all", TRUE), r), n, r % n) = Shape(k, call, Held(1, "all", TRUE), r)
      BY <1>3, <2>2, KeepShape
    <3> QED BY <1>4, <2>3, <3>1
  <2>4. CASE F[r] = Held(1, "none", FALSE) /\ g = F[r]
    <3>1. rows[r] = <<>> /\ Shape(k, call, g, r) = <<>> BY <1>4, <2>4, NoShape
    <3>2. (r % n) \in Nat
      <4>1. r \in Nat BY Numbers DEF Ranks
      <4> QED BY <1>3, <4>1
    <3> QED BY <1>3, <3>1, <3>2, NoShape
  <2> QED BY <2>2, <2>3, <2>4
<1> HIDE DEF x
<1> QED BY <1>1, <1>5, KeepGo

LEMMA KeepOwnResponsesGo ==
  ASSUME config \in Settings, RowsInv, NEW F, Fits(F), NEW r \in Ranks, KeepOwnResponses(r)
  PROVE  \E Q : RowsGo(F, Q)
<1> DEFINE k == config
           o == Head(todo[r])
           n == k.tp
           x == Part(rows[r], n, r % n)
<1>1. /\ todo[r] # <<>> /\ o.do = "keep own responses"
      /\ Pass({r}) /\ UNCHANGED Driver /\ rows' = [rows EXCEPT ![r] = x]
  BY DEF KeepOwnResponses, KeepPart, At
<1>3. n \in Nat \ {0} BY Numbers
<1>4. rows[r] = Shape(k, call, F[r], r) BY DEF Fits
<1>5. ASSUME NEW g \in Forms, FormStep(k, call, o, F[r], g)
      PROVE  x = Shape(k, call, g, r)
  <2>1. o.do = "keep own responses" BY <1>1
  <2>2. ~Mega(k) /\ F[r] = Held(n, "all", TRUE) /\ g = Held(1, "all", TRUE)
    <3>1. ~Mega(k) /\ OwnForms(n, F[r], g) BY <1>5, <2>1, OwnResponsesForm
    <3> QED BY <3>1 DEF OwnForms
  <2> HIDE DEF n
  <2>3. Part(Shape(k, call, Held(n, "all", TRUE), r), n, r % n) = Shape(k, call, Held(1, "all", TRUE), r)
    BY <1>3, <2>2, KeepShape
  <2> QED BY <1>4, <2>2, <2>3
<1> HIDE DEF x
<1> QED BY <1>1, <1>5, KeepGo

LEMMA TakeMicroRowsGo ==
  ASSUME config \in Settings, RowsInv, NEW F, Fits(F), NEW r \in Ranks, TakeMicroRows(r)
  PROVE  \E Q : RowsGo(F, Q)
<1> DEFINE k == config
           o == Head(todo[r])
           n == MicroOf(k)
           x == Part(rows[r], n, r % n)
<1>1. /\ todo[r] # <<>> /\ o.do = "take micro rows"
      /\ Pass({r}) /\ UNCHANGED Driver /\ rows' = [rows EXCEPT ![r] = x]
  BY NamesOf DEF TakeMicroRows, KeepPart, At
<1>4. rows[r] = Shape(k, call, F[r], r) BY DEF Fits
<1>5. ASSUME NEW g \in Forms, FormStep(k, call, o, F[r], g)
      PROVE  x = Shape(k, call, g, r)
  <2>1. "take micro rows" \in Changing BY DEF Changing
  <2>2. Mega(k) /\ F[r] = Held(1, "all", FALSE) /\ g = Held(1, "part", FALSE)
    BY <1>1, <1>5, <2>1, ChangingForm DEF MegatronFormStep, FsdpFormStep
  <2> HIDE DEF n
  <2>3. PICK done \in BOOLEAN : done = FALSE OBVIOUS
  <2>4. Part(Shape(k, call, Held(1, "all", done), r), n, r % n) = Shape(k, call, Held(1, "part", done), r)
    BY <2>2, TakeShape DEF n
  <2> QED BY <1>4, <2>2, <2>3, <2>4
<1> HIDE DEF x
<1> QED BY <1>1, <1>5, KeepGo

\* The ranks of a group have the same responses.
LEMMA CopyResponsesGo ==
  ASSUME config \in Settings, NEW F, Fits(F), NEW r \in Ranks, CopyResponses(r)
  PROVE  \E Q : RowsGo(F, Q)
<1> DEFINE k == config
           n == k.tp
           b == (r \div n) * n
           o(q) == Head(todo[q])
           Q == TpGroup(r)
           f == Held(n, "all", TRUE)
<1>1. /\ \A q \in Q : todo[q] # <<>> /\ o(q).do = "copy responses"
      /\ Pass(Q) /\ UNCHANGED Driver /\ Q = Consecutive(n, r)
      /\ rows' = [q \in Ranks |-> IF q \in Q THEN rows[b] ELSE rows[q]]
  BY DEF CopyResponses, At, TpGroup
<1>2. n \in Nat \ {0} /\ Divides(n, k.world) BY Numbers DEF Divides
<1> HIDE DEF n
<1>3. b \in Ranks /\ b \div n = r \div n
  <2>1. IsGroup(n, r, n * (r \div n))
    <3>1. (k.world % n) = 0 BY <1>2 DEF Divides
    <3> QED BY <1>2, <3>1, GroupOfRanks
  <2> DEFINE d == r \div n
             a == n * d
  <2>2. d \in Nat
    <3>1. r \in Nat BY Numbers DEF Ranks
    <3> QED BY <1>2, <3>1
  <2>3. IsGroup(n, r, a) BY <2>1
  <2> HIDE DEF d
  <2>4. a = b /\ a \in Nat /\ a = n * d + 0 /\ 0 \in 0 .. n - 1
    <3>1. n * d = d * n /\ n * d \in Nat BY <1>2, <2>2
    <3>2. b = d * n BY DEF d
    <3> HIDE DEF b
    <3> QED BY <1>2, <3>1, <3>2
  <2> HIDE DEF b, a
  <2>5. a \in Ranks
    <3>1. \A i \in 1 .. n : a + (i - 1) \in Ranks BY <2>3 DEF IsGroup
    <3>2. 1 \in 1 .. n /\ a + (1 - 1) = a BY <1>2, <2>4
    <3> QED BY <3>1, <3>2
  <2>6. a \div n = d BY <1>2, <2>2, <2>4, QuotientAndRemainder
  <2> QED BY <2>4, <2>5, <2>6 DEF d
<1>4. Q \subseteq Ranks /\ b \in Q BY <1>1, <1>3 DEF Consecutive
<1>5. ASSUME NEW q \in Q, NEW g \in Forms, FormStep(k, call, o(q), F[q], g)
      PROVE  ~Mega(k) /\ F[q] = f /\ g = f
  <2>1. o(q).do = "copy responses" BY <1>1
  <2> HIDE DEF Q
  <2>2. ~Mega(k) /\ CopiedForms(n, F[q], g) BY <1>5, <2>1, CopiedForm DEF n
  <2> QED BY <2>2 DEF CopiedForms
<1>6. ~Mega(k) /\ rows[b] = Shape(k, call, f, b)
  <2>1. PICK g \in Forms : FormStep(k, call, o(b), F[b], g) BY <1>1, <1>4, NextForm
  <2>2. ~Mega(k) /\ F[b] = f BY <1>4, <1>5, <2>1
  <2> QED BY <1>4, <2>2 DEF Fits
<1>7. ASSUME NEW q \in Q PROVE Shape(k, call, f, q) = Shape(k, call, f, b)
  <2>1. q \div n = b \div n BY <1>1, <1>3 DEF Consecutive
  <2>2. HomeOf(k, q) = q /\ HomeOf(k, b) = b BY <1>6 DEF HomeOf
  <2>3. f.ranks = n /\ f.rows = "all" BY DEF Held
  <2> HIDE DEF f, b
  <2>4. FirstOf(k, f, q) = FirstOf(k, f, b) BY <2>1, <2>2, <2>3 DEF FirstOf
  <2> QED BY <2>4 DEF Shape
<1> HIDE DEF Q, f, b
<1>8. ASSUME NEW q \in Q, NEW g \in Forms, FormStep(k, call, o(q), F[q], g)
      PROVE  rows'[q] = Shape(k, call, g, q)
  <2>1. g = f BY <1>5, <1>8
  <2> QED BY <1>1, <1>4, <1>6, <1>7, <2>1
<1>9. /\ rows' = [q \in Ranks |-> rows'[q]]
      /\ \A q \in Ranks : q \notin Q => rows'[q] = rows[q]
  BY <1>1
<1>10. RowsGo(F, Q) BY <1>1, <1>4, <1>8, <1>9 DEF RowsGo
<1> QED BY <1>10

\* The ranks of a group answer the group's prompts.
LEMMA GenerateGo ==
  ASSUME config \in Settings, NEW F, Fits(F), NEW r \in Ranks, GenerateTogether(r)
  PROVE  \E Q : RowsGo(F, Q)
<1> DEFINE k == config
           o(q) == Head(todo[q])
           Q == TpGroup(r)
<1>1. /\ \A q \in Q : todo[q] # <<>> /\ o(q).do = "generate"
      /\ Pass(Q) /\ UNCHANGED Driver /\ Q \subseteq Ranks
      /\ rows' = [q \in Ranks |-> IF q \in Q THEN Answered(q) ELSE rows[q]]
  BY DEF GenerateTogether, At, TpGroup, Consecutive
<1> HIDE DEF Q
<1>2. ASSUME NEW q \in Q, NEW g \in Forms, FormStep(k, call, o(q), F[q], g)
      PROVE  rows'[q] = Shape(k, call, g, q)
  <2>1. "generate" \in Changing BY DEF Changing
  <2>2. call.method = "generate_sequences" /\ F[q] = Prompts(k, FALSE) /\ g = Prompts(k, TRUE)
    BY <1>1, <1>2, <2>1, ChangingForm DEF MegatronFormStep, FsdpFormStep
  <2>3. q \in Ranks /\ rows[q] = Shape(k, call, Prompts(k, FALSE), q) BY <1>1, <2>2 DEF Fits
  <2>4. k.tp \in Nat \ {0} BY Numbers
  <2>5. PICK n \in Nat \ {0}, which \in {"all", "part"} :
          Prompts(k, FALSE) = Held(n, which, FALSE) /\ Prompts(k, TRUE) = Held(n, which, TRUE)
    <3> DEFINE n == IF Mega(k) \/ k.engine = "hf" THEN 1 ELSE k.tp
               which == IF Mega(k) THEN "part" ELSE "all"
    <3>1. n \in Nat \ {0} /\ which \in {"all", "part"} BY <2>4
    <3>2. Prompts(k, FALSE) = Held(n, which, FALSE) /\ Prompts(k, TRUE) = Held(n, which, TRUE)
      BY DEF Prompts, Mega
    <3> HIDE DEF n, which
    <3> QED BY <3>1, <3>2
  <2>6. call.method = "generate_sequences" /\ rows[q] = Shape(k, call, Held(n, which, FALSE), q)
    BY <2>2, <2>3, <2>5
  <2> HIDE DEF o
  <2>7. Answered(q) = Shape(k, call, Held(n, which, TRUE), q) BY <2>3, <2>6, AnsweredShape
  <2> QED BY <1>1, <2>2, <2>3, <2>5, <2>7
<1>3. /\ rows' = [q \in Ranks |-> rows'[q]]
      /\ \A q \in Ranks : q \notin Q => rows'[q] = rows[q]
  BY <1>1
<1>4. RowsGo(F, Q) BY <1>1, <1>2, <1>3 DEF RowsGo
<1> QED BY <1>4

\* A new call: its prompts are there on every rank.
LEMMA DispatchRows == ASSUME IInv, Dispatch PROVE RowsInv'
<1> DEFINE k == config
           c == Head(schedule)
           p == Held(1, "all", FALSE)
           G == [r \in Ranks |-> p]
<1>1. k \in Settings BY DEF IInv, Typed
<1>2. /\ call' = c /\ todo' = [r \in Ranks |-> Program(c)]
      /\ rows' = [r \in Ranks |-> Dispatched(r)] /\ config' = k /\ Ranks' = Ranks
  BY DEF Dispatch, Ranks
<1>3. \E x \in Stages, y \in Stages : Allowed(k, x, c, y)
  <2>1. PICK x \in Stages : Plan(k, schedule, x, "going") BY DEF IInv, StageInv
  <2>2. schedule # <<>> BY DEF Dispatch
  <2>3. PICK y \in Stages : [pre |-> x, op |-> c, post |-> y] \in StageRules(k)
    BY <2>1, <2>2, ChainNext DEF Plan
  <2> DEFINE t == [pre |-> x, op |-> c, post |-> y]
  <2>4. Allowed(k, t.pre, t.op, t.post) BY <2>3 DEF StageRules
  <2>5. Allowed(k, x, c, y) BY <2>4
  <2> QED BY <2>5
<1> HIDE DEF c
<1>4. Brings(k, c, Program(c), p, Final(c)) BY <1>1, <1>3, CallBrings
<1>5. \A r \in Ranks : Dispatched(r) = Shape(k, c, p, r) BY <1>1, DispatchedShape
<1>6. p \in Forms BY HeldIsForm
<1> HIDE DEF p
<1>7. G \in [Ranks -> Forms] /\ \A r \in Ranks : G[r] = p BY <1>6
<1> HIDE DEF G
<1> DEFINE shape(g, r) == Shape(k, c, g, r)
           final == Final(c)
           brings(s, g) == Brings(k, c, s, g, final)
<1>8. \A r \in Ranks : rows'[r] = shape(G[r], r) /\ brings(todo'[r], G[r])
  BY <1>2, <1>4, <1>5, <1>7
<1>9. PICK H \in [Ranks -> Forms] : \A r \in Ranks : rows'[r] = shape(H[r], r) /\ brings(todo'[r], H[r])
  BY <1>7, <1>8
<1>10. Fits(H)' BY <1>2, <1>9 DEF Fits
<1>11. rows' = [r \in Ranks |-> rows'[r]] BY <1>2
<1> QED BY <1>2, <1>10, <1>11 DEF RowsInv

LEMMA InitRows == ASSUME Init PROVE RowsInv
<1> DEFINE z == Held(1, "none", FALSE)
           G == [r \in Ranks |-> z]
<1>1. /\ config \in Settings /\ call.method = None
      /\ todo = [r \in Ranks |-> <<>>] /\ rows = [r \in Ranks |-> <<>>]
  BY DEF Init, Call
<1>2. Final(call) = z
  <2>1. call.method \in {"update_actor", "update_critic", None} BY <1>1
  <2>2. call.method \notin {"save_checkpoint", "load_checkpoint"} BY <1>1 DEF None
  <2> QED BY <2>1, <2>2 DEF Final
<1>3. z \in Forms BY HeldIsForm
<1>4. \A r \in Ranks : Shape(config, call, z, r) = <<>> BY <1>1, NoShape
<1>5. Brings(config, call, <<>>, z, Final(call)) BY <1>2, <1>3, NothingBrings
<1> HIDE DEF z
<1>6. G \in [Ranks -> Forms] /\ \A r \in Ranks : G[r] = z BY <1>3
<1> HIDE DEF G
<1>7. Fits(G) BY <1>1, <1>4, <1>5, <1>6 DEF Fits
<1>8. rows = [r \in Ranks |-> rows[r]] BY <1>1
<1> QED BY <1>7, <1>8 DEF RowsInv

LEMMA NextRows == ASSUME IInv, RowsInv, [Next]_vars PROVE RowsInv'
<1>1. config \in Settings BY DEF IInv, Typed
<1>2. PICK F : Fits(F) BY DEF RowsInv
<1>3. CASE Dispatch BY <1>3, DispatchRows
<1>4. CASE Forward \/ Update
  <2>1. RowsGo(F, Ranks) BY <1>1, <1>2, <1>4, ForwardGo, UpdateGo
  <2> QED BY <1>2, <2>1, GoKeeps
<1>5. CASE Save \/ Restore \/ SyncWeights
  <2>1. RowsGo(F, Ranks) BY <1>2, <1>5, NeutralTogether, NeutralGo
  <2> QED BY <1>2, <2>1, GoKeeps
<1>6. ASSUME NEW r \in Ranks, Step(r) PROVE RowsInv'
  <2>1. \E Q : RowsGo(F, Q)
    <3>1. CASE \/ ParamsToGpu(r) \/ ParamsToCpu(r) \/ LoadOptimizer(r) \/ OffloadOptimizer(r) \/ Unshard(r)
               \/ EnterSequenceGroup(r) \/ LeaveSequenceGroup(r)
               \/ StateDict(r) \/ WakeWeights(r) \/ WakeCache(r) \/ Sleep(r) \/ DropCache(r)
               \/ SetSampling(r) \/ RollBackSampling(r) \/ SwapIn(r) \/ SwapOut(r)
      <4>1. NeutralGoes({r}) BY <3>1, NeutralAlone
      <4> QED BY <1>2, <4>1, NeutralGo
    <3>2. CASE Gather(r) BY <1>1, <1>2, <3>2, GatherRowsGo
    <3>3. CASE GatherPrompts(r) BY <1>1, <1>2, <3>3, GatherPromptsGo
    <3>4. CASE JoinMicroRows(r) BY <1>1, <1>2, <3>4, JoinMicroRowsGo
    <3>5. CASE KeepOwnRows(r) BY <1>1, <1>2, <3>5, KeepOwnRowsGo
    <3>6. CASE KeepOwnResponses(r) BY <1>1, <1>2, <3>6, KeepOwnResponsesGo
    <3>7. CASE TakeMicroRows(r) BY <1>1, <1>2, <3>7, TakeMicroRowsGo
    <3>8. CASE CopyResponses(r) BY <1>1, <1>2, <3>8, CopyResponsesGo
    <3>9. CASE GenerateTogether(r) BY <1>1, <1>2, <3>9, GenerateGo
    <3> QED BY <1>6, <3>1, <3>2, <3>3, <3>4, <3>5, <3>6, <3>7, <3>8, <3>9 DEF Step
  <2> QED BY <1>2, <2>1, GoKeeps
<1>7. CASE Finished \/ UNCHANGED vars
  <2>1. UNCHANGED <<config, call, todo, rows>> BY <1>7 DEF Finished, vars
  <2>2. Fits(F)' BY <1>2, <2>1 DEF Fits, Ranks
  <2> QED BY <2>1, <2>2 DEF RowsInv, Ranks
<1> QED BY <1>3, <1>4, <1>5, <1>6, <1>7 DEF Next

---------------------------------------------------------------------------
(* The properties                                                            *)

\* A rank that has a step to take is fit for it.
LEMMA AllFit ==
  ASSUME IInv, NEW r \in Ranks, todo[r] # <<>>
  PROVE  /\ Fit(config, call, Head(todo[r]), View(r)) /\ Head(todo[r]) \in Ops(config)
         /\ View(r).memory = memory[r] /\ View(r).version = version[r] /\ View(r).engine = engine[r]
         /\ View(r).random = random[r] /\ View(r).group = group[r] /\ View(r).rank = r
<1>1. Fit(config, call, Head(todo[r]), View(r)) BY NextStep DEF IInv, Typed, StageInv
<1>2. Head(todo[r]) \in Ops(config) BY DEF IInv, Typed
<1> QED BY <1>1, <1>2 DEF View

\* What the engine generates with are the weights of the actor's last update, and what its
\* cache holds was computed with them, on any number of ranks, whatever was called between
\* two generations: sync_model_weights runs in every __enter__ and sleep clears the cache.
THEOREM TrainedWeights == Spec => []GeneratesWithTheTrainedWeights
<1>1. IInv => GeneratesWithTheTrainedWeights
  <2> SUFFICES ASSUME IInv, NEW r \in Ranks, Generates(r)
               PROVE  engine[r].weights = version[r]["actor"]
                      /\ engine[r].cache \in {Empty, version[r]["actor"]}
    BY DEF GeneratesWithTheTrainedWeights
  <2>1. todo[r] # <<>> /\ Head(todo[r]).do = "generate" /\ config.engine # "hf" BY DEF Generates, At
  <2>2. Generating(config, call, Head(todo[r]), View(r)) BY <2>1, AllFit DEF Fit
  <2> QED BY <2>1, <2>2, AllFit DEF Generating
<1> QED BY <1>1, Invariance, PTL

\* The ranks of a tensor parallel group draw the same numbers when they generate, and a
\* rank's own stream is where its last update or its checkpoint left it when it trains:
\* __enter__ and __exit__ swap the two whole states and no call is left in between.
THEOREM StreamsApart == Spec => []RandomStreamsApart
<1>1. IInv => RandomStreamsApart
  <2> SUFFICES ASSUME IInv PROVE RandomStreamsApart OBVIOUS
  <2>1. ASSUME NEW r \in Ranks, Generates(r), config.engine # "megatron",
               NEW q \in TpGroup(r), At(q, "generate")
        PROVE  random[q].now = random[r].now
    <3>1. q \in Ranks /\ q \div config.tp = r \div config.tp BY DEF TpGroup, Consecutive
    <3>2. OwnStream(config) BY <2>1 DEF Generates, OwnStream
    <3>3. ASSUME NEW p \in {q, r} PROVE random[p].now.name = "generation"
      <4>1. p \in Ranks /\ todo[p] # <<>> /\ Head(todo[p]).do = "generate"
        BY <2>1, <3>1 DEF Generates, At
      <4>2. Drawing(config, Head(todo[p]), View(p)) /\ View(p).random = random[p]
        BY <4>1, AllFit DEF Fit
      <4> QED BY <3>2, <4>1, <4>2 DEF Drawing
    <3>4. Generation(random[q]) = Generation(random[r]) BY <3>1 DEF IInv, SameDraws
    <3> QED BY <3>3, <3>4 DEF Generation
  <2>2. ASSUME NEW r \in Ranks, At(r, "update"), config.engine \notin {"megatron", "hf"}
        PROVE  random[r].now = [Stream("training", r) EXCEPT !.draws = Updates(r)]
    <3>1. todo[r] # <<>> /\ Head(todo[r]).do = "update" BY <2>2 DEF At
    <3>2. Drawing(config, Head(todo[r]), View(r)) /\ View(r).random = random[r]
          /\ View(r).version = version[r] /\ View(r).rank = r
      BY <3>1, AllFit DEF Fit
    <3>3. OwnStream(config) BY <2>2 DEF OwnStream
    <3>4. random[r].now = [name |-> "training", id |-> r, draws |-> UpdatesOf(config, version[r])]
      BY <3>1, <3>2, <3>3 DEF Drawing
    <3>5. Updates(r) = UpdatesOf(config, version[r]) BY OfTheSetting DEF Updates, UpdatesOf
    <3>6. [Stream("training", r) EXCEPT !.draws = Updates(r)]
            = [name |-> "training", id |-> r, draws |-> Updates(r)]
      BY DEF Stream
    <3> QED BY <3>4, <3>5, <3>6
  <2> QED BY <2>1, <2>2 DEF RandomStreamsApart
<1> QED BY <1>1, Invariance, PTL

\* Whatever computes finds its parameters and optimizer on the GPU and the sequence
\* parallel group of its own model set, for every way models are offloaded and split: each
\* method of the workers loads and enters what it needs and undoes it before it returns.
THEOREM InItsPlace == Spec => []ComputesInItsPlace
<1>1. IInv => ComputesInItsPlace
  <2> SUFFICES ASSUME IInv, NEW r \in Ranks, todo[r] # <<>>
               PROVE  LET m == Head(todo[r]).of
                          a == Head(todo[r]).do
                      IN  /\ a \in {"forward", "update", "save", "restore", "state dict"}
                                => memory[r][m].params = "gpu" \/ ByFsdp(m)
                          /\ a = "update" => memory[r][m].optimizer # "cpu"
                          /\ a \in {"forward", "update"} =>
                               group[r].now = IF Sp(m) > 1 THEN m ELSE None
    BY DEF ComputesInItsPlace, Computes, At, Model
  <2> DEFINE o == Head(todo[r])
             m == o.of
  <2>1. InPlace(config, o, View(r)) /\ m \in ModelsOf(config) /\ View(r).memory = memory[r]
        /\ View(r).group = group[r]
    BY AllFit DEF Fit, Ops
  <2>2. ByFsdp(m) <=> MovedByFsdp(config, m) BY OfTheSetting
  <2>3. OwnGroup(config, m) = IF Sp(m) > 1 THEN m ELSE None
    <3>1. config \in Settings BY DEF IInv, Typed
    <3>2. m \in {"actor", "critic", "ref", "rm"} BY <2>1, <3>1, ModelNames
    <3>3. config.sp[m] \in Nat \ {0} BY <3>1, <3>2, SettingsAssumption
    <3>4. SpOf(config, m) \in Nat \ {0} /\ Sp(m) = SpOf(config, m) BY <3>3, OfTheSetting DEF SpOf
    <3> HIDE DEF m
    <3> QED BY <3>4 DEF OwnGroup
  <2> HIDE DEF o
  <2> QED BY <2>1, <2>2, <2>3 DEF InPlace, o
<1> QED BY <1>1, Invariance, PTL

\* No trained model that is to be offloaded is on the GPU while the engine generates, no root is left
\* whole there, and the engine has given back what it can whenever a model computes.
THEOREM TheMemory == Spec => []GenerationHasTheMemory
<1>1. IInv => GenerationHasTheMemory
  <2> SUFFICES ASSUME IInv, NEW r \in Ranks, todo[r] # <<>>
               PROVE  LET a == Head(todo[r]).do
                      IN  /\ a = "generate" /\ config.engine # "hf" =>
                               /\ engine[r].awake = {"weights", "cache"}
                               /\ \A m \in Models : Offloads(m) /\ Trained(m) =>
                                    memory[r][m].params = "cpu" /\ memory[r][m].optimizer # "gpu"
                               /\ \A m \in Models : ~memory[r][m].unsharded
                          /\ a = "sync" => "weights" \in engine[r].awake
                          /\ a \in {"forward", "update"} => engine[r].awake = Kept(config)
    BY DEF GenerationHasTheMemory, Generates, Computes, At, Kept
  <2>1. /\ InPlace(config, Head(todo[r]), View(r)) /\ Generating(config, call, Head(todo[r]), View(r))
        /\ View(r).memory = memory[r] /\ View(r).engine = engine[r]
    BY AllFit DEF Fit
  <2>2. Models = ModelsOf(config) /\ \A m : Offloads(m) <=> Moved(config, m) BY OfTheSetting
  <2> QED BY <2>1, <2>2 DEF InPlace, Generating
<1> QED BY <1>1, Invariance, PTL

\* Every generation samples with the parameters of its own call, where validation with
\* SGLang is greedy: its back end looks at do_sample alone and has nothing else to set.
THEOREM AsAsked ==
  ASSUME \A s \in Settings : s.engine = "sglang" => s.val = "greedy"
  PROVE  Spec => []SampledAsAsked
<1>1. IInv => SampledAsAsked
  <2> SUFFICES ASSUME IInv, NEW r \in Ranks, Generates(r) PROVE engine[r].sampling = call.how
    BY DEF SampledAsAsked
  <2>1. todo[r] # <<>> /\ Head(todo[r]).do = "generate" /\ config.engine # "hf" BY DEF Generates, At
  <2>2. Generating(config, call, Head(todo[r]), View(r)) /\ View(r).engine = engine[r]
    BY <2>1, AllFit DEF Fit
  <2>3. GreedyValidation(config) BY DEF IInv, Typed, GreedyValidation
  <2> QED BY <2>1, <2>2, <2>3 DEF Generating
<1> QED BY <1>1, Invariance, PTL

\* Every rank ends a call with results for the rows it was given, each copy in its place,
\* however many ranks and groups there are: what preprocess_data gathers over a group, and
\* what Megatron's ranks divide among them, is taken apart again the way it was put together.
THEOREM RowsAreHome == Spec => []RowsComeHome
<1>1. Init => RowsInv BY InitRows
<1>2. IInv /\ RowsInv /\ [Next]_vars => RowsInv' BY NextRows
<1>3. IInv /\ RowsInv => RowsComeHome
  <2> SUFFICES ASSUME IInv, RowsInv, \A r \in Ranks : todo[r] = <<>>, NEW r \in Ranks
               PROVE  rows[r] = CASE call.method = "generate_sequences" ->
                         FlattenSeq([i \in 1 .. RowsPerHome |->
                           [c \in 1 .. Copies |-> [Row(Home(r), i, c) EXCEPT !.result = call.method]]])
                    [] call.method \in {"update_actor", "update_critic", None} -> <<>>
                    [] call.method \in {"save_checkpoint", "load_checkpoint"} -> Dispatched(r)
                    [] OTHER -> [i \in 1 .. RowsPerHome |-> [Row(Home(r), i, 1) EXCEPT !.result = call.method]]
    BY DEF RowsComeHome
  <2>1. config \in Settings BY DEF IInv, Typed
  <2>2. PICK F : Fits(F) BY DEF RowsInv
  <2>3. rows[r] = Shape(config, call, F[r], r) /\ Brings(config, call, <<>>, F[r], Final(call))
    BY <2>2 DEF Fits
  <2>4. F[r] = Final(call) BY <2>3, ChainEmpty DEF Brings
  <2>5. rows[r] = Shape(config, call, Final(call), r) BY <2>3, <2>4
  <2> QED BY <2>1, <2>5, FinalShape
<1> QED BY <1>1, <1>2, <1>3, Invariance, PTL DEF Spec
=============================================================================
