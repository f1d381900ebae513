----------------------------- MODULE ModelCalls -----------------------------
(***************************************************************************)
(* One call of a worker group on a model: log probabilities, values,        *)
(* scores, or an update of the policy or the critic (workers/actor,         *)
(* workers/critic, the reward models).  The rows of each data parallel rank *)
(* are split into mini and micro batches, the model runs over each of them  *)
(* (SequenceParallel, MegatronForward), and the results are put in the      *)
(* order of the rows or the gradients into optimizer steps.                 *)
(*                                                                          *)
(* A data parallel rank stands for the ranks that work on the same rows:    *)
(* its sequence, tensor, context and pipeline parallel ranks.  Under FSDP a *)
(* pass over a micro batch gathers parameters from every rank, so that the  *)
(* ranks make their passes together; under Megatron each goes on alone.     *)
(*                                                                          *)
(* A loss is a mean over the rows of a micro batch (the "seq-mean" modes);  *)
(* a gradient is abstracted to the weight of every row in it, in units of   *)
(* 1 / Unit.                                                                *)
(***************************************************************************)
EXTENDS MegatronForward, FiniteSetsExt

CONSTANTS
  Settings,   \* the configurations, as the user writes them
  Width,      \* columns of a grid
  Batches,    \* the rows that may be dealt, per data parallel rank
  Unit        \* a multiple of every denominator of a weight

\* A token of a rank's rows stands in the columns of the grid.
Rows == [id : Nat, first : 1..Width, last : 1..Width]

\* What a setting is made of; sizes that the code takes for granted are not 0.
SettingType ==
  LET Size == Nat \ {0}
  IN  [family : {"fsdp", "megatron"}, route : {"padded", "unpadded", "packed", "rmpad"},
       world : Size, ranks : Size, tp : Size, cp : Size, pp : Size, vpp : Size,
       sequence_parallel : BOOLEAN, heads : Size, kv : Size, layers : Size,
       train_batch : Size, n : Size, mini : Size, micro : Nat, micro_all : Nat,
       dynamic : BOOLEAN, max_token_len : Size, epochs : Size, switch_template : BOOLEAN]

\* Every rank is dealt as many rows as another (DataProto.chunk), at least one, none empty.
ASSUME ModelCallsAssumption ==
  /\ Width \in Nat /\ Unit \in Nat
  /\ Settings \subseteq SettingType
  /\ \A s \in Settings : /\ s.family = "fsdp" <=> s.route \in {"padded", "unpadded"}
                         /\ s.mini * s.n <= Unit
  /\ \A b \in Batches : /\ b \in Seq(Seq(Rows)) /\ b # <<>>
                        /\ \A d \in DOMAIN b : b[d] # <<>> /\ Len(b[d]) = Len(b[1])
                        /\ \A d \in DOMAIN b : \A i \in DOMAIN b[d] : b[d][i].first <= b[d][i].last

Updates == {"update_policy", "update_critic"}
Calls == {"log_prob", "values", "score"} \cup Updates

VARIABLES
  c,        \* the setting; normalised once configured
  call,     \* which call it is
  rows,     \* [rank -> its rows]
  at,       \* "configure", "minis", "passes", "done", "raised" or, misconfigured, "refused"
  minis,    \* [rank -> the mini batches to do, sequences of row numbers]
  micros,   \* [rank -> the micro batches to do]; NotSplit before it has split
  order,    \* [rank -> the row numbers of its micro batches, one after another]
  numbers,  \* [rank -> what its passes gave, row by row]
  grads,    \* [rank -> [row number -> weight in the gradient]]
  steps,    \* the gradients of the optimizer steps; zero for one that was skipped
  result    \* [rank -> what it returns]

vars == <<c, call, rows, at, minis, micros, order, numbers, grads, steps, result>>

NotSplit == <<<<0>>>>
Ranks == DOMAIN rows
ByFsdp == c.family = "fsdp"
Zero == [d \in Ranks |-> [i \in DOMAIN rows[d] |-> 0]]
Grid(some) == [width |-> Width, rows |-> some]

(***************************************************************************)
(* The configuration: what the driver checks before anything starts, and    *)
(* what a worker makes of it.  0 stands for a size that is not set.         *)
(***************************************************************************)
DataParallel(s) ==
  IF s.family = "fsdp" THEN s.world \div s.ranks ELSE s.world \div (s.tp * s.cp * s.pp)

DriverAccepts(s) ==
  /\ (s.train_batch * s.n) % s.world = 0
  /\ s.dynamic \/ /\ (s.micro = 0) # (s.micro_all = 0)
                  /\ s.train_batch >= s.mini
                  /\ s.micro_all = 0 \/ (s.mini % s.micro_all = 0 /\ s.micro_all * s.ranks >= s.world)
  /\ s.ranks = 1 \/ s.route = "unpadded"

Normalised(s) ==
  [s EXCEPT !.mini = (s.mini * s.n) \div DataParallel(s),
            !.micro = IF s.micro_all = 0 THEN s.micro ELSE s.micro_all \div DataParallel(s)]

FsdpAccepts(s) ==
  /\ s.mini > 0
  /\ s.micro = 0 \/ (s.mini % s.micro = 0 /\ s.mini \div s.micro > 0)
  /\ s.ranks = 1 \/ SpPatchApplies(s)

Configure ==
  /\ at = "configure"
  /\ c' = Normalised(c)
  /\ at' = IF /\ DriverAccepts(c)
              /\ ByFsdp => FsdpAccepts(Normalised(c))
              /\ c.route = "rmpad" => RmpadAccepts(c)
           THEN "minis" ELSE "refused"
  /\ UNCHANGED <<call, rows, minis, micros, order, numbers, grads, steps, result>>

(***************************************************************************)
(* Mini batches.  FSDP splits the rows, the last one being short when they  *)
(* do not come out even; Megatron's iterator insists that they do, and that *)
(* a rank's share of a mini batch is not 0.  A call that only computes      *)
(* takes all rows at once.                                                  *)
(***************************************************************************)
Chop(s, size) ==
  [k \in 1..((Len(s) + size - 1) \div size) |->
     SubSeq(s, (k - 1) * size + 1, IF k * size < Len(s) THEN k * size ELSE Len(s))]

MiniBatches(some) ==
  IF call \in Updates
  THEN FlattenSeq([e \in 1..c.epochs |-> Chop([i \in DOMAIN some |-> i], c.mini)])
  ELSE <<[i \in DOMAIN some |-> i]>>

IteratorRaises ==
  ~ByFsdp /\ call \in Updates /\ (c.mini # 0 => \E d \in Ranks : Len(rows[d]) % c.mini # 0)

SplitMinis ==
  /\ at = "minis"
  /\ IF IteratorRaises THEN at' = "raised" /\ UNCHANGED minis
     ELSE at' = "passes" /\ minis' = [d \in Ranks |-> MiniBatches(rows[d])]
  /\ UNCHANGED <<c, call, rows, micros, order, numbers, grads, steps, result>>

(***************************************************************************)
(* Micro batches: of a fixed size, or under FSDP so many that their tokens  *)
(* fit.  The number is agreed on by all ranks, as they make their passes    *)
(* together; which rows go together is get_seqlen_balanced_partitions'      *)
(* choice (SeqlenBalance): any partition in any order, each part ascending. *)
(* Megatron splits by size whatever use_dynamic_bsz says, which under it    *)
(* only spares the size the driver's checks.                                *)
(***************************************************************************)
Dynamic == ByFsdp /\ c.dynamic

Tokens(d, mini) == SumFunction([k \in DOMAIN mini |-> Seqlen(rows[d][mini[k]])])

Need_RoundedUpAlways(d) == Tokens(d, Head(minis[d])) \div (c.max_token_len * c.ranks) + 1
Need(d) == (Tokens(d, Head(minis[d])) + c.max_token_len * c.ranks - 1) \div (c.max_token_len * c.ranks)

AgreedNumber == Max({Need(d) : d \in Ranks})

\* The numbers of a set in order.
Ascending(S) == [k \in 1..Cardinality(S) |-> CHOOSE i \in S : Cardinality({j \in S : j < i}) = k - 1]

OrderedPartitions(s, n) ==
  {[p \in 1..n |-> Ascending({i \in ToSet(s) : f[i] = p})] : f \in Surjection(ToSet(s), 1..n)}

SplitRaises(d) ==
  IF Dynamic THEN c.max_token_len * c.ranks < Width \/ AgreedNumber > Len(Head(minis[d]))
  ELSE ~ByFsdp /\ (c.micro # 0 => Len(Head(minis[d])) % c.micro # 0)

\* A rank splits its next mini batch; for an update, after zero_grad.
Split(d) ==
  /\ at = "passes" /\ minis[d] # <<>> /\ micros[d] = NotSplit
  /\ ~SplitRaises(d)
  /\ \E parts \in IF Dynamic THEN OrderedPartitions(Head(minis[d]), AgreedNumber)
                   ELSE {Chop(Head(minis[d]), c.micro)} :
       /\ micros' = [micros EXCEPT ![d] = parts]
       /\ order' = [order EXCEPT ![d] = FlattenSeq(parts)]
  /\ grads' = [grads EXCEPT ![d] = Zero[d]]
  /\ UNCHANGED <<c, call, rows, at, minis, numbers, steps, result>>

SplitFails ==
  /\ at = "passes" /\ \E d \in Ranks : minis[d] # <<>> /\ micros[d] = NotSplit /\ SplitRaises(d)
  /\ at' = "raised"
  /\ UNCHANGED <<c, call, rows, minis, micros, order, numbers, grads, steps, result>>

(***************************************************************************)
(* A pass.                                                                  *)
(***************************************************************************)
Micro(d) == [k \in DOMAIN Head(micros[d]) |-> rows[d][Head(micros[d])[k]]]

\* With another tokenizer a reward model reads the conversation in its own template,
\* padded on the right and cut to its maximal length.
RewardRow(row) ==
  IF ~c.switch_template THEN row
  ELSE [id |-> row.id, first |-> 1,
        last |-> IF Seqlen(row) + 1 < Width THEN Seqlen(row) + 1 ELSE Width]

Input(some) ==
  Grid(IF call = "score" THEN [k \in DOMAIN some |-> RewardRow(some[k])] ELSE some)

Run(grid) == IF ByFsdp THEN Forward(c, grid) ELSE MegatronPass(c, grid)

\* The log probabilities and values of the response, or the last token's score.
PassNumbers(some) ==
  CASE call = "score" -> LastNumbers(Input(some), Run(Input(some)))
    [] call \in {"log_prob", "values"} -> ResponsePart(Input(some), Run(Input(some)))
    [] OTHER -> <<>>

PassRaises(some) == c.route = "packed" /\ PackRaises(c, Input(some))

\* The weight of a row of a micro batch of n: its loss is the mean over the n, scaled to
\* the mini batch.  Every sequence parallel rank computes the loss, the gather's backward
\* multiplies a rank's share of the gradient by their number, and the gradients are the
\* mean over all ranks.
LossScale(d, n) ==
  IF ~ByFsdp THEN [num |-> 1, den |-> Len(Head(minis[d])) \div c.micro]
  ELSE IF Dynamic THEN [num |-> n, den |-> c.mini]
  ELSE [num |-> 1, den |-> c.mini \div c.micro]

GradScaler_None == 1
GradScaler == IF ByFsdp THEN c.ranks ELSE 1
MeanOver == Cardinality(Ranks) * (IF ByFsdp THEN c.ranks ELSE 1)

RowWeight(d, n) ==
  (Unit * GradScaler * LossScale(d, n).num) \div (LossScale(d, n).den * n * MeanOver)

\* The ranks in D run over their next micro batches.
Pass(D) ==
  /\ at = "passes"
  /\ \A d \in D : micros[d] \notin {NotSplit, <<>>}
  /\ IF \E d \in D : PassRaises(Micro(d))
     THEN at' = "raised" /\ UNCHANGED <<micros, numbers, grads>>
     ELSE /\ micros' = [d \in Ranks |-> IF d \in D THEN Tail(micros[d]) ELSE micros[d]]
          /\ numbers' = [d \in Ranks |-> IF d \in D THEN numbers[d] \o PassNumbers(Micro(d)) ELSE numbers[d]]
          /\ grads' = [d \in Ranks |-> [i \in DOMAIN rows[d] |->
               IF d \in D /\ call \in Updates /\ i \in ToSet(Head(micros[d]))
               THEN grads[d][i] + RowWeight(d, Len(Head(micros[d]))) ELSE grads[d][i]]]
          /\ UNCHANGED at
  /\ UNCHANGED <<c, call, rows, minis, order, steps, result>>

PassTogether == ByFsdp /\ Pass(Ranks)
PassAlone == ~ByFsdp /\ \E d \in Ranks : Pass({d})

(***************************************************************************)
(* The optimizer's step, on all ranks: skipped under FSDP when the gradient *)
(* is not finite, an error under Megatron.                                  *)
(***************************************************************************)
AllPassed == at = "passes" /\ \A d \in Ranks : minis[d] # <<>> /\ micros[d] = <<>>

AfterMini ==
  /\ minis' = [d \in Ranks |-> Tail(minis[d])]
  /\ micros' = [d \in Ranks |-> NotSplit]
  /\ at' = IF \A d \in Ranks : Len(minis[d]) = 1 THEN "done" ELSE "passes"
  /\ UNCHANGED <<c, call, rows, order, numbers, result>>

OptimizerStep ==
  /\ AllPassed /\ call \in Updates
  /\ steps' = Append(steps, grads)
  /\ AfterMini /\ UNCHANGED grads

NotFinite ==
  /\ AllPassed /\ call \in Updates
  /\ IF ByFsdp THEN grads' = Zero /\ steps' = Append(steps, Zero) /\ AfterMini
     ELSE at' = "raised" /\ UNCHANGED <<c, call, rows, minis, micros, order, numbers, grads, steps, result>>

(***************************************************************************)
(* What a computing call returns.  FSDP's critic masks the values before    *)
(* they are put back in the order of the rows; Megatron's reward model      *)
(* concatenates the dictionaries of its passes, which raises.               *)
(***************************************************************************)
Reverted(d, s) ==
  IF Dynamic THEN [i \in DOMAIN s |-> s[CHOOSE k \in DOMAIN order[d] : order[d][k] = i]] ELSE s

InMask(row, j) == Width - ResponseLength + j - 1 \in Real(row)

Values(d) ==
  [i \in DOMAIN rows[d] |-> [j \in 1..ResponseLength |->
     IF InMask(rows[d][i], j) THEN numbers[d][i][j] ELSE {}]]

\* A row's score goes to its last token.
TokenLevel(d, scores) ==
  [i \in DOMAIN rows[d] |-> [j \in 1..ResponseLength |->
     IF Width - ResponseLength + j = rows[d][i].last THEN scores[i] ELSE {}]]

Returned(d) ==
  CASE call = "log_prob" -> Reverted(d, numbers[d])
    [] call = "values"   -> Reverted(d, Values(d))
    [] call = "score"    -> TokenLevel(d, Reverted(d, numbers[d]))

Return ==
  /\ AllPassed /\ call \notin Updates
  /\ IF call = "score" /\ ~ByFsdp THEN at' = "raised" /\ UNCHANGED result
     ELSE at' = "done" /\ result' = [d \in Ranks |-> Returned(d)]
  /\ UNCHANGED <<c, call, rows, minis, micros, order, numbers, grads, steps>>

-----------------------------------------------------------------------------
Init ==
  /\ c \in Settings
  /\ call \in IF c.route = "rmpad" THEN {"log_prob", "values"} ELSE Calls
  /\ rows \in {b \in Batches : DOMAIN b = 1..DataParallel(c)}
  /\ at = "configure"
  /\ minis = [d \in Ranks |-> <<>>]
  /\ micros = [d \in Ranks |-> NotSplit]
  /\ order = [d \in Ranks |-> <<>>]
  /\ numbers = [d \in Ranks |-> <<>>]
  /\ grads = Zero
  /\ steps = <<>>
  /\ result = [d \in Ranks |-> <<>>]

Ended == at \in {"done", "raised", "refused"} /\ UNCHANGED vars

Next ==
  \/ Configure
  \/ SplitMinis
  \/ \E d \in Ranks : Split(d)
  \/ SplitFails
  \/ PassTogether
  \/ PassAlone
  \/ OptimizerStep
  \/ NotFinite
  \/ Return
  \/ Ended

Spec == Init /\ [][Next]_vars

-----------------------------------------------------------------------------
(***************************************************************************)
(* What a call returns for a row was computed from that row alone: the      *)
(* number for each token of the response came from the tokens before it, at *)
(* their positions, through every head in its place, and is the log         *)
(* probability of that token; the score is the last token's.  However the   *)
(* rows were packed, cut into pieces for the ranks and put back together.   *)
(* Not claimed of FSDP's values under dynamic micro batches, which are      *)
(* masked with other rows' masks (dp_critic.py:176).                        *)
(***************************************************************************)
Mixes(cell) == {n.mix : n \in cell}

OwnResult(row, j, cell) ==
  LET col == Width - ResponseLength + j
  IN  CASE call = "log_prob" -> col <= row.last => cell = {OwnNumber(c, row, col - 1)}
        [] call = "values" -> col <= row.last => Mixes(cell) = {OwnNumber(c, row, col - 1).mix}
        [] call = "score" ->
             Mixes(cell) = IF col = row.last
                           THEN {OwnNumber(c, RewardRow(row), RewardRow(row).last).mix} ELSE {}

ResultsAreTheRowsOwn ==
  at = "done" /\ call \notin Updates /\ ~(call = "values" /\ Dynamic) =>
    \A d \in Ranks :
      /\ Len(result[d]) = Len(rows[d])
      /\ \A i \in DOMAIN rows[d], j \in 1..ResponseLength : OwnResult(rows[d][i], j, result[d][i][j])

(***************************************************************************)
(* An optimizer step weighs every row of a whole mini batch alike, 1 / mini *)
(* of each rank's share, and no other row, whatever the micro batches and   *)
(* the number of ranks; one of a short mini batch weighs no more in all.    *)
(***************************************************************************)
Weighed(s, d) == {i \in DOMAIN s[d] : s[d][i] # 0}
TotalWeight(s) == SumFunction([d \in Ranks |-> SumFunction(s[d])])

StepsWeighRowsEvenly ==
  \A k \in DOMAIN steps : steps[k] # Zero =>
    /\ TotalWeight(steps[k]) <= Unit
    /\ \A d \in Ranks :
         LET number == (Len(rows[d]) + c.mini - 1) \div c.mini
             mini == {i \in DOMAIN rows[d] : (i - 1) \div c.mini = (k - 1) % number}
         IN  /\ Weighed(steps[k], d) = mini
             /\ Cardinality(mini) = c.mini =>
                  \A i \in mini : steps[k][d][i] = Unit \div (c.mini * Cardinality(Ranks))

(***************************************************************************)
(* Nothing FSDP's configuration checks let through makes a call raise, with *)
(* any number of rows, but a maximal number of tokens below the width of    *)
(* the grid: the agreed number of micro batches never exceeds a rank's      *)
(* rows, though another rank's tokens decided it.  A computing call of      *)
(* Megatron raises only when the rows are no multiple of its micro batches  *)
(* or a row is too short for the pieces of its ranks.                       *)
(***************************************************************************)
RaisesOnlyIfRowsDoNotFit ==
  at = "raised" =>
    /\ ByFsdp => Dynamic /\ c.max_token_len * c.ranks < Width
    /\ ~ByFsdp /\ call \in {"log_prob", "values"} =>
         \E d \in Ranks : \/ c.micro = 0 \/ Len(rows[d]) % c.micro # 0
                          \/ \E i \in DOMAIN rows[d] : Seqlen(rows[d][i]) < c.tp * c.cp
=============================================================================
