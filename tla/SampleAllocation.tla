---------------------------- MODULE SampleAllocation ---------------------------
(***************************************************************************)
(* How a prompt gets its rollout budget: the dataset is cut into shards,   *)
(* each worker measures the acceptance rate and the gradient norm of its   *)
(* prompts, stage_2_calc_sample_size.py joins the shards' files and turns  *)
(* the shares of Proposition 1 into whole numbers, and the trainer finds   *)
(* budgets and pilots again by the prompt's index in the dataset.          *)
(*                                                                         *)
(* A prompt is its index.  A rate is a number of correct pilots.  Shares   *)
(* are exact fractions where the code has doubles, and a tie of residuals  *)
(* is broken any way.  The workers of a stage share nothing and are waited *)
(* for, so a stage is one step here; EmPipeline has their interleavings.   *)
(* A definition whose name has an underscore and a capital after it is a   *)
(* wrong version of the one that follows it.                               *)
(***************************************************************************)
EXTENDS Integers, Sequences, SequencesExt, Functions, FiniteSetsExt

CONSTANTS
  World,        \* number of shards
  MaxPrompts,   \* bound on the size of the dataset
  Pilots,       \* stage_1_samples
  Norms,        \* the gradient norms of prompts with a correct pilot
  Discount,     \* 1/sqrt(p + alpha/p^(beta-1)) at each positive rate, scaled
  Budgets       \* the values of --stage_2_samples

ASSUME AllocationAssumption ==
  /\ World \in Nat \ {0} /\ MaxPrompts \in Nat \ {0} /\ Pilots \in Nat \ {0}
  /\ Norms \subseteq Nat
  /\ Discount \in [1 .. Pilots -> Nat \ {0}]
  /\ Budgets \subseteq Nat

VARIABLES
  data_size,      \* prompts in this iteration's dataset
  cli,            \* the arguments of stage_2_calc_sample_size.py
  pc,
  collected,      \* per shard, the pilots as they are in its two files
  accept_rates,   \* per shard, accept_rates_<k>.json
  grads,          \* per shard, grads_<k>.json
  sample_sizes,   \* the budget file
  pilot_texts     \* the trainer's pilots by index

vars == <<data_size, cli, pc, collected, accept_rates, grads, sample_sizes, pilot_texts>>

Prompts == 0 .. data_size - 1
Shards == 0 .. World - 1
Files(S) == [Shards -> Seq(S)]
Unwritten == [k \in Shards |-> <<>>]

TypeOK ==
  /\ data_size \in 1 .. MaxPrompts
  /\ cli \in [stage_2_samples : Budgets, filter_threshold : 0 .. Pilots, filter_insufficient : 0 .. 1]
  /\ pc \in {"sampling", "measuring", "allocating", "loading", "training", "raised"}
  /\ collected \in Files([problem : Prompts, correct : 0 .. Pilots])
  /\ accept_rates \in Files(0 .. Pilots)
  /\ grads \in Files(Nat)
  /\ sample_sizes \in Seq(Nat)
  /\ DOMAIN pilot_texts \subseteq Prompts /\ Range(pilot_texts) \subseteq Prompts

-----------------------------------------------------------------------------
(* Stages 1 and 2a: the shards                                                 *)

one_num_share == data_size \div World

ShardEnd(k) == IF k = World - 1 THEN data_size ELSE one_num_share * (k + 1)

ShardPrompts(k) ==
  [j \in 1 .. ShardEnd(k) - one_num_share * k |-> one_num_share * k + j - 1]

\* Every worker samples its shard; what is correct is up to the policy.
Collect ==
  /\ pc = "sampling"
  /\ \E correct \in [Prompts -> 0 .. Pilots] :
       collected' = [k \in Shards |->
         [j \in DOMAIN ShardPrompts(k) |->
           [problem |-> ShardPrompts(k)[j], correct |-> correct[ShardPrompts(k)[j]]]]]
  /\ pc' = "measuring"
  /\ UNCHANGED <<data_size, cli, accept_rates, grads, sample_sizes, pilot_texts>>

\* Every worker measures its shard: the norm is 0 where no pilot is correct.
Measure ==
  /\ pc = "measuring"
  /\ accept_rates' = [k \in Shards |->
       [j \in DOMAIN collected[k] |-> collected[k][j].correct]]
  /\ \E norm \in [Prompts -> Norms] :
       grads' = [k \in Shards |->
         [j \in DOMAIN collected[k] |->
           IF collected[k][j].correct = 0 THEN 0 ELSE norm[collected[k][j].problem]]]
  /\ pc' = "allocating"
  /\ UNCHANGED <<data_size, cli, collected, sample_sizes, pilot_texts>>

-----------------------------------------------------------------------------
(* Stage 2b: stage_2_calc_sample_size.py                                       *)

Joined(files) == FlattenSeq([k \in 1 .. World |-> files[k - 1]])
rates == Joined(accept_rates)
all_grads == Joined(grads)

stage_2_samples == Min({cli.stage_2_samples, Len(all_grads) * Pilots})

Total(s) == SumFunction(s)

\* calc_sample_ratio: a share is a weight over the total of the weights.
Ratio(Gs, ps) ==
  [i \in DOMAIN Gs |-> IF Gs[i] = 0 \/ ps[i] = 0 THEN 0 ELSE Gs[i] * Discount[ps[i]]]

\* The two filters; an expectation of correct rollouts is rate * share * budget.
Filtered(w, ps) ==
  [i \in DOMAIN w |->
    IF /\ cli.filter_threshold > 0 => ps[i] <= cli.filter_threshold
       /\ cli.filter_insufficient > 0 =>
            ps[i] * w[i] * stage_2_samples >= cli.filter_insufficient * Pilots * Total(w)
    THEN w[i] ELSE 0]

shares == Filtered(Ratio(all_grads, rates), rates)

\* np.round: to the nearest integer, halves to the even one.
Rounded(x, d) ==
  LET q == x \div d  r == 2 * (x % d) IN
    IF r < d THEN q ELSE IF r > d THEN q + 1 ELSE q + (q % 2)

\* The entries that make up for the error: those it is closest to.
Corrected_OtherWay(residuals, error) ==
  {S \in kSubset(IF error > 0 THEN error ELSE - error, DOMAIN residuals) :
     \A i \in S, j \in DOMAIN residuals \ S :
       IF error > 0 THEN residuals[i] <= residuals[j] ELSE residuals[i] >= residuals[j]}
Corrected(residuals, error) ==
  {S \in kSubset(IF error > 0 THEN error ELSE - error, DOMAIN residuals) :
     \A i \in S, j \in DOMAIN residuals \ S :
       IF error > 0 THEN residuals[i] >= residuals[j] ELSE residuals[i] <= residuals[j]}

\* float_to_int_preserve_sum(w / sum(w), N): one result per way to break ties.
WholeNumbers_NoCorrection(w, N) == {[i \in DOMAIN w |-> Rounded(w[i] * N, Total(w))]}
WholeNumbers(w, N) ==
  LET d         == Total(w)
      int_arr   == [i \in DOMAIN w |-> Rounded(w[i] * N, d)]
      error     == N - Total(int_arr)
      residuals == [i \in DOMAIN w |-> w[i] * N - int_arr[i] * d]
      sign      == IF error > 0 THEN 1 ELSE -1
  IN  {[i \in DOMAIN w |-> IF i \in S THEN int_arr[i] + sign ELSE int_arr[i]] :
         S \in Corrected(residuals, error)}

\* A total of zero, before or after the filters, is a ZeroDivisionError.
Allocate ==
  /\ pc = "allocating"
  /\ IF Total(shares) = 0
     THEN pc' = "raised" /\ UNCHANGED sample_sizes
     ELSE /\ sample_sizes' \in WholeNumbers(shares, stage_2_samples)
          /\ pc' = "loading"
  /\ UNCHANGED <<data_size, cli, collected, accept_rates, grads, pilot_texts>>

-----------------------------------------------------------------------------
(* The trainer's side: sample_sizes[idx] and pilot_texts[idx]                  *)

\* sorted(glob(...)) compares names: "_10.json" comes after "_1.json" and
\* before "_2.json" ("." sorts before the digits).  For fewer than 100 shards.
NameOrder(k) == IF k < 10 THEN 11 * k ELSE 11 * (k \div 10) + (k % 10) + 1

SortedFiles ==
  [r \in 1 .. World |->
    CHOOSE k \in Shards : Cardinality({q \in Shards : NameOrder(q) < NameOrder(k)}) = r - 1]

Offset_NotAdvanced(r) == 0
Offset(r) == Total([q \in 1 .. r - 1 |-> Len(collected[SortedFiles[q]])])

LoadPilots ==
  /\ pc = "loading"
  /\ LET Entries == UNION {{<<r, j>> : j \in DOMAIN collected[SortedFiles[r]]} : r \in 1 .. World}
         Index(e) == Offset(e[1]) + e[2] - 1
     IN  pilot_texts' = [idx \in {Index(e) : e \in Entries} |->
           LET e == CHOOSE x \in Entries : Index(x) = idx
           IN  collected[SortedFiles[e[1]]][e[2]].problem]
  /\ pc' = "training"
  /\ UNCHANGED <<data_size, cli, collected, accept_rates, grads, sample_sizes>>

-----------------------------------------------------------------------------
Init ==
  /\ data_size \in 1 .. MaxPrompts
  /\ cli \in [stage_2_samples : Budgets, filter_threshold : 0 .. Pilots, filter_insufficient : 0 .. 1]
  /\ pc = "sampling"
  /\ collected = Unwritten /\ accept_rates = Unwritten /\ grads = Unwritten
  /\ sample_sizes = <<>> /\ pilot_texts = <<>>

Next == Collect \/ Measure \/ Allocate \/ LoadPilots

Spec == Init /\ [][Next]_vars

-----------------------------------------------------------------------------
(* Properties                                                                  *)

Allocated == pc \in {"loading", "training"}

\* What was measured of a prompt, found by the problem itself.
Record(i) == CHOOSE rec \in UNION {Range(collected[k]) : k \in Shards} : rec.problem = i
Norm(i) ==
  LET k == CHOOSE k \in Shards : \E j \in DOMAIN collected[k] : collected[k][j].problem = i
      j == CHOOSE j \in DOMAIN collected[k] : collected[k][j].problem = i
  IN  grads[k][j]
Signal(i) == IF Record(i).correct = 0 THEN 0 ELSE Norm(i) * Discount[Record(i).correct]
Share(i) == IF shares[i + 1] = 0 THEN 0 ELSE Signal(i)
AllShares == Total([i \in Prompts |-> Share(i)])

\* The budget file spends the E-step's budget, no rollout more or less: the
\* rounding errors of all the prompts are made up for.
SpendsExactlyTheBudget ==
  Allocated => Total(sample_sizes) = Min({cli.stage_2_samples, data_size * Pilots})

\* Every prompt of the dataset has an entry at its own index, and it is its own
\* share of the budget rounded down or up: in particular a prompt nothing was
\* learnt about, or that was filtered out, gets nothing.
WithinQuota ==
  Allocated =>
    /\ Len(sample_sizes) = data_size
    /\ \A i \in Prompts :
         LET exact == Share(i) * stage_2_samples  n == sample_sizes[i + 1] IN
           /\ n * AllShares > exact - AllShares
           /\ n * AllShares < exact + AllShares

\* Every prompt finds pilots in the trainer, and they are rollouts of that prompt.
PilotsFollowThePrompt ==
  pc = "training" => pilot_texts = [i \in Prompts |-> i]
===============================================================================
