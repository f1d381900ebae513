------------------------------ MODULE RolloutBatch -----------------------------
(***************************************************************************)
(* One step of RayPPOTrainer.fit from a batch of prompts and their budgets *)
(* to the rows the actor is trained on.  The driver takes pilots off the   *)
(* budgets, pads what is left to the GPUs of a node, copies the prompts,    *)
(* has the ranks generate, joins metadata, responses and pilots, reorders  *)
(* the rows for balance, has the reward manager score them, at once or in  *)
(* a task beside the following calls, and has the ranks compute their log  *)
(* probabilities, each after cutting its rows into micro batches.  Then it *)
(* joins the scores, computes the advantages of every prompt's rows and    *)
(* weights them (algorithm.gvm_reweight).                                  *)
(*                                                                         *)
(* A row carries, for each of its columns, which prompt or which response  *)
(* the column belongs to; the length of a response stands for its tokens.  *)
(* The ranks work side by side and end in any order.  What the balancing   *)
(* code returns is any partition that SeqlenBalance shows it may return.   *)
(* Which responses are correct is chosen where the scores are first used.  *)
(* A definition whose name has an underscore and a capital after it is a   *)
(* wrong version of the one that follows it.                               *)
(***************************************************************************)
EXTENDS Integers, Sequences, SequencesExt, Functions, FiniteSetsExt

CONSTANTS
  BatchSize,      \* prompts in a batch of the data loader
  Settings        \* the configurations a run may have

\* nnodes, n_gpus_per_node: of the trainer, together the ranks; n: rollout.n;
\* pilots: rollouts per prompt in the pilot files, 0 without pilot_data_glob;
\* max_token_len: log_prob_max_token_len_per_gpu; balance_batch: trainer's.
\* max_budget bounds a prompt's entry in the budget file, lens the lengths of
\* responses.  manager: reward_model.reward_manager; async: its
\* launch_reward_fn_async; dict_sources: the prompts of a data source whose scores
\* are dicts; wrong: the score of a wrong response; buffer_len, penalty_factor and
\* expected_len: of DAPO's overlong_buffer, which is on.  use_kl_in_reward is off.
ASSUME RolloutAssumption ==
  /\ BatchSize \in Nat \ {0}
  /\ \A c \in Settings :
       /\ c.nnodes \in Nat \ {0} /\ c.n_gpus_per_node \in Nat \ {0}
       /\ c.n \in Nat \ {0} /\ c.pilots \in Nat
       /\ c.max_budget \in Nat /\ c.max_token_len \in Nat \ {0}
       /\ c.lens \subseteq 1 .. c.max_token_len
       /\ c.balance_batch \in BOOLEAN /\ c.async \in BOOLEAN
       /\ c.manager \in {"naive", "batch", "dapo", "prime"}
       /\ c.dict_sources \subseteq 1 .. BatchSize
       /\ c.wrong \in {0, -1} /\ c.expected_len \in Nat
       /\ c.buffer_len \in Nat \ {0} /\ c.penalty_factor \in Nat
       /\ c.adv_estimator \in {"raft", "grpo", "rloo"}
       /\ c.gvm_reweight \in {"off", "auto", "inv_np", "inv_n"}

VARIABLES
  config,        \* the configuration of the run
  budget,        \* the entries of the batch's prompts in the budget file
  len,           \* the length of the responses to each prompt
  pc,
  sample_size,   \* copies of each prompt to generate from
  pilot_reuse,   \* pilots of each prompt to reuse
  outputs,       \* what the ranks have returned of the call under way
  arrived,       \* the ranks that have returned, in that order
  batch,         \* the rows
  reward,        \* the call of the reward manager: how far it is, its rows, its result
  error          \* what made the step fail

vars == <<config, budget, len, pc, sample_size, pilot_reuse, outputs, arrived, batch, reward, error>>

Prompts == 1 .. BatchSize
World == config.nnodes * config.n_gpus_per_node
N == config.n
Pilots == config.pilots
Ranks == 1 .. World
Total(f) == SumFunction(f)

Responses == [prompt : Prompts, pilot : BOOLEAN, no : Nat]
Rows == [meta : Prompts, prompts : Prompts, response : Responses]
ScoredRows == [meta : Prompts, prompts : Prompts, response : Responses,
               old_log_probs : Responses, entropys : Responses]
Scores == [of : Responses, value : Int]
TrainedRows == [meta : Prompts, prompts : Prompts, response : Responses,
                old_log_probs : Responses, entropys : Responses,
                token_level_scores : Scores, extra : SUBSET Responses,
                advantages : [num : Int, den : Nat], weight : Nat]

TypeOK ==
  /\ config \in Settings
  /\ budget \in [Prompts -> 0 .. config.max_budget]
  /\ len \in [Prompts -> config.lens]
  /\ pc \in {"budget", "generate", "assemble", "balance", "reward", "score", "union",
             "advantage", "trained", "failed"}
  /\ sample_size \in [Prompts -> Nat] /\ pilot_reuse \in [Prompts -> 0 .. Pilots]
  /\ outputs \in [Ranks -> Seq([prompts : Prompts, response : Responses])
                           \cup Seq([old_log_probs : Responses, entropys : Responses])]
  /\ arrived \in Seq(Ranks) /\ IsInjective(arrived)
  /\ batch \in Seq(Rows) \cup Seq(ScoredRows) \cup Seq(TrainedRows)
  /\ reward.at \in {"idle", "first", "second", "done", "raised"}
  /\ reward.rows \in Seq(Rows) /\ reward.scores \in Seq(Responses)
  /\ \A column \in reward.extra : column \in Seq(Responses)
  /\ error \in {"none", "no rows", "unequal chunks", "too many micro batches", "reward",
                "column of other rows"}

Fail(what) == pc' = "failed" /\ error' = what

-----------------------------------------------------------------------------
(* The budgets                                                                 *)

Reused == [p \in Prompts |-> Min({budget[p], Pilots})]
Fresh == [p \in Prompts |-> budget[p] - Reused[p]]

\* np.argsort(sample_size)[::-1]: decreasing, ties any way.
Orders(f) ==
  {o \in Bijection(1 .. BatchSize, Prompts) : \A i, j \in 1 .. BatchSize : i < j => f[o[i]] >= f[o[j]]}

deficit_Remainder == (Total(Fresh) + Total(Reused)) % config.n_gpus_per_node
\* Python's modulo: never negative.
deficit == (- (Total(Fresh) + Total(Reused))) % config.n_gpus_per_node

\* One more copy for the prompts of the order, from the first, deficit times.
Padded(f, order) ==
  [p \in Prompts |->
    LET at == CHOOSE i \in 1 .. BatchSize : order[i] = p
    IN  f[p] + Cardinality({t \in 0 .. deficit - 1 : (t % BatchSize) + 1 = at})]

\* fit skips a batch whose budgets are all zero, so there is none.
Init ==
  /\ config \in Settings
  /\ budget \in [Prompts -> 0 .. config.max_budget] /\ Total(budget) > 0
  /\ len \in [Prompts -> config.lens]
  /\ pc = "budget"
  /\ sample_size = [p \in Prompts |-> 0] /\ pilot_reuse = [p \in Prompts |-> 0]
  /\ outputs = [r \in Ranks |-> <<>>] /\ arrived = <<>>
  /\ batch = <<>> /\ error = "none"
  /\ reward = [at |-> "idle", rows |-> <<>>, scores |-> <<>>, extra |-> {}]

\* my_repeat stacks the copies, and no copies cannot be stacked; the dispatch of
\* generate_sequences cuts them into equal chunks, one for each rank, or fails.
SpendBudgets ==
  /\ pc = "budget"
  /\ pilot_reuse' = Reused
  /\ IF Total(Fresh) > 0
     THEN \E order \in Orders(Fresh) : sample_size' = Padded(Fresh, order)
     ELSE sample_size' = Fresh
  /\ IF Total(sample_size') = 0 THEN Fail("no rows")
     ELSE IF Total(sample_size') % World # 0 THEN Fail("unequal chunks")
     ELSE pc' = "generate" /\ UNCHANGED error
  /\ UNCHANGED <<config, budget, len, outputs, arrived, batch, reward>>

-----------------------------------------------------------------------------
(* generate_sequences                                                          *)

\* DataProto.chunk.
Chunk(s, r) ==
  LET size == Len(s) \div World IN SubSeq(s, (r - 1) * size + 1, r * size)

\* DataProto.repeat.
Repeat_Stacked(s) == [i \in 1 .. N * Len(s) |-> s[((i - 1) % Len(s)) + 1]]
Repeat(s) == [i \in 1 .. N * Len(s) |-> s[((i - 1) \div N) + 1]]

Copies == FlattenSeq([p \in Prompts |-> [j \in 1 .. sample_size[p] |-> p]])

\* N responses to each row of the rank's chunk, those to a row side by side.
RankGenerates(r) ==
  /\ pc = "generate" /\ ~ Contains(arrived, r)
  /\ LET rows == Chunk(Copies, r)  first == N * (r - 1) * Len(rows) IN
       outputs' = [outputs EXCEPT ![r] =
         [i \in 1 .. N * Len(rows) |->
           LET p == rows[((i - 1) \div N) + 1]
           IN  [prompts |-> p, response |-> [prompt |-> p, pilot |-> FALSE, no |-> first + i]]]]
  /\ arrived' = Append(arrived, r)
  /\ pc' = IF Len(arrived') = World THEN "assemble" ELSE pc
  /\ UNCHANGED <<config, budget, len, sample_size, pilot_reuse, batch, reward, error>>

\* The results are gathered and concatenated by rank.
Collected_FirstRank == FlattenSeq([r \in Ranks |-> outputs[1]])
Collected == FlattenSeq([r \in Ranks |-> outputs[r]])

-----------------------------------------------------------------------------
(* The rows                                                                    *)

\* batch.repeat(n, interleave=True) and union with the generated columns.
FreshRows ==
  LET metas == Repeat(Copies) IN
    [i \in DOMAIN metas |->
      [meta |-> metas[i], prompts |-> Collected[i].prompts, response |-> Collected[i].response]]

HasRow(p) == \E i \in DOMAIN FreshRows : FreshRows[i].meta = p
first_row(p) == FreshRows[Min({i \in DOMAIN FreshRows : FreshRows[i].meta = p})]

\* build_pilot_rows: the reused pilots of every prompt that has a fresh row,
\* with everything but the response copied from that row.
PilotRows ==
  FlattenSeq([p \in Prompts |->
    IF HasRow(p)
    THEN [j \in 1 .. pilot_reuse[p] |->
           [meta |-> first_row(p).meta, prompts |-> first_row(p).prompts,
            response |-> [prompt |-> p, pilot |-> TRUE, no |-> j]]]
    ELSE <<>>])

Assemble ==
  /\ pc = "assemble"
  /\ batch' = FreshRows \o PilotRows
  /\ outputs' = [r \in Ranks |-> <<>>] /\ arrived' = <<>>
  /\ pc' = "balance"
  /\ UNCHANGED <<config, budget, len, sample_size, pilot_reuse, reward, error>>

-----------------------------------------------------------------------------
(* Balancing                                                                   *)

\* What get_seqlen_balanced_partitions may return for these lengths: every item
\* once, no partition empty, the same sizes if asked for, sums within one length.
Partitions(lens, k, equal_size) ==
  {part \in [DOMAIN lens -> 1 .. k] :
     LET items(j) == {i \in DOMAIN lens : part[i] = j}
         sum(j) == SumFunctionOnSet(lens, items(j))
     IN  \A a, b \in 1 .. k :
           /\ items(a) # {}
           /\ equal_size => Cardinality(items(a)) = Cardinality(items(b))
           /\ sum(a) - sum(b) <= Max(Range(lens))}

\* The indices of the partitions one after the other, each in order.
Listed(part) ==
  LET before(i) == {j \in DOMAIN part : part[j] < part[i] \/ (part[j] = part[i] /\ j < i)}
  IN  [n \in DOMAIN part |-> CHOOSE i \in DOMAIN part : Cardinality(before(i)) = n - 1]

Lengths(rows) == [i \in DOMAIN rows |-> len[rows[i].response.prompt]]

\* _balance_batch; the dispatch of compute_log_prob cuts into equal chunks.
Balance ==
  /\ pc = "balance"
  /\ IF Len(batch) % World # 0
     THEN Fail("unequal chunks") /\ UNCHANGED batch
     ELSE /\ IF config.balance_batch
             THEN \E part \in Partitions(Lengths(batch), World, TRUE) :
                    batch' = [i \in DOMAIN batch |-> batch[Listed(part)[i]]]
             ELSE UNCHANGED batch
          /\ pc' = "reward" /\ UNCHANGED error
  /\ UNCHANGED <<config, budget, len, sample_size, pilot_reuse, outputs, arrived, reward>>

-----------------------------------------------------------------------------
(* The reward                                                                  *)

\* The numbers of a set in order.
InOrder(S) == [k \in 1 .. Cardinality(S) |-> CHOOSE i \in S : Cardinality({j \in S : j < i}) = k - 1]

\* A score that is a dict leaves its entries in reward_extra_info, so those lists
\* are as long as there are such scores; without one there is no list.
DictColumn(rows) ==
  LET scored == {i \in DOMAIN rows : rows[i].meta \in config.dict_sources}
      order == InOrder(scored)
  IN  IF scored = {} THEN {} ELSE {[k \in DOMAIN order |-> rows[order[k]].response]}

Responded(rows) == [i \in DOMAIN rows |-> rows[i].response]

\* Each manager goes through the rows in order; DAPO's also lists the penalty of
\* every row, and only PRIME's has no reward_extra_info.
NaiveRewardManager(rows) == [reward_tensor |-> Responded(rows), reward_extra_info |-> DictColumn(rows)]
BatchRewardManager(rows) == [reward_tensor |-> Responded(rows), reward_extra_info |-> DictColumn(rows)]
DAPORewardManager(rows) ==
  [reward_tensor |-> Responded(rows), reward_extra_info |-> DictColumn(rows) \cup {Responded(rows)}]
PrimeRewardManager(rows) == [reward_tensor |-> Responded(rows)]

\* load_reward_manager
RewardFn(rows) ==
  CASE config.manager = "naive" -> NaiveRewardManager(rows)
    [] config.manager = "batch" -> BatchRewardManager(rows)
    [] config.manager = "dapo"  -> DAPORewardManager(rows)
    [] config.manager = "prime" -> PrimeRewardManager(rows)

\* The manager is called, or a task is given a copy of the rows and calls it.
StartReward ==
  /\ pc = "reward" /\ reward.at = "idle"
  /\ reward' = [reward EXCEPT !.at = "first", !.rows = batch]
  /\ pc' = IF config.async THEN "score" ELSE pc
  /\ UNCHANGED <<config, budget, len, sample_size, pilot_reuse, outputs, arrived, batch, error>>

\* compute_reward: the first call's result counts if it has reward_extra_info.
RewardReturns ==
  /\ reward.at \in {"first", "second"} /\ pc # "failed"
  /\ LET result == RewardFn(reward.rows)
         found == "reward_extra_info" \in DOMAIN result IN
       IF reward.at = "first" /\ ~ found
       THEN reward' = [reward EXCEPT !.at = "second"] /\ UNCHANGED pc
       ELSE /\ reward' = [at |-> "done", rows |-> <<>>, scores |-> result.reward_tensor,
                          extra |-> IF reward.at = "first" THEN result.reward_extra_info ELSE {}]
            /\ pc' = IF config.async THEN pc ELSE "score"
  /\ UNCHANGED <<config, budget, len, sample_size, pilot_reuse, outputs, arrived, batch, error>>

\* A call that raises is made once more; the task's failure waits for ray.get.
RewardRaises ==
  /\ reward.at \in {"first", "second"} /\ pc # "failed"
  /\ reward' = [reward EXCEPT !.at = IF reward.at = "first" THEN "second" ELSE "raised"]
  /\ IF reward.at = "second" /\ ~ config.async
     THEN Fail("reward") ELSE UNCHANGED <<pc, error>>
  /\ UNCHANGED <<config, budget, len, sample_size, pilot_reuse, outputs, arrived, batch>>

-----------------------------------------------------------------------------
(* compute_log_prob                                                            *)

ceildiv(a, b) == - ((- a) \div b)

\* Each rank's count, and the largest, which all of them take (all_reduce MAX).
MicroBatches(r) == ceildiv(Total(Lengths(Chunk(batch, r))), config.max_token_len)
num_micro_batches == Max({MicroBatches(r) : r \in Ranks})

\* log_probs[get_reverse_idx(indices)].
Reverted(s, indices) ==
  [i \in DOMAIN s |-> s[CHOOSE j \in DOMAIN indices : indices[j] = i]]

\* The rank's rows in the order of its micro batches; the log probabilities are
\* put back in the order of the rows, the entropies are returned as they come.
RankScores(r) ==
  /\ pc = "score" /\ ~ Contains(arrived, r)
  /\ LET rows == Chunk(batch, r) IN
       IF num_micro_batches > Len(rows)
       THEN Fail("too many micro batches") /\ UNCHANGED <<outputs, arrived>>
       ELSE /\ \E part \in Partitions(Lengths(rows), num_micro_batches, FALSE) :
                 LET indices == Listed(part)
                     scored == [j \in DOMAIN rows |-> rows[indices[j]].response]
                 IN  outputs' = [outputs EXCEPT ![r] =
                       [i \in DOMAIN rows |-> [old_log_probs |-> Reverted(scored, indices)[i],
                                               entropys |-> scored[i]]]]
            /\ arrived' = Append(arrived, r)
            /\ pc' = IF Len(arrived') = World THEN "union" ELSE pc
            /\ UNCHANGED error
  /\ UNCHANGED <<config, budget, len, sample_size, pilot_reuse, batch, reward>>

Union ==
  /\ pc = "union"
  /\ batch' = [i \in DOMAIN batch |->
       [meta |-> batch[i].meta, prompts |-> batch[i].prompts, response |-> batch[i].response,
        old_log_probs |-> Collected[i].old_log_probs, entropys |-> Collected[i].entropys]]
  /\ outputs' = [r \in Ranks |-> <<>>] /\ arrived' = <<>>
  /\ pc' = "advantage"
  /\ UNCHANGED <<config, budget, len, sample_size, pilot_reuse, reward, error>>

-----------------------------------------------------------------------------
(* Advantages                                                                  *)

\* The correct responses: any, of those with an even and with an odd number.
Correct(correct, response) == <<response.prompt, response.no % 2>> \in correct

\* The tokens of a prompt's responses that the DAPO manager takes off for.
Overlong(p) ==
  IF config.manager = "dapo" THEN Max({0, len[p] - config.expected_len}) ELSE 0

\* What the manager puts at the last token of the response, in units of one over
\* buffer_len: a token too many costs penalty_factor of them.
Score(correct, response) ==
  config.buffer_len * (IF Correct(correct, response) THEN 1 ELSE config.wrong)
    - config.penalty_factor * Overlong(response.prompt)

\* uid: one per prompt (per index), whatever copy, pilot or place of the row.
Group_SideBySide(i) == {j \in DOMAIN batch : (j - 1) \div N = (i - 1) \div N}
Group(i) == {j \in DOMAIN batch : batch[j].meta = batch[i].meta}

\* compute_raft_outcome_advantage: negative scores are cut off.
RaftAdvantage(score, i) == [num |-> Max({0, score[i]}), den |-> config.buffer_len]

\* compute_grpo_outcome_advantage, but for the division by the group's standard
\* deviation; the mean of a group of one is taken to be zero.
GrpoAdvantage(score, i) ==
  LET n == Cardinality(Group(i)) IN
    IF n = 1 THEN [num |-> score[i], den |-> config.buffer_len]
    ELSE [num |-> n * score[i] - SumFunctionOnSet(score, Group(i)),
          den |-> n * config.buffer_len]

\* compute_rloo_outcome_advantage: against the mean of the other rows.
RlooAdvantage(score, i) ==
  LET n == Cardinality(Group(i)) IN
    IF n = 1 THEN [num |-> score[i], den |-> config.buffer_len]
    ELSE [num |-> n * score[i] - SumFunctionOnSet(score, Group(i)),
          den |-> (n - 1) * config.buffer_len]

\* compute_advantage
Advantage(score, i) ==
  CASE config.adv_estimator = "raft" -> RaftAdvantage(score, i)
    [] config.adv_estimator = "grpo" -> GrpoAdvantage(score, i)
    [] config.adv_estimator = "rloo" -> RlooAdvantage(score, i)

Mode ==
  IF config.gvm_reweight # "auto" THEN config.gvm_reweight
  ELSE IF config.adv_estimator = "raft" THEN "inv_np" ELSE "inv_n"

\* compute_gvm_reweight: what a row's weight divides by, before all weights are
\* scaled by one factor.  n_i p_i is the number of accepted rows.
Weight(score, i) ==
  LET accepted == Cardinality({j \in Group(i) : score[j] > 0}) IN
    CASE Mode = "off"    -> 1
      [] Mode = "inv_n"  -> Cardinality(Group(i))
      [] Mode = "inv_np" -> IF accepted = 0 THEN 1 ELSE accepted

\* The scores are joined by position; a list of extra information becomes a column
\* as it is, and the dispatch of the update fails on one of another length.
ComputeAdvantage ==
  /\ pc = "advantage" /\ reward.at \in {"done", "raised"}
  /\ IF reward.at = "raised" THEN Fail("reward") /\ UNCHANGED batch
     ELSE IF \E column \in reward.extra : Len(column) # Len(batch)
     THEN Fail("column of other rows") /\ UNCHANGED batch
     ELSE /\ \E correct \in SUBSET (Prompts \X {0, 1}) :
               LET score == [i \in DOMAIN batch |-> Score(correct, reward.scores[i])] IN
                 batch' = [i \in DOMAIN batch |->
                   [meta |-> batch[i].meta, prompts |-> batch[i].prompts,
                    response |-> batch[i].response,
                    old_log_probs |-> batch[i].old_log_probs, entropys |-> batch[i].entropys,
                    token_level_scores |-> [of |-> reward.scores[i], value |-> score[i]],
                    extra |-> {column[i] : column \in reward.extra},
                    advantages |-> [num |-> Advantage(score, i).num,
                                    den |-> Advantage(score, i).den * Weight(score, i)],
                    weight |-> Weight(score, i)]]
          /\ pc' = "trained" /\ UNCHANGED error
  /\ UNCHANGED <<config, budget, len, sample_size, pilot_reuse, outputs, arrived, reward>>

Next ==
  \/ SpendBudgets \/ Assemble \/ Balance \/ Union
  \/ StartReward \/ RewardReturns \/ RewardRaises \/ ComputeAdvantage
  \/ \E r \in Ranks : RankGenerates(r) \/ RankScores(r)

Spec == Init /\ [][Next]_vars

-----------------------------------------------------------------------------
(* Properties                                                                  *)

Assembled == pc \in {"balance", "reward", "score", "union", "advantage", "trained"}

\* The columns of a row are about one rollout: the metadata and the prompt are
\* those of the prompt its response answers, and its old log probabilities are
\* those of that response (its entropies too, where a rank has one micro batch and
\* there is nothing to put back), and so are its score and the extra information,
\* through copying, chunking, generation, pilots, balancing, micro batches and
\* reverting, with the reward computed beside, after a failure or at once.
RowsStayTogether ==
  pc = "trained" =>
    \A i \in DOMAIN batch :
      /\ batch[i].meta = batch[i].response.prompt
      /\ batch[i].prompts = batch[i].response.prompt
      /\ batch[i].old_log_probs = batch[i].response
      /\ num_micro_batches = 1 => batch[i].entropys = batch[i].response
      /\ batch[i].token_level_scores.of = batch[i].response
      /\ batch[i].extra \subseteq {batch[i].response}

\* From the assembly on, no generated rollout is lost and no rollout is trained
\* on twice; N responses per copy, and as many pilots as were set aside for the
\* prompts that have a copy.
EveryRolloutOnce ==
  Assembled =>
    /\ IsInjective([i \in DOMAIN batch |-> batch[i].response])
    /\ \A p \in Prompts :
         LET Of(pilot) == {i \in DOMAIN batch :
                             batch[i].response.prompt = p /\ batch[i].response.pilot = pilot}
         IN  /\ Cardinality(Of(FALSE)) = N * sample_size[p]
             /\ sample_size[p] > 0 => Cardinality(Of(TRUE)) = pilot_reuse[p]

\* The budgets together, rounded up to the GPUs of a node.
RoundedUp == config.n_gpus_per_node * ceildiv(Total(budget), config.n_gpus_per_node)

\* Without pilot reuse a batch with a budget is trained on, unless the reward cannot
\* be computed or its budgets, rounded up to the GPUs of a node, cannot be shared out
\* among the ranks of all the nodes: on one node they always can, and what gets
\* through the first call gets through them all, no rank with more micro batches
\* than rows.  All data sources have to score alike, with a dict or without.
BatchGetsThrough ==
  Pilots = 0 /\ config.dict_sources \in {{}, Prompts} =>
    \/ error \in {"none", "reward"}
    \/ error = "unequal chunks" /\ RoundedUp % World # 0

WeightedSum(rows) == SumFunctionOnSet([i \in rows |-> batch[i].advantages.num], rows)

RowsOf(p) == {i \in DOMAIN batch : batch[i].meta = p}
Solved(p) == \E i \in RowsOf(p) : batch[i].token_level_scores.value > 0

\* RAFT's accepted scores are at most one and nothing else adds to them; the others'
\* advantages cancel, and their weights add up to one.
CountsOnce(p) ==
  IF config.adv_estimator = "raft"
  THEN /\ ~ Solved(p) => WeightedSum(RowsOf(p)) = 0
       /\ Solved(p) => \A i \in RowsOf(p) : WeightedSum(RowsOf(p)) \in 1 .. batch[i].advantages.den
       /\ Solved(p) /\ Overlong(p) = 0 =>
            \A i \in RowsOf(p) : WeightedSum(RowsOf(p)) = batch[i].advantages.den
  ELSE /\ \A i \in RowsOf(p) : batch[i].weight = Cardinality(RowsOf(p))
       /\ Cardinality(RowsOf(p)) > 1 => WeightedSum(RowsOf(p)) = 0

\* A prompt counts once whatever its budget, pilots and padding.  Under RAFT the
\* weighted advantages of a prompt with an accepted response add up to more than zero
\* and to no more than one, to one where no penalty for length makes scores fractions,
\* and those of any other prompt add up to zero.  Under GRPO and RLOO the weights of a
\* prompt's rows add up to one, and what its better rows pull up its worse ones pull
\* down, if it has two.
EveryPromptCountsOnce ==
  pc = "trained" /\ config.gvm_reweight = "auto" => \A p \in Prompts : CountsOnce(p)

\* Every prompt is trained on with the rollouts its budget asked for, and all of
\* them together with fewer than one more copy per GPU of a node.
Spent ==
  /\ \A p \in Prompts : Cardinality(RowsOf(p)) >= N * budget[p]
  /\ Len(batch) < N * (Total(budget) + config.n_gpus_per_node)

\* "Spend part of each prompt's budget on pilots already drawn rather than
\* discarding them": with pilots the budget is spent as well.
PilotsCountTowardsTheBudget == Assembled => Spent
===============================================================================
