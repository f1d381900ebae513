---------------------------- MODULE MCRolloutBatch -----------------------------
(* Instances of RolloutBatch for TLC: GRPO draws two responses per copy, RAFT  *)
(* one; the others reuse pilots, leave the rows unbalanced, or have two nodes.  *)
(* With its buffer of two tokens Raft gives half a point to a long response.    *)
EXTENDS RolloutBatch

Grpo == [nnodes |-> 1, n_gpus_per_node |-> 2, n |-> 2, pilots |-> 0,
         max_budget |-> 2, lens |-> {1},
         max_token_len |-> 2, balance_batch |-> TRUE,
         manager |-> "naive", async |-> FALSE, dict_sources |-> {1, 2}, wrong |-> 0,
         expected_len |-> 2, buffer_len |-> 2, penalty_factor |-> 1,
         adv_estimator |-> "grpo", gvm_reweight |-> "auto"]
Raft == [nnodes |-> 1, n_gpus_per_node |-> 3, n |-> 1, pilots |-> 0,
         max_budget |-> 2, lens |-> {1, 3},
         max_token_len |-> 4, balance_batch |-> TRUE,
         manager |-> "dapo", async |-> TRUE, dict_sources |-> {}, wrong |-> -1,
         expected_len |-> 2, buffer_len |-> 2, penalty_factor |-> 1,
         adv_estimator |-> "raft", gvm_reweight |-> "auto"]
Reuse == [nnodes |-> 1, n_gpus_per_node |-> 2, n |-> 1, pilots |-> 2,
          max_budget |-> 3, lens |-> {1, 3},
          max_token_len |-> 4, balance_batch |-> TRUE,
          manager |-> "prime", async |-> TRUE, dict_sources |-> {}, wrong |-> 0,
          expected_len |-> 2, buffer_len |-> 2, penalty_factor |-> 1,
          adv_estimator |-> "raft", gvm_reweight |-> "auto"]
Unbalanced == [Grpo EXCEPT !.n = 1, !.balance_batch = FALSE, !.manager = "batch",
                           !.dict_sources = {1}, !.gvm_reweight = "off"]
Rloo == [Unbalanced EXCEPT !.adv_estimator = "rloo", !.gvm_reweight = "auto",
                           !.dict_sources = {}, !.async = TRUE]
Nodes == [Rloo EXCEPT !.nnodes = 2, !.async = FALSE]

Everything == {Grpo, Raft, Reuse, Unbalanced, Rloo, Nodes}
OnlyReuse == {Reuse}
===============================================================================
