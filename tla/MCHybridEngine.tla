--------------------------- MODULE MCHybridEngine ---------------------------
(***************************************************************************)
(* HybridEngine on two ranks: every back end with one or two tensor         *)
(* parallel ranks, sequence parallel models next to others that are not,    *)
(* with and without offloading.                                             *)
(***************************************************************************)
EXTENDS HybridEngine

OneRank == [actor |-> 1, critic |-> 1, ref |-> 1, rm |-> 1]
ActorSplit == [OneRank EXCEPT !.actor = 2, !.ref = 2]
CriticSplit == [OneRank EXCEPT !.critic = 2]

Setting(backend, tp, ttp, sp, offload, others, n, free, val, baseline) ==
  [world |-> 2, engine |-> backend, tp |-> tp, ttp |-> ttp, sp |-> sp, offload |-> offload,
   others |-> others, n |-> n, free |-> free, val |-> val, baseline |-> baseline]

\* Left out: the Hugging Face back end with offloading or several responses; back ends
\* without validation parameters that sample for validation.
MCSettings ==
  {Setting("vllm", tp, tp, sp, offload, {"critic", "ref"}, 2, FALSE, "validation", ~offload) :
     tp \in {1, 2}, sp \in {ActorSplit, CriticSplit}, offload \in BOOLEAN}
  \cup {Setting("vllm063", tp, tp, sp, TRUE, {"critic", "ref"}, 2, free, "validation", TRUE) :
          tp \in {1, 2}, sp \in {ActorSplit, CriticSplit}, free \in BOOLEAN}
  \cup {[Setting("vllm", 2, 2, ActorSplit, TRUE, {}, 2, FALSE, "greedy", FALSE) EXCEPT !.world = 4]}
  \cup {Setting("untagged", tp, tp, ActorSplit, TRUE, {"rm"}, 2, FALSE, "greedy", TRUE) : tp \in {1, 2}}
  \cup {Setting("sglang", tp, tp, sp, TRUE, {"critic", "rm"}, 2, free, "greedy", TRUE) :
          tp \in {1, 2}, sp \in {OneRank, ActorSplit}, free \in BOOLEAN}
  \cup {Setting("hf", 1, 1, sp, FALSE, {"critic", "ref"}, 1, FALSE, "greedy", FALSE) :
          sp \in {OneRank, CriticSplit}}
  \cup {Setting("megatron", tp, 2, OneRank, TRUE, {"critic", "ref", "rm"}, 2, FALSE, "validation", TRUE) :
          tp \in {1, 2}}
=============================================================================
