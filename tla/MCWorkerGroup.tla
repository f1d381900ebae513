---------------------------- MODULE MCWorkerGroup ----------------------------
(* Instances of WorkerGroup for TLC: three nodes, one of which holds two      *)
(* placement groups, and layouts of FSDP and of Megatron that cut four GPUs in   *)
(* every direction; one job has a single node, one asks for more than there are. *)
EXTENDS WorkerGroup

Fsdp == [strategy |-> "fsdp", tp |-> 1, cp |-> 1, dp |-> 4, pp |-> 1, nnodes |-> 2, n_gpus_per_node |-> 2]
Megatron == [Fsdp EXCEPT !.strategy = "megatron", !.dp = 1]

MCSettings ==
  {Fsdp, [Fsdp EXCEPT !.dp = 2, !.nnodes = 1], [Fsdp EXCEPT !.dp = 3, !.nnodes = 3, !.n_gpus_per_node = 1], [Fsdp EXCEPT !.nnodes = 4, !.n_gpus_per_node = 1],
   [Megatron EXCEPT !.tp = 2, !.dp = 2], [Megatron EXCEPT !.tp = 2, !.pp = 2], [Megatron EXCEPT !.tp = 2, !.cp = 2],
   [Megatron EXCEPT !.cp = 2, !.dp = 2], [Megatron EXCEPT !.dp = 2, !.pp = 2], [Megatron EXCEPT !.cp = 2, !.pp = 2]}

StagesSettings == {[Megatron EXCEPT !.dp = 2, !.pp = 2]}

ThreeNodes == 1 .. 3
TwoGpus == [n \in ThreeNodes |-> IF n = 3 THEN 4 ELSE 2]
SomeSizes == {1, 3, 6}
=============================================================================
