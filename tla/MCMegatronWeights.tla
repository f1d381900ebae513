--------------------------- MODULE MCMegatronWeights ---------------------------
(* Instances of MegatronWeights for TLC: small models over every kind of     *)
(* layout.                                                                   *)
EXTENDS MegatronWeights

Mcore ==
  [tp |-> 2, cp |-> 1, dp |-> 1, pp |-> 1, vpp |-> 1, layers |-> 1, heads |-> 4, groups |-> 2, inter |-> 4,
   vocab |-> 2, impl |-> "mcore", fetch |-> FALSE, bias |-> FALSE, tied |-> FALSE, value |-> FALSE,
   head |-> "lm", route |-> "merge", vllm |-> "new", infer_tp |-> 1]
Llama == [Mcore EXCEPT !.impl = "llama"]
Qwen2 == [Mcore EXCEPT !.impl = "qwen2", !.bias = TRUE]

\* Every route out of two stages with two virtual stages, four groups on two
\* ranks with biases, context and data parallel replicas, tied and value heads.
McoreSettings ==
  {[Mcore EXCEPT !.pp = 2, !.vpp = 2, !.layers = 4, !.tp = 1, !.route = r] : r \in {"merge", "stream", "files", "resume"}}
  \cup {[Mcore EXCEPT !.groups = 4, !.heads = 8, !.bias = TRUE, !.route = r] : r \in {"merge", "stream", "files"}}
  \cup {[Mcore EXCEPT !.cp = 2, !.dp = 2, !.route = r] : r \in {"merge", "resume"}}
  \cup {[Mcore EXCEPT !.pp = 2, !.layers = 2, !.tied = TRUE, !.route = r] : r \in {"merge", "stream", "files"}}
  \cup {[Mcore EXCEPT !.cp = 2, !.pp = 2, !.layers = 2, !.tp = 1, !.route = "merge"]}
  \cup {[Mcore EXCEPT !.pp = 2, !.layers = 2, !.tp = 1, !.dp = 2, !.route = "resume"]}
  \cup {[Mcore EXCEPT !.tied = TRUE, !.route = "stream"]}
  \cup {[Mcore EXCEPT !.tp = 4, !.groups = 4, !.vocab = 4, !.route = "stream", !.infer_tp = 2]}
  \cup {[Mcore EXCEPT !.value = TRUE, !.head = h, !.route = r] : h \in {"lm", "lm1", "reward"}, r \in {"merge", "files"}}
  \cup {[Mcore EXCEPT !.route = "stream", !.vllm = "old", !.infer_tp = t] : t \in {1, 2}}

OlderSettings ==
  UNION {
    {[m EXCEPT !.fetch = f, !.pp = 2, !.vpp = v, !.layers = 2 * v, !.tp = 1] : f \in BOOLEAN, v \in {1, 2}}
    \cup {[m EXCEPT !.fetch = f, !.groups = 4, !.dp = 2] : f \in BOOLEAN}
    \cup {[m EXCEPT !.fetch = f, !.tp = 4, !.groups = 2, !.heads = 4, !.vocab = 4] : f \in BOOLEAN}
    \cup {[m EXCEPT !.value = TRUE, !.head = h] : h \in {"lm", "lm1", "reward"}} : m \in {Llama, Qwen2}}
  \cup {[Qwen2 EXCEPT !.tied = TRUE, !.fetch = f] : f \in BOOLEAN}

MCSettings == McoreSettings \cup OlderSettings
=============================================================================
