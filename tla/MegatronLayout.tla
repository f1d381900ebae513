----------------------------- MODULE MegatronLayout -----------------------------
(***************************************************************************)
(* How the tensors of a model are laid out over Megatron's ranks: the       *)
(* coordinates of a rank, the stage and chunk of a layer, the shards that a *)
(* tensor is cut into and how shards are put together again.  Definitions   *)
(* only; MegatronWeights moves the tensors.                                 *)
(*                                                                         *)
(* A tensor is the sequence of its blocks along the dimension it is cut    *)
(* in: an attention head, a row of the vocabulary, a neuron of the MLP.    *)
(* Layers and ranks are numbered from 0, as in the code.  A name with an    *)
(* underscore, Shard_Blocks, is the wrong version of the definition after   *)
(* it and is used by nothing.                                               *)
(***************************************************************************)
EXTENDS Integers, Sequences, SequencesExt, Functions, FiniteSets

CONSTANT Settings      \* the layouts, models and routes a run may have

\* tp, cp, dp, pp, vpp: the parallel sizes (vpp is 1 without virtual stages);
\* layers, heads, groups, inter, vocab: the model's sizes, counted in blocks;
\* impl: whose code loads and saves; fetch: its newer loader, which does not
\* broadcast; bias: the q, k and v projections have biases; tied: the output
\* layer is the embedding; value, head: a value model, and the head that the
\* state dict has ("lm": a row per token, "lm1" and "reward": one row).
\* route: the way the weights leave; vllm, infer_tp: the engine they stream to.
\* Megatron itself refuses query groups that are not divided by tp; the older
\* models give ranks that share a group a copy of it each.
ASSUME SettingsAssumption ==
  \A c \in Settings :
    /\ {c.tp, c.cp, c.dp, c.pp, c.vpp, c.layers, c.heads, c.groups, c.inter, c.vocab} \subseteq Nat \ {0}
    /\ c.layers % (c.pp * c.vpp) = 0 /\ c.heads % c.tp = 0 /\ c.heads % c.groups = 0
    /\ c.inter % c.tp = 0 /\ c.vocab % c.tp = 0
    /\ c.impl \in {"mcore", "llama", "qwen2"} /\ {c.fetch, c.bias, c.tied, c.value} \subseteq BOOLEAN
    /\ IF c.impl = "mcore" THEN c.groups % c.tp = 0 /\ ~ c.fetch
       ELSE c.cp = 1 /\ (c.groups % c.tp = 0 \/ c.tp % c.groups = 0)
    /\ c.bias = (c.impl = "qwen2") \/ c.impl = "mcore"
    /\ c.head \in (IF c.value THEN {"lm", "lm1", "reward"} ELSE {"lm"})
    /\ c.tied => ~ c.value /\ c.impl # "llama"
    /\ c.route \in (IF c.impl = "mcore" THEN {"merge", "stream", "files", "resume"} ELSE {"merge"})
    /\ c.value => c.route # "stream"
    /\ c.vllm \in {"new", "old"} /\ c.infer_tp \in 1 .. c.tp /\ c.tp % c.infer_tp = 0

VARIABLE config          \* the setting of this run

TP == config.tp
CP == config.cp
DP == config.dp
PP == config.pp
VPP == config.vpp
Layers == config.layers

World == TP * CP * DP * PP
Ranks == 0 .. World - 1

\* Megatron numbers ranks with the tensor coordinate fastest: tp-cp-dp-pp.
Tp(r) == r % TP
Cp(r) == (r \div TP) % CP
Dp(r) == (r \div (TP * CP)) % DP
Pp(r) == r \div (TP * CP * DP)

GlobalRank(tp, dp, pp, cp) == ((pp * DP + dp) * CP + cp) * TP + tp
LlamaGlobalRank(tp, dp, pp) == (pp * DP + dp) * TP + tp
Qwen2GlobalRank(tp, dp, pp) == LlamaGlobalRank(tp, dp, pp)

ModelGroup(r) == {s \in Ranks : Dp(s) = Dp(r) /\ Cp(s) = Cp(r)}
PipeGroup(r) == {s \in Ranks : Tp(s) = Tp(r) /\ Dp(s) = Dp(r) /\ Cp(s) = Cp(r)}
TensorGroup(r) == {s \in Ranks : Pp(s) = Pp(r) /\ Dp(s) = Dp(r) /\ Cp(s) = Cp(r)}
DataGroup(r) == {s \in Ranks : Tp(s) = Tp(r) /\ Pp(s) = Pp(r) /\ Cp(s) = Cp(r)}

-----------------------------------------------------------------------------
(* Names, and where a parameter is                                             *)

Block(key, n) == [i \in 1 .. n |-> <<key[1], key[2], i>>]

LayerSize ==
  [norm1 |-> 1, q |-> config.heads, k |-> config.groups, v |-> config.groups,
   q_bias |-> config.heads, k_bias |-> config.groups, v_bias |-> config.groups,
   o |-> config.heads, norm2 |-> 1, gate |-> config.inter, up |-> config.inter, down |-> config.inter]
LayerNames == DOMAIN LayerSize \ (IF config.bias THEN {} ELSE {"q_bias", "k_bias", "v_bias"})

HeadKey == IF config.head = "reward" THEN <<"reward_head", 0>> ELSE <<"lm_head", 0>>

\* The state dict a run starts from: Hugging Face's names.  A tied model has
\* the embedding under both names.
HfKeys == {<<"embed", 0>>, <<"norm", 0>>, HeadKey} \cup (LayerNames \X (0 .. Layers - 1))
HfTensor(key) ==
  CASE key[1] = "embed" -> Block(key, config.vocab)
    [] key[1] = "norm" -> Block(key, 1)
    [] key = HeadKey -> IF config.tied THEN Block(<<"embed", 0>>, config.vocab)
                        ELSE Block(key, IF config.head = "lm" THEN config.vocab ELSE 1)
    [] OTHER -> Block(key, LayerSize[key[1]])

PerChunk == (Layers \div PP) \div VPP

\* _megatron_calc_layer_map: pipeline rank, virtual rank and index of a layer.
LayerMap ==
  [l \in 0 .. Layers - 1 |->
    CHOOSE p \in (0 .. PP - 1) \X (0 .. VPP - 1) \X (0 .. PerChunk - 1) :
      l = p[2] * (Layers \div VPP) + p[1] * PerChunk + p[3]]
LlamaLayerMap == LayerMap
Qwen2LayerMap == LayerMap

\* The savers calculate theirs themselves.
SaverLayerMap == LayerMap
LlamaSaverLayerMap == LlamaLayerMap
Qwen2SaverLayerMap == Qwen2LayerMap

LoadersMap ==
  CASE config.impl = "mcore" -> LayerMap [] config.impl = "llama" -> LlamaLayerMap [] OTHER -> Qwen2LayerMap
SaversMap ==
  CASE config.impl = "mcore" -> SaverLayerMap [] config.impl = "llama" -> LlamaSaverLayerMap
    [] OTHER -> Qwen2SaverLayerMap

\* A call: how the tensors from of the state dict make the parameter to.
Op(how, from, to) == [how |-> how, from |-> from, to |-> to]

Home(op, map) ==
  CASE op.to[1] = "embedding" -> <<0, 0, 0>>
    [] op.to[1] \in {"final_layernorm", "output_layer"} -> <<PP - 1, VPP - 1, 0>>
    [] OTHER -> map[op.to[2]]
Local(op, map) == <<op.to[1], Home(op, map)[2], Home(op, map)[3]>>

\* The parameters of a model chunk, in named_parameters' order.
LayerParams == <<"norm1", "qkv">> \o (IF config.bias THEN <<"qkv_bias">> ELSE <<>>)
               \o <<"proj", "norm2", "fc1", "fc2">>
ChunkParams(pp, vpp) ==
  (IF pp = 0 /\ vpp = 0 THEN <<<<"embedding", vpp, 0>>>> ELSE <<>>)
  \o FlattenSeq([i \in 1 .. PerChunk |->
       [j \in 1 .. Len(LayerParams) |-> <<LayerParams[j], vpp, i - 1>>]])
  \o (IF pp = PP - 1 /\ vpp = VPP - 1
      THEN <<<<"final_layernorm", vpp, 0>>>>
           \o (IF config.tied /\ PP = 1 THEN <<>> ELSE <<<<"output_layer", vpp, 0>>>>)
      ELSE <<>>)
ParamsOf(r) == UNION {ToSet(ChunkParams(Pp(r), vpp)) : vpp \in 0 .. VPP - 1}

\* Freshly built parameters: nothing of the state dict.
Fresh(r) == [p \in ParamsOf(r) |-> <<<<"fresh", 0, 1>>>>]

-----------------------------------------------------------------------------
(* Cutting tensors into shards                                                 *)

\* torch.chunk: the i-th of n pieces of a tensor that n divides.
Chunk(s, n, i) == SubSeq(s, i * (Len(s) \div n) + 1, (i + 1) * (Len(s) \div n))
Cat(n, piece(_)) == FlattenSeq([i \in 1 .. n |-> piece(i - 1)])

\* One query group after the other: its queries, its key, its value.
QkvShard_Blocks(q, k, v, i) == Chunk(q, TP, i) \o Chunk(k, TP, i) \o Chunk(v, TP, i)
QkvShard(q, k, v, i) ==
  LET groups == config.groups \div TP
      Group(j) == Chunk(Chunk(q, TP, i), groups, j) \o Chunk(Chunk(k, TP, i), groups, j)
                  \o Chunk(Chunk(v, TP, i), groups, j)
  IN  Cat(groups, Group)

\* The older models: all queries, all keys, all values of the rank; with fewer
\* groups than ranks, a copy of the group its queries belong to.
LlamaQkvShard_OwnGroup(q, k, v, i) ==
  IF config.groups >= TP THEN QkvShard_Blocks(q, k, v, i)
  ELSE LET g == i % config.groups
       IN  Chunk(q, TP, i) \o Chunk(k, config.groups, g) \o Chunk(v, config.groups, g)
LlamaQkvShard(q, k, v, i) ==
  IF config.groups >= TP THEN QkvShard_Blocks(q, k, v, i)
  ELSE LET g == (i * config.groups) \div TP
       IN  Chunk(q, TP, i) \o Chunk(k, config.groups, g) \o Chunk(v, config.groups, g)
Qwen2QkvShard(q, k, v, i) == LlamaQkvShard(q, k, v, i)
LlamaFetchQkvShard(q, k, v, i) == LlamaQkvShard(q, k, v, i)
Qwen2FetchQkvShard(q, k, v, i) == LlamaQkvShard(q, k, v, i)

GateUpShard(gate, up, i) == Chunk(gate, TP, i) \o Chunk(up, TP, i)

\* The helpers around the calls: a tensor that everybody gets whole, one that
\* is cut in tp chunks, and the two fused ones.
Shard(op, i) ==
  LET t(n) == HfTensor(op.from[n])
  IN  CASE op.how = "whole" -> t(1)
        [] op.how = "chunks" -> Chunk(t(1), TP, i)
        [] op.how = "gate_up" -> GateUpShard(t(1), t(2), i)
        [] op.how = "qkv" -> QkvShard(t(1), t(2), t(3), i)
LlamaShard(op, i) ==
  LET t(n) == HfTensor(op.from[n])
  IN  IF op.how = "qkv" THEN LlamaQkvShard(t(1), t(2), t(3), i) ELSE Shard(op, i)
Qwen2Shard(op, i) == LlamaShard(op, i)
LlamaFetchShard(op, i) == LlamaShard(op, i)
Qwen2FetchShard(op, i) == LlamaShard(op, i)

ShardOf(op, i) ==
  IF config.impl = "mcore" THEN Shard(op, i)
  ELSE IF config.fetch
  THEN IF config.impl = "llama" THEN LlamaFetchShard(op, i) ELSE Qwen2FetchShard(op, i)
  ELSE IF config.impl = "llama" THEN LlamaShard(op, i) ELSE Qwen2Shard(op, i)

-----------------------------------------------------------------------------
(* Merging on rank 0                                                           *)

\* The ranks' shards of a fused tensor, back to the tensors it was made of.
MergeGateUp(shards) ==
  <<Cat(TP, LAMBDA i : Chunk(shards[i], 2, 0)), Cat(TP, LAMBDA i : Chunk(shards[i], 2, 1))>>

\* Per query group: its queries, then its key and its value.
MergeQkv(shards) ==
  LET groups == config.groups \div TP
      queries == config.heads \div config.groups
      Group(i, j) == Chunk(shards[i], groups, j)
      Of(i, from, to) == Cat(groups, LAMBDA j : SubSeq(Group(i, j), from, to))
  IN  <<Cat(TP, LAMBDA i : Of(i, 1, queries)),
        Cat(TP, LAMBDA i : Of(i, queries + 1, queries + 1)),
        Cat(TP, LAMBDA i : Of(i, queries + 2, queries + 2))>>

\* The older models' ranks; of the copies of a group only one is kept.
LlamaMergeQkv_KeepsCopies(shards) ==
  LET q == config.heads \div TP
      kv == IF config.groups >= TP THEN config.groups \div TP ELSE 1
  IN  <<Cat(TP, LAMBDA i : SubSeq(shards[i], 1, q)),
        Cat(TP, LAMBDA i : SubSeq(shards[i], q + 1, q + kv)),
        Cat(TP, LAMBDA i : SubSeq(shards[i], q + kv + 1, q + 2 * kv))>>
LlamaMergeQkv(shards) ==
  LET q == config.heads \div TP
      kv == IF config.groups >= TP THEN config.groups \div TP ELSE 1
      Kept(i, s) == IF config.groups >= TP \/ (i * config.groups) % TP = 0 THEN s ELSE <<>>
  IN  <<Cat(TP, LAMBDA i : SubSeq(shards[i], 1, q)),
        Cat(TP, LAMBDA i : Kept(i, SubSeq(shards[i], q + 1, q + kv))),
        Cat(TP, LAMBDA i : Kept(i, SubSeq(shards[i], q + kv + 1, q + 2 * kv)))>>
Qwen2MergeQkv(shards) == LlamaMergeQkv(shards)

Merge(op, shards) ==
  CASE op.how = "whole" -> <<shards[0]>>
    [] op.how = "chunks" -> <<Cat(TP, LAMBDA i : shards[i])>>
    [] op.how = "gate_up" -> MergeGateUp(shards)
    [] op.how = "qkv" -> MergeQkv(shards)
LlamaMerge(op, shards) == IF op.how = "qkv" THEN LlamaMergeQkv(shards) ELSE Merge(op, shards)
Qwen2Merge(op, shards) == IF op.how = "qkv" THEN Qwen2MergeQkv(shards) ELSE Merge(op, shards)

Add(dict, keys, tensors) ==
  [k \in DOMAIN dict \cup ToSet(keys) |->
    IF k \in ToSet(keys) THEN tensors[CHOOSE i \in DOMAIN keys : keys[i] = k] ELSE dict[k]]
=============================================================================
