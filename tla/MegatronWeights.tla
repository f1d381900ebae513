----------------------------- MODULE MegatronWeights ----------------------------
(***************************************************************************)
(* The weights of a model spread over Megatron's ranks and brought back.   *)
(* A Hugging Face state dict is loaded (rank 0 of every model group         *)
(* broadcasts it, or every rank fetches its own part), copied to the data  *)
(* parallel replicas, and then leaves the ranks along one of four routes:  *)
(* merged on rank 0, streamed tensor by tensor into vLLM, written as one   *)
(* file per rank and merged offline, or written and read back by a new run.*)
(* Every rank runs a program of collective calls; a call happens when all  *)
(* ranks of its group have come to it.                                     *)
(***************************************************************************)
EXTENDS MegatronLayout

VARIABLES
  phase,       \* of each rank: "load", "ready" (weights in place), "saved",
               \* "restarted", "refused" (a call has raised), "done"
  todo,        \* the calls each rank still has to make in its phase
  part,        \* the parameters each rank holds
  held,        \* the tensor a rank has from its pipeline group while streaming
  out,         \* the state dict each rank has collected (merged: rank 0 alone)
  disk         \* the files of a checkpoint, by tensor and pipeline rank

vars == <<config, phase, todo, part, held, out, disk>>

-----------------------------------------------------------------------------
(* The loaders' and savers' programs                                           *)

Layer(l, bias) ==
  <<Op("whole", <<<<"norm1", l>>>>, <<"norm1", l>>),
    Op("qkv", <<<<"q", l>>, <<"k", l>>, <<"v", l>>>>, <<"qkv", l>>)>>
  \o (IF bias THEN <<Op("qkv", <<<<"q_bias", l>>, <<"k_bias", l>>, <<"v_bias", l>>>>, <<"qkv_bias", l>>)>>
      ELSE <<>>)
  \o <<Op("chunks", <<<<"o", l>>>>, <<"proj", l>>),
       Op("whole", <<<<"norm2", l>>>>, <<"norm2", l>>),
       Op("gate_up", <<<<"gate", l>>, <<"up", l>>>>, <<"fc1", l>>),
       Op("chunks", <<<<"down", l>>>>, <<"fc2", l>>)>>

Embedding == Op("chunks", <<<<"embed", 0>>>>, <<"embedding", 0>>)
FinalNorm == Op("whole", <<<<"norm", 0>>>>, <<"final_layernorm", 0>>)
Layered(bias) == FlattenSeq([l \in 1 .. Layers |-> Layer(l - 1, bias)])

\* A value model takes a head of one row if there is one, and keeps its own
\* otherwise: the call is made, into a tensor that is thrown away.
HeadLoads_OnlyReward ==
  IF ~ config.value THEN <<Op("chunks", <<<<"lm_head", 0>>>>, <<"output_layer", 0>>)>>
  ELSE IF config.head = "reward" THEN <<Op("whole", <<HeadKey>>, <<"output_layer", 0>>)>>
  ELSE <<Op("whole", <<<<"lm_head", 0>>>>, <<"nothing", 0>>)>>
HeadLoads ==
  IF ~ config.value THEN <<Op("chunks", <<<<"lm_head", 0>>>>, <<"output_layer", 0>>)>>
  ELSE IF config.head = "lm" THEN <<Op("whole", <<<<"lm_head", 0>>>>, <<"nothing", 0>>)>>
  ELSE <<Op("whole", <<HeadKey>>, <<"output_layer", 0>>)>>

Loads == <<Embedding>> \o Layered(<<"q_bias", 0>> \in HfKeys) \o <<FinalNorm>> \o HeadLoads
LlamaLoads == <<Embedding>> \o Layered(FALSE) \o <<FinalNorm>> \o HeadLoads
Qwen2Loads == <<Embedding>> \o Layered(TRUE) \o <<FinalNorm>> \o (IF config.tied THEN <<>> ELSE HeadLoads)

\* The fetching loaders go through the layers of their own stage, without
\* calls, and wait for the others at the end.
OwnLayers(r, bias) ==
  FlattenSeq([v \in 1 .. VPP |->
    FlattenSeq([i \in 1 .. PerChunk |->
      Layer((v - 1) * (Layers \div VPP) + Pp(r) * PerChunk + i - 1, bias)])])
LlamaFetches(r) ==
  <<Embedding>> \o OwnLayers(r, FALSE) \o <<FinalNorm>> \o (IF Pp(r) + 1 = PP THEN HeadLoads ELSE <<>>)
Qwen2Fetches(r) ==
  (IF Pp(r) = 0 THEN <<Embedding>> ELSE <<>>) \o OwnLayers(r, TRUE) \o <<FinalNorm>>
  \o (IF Pp(r) + 1 = PP /\ ~ config.tied THEN HeadLoads ELSE <<>>)

SavedHead ==
  <<IF config.value THEN Op("whole", <<<<"lm_head", 0>>>>, <<"output_layer", 0>>)
    ELSE Op("chunks", <<<<"lm_head", 0>>>>, <<"output_layer", 0>>)>>
HasBias == \E p \in ParamsOf(0) : p[1] = "qkv_bias"
Saves == <<Embedding>> \o Layered(HasBias) \o <<FinalNorm>> \o (IF config.tied THEN <<>> ELSE SavedHead)
LlamaSaves == <<Embedding>> \o Layered(FALSE) \o <<FinalNorm>> \o SavedHead
Qwen2Saves == <<Embedding>> \o Layered(TRUE) \o <<FinalNorm>> \o (IF config.tied THEN <<>> ELSE SavedHead)

\* What every rank learns of every stage first: stage by stage, chunk by chunk.
Meta ==
  FlattenSeq([p \in 1 .. PP |-> FlattenSeq([v \in 1 .. VPP |->
    LET params == ChunkParams(p - 1, v - 1)
    IN  [i \in DOMAIN params |-> [pp |-> p - 1, vpp |-> v - 1, param |-> params[i]]]])])

\* What rank r calls to load and to give away its weights; the replicas of a
\* broadcasting loader only wait.
LoadCalls(r) ==
  CASE config.fetch -> IF config.impl = "llama" THEN LlamaFetches(r) ELSE Qwen2Fetches(r)
    [] ~ config.fetch /\ Dp(r) = 0 ->
         IF config.impl = "mcore" THEN Loads ELSE IF config.impl = "llama" THEN LlamaLoads ELSE Qwen2Loads
    [] OTHER -> <<>>
MergeCalls(r) ==
  IF Dp(r) # 0 \/ Cp(r) # 0 THEN <<>>
  ELSE IF config.impl = "mcore" THEN Saves ELSE IF config.impl = "llama" THEN LlamaSaves ELSE Qwen2Saves

\* The ranks of a group have all come to the same call.
Lead(g) == CHOOSE r \in g : \A s \in g : r <= s
Meet(g, ph) ==
  \A r \in g : phase[r] = ph /\ todo[r] # <<>> /\ todo[r][1] = todo[Lead(g)][1]
Due(g) == todo[Lead(g)][1]
Advance(g) == todo' = [r \in Ranks |-> IF r \in g THEN Tail(todo[r]) ELSE todo[r]]
Finish(g, how) == phase' = [r \in Ranks |-> IF r \in g THEN how ELSE phase[r]]

-----------------------------------------------------------------------------
(* Loading                                                                     *)

Init ==
  /\ config \in Settings
  /\ phase = [r \in Ranks |-> "load"] /\ todo = [r \in Ranks |-> LoadCalls(r)]
  /\ part = [r \in Ranks |-> Fresh(r)]
  /\ held = [r \in Ranks |-> <<>>]
  /\ out = [r \in Ranks |-> <<>>] /\ disk = <<>>

\* A parameter that is on this rank; models[dst_vpp].decoder.layers[idx].
Holds(r, op) == op.to[1] # "nothing" /\ Home(op, LoadersMap)[1] = Pp(r) /\ Local(op, LoadersMap) \in DOMAIN part[r]

\* The first rank of the model group sends the shape, then one shard after the
\* other; a rank keeps the shard of its tensor rank if the layer is its own.
Broadcast(g) ==
  /\ ~ config.fetch
  /\ Meet(g, "load")
  /\ LET op == Due(g)
     IN  part' = [r \in Ranks |->
              IF r \in g /\ Holds(r, op) THEN [part[r] EXCEPT ![Local(op, LoadersMap)] = ShardOf(op, Tp(r))]
              ELSE part[r]]
  /\ Advance(g) /\ UNCHANGED <<config, phase, held, out, disk>>

\* The older models' newer loaders: each rank copies what it finds, one tensor
\* after the other, and hears of nobody until all are through.
Fetch(r) ==
  /\ config.fetch /\ phase[r] = "load" /\ todo[r] # <<>>
  /\ LET own == {op \in ToSet(todo[r]) : Holds(r, op)}
     IN  part' = [part EXCEPT ![r] = [p \in ParamsOf(r) |->
           IF \E op \in own : Local(op, LoadersMap) = p
           THEN ShardOf(CHOOSE op \in own : Local(op, LoadersMap) = p, Tp(r)) ELSE part[r][p]]]
  /\ todo' = [todo EXCEPT ![r] = <<>>]
  /\ UNCHANGED <<config, phase, held, out, disk>>

\* broadcast_params in every data parallel group, once all ranks are loaded.
\* The fetching loaders have nothing to copy.
Replicate(g) ==
  /\ \A r \in Ranks : phase[r] = "load" => todo[r] = <<>>
  /\ \A r \in g : phase[r] = "load"
  /\ part' = IF config.fetch THEN part
             ELSE [r \in Ranks |-> IF r \in g THEN part[CHOOSE s \in g : Dp(s) = 0] ELSE part[r]]
  /\ todo' = [r \in Ranks |->
       IF r \notin g THEN todo[r]
       ELSE CASE config.route = "merge" -> MergeCalls(r) [] config.route = "stream" -> Meta [] OTHER -> <<>>]
  /\ Finish(g, "ready") /\ UNCHANGED <<config, held, out, disk>>

-----------------------------------------------------------------------------
(* Merging on rank 0                                                           *)

\* Each tensor rank of the stage that has the layer sends its shard to the
\* model group; global rank 0 keeps what it hears.
Collect(g) ==
  /\ config.route = "merge" /\ Meet(g, "ready")
  /\ LET op == Due(g)
         Source(i) == IF config.impl = "mcore" THEN GlobalRank(i, 0, Home(op, SaversMap)[1], Cp(Lead(g)))
                      ELSE IF config.impl = "llama" THEN LlamaGlobalRank(i, 0, Home(op, SaversMap)[1])
                      ELSE Qwen2GlobalRank(i, 0, Home(op, SaversMap)[1])
         shards == [i \in 0 .. TP - 1 |-> part[Source(i)][Local(op, SaversMap)]]
         merged == IF config.impl = "mcore" THEN Merge(op, shards)
                   ELSE IF config.impl = "llama" THEN LlamaMerge(op, shards) ELSE Qwen2Merge(op, shards)
     IN  /\ \A i \in 0 .. TP - 1 : Source(i) \in g
         /\ out' = [r \in Ranks |-> IF r \in g /\ r = 0 THEN Add(out[r], op.from, merged) ELSE out[r]]
  /\ Advance(g) /\ UNCHANGED <<config, phase, part, held, disk>>

EndMerge ==
  /\ config.route = "merge"
  /\ \A r \in Ranks : phase[r] = "ready" /\ todo[r] = <<>>
  /\ Finish(Ranks, "done") /\ UNCHANGED <<config, todo, part, held, out, disk>>

-----------------------------------------------------------------------------
(* Streaming into vLLM                                                         *)

\* normalize_model_name: the layer number in the whole model.
LayerOffset(pp, vpp) == IF VPP > 1 THEN PerChunk * pp + (PerChunk * PP) * vpp ELSE (Layers \div PP) * pp

HfLayerNames ==
  [norm1 |-> <<"norm1">>, qkv |-> <<"q", "k", "v">>, qkv_bias |-> <<"q_bias", "k_bias", "v_bias">>,
   proj |-> <<"o">>, norm2 |-> <<"norm2">>, fc1 |-> <<"gate", "up">>, fc2 |-> <<"down">>]

\* The names a parameter has in the inference engine; the older vLLM versions
\* take the fused tensors under one name.
ConvertParam(item) ==
  CASE item.param[1] = "embedding" -> <<<<"embed", 0>>>>
    [] item.param[1] = "final_layernorm" -> <<<<"norm", 0>>>>
    [] item.param[1] = "output_layer" -> <<<<"lm_head", 0>>>>
    [] OTHER -> LET names == HfLayerNames[item.param[1]]
                    l == item.param[3] + LayerOffset(item.pp, item.vpp)
                IN  [i \in DOMAIN names |-> <<names[i], l>>]
ConvertFused(item) ==
  IF item.param[1] \in {"qkv", "qkv_bias", "fc1"}
  THEN <<<<item.param[1], item.param[3] + LayerOffset(item.pp, item.vpp)>>>>
  ELSE ConvertParam(item)

IsParallel(param) == param[1] \notin {"norm1", "norm2", "final_layernorm"}

\* default_tp_concat_fn over the shards that were gathered, any number of them.
Concat(param, shards) ==
  LET n == Cardinality(DOMAIN shards)
      groups == config.groups \div TP
      queries == config.heads \div config.groups
      Of(i, from, to) == Cat(groups, LAMBDA j : SubSeq(Chunk(shards[i], groups, j), from, to))
  IN  CASE param[1] \in {"qkv", "qkv_bias"} ->
             <<Cat(n, LAMBDA i : Of(i, 1, queries)), Cat(n, LAMBDA i : Of(i, queries + 1, queries + 1)),
               Cat(n, LAMBDA i : Of(i, queries + 2, queries + 2))>>
        [] param[1] = "fc1" ->
             <<Cat(n, LAMBDA i : Chunk(shards[i], 2, 0)), Cat(n, LAMBDA i : Chunk(shards[i], 2, 1))>>
        [] OTHER -> <<Cat(n, LAMBDA i : shards[i])>>

Streaming(g) == config.route = "stream" /\ Meet(g, "ready")

\* The owner of the parameter takes the next of its generator and tells its
\* pipeline group the name and the tensor.
PipelineBroadcast(g) ==
  /\ Streaming(g) /\ \A r \in g : held[r] = <<>>
  /\ LET item == Due(g)
         owner == CHOOSE r \in g : Pp(r) = item.pp
     IN  held' = [r \in Ranks |-> IF r \in g THEN part[owner][item.param] ELSE held[r]]
  /\ UNCHANGED <<config, phase, todo, part, out, disk>>

\* A parallel tensor is gathered from the tensor group, another one is as it
\* is on the rank itself.  With vLLM up to 0.6.3 the list has as many places
\* as the micro data parallel group has ranks; with one place nothing is
\* gathered, and all_gather takes no list that is shorter than its group.
Places_ByInference == TP \div config.infer_tp
Places == IF config.vllm = "old" THEN TP \div config.infer_tp ELSE TP
Gathers(param) == IsParallel(param) /\ Places > 1

Yielded(r, item, shards) ==
  LET tensors == Concat(item.param, shards)
  IN  IF ~ IsParallel(item.param) THEN Add(out[r], ConvertParam(item), <<held[r]>>)
      ELSE IF config.vllm = "old" THEN Add(out[r], ConvertFused(item), <<FlattenSeq(tensors)>>)
      ELSE Add(out[r], ConvertParam(item), tensors)

Yield(g, item, shards(_)) ==
  /\ out' = [r \in Ranks |-> IF r \in g THEN Yielded(r, item, shards(r)) ELSE out[r]]
  /\ held' = [r \in Ranks |-> IF r \in g THEN <<>> ELSE held[r]]
  /\ Advance(g) /\ UNCHANGED <<config, phase, part, disk>>

YieldOwn(r) ==
  /\ Streaming({r}) /\ held[r] # <<>>
  /\ LET item == Due({r})
     IN  ~ Gathers(item.param) /\ Yield({r}, item, LAMBDA s : [i \in {0} |-> held[s]])

TensorGather(g) ==
  /\ Streaming(g) /\ \A r \in g : held[r] # <<>>
  /\ LET item == Due(g)
     IN  /\ Gathers(item.param)
         /\ IF Places < TP
            THEN Finish(g, "refused") /\ UNCHANGED <<config, todo, part, held, out, disk>>
            ELSE Yield(g, item, LAMBDA s : [i \in 0 .. TP - 1 |-> held[CHOOSE t \in g : Tp(t) = i]])

\* The generator of a rank has ended and its engine has loaded the weights.
EndStream(r) ==
  /\ config.route = "stream" /\ phase[r] = "ready" /\ todo[r] = <<>>
  /\ Finish({r}, "done") /\ UNCHANGED <<config, todo, part, held, out, disk>>

-----------------------------------------------------------------------------
(* Files, read back by a new run or merged offline                             *)

\* mp_rank_<tensor rank>[_<pipeline rank>]: one file for all the replicas.
FileName(r) == IF PP > 1 THEN <<Tp(r), Pp(r)>> ELSE <<Tp(r)>>

\* save_checkpoint: the first data parallel ranks write, every context rank
\* the same file, and a barrier holds all of them.
WriteShard(r) ==
  /\ config.route \in {"files", "resume"} /\ phase[r] = "ready"
  /\ disk' = IF Dp(r) = 0 THEN Add(disk, <<FileName(r)>>, <<part[r]>>) ELSE disk
  /\ Finish({r}, "saved") /\ UNCHANGED <<config, todo, part, held, out>>

Restart ==
  /\ config.route = "resume" /\ \A r \in Ranks : phase[r] = "saved"
  /\ part' = [r \in Ranks |-> Fresh(r)]
  /\ Finish(Ranks, "restarted") /\ UNCHANGED <<config, todo, held, out, disk>>

ReadShard(r) ==
  /\ phase[r] = "restarted"
  /\ part' = [part EXCEPT ![r] = disk[FileName(r)]]
  /\ Finish({r}, "done") /\ UNCHANGED <<config, todo, held, out, disk>>

\* The offline merger goes chunk by chunk over all stages and numbers the
\* layers by the highest number that it has seen in each.
FileOf(tp, pp) == disk[CHOOSE n \in DOMAIN disk : n[1] = tp /\ (IF Len(n) = 2 THEN n[2] ELSE 0) = pp]
FileTp == Cardinality({n[1] : n \in DOMAIN disk})
FilePp == Cardinality({IF Len(n) = 2 THEN n[2] ELSE 0 : n \in DOMAIN disk})
LayersHandled(pp, vpp) ==
  1 + (CHOOSE m \in {p[3] : p \in {q \in DOMAIN FileOf(0, pp) : q[2] = vpp}} :
         \A p \in DOMAIN FileOf(0, pp) : p[2] = vpp => p[3] <= m)
MergedOffset(pp, vpp) ==
  LET before == {c \in (0 .. FilePp - 1) \X (0 .. VPP - 1) : c[2] < vpp \/ (c[2] = vpp /\ c[1] < pp)}
  IN  FoldFunction(+, 0, [c \in before |-> LayersHandled(c[1], c[2])])

\* _merge_across_tp
MergeAcrossTp(param, shards) ==
  CASE param[1] = "fc1" -> MergeGateUp(shards)
    [] param[1] \in {"qkv", "qkv_bias"} -> MergeQkv(shards)
    [] param[1] \in {"norm1", "norm2", "final_layernorm"} -> <<shards[0]>>
    [] param[1] = "output_layer" /\ config.value -> <<shards[0]>>
    [] OTHER -> <<Cat(FileTp, LAMBDA i : shards[i])>>

MergedName(param, pp) ==
  IF param[1] \in DOMAIN HfLayerNames
  THEN [i \in DOMAIN HfLayerNames[param[1]] |->
         <<HfLayerNames[param[1]][i], param[3] + MergedOffset(pp, param[2])>>]
  ELSE ConvertParam([param |-> param])

Merged ==
  LET keys == UNION {{<<pp, p>> : p \in DOMAIN FileOf(0, pp)} : pp \in 0 .. FilePp - 1}
      wanted == {k \in keys : ~ (config.tied /\ k[2][1] = "output_layer")}
  IN  FoldSet(LAMBDA k, dict :
        Add(dict, MergedName(k[2], k[1]),
            MergeAcrossTp(k[2], [i \in 0 .. FileTp - 1 |-> FileOf(i, k[1])[k[2]]])), <<>>, wanted)

MergeFiles ==
  /\ config.route = "files" /\ \A r \in Ranks : phase[r] = "saved"
  /\ out' = [out EXCEPT ![0] = Merged]
  /\ Finish(Ranks, "done") /\ UNCHANGED <<config, todo, part, held, disk>>

-----------------------------------------------------------------------------

Ended == \A r \in Ranks : phase[r] \in {"done", "refused"}

Step ==
  \/ \E g \in {ModelGroup(r) : r \in Ranks} : Broadcast(g) \/ Collect(g)
  \/ \E g \in {DataGroup(r) : r \in Ranks} : Replicate(g)
  \/ \E g \in {PipeGroup(r) : r \in Ranks} : PipelineBroadcast(g)
  \/ \E g \in {TensorGroup(r) : r \in Ranks} : TensorGather(g)
  \/ \E r \in Ranks : Fetch(r) \/ YieldOwn(r) \/ EndStream(r) \/ WriteShard(r) \/ ReadShard(r)
  \/ EndMerge \/ Restart \/ MergeFiles

Next == Step \/ (Ended /\ UNCHANGED vars)

\* A collective call that all its ranks have come to returns, and a program
\* does not stop: verl gives these calls no timeout of its own.
Spec == Init /\ [][Next]_vars /\ WF_vars(Step)

-----------------------------------------------------------------------------

InPlace(r) == phase[r] \in {"ready", "saved", "done"}

\* The blocks of these tensors in a sequence, by number.
Indices(names, s) ==
  LET named == SelectSeq(s, LAMBDA b : b[1] \in names) IN [i \in DOMAIN named |-> named[i][3]]

\* Where attention looks in a rank's fused tensor for the n-th of its groups:
\* the queries, the key and the value.
GroupAt(qkv, kvs, n) ==
  LET q == Len(qkv) - 2 * kvs
  IN  IF config.impl = "mcore" THEN Chunk(qkv, kvs, n)
      ELSE Chunk(SubSeq(qkv, 1, q), kvs, n) \o <<qkv[q + n + 1], qkv[q + kvs + n + 1]>>

\* What a rank computes is a whole part of the layer: where attention looks for
\* a group there are the queries, the key and the value of one group, the output
\* projection has the columns of the rank's queries in their order, and row i
\* of gate and of up and column i of down are the same neuron.  mcore/loader.py
\* and the older loaders cut the fused tensors differently.
RanksHoldWholeNeurons ==
  \A r \in Ranks : InPlace(r) => \A p \in DOMAIN part[r] :
    LET fused == part[r][p]
        proj == part[r][<<"proj", p[2], p[3]>>]
        kvs == Len(Indices({"k", "k_bias"}, fused))
        queries == config.heads \div config.groups
    IN  /\ p[1] \in {"qkv", "qkv_bias"} =>
             /\ FlattenSeq([n \in 1 .. kvs |-> Indices({"q", "q_bias"}, GroupAt(fused, kvs, n - 1))])
                  = Indices({"o"}, proj)
             /\ \A n \in 0 .. kvs - 1 :
                  LET group == GroupAt(fused, kvs, n)
                      key == group[Len(group) - 1]
                  IN  /\ key[1] \in {"k", "k_bias"} /\ group[Len(group)][1] \in {"v", "v_bias"}
                      /\ group[Len(group)][3] = key[3]
                      /\ \A i \in 1 .. Len(group) - 2 :
                           group[i][1] \in {"q", "q_bias"} /\ (group[i][3] - 1) \div queries + 1 = key[3]
        /\ p[1] = "fc1" =>
             LET down == Indices({"down"}, part[r][<<"fc2", p[2], p[3]>>])
             IN  /\ Indices({"gate"}, Chunk(fused, 2, 0)) = down
                 /\ Indices({"up"}, Chunk(fused, 2, 1)) = down

\* The head of a value model whose state dict has another is new, and a tied
\* model of the older code keeps the copy it had.
HeadIsNew == (config.value /\ config.head = "lm") \/ (config.tied /\ config.impl = "qwen2")

\* Once every rank has its weights, each model group has every block of the
\* state dict: no layer, head, neuron or row of the vocabulary is lost, in
\* whatever order the stages and virtual stages hold the layers, and nothing
\* of a fresh model is left.
NothingIsLost ==
  (\A r \in Ranks : InPlace(r)) =>
    \A r \in Ranks :
      LET blocks == UNION {UNION {ToSet(part[s][p]) : p \in ParamsOf(s)} : s \in ModelGroup(r)}
          all == UNION {ToSet(HfTensor(k)) : k \in HfKeys \ (IF HeadIsNew THEN {HeadKey} ELSE {})}
      IN  all \subseteq blocks /\ (~ HeadIsNew => blocks \subseteq all)

\* What a rank of an inference engine of infer_tp ranks loads: the same names,
\* with its own shard of each tensor.
InferenceShare(r) ==
  LET i == IF config.infer_tp = 1 THEN 0 ELSE Tp(r)
      Cut(name, l) == Chunk(HfTensor(<<name, l>>), config.infer_tp, i)
      Fused(names, l) == FlattenSeq([n \in DOMAIN names |-> Cut(names[n], l)])
      layer == {n \in DOMAIN HfLayerNames : n # "qkv_bias" \/ config.bias}
      Key(n, l) == IF Len(HfLayerNames[n]) = 1 THEN <<HfLayerNames[n][1], l>> ELSE <<n, l>>
      Content(n, l) == IF n \in {"norm1", "norm2"} THEN HfTensor(<<n, l>>) ELSE Fused(HfLayerNames[n], l)
  IN  {<<Key(n, l), Content(n, l)>> : n \in layer, l \in 0 .. Layers - 1}
      \cup {<<<<"norm", 0>>, HfTensor(<<"norm", 0>>)>>, <<<<"embed", 0>>, Cut("embed", 0)>>}

\* Whatever layout the weights went through, what comes out is the model that
\* went in: the state dict merged on rank 0 (saver.py and the older savers),
\* the one merged from the files (legacy_model_merger.py), and what each rank
\* streams into the inference engine (megatron_vllm.py).
ExportIsTheModel ==
  LET head == <<"lm_head", 0>>
      body == HfKeys \ {HeadKey}
  IN  \A r \in Ranks :
        phase[r] = "done" /\ (config.route = "stream" \/ (config.route \in {"merge", "files"} /\ r = 0)) =>
          IF config.route = "stream" /\ config.vllm = "old"
          THEN \A e \in InferenceShare(r) : e[1] \in DOMAIN out[r] /\ out[r][e[1]] = e[2]
          ELSE /\ DOMAIN out[r] \ {head} = body
               /\ \A k \in body : out[r][k] = HfTensor(k)
               /\ ~ config.tied => head \in DOMAIN out[r]
               /\ head \in DOMAIN out[r] /\ ~ HeadIsNew => out[r][head] = HfTensor(HeadKey)

\* The ranks do not wait for each other for ever: whatever the layout, all of
\* them come to every collective call in the same order.
EveryRankFinishes == <>(\A r \in Ranks : phase[r] = "done")

=============================================================================
