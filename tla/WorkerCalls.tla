---------------------------- MODULE WorkerCalls ----------------------------
(***************************************************************************)
(* What one training process does for each call of the trainer: the       *)
(* methods of fsdp_workers.py and megatron_workers.py with the sharding    *)
(* managers and generation back ends they run through, each as the         *)
(* sequence of its effects on memory, weights, random state and rows.      *)
(* HybridEngine carries them out.                                          *)
(*                                                                         *)
(* A definition with a suffix such as Reshard_Never is a wrong version *)
(* of the one after it, used by no specification.                          *)
(***************************************************************************)
EXTENDS Integers, Sequences, SequencesExt

CONSTANT Settings

\* A setting: the number of ranks; the back end; tensor parallel ranks of generation
\* and, with Megatron, of training; sequence parallel ranks of each model; whether
\* parameters and optimizer are offloaded; which other models there are; responses per
\* prompt; whether the old vLLM frees its cache; how validation samples.
Field == {"world", "engine", "tp", "ttp", "sp", "offload", "others", "n", "free",
          "val", "baseline"}

ASSUME SettingsAssumption ==
  \A s \in Settings :
     /\ DOMAIN s = Field
     /\ s.engine \in {"vllm", "untagged", "vllm063", "sglang", "hf", "megatron"}
     /\ s.world \in Nat \ {0} /\ s.tp \in Nat \ {0} /\ s.world % s.tp = 0
     /\ s.ttp \in Nat \ {0} /\ s.n \in Nat \ {0}
     /\ s.ttp % s.tp = 0 /\ (s.engine = "megatron" => s.world % s.ttp = 0)
     /\ s.others \subseteq {"critic", "ref", "rm"}
     /\ \A m \in {"actor", "ref", "critic", "rm"} : s.sp[m] \in Nat \ {0} /\ s.world % s.sp[m] = 0
     /\ s.val \in {"validation", "greedy"}

VARIABLE config

Ranks == 0 .. config.world - 1
Models == {"actor"} \cup config.others
Megatron == config.engine = "megatron"
Sp(m) == IF Megatron THEN 1 ELSE config.sp[m]

\* FSDP moves the parameters of these models between CPU and GPU by itself.
ByFsdp(m) == ~Megatron /\ m \in {"ref", "rm"}

\* With Megatron only a reference model is ever offloaded: its actor and critic have no
\* code for it.
Offloads(m) == config.offload /\ (IF Megatron THEN m = "ref" ELSE m \in {"actor", "critic"})

Trained(m) == m \in {"actor", "critic"}

---------------------------------------------------------------------------
\* One effect: what is done, to which model.
Do(m, what) == [i \in DOMAIN what |-> [do |-> what[i], of |-> m]]
When(b, ops) == IF b THEN ops ELSE <<>>

LoadParams(m) == When(Offloads(m), Do(m, <<"load params">>))
LoadAll(m) == When(Offloads(m), Do(m, <<"load params", "load optimizer">>))
OffloadParams(m) == When(Offloads(m), Do(m, <<"offload params">>))
OffloadAll(m) == When(Offloads(m), Do(m, <<"offload params", "offload optimizer">>))

\* FSDPUlyssesShardingManager around what is computed. It is not there with Megatron.
InSequenceGroup(m, compute) ==
  IF Megatron THEN Do(m, compute)
  ELSE Do(m, <<"enter sequence group", "gather">> \o compute
              \o <<"keep own rows", "leave sequence group">>)

\* The root of an FSDP model stays unsharded after a pass without a backward pass.
Reshard_Never(m) == <<>>

Reshard(m) == When(~Megatron /\ config.world > 1, Do(m, <<"reshard">>))

update_actor ==
  LoadAll("actor") \o InSequenceGroup("actor", <<"update">>) \o OffloadAll("actor")

compute_log_prob ==
  LoadParams("actor") \o InSequenceGroup("actor", <<"forward">>)
  \o Reshard("actor") \o OffloadParams("actor")

compute_ref_log_prob ==
  LoadParams("ref") \o InSequenceGroup("ref", <<"forward">>)
  \o Reshard("ref") \o OffloadParams("ref")

compute_values ==
  LoadParams("critic") \o InSequenceGroup("critic", <<"forward">>) \o OffloadParams("critic")

update_critic ==
  LoadAll("critic") \o InSequenceGroup("critic", <<"update">>) \o OffloadAll("critic")

\* The reward model is resharded on any number of ranks.
compute_rm_score ==
  InSequenceGroup("rm", <<"forward">>) \o When(~Megatron, Do("rm", <<"reshard">>))

save_checkpoint(m) == LoadParams(m) \o Do(m, <<"save">>) \o OffloadParams(m)

load_checkpoint(m) == LoadParams(m) \o Do(m, <<"restore">>) \o OffloadAll(m)

---------------------------------------------------------------------------
\* The sharding managers' __enter__ and __exit__. "swap in" puts the training state of
\* the random generator aside for that of generation, "swap out" the reverse.
FsdpVllmEnter ==
  CASE config.engine = "vllm063" -> <<"state dict", "wake weights", "sync", "swap in">>
    [] config.engine = "untagged" ->
         <<"state dict", "wake weights", "wake cache", "sync", "swap in">>
    [] OTHER -> <<"state dict", "wake weights", "sync", "wake cache", "swap in">>

FsdpVllmExit == <<"sleep", "swap out">>

FsdpSglangEnter == <<"state dict", "wake weights", "wake cache", "sync", "swap in">>
FsdpSglangExit == <<"sleep", "swap out">>

MegatronEnter == <<"wake weights", "sync", "wake cache">>
MegatronExit == <<"sleep">>

Enter == CASE config.engine = "hf" -> <<>>
           [] config.engine = "sglang" -> FsdpSglangEnter
           [] config.engine = "megatron" -> MegatronEnter
           [] OTHER -> FsdpVllmEnter

Exit == CASE config.engine = "hf" -> <<>>
          [] config.engine = "sglang" -> FsdpSglangExit
          [] config.engine = "megatron" -> MegatronExit
          [] OTHER -> FsdpVllmExit

\* preprocess_data and postprocess_data.
Preprocess == CASE config.engine = "hf" -> <<>>
                [] Megatron -> <<"take micro rows">>
                [] OTHER -> <<"gather prompts">>

Postprocess == CASE config.engine = "hf" -> <<>>
                 [] Megatron -> <<"join micro rows">>
                 [] config.engine = "sglang" -> <<"copy responses", "keep own responses">>
                 [] OTHER -> <<"keep own responses">>

\* generate_sequences of the back ends. Sampling parameters are set for the call and
\* rolled back; the old vLLM makes its cache for the call when it frees it afterwards.
VllmGenerate == <<"set sampling", "generate", "roll back sampling">>
Vllm063Generate == When(config.free, <<"make cache">>) \o VllmGenerate
                   \o When(config.free, <<"free cache">>)
SglangGenerate == VllmGenerate \o When(config.free, <<"flush cache">>)
HfGenerate == <<"generate">>

Generate == CASE config.engine = "hf" -> HfGenerate
              [] config.engine = "sglang" -> SglangGenerate
              [] config.engine = "vllm063" -> Vllm063Generate
              [] OTHER -> VllmGenerate

generate_sequences ==
  LoadParams("actor") \o Do("actor", Enter) \o OffloadAll("actor")
  \o Do("actor", Preprocess \o Generate \o Postprocess \o Exit)

---------------------------------------------------------------------------
Program(call) ==
  CASE call.method = "update_actor" -> update_actor
    [] call.method = "compute_log_prob" -> compute_log_prob
    [] call.method = "compute_ref_log_prob" -> compute_ref_log_prob
    [] call.method = "compute_values" -> compute_values
    [] call.method = "update_critic" -> update_critic
    [] call.method = "compute_rm_score" -> compute_rm_score
    [] call.method = "save_checkpoint" -> save_checkpoint(call.of)
    [] call.method = "load_checkpoint" -> load_checkpoint(call.of)
    [] call.method = "generate_sequences" -> generate_sequences

Call(m, method) == [of |-> m, method |-> method, how |-> "none"]
Sample(how) == [of |-> "actor", method |-> "generate_sequences", how |-> how]
With(m, method) == When(m \in Models, <<Call(m, method)>>)

\* RayPPOTrainer: resuming, validating before training, then the calls of each step.
Checkpoint(method) == <<Call("actor", method)>> \o With("critic", method)

TrainingStep(warm) ==
  <<Sample("rollout")>> \o When(config.baseline, <<Sample("greedy")>>)
  \o With("rm", "compute_rm_score") \o With("actor", "compute_log_prob")
  \o With("ref", "compute_ref_log_prob") \o With("critic", "compute_values")
  \o With("critic", "update_critic") \o When(warm, With("actor", "update_actor"))

Schedule(resume) ==
  When(resume, Checkpoint("load_checkpoint")) \o <<Sample(config.val)>>
  \o TrainingStep("critic" \notin Models) \o TrainingStep(TRUE)
  \o <<Sample(config.val)>> \o Checkpoint("save_checkpoint")
=============================================================================
