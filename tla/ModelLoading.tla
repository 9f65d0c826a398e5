---------------------------- MODULE ModelLoading ----------------------------
(***************************************************************************)
(* load_model of nanoserve/model/loader.py: from a HuggingFace config and  *)
(* its safetensors to the parameters of LlamaForCausalLM, and how the      *)
(* forward pass of llama.py and attention.py takes them apart again.       *)
(*                                                                         *)
(* A weight is the sequence of its rows, and a row is named by the tensor  *)
(* and the index it has in the checkpoint; columns and values are left out.*)
(* A tensor is <<layer, kind>>.                                            *)
(***************************************************************************)
EXTENDS Integers, Sequences, SequencesExt, FiniteSets, Rope

CONSTANTS
  HfConfigs,       \* contents of config.json; optional keys may be absent
  SplitKinds,      \* kinds of tensors that may be in a shard of their own
  MaxLost,         \* how many tensors a checkpoint lacks at most
  Wavelengths      \* the wavelengths of the dimensions of a head

NoLayer == -1
TopKinds == {"embed_tokens", "norm"}
NormKinds == {"input_layernorm", "post_attention_layernorm"}
HfLayerKinds == NormKinds \cup {"q_proj", "k_proj", "v_proj", "o_proj",
                                "gate_proj", "up_proj", "down_proj"}
NanoLayerKinds == NormKinds \cup {"qkv_proj", "o_proj", "gate_up_proj", "down_proj"}

Get(cfg, key, default) == IF key \in DOMAIN cfg THEN cfg[key] ELSE default

-----------------------------------------------------------------------------
(* The checkpoint, external: what the transformers library means by the    *)
(* config, and the tensors it writes for it.                               *)

HfHeads(hf) == hf.num_attention_heads
HfKvHeads(hf) == Get(hf, "num_key_value_heads", HfHeads(hf))
HfHeadDim(hf) == Get(hf, "head_dim", hf.hidden_size \div HfHeads(hf))
HfTied(hf) == Get(hf, "tie_word_embeddings", FALSE)

HfRowCount(hf, kind) ==
  CASE kind = "q_proj" -> HfHeads(hf) * HfHeadDim(hf)
    [] kind \in {"k_proj", "v_proj"} -> HfKvHeads(hf) * HfHeadDim(hf)
    [] kind \in {"gate_proj", "up_proj"} -> hf.intermediate_size
    [] kind \in {"embed_tokens", "lm_head"} -> hf.vocab_size
    [] OTHER -> hf.hidden_size

Row(name, i) == [of |-> name, row |-> i]
Tensor(hf, name) == [i \in 1 .. HfRowCount(hf, name[2]) |-> Row(name, i)]

HfNeeded(hf) ==
  ({NoLayer} \X (TopKinds \cup IF HfTied(hf) THEN {} ELSE {"lm_head"}))
    \cup ((0 .. hf.num_hidden_layers - 1) \X HfLayerKinds)

\* A tied checkpoint may hold an lm_head all the same; some tensors may be lost.
Checkpoints(hf) ==
  {(HfNeeded(hf) \cup extra) \ lost :
     extra \in {{}, {<<NoLayer, "lm_head">>}},
     lost \in UNION {kSubset(n, HfNeeded(hf)) : n \in 0 .. MaxLost}}

\* A RoPE scaling slows down, and its band is not empty.
RopeAssumption(scaling) ==
  LET low == Get(scaling, "low_freq_factor", 1)
      high == Get(scaling, "high_freq_factor", 4)
  IN  /\ Get(scaling, "factor", 1) \in Nat \ {0}
      /\ {low, high, Get(scaling, "original_max_position_embeddings", 8192)} \subseteq Nat
      /\ low < high

\* Grouped-query attention needs whole groups.
ASSUME ModelAssumption ==
  /\ MaxLost \in Nat /\ Wavelengths \subseteq Nat \ {0}
  /\ \A hf \in HfConfigs :
       /\ {hf.intermediate_size, hf.num_hidden_layers, hf.vocab_size,
            hf.hidden_size, HfHeadDim(hf)} \subseteq Nat
       /\ {HfHeads(hf), HfKvHeads(hf)} \subseteq Nat \ {0}
       /\ HfHeads(hf) % HfKvHeads(hf) = 0
       /\ HfTied(hf) \in BOOLEAN
       /\ "rope_scaling" \in DOMAIN hf => RopeAssumption(hf.rope_scaling)

-----------------------------------------------------------------------------
VARIABLES
  hf_cfg,        \* config.json
  shards,        \* the safetensors files still to be read, as sets of names
  stage,         \* which part of load_model() comes next
  layer,         \* the layer whose weights are copied next
  model_cfg,     \* the ModelConfig
  hf_state,      \* the names of the tensors read so far
  own_state,     \* parameter name -> rows
  parameters     \* the model's parameters, name -> rows

vars == <<hf_cfg, shards, stage, layer, model_cfg, hf_state, own_state, parameters>>

\* Defect: without the key there is one KV head.
OneKvHead(hf) == Get(hf, "num_key_value_heads", 1)
KvHeads(hf) == Get(hf, "num_key_value_heads", hf.num_attention_heads)

\* _hf_config_to_model_config
ModelConfig(hf) ==
  LET rope_scaling == Get(hf, "rope_scaling", << >>)
  IN  [hidden_size |-> hf.hidden_size,
       intermediate_size |-> hf.intermediate_size,
       num_hidden_layers |-> hf.num_hidden_layers,
       num_attention_heads |-> hf.num_attention_heads,
       num_key_value_heads |-> KvHeads(hf),
       head_dim |-> Get(hf, "head_dim", hf.hidden_size \div hf.num_attention_heads),
       vocab_size |-> hf.vocab_size,
       rope_scaling_factor |-> Get(rope_scaling, "factor", 1),
       rope_low_freq_factor |-> Get(rope_scaling, "low_freq_factor", 1),
       rope_high_freq_factor |-> Get(rope_scaling, "high_freq_factor", 4),
       rope_original_max_pos |-> Get(rope_scaling, "original_max_position_embeddings", 8192),
       tie_word_embeddings |-> Get(hf, "tie_word_embeddings", FALSE)]

QSize(c) == c.num_attention_heads * c.head_dim
KvSize(c) == c.num_key_value_heads * c.head_dim
NumKvGroups(c) == c.num_attention_heads \div c.num_key_value_heads

ParameterNames(c) ==
  ({NoLayer} \X (TopKinds \cup IF c.tie_word_embeddings THEN {} ELSE {"lm_head"}))
    \cup ((0 .. c.num_hidden_layers - 1) \X NanoLayerKinds)

RowCount(c, kind) ==
  CASE kind = "qkv_proj" -> QSize(c) + 2 * KvSize(c)
    [] kind = "gate_up_proj" -> 2 * c.intermediate_size
    [] kind \in {"embed_tokens", "lm_head"} -> c.vocab_size
    [] OTHER -> c.hidden_size

\* What a parameter holds when the model has just been built.
Initial == Row(<<NoLayer, "initial value">>, 0)

Init ==
  /\ hf_cfg \in HfConfigs
  /\ \E names \in Checkpoints(hf_cfg), kinds \in SUBSET SplitKinds :
       shards = IF kinds = {} THEN <<names>>    \* model.safetensors
                ELSE <<{n \in names : n[2] \in kinds}, {n \in names : n[2] \notin kinds}>>
  /\ stage = "build" /\ layer = 0
  /\ model_cfg = << >> /\ hf_state = {} /\ own_state = << >> /\ parameters = << >>

\* LlamaForCausalLM(model_cfg)
Build ==
  /\ stage = "build"
  /\ LET c == ModelConfig(hf_cfg)
     IN  /\ model_cfg' = c
         /\ parameters' = [n \in ParameterNames(c) |-> [i \in 1 .. RowCount(c, n[2]) |-> Initial]]
  /\ stage' = "read"
  /\ UNCHANGED <<hf_cfg, shards, layer, hf_state, own_state>>

\* All tensors of a file are taken, whatever the index says.
ReadShard ==
  /\ stage = "read" /\ shards # << >>
  /\ hf_state' = hf_state \cup Head(shards)
  /\ shards' = Tail(shards)
  /\ UNCHANGED <<hf_cfg, stage, layer, model_cfg, own_state, parameters>>

ShardsRead ==
  /\ stage = "read" /\ shards = << >>
  /\ stage' = "top"
  /\ UNCHANGED <<hf_cfg, shards, layer, model_cfg, hf_state, own_state, parameters>>

\* The tensors that the next part of the copying looks up without a default.
LookedUp ==
  IF stage = "top" THEN {NoLayer} \X TopKinds ELSE {layer} \X HfLayerKinds

\* A KeyError, which ends load_model().
TensorMissing ==
  /\ \/ stage = "top"
     \/ stage = "layers" /\ layer < model_cfg.num_hidden_layers
  /\ ~(LookedUp \subseteq hf_state)
  /\ stage' = "failed"
  /\ UNCHANGED <<hf_cfg, shards, layer, model_cfg, hf_state, own_state, parameters>>

CopiesLmHead == ~model_cfg.tie_word_embeddings /\ <<NoLayer, "lm_head">> \in hf_state

CopyTop ==
  /\ stage = "top" /\ LookedUp \subseteq hf_state
  /\ own_state' = [n \in {NoLayer} \X (TopKinds \cup IF CopiesLmHead THEN {"lm_head"} ELSE {})
                     |-> Tensor(hf_cfg, n)]
  /\ stage' = "layers"
  /\ UNCHANGED <<hf_cfg, shards, layer, model_cfg, hf_state, parameters>>

Weight(kind) == Tensor(hf_cfg, <<layer, kind>>)
\* Defect: the keys come first.
FusedKQV == Weight("k_proj") \o Weight("q_proj") \o Weight("v_proj")
FusedQKV == Weight("q_proj") \o Weight("k_proj") \o Weight("v_proj")

LayerWeight(kind) ==
  CASE kind = "qkv_proj" -> FusedQKV
    [] kind = "gate_up_proj" -> Weight("gate_proj") \o Weight("up_proj")
    [] OTHER -> Weight(kind)

CopyLayer ==
  /\ stage = "layers" /\ layer < model_cfg.num_hidden_layers
  /\ LookedUp \subseteq hf_state
  /\ own_state' = [n \in DOMAIN own_state \cup ({layer} \X NanoLayerKinds) |->
                     IF n[1] = layer THEN LayerWeight(n[2]) ELSE own_state[n]]
  /\ layer' = layer + 1
  /\ UNCHANGED <<hf_cfg, shards, stage, model_cfg, hf_state, parameters>>

\* Defect: whatever load_state_dict() reports as missing is accepted.
NothingMissing == {}
RealMissing == DOMAIN parameters \ DOMAIN own_state

Fits == \A n \in DOMAIN own_state \cap DOMAIN parameters :
          Len(own_state[n]) = Len(parameters[n])

AllCopied == stage = "layers" /\ layer = model_cfg.num_hidden_layers

\* load_state_dict() refuses other shapes, load_model() refuses gaps.
LoadRefused ==
  /\ AllCopied
  /\ ~Fits \/ RealMissing # {}
  /\ stage' = "failed"
  /\ UNCHANGED <<hf_cfg, shards, layer, model_cfg, hf_state, own_state, parameters>>

LoadStateDict ==
  /\ AllCopied
  /\ Fits /\ RealMissing = {}
  /\ parameters' = [n \in DOMAIN parameters |->
                      IF n \in DOMAIN own_state THEN own_state[n] ELSE parameters[n]]
  /\ stage' = "ready"
  /\ UNCHANGED <<hf_cfg, shards, layer, model_cfg, hf_state, own_state>>

Next == \/ Build \/ ReadShard \/ ShardsRead \/ TensorMissing
        \/ CopyTop \/ CopyLayer \/ LoadRefused \/ LoadStateDict

Spec == Init /\ [][Next]_vars

-----------------------------------------------------------------------------
(* The parameters as the forward pass uses them.                           *)

Qkv(l) == parameters[<<l, "qkv_proj">>]
\* qkv.split([q_size, kv_size, kv_size])
Queries(l) == SubSeq(Qkv(l), 1, QSize(model_cfg))
Keys(l) == SubSeq(Qkv(l), QSize(model_cfg) + 1, QSize(model_cfg) + KvSize(model_cfg))
Values(l) == SubSeq(Qkv(l), QSize(model_cfg) + KvSize(model_cfg) + 1, Len(Qkv(l)))

\* view(-1, heads, head_dim)
HeadRows(rows, h) ==
  SubSeq(rows, h * model_cfg.head_dim + 1, (h + 1) * model_cfg.head_dim)

\* chunk(2)
GateRows(l) == SubSeq(parameters[<<l, "gate_up_proj">>], 1, model_cfg.intermediate_size)
UpRows(l) ==
  SubSeq(parameters[<<l, "gate_up_proj">>], model_cfg.intermediate_size + 1,
         Len(parameters[<<l, "gate_up_proj">>]))

OutputRows ==
  parameters[<<NoLayer, IF model_cfg.tie_word_embeddings THEN "embed_tokens" ELSE "lm_head">>]

\* Defect: k.repeat() in place of k.repeat_interleave().
RepeatedKvHead(h) == h % model_cfg.num_key_value_heads
\* The KV head that query head h finds after repeat_interleave.
TorchKvHead(h) ==
  FlattenSeq([k \in 1 .. model_cfg.num_key_value_heads |->
                [i \in 1 .. NumKvGroups(model_cfg) |-> k - 1]])[h + 1]
\* The KV head whose keys the kernel loads for query head h.
TritonKvHead(h) == h \div NumKvGroups(model_cfg)

-----------------------------------------------------------------------------
(* Properties.                                                             *)

\* The rows of head h in a projection of the checkpoint.
HfHeadRows(l, kind, h) ==
  [i \in 1 .. HfHeadDim(hf_cfg) |-> Row(<<l, kind>>, h * HfHeadDim(hf_cfg) + i)]

\* What load_model() fuses, the forward pass takes apart at the same places:
\* each query, key and value head has the rows the checkpoint has for it, and
\* so have the two halves of the MLP, whatever keys config.json leaves out.
HeadsGetTheirRows ==
  stage = "ready" =>
    \A l \in 0 .. hf_cfg.num_hidden_layers - 1 :
      /\ \A h \in 0 .. HfHeads(hf_cfg) - 1 :
           HeadRows(Queries(l), h) = HfHeadRows(l, "q_proj", h)
      /\ \A h \in 0 .. HfKvHeads(hf_cfg) - 1 :
           /\ HeadRows(Keys(l), h) = HfHeadRows(l, "k_proj", h)
           /\ HeadRows(Values(l), h) = HfHeadRows(l, "v_proj", h)
      /\ GateRows(l) = Tensor(hf_cfg, <<l, "gate_proj">>)
      /\ UpRows(l) = Tensor(hf_cfg, <<l, "up_proj">>)

\* A model that load_model() returns has no weight left at its initial value,
\* though load_state_dict() is told not to be strict, and its output
\* projection is the one the config means, tied or not.
EveryWeightIsLoaded ==
  stage = "ready" =>
    /\ \A n \in DOMAIN parameters : \A i \in DOMAIN parameters[n] : parameters[n][i] # Initial
    /\ OutputRows = Tensor(hf_cfg, <<NoLayer, IF HfTied(hf_cfg) THEN "embed_tokens" ELSE "lm_head">>)

\* load_model() refuses only checkpoints that lack something the model needs.
RefusesOnlyIncomplete ==
  stage = "failed" => ~(HfNeeded(hf_cfg) \subseteq hf_state)

\* Both attention backends give a query head the same KV head, and each KV head
\* serves as many query heads as any other.
BackendsShareKvHeads ==
  stage = "ready" =>
    /\ \A h \in 0 .. model_cfg.num_attention_heads - 1 : TorchKvHead(h) = TritonKvHead(h)
    /\ \A k \in 0 .. model_cfg.num_key_value_heads - 1 :
         Cardinality({h \in 0 .. model_cfg.num_attention_heads - 1 : TorchKvHead(h) = k})
           = NumKvGroups(model_cfg)

\* The scaling of rope.py keeps the frequencies of the dimensions in their
\* order and apart, between the original one and the original one divided by
\* the factor, across both ends of the interpolation band; without rope_scaling
\* in the config it changes nothing.
RopeKeepsOrder ==
  stage = "ready" =>
    /\ \A w \in Wavelengths :
         /\ NoFasterThan(Divided(model_cfg, w), ScaledInvFreq(model_cfg, w))
         /\ NoFasterThan(ScaledInvFreq(model_cfg, w), InvFreq(w))
    /\ \A v, w \in Wavelengths :
         v < w => SlowerThan(ScaledInvFreq(model_cfg, w), ScaledInvFreq(model_cfg, v))

=============================================================================
