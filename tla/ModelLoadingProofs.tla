------------------------- MODULE ModelLoadingProofs -------------------------
(***************************************************************************)
(* What load_model() puts into the parameters is what the forward pass     *)
(* takes out of them, for every config and every way of splitting the      *)
(* checkpoint into files.                                                  *)
(***************************************************************************)
EXTENDS ModelLoading, DataProofs

-----------------------------------------------------------------------------
(* The inductive invariant.                                                *)

\* What the parameter n of a loaded model holds.
Fused(hf, n) ==
  LET Of(kind) == Tensor(hf, <<n[1], kind>>)
  IN  CASE n[2] = "qkv_proj" -> Of("q_proj") \o Of("k_proj") \o Of("v_proj")
        [] n[2] = "gate_up_proj" -> Of("gate_proj") \o Of("up_proj")
        [] OTHER -> Of(n[2])

\* What is copied when the layers before l are.
CopiedNames(l) ==
  ({NoLayer} \X (TopKinds \cup IF CopiesLmHead THEN {"lm_head"} ELSE {}))
    \cup ((0 .. l - 1) \X NanoLayerKinds)

LoadTypes ==
  /\ hf_cfg \in HfConfigs
  /\ layer \in 0 .. hf_cfg.num_hidden_layers
  /\ stage \in {"build", "read", "top"} => layer = 0
  /\ stage # "build" => model_cfg = ModelConfig(hf_cfg)

Fresh ==
  stage \in {"read", "top", "layers"} =>
    parameters = [n \in ParameterNames(model_cfg) |-> [i \in 1 .. RowCount(model_cfg, n[2]) |-> Initial]]

Copied == stage = "layers" => own_state = [n \in CopiedNames(layer) |-> Fused(hf_cfg, n)]

Loaded == stage = "ready" => parameters = [n \in ParameterNames(model_cfg) |-> Fused(hf_cfg, n)]

LoadInv == LoadTypes /\ Fresh /\ Copied /\ Loaded /\ RefusesOnlyIncomplete

-----------------------------------------------------------------------------
(* Parts of sequences.                                                     *)

\* What stands in s after the first k elements can be cut out.
LEMMA CutOut ==
  ASSUME NEW S, NEW s, NEW b \in Seq(S), NEW k \in Nat,
         \A i \in 1 .. Len(b) : s[k + i] = b[i]
  PROVE  SubSeq(s, k + 1, k + Len(b)) = b
<1> DEFINE from == k + 1
           to == k + Len(b)
           t == SubSeq(s, from, to)
<1>1. Len(b) \in Nat /\ from \in Int /\ to \in Int /\ to - from + 1 = Len(b)
  OBVIOUS
<1>2. \A i \in from .. to : s[i] \in S
  <2>1. ASSUME NEW i \in from .. to PROVE s[i] \in S
    <3>1. i - k \in 1 .. Len(b) /\ k + (i - k) = i
      BY <1>1
    <3>2. b[i - k] \in S
      BY <3>1, ElementOfSeq
    <3>3. s[k + (i - k)] = b[i - k]
      BY <3>1
    <3> QED BY <3>1, <3>2, <3>3
  <2> QED BY <2>1
<1>3. /\ t \in Seq(S)
      /\ Len(t) = IF from <= to THEN to - from + 1 ELSE 0
      /\ \A i \in 1 .. to - from + 1 : t[i] = s[from + i - 1]
  <2> HIDE DEF from, to
  <2> QED BY <1>1, <1>2, SubSeqProperties
<1> HIDE DEF t
<1>4. Len(t) = Len(b)
  BY <1>1, <1>3
<1>5. ASSUME NEW i \in 1 .. Len(b) PROVE t[i] = b[i]
  <2>1. t[i] = s[from + i - 1]
    BY <1>1, <1>3
  <2>2. from + i - 1 = k + i
    BY <1>1
  <2> HIDE DEF from, to
  <2> QED BY <2>1, <2>2
<1>6. t = b
  BY <1>3, <1>4, <1>5, SeqEqual
<1> QED BY <1>6 DEF t

\* The parts of a concatenation, cut at the sums of the lengths.
LEMMA PartsOfTwo ==
  ASSUME NEW S, NEW a \in Seq(S), NEW b \in Seq(S), NEW s, s = a \o b
  PROVE  /\ SubSeq(s, 1, Len(a)) = a
         /\ SubSeq(s, Len(a) + 1, Len(s)) = b
<1>1. Len(a) \in Nat /\ Len(b) \in Nat /\ Len(s) = Len(a) + Len(b)
  BY ConcatProperties
<1>2. \A i \in 1 .. Len(a) : s[0 + i] = a[i]
  BY <1>1, ConcatProperties
<1>3. ASSUME NEW i \in 1 .. Len(b) PROVE s[Len(a) + i] = b[i]
  <2>1. Len(a) + i \in 1 .. Len(a) + Len(b) /\ ~(Len(a) + i <= Len(a)) /\ (Len(a) + i) - Len(a) = i
    BY <1>1
  <2> QED BY <2>1, ConcatProperties
<1>4. SubSeq(s, 0 + 1, 0 + Len(a)) = a
  BY <1>2, CutOut
<1>5. SubSeq(s, Len(a) + 1, Len(a) + Len(b)) = b
  BY <1>1, <1>3, CutOut
<1> QED BY <1>1, <1>4, <1>5

LEMMA PartsOfThree ==
  ASSUME NEW S, NEW a \in Seq(S), NEW b \in Seq(S), NEW c \in Seq(S), NEW s, s = a \o b \o c
  PROVE  /\ SubSeq(s, 1, Len(a)) = a
         /\ SubSeq(s, Len(a) + 1, Len(a) + Len(b)) = b
         /\ SubSeq(s, Len(a) + Len(b) + 1, Len(s)) = c
<1>1. /\ a \o b \in Seq(S) /\ b \o c \in Seq(S) /\ s = a \o (b \o c)
      /\ Len(a) \in Nat /\ Len(b) \in Nat
      /\ Len(a \o b) = Len(a) + Len(b) /\ Len(b \o c) = Len(b) + Len(c)
  BY ConcatProperties, ConcatAssociative
<1>2. SubSeq(s, 1, Len(a)) = a
  BY <1>1, PartsOfTwo
<1>3. SubSeq(s, Len(a) + Len(b) + 1, Len(s)) = c
  <2>1. SubSeq(s, Len(a \o b) + 1, Len(s)) = c
    BY <1>1, PartsOfTwo
  <2> QED BY <1>1, <2>1
<1>4. ASSUME NEW i \in 1 .. Len(b) PROVE s[Len(a) + i] = b[i]
  <2>1. /\ Len(a) + i \in 1 .. Len(a) + Len(b \o c) /\ ~(Len(a) + i <= Len(a))
        /\ (Len(a) + i) - Len(a) = i
    BY <1>1
  <2>2. s[Len(a) + i] = (b \o c)[i]
    BY <1>1, <2>1, ConcatProperties
  <2>3. (b \o c)[i] = b[i]
    <3>1. i \in 1 .. Len(b) + Len(c) /\ i <= Len(b)
      BY <1>1
    <3> QED BY <3>1, ConcatProperties
  <2> QED BY <2>2, <2>3
<1>5. SubSeq(s, Len(a) + 1, Len(a) + Len(b)) = b
  BY <1>1, <1>4, CutOut
<1> QED BY <1>2, <1>3, <1>5


-----------------------------------------------------------------------------
(* Configs and tensors.                                                    *)

Kinds == TopKinds \cup {"lm_head"} \cup HfLayerKinds
RowSet == [of : Int \X Kinds, row : Nat]

\* The config that load_model() reads means what the checkpoint means by it.
LEMMA ConfigFields ==
  ASSUME NEW hf \in HfConfigs, NEW c, c = ModelConfig(hf)
  PROVE  /\ c.num_attention_heads = HfHeads(hf) /\ c.num_key_value_heads = HfKvHeads(hf)
         /\ c.head_dim = HfHeadDim(hf) /\ c.tie_word_embeddings = HfTied(hf)
         /\ c.hidden_size = hf.hidden_size /\ c.intermediate_size = hf.intermediate_size
         /\ c.vocab_size = hf.vocab_size /\ c.num_hidden_layers = hf.num_hidden_layers
BY DEF ModelConfig, KvHeads, HfHeads, HfKvHeads, HfHeadDim, HfTied

LEMMA ConfigTypes ==
  ASSUME NEW hf \in HfConfigs
  PROVE  /\ hf.intermediate_size \in Nat /\ hf.num_hidden_layers \in Nat
         /\ hf.vocab_size \in Nat /\ hf.hidden_size \in Nat /\ HfHeadDim(hf) \in Nat
         /\ HfHeads(hf) \in Nat \ {0} /\ HfKvHeads(hf) \in Nat \ {0}
         /\ HfHeads(hf) % HfKvHeads(hf) = 0 /\ HfTied(hf) \in BOOLEAN
<1>1. /\ {hf.intermediate_size, hf.num_hidden_layers, hf.vocab_size,
          hf.hidden_size, HfHeadDim(hf)} \subseteq Nat
      /\ {HfHeads(hf), HfKvHeads(hf)} \subseteq Nat \ {0}
      /\ HfHeads(hf) % HfKvHeads(hf) = 0 /\ HfTied(hf) \in BOOLEAN
  BY ModelAssumption
<1> QED BY <1>1

LEMMA TensorRows ==
  ASSUME NEW hf \in HfConfigs, NEW n \in Int \X Kinds
  PROVE  /\ HfRowCount(hf, n[2]) \in Nat
         /\ Tensor(hf, n) \in Seq(RowSet)
         /\ Len(Tensor(hf, n)) = HfRowCount(hf, n[2])
         /\ \A i \in 1 .. HfRowCount(hf, n[2]) : Tensor(hf, n)[i] = Row(n, i)
<1>1. /\ hf.intermediate_size \in Nat /\ hf.vocab_size \in Nat /\ hf.hidden_size \in Nat
      /\ HfHeads(hf) * HfHeadDim(hf) \in Nat /\ HfKvHeads(hf) * HfHeadDim(hf) \in Nat
  BY ConfigTypes, ProductType
<1>2. HfRowCount(hf, n[2]) \in Nat
  <2> DEFINE q == HfHeads(hf) * HfHeadDim(hf)
             k == HfKvHeads(hf) * HfHeadDim(hf)
  <2>1. HfRowCount(hf, n[2]) \in {q, k, hf.intermediate_size, hf.vocab_size, hf.hidden_size}
    BY DEF HfRowCount
  <2> QED BY <1>1, <2>1
<1>3. \A i \in 1 .. HfRowCount(hf, n[2]) : Row(n, i) \in RowSet
  BY <1>2 DEF Row, RowSet
<1> QED BY <1>2, <1>3 DEF Tensor

\* A fused parameter has the rows that the module reserves for it, and each of
\* them comes from a tensor of the checkpoint.
LEMMA FusedRows ==
  ASSUME NEW hf \in HfConfigs, NEW c, c = ModelConfig(hf),
         NEW n, n \in ({NoLayer} \X (TopKinds \cup {"lm_head"})) \cup (Nat \X NanoLayerKinds)
  PROVE  /\ Fused(hf, n) \in Seq(RowSet)
         /\ Len(Fused(hf, n)) = RowCount(c, n[2])
         /\ \A i \in DOMAIN Fused(hf, n) : Fused(hf, n)[i] # Initial
<1> DEFINE T(kind) == Tensor(hf, <<n[1], kind>>)
           Named == {s \in Seq(RowSet) : \A i \in 1 .. Len(s) : s[i] # Initial}
<1>1. n[1] \in Int /\ n[2] \in TopKinds \cup {"lm_head"} \cup NanoLayerKinds
  BY DEF NoLayer
<1>2. ASSUME NEW kind \in Kinds PROVE T(kind) \in Named /\ Len(T(kind)) = HfRowCount(hf, kind)
  <2> DEFINE m == <<n[1], kind>>
  <2>1. m \in Int \X Kinds /\ m[2] = kind /\ kind # "initial value"
    BY <1>1 DEF Kinds, TopKinds, NormKinds, HfLayerKinds
  <2>2. \A i : Row(m, i) # Initial
    BY <2>1 DEF Row, Initial
  <2> HIDE DEF m
  <2>3. /\ Tensor(hf, m) \in Seq(RowSet) /\ Len(Tensor(hf, m)) = HfRowCount(hf, kind)
        /\ HfRowCount(hf, kind) \in Nat
        /\ \A i \in 1 .. HfRowCount(hf, kind) : Tensor(hf, m)[i] = Row(m, i)
    BY <2>1, TensorRows
  <2>4. Tensor(hf, m) \in Named
    BY <2>2, <2>3
  <2> QED BY <2>3, <2>4 DEF m
<1>3. ASSUME NEW a \in Named, NEW b \in Named
      PROVE  a \o b \in Named /\ Len(a \o b) = Len(a) + Len(b)
  <2>1. /\ a \o b \in Seq(RowSet) /\ Len(a \o b) = Len(a) + Len(b)
        /\ Len(a) \in Nat /\ Len(b) \in Nat
    BY ConcatProperties
  <2>2. ASSUME NEW i \in 1 .. Len(a) + Len(b) PROVE (a \o b)[i] # Initial
    <3>1. (a \o b)[i] = IF i <= Len(a) THEN a[i] ELSE b[i - Len(a)]
      BY ConcatProperties
    <3>2. i <= Len(a) => i \in 1 .. Len(a)
      BY <2>1
    <3>3. ~(i <= Len(a)) => i - Len(a) \in 1 .. Len(b)
      BY <2>1
    <3> QED BY <3>1, <3>2, <3>3
  <2> QED BY <2>1, <2>2
<1> HIDE DEF T, Named
<1>f. /\ c.num_attention_heads = HfHeads(hf) /\ c.num_key_value_heads = HfKvHeads(hf)
      /\ c.head_dim = HfHeadDim(hf) /\ c.hidden_size = hf.hidden_size
      /\ c.intermediate_size = hf.intermediate_size /\ c.vocab_size = hf.vocab_size
  BY ConfigFields
<1>t. /\ QSize(c) \in Nat /\ KvSize(c) \in Nat /\ c.intermediate_size \in Nat
      /\ QSize(c) = HfHeads(hf) * HfHeadDim(hf) /\ KvSize(c) = HfKvHeads(hf) * HfHeadDim(hf)
  BY <1>f, ConfigTypes, ProductType DEF QSize, KvSize
<1>4. Fused(hf, n) \in Named /\ Len(Fused(hf, n)) = RowCount(c, n[2])
  <2>1. CASE n[2] = "qkv_proj"
    <3>1. /\ T("q_proj") \in Named /\ Len(T("q_proj")) = QSize(c)
          /\ T("k_proj") \in Named /\ Len(T("k_proj")) = KvSize(c)
          /\ T("v_proj") \in Named /\ Len(T("v_proj")) = KvSize(c)
      BY <1>2, <1>t DEF HfRowCount, Kinds, HfLayerKinds
    <3>2. /\ T("q_proj") \o T("k_proj") \in Named
          /\ Len(T("q_proj") \o T("k_proj")) = QSize(c) + KvSize(c)
      BY <1>3, <3>1
    <3>3. /\ T("q_proj") \o T("k_proj") \o T("v_proj") \in Named
          /\ Len(T("q_proj") \o T("k_proj") \o T("v_proj")) = QSize(c) + KvSize(c) + KvSize(c)
      BY <1>3, <3>1, <3>2
    <3>4. Fused(hf, n) = T("q_proj") \o T("k_proj") \o T("v_proj")
      BY <2>1 DEF Fused, T
    <3>5. RowCount(c, n[2]) = QSize(c) + 2 * KvSize(c)
      BY <2>1 DEF RowCount
    <3> QED BY <3>3, <3>4, <3>5, <1>t
  <2>2. CASE n[2] = "gate_up_proj"
    <3>1. /\ T("gate_proj") \in Named /\ Len(T("gate_proj")) = c.intermediate_size
          /\ T("up_proj") \in Named /\ Len(T("up_proj")) = c.intermediate_size
      BY <1>2, <1>f DEF HfRowCount, Kinds, HfLayerKinds
    <3>2. /\ T("gate_proj") \o T("up_proj") \in Named
          /\ Len(T("gate_proj") \o T("up_proj")) = c.intermediate_size + c.intermediate_size
      BY <1>3, <3>1
    <3>3. Fused(hf, n) = T("gate_proj") \o T("up_proj")
      BY <2>2 DEF Fused, T
    <3>4. RowCount(c, n[2]) = 2 * c.intermediate_size
      BY <2>2 DEF RowCount
    <3> QED BY <3>2, <3>3, <3>4, <1>t
  <2>3. CASE n[2] \notin {"qkv_proj", "gate_up_proj"}
    <3>1. Fused(hf, n) = T(n[2])
      BY <2>3 DEF Fused, T
    <3>2. n[2] \in Kinds
      BY <1>1, <2>3 DEF Kinds, NanoLayerKinds, HfLayerKinds
    <3>3. RowCount(c, n[2]) = HfRowCount(hf, n[2])
      BY <1>1, <1>f, <2>3 DEF RowCount, HfRowCount, TopKinds, NanoLayerKinds, NormKinds
    <3> QED BY <1>2, <3>1, <3>2, <3>3
  <2> QED BY <2>1, <2>2, <2>3
<1>5. DOMAIN Fused(hf, n) = 1 .. Len(Fused(hf, n))
  BY <1>4, LenProperties DEF Named
<1> QED BY <1>4, <1>5 DEF Named


-----------------------------------------------------------------------------
(* Every step keeps the invariant.                                         *)

LEMMA LoadInit == Init => LoadInv
<1> SUFFICES ASSUME Init PROVE LoadInv
  OBVIOUS
<1>1. hf_cfg \in HfConfigs /\ stage = "build" /\ layer = 0
  BY DEF Init
<1>2. 0 \in 0 .. hf_cfg.num_hidden_layers
  BY <1>1, ConfigTypes
<1> QED BY <1>1, <1>2 DEF LoadInv, LoadTypes, Fresh, Copied, Loaded, RefusesOnlyIncomplete

LEMMA CopyTopCopies ==
  ASSUME LoadInv, CopyTop
  PROVE  own_state' = [n \in CopiedNames(layer) |-> Fused(hf_cfg, n)]
<1> DEFINE top == {NoLayer} \X (TopKinds \cup IF CopiesLmHead THEN {"lm_head"} ELSE {})
<1>1. layer = 0 /\ own_state' = [n \in top |-> Tensor(hf_cfg, n)]
  BY DEF CopyTop, LoadInv, LoadTypes
<1>2. CopiedNames(layer) = top
  <2>1. 0 .. layer - 1 = {}
    BY <1>1
  <2> QED BY <2>1 DEF CopiedNames
<1>3. ASSUME NEW n \in top PROVE Fused(hf_cfg, n) = Tensor(hf_cfg, n)
  <2>1. n[2] \in TopKinds \cup {"lm_head"} /\ n = <<n[1], n[2]>>
    OBVIOUS
  <2> QED BY <2>1 DEF Fused, TopKinds
<1> HIDE DEF top
<1> QED BY <1>1, <1>2, <1>3

LEMMA CopyLayerCopies ==
  ASSUME LoadInv, CopyLayer
  PROVE  own_state' = [n \in CopiedNames(layer + 1) |-> Fused(hf_cfg, n)]
<1> DEFINE new == {layer} \X NanoLayerKinds
<1>1. /\ layer \in Nat
      /\ own_state = [n \in CopiedNames(layer) |-> Fused(hf_cfg, n)]
      /\ own_state' = [n \in DOMAIN own_state \cup new |->
                         IF n[1] = layer THEN LayerWeight(n[2]) ELSE own_state[n]]
  BY ConfigTypes DEF CopyLayer, LoadInv, LoadTypes, Copied
<1>2. CopiedNames(layer + 1) = CopiedNames(layer) \cup new
  <2>1. 0 .. (layer + 1) - 1 = (0 .. layer - 1) \cup {layer}
    BY <1>1
  <2> HIDE DEF new
  <2>2. (0 .. (layer + 1) - 1) \X NanoLayerKinds = ((0 .. layer - 1) \X NanoLayerKinds) \cup new
    BY <2>1 DEF new
  <2> QED BY <2>2 DEF CopiedNames
<1>3. ASSUME NEW n \in new
      PROVE  n[1] = layer /\ LayerWeight(n[2]) = Fused(hf_cfg, n)
  <2>1. n[1] = layer
    OBVIOUS
  <2> QED BY <2>1 DEF Fused, LayerWeight, FusedQKV, Weight
<1>4. ASSUME NEW n \in CopiedNames(layer) PROVE n[1] # layer
  <2>1. layer \notin 0 .. layer - 1 /\ NoLayer # layer
    BY <1>1 DEF NoLayer
  <2> QED BY <2>1 DEF CopiedNames
<1>5. DOMAIN own_state = CopiedNames(layer)
  BY <1>1
<1>6. \A n \in CopiedNames(layer) : own_state[n] = Fused(hf_cfg, n)
  BY <1>1
<1> HIDE DEF new
<1> QED BY <1>1, <1>2, <1>3, <1>4, <1>5, <1>6

\* Nothing is refused that has every tensor the checkpoint should have.
LEMMA CompleteIsLoaded ==
  ASSUME LoadInv, AllCopied, HfNeeded(hf_cfg) \subseteq hf_state
  PROVE  Fits /\ RealMissing = {}
<1>1. /\ hf_cfg \in HfConfigs /\ model_cfg = ModelConfig(hf_cfg)
      /\ layer = model_cfg.num_hidden_layers
      /\ own_state = [n \in CopiedNames(layer) |-> Fused(hf_cfg, n)]
      /\ parameters = [n \in ParameterNames(model_cfg) |->
                         [i \in 1 .. RowCount(model_cfg, n[2]) |-> Initial]]
  BY DEF AllCopied, LoadInv, LoadTypes, Copied, Fresh
<1>2. /\ model_cfg.num_hidden_layers = hf_cfg.num_hidden_layers /\ layer \in Nat
      /\ model_cfg.tie_word_embeddings = HfTied(hf_cfg) /\ HfTied(hf_cfg) \in BOOLEAN
  BY <1>1, ConfigFields, ConfigTypes
<1>3. ParameterNames(model_cfg) \subseteq CopiedNames(layer)
  <2>1. ~HfTied(hf_cfg) => <<NoLayer, "lm_head">> \in hf_state
    BY DEF HfNeeded
  <2>2. ~HfTied(hf_cfg) => CopiesLmHead
    BY <1>2, <2>1 DEF CopiesLmHead
  <2> QED BY <1>1, <1>2, <2>2 DEF ParameterNames, CopiedNames
<1>4. ASSUME NEW n \in ParameterNames(model_cfg)
      PROVE  Len(own_state[n]) = Len(parameters[n])
  <2>1. n \in ({NoLayer} \X (TopKinds \cup {"lm_head"})) \cup (Nat \X NanoLayerKinds)
    BY <1>2 DEF ParameterNames
  <2>2. own_state[n] = Fused(hf_cfg, n)
    BY <1>1, <1>3
  <2>3. Fused(hf_cfg, n) \in Seq(RowSet) /\ Len(Fused(hf_cfg, n)) = RowCount(model_cfg, n[2])
    BY <1>1, <2>1, FusedRows
  <2>4. RowCount(model_cfg, n[2]) \in Nat
    BY <2>3, LenProperties
  <2>5. Len(parameters[n]) = RowCount(model_cfg, n[2])
    <3>1. parameters[n] = [i \in 1 .. RowCount(model_cfg, n[2]) |-> Initial]
      BY <1>1
    <3> QED BY <2>4, <3>1
  <2> QED BY <2>2, <2>3, <2>5
<1> QED BY <1>1, <1>3, <1>4 DEF Fits, RealMissing

LEMMA LoadNext == LoadInv /\ [Next]_vars => LoadInv'
<1> SUFFICES ASSUME LoadInv, [Next]_vars PROVE LoadInv'
  OBVIOUS
<1>t. /\ hf_cfg \in HfConfigs /\ layer \in 0 .. hf_cfg.num_hidden_layers
      /\ stage \in {"build", "read", "top"} => layer = 0
      /\ stage # "build" => model_cfg = ModelConfig(hf_cfg)
  BY DEF LoadInv, LoadTypes
<1>n. stage # "build" => model_cfg.num_hidden_layers = hf_cfg.num_hidden_layers
  BY <1>t, ConfigFields
<1>1. CASE Build
  <2>1. /\ model_cfg' = ModelConfig(hf_cfg) /\ stage = "build" /\ stage' = "read"
        /\ parameters' = [n \in ParameterNames(ModelConfig(hf_cfg)) |->
                            [i \in 1 .. RowCount(ModelConfig(hf_cfg), n[2]) |-> Initial]]
        /\ UNCHANGED <<hf_cfg, layer>>
    BY <1>1 DEF Build
  <2>2. LoadTypes'
    BY <1>t, <2>1 DEF LoadTypes
  <2>3. Fresh'
    BY <2>1 DEF Fresh
  <2>4. (Copied /\ Loaded /\ RefusesOnlyIncomplete)'
    BY <2>1 DEF Copied, Loaded, RefusesOnlyIncomplete
  <2> QED BY <2>2, <2>3, <2>4 DEF LoadInv
<1>2. CASE ReadShard \/ ShardsRead
  <2>1. /\ stage = "read" /\ stage' \in {"read", "top"}
        /\ UNCHANGED <<hf_cfg, layer, model_cfg, own_state, parameters>>
    BY <1>2 DEF ReadShard, ShardsRead
  <2>2. LoadTypes'
    BY <1>t, <2>1 DEF LoadTypes
  <2>3. Fresh'
    BY <2>1 DEF LoadInv, Fresh
  <2>4. (Copied /\ Loaded /\ RefusesOnlyIncomplete)'
    BY <2>1 DEF Copied, Loaded, RefusesOnlyIncomplete
  <2> QED BY <2>2, <2>3, <2>4 DEF LoadInv
<1>3. CASE TensorMissing
  <2>1. /\ stage \in {"top", "layers"} /\ stage' = "failed"
        /\ stage = "layers" => layer < model_cfg.num_hidden_layers
        /\ ~(LookedUp \subseteq hf_state)
        /\ UNCHANGED <<hf_cfg, layer, model_cfg, hf_state, own_state, parameters>>
    BY <1>3 DEF TensorMissing
  <2>2. LookedUp \subseteq HfNeeded(hf_cfg)
    <3>1. CASE stage = "top"
      BY <3>1 DEF LookedUp, HfNeeded
    <3>2. CASE stage = "layers"
      <4>1. layer \in 0 .. hf_cfg.num_hidden_layers - 1
        <5>1. layer \in Nat /\ hf_cfg.num_hidden_layers \in Nat /\ layer < hf_cfg.num_hidden_layers
          BY <1>t, <1>n, <2>1, <3>2, ConfigTypes
        <5> QED BY <5>1
      <4> QED BY <3>2, <4>1 DEF LookedUp, HfNeeded
    <3> QED BY <2>1, <3>1, <3>2
  <2>3. LoadTypes'
    BY <1>t, <2>1 DEF LoadTypes
  <2>4. RefusesOnlyIncomplete'
    BY <2>1, <2>2 DEF RefusesOnlyIncomplete
  <2> QED BY <2>1, <2>3, <2>4 DEF LoadInv, Fresh, Copied, Loaded
<1>4. CASE CopyTop
  <2>1. /\ stage = "top" /\ stage' = "layers"
        /\ UNCHANGED <<hf_cfg, layer, model_cfg, hf_state, parameters>>
    BY <1>4 DEF CopyTop
  <2>2. LoadTypes'
    BY <1>t, <2>1 DEF LoadTypes
  <2>3. Fresh'
    BY <2>1 DEF LoadInv, Fresh
  <2>4. CopiedNames(layer)' = CopiedNames(layer)
    BY <2>1 DEF CopiedNames, CopiesLmHead
  <2>5. Copied'
    BY <1>4, <2>1, <2>4, CopyTopCopies DEF Copied
  <2> QED BY <2>1, <2>2, <2>3, <2>5 DEF LoadInv, Loaded, RefusesOnlyIncomplete
<1>5. CASE CopyLayer
  <2>1. /\ stage = "layers" /\ stage' = "layers" /\ layer' = layer + 1
        /\ layer < model_cfg.num_hidden_layers
        /\ UNCHANGED <<hf_cfg, model_cfg, hf_state, parameters>>
    BY <1>5 DEF CopyLayer
  <2>2. LoadTypes'
    <3>1. layer + 1 \in 0 .. hf_cfg.num_hidden_layers
      <4>1. hf_cfg.num_hidden_layers \in Nat /\ layer < hf_cfg.num_hidden_layers
        BY <1>t, <1>n, <2>1, ConfigTypes
      <4> QED BY <1>t, <4>1
    <3> QED BY <1>t, <2>1, <3>1 DEF LoadTypes
  <2>3. Fresh'
    BY <2>1 DEF LoadInv, Fresh
  <2>4. CopiedNames(layer)' = CopiedNames(layer + 1)
    BY <2>1 DEF CopiedNames, CopiesLmHead
  <2>5. Copied'
    BY <1>5, <2>1, <2>4, CopyLayerCopies DEF Copied
  <2> QED BY <2>1, <2>2, <2>3, <2>5 DEF LoadInv, Loaded, RefusesOnlyIncomplete
<1>6. CASE LoadRefused
  <2>1. /\ stage' = "failed" /\ AllCopied /\ ~(Fits /\ RealMissing = {})
        /\ stage = "layers" /\ UNCHANGED <<hf_cfg, layer, model_cfg, hf_state>>
    BY <1>6 DEF LoadRefused, AllCopied
  <2>2. RefusesOnlyIncomplete'
    BY <2>1, CompleteIsLoaded DEF RefusesOnlyIncomplete
  <2>3. LoadTypes'
    BY <1>t, <2>1 DEF LoadTypes
  <2> QED BY <2>1, <2>2, <2>3 DEF LoadInv, Fresh, Copied, Loaded
<1>7. CASE LoadStateDict
  <2>1. /\ stage = "layers" /\ stage' = "ready" /\ RealMissing = {}
        /\ parameters' = [n \in DOMAIN parameters |->
                            IF n \in DOMAIN own_state THEN own_state[n] ELSE parameters[n]]
        /\ UNCHANGED <<hf_cfg, layer, model_cfg>>
    BY <1>7 DEF LoadStateDict, AllCopied
  <2>2. /\ own_state = [n \in CopiedNames(layer) |-> Fused(hf_cfg, n)]
        /\ DOMAIN parameters = ParameterNames(model_cfg)
    BY <2>1 DEF LoadInv, Copied, Fresh
  <2>3. ParameterNames(model_cfg) \subseteq CopiedNames(layer)
    BY <2>1, <2>2 DEF RealMissing
  <2>4. parameters' = [n \in ParameterNames(model_cfg) |-> Fused(hf_cfg, n)]
    BY <2>1, <2>2, <2>3
  <2>5. Loaded'
    BY <2>1, <2>4 DEF Loaded
  <2>6. LoadTypes'
    BY <1>t, <2>1 DEF LoadTypes
  <2> QED BY <2>1, <2>5, <2>6 DEF LoadInv, Fresh, Copied, RefusesOnlyIncomplete
<1>8. CASE UNCHANGED vars
  <2>1. CopiedNames(layer)' = CopiedNames(layer)
    BY <1>8 DEF vars, CopiedNames, CopiesLmHead
  <2> QED BY <1>8, <2>1 DEF vars, LoadInv, LoadTypes, Fresh, Copied, Loaded, RefusesOnlyIncomplete
<1> QED BY <1>1, <1>2, <1>3, <1>4, <1>5, <1>6, <1>7, <1>8 DEF Next

LEMMA LoadInvHolds == Spec => []LoadInv
BY LoadInit, LoadNext, PTL DEF Spec


-----------------------------------------------------------------------------
(* What the forward pass takes out of the parameters.                      *)

\* Head h of a projection of a * d rows lies within it.
LEMMA HeadWithin ==
  ASSUME NEW a \in Nat, NEW d \in Nat, NEW h \in 0 .. a - 1, NEW i \in 1 .. d
  PROVE  h * d \in Nat /\ (h + 1) * d = h * d + d /\ h * d + i \in 1 .. a * d
<1>1. h * d \in Nat /\ a * d \in Nat /\ (h + 1) * d = h * d + d
  BY ProductType
<1>2. (h + 1) * d <= a * d
  <2>1. h + 1 \in Nat /\ h + 1 <= a
    OBVIOUS
  <2> DEFINE k == h + 1
  <2> HIDE DEF k
  <2>2. k \in Nat /\ k <= a => k * d <= a * d
    OBVIOUS
  <2> QED BY <2>1, <2>2 DEF k
<1>3. h * d + i <= a * d
  BY <1>1, <1>2
<1> QED BY <1>1, <1>3

LEMMA HeadIsCutOut ==
  ASSUME LoadTypes, stage # "build", NEW l \in Int, NEW kind \in {"q_proj", "k_proj", "v_proj"},
         NEW a \in Nat, HfRowCount(hf_cfg, kind) = a * HfHeadDim(hf_cfg), NEW h \in 0 .. a - 1
  PROVE  HeadRows(Tensor(hf_cfg, <<l, kind>>), h) = HfHeadRows(l, kind, h)
<1> DEFINE d == HfHeadDim(hf_cfg)
           n == <<l, kind>>
           s == Tensor(hf_cfg, n)
           b == HfHeadRows(l, kind, h)
           k == h * d
<1>1. hf_cfg \in HfConfigs /\ model_cfg = ModelConfig(hf_cfg)
  BY DEF LoadTypes
<1>2. d \in Nat /\ model_cfg.head_dim = d
  BY <1>1, ConfigTypes, ConfigFields
<1>3. n \in Int \X Kinds /\ n[2] = kind
  BY DEF Kinds, HfLayerKinds
<1>4. \A i \in 1 .. a * d : s[i] = Row(n, i)
  <2> HIDE DEF n
  <2> QED BY <1>1, <1>3, TensorRows
<1>5. k \in Nat /\ (h + 1) * d = k + d
  <2>1. k \in Nat
    BY <1>2, ProductType
  <2> QED BY <1>2, <2>1
<1>6. b = [i \in 1 .. d |-> Row(n, k + i)]
  BY DEF HfHeadRows
<1> HIDE DEF s, b, n, d
<1>7. \A i \in 1 .. d : k + i \in 1 .. a * d /\ k + i \in Nat
  BY <1>2, HeadWithin
<1> HIDE DEF k
<1>8. b \in Seq(RowSet) /\ Len(b) = d
  <2>1. \A i \in 1 .. d : Row(n, k + i) \in RowSet
    BY <1>3, <1>7 DEF Row, RowSet
  <2> QED BY <1>2, <1>6, <2>1
<1>9. \A i \in 1 .. Len(b) : s[k + i] = b[i]
  BY <1>4, <1>6, <1>7, <1>8
<1>10. SubSeq(s, k + 1, k + Len(b)) = b
  BY <1>5, <1>8, <1>9, CutOut
<1>11. HeadRows(s, h) = SubSeq(s, k + 1, k + d)
  BY <1>2, <1>5 DEF HeadRows, k
<1> QED BY <1>8, <1>10, <1>11 DEF s, b, n

\* For every config, every head gets the rows that the checkpoint has for it,
\* though load_model() and the forward pass compute the sizes apart.
THEOREM HeadsKeepTheirRows == Spec => []HeadsGetTheirRows
<1>1. LoadInv => HeadsGetTheirRows
  <2> SUFFICES ASSUME LoadInv, stage = "ready", NEW l \in 0 .. hf_cfg.num_hidden_layers - 1
               PROVE  /\ \A h \in 0 .. HfHeads(hf_cfg) - 1 :
                           HeadRows(Queries(l), h) = HfHeadRows(l, "q_proj", h)
                      /\ \A h \in 0 .. HfKvHeads(hf_cfg) - 1 :
                           /\ HeadRows(Keys(l), h) = HfHeadRows(l, "k_proj", h)
                           /\ HeadRows(Values(l), h) = HfHeadRows(l, "v_proj", h)
                      /\ GateRows(l) = Tensor(hf_cfg, <<l, "gate_proj">>)
                      /\ UpRows(l) = Tensor(hf_cfg, <<l, "up_proj">>)
    BY DEF HeadsGetTheirRows
  <2> DEFINE T(kind) == Tensor(hf_cfg, <<l, kind>>)
  <2>1. /\ hf_cfg \in HfConfigs /\ model_cfg = ModelConfig(hf_cfg) /\ LoadTypes
        /\ parameters = [n \in ParameterNames(model_cfg) |-> Fused(hf_cfg, n)]
    BY DEF LoadInv, LoadTypes, Loaded
  <2>2. /\ model_cfg.num_attention_heads = HfHeads(hf_cfg)
        /\ model_cfg.num_key_value_heads = HfKvHeads(hf_cfg)
        /\ model_cfg.head_dim = HfHeadDim(hf_cfg)
        /\ model_cfg.intermediate_size = hf_cfg.intermediate_size
        /\ model_cfg.num_hidden_layers = hf_cfg.num_hidden_layers
    BY <2>1, ConfigFields
  <2>3. /\ HfHeads(hf_cfg) \in Nat /\ HfKvHeads(hf_cfg) \in Nat /\ l \in Int
    BY <2>1, ConfigTypes
  <2>4. \A kind \in {"q_proj", "k_proj", "v_proj", "gate_proj", "up_proj"} :
          T(kind) \in Seq(RowSet) /\ Len(T(kind)) = HfRowCount(hf_cfg, kind)
    <3>1. ASSUME NEW kind \in {"q_proj", "k_proj", "v_proj", "gate_proj", "up_proj"}
          PROVE  T(kind) \in Seq(RowSet) /\ Len(T(kind)) = HfRowCount(hf_cfg, kind)
      <4> DEFINE n == <<l, kind>>
      <4>1. n \in Int \X Kinds /\ n[2] = kind
        BY <2>3 DEF Kinds, HfLayerKinds
      <4> HIDE DEF n
      <4>2. Tensor(hf_cfg, n) \in Seq(RowSet) /\ Len(Tensor(hf_cfg, n)) = HfRowCount(hf_cfg, kind)
        BY <2>1, <4>1, TensorRows
      <4> QED BY <4>2 DEF n
    <3> QED BY <3>1
  <2>5. /\ HfRowCount(hf_cfg, "q_proj") = HfHeads(hf_cfg) * HfHeadDim(hf_cfg)
        /\ HfRowCount(hf_cfg, "k_proj") = HfKvHeads(hf_cfg) * HfHeadDim(hf_cfg)
        /\ HfRowCount(hf_cfg, "v_proj") = HfKvHeads(hf_cfg) * HfHeadDim(hf_cfg)
        /\ HfRowCount(hf_cfg, "gate_proj") = hf_cfg.intermediate_size
    BY DEF HfRowCount
  <2>6. /\ Qkv(l) = T("q_proj") \o T("k_proj") \o T("v_proj")
        /\ parameters[<<l, "gate_up_proj">>] = T("gate_proj") \o T("up_proj")
    <3>1. <<l, "qkv_proj">> \in ParameterNames(model_cfg)
          /\ <<l, "gate_up_proj">> \in ParameterNames(model_cfg)
      BY <2>2 DEF ParameterNames, NanoLayerKinds
    <3>2. /\ Fused(hf_cfg, <<l, "qkv_proj">>) = T("q_proj") \o T("k_proj") \o T("v_proj")
          /\ Fused(hf_cfg, <<l, "gate_up_proj">>) = T("gate_proj") \o T("up_proj")
      BY DEF Fused
    <3> QED BY <2>1, <3>1, <3>2 DEF Qkv
  <2>7. QSize(model_cfg) = Len(T("q_proj")) /\ KvSize(model_cfg) = Len(T("k_proj"))
    BY <2>2, <2>4, <2>5 DEF QSize, KvSize
  <2> HIDE DEF T
  <2>8. Queries(l) = T("q_proj") /\ Keys(l) = T("k_proj") /\ Values(l) = T("v_proj")
    <3>1. T("q_proj") \in Seq(RowSet) /\ T("k_proj") \in Seq(RowSet) /\ T("v_proj") \in Seq(RowSet)
      BY <2>4
    <3>2. /\ SubSeq(Qkv(l), 1, Len(T("q_proj"))) = T("q_proj")
          /\ SubSeq(Qkv(l), Len(T("q_proj")) + 1, Len(T("q_proj")) + Len(T("k_proj"))) = T("k_proj")
          /\ SubSeq(Qkv(l), Len(T("q_proj")) + Len(T("k_proj")) + 1, Len(Qkv(l))) = T("v_proj")
      BY <2>6, <3>1, PartsOfThree
    <3> QED BY <2>7, <3>2 DEF Queries, Keys, Values
  <2>9. GateRows(l) = T("gate_proj") /\ UpRows(l) = T("up_proj")
    <3> DEFINE both == parameters[<<l, "gate_up_proj">>]
    <3>1. /\ T("gate_proj") \in Seq(RowSet) /\ T("up_proj") \in Seq(RowSet)
          /\ Len(T("gate_proj")) = model_cfg.intermediate_size
      BY <2>2, <2>4, <2>5
    <3>2. /\ SubSeq(both, 1, Len(T("gate_proj"))) = T("gate_proj")
          /\ SubSeq(both, Len(T("gate_proj")) + 1, Len(both)) = T("up_proj")
      <4> HIDE DEF both
      <4>1. both = T("gate_proj") \o T("up_proj")
        BY <2>6 DEF both
      <4> QED BY <3>1, <4>1, PartsOfTwo
    <3> QED BY <3>1, <3>2 DEF GateRows, UpRows
  <2>10. ASSUME NEW h \in 0 .. HfHeads(hf_cfg) - 1
         PROVE  HeadRows(T("q_proj"), h) = HfHeadRows(l, "q_proj", h)
    BY <2>1, <2>3, <2>5, <2>10, HeadIsCutOut DEF T
  <2>11. ASSUME NEW h \in 0 .. HfKvHeads(hf_cfg) - 1
         PROVE  /\ HeadRows(T("k_proj"), h) = HfHeadRows(l, "k_proj", h)
                /\ HeadRows(T("v_proj"), h) = HfHeadRows(l, "v_proj", h)
    BY <2>1, <2>3, <2>5, <2>11, HeadIsCutOut DEF T
  <2> QED BY <2>8, <2>9, <2>10, <2>11 DEF T
<1> QED BY <1>1, LoadInvHolds, PTL

\* No weight of a loaded model is left as it was built, and the output
\* projection is the tied one exactly when the config says so.
THEOREM EveryParameterIsRead == Spec => []EveryWeightIsLoaded
<1>1. LoadInv => EveryWeightIsLoaded
  <2> SUFFICES ASSUME LoadInv, stage = "ready"
               PROVE  /\ \A n \in DOMAIN parameters : \A i \in DOMAIN parameters[n] :
                           parameters[n][i] # Initial
                      /\ OutputRows = Tensor(hf_cfg, <<NoLayer, IF HfTied(hf_cfg)
                                                      THEN "embed_tokens" ELSE "lm_head">>)
    BY DEF EveryWeightIsLoaded
  <2>1. /\ hf_cfg \in HfConfigs /\ model_cfg = ModelConfig(hf_cfg)
        /\ parameters = [n \in ParameterNames(model_cfg) |-> Fused(hf_cfg, n)]
    BY DEF LoadInv, LoadTypes, Loaded
  <2>2. model_cfg.tie_word_embeddings = HfTied(hf_cfg)
    BY <2>1, ConfigFields
  <2>3. ASSUME NEW n \in DOMAIN parameters, NEW i \in DOMAIN parameters[n]
        PROVE  parameters[n][i] # Initial
    <3>1. n \in ({NoLayer} \X (TopKinds \cup {"lm_head"})) \cup (Nat \X NanoLayerKinds)
      BY <2>1 DEF ParameterNames
    <3>2. parameters[n] = Fused(hf_cfg, n)
      BY <2>1
    <3> QED BY <2>1, <3>1, <3>2, FusedRows
  <2> DEFINE kind == IF HfTied(hf_cfg) THEN "embed_tokens" ELSE "lm_head"
  <2>4. OutputRows = Tensor(hf_cfg, <<NoLayer, kind>>)
    <3>1. <<NoLayer, kind>> \in ParameterNames(model_cfg)
      BY <2>2 DEF ParameterNames, TopKinds
    <3>2. Fused(hf_cfg, <<NoLayer, kind>>) = Tensor(hf_cfg, <<NoLayer, kind>>)
      BY DEF Fused
    <3> QED BY <2>1, <2>2, <3>1, <3>2 DEF OutputRows
  <2> QED BY <2>3, <2>4
<1> QED BY <1>1, LoadInvHolds, PTL

\* load_model() fails only on a checkpoint that lacks something, however it is
\* split into files.
THEOREM CompleteIsNotRefused == Spec => []RefusesOnlyIncomplete
<1>1. LoadInv => RefusesOnlyIncomplete
  BY DEF LoadInv
<1> QED BY <1>1, LoadInvHolds, PTL


-----------------------------------------------------------------------------
(* The rotary frequencies.                                                 *)

\* Without a scaling in the config the defaults of load_model() stand.
LEMMA RopeFields ==
  ASSUME NEW hf \in HfConfigs, NEW c, c = ModelConfig(hf)
  PROVE  /\ c.rope_scaling_factor \in Nat \ {0} /\ c.rope_original_max_pos \in Nat
         /\ c.rope_low_freq_factor \in Nat /\ c.rope_high_freq_factor \in Nat
         /\ c.rope_low_freq_factor < c.rope_high_freq_factor
<1> DEFINE scaling == Get(hf, "rope_scaling", << >>)
<1>1. RopeAssumption(scaling)
  <2>1. CASE "rope_scaling" \in DOMAIN hf
    BY <2>1, ModelAssumption DEF Get
  <2>2. CASE "rope_scaling" \notin DOMAIN hf
    <3>1. scaling = << >> /\ DOMAIN << >> = {}
      BY <2>2 DEF Get
    <3>2. \A key, default : Get(scaling, key, default) = default
      BY <3>1 DEF Get
    <3> HIDE DEF scaling
    <3> QED BY <3>2 DEF RopeAssumption
  <2> QED BY <2>1, <2>2
<1>2. /\ c.rope_scaling_factor = Get(scaling, "factor", 1)
      /\ c.rope_low_freq_factor = Get(scaling, "low_freq_factor", 1)
      /\ c.rope_high_freq_factor = Get(scaling, "high_freq_factor", 4)
      /\ c.rope_original_max_pos = Get(scaling, "original_max_position_embeddings", 8192)
  <2> HIDE DEF Get
  <2> QED BY DEF ModelConfig
<1> HIDE DEF scaling
<1>3. /\ Get(scaling, "factor", 1) \in Nat \ {0}
      /\ Get(scaling, "low_freq_factor", 1) \in Nat
      /\ Get(scaling, "high_freq_factor", 4) \in Nat
      /\ Get(scaling, "original_max_position_embeddings", 8192) \in Nat
      /\ Get(scaling, "low_freq_factor", 1) < Get(scaling, "high_freq_factor", 4)
  BY <1>1 DEF RopeAssumption
<1> QED BY <1>2, <1>3

RopeTypes(c) ==
  /\ c.rope_scaling_factor \in Nat \ {0} /\ c.rope_original_max_pos \in Nat
  /\ c.rope_low_freq_factor \in Nat /\ c.rope_high_freq_factor \in Nat
  /\ c.rope_low_freq_factor < c.rope_high_freq_factor

InBand(c, w) == ~IsLong(c, w) /\ ~IsShort(c, w)
Numerator(c, w) == c.rope_scaling_factor * Above(c, w) + Below(c, w)
Band(c, w) == w * (c.rope_high_freq_factor - c.rope_low_freq_factor)

LEMMA ScaledTypes ==
  ASSUME NEW c, RopeTypes(c), NEW w \in Nat \ {0}
  PROVE  /\ Band(c, w) \in Nat \ {0}
         /\ c.rope_scaling_factor * w \in Nat \ {0}
         /\ w <= c.rope_scaling_factor * w
<1> DEFINE f == c.rope_scaling_factor
           g == c.rope_high_freq_factor - c.rope_low_freq_factor
<1>1. f \in Nat \ {0} /\ g \in Nat \ {0}
  BY DEF RopeTypes
<1>2. Band(c, w) = w * g
  BY DEF Band
<1> HIDE DEF f, g
<1>3. w * g \in Nat \ {0} /\ f * w \in Nat \ {0}
  BY <1>1
<1>4. 1 * w <= f * w
  BY <1>1, MoreTimes
<1> QED BY <1>2, <1>3, <1>4 DEF f

\* Inside the band the numerator lies between those of the two ends.
LEMMA BlendWithin ==
  ASSUME NEW c, RopeTypes(c), NEW w \in Nat \ {0}, InBand(c, w)
  PROVE  /\ Numerator(c, w) \in Nat \ {0}
         /\ Band(c, w) <= Numerator(c, w)
         /\ Numerator(c, w) <= c.rope_scaling_factor * Band(c, w)
<1> DEFINE f == c.rope_scaling_factor
           a == Above(c, w)
           b == Below(c, w)
<1>1. f \in Nat \ {0} /\ a \in Nat /\ b \in Nat /\ Band(c, w) = a + b
  <2> DEFINE low == c.rope_low_freq_factor
             high == c.rope_high_freq_factor
             pos == c.rope_original_max_pos
  <2>1. /\ low \in Nat /\ high \in Nat /\ pos \in Nat /\ f \in Nat \ {0}
        /\ w * low <= pos /\ w * high >= pos
    <3>1. /\ low \in Nat /\ high \in Nat /\ pos \in Nat /\ f \in Nat \ {0}
      BY DEF RopeTypes
    <3>2. ~(w * low > pos) /\ ~(w * high < pos)
      BY DEF InBand, IsLong, IsShort
    <3>3. w * low \in Nat /\ w * high \in Nat
      BY <3>1, ProductType
    <3> HIDE DEF low, high, pos
    <3> QED BY <3>1, <3>2, <3>3
  <2>2. a = pos - low * w /\ b = high * w - pos /\ Band(c, w) = w * (high - low)
    BY DEF Above, Below, Band
  <2> HIDE DEF a, b, f, low, high, pos
  <2>3. low * w = w * low /\ high * w = w * high /\ w * (high - low) = w * high - w * low
        /\ w * low \in Nat /\ w * high \in Nat
    BY <2>1
  <2> QED BY <2>1, <2>2, <2>3
<1>2. Numerator(c, w) = f * a + b
  BY DEF Numerator
<1>3. Band(c, w) > 0
  BY ScaledTypes
<1> HIDE DEF f, a, b
<1>4. 1 * a <= f * a /\ 1 * b <= f * b /\ f * a \in Nat /\ f * b \in Nat
  BY <1>1, MoreTimes, ProductType
<1>5. f * (a + b) = f * a + f * b
  BY <1>1
<1>6. f * Band(c, w) = f * a + f * b
  BY <1>1, <1>5
<1> QED BY <1>1, <1>2, <1>3, <1>4, <1>6 DEF f

\* What the three cases of the scaling yield.
LEMMA ScaledCases ==
  ASSUME NEW c, RopeTypes(c), NEW w \in Nat \ {0}
  PROVE  /\ IsLong(c, w) => ScaledInvFreq(c, w) = <<1, c.rope_scaling_factor * w>>
         /\ ~IsLong(c, w) /\ IsShort(c, w) => ScaledInvFreq(c, w) = <<1, w>>
         /\ InBand(c, w) => ScaledInvFreq(c, w) =
              <<Numerator(c, w), (c.rope_scaling_factor * w) * Band(c, w)>>
<1>1. c.rope_scaling_factor * w * w * (c.rope_high_freq_factor - c.rope_low_freq_factor)
        = (c.rope_scaling_factor * w) * Band(c, w)
  <2> DEFINE f == c.rope_scaling_factor
             g == c.rope_high_freq_factor - c.rope_low_freq_factor
  <2>1. f \in Nat /\ g \in Int
    BY DEF RopeTypes
  <2> HIDE DEF f, g
  <2>2. f * w * w * g = (f * w) * (w * g)
    BY <2>1
  <2> QED BY <2>2 DEF f, g, Band
<1> QED BY <1>1 DEF ScaledInvFreq, Divided, InvFreq, Smoothed, Blend, InBand, Numerator

\* The scaled frequency is between the divided and the original one.
LEMMA ScaledBetween ==
  ASSUME NEW c, RopeTypes(c), NEW w \in Nat \ {0}
  PROVE  /\ NoFasterThan(Divided(c, w), ScaledInvFreq(c, w))
         /\ NoFasterThan(ScaledInvFreq(c, w), InvFreq(w))
<1> DEFINE fw == c.rope_scaling_factor * w
           n == Numerator(c, w)
           g == Band(c, w)
<1>1. fw \in Nat \ {0} /\ g \in Nat \ {0} /\ w <= fw
  BY ScaledTypes
<1>2. Divided(c, w) = <<1, fw>> /\ InvFreq(w) = <<1, w>>
  BY DEF Divided, InvFreq
<1>3. CASE IsLong(c, w)
  <2>1. ScaledInvFreq(c, w) = <<1, fw>>
    BY <1>3, ScaledCases
  <2> HIDE DEF fw
  <2> QED BY <1>1, <1>2, <2>1 DEF NoFasterThan
<1>4. CASE ~IsLong(c, w) /\ IsShort(c, w)
  <2>1. ScaledInvFreq(c, w) = <<1, w>>
    BY <1>4, ScaledCases
  <2> HIDE DEF fw
  <2> QED BY <1>1, <1>2, <2>1 DEF NoFasterThan
<1>5. CASE InBand(c, w)
  <2>1. ScaledInvFreq(c, w) = <<n, fw * g>>
    BY <1>5, ScaledCases
  <2>2. n \in Nat /\ g <= n /\ n <= c.rope_scaling_factor * g
    BY <1>5, BlendWithin
  <2>3. g * fw <= n * fw
    BY <1>1, <2>2, MoreTimes
  <2>4. n * w <= (c.rope_scaling_factor * g) * w
    <3>1. c.rope_scaling_factor * g \in Nat
      BY <1>1, ProductType DEF RopeTypes
    <3> QED BY <2>2, <3>1, MoreTimes
  <2>5. (c.rope_scaling_factor * g) * w = fw * g
    <3> DEFINE f == c.rope_scaling_factor
    <3>1. f \in Nat
      BY DEF RopeTypes
    <3> HIDE DEF f, g
    <3>2. (f * g) * w = (f * w) * g
      BY <1>1, <3>1
    <3> QED BY <3>2 DEF f
  <2> HIDE DEF fw, n, g
  <2>6. fw * g = g * fw /\ 1 * (fw * g) = fw * g
    BY <1>1
  <2> QED BY <1>2, <2>1, <2>3, <2>4, <2>5, <2>6 DEF NoFasterThan
<1> QED BY <1>3, <1>4, <1>5 DEF InBand


\* The cases of a longer wavelength are not before those of a shorter one.
LEMMA CasesInOrder ==
  ASSUME NEW c, RopeTypes(c), NEW v \in Nat \ {0}, NEW w \in Nat \ {0}, v < w
  PROVE  /\ IsLong(c, v) => IsLong(c, w)
         /\ IsShort(c, w) => IsShort(c, v)
<1> DEFINE low == c.rope_low_freq_factor
           high == c.rope_high_freq_factor
           pos == c.rope_original_max_pos
<1>1. low \in Nat /\ high \in Nat /\ pos \in Nat
  BY DEF RopeTypes
<1>2. /\ IsLong(c, v) <=> v * low > pos
      /\ IsLong(c, w) <=> w * low > pos
      /\ IsShort(c, v) <=> v * high < pos
      /\ IsShort(c, w) <=> w * high < pos
  BY DEF IsLong, IsShort
<1> HIDE DEF low, high, pos
<1>3. v * low <= w * low /\ v * high <= w * high
  BY <1>1, MoreTimes
<1>4. v * low \in Nat /\ w * low \in Nat /\ v * high \in Nat /\ w * high \in Nat
  BY <1>1, ProductType
<1> QED BY <1>1, <1>2, <1>3, <1>4

\* Two wavelengths inside the band.
LEMMA BandDecreases ==
  ASSUME NEW c, RopeTypes(c), NEW v \in Nat \ {0}, NEW w \in Nat \ {0}, v < w,
         InBand(c, v), InBand(c, w)
  PROVE  Numerator(c, w) * ((c.rope_scaling_factor * v) * Band(c, v))
           < Numerator(c, v) * ((c.rope_scaling_factor * w) * Band(c, w))
<1> DEFINE f == c.rope_scaling_factor
           low == c.rope_low_freq_factor
           high == c.rope_high_freq_factor
           pos == c.rope_original_max_pos
           g == high - low
           n == Numerator(c, w)
           m == Numerator(c, v)
<1>1. f \in Nat \ {0} /\ low \in Nat /\ high \in Nat /\ pos \in Nat /\ g \in Nat \ {0}
  BY DEF RopeTypes
<1>2. n \in Nat \ {0} /\ m \in Nat \ {0}
  BY BlendWithin
<1>3. /\ n = f * (pos - low * w) + (high * w - pos)
      /\ m = f * (pos - low * v) + (high * v - pos)
  BY DEF Numerator, Above, Below
<1>4. Band(c, v) = v * g /\ Band(c, w) = w * g
  BY DEF Band
<1> HIDE DEF f, low, high, pos, g, n, m
<1> DEFINE a == f * pos - pos
           k == high - f * low
<1>5. a \in Nat /\ k \in Int
  <2>1. 1 * pos <= f * pos /\ f * pos \in Nat /\ f * low \in Nat
    BY <1>1, MoreTimes, ProductType
  <2> QED BY <1>1, <2>1
<1>6. n = a + k * w /\ m = a + k * v
  <2>1. /\ f * (pos - low * w) = f * pos - (f * low) * w
        /\ f * (pos - low * v) = f * pos - (f * low) * v
    BY <1>1
  <2>2. /\ k * w = high * w - (f * low) * w
        /\ k * v = high * v - (f * low) * v
    BY <1>1
  <2>3. /\ high * w \in Int /\ high * v \in Int /\ (f * low) * w \in Int /\ (f * low) * v \in Int
        /\ f * pos \in Int
    BY <1>1
  <2> HIDE DEF k
  <2> QED BY <1>1, <1>3, <2>1, <2>2, <2>3
<1> HIDE DEF a, k
<1>7. n * v <= m * w
  <2>1. n * v = a * v + (k * w) * v /\ m * w = a * w + (k * v) * w
    BY <1>5, <1>6
  <2>2. (k * w) * v = (k * v) * w /\ (k * w) * v \in Int
    BY <1>5
  <2>3. v * a <= w * a /\ v * a = a * v /\ w * a = a * w
    BY <1>5, MoreTimes
  <2>4. a * v \in Int /\ a * w \in Int
    BY <1>5
  <2> QED BY <2>1, <2>2, <2>3, <2>4
<1>8. (n * v) * v < (m * w) * w
  <2>1. n * v \in Nat /\ m * w \in Nat /\ m * w > 0
    BY <1>2
  <2>2. (n * v) * v <= (m * w) * v
    BY <1>7, <2>1, MoreTimes
  <2>3. v * (m * w) < w * (m * w)
    BY <2>1, MoreTimes
  <2>4. v * (m * w) = (m * w) * v /\ w * (m * w) = (m * w) * w
    BY <2>1
  <2>5. (n * v) * v \in Int /\ (m * w) * v \in Int /\ (m * w) * w \in Int
    BY <2>1
  <2> QED BY <2>2, <2>3, <2>4, <2>5
<1>9. ((n * v) * v) * (f * g) < ((m * w) * w) * (f * g)
  <2>1. (n * v) * v \in Nat /\ (m * w) * w \in Nat /\ f * g \in Nat /\ f * g > 0
    BY <1>1, <1>2
  <2> QED BY <1>8, <2>1, MoreTimes
<1>10. /\ n * ((f * v) * (v * g)) = ((n * v) * v) * (f * g)
       /\ m * ((f * w) * (w * g)) = ((m * w) * w) * (f * g)
  BY <1>1, <1>2
<1>11. n * ((f * v) * (v * g)) < m * ((f * w) * (w * g))
  BY <1>9, <1>10
<1> QED BY <1>4, <1>11 DEF f, n, m

LEMMA ScaledDecreases ==
  ASSUME NEW c, RopeTypes(c), NEW v \in Nat \ {0}, NEW w \in Nat \ {0}, v < w
  PROVE  SlowerThan(ScaledInvFreq(c, w), ScaledInvFreq(c, v))
<1> DEFINE f == c.rope_scaling_factor
           fv == f * v
           fw == f * w
<1>1. f \in Nat \ {0} /\ fv \in Nat \ {0} /\ fw \in Nat \ {0} /\ v <= fv /\ w <= fw
  BY ScaledTypes DEF RopeTypes
<1>2. fv < fw
  <2>1. v * f < w * f /\ v * f = f * v /\ w * f = f * w
    BY <1>1, MoreTimes
  <2> QED BY <2>1
<1>3. CASE IsLong(c, w)
  <2>1. ScaledInvFreq(c, w) = <<1, fw>>
    BY <1>3, ScaledCases
  <2>2. CASE IsLong(c, v)
    <3>1. ScaledInvFreq(c, v) = <<1, fv>>
      BY <2>2, ScaledCases
    <3> HIDE DEF fv, fw
    <3> QED BY <1>1, <1>2, <2>1, <3>1 DEF SlowerThan
  <2>3. CASE ~IsLong(c, v) /\ IsShort(c, v)
    <3>1. ScaledInvFreq(c, v) = <<1, v>>
      BY <2>3, ScaledCases
    <3> HIDE DEF fv, fw
    <3> QED BY <1>1, <2>1, <3>1 DEF SlowerThan
  <2>4. CASE InBand(c, v)
    <3> DEFINE m == Numerator(c, v)
               g == Band(c, v)
    <3>1. ScaledInvFreq(c, v) = <<m, fv * g>>
      BY <2>4, ScaledCases
    <3>2. m \in Nat \ {0} /\ g <= m /\ g \in Nat \ {0}
      BY <2>4, BlendWithin, ScaledTypes
    <3> HIDE DEF m, g, fv, fw
    <3>3. g * fv <= m * fv /\ fv * m < fw * m
      BY <1>1, <1>2, <3>2, MoreTimes
    <3>4. /\ g * fv = fv * g /\ m * fv = fv * m /\ m * fw = fw * m
          /\ fv * g \in Int /\ m * fv \in Int /\ m * fw \in Int
      BY <1>1, <3>2
    <3> QED BY <2>1, <3>1, <3>3, <3>4 DEF SlowerThan
  <2> QED BY <2>2, <2>3, <2>4 DEF InBand
<1>4. CASE InBand(c, w)
  <2> DEFINE n == Numerator(c, w)
             g == Band(c, w)
  <2>1. ScaledInvFreq(c, w) = <<n, fw * g>>
    BY <1>4, ScaledCases
  <2>2. CASE IsShort(c, v)
    <3>1. ScaledInvFreq(c, v) = <<1, v>>
      BY <1>4, <2>2, CasesInOrder, ScaledCases DEF InBand
    <3>2. n \in Nat \ {0} /\ n <= f * g /\ g \in Nat \ {0}
      BY <1>4, BlendWithin, ScaledTypes
    <3>3. v * n < w * n
      BY <3>2, MoreTimes
    <3>4. n * w <= (f * g) * w
      <4>1. f * g \in Nat
        BY <1>1, <3>2, ProductType
      <4> QED BY <3>2, <4>1, MoreTimes
    <3> HIDE DEF n, g, f
    <3>5. (f * g) * w = fw * g
      BY <1>1, <3>2
    <3> HIDE DEF fw
    <3>6. /\ v * n = n * v /\ w * n = n * w /\ n * v \in Int /\ n * w \in Int
          /\ fw * g \in Int /\ 1 * (fw * g) = fw * g
      BY <1>1, <3>2
    <3> QED BY <2>1, <3>1, <3>3, <3>4, <3>5, <3>6 DEF SlowerThan
  <2>3. CASE ~IsShort(c, v)
    <3>1. InBand(c, v)
      BY <1>4, <2>3, CasesInOrder DEF InBand
    <3>2. ScaledInvFreq(c, v) = <<Numerator(c, v), fv * Band(c, v)>>
      BY <3>1, ScaledCases
    <3>3. n * (fv * Band(c, v)) < Numerator(c, v) * (fw * g)
      BY <1>4, <3>1, BandDecreases
    <3> HIDE DEF n, g, fv, fw
    <3> QED BY <2>1, <3>2, <3>3 DEF SlowerThan
  <2> QED BY <2>2, <2>3
<1>5. CASE ~IsLong(c, w) /\ IsShort(c, w)
  <2>1. ScaledInvFreq(c, w) = <<1, w>>
    BY <1>5, ScaledCases
  <2>2. ScaledInvFreq(c, v) = <<1, v>>
    BY <1>5, CasesInOrder, ScaledCases
  <2> QED BY <2>1, <2>2 DEF SlowerThan
<1> QED BY <1>3, <1>4, <1>5 DEF InBand

\* For every scaling with a band that is not empty and every set of
\* wavelengths, the scaled frequencies keep their order and their bounds.
THEOREM RopeIsMonotone == Spec => []RopeKeepsOrder
<1>1. LoadInv => RopeKeepsOrder
  <2> SUFFICES ASSUME LoadInv, stage = "ready" PROVE RopeKeepsOrder
    BY DEF RopeKeepsOrder
  <2>1. RopeTypes(model_cfg)
    <3>1. hf_cfg \in HfConfigs /\ model_cfg = ModelConfig(hf_cfg)
      BY DEF LoadInv, LoadTypes
    <3> QED BY <3>1, RopeFields DEF RopeTypes
  <2>2. Wavelengths \subseteq Nat \ {0}
    BY ModelAssumption
  <2>3. ASSUME NEW w \in Wavelengths
        PROVE  /\ NoFasterThan(Divided(model_cfg, w), ScaledInvFreq(model_cfg, w))
               /\ NoFasterThan(ScaledInvFreq(model_cfg, w), InvFreq(w))
    BY <2>1, <2>2, ScaledBetween
  <2>4. ASSUME NEW v \in Wavelengths, NEW w \in Wavelengths, v < w
        PROVE  SlowerThan(ScaledInvFreq(model_cfg, w), ScaledInvFreq(model_cfg, v))
    BY <2>1, <2>2, <2>4, ScaledDecreases
  <2> QED BY <2>3, <2>4 DEF RopeKeepsOrder
<1> QED BY <1>1, LoadInvHolds, PTL


-----------------------------------------------------------------------------
(* Which KV head a query head finds.                                       *)

LEMMA Division ==
  ASSUME NEW a \in Nat, NEW b \in Nat \ {0}
  PROVE  /\ a \div b \in Nat
         /\ (a \div b) * b <= a
         /\ a < (a \div b) * b + b
<1>1. a \div b \in Nat /\ a % b \in 0 .. b - 1 /\ a = b * (a \div b) + (a % b)
  OBVIOUS
<1> DEFINE q == a \div b
<1> HIDE DEF q
<1>2. b * q = q * b
  BY <1>1 DEF q
<1> QED BY <1>1, <1>2 DEF q

LEMMA QuotientIs ==
  ASSUME NEW a \in Nat, NEW b \in Nat \ {0}, NEW q \in Nat, q * b <= a, a < q * b + b
  PROVE  a \div b = q
<1> DEFINE p == a \div b
<1>1. p \in Nat /\ p * b <= a /\ a < p * b + b
  BY Division
<1> HIDE DEF p
<1>2. q + 1 \in Nat /\ p + 1 \in Nat /\ (q + 1) * b = q * b + b /\ (p + 1) * b = p * b + b
      /\ q * b \in Nat /\ p * b \in Nat
  BY <1>1
<1>3. ASSUME p < q PROVE FALSE
  <2>1. (p + 1) * b <= q * b
    BY <1>1, <1>2, <1>3, MoreTimes
  <2> QED BY <1>1, <1>2, <2>1
<1>4. ASSUME q < p PROVE FALSE
  <2>1. (q + 1) * b <= p * b
    BY <1>1, <1>2, <1>4, MoreTimes
  <2> QED BY <1>1, <1>2, <2>1
<1>5. p = q
  BY <1>1, <1>3, <1>4
<1> QED BY <1>5 DEF p

\* repeat_interleave, written as a division.
LEMMA RepeatIsDivision ==
  ASSUME NEW n \in Nat \ {0}, NEW g \in Nat \ {0}, NEW h \in 0 .. n * g - 1
  PROVE  FlattenSeq([k \in 1 .. n |-> [i \in 1 .. g |-> k - 1]])[h + 1] = h \div g
<1> DEFINE copies(k) == [i \in 1 .. g |-> k - 1]
           c == [k \in 1 .. n |-> copies(k)]
           first(k) == [j \in 1 .. k * g |-> (j - 1) \div g]
           stages == [k \in 1 .. n |-> first(k)]
<1>1. /\ Len(c) = n /\ \A k \in 1 .. n : c[k] = copies(k)
      /\ \A k \in 1 .. n : stages[k] = first(k)
  OBVIOUS
<1> HIDE DEF c, stages
<1>2. ASSUME NEW k \in Nat, NEW i \in 1 .. g
      PROVE  (k * g + i - 1) \div g = k
  <2>1. k * g \in Nat
    BY ProductType
  <2>2. k * g + i - 1 \in Nat /\ k * g <= k * g + i - 1 /\ k * g + i - 1 < k * g + g
    BY <2>1
  <2> QED BY <2>2, QuotientIs
<1>3. first(1) = copies(1)
  <2>1. 1 * g = g /\ 0 * g = 0
    OBVIOUS
  <2>2. ASSUME NEW j \in 1 .. g PROVE (j - 1) \div g = 0
    <3>1. (0 * g + j - 1) \div g = 0
      BY <1>2
    <3>2. 0 * g + j - 1 = j - 1
      BY <2>1
    <3> QED BY <3>1, <3>2
  <2> QED BY <2>1, <2>2
<1>4. ASSUME NEW k \in 2 .. n PROVE first(k) = first(k - 1) \o copies(k)
  <2> DEFINE m == (k - 1) * g
  <2>1. k - 1 \in Nat /\ m \in Nat /\ k * g = m + g
    <3>1. k - 1 \in Nat
      OBVIOUS
    <3>2. m \in Nat
      BY <3>1, ProductType
    <3> QED BY <3>1, <3>2
  <2> HIDE DEF m
  <2>2. /\ first(k - 1) \in Seq(Nat) /\ Len(first(k - 1)) = m
        /\ \A j \in 1 .. m : first(k - 1)[j] = (j - 1) \div g
    <3>1. first(k - 1) = [j \in 1 .. m |-> (j - 1) \div g]
      BY DEF m
    <3>2. \A j \in 1 .. m : (j - 1) \div g \in Nat
      BY Division, <2>1
    <3> QED BY <2>1, <3>1, <3>2
  <2>3. copies(k) \in Seq(Nat) /\ Len(copies(k)) = g /\ \A i \in 1 .. g : copies(k)[i] = k - 1
    BY <2>1
  <2>4. /\ first(k) \in Seq(Nat) /\ Len(first(k)) = m + g
        /\ \A j \in 1 .. m + g : first(k)[j] = (j - 1) \div g
    <3>1. first(k) = [j \in 1 .. m + g |-> (j - 1) \div g]
      BY <2>1
    <3>2. \A j \in 1 .. m + g : (j - 1) \div g \in Nat
      BY Division, <2>1
    <3>3. m + g \in Nat
      BY <2>1
    <3> QED BY <3>1, <3>2, <3>3
  <2>5. ASSUME NEW j \in 1 .. m + g, ~(j <= m) PROVE (j - 1) \div g = k - 1
    <3>1. j - m \in 1 .. g /\ m + (j - m) - 1 = j - 1
      BY <2>1, <2>5
    <3>2. ((k - 1) * g + (j - m) - 1) \div g = k - 1
      BY <1>2, <2>1, <3>1
    <3> QED BY <3>1, <3>2 DEF m
  <2> DEFINE a == first(k - 1)
             b == copies(k)
             s == first(k)
             t == a \o b
  <2> HIDE DEF first, copies
  <2>6. t \in Seq(Nat) /\ Len(t) = m + g
        /\ \A j \in 1 .. m + g : t[j] = IF j <= m THEN a[j] ELSE b[j - m]
    <3> HIDE DEF a, b, s
    <3>1. a \in Seq(Nat) /\ Len(a) = m
      BY <2>2 DEF a
    <3>2. b \in Seq(Nat) /\ Len(b) = g
      BY <2>3 DEF b
    <3>3. /\ t \in Seq(Nat) /\ Len(t) = Len(a) + Len(b)
          /\ \A j \in 1 .. Len(a) + Len(b) :
               t[j] = IF j <= Len(a) THEN a[j] ELSE b[j - Len(a)]
      BY <3>1, <3>2, ConcatProperties
    <3> QED BY <3>1, <3>2, <3>3
  <2>7. ASSUME NEW j \in 1 .. m + g PROVE s[j] = t[j]
    <3>1. CASE j <= m
      <4>1. j \in 1 .. m
        BY <2>1, <3>1
      <4> QED BY <2>2, <2>4, <2>6, <3>1, <4>1
    <3>2. CASE ~(j <= m)
      <4>1. j - m \in 1 .. g
        BY <2>1, <3>2
      <4> QED BY <2>3, <2>4, <2>5, <2>6, <3>2, <4>1
    <3> QED BY <3>1, <3>2
  <2>8. s = t
    <3> HIDE DEF s, t
    <3>1. s \in Seq(Nat) /\ Len(s) = m + g
      BY <2>4 DEF s
    <3> QED BY <2>6, <2>7, <3>1, SeqEqual
  <2> QED BY <2>8
<1> HIDE DEF first, copies
<1>5. JoinedStages(stages, c)
  <2>1. stages = [k \in 1 .. n |-> stages[k]]
    BY DEF stages
  <2>2. 1 \in 1 .. n /\ \A k \in 2 .. n : k \in 1 .. n /\ k - 1 \in 1 .. n
    OBVIOUS
  <2>3. stages[1] = c[1]
    BY <1>1, <1>3, <2>2
  <2>4. \A k \in 2 .. n : stages[k] = stages[k - 1] \o c[k]
    BY <1>1, <1>4, <2>2
  <2> QED BY <1>1, <2>1, <2>3, <2>4 DEF JoinedStages
<1>6. FlattenSeq(c) = first(n)
  <2>1. FlattenSeq(c) = stages[Len(c)]
    BY <1>1, <1>5, FlattenIs
  <2>2. n \in 1 .. n
    OBVIOUS
  <2> QED BY <1>1, <2>1, <2>2
<1>7. n * g \in Nat /\ h + 1 \in 1 .. n * g /\ (h + 1) - 1 = h
  BY ProductType
<1>8. first(n)[h + 1] = h \div g
  BY <1>7 DEF first
<1> QED BY <1>6, <1>8 DEF c, copies

\* For every grouping, repeat_interleave and the kernel's division give a query
\* head the same KV head, and every KV head serves equally many.
THEOREM BackendsPairAlike == Spec => []BackendsShareKvHeads
<1>1. LoadInv => BackendsShareKvHeads
  <2> SUFFICES ASSUME LoadInv, stage = "ready" PROVE BackendsShareKvHeads
    BY DEF BackendsShareKvHeads
  <2> DEFINE n == model_cfg.num_key_value_heads
             g == NumKvGroups(model_cfg)
             heads == 0 .. model_cfg.num_attention_heads - 1
  <2>1. n \in Nat \ {0} /\ g \in Nat \ {0} /\ model_cfg.num_attention_heads = n * g
    <3>1. hf_cfg \in HfConfigs /\ model_cfg = ModelConfig(hf_cfg)
      BY DEF LoadInv, LoadTypes
    <3> DEFINE a == model_cfg.num_attention_heads
    <3>2. a \in Nat \ {0} /\ n \in Nat \ {0} /\ a % n = 0
      BY <3>1, ConfigFields, ConfigTypes
    <3>3. g = a \div n
      BY DEF NumKvGroups
    <3> HIDE DEF a, n, g
    <3>4. a \div n \in Nat /\ a = n * (a \div n) + (a % n)
      BY <3>2
    <3>5. a = n * g /\ g \in Nat
      BY <3>2, <3>3, <3>4
    <3>6. g # 0
      BY <3>2, <3>5
    <3> QED BY <3>2, <3>5, <3>6 DEF a
  <2>2. ASSUME NEW h \in heads PROVE TorchKvHead(h) = h \div g /\ TritonKvHead(h) = h \div g
    <3>1. h \in 0 .. n * g - 1
      BY <2>1
    <3>2. TorchKvHead(h) = h \div g
      <4>1. TorchKvHead(h) = FlattenSeq([k \in 1 .. n |-> [i \in 1 .. g |-> k - 1]])[h + 1]
        BY DEF TorchKvHead
      <4> HIDE DEF n, g
      <4> QED BY <2>1, <3>1, <4>1, RepeatIsDivision
    <3> QED BY <3>2 DEF TritonKvHead
  <2>3. ASSUME NEW k \in 0 .. n - 1
        PROVE  Cardinality({h \in heads : TorchKvHead(h) = k}) = g
    <3> DEFINE from == k * g
               to == k * g + g - 1
    <3> HIDE DEF n, g
    <3>1. from \in Nat /\ to \in Nat /\ to - from + 1 = g /\ from + g <= n * g /\ n * g \in Nat
      <4>1. k \in Nat /\ k + 1 \in Nat /\ k + 1 <= n
        BY <2>1
      <4>2. k * g \in Nat /\ n * g \in Nat /\ (k + 1) * g = k * g + g
        BY <2>1, <4>1, ProductType
      <4>3. (k + 1) * g <= n * g
        <5> DEFINE j == k + 1
        <5>1. j \in Nat /\ j <= n
          BY <4>1
        <5> HIDE DEF j
        <5>2. j * g <= n * g
          BY <2>1, <5>1, MoreTimes
        <5> QED BY <5>2 DEF j
      <4> QED BY <2>1, <4>2, <4>3
    <3>2. heads = 0 .. n * g - 1
      BY <2>1
    <3> HIDE DEF heads
    <3>3. ASSUME NEW h \in heads PROVE TorchKvHead(h) = k <=> h \in from .. to
      <4>1. h \in Nat /\ k \in Nat
        BY <3>2
      <4>2. TorchKvHead(h) = h \div g
        BY <2>2
      <4>3. ASSUME h \div g = k PROVE h \in from .. to
        BY <2>1, <3>1, <4>1, <4>3, Division
      <4>4. ASSUME h \in from .. to PROVE h \div g = k
        <5>1. k * g <= h /\ h < k * g + g
          BY <2>1, <3>1, <4>1, <4>4
        <5> QED BY <2>1, <4>1, <5>1, QuotientIs
      <4> QED BY <4>2, <4>3, <4>4
    <3>4. ASSUME NEW h \in from .. to PROVE h \in heads
      <4> HIDE DEF from, to
      <4>1. h \in Int /\ from <= h /\ h <= to
        BY <3>1
      <4>2. 0 <= h /\ h <= n * g - 1
        <5> DEFINE all == n * g
        <5>1. all \in Nat /\ from + g <= all /\ to - from + 1 = g
          BY <3>1
        <5> HIDE DEF all
        <5>2. 0 <= h /\ h <= all - 1
          BY <2>1, <3>1, <4>1, <5>1
        <5> QED BY <5>2 DEF all
      <4>3. h \in 0 .. n * g - 1
        BY <3>1, <4>1, <4>2
      <4> QED BY <3>2, <4>3
    <3> HIDE DEF from, to
    <3>5. {h \in heads : TorchKvHead(h) = k} = from .. to
      BY <3>3, <3>4
    <3>6. Cardinality(from .. to) = g
      <4>1. from <= to
        BY <2>1, <3>1
      <4> QED BY <3>1, <4>1, FS_Interval
    <3> QED BY <3>5, <3>6
  <2> QED BY <2>2, <2>3 DEF BackendsShareKvHeads
<1> QED BY <1>1, LoadInvHolds, PTL

=============================================================================
