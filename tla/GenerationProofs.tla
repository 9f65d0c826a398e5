-------------------------- MODULE GenerationProofs --------------------------
(***************************************************************************)
(* What the filters of the sampler leave to draw from, for every           *)
(* vocabulary, every logits and every order in which ties may be sorted,   *)
(* and what the deltas of the text add up to, for every tokenizer.         *)
(***************************************************************************)
EXTENDS Generation, DataProofs

\* A token that no token of the vocabulary beats is still there.
BestIsKept == \E t \in kept : \A u \in Vocab : logits[u] <= logits[t]

Above(t) == {u \in Vocab : logits[u] > logits[t]}
FewAbove(t) == Cardinality(Above(t)) < sampling_params.top_k

\* The inductive invariant: what each filter has left, stage by stage.
FilterInv ==
  /\ SamplerTypes
  /\ stage \in {"penalty", "temperature", "topk"} => kept = Vocab
  /\ stage \in {"topp", "draw"} => kept = Vocab \/ BestIsKept
  /\ stage \in {"topp", "draw"} /\ LimitsK => \A t \in kept : FewAbove(t)
  /\ AmongTheBest
  /\ GreedyTakesBest

-----------------------------------------------------------------------------
(* Sorting and the two filters.                                            *)

\* The first of a descending order is a best one of its set.
LEMMA FirstIsBest ==
  ASSUME SamplerTypes, NEW S \in SUBSET Vocab, S # {}, NEW o \in Descending(S)
  PROVE  /\ Cardinality(S) \in Nat \ {0}
         /\ 1 \in 1 .. Cardinality(S)
         /\ o \in [1 .. Cardinality(S) -> S]
         /\ o[1] \in S
         /\ \A u \in S : logits[u] <= logits[o[1]]
<1>1. o \in [1 .. Cardinality(S) -> S]
  BY DEF Descending
<1>2. IsFiniteSet(S)
  BY SamplerAssumption, FS_Subset
<1>3. Cardinality(S) \in Nat \ {0}
  BY <1>2, FS_CardinalityType, FS_EmptySet
<1>4. 1 \in 1 .. Cardinality(S) /\ o[1] \in S
  BY <1>1, <1>3
<1>5. ASSUME NEW u \in S
      PROVE  logits[u] <= logits[o[1]]
  <2>1. PICK i \in 1 .. Cardinality(S) : o[i] = u
    BY <1>1, <1>5 DEF Descending
  <2>2. CASE i = 1
    BY <1>4, <1>5, <2>1, <2>2 DEF SamplerTypes
  <2>3. CASE 1 < i
    BY <1>1, <1>4, <2>1, <2>3 DEF Descending, SamplerTypes
  <2> QED BY <1>3, <2>1, <2>2, <2>3
<1> QED BY <1>1, <1>3, <1>4, <1>5

\* Top-k keeps the first, and whatever it keeps has fewer than k above it.
LEMMA ThresholdKeepsFew ==
  ASSUME SamplerTypes, LimitsK, NEW o \in Descending(Vocab),
         NEW t \in Vocab, logits[t] >= Threshold(o)
  PROVE  FewAbove(t)
<1> DEFINE k == sampling_params.top_k
           B == {o[i] : i \in 1 .. k - 1}
<1>1. /\ Vocabulary \in Nat /\ k \in 1 .. Vocabulary - 1
      /\ o \in [1 .. Vocabulary -> Vocab]
      /\ \A u \in Vocab : \E i \in 1 .. Vocabulary : o[i] = u
      /\ \A i, j \in 1 .. Vocabulary : i < j => logits[o[i]] >= logits[o[j]]
  <2>1. Vocabulary \in Nat
    BY SamplerAssumption, FS_CardinalityType DEF Vocabulary
  <2>2. k \in Int
    BY SamplerAssumption DEF SamplerTypes, SamplerParamType
  <2> QED BY <2>1, <2>2 DEF LimitsK, Descending, Vocabulary
<1>2. Above(t) \subseteq B
  <2> SUFFICES ASSUME NEW u \in Vocab, logits[u] > logits[t]
               PROVE  u \in B
    BY DEF Above
  <2>1. PICK i \in 1 .. Vocabulary : o[i] = u
    BY <1>1
  <2>2. logits[o[k]] <= logits[t] /\ o[k] \in Vocab
    BY <1>1 DEF Threshold, SamplerTypes
  <2>3. ~(i >= k)
    <3> SUFFICES ASSUME i >= k PROVE FALSE
      OBVIOUS
    <3>1. k \in 1 .. Vocabulary /\ (i = k \/ k < i)
      BY <1>1
    <3>2. k < i => logits[o[k]] >= logits[o[i]]
      BY <1>1, <3>1
    <3>3. logits[u] \in Int /\ logits[o[k]] \in Int
      BY <2>2 DEF SamplerTypes
    <3>4. logits[u] <= logits[o[k]]
      BY <2>1, <3>1, <3>2, <3>3
    <3> QED BY <2>2, <3>4 DEF SamplerTypes
  <2>4. i \in 1 .. k - 1
    BY <1>1, <2>3
  <2> QED BY <2>1, <2>4
<1>3. IsFiniteSet(B) /\ Cardinality(B) <= k - 1
  <2> DEFINE f == [i \in 1 .. k - 1 |-> o[i]]
  <2>1. f \in Surjection(1 .. k - 1, B)
    BY DEF Surjection
  <2>2. IsFiniteSet(1 .. k - 1) /\ Cardinality(1 .. k - 1) = k - 1
    <3>1. k - 1 \in Int /\ (~(1 > k - 1) \/ k - 1 = 0)
      BY <1>1
    <3> HIDE DEF k
    <3>2. /\ IsFiniteSet(1 .. k - 1)
          /\ Cardinality(1 .. k - 1) = IF 1 > k - 1 THEN 0 ELSE k - 1 - 1 + 1
      BY <3>1, FS_Interval
    <3> QED BY <3>1, <3>2
  <2> HIDE DEF f, B
  <2> QED BY <2>1, <2>2, FS_Surjection
<1>4. IsFiniteSet(Above(t)) /\ Cardinality(Above(t)) <= Cardinality(B)
  BY <1>2, <1>3, FS_Subset
<1>5. Cardinality(Above(t)) \in Nat /\ Cardinality(B) \in Nat
  BY <1>3, <1>4, FS_CardinalityType
<1> HIDE DEF B
<1> QED BY <1>1, <1>3, <1>4, <1>5 DEF FewAbove

\* The conditions on a token depend on nothing but the logits and the vocabulary.
LEMMA SameLogits ==
  ASSUME UNCHANGED <<logits, sampling_params>>
  PROVE  /\ \A t : Above(t)' = Above(t)
         /\ \A t : FewAbove(t)' <=> FewAbove(t)
         /\ LimitsK' <=> LimitsK
BY DEF Above, FewAbove, LimitsK

-----------------------------------------------------------------------------
(* The invariant.                                                          *)

LEMMA FilterInvInit == GenerationInit => FilterInv
<1> SUFFICES ASSUME GenerationInit PROVE FilterInv
  OBVIOUS
<1>1. SamplerTypes
  BY SamplerAssumption DEF GenerationInit, SamplerInit, SamplerTypes
<1> QED BY <1>1 DEF GenerationInit, SamplerInit, FilterInv, AmongTheBest, GreedyTakesBest

LEMMA DrawKeepsInv ==
  ASSUME FilterInv, Draw
  PROVE  FilterInv'
<1>1. stage = "draw" /\ stage' = "emit" /\ UNCHANGED <<sampling_params, logits, kept>>
  BY DEF Draw
<1>2. kept # {}
  BY <1>1, SamplerAssumption DEF FilterInv, BestIsKept
<1>3. sampled' \in kept /\ (IsGreedy => sampled' \in Argmax)
  BY <1>2 DEF Draw, Support, Argmax
<1>4. SamplerTypes'
  BY <1>1, <1>3 DEF Draw, FilterInv, SamplerTypes
<1>5. AmongTheBest'
  BY <1>1, <1>3, SameLogits DEF FilterInv, AmongTheBest, FewAbove, Above
<1>6. GreedyTakesBest'
  <2> SUFFICES ASSUME sampling_params.temperature = 0, NEW u \in Vocab
               PROVE  logits[u] <= logits[sampled']
    BY <1>1 DEF GreedyTakesBest
  <2>1. sampled' \in Argmax /\ sampled' \in Vocab
    BY <1>3 DEF IsGreedy, FilterInv, SamplerTypes
  <2>2. CASE kept = Vocab
    BY <2>1, <2>2 DEF Argmax
  <2>3. CASE BestIsKept
    <3>1. PICK t \in kept : \A v \in Vocab : logits[v] <= logits[t]
      BY <2>3 DEF BestIsKept
    <3>2. t \in Vocab /\ logits[u] <= logits[t] /\ logits[t] <= logits[sampled']
      BY <2>1, <3>1 DEF Argmax, FilterInv, SamplerTypes
    <3> QED BY <2>1, <3>2 DEF FilterInv, SamplerTypes
  <2> QED BY <1>1, <2>2, <2>3 DEF FilterInv
<1> QED BY <1>1, <1>4, <1>5, <1>6 DEF FilterInv

LEMMA TopKKeepsInv ==
  ASSUME FilterInv, TopK
  PROVE  FilterInv'
<1>1. /\ stage = "topk" /\ stage' = "topp" /\ kept = Vocab
      /\ UNCHANGED <<sampling_params, row, logits, sampled>>
  BY DEF TopK, FilterInv
<1>2. AmongTheBest' /\ GreedyTakesBest'
  BY <1>1 DEF AmongTheBest, GreedyTakesBest
<1>3. CASE ~LimitsK
  <2>1. kept' = Vocab /\ ~LimitsK'
    BY <1>1, <1>3, SameLogits DEF TopK
  <2>2. SamplerTypes'
    BY <1>1, <2>1 DEF FilterInv, SamplerTypes
  <2> QED BY <1>1, <1>2, <2>1, <2>2 DEF FilterInv
<1>4. CASE LimitsK
  <2>1. PICK o \in Descending(Vocab) : kept' = {t \in Vocab : logits[t] >= Threshold(o)}
    BY <1>1, <1>4 DEF TopK
  <2>2. SamplerTypes'
    BY <1>1, <2>1 DEF FilterInv, SamplerTypes
  <2>3. \A t \in kept' : FewAbove(t)'
    BY <1>1, <1>4, <2>1, ThresholdKeepsFew, SameLogits DEF FilterInv
  <2>4. BestIsKept'
    <3>1. /\ o[1] \in Vocab
          /\ \A u \in Vocab : logits[u] <= logits[o[1]]
      BY <1>1, SamplerAssumption, FirstIsBest DEF FilterInv
    <3>2. sampling_params.top_k \in 1 .. Cardinality(Vocab)
      BY <1>4, SamplerAssumption, FS_CardinalityType
         DEF LimitsK, Vocabulary, FilterInv, SamplerTypes, SamplerParamType
    <3>3. o[sampling_params.top_k] \in Vocab
      BY <3>2 DEF Descending
    <3>4. o[1] \in kept'
      BY <2>1, <3>1, <3>3 DEF Threshold, FilterInv, SamplerTypes
    <3> QED BY <1>1, <3>1, <3>4 DEF BestIsKept
  <2> QED BY <1>1, <1>2, <2>2, <2>3, <2>4 DEF FilterInv
<1> QED BY <1>3, <1>4

LEMMA TopPKeepsInv ==
  ASSUME FilterInv, TopP
  PROVE  FilterInv'
<1>1. /\ stage = "topp" /\ stage' = "draw"
      /\ UNCHANGED <<sampling_params, row, logits, sampled>>
      /\ kept \subseteq Vocab /\ kept # {}
  BY SamplerAssumption DEF TopP, FilterInv, SamplerTypes, BestIsKept
<1>2. AmongTheBest' /\ GreedyTakesBest'
  BY <1>1 DEF AmongTheBest, GreedyTakesBest
<1>3. CASE UNCHANGED kept
  <2>1. SamplerTypes'
    BY <1>1, <1>3 DEF FilterInv, SamplerTypes
  <2>2. BestIsKept' <=> BestIsKept
    BY <1>1, <1>3 DEF BestIsKept
  <2> QED BY <1>1, <1>2, <1>3, <2>1, <2>2, SameLogits DEF FilterInv
<1>4. CASE \E o \in Descending(kept) : kept' = Nucleus(o)
  <2>1. PICK o \in Descending(kept) : kept' = Nucleus(o)
    BY <1>4
  <2>2. /\ o \in [1 .. Cardinality(kept) -> kept]
        /\ 1 \in 1 .. Cardinality(kept)
        /\ o[1] \in kept
        /\ \A u \in kept : logits[u] <= logits[o[1]]
    BY <1>1, FirstIsBest DEF FilterInv
  <2>3. kept' \subseteq kept
    BY <2>1, <2>2 DEF Nucleus
  <2>4. o[1] \in kept'
    BY <2>1, <2>2 DEF Nucleus
  <2>5. SamplerTypes'
    BY <1>1, <2>3 DEF FilterInv, SamplerTypes
  <2>6. \A u \in Vocab : logits[u] <= logits[o[1]]
    <3>1. CASE kept = Vocab
      BY <2>2, <3>1
    <3>2. CASE BestIsKept
      <4>1. PICK t \in kept : \A v \in Vocab : logits[v] <= logits[t]
        BY <3>2 DEF BestIsKept
      <4>2. logits[t] <= logits[o[1]] /\ t \in Vocab /\ o[1] \in Vocab
        BY <1>1, <2>2, <4>1
      <4> QED BY <4>1, <4>2 DEF FilterInv, SamplerTypes
    <3> QED BY <1>1, <3>1, <3>2 DEF FilterInv
  <2>7. BestIsKept'
    BY <1>1, <2>4, <2>6 DEF BestIsKept
  <2>8. LimitsK' => \A t \in kept' : FewAbove(t)'
    BY <1>1, <2>3, SameLogits DEF FilterInv
  <2> QED BY <1>1, <1>2, <2>5, <2>7, <2>8 DEF FilterInv
<1> QED BY <1>3, <1>4 DEF TopP

\* Every quotient is rounded to an integer, if it is not one.
LEMMA PenalisedIsInteger ==
  ASSUME SamplerTypes, NEW t \in Vocab
  PROVE  Penalised(logits[t]) \in Int
<1> DEFINE p == sampling_params.repetition_penalty
           score == logits[t]
<1>1. p \in Int \ {0} /\ score \in Int
  BY SamplerAssumption DEF SamplerTypes, SamplerParamType
<1>2. Penalised(score) = IF score < 0 THEN (score * p) \div 100 ELSE Divided(score, p)
  BY DEF Penalised
<1> HIDE DEF p, score
<1>3. (score * p) \div 100 \in Int
  <2> DEFINE n == score * p
  <2>1. n \in Int
    BY <1>1
  <2> HIDE DEF n
  <2>2. n \div 100 \in Int
    BY <2>1
  <2> QED BY <2>2 DEF n
<1>4. Divided(score, p) \in Int
  <2> DEFINE n == score * 100
             m == -p
  <2>1. n \in Int /\ m \in Int
    BY <1>1
  <2>2. Divided(score, p) = IF p < 0 THEN -(n \div m) ELSE n \div p
    BY DEF Divided
  <2>3. p < 0 => m > 0
    BY <1>1
  <2> HIDE DEF n, m
  <2>4. /\ p < 0 => n \div m \in Int
        /\ ~(p < 0) => n \div p \in Int
    BY <1>1, <2>1, <2>3
  <2>5. p < 0 => -(n \div m) \in Int
    BY <2>4
  <2> QED BY <2>2, <2>4, <2>5
<1> QED BY <1>2, <1>3, <1>4 DEF score

LEMMA RewriteKeepsInv ==
  ASSUME FilterInv, (\E h : Penalise(h)) \/ Scale
  PROVE  FilterInv'
<1>1. /\ stage \in {"penalty", "temperature"} /\ stage' \in {"temperature", "topk"}
      /\ UNCHANGED <<sampling_params, row, kept, sampled>>
  BY DEF Penalise, Scale
<1>2. logits' \in [Vocab -> Int]
  <2>1. Temperature \in Nat \ {0}
    BY SamplerAssumption DEF FilterInv, SamplerTypes, SamplerParamType, Temperature
  <2>2. \A t \in Vocab : logits[t] \div Temperature \in Int
    BY <2>1 DEF FilterInv, SamplerTypes
  <2>3. CASE \E h : Penalise(h)
    <3>1. \A t \in Vocab : Penalised(logits[t]) \in Int
      BY PenalisedIsInteger DEF FilterInv
    <3> QED BY <2>3, <3>1 DEF Penalise, FilterInv, SamplerTypes
  <2>4. CASE Scale
    BY <2>2, <2>4 DEF Scale, FilterInv, SamplerTypes
  <2> QED BY <2>3, <2>4
<1>3. SamplerTypes'
  BY <1>1, <1>2 DEF FilterInv, SamplerTypes
<1> QED BY <1>1, <1>3 DEF FilterInv, AmongTheBest, GreedyTakesBest

LEMMA FilterInvStep == FilterInv /\ [GenerationNext]_generationVars => FilterInv'
<1> SUFFICES ASSUME FilterInv, [GenerationNext]_generationVars
             PROVE  FilterInv'
  OBVIOUS
<1>1. CASE ComputeLogits
  <2>1. /\ stage' = "penalty" /\ kept' = Vocab /\ logits' \in Rows /\ row' \in Rows
        /\ UNCHANGED <<sampling_params, sampled>>
    BY <1>1 DEF ComputeLogits, Logits
  <2>2. SamplerTypes'
    BY <2>1, SamplerAssumption DEF FilterInv, SamplerTypes
  <2> QED BY <2>1, <2>2 DEF FilterInv, AmongTheBest, GreedyTakesBest
<1>2. CASE SampleTurn
  BY <1>2, RewriteKeepsInv, TopKKeepsInv, TopPKeepsInv, DrawKeepsInv
     DEF SampleTurn, Sample
<1>3. CASE Emit
  <2>1. /\ stage' \in {"done", "model"}
        /\ UNCHANGED <<sampling_params, row, logits, kept, sampled>>
    BY <1>3 DEF Emit
  <2>2. SamplerTypes'
    BY <2>1 DEF FilterInv, SamplerTypes
  <2> QED BY <2>1, <2>2 DEF FilterInv, AmongTheBest, GreedyTakesBest
<1>4. CASE UNCHANGED generationVars
  <2>1. UNCHANGED <<stage, sampling_params, row, logits, kept, sampled>>
    BY <1>4 DEF generationVars, samplerVars
  <2>2. SamplerTypes'
    BY <2>1 DEF FilterInv, SamplerTypes
  <2>3. (AmongTheBest' <=> AmongTheBest) /\ (GreedyTakesBest' <=> GreedyTakesBest)
    BY <2>1 DEF AmongTheBest, GreedyTakesBest, LimitsK
  <2>4. BestIsKept' <=> BestIsKept
    BY <2>1 DEF BestIsKept
  <2> QED BY <2>1, <2>2, <2>3, <2>4, SameLogits DEF FilterInv
<1> QED BY <1>1, <1>2, <1>3, <1>4 DEF GenerationNext

LEMMA FilterInvHolds == GenerationSpec => []FilterInv
BY FilterInvInit, FilterInvStep, PTL DEF GenerationSpec

-----------------------------------------------------------------------------
(* The theorems.                                                           *)

\* The uniform fallback of sampler.py:78 is never used, whatever top_k and
\* top_p a request has and however sort() orders equal logits.
THEOREM NeverAllMasked == GenerationSpec => []SomethingToDraw
<1>1. FilterInv => SomethingToDraw
  BY SamplerAssumption DEF FilterInv, SomethingToDraw, BestIsKept
<1> QED BY <1>1, FilterInvHolds, PTL

\* A request with a top_k gets one of its top_k best tokens, with top-p on top
\* of it and ties at the threshold.
THEOREM TopKIsKept == GenerationSpec => []AmongTheBest
<1>1. FilterInv => AmongTheBest
  BY DEF FilterInv
<1> QED BY <1>1, FilterInvHolds, PTL

\* Greedy decoding is not disturbed by the filters, which rewrite the greedy
\* rows as well.
THEOREM GreedyIsExact == GenerationSpec => []GreedyTakesBest
<1>1. FilterInv => GreedyTakesBest
  BY DEF FilterInv
<1> QED BY <1>1, FilterInvHolds, PTL

-----------------------------------------------------------------------------
(* The penalty.                                                            *)

\* The penalty comes first: it finds the scores as the model gave them.
PenaltyInv ==
  /\ stage = "penalty" => logits = row /\ row \in Rows
  /\ PenalisedOnce

LEMMA ExactQuotient ==
  ASSUME NEW n \in Nat, NEW m \in Nat \ {0}, n % m = 0
  PROVE  n \div m \in Nat /\ (n \div m) * m = n
<1> DEFINE q == n \div m
<1>1. q \in Nat /\ n = m * q + (n % m)
  OBVIOUS
<1> HIDE DEF q
<1>2. n = m * q /\ m * q = q * m
  BY <1>1
<1> QED BY <1>1, <1>2 DEF q

\* A score that is not negative is divided exactly.
LEMMA DividedIsExact ==
  ASSUME NEW score \in Nat, NEW p \in Int \ {0}, Exact(score, p)
  PROVE  Divided(score, p) \in Int /\ Divided(score, p) * p = score * 100
<1>1. CASE p < 0
  <2> DEFINE n == score * 100
             m == -p
             q == n \div m
  <2>1. n \in Nat /\ m \in Nat \ {0} /\ n % m = 0
    BY <1>1 DEF Exact
  <2>2. Divided(score, p) = -q
    BY <1>1 DEF Divided
  <2> HIDE DEF n, m
  <2>3. q \in Nat /\ q * m = n
    BY <2>1, ExactQuotient
  <2> HIDE DEF q
  <2>4. -q \in Int /\ (-q) * p = q * m
    BY <2>3 DEF m
  <2> QED BY <2>2, <2>3, <2>4 DEF n
<1>2. CASE ~(p < 0)
  <2> DEFINE n == score * 100
             q == n \div p
  <2>1. n \in Nat /\ p \in Nat \ {0} /\ n % p = 0
    BY <1>2 DEF Exact
  <2>2. Divided(score, p) = q
    BY <1>2 DEF Divided
  <2> HIDE DEF n
  <2>3. q \in Nat /\ q * p = n
    BY <2>1, ExactQuotient
  <2> HIDE DEF q
  <2> QED BY <2>2, <2>3 DEF n
<1> QED BY <1>1, <1>2

\* A negative score is multiplied exactly.
LEMMA MultipliedIsExact ==
  ASSUME NEW score \in Int, score < 0, NEW p \in Int \ {0}, Exact(score, p)
  PROVE  /\ (score * p) \div 100 \in Int
         /\ ((score * p) \div 100) * 100 = score * p
<1> DEFINE n == score * p
<1>1. n \in Int /\ n % 100 = 0
  BY DEF Exact
<1> HIDE DEF n
<1>2. n \div 100 \in Int /\ (n \div 100) * 100 = n
  BY <1>1
<1> QED BY <1>2 DEF n

\* Which way a division moves a score, and which way a multiplication.
LEMMA QuotientMoves ==
  ASSUME NEW score \in Nat, NEW new \in Int, NEW p \in Int \ {0}, new * p = score * 100
  PROVE  PaidOnce(score, new, p)
<1>1. CASE p > 0
  <2>1. p \in Nat /\ score * 100 \in Nat
    BY <1>1
  <2>2. new \in Nat
    <3> SUFFICES ASSUME ~(new >= 0) PROVE FALSE
      OBVIOUS
    <3>1. new * p < 0
      BY <1>1, <2>1
    <3> QED BY <2>1, <3>1
  <2>3. p > 100 => new < score \/ score = 0
    <3> SUFFICES ASSUME p > 100, score <= new, score > 0 PROVE FALSE
      BY <2>2
    <3>1. score * p <= new * p
      BY <2>1, <2>2, MoreTimes
    <3>2. 100 * score < p * score
      BY <2>1, MoreTimes
    <3>3. 100 * score = score * 100 /\ p * score = score * p
      BY <2>1
    <3> QED BY <2>1, <3>1, <3>2, <3>3
  <2>4. p \in 1 .. 99 => new > score \/ score = 0
    <3> SUFFICES ASSUME p < 100, new <= score, score > 0 PROVE FALSE
      BY <2>2
    <3>1. new * p <= score * p
      BY <2>1, <2>2, MoreTimes
    <3>2. p * score < 100 * score
      BY <2>1, MoreTimes
    <3>3. 100 * score = score * 100 /\ p * score = score * p
      BY <2>1
    <3> QED BY <2>1, <3>1, <3>2, <3>3
  <2> QED BY <1>1, <2>3, <2>4 DEF PaidOnce
<1>2. CASE p < 0
  <2>1. score > 0 <=> new < 0
    <3>1. new < 0 => new * p > 0
      BY <1>2
    <3>2. ~(new < 0) => new * p <= 0
      BY <1>2
    <3> QED BY <3>1, <3>2
  <2> QED BY <1>2, <2>1 DEF PaidOnce
<1> QED BY <1>1, <1>2

LEMMA ProductMoves ==
  ASSUME NEW score \in Int, score < 0, NEW new \in Int, NEW p \in Int \ {0},
         new * 100 = score * p
  PROVE  PaidOnce(score, new, p)
<1> DEFINE less == -score
           paid == -new
<1>1. less \in Nat \ {0} /\ paid \in Int /\ score = -less /\ new = -paid /\ paid * 100 = less * p
  <2>1. (-new) * 100 = -(new * 100) /\ (-score) * p = -(score * p)
    OBVIOUS
  <2> QED BY <2>1
<1> HIDE DEF less, paid
<1>2. CASE p > 0
  <2>1. p \in Nat /\ 100 * less = less * 100 /\ p * less = less * p
    BY <1>1, <1>2
  <2>2. p > 100 => less < paid
    <3> SUFFICES ASSUME p > 100 PROVE less < paid
      OBVIOUS
    <3>1. 100 * less < p * less
      BY <1>1, <2>1, MoreTimes
    <3> QED BY <1>1, <2>1, <3>1
  <2>3. p \in 1 .. 99 => paid < less
    <3> SUFFICES ASSUME p < 100 PROVE paid < less
      OBVIOUS
    <3>1. p * less < 100 * less
      BY <1>1, <2>1, MoreTimes
    <3> QED BY <1>1, <2>1, <3>1
  <2> QED BY <1>1, <1>2, <2>2, <2>3 DEF PaidOnce
<1>3. CASE p < 0
  <2>1. less * p < 0
    BY <1>1, <1>3
  <2>2. paid < 0
    BY <1>1, <2>1
  <2> QED BY <1>1, <1>3, <2>2 DEF PaidOnce
<1> QED BY <1>2, <1>3

LEMMA PenalisedIsPaidOnce ==
  ASSUME SamplerTypes, row \in Rows, NEW t \in Vocab
  PROVE  /\ Penalised(row[t]) \in Int
         /\ PaidOnce(row[t], Penalised(row[t]), sampling_params.repetition_penalty)
<1> DEFINE p == sampling_params.repetition_penalty
           score == row[t]
<1>1. p \in Int \ {0} /\ score \in Int /\ Exact(score, p)
  <2>1. sampling_params \in SamplingParamSet /\ sampling_params \in SamplerParamType
    BY SamplerAssumption DEF SamplerTypes
  <2> QED BY <2>1, ScaleAssumption DEF SamplerTypes, SamplerParamType
<1>2. Penalised(score) = IF score < 0 THEN (score * p) \div 100 ELSE Divided(score, p)
  BY DEF Penalised
<1> HIDE DEF p, score
<1>3. CASE score < 0
  <2> DEFINE new == (score * p) \div 100
  <2>1. new \in Int /\ new * 100 = score * p
    BY <1>1, <1>3, MultipliedIsExact
  <2>2. Penalised(score) = new
    BY <1>2, <1>3
  <2> HIDE DEF new
  <2>3. PaidOnce(score, new, p)
    BY <1>1, <1>3, <2>1, ProductMoves
  <2> QED BY <2>1, <2>2, <2>3 DEF p, score
<1>4. CASE ~(score < 0)
  <2> DEFINE new == Divided(score, p)
  <2>1. score \in Nat
    BY <1>1, <1>4
  <2>2. new \in Int /\ new * p = score * 100
    BY <1>1, <2>1, DividedIsExact
  <2>3. Penalised(score) = new
    BY <1>2, <1>4
  <2> HIDE DEF new
  <2>4. PaidOnce(score, new, p)
    BY <1>1, <2>1, <2>2, QuotientMoves
  <2> QED BY <2>2, <2>3, <2>4 DEF p, score
<1> QED BY <1>3, <1>4

LEMMA PenaliseIsOnce ==
  ASSUME SamplerTypes, PenaltyInv, Penalise(History), UNCHANGED <<textVars, prompt_token_ids>>
  PROVE  PenaltyInv'
<1>1. /\ stage = "penalty" /\ stage' = "temperature" /\ logits = row /\ row \in Rows
      /\ UNCHANGED <<sampling_params, row>>
      /\ logits' = [t \in Vocab |-> IF \E i \in DOMAIN History : History[i] = t
                                    THEN Penalised(row[t]) ELSE row[t]]
  BY DEF Penalise, PenaltyInv
<1>2. History' = History
  BY DEF History, textVars
<1>3. ASSUME NEW t \in Vocab
      PROVE  IF t \in Range(History)
             THEN PaidOnce(row[t], logits'[t], sampling_params.repetition_penalty)
             ELSE logits'[t] = row[t]
  <2>1. t \in Range(History) <=> \E i \in DOMAIN History : History[i] = t
    BY DEF Range
  <2>2. CASE t \in Range(History)
    <3>1. logits'[t] = Penalised(row[t])
      BY <1>1, <2>1, <2>2
    <3> QED BY <1>1, <2>2, <3>1, PenalisedIsPaidOnce
  <2>3. CASE t \notin Range(History)
    BY <1>1, <2>1, <2>3
  <2> QED BY <2>2, <2>3
<1> QED BY <1>1, <1>2, <1>3 DEF PenaltyInv, PenalisedOnce

LEMMA PenaltyInvStep == SamplerTypes /\ PenaltyInv /\ [GenerationNext]_generationVars => PenaltyInv'
<1> SUFFICES ASSUME SamplerTypes, PenaltyInv, [GenerationNext]_generationVars PROVE PenaltyInv'
  OBVIOUS
<1>1. CASE ComputeLogits
  BY <1>1 DEF ComputeLogits, Logits, PenaltyInv, PenalisedOnce
<1>2. CASE SampleTurn
  <2>1. CASE Penalise(History)
    BY <1>2, <2>1, PenaliseIsOnce DEF SampleTurn
  <2>2. CASE Scale \/ TopK \/ TopP \/ Draw
    BY <2>2 DEF Scale, TopK, TopP, Draw, PenaltyInv, PenalisedOnce
  <2> QED BY <1>2, <2>1, <2>2 DEF SampleTurn, Sample
<1>3. CASE Emit
  BY <1>3 DEF Emit, PenaltyInv, PenalisedOnce
<1>4. CASE UNCHANGED generationVars
  <2>1. UNCHANGED <<stage, sampling_params, row, logits>> /\ History' = History
    BY <1>4 DEF generationVars, samplerVars, textVars, History
  <2> QED BY <2>1 DEF PenaltyInv, PenalisedOnce
<1> QED BY <1>1, <1>2, <1>3, <1>4 DEF GenerationNext

\* Every token of the history pays the penalty, none twice and nobody else,
\* be its score negative or not and the penalty above 1, below 1 or negative.
THEOREM PenaltyIsPaidOnce == GenerationSpec => []PenalisedOnce
<1>1. GenerationInit => PenaltyInv
  BY DEF GenerationInit, SamplerInit, PenaltyInv, PenalisedOnce
<1>2. FilterInv => SamplerTypes
  BY DEF FilterInv
<1>3. PenaltyInv => PenalisedOnce
  BY DEF PenaltyInv
<1> QED BY <1>1, <1>2, <1>3, PenaltyInvStep, FilterInvHolds, PTL DEF GenerationSpec

-----------------------------------------------------------------------------
(* The text.                                                               *)

LEMMA TextType ==
  ASSUME NEW tokens \in Seq(Vocab), Len(tokens) <= MaxTokens
  PROVE  Decode(tokens) \in Seq(Characters)
<1>1. Len(tokens) \in 0 .. MaxTokens /\ tokens \in [1 .. Len(tokens) -> Vocab]
  BY GenerationAssumption
<1> QED BY <1>1, TokenizerAssumption

\* The prefixes of a sequence stay what they are when it gets one element more.
LEMMA PrefixesStay ==
  ASSUME NEW S, NEW s \in Seq(S), NEW x \in S
  PROVE  /\ Append(s, x) \in Seq(S) /\ Len(Append(s, x)) = Len(s) + 1
         /\ \A n \in 0 .. Len(s) :
              /\ SubSeq(s, 1, n) \in Seq(S) /\ Len(SubSeq(s, 1, n)) = n
              /\ SubSeq(Append(s, x), 1, n) = SubSeq(s, 1, n)
         /\ SubSeq(s, 1, Len(s)) = s
         /\ SubSeq(Append(s, x), 1, Len(s) + 1) = Append(s, x)
<1> DEFINE more == Append(s, x)
<1>1. /\ more \in Seq(S) /\ Len(more) = Len(s) + 1 /\ Len(s) \in Nat
      /\ \A i \in 1 .. Len(s) : more[i] = s[i]
  BY AppendProperties
<1> HIDE DEF more
<1>2. ASSUME NEW n \in 0 .. Len(s)
      PROVE  /\ SubSeq(s, 1, n) \in Seq(S) /\ Len(SubSeq(s, 1, n)) = n
             /\ SubSeq(more, 1, n) = SubSeq(s, 1, n)
  <2>1. /\ SubSeq(s, 1, n) \in Seq(S) /\ Len(SubSeq(s, 1, n)) = n
        /\ \A i \in 1 .. n : SubSeq(s, 1, n)[i] = s[i]
    BY <1>1
  <2>2. /\ SubSeq(more, 1, n) \in Seq(S) /\ Len(SubSeq(more, 1, n)) = n
        /\ \A i \in 1 .. n : SubSeq(more, 1, n)[i] = more[i]
    BY <1>1
  <2>3. \A i \in 1 .. n : SubSeq(more, 1, n)[i] = SubSeq(s, 1, n)[i]
    BY <1>1, <2>1, <2>2
  <2> QED BY <2>1, <2>2, <2>3, SeqEqual
<1>3. SubSeq(s, 1, Len(s)) = s /\ SubSeq(more, 1, Len(more)) = more
  BY <1>1
<1> QED BY <1>1, <1>2, <1>3 DEF more

\* What has been sent, once the delta of the text new is added.
LEMMA DeltaAdds ==
  ASSUME NEW C, NEW sent \in Seq(C), NEW new \in Seq(C), NEW last \in 0 .. Len(new),
         NEW more, more = sent \o SubSeq(new, last + 1, Len(new))
  PROVE  /\ more \in Seq(C)
         /\ Len(more) = Len(sent) + (Len(new) - last)
         /\ \A i \in 1 .. Len(more) :
              more[i] = IF i <= Len(sent) THEN sent[i] ELSE new[last + (i - Len(sent))]
<1> DEFINE delta == SubSeq(new, last + 1, Len(new))
<1>1. /\ delta \in Seq(C) /\ Len(delta) = Len(new) - last
      /\ \A i \in 1 .. Len(new) - last : delta[i] = new[last + i]
  OBVIOUS
<1>0. more = sent \o delta
  OBVIOUS
<1> HIDE DEF delta
<1>2. /\ more \in Seq(C) /\ Len(more) = Len(sent) + Len(delta)
      /\ \A i \in 1 .. Len(sent) + Len(delta) :
           more[i] = IF i <= Len(sent) THEN sent[i] ELSE delta[i - Len(sent)]
  BY <1>0, <1>1, ConcatProperties
<1>3. ASSUME NEW i \in 1 .. Len(more)
      PROVE  more[i] = IF i <= Len(sent) THEN sent[i] ELSE new[last + (i - Len(sent))]
  <2>1. CASE i <= Len(sent)
    BY <1>2, <2>1
  <2>2. CASE ~(i <= Len(sent))
    <3>1. i - Len(sent) \in 1 .. Len(new) - last
      BY <1>1, <1>2, <2>2
    <3> QED BY <1>1, <1>2, <2>2, <3>1
  <2> QED BY <2>1, <2>2
<1> QED BY <1>1, <1>2, <1>3

DecodeInv ==
  /\ output_token_ids \in Seq(Vocab)
  /\ Len(output_token_ids) <= MaxTokens
  /\ stage # "done" => Len(output_token_ids) < MaxTokens
  /\ full_text \in Seq(Characters)
  /\ reported_text_len = Len(Text)
  /\ DeltasKeepPlace

\* One more token: the texts so far stay what they were, one is added.
LEMMA OneMoreText ==
  ASSUME DecodeInv, NEW x \in Vocab, DecodeIncremental(x),
         NEW L, L = Len(output_token_ids), L < MaxTokens
  PROVE  /\ L \in Nat
         /\ output_token_ids' \in Seq(Vocab) /\ Len(output_token_ids') = L + 1
         /\ \A n \in 0 .. L : /\ TextAfter(n)' = TextAfter(n)
                              /\ TextAfter(n) \in Seq(Characters)
         /\ Text = TextAfter(L)
         /\ Text' = TextAfter(L + 1)' /\ Text' \in Seq(Characters)
         /\ Text' = Decode(output_token_ids')
<1> DEFINE s == output_token_ids
<1>1. s \in Seq(Vocab) /\ s' = Append(s, x)
  BY DEF DecodeInv, DecodeIncremental
<1>2. /\ L \in Nat /\ s' \in Seq(Vocab) /\ Len(s') = L + 1
      /\ \A n \in 0 .. L : /\ SubSeq(s, 1, n) \in Seq(Vocab) /\ Len(SubSeq(s, 1, n)) = n
                           /\ SubSeq(s', 1, n) = SubSeq(s, 1, n)
      /\ SubSeq(s', 1, L + 1) = s'
  BY <1>1, PrefixesStay
<1>3. ASSUME NEW n \in 0 .. L
      PROVE  TextAfter(n)' = TextAfter(n) /\ TextAfter(n) \in Seq(Characters)
  <2>1. TextAfter(n) = Decode(SubSeq(s, 1, n)) /\ TextAfter(n)' = Decode(SubSeq(s', 1, n))
    BY DEF TextAfter
  <2>2. n <= MaxTokens
    BY <1>2, GenerationAssumption
  <2>3. Decode(SubSeq(s, 1, n)) \in Seq(Characters)
    BY <1>2, <2>2, TextType
  <2> QED BY <1>2, <2>1, <2>3
<1>4. Text = TextAfter(L)
  BY DEF Text
<1>5. Text' = TextAfter(L + 1)' /\ Text' = Decode(s')
  <2>1. TextAfter(L + 1)' = Decode(SubSeq(s', 1, L + 1))
    BY DEF TextAfter
  <2>2. Text' = TextAfter(L + 1)'
    BY <1>2 DEF Text, TextAfter
  <2> QED BY <1>2, <2>1, <2>2
<1>6. Decode(s') \in Seq(Characters)
  <2>1. Len(s') <= MaxTokens
    BY <1>2, GenerationAssumption
  <2> QED BY <1>2, <2>1, TextType
<1> QED BY <1>2, <1>3, <1>4, <1>5, <1>6

LEMMA DeltaKeepsInv ==
  ASSUME DecodeInv, NEW x \in Vocab, DecodeIncremental(x),
         Len(output_token_ids) < MaxTokens,
         stage' = "done" \/ Len(output_token_ids') < MaxTokens
  PROVE  DecodeInv'
<1> PICK L : L = Len(output_token_ids)
  OBVIOUS
<1> DEFINE old == Text
           new == Text'
           sent == full_text
           last == LastLen(new)
           more == full_text'
<1>1. /\ L \in Nat
      /\ output_token_ids' \in Seq(Vocab) /\ Len(output_token_ids') = L + 1
      /\ \A n \in 0 .. L : TextAfter(n)' = TextAfter(n) /\ TextAfter(n) \in Seq(Characters)
      /\ old = TextAfter(L) /\ new = TextAfter(L + 1)' /\ new \in Seq(Characters)
      /\ new = Decode(output_token_ids')
  BY OneMoreText
<1>2. /\ old \in Seq(Characters) /\ Len(old) \in Nat /\ Len(new) \in Nat
      /\ sent \in Seq(Characters) /\ Len(sent) \in Nat
  <2>1. L \in 0 .. L
    BY <1>1
  <2>2. old \in Seq(Characters) /\ sent \in Seq(Characters)
    BY <1>1, <2>1 DEF DecodeInv
  <2> HIDE DEF old, new, sent
  <2> QED BY <1>1, <2>2
<1>3. /\ reported_text_len' = Len(new)
      /\ more = sent \o SubSeq(new, last + 1, Len(new))
  BY <1>1 DEF DecodeIncremental, TextLength
<1>4. last = IF Len(old) > Len(new) THEN Len(new) ELSE Len(old)
  BY DEF LastLen, DecodeInv
<1>5. \A n \in 0 .. L : Len(TextAfter(n)) <= Len(sent)
  BY DEF DecodeInv, DeltasKeepPlace
<1> HIDE DEF old, new, sent, last, more
<1>6. last \in 0 .. Len(new) /\ last <= Len(old)
  BY <1>2, <1>4
<1>7. /\ more \in Seq(Characters)
      /\ Len(more) = Len(sent) + (Len(new) - last)
      /\ \A i \in 1 .. Len(more) :
           more[i] = IF i <= Len(sent) THEN sent[i] ELSE new[last + (i - Len(sent))]
  <2>1. /\ sent \in Seq(Characters) /\ new \in Seq(Characters) /\ last \in 0 .. Len(new)
        /\ more = sent \o SubSeq(new, last + 1, Len(new))
    BY <1>1, <1>2, <1>3, <1>6
  <2>2. Len(new) \in Int /\ last \in Int /\ Len(sent) \in Int
    BY <1>2, <2>1
  <2> QED BY <2>1, <2>2, DeltaAdds
\* The length.
<1>8. ASSUME NEW n \in 0 .. L + 1 PROVE Len(TextAfter(n)') <= Len(more)
  <2>1. Len(old) <= Len(sent)
    <3>1. L \in 0 .. L
      BY <1>1
    <3> QED BY <1>1, <1>5, <3>1
  <2>2. CASE n = L + 1
    BY <1>1, <1>2, <1>6, <1>7, <2>1, <2>2
  <2>3. CASE n \in 0 .. L
    <3>1. Len(TextAfter(n)) \in Nat /\ Len(TextAfter(n)) <= Len(sent)
      BY <1>1, <1>5, <2>3
    <3>2. Len(sent) <= Len(more)
      BY <1>2, <1>6, <1>7
    <3> QED BY <1>1, <1>2, <1>7, <2>3, <3>1, <3>2
  <2> QED BY <1>1, <2>2, <2>3
\* The places, as long as nothing has become shorter.
<1>9. ASSUME NeverShrank'
      PROVE  /\ Len(more) = Len(new)
             /\ \A i \in 1 .. Len(new) :
                  \E n \in 1 .. L + 1 : Reaches(n, i)' /\ more[i] = TextAfter(n)'[i]
             /\ (\A n \in 1 .. L + 1 : OnlyCompletes(n)') =>
                  \A i \in 1 .. Len(new) : more[i] \in {new[i], Replacement}
  <2>1. \A n \in 1 .. L + 1 : Len(TextAfter(n - 1)') <= Len(TextAfter(n)')
    BY <1>1, <1>9 DEF NeverShrank
  <2>2. NeverShrank
    <3> SUFFICES ASSUME NEW n \in 1 .. L PROVE Len(TextAfter(n - 1)) <= Len(TextAfter(n))
      BY DEF NeverShrank
    <3>1. n \in 0 .. L /\ n - 1 \in 0 .. L /\ n \in 1 .. L + 1
      BY <1>1
    <3>2. TextAfter(n)' = TextAfter(n) /\ TextAfter(n - 1)' = TextAfter(n - 1)
      BY <1>1, <3>1
    <3> QED BY <2>1, <3>1, <3>2
  <2>3. TextAfter(L)' = old /\ L + 1 \in 1 .. L + 1 /\ (L + 1) - 1 = L
    BY <1>1
  <2>4. Len(old) <= Len(new)
    <3>1. Len(TextAfter((L + 1) - 1)') <= Len(TextAfter(L + 1)')
      BY <2>1, <2>3
    <3> QED BY <1>1, <2>3, <3>1
  <2>5. /\ Len(sent) = Len(old)
        /\ \A i \in 1 .. Len(old) :
             \E n \in 1 .. L : Reaches(n, i) /\ sent[i] = TextAfter(n)[i]
        /\ (\A n \in 1 .. L : OnlyCompletes(n)) =>
             \A i \in 1 .. Len(old) : sent[i] \in {old[i], Replacement}
    BY <2>2 DEF DecodeInv, DeltasKeepPlace, old, sent
  <2>6. last = Len(old) /\ Len(more) = Len(new)
    BY <1>2, <1>4, <1>7, <2>4, <2>5
  <2>7. \A i \in 1 .. Len(new) : /\ i <= Len(old) => more[i] = sent[i]
                                 /\ ~(i <= Len(old)) => more[i] = new[i]
    BY <1>2, <1>7, <2>5, <2>6
  <2>8. ASSUME NEW i \in 1 .. Len(new)
        PROVE  \E n \in 1 .. L + 1 : Reaches(n, i)' /\ more[i] = TextAfter(n)'[i]
    <3>1. CASE i <= Len(old)
      <4>1. i \in 1 .. Len(old)
        BY <1>2, <3>1
      <4>2. PICK n \in 1 .. L : Reaches(n, i) /\ sent[i] = TextAfter(n)[i]
        BY <2>5, <4>1
      <4>3. n \in 0 .. L /\ n - 1 \in 0 .. L /\ n \in 1 .. L + 1
        BY <1>1
      <4>4. TextAfter(n)' = TextAfter(n) /\ TextAfter(n - 1)' = TextAfter(n - 1)
        BY <1>1, <4>3
      <4>5. Reaches(n, i)'
        BY <4>2, <4>4 DEF Reaches
      <4>6. more[i] = TextAfter(n)'[i]
        BY <2>7, <3>1, <4>2, <4>4
      <4> QED BY <4>3, <4>5, <4>6
    <3>2. CASE ~(i <= Len(old))
      <4>1. Len(TextAfter((L + 1) - 1)') < i /\ i <= Len(TextAfter(L + 1)')
        BY <1>1, <1>2, <2>3, <3>2
      <4>2. Reaches(L + 1, i)'
        BY <4>1 DEF Reaches
      <4>3. more[i] = TextAfter(L + 1)'[i]
        BY <1>1, <2>7, <3>2
      <4> QED BY <2>3, <4>2, <4>3
    <3> QED BY <3>1, <3>2
  <2>9. ASSUME \A n \in 1 .. L + 1 : OnlyCompletes(n)', NEW i \in 1 .. Len(new)
        PROVE  more[i] \in {new[i], Replacement}
    <3>1. \A n \in 1 .. L : OnlyCompletes(n)
      <4> SUFFICES ASSUME NEW n \in 1 .. L PROVE OnlyCompletes(n)
        OBVIOUS
      <4>1. n \in 0 .. L /\ n - 1 \in 0 .. L /\ n \in 1 .. L + 1
        BY <1>1
      <4>2. TextAfter(n)' = TextAfter(n) /\ TextAfter(n - 1)' = TextAfter(n - 1)
        BY <1>1, <4>1
      <4>3. OnlyCompletes(n)'
        BY <2>9, <4>1
      <4> QED BY <4>2, <4>3 DEF OnlyCompletes
    <3>2. \A j \in 1 .. Len(old) : old[j] \in {new[j], Replacement}
      <4>1. OnlyCompletes(L + 1)'
        BY <2>3, <2>9
      <4>2. \A j \in 1 .. Len(TextAfter((L + 1) - 1)') :
              TextAfter((L + 1) - 1)'[j] \in {TextAfter(L + 1)'[j], Replacement}
        BY <4>1 DEF OnlyCompletes
      <4> QED BY <1>1, <2>3, <4>2
    <3>3. CASE i <= Len(old)
      <4>1. i \in 1 .. Len(old)
        BY <1>2, <3>3
      <4>2. sent[i] \in {old[i], Replacement}
        BY <2>5, <3>1, <4>1
      <4> QED BY <2>7, <3>2, <3>3, <4>1, <4>2
    <3>4. CASE ~(i <= Len(old))
      BY <2>7, <3>4
    <3> QED BY <3>3, <3>4
  <2> QED BY <2>6, <2>8, <2>9
<1>10. DeltasKeepPlace'
  <2>1. /\ \A n \in 0 .. Len(output_token_ids') : Len(TextAfter(n)') <= Len(full_text')
        /\ NeverShrank' =>
             /\ Len(full_text') = Len(Text')
             /\ \A i \in 1 .. Len(Text') :
                  \E n \in 1 .. Len(output_token_ids') :
                    Reaches(n, i)' /\ full_text'[i] = TextAfter(n)'[i]
             /\ (\A n \in 1 .. Len(output_token_ids') : OnlyCompletes(n)') =>
                  \A i \in 1 .. Len(Text') : full_text'[i] \in {Text'[i], Replacement}
    BY <1>1, <1>8, <1>9 DEF new, more
  <2> QED BY <2>1 DEF DeltasKeepPlace
<1>11. Len(output_token_ids') <= MaxTokens
  BY <1>1, GenerationAssumption
<1>12. full_text' \in Seq(Characters) /\ reported_text_len' = Len(Text')
  BY <1>3, <1>7 DEF more, new
<1> QED BY <1>1, <1>10, <1>11, <1>12 DEF DecodeInv

\* engine.py:161-177: for every tokenizer, be the text of the tokens so far
\* left, extended, changed or shortened by the next one, the deltas are never
\* shorter than the text; until it is first shortened they have each of its
\* characters once and in its place, and only a replacement character may stand
\* for another.
THEOREM DeltasAddUp == GenerationSpec => []DeltasKeepPlace
<1>1. GenerationInit => DecodeInv
  <2> SUFFICES ASSUME GenerationInit PROVE DecodeInv
    OBVIOUS
  <2>1. output_token_ids = << >> /\ reported_text_len = 0 /\ full_text = << >>
    BY DEF GenerationInit, DecodeInit
  <2>2. /\ << >> \in Seq(Vocab) /\ << >> \in Seq(Characters) /\ Len(<< >>) = 0
        /\ SubSeq(<< >>, 1, 0) = << >>
    BY EmptySeq, SubSeqEmpty
  <2>3. TextAfter(0) = << >> /\ Text = << >>
    BY <2>1, <2>2, TokenizerAssumption DEF TextAfter, Text
  <2>4. DeltasKeepPlace
    BY <2>1, <2>2, <2>3 DEF DeltasKeepPlace
  <2> QED BY <2>1, <2>2, <2>3, <2>4, GenerationAssumption DEF DecodeInv
<1>2. FilterInv /\ DecodeInv /\ [GenerationNext]_generationVars => DecodeInv'
  <2> SUFFICES ASSUME FilterInv, DecodeInv, [GenerationNext]_generationVars PROVE DecodeInv'
    OBVIOUS
  <2>1. CASE Emit
    <3>1. sampled \in Vocab /\ DecodeIncremental(sampled) /\ stage = "emit"
      BY <2>1 DEF Emit, FilterInv, SamplerTypes
    <3>2. Len(output_token_ids) < MaxTokens
      BY <3>1 DEF DecodeInv
    <3>3. Len(output_token_ids') \in Nat
      BY <3>1, <3>2, OneMoreText
    <3>4. stage' = "done" \/ Len(output_token_ids') < MaxTokens
      BY <2>1, <3>3, GenerationAssumption DEF Emit
    <3> QED BY <3>1, <3>2, <3>4, DeltaKeepsInv
  <2>2. CASE UNCHANGED textVars /\ (stage = "done" => stage' = "done")
    <3>1. UNCHANGED <<output_token_ids, reported_text_len, full_text>>
      BY <2>2 DEF textVars
    <3>2. (\A n : TextAfter(n)' = TextAfter(n)) /\ Text' = Text
      BY <3>1 DEF TextAfter, Text
    <3>3. DeltasKeepPlace'
      BY <3>1, <3>2 DEF DecodeInv, DeltasKeepPlace, NeverShrank, OnlyCompletes, Reaches
    <3>4. /\ output_token_ids' \in Seq(Vocab) /\ Len(output_token_ids') <= MaxTokens
          /\ full_text' \in Seq(Characters)
      BY <3>1 DEF DecodeInv
    <3>5. stage' # "done" => Len(output_token_ids') < MaxTokens
      BY <2>2, <3>1 DEF DecodeInv
    <3>6. reported_text_len' = Len(Text')
      BY <3>1, <3>2 DEF DecodeInv
    <3> QED BY <3>3, <3>4, <3>5, <3>6 DEF DecodeInv
  <2>3. ComputeLogits \/ SampleTurn => stage' # "done" /\ stage # "done" /\ UNCHANGED textVars
    BY DEF ComputeLogits, SampleTurn, Logits, Sample, Penalise, Scale, TopK, TopP, Draw
  <2>4. UNCHANGED generationVars => UNCHANGED <<textVars, stage>>
    BY DEF generationVars, samplerVars
  <2> QED BY <2>1, <2>2, <2>3, <2>4 DEF GenerationNext
<1>3. DecodeInv => DeltasKeepPlace
  BY DEF DecodeInv
<1> QED BY <1>1, <1>2, <1>3, FilterInvHolds, PTL DEF GenerationSpec

-----------------------------------------------------------------------------
(* The nucleus.                                                            *)

\* The recursion that defines PowerOf2 goes through positive numbers.
LEMMA PowerIsPositive ==
  ASSUME NEW n \in Nat
  PROVE  PowerOf2(n) \in Nat \ {0}
<1> DEFINE Step(p, i) == IF i = 0 THEN 1 ELSE 2 * p[i - 1]
           G == CHOOSE p : p = [i \in 0 .. n |-> Step(p, i)]
           Stages(m) == \E p \in [0 .. m -> Nat \ {0}] : \A i \in 0 .. m : p[i] = Step(p, i)
           Bad == {m \in Nat : ~Stages(m)}
<1>1. Stages(0)
  <2> DEFINE p == [i \in 0 .. 0 |-> 1]
  <2>1. p \in [0 .. 0 -> Nat \ {0}] /\ \A i \in 0 .. 0 : p[i] = Step(p, i)
    OBVIOUS
  <2> QED BY <2>1
<1>2. ASSUME NEW m \in Nat, Stages(m) PROVE Stages(m + 1)
  <2>1. PICK p \in [0 .. m -> Nat \ {0}] : \A i \in 0 .. m : p[i] = Step(p, i)
    BY <1>2
  <2> DEFINE q == [i \in 0 .. m + 1 |-> IF i <= m THEN p[i] ELSE 2 * p[m]]
  <2>2. q \in [0 .. m + 1 -> Nat \ {0}]
    OBVIOUS
  <2>3. (\A i \in 0 .. m : q[i] = p[i]) /\ q[m + 1] = 2 * p[m]
    OBVIOUS
  <2> HIDE DEF q
  <2>4. ASSUME NEW i \in 0 .. m + 1 PROVE q[i] = Step(q, i)
    <3>1. CASE i = 0
      BY <2>1, <2>3, <3>1
    <3>2. CASE i \in 1 .. m
      <4>1. i \in 0 .. m /\ i - 1 \in 0 .. m /\ i # 0
        BY <3>2
      <4> QED BY <2>1, <2>3, <4>1
    <3>3. CASE i = m + 1
      <4>1. i # 0 /\ i - 1 = m /\ m \in 0 .. m
        BY <3>3
      <4> QED BY <2>3, <3>3, <4>1
    <3>4. i = 0 \/ i \in 1 .. m \/ i = m + 1
      OBVIOUS
    <3> QED BY <3>1, <3>2, <3>3, <3>4
  <2> HIDE DEF Step
  <2> QED BY <2>2, <2>4
<1> HIDE DEF Stages
<1>3. Bad = {}
  <2> SUFFICES ASSUME Bad # {} PROVE FALSE
    OBVIOUS
  <2>1. PICK m \in Bad : \A j \in Bad : m <= j
    BY LeastNat
  <2>2. m # 0
    BY <1>1, <2>1
  <2>3. m - 1 \in Nat /\ m - 1 \notin Bad
    BY <2>1, <2>2
  <2>4. Stages((m - 1) + 1)
    BY <1>2, <2>3
  <2> QED BY <2>1, <2>4
<1>4. PICK p \in [0 .. n -> Nat \ {0}] : \A i \in 0 .. n : p[i] = Step(p, i)
  BY <1>3 DEF Stages
<1>5. p = [i \in 0 .. n |-> Step(p, i)]
  BY <1>4
<1>6. G = [i \in 0 .. n |-> Step(G, i)]
  BY <1>5
<1>7. PowerOf2(n) = G[n]
  BY DEF PowerOf2
<1> HIDE DEF G
<1>8. \A i \in 0 .. n : G[i] = Step(G, i)
  BY <1>6
<1> DEFINE Off == {i \in Nat : i <= n /\ G[i] # p[i]}
<1>9. Off = {}
  <2> SUFFICES ASSUME Off # {} PROVE FALSE
    OBVIOUS
  <2>1. PICK m \in Off : \A j \in Off : m <= j
    BY LeastNat
  <2>2. m \in 0 .. n /\ G[m] # p[m]
    BY <2>1
  <2>3. m # 0
    BY <1>4, <1>8, <2>2
  <2>4. m - 1 \in Nat /\ m - 1 <= n /\ ~(m <= m - 1)
    BY <2>2, <2>3
  <2>5. G[m - 1] = p[m - 1]
    BY <2>1, <2>4
  <2> QED BY <1>4, <1>8, <2>2, <2>3, <2>5
<1>10. G[n] = p[n]
  BY <1>9
<1> QED BY <1>4, <1>7, <1>10

LEMMA OddsArePositive ==
  ASSUME SamplerTypes
  PROVE  /\ \A t \in Vocab : Odds[t] \in Nat \ {0}
         /\ \A t, u \in Vocab : logits[t] = logits[u] => Odds[t] = Odds[u]
<1> DEFINE scores == {logits[t] : t \in Vocab}
<1>1. IsFiniteSet(scores) /\ scores # {} /\ scores \subseteq Int
  <2>1. IsFiniteSet(scores)
    <3> DEFINE f == [t \in Vocab |-> logits[t]]
    <3>1. f \in Surjection(Vocab, scores)
      BY DEF Surjection
    <3> HIDE DEF f, scores
    <3> QED BY <3>1, SamplerAssumption, FS_Surjection
  <2> QED BY <2>1, SamplerAssumption DEF SamplerTypes
<1>2. \E low \in scores : \A t \in Vocab : low <= logits[t]
  <2> DEFINE Beaten(t) == {u \in Vocab : logits[u] < logits[t]}
             counts == {Cardinality(Beaten(t)) : t \in Vocab}
  <2>1. \A t \in Vocab : IsFiniteSet(Beaten(t)) /\ Cardinality(Beaten(t)) \in Nat
    BY SamplerAssumption, FS_Subset, FS_CardinalityType
  <2>2. counts \in SUBSET Nat /\ counts # {}
    BY <2>1, SamplerAssumption
  <2>3. PICK n \in counts : \A k \in counts : n <= k
    <3> HIDE DEF counts
    <3> QED BY <2>2, LeastNat
  <2>4. PICK t \in Vocab : n = Cardinality(Beaten(t))
    BY <2>3
  <2>5. ASSUME NEW u \in Vocab, logits[u] < logits[t] PROVE FALSE
    <3>1. Beaten(u) \subseteq Beaten(t) /\ u \in Beaten(t) /\ u \notin Beaten(u)
      BY <2>5 DEF SamplerTypes
    <3>2. Cardinality(Beaten(u)) < Cardinality(Beaten(t))
      <4> HIDE DEF Beaten
      <4>1. IsFiniteSet(Beaten(t)) /\ Beaten(u) # Beaten(t)
        BY <2>1, <3>1
      <4> QED BY <2>1, <3>1, <4>1, FS_Subset
    <3>3. Cardinality(Beaten(u)) \in counts
      OBVIOUS
    <3> HIDE DEF counts, Beaten
    <3>4. n <= Cardinality(Beaten(u))
      BY <2>3, <3>3
    <3> QED BY <2>1, <2>4, <3>2, <3>4
  <2> QED BY <2>5 DEF SamplerTypes
<1>3. Lowest \in scores /\ \A t \in Vocab : Lowest <= logits[t]
  BY <1>2 DEF Lowest
<1>4. ASSUME NEW t \in Vocab PROVE Odds[t] \in Nat \ {0}
  <2>1. Lowest \in Int /\ logits[t] \in Int /\ Lowest <= logits[t]
    BY <1>1, <1>3 DEF SamplerTypes
  <2>2. logits[t] - Lowest \in Nat
    BY <2>1
  <2> QED BY <2>2, PowerIsPositive DEF Odds
<1> QED BY <1>4 DEF Odds

\* The mass of the first n of a descending order, term by term.
LEMMA PrefixMass ==
  ASSUME SamplerTypes, NEW S \in SUBSET Vocab, S # {}, NEW o \in Descending(S)
  PROVE  LET N == Cardinality(S) IN
         /\ N \in Nat \ {0}
         /\ o \in [1 .. N -> S]
         /\ \A i, j \in 1 .. N : o[i] = o[j] => i = j
         /\ UpTo(o, N) = S
         /\ \A n \in 0 .. N : UpTo(o, n) \subseteq Vocab /\ Mass(UpTo(o, n)) \in Nat
         /\ Mass(UpTo(o, 0)) = 0
         /\ \A n \in 1 .. N : Mass(UpTo(o, n)) = Mass(UpTo(o, n - 1)) + Odds[o[n]]
<1> DEFINE N == Cardinality(S)
<1>1. N \in Nat \ {0} /\ o \in [1 .. N -> S]
  BY FirstIsBest
<1>2. /\ \A t \in S : \E i \in 1 .. N : o[i] = t
      /\ IsFiniteSet(S) /\ IsFiniteSet(Vocab)
  BY <1>1, SamplerAssumption, FS_Subset DEF Descending
<1>3. \A i, j \in 1 .. N : o[i] = o[j] => i = j
  <2>1. o \in Surjection(1 .. N, S)
    BY <1>1, <1>2 DEF Surjection
  <2>2. IsFiniteSet(1 .. N) /\ Cardinality(1 .. N) = Cardinality(S)
    BY <1>1, FirstNumbers
  <2>3. o \in Injection(1 .. N, S)
    <3> HIDE DEF N
    <3> QED BY <2>1, <2>2, FS_SurjSameCardinalityImpliesInj
  <2> QED BY <1>1, <2>3 DEF Injection, IsInjective
<1> HIDE DEF N
<1>4. UpTo(o, N) = S
  BY <1>1, <1>2 DEF UpTo
<1>5. UpTo(o, 0) = {}
  BY DEF UpTo
<1>6. ASSUME NEW n \in 0 .. N PROVE UpTo(o, n) \in SUBSET Vocab /\ IsFiniteSet(UpTo(o, n))
  <2>1. UpTo(o, n) \in SUBSET Vocab
    BY <1>1 DEF UpTo
  <2> QED BY <1>2, <2>1, FS_Subset
<1>7. ASSUME NEW n \in 1 .. N
      PROVE  /\ Mass(UpTo(o, n - 1)) \in Nat
             /\ Mass(UpTo(o, n)) = Mass(UpTo(o, n - 1)) + Odds[o[n]]
  <2> DEFINE before == UpTo(o, n - 1)
             r == o[n]
             T == UpTo(o, n)
  <2>1. n - 1 \in 0 .. N /\ n \in 0 .. N
    BY <1>1
  <2>2. T = before \cup {r}
    <3>1. \A i : i \in 1 .. n <=> i \in 1 .. n - 1 \/ i = n
      BY <1>1
    <3> QED BY <3>1 DEF UpTo
  <2>3. r \notin before
    <3>1. ASSUME NEW i \in 1 .. n - 1 PROVE o[i] # r
      <4>1. i \in 1 .. N /\ i # n
        BY <1>1, <3>1
      <4> QED BY <1>3, <4>1
    <3> QED BY <3>1 DEF UpTo
  <2>4. IsFiniteSet(before) /\ T \in SUBSET Vocab
    BY <1>6, <2>1
  <2>5. \A x \in T : Odds[x] \in Nat
    BY <2>4, OddsArePositive
  <2> HIDE DEF before, r, T
  <2>6. /\ SumFunctionOnSet(Odds, before) \in Nat
        /\ SumFunctionOnSet(Odds, T) = SumFunctionOnSet(Odds, before) + Odds[r]
    BY <2>2, <2>3, <2>4, <2>5, SumOneMore
  <2> QED BY <2>6 DEF Mass, before, r, T
<1>8. Mass(UpTo(o, 0)) = 0
  <2>1. /\ IsFiniteSet({}) /\ \A x \in {} : Odds[x] \in Nat
    BY FS_EmptySet
  <2>2. PICK it : IsSum(it, Odds, {}) /\ SumFunctionOnSet(Odds, {}) = it[{}]
    BY <2>1, SumStages
  <2> QED BY <1>5, <2>2 DEF IsSum, Mass
<1>9. ASSUME NEW n \in 0 .. N PROVE Mass(UpTo(o, n)) \in Nat
  <2>1. CASE n = 0
    BY <1>8, <2>1
  <2>2. CASE n \in 1 .. N
    <3>1. o[n] \in Vocab
      BY <1>1, <2>2
    <3>2. Odds[o[n]] \in Nat
      BY <3>1, OddsArePositive
    <3> QED BY <1>7, <2>2, <3>2
  <2> QED BY <1>1, <2>1, <2>2
<1> QED BY <1>1, <1>3, <1>4, <1>6, <1>7, <1>8, <1>9 DEF N

\* What one run of the filter keeps, in the words of the property.
Smallest(S, left, limit) ==
  /\ left \subseteq S
  /\ \A t \in left, u \in S \ left : logits[t] >= logits[u]
  /\ Mass(left) * 100 > limit
  /\ \A t \in left : left # {t} /\ (\A u \in left : logits[t] <= logits[u]) =>
       Mass(left \ {t}) * 100 <= limit

LEMMA NucleusIsSmallest ==
  ASSUME SamplerTypes, kept # {}, sampling_params.top_p < 100, NEW o \in Descending(kept)
  PROVE  Smallest(kept, Nucleus(o), sampling_params.top_p * Mass(kept))
<1> DEFINE N == Cardinality(kept)
           mass == [n \in 0 .. N |-> Mass(UpTo(o, n))]
           limit == sampling_params.top_p * Mass(kept)
           left == Nucleus(o)
<1>1. /\ N \in Nat \ {0} /\ o \in [1 .. N -> kept] /\ kept \in SUBSET Vocab
      /\ UpTo(o, N) = kept
      /\ \A n \in 0 .. N : mass[n] \in Nat /\ mass[n] = Mass(UpTo(o, n))
      /\ mass[0] = 0
  <2>1. kept \in SUBSET Vocab
    BY DEF SamplerTypes
  <2>2. /\ N \in Nat \ {0} /\ o \in [1 .. N -> kept] /\ UpTo(o, N) = kept
        /\ \A n \in 0 .. N : Mass(UpTo(o, n)) \in Nat
        /\ Mass(UpTo(o, 0)) = 0
    BY <2>1, PrefixMass
  <2>3. 0 \in 0 .. N
    BY <2>2
  <2> QED BY <2>1, <2>2, <2>3
<1>2. \A i, j \in 1 .. N : o[i] = o[j] => i = j
  BY <1>1, PrefixMass
<1>3. \A n \in 1 .. N : /\ n \in 0 .. N /\ n - 1 \in 0 .. N
                        /\ Odds[o[n]] \in Nat \ {0} /\ mass[n] = mass[n - 1] + Odds[o[n]]
  <2>1. \A n \in 1 .. N : Mass(UpTo(o, n)) = Mass(UpTo(o, n - 1)) + Odds[o[n]]
    BY <1>1, PrefixMass
  <2>2. ASSUME NEW n \in 1 .. N
        PROVE  /\ n \in 0 .. N /\ n - 1 \in 0 .. N
               /\ Odds[o[n]] \in Nat \ {0} /\ mass[n] = mass[n - 1] + Odds[o[n]]
    <3>1. n \in 0 .. N /\ n - 1 \in 0 .. N
      BY <1>1
    <3>2. o[n] \in Vocab
      BY <1>1
    <3> HIDE DEF mass
    <3>3. mass[n] = Mass(UpTo(o, n)) /\ mass[n - 1] = Mass(UpTo(o, n - 1))
      BY <1>1, <3>1
    <3> QED BY <2>1, <3>1, <3>2, <3>3, OddsArePositive
  <2> QED BY <2>2
<1>4. \A n \in 0 .. N : ExceedsP(o, n) <=> mass[n] * 100 > limit
  <2> HIDE DEF mass
  <2> QED BY <1>1 DEF ExceedsP
<1>5. Mass(kept) = mass[N] /\ mass[N] > 0
  <2>1. N \in 1 .. N /\ N \in 0 .. N
    BY <1>1
  <2>2. mass[N] = mass[N - 1] + Odds[o[N]] /\ N - 1 \in 0 .. N /\ Odds[o[N]] \in Nat \ {0}
    BY <1>3, <2>1
  <2> HIDE DEF mass
  <2>3. mass[N - 1] \in Nat
    BY <1>1, <2>2
  <2> QED BY <1>1, <2>1, <2>2, <2>3
<1>6. limit \in Int /\ limit < mass[N] * 100
  <2> DEFINE p == sampling_params.top_p
             M == mass[N]
  <2>1. p \in Int /\ p < 100 /\ M \in Nat /\ M > 0 /\ limit = p * M
    <3>1. sampling_params \in SamplerParamType
      BY SamplerAssumption DEF SamplerTypes
    <3> HIDE DEF mass
    <3>2. N \in 0 .. N
      BY <1>1
    <3> QED BY <1>1, <1>5, <3>1, <3>2 DEF SamplerParamType
  <2> HIDE DEF p, M, limit
  <2>2. p * M \in Int /\ p * M < 100 * M
    <3>1. CASE p \in Nat
      BY <2>1, <3>1, ProductType, MoreTimes
    <3>2. CASE p < 0
      BY <2>1, <3>2
    <3> QED BY <2>1, <3>1, <3>2
  <2> QED BY <2>1, <2>2 DEF M
<1> HIDE DEF mass, limit, N
<1> DEFINE Crossing == {n \in 1 .. N : mass[n] * 100 > limit}
<1>7. PICK n \in 1 .. N : /\ mass[n] * 100 > limit
                          /\ \A i \in 1 .. N : mass[i] * 100 > limit => n <= i
  <2>1. Crossing \in SUBSET Nat /\ N \in Crossing
    BY <1>1, <1>6
  <2>2. PICK n \in Crossing : \A i \in Crossing : n <= i
    <3> HIDE DEF Crossing
    <3> QED BY <2>1, LeastNat
  <2> QED BY <2>2
\* From there on every prefix exceeds the limit.
<1>8. ASSUME NEW i \in 1 .. N, n <= i PROVE mass[i] * 100 > limit
  <2> DEFINE Below == {j \in Nat : j \in 1 .. N /\ n <= j /\ ~(mass[j] * 100 > limit)}
  <2>1. Below = {}
    <3> SUFFICES ASSUME Below # {} PROVE FALSE
      OBVIOUS
    <3>1. PICK j \in Below : \A k \in Below : j <= k
      BY LeastNat
    <3>2. j \in 1 .. N /\ n <= j /\ ~(mass[j] * 100 > limit) /\ j # n
      BY <1>7, <3>1
    <3>3. j - 1 \in Nat /\ j - 1 \in 1 .. N /\ n <= j - 1 /\ ~(j <= j - 1)
      BY <1>1, <3>2
    <3>4. mass[j - 1] * 100 > limit
      BY <3>1, <3>3
    <3>5. mass[j] \in Nat /\ mass[j - 1] \in Nat /\ mass[j] >= mass[j - 1]
      <4>1. j \in 0 .. N /\ j - 1 \in 0 .. N /\ Odds[o[j]] \in Nat
        BY <1>3, <3>2
      <4>2. mass[j] = mass[j - 1] + Odds[o[j]]
        BY <1>3, <3>2
      <4>3. mass[j] \in Nat /\ mass[j - 1] \in Nat
        BY <1>1, <4>1
      <4> QED BY <4>1, <4>2, <4>3
    <3> QED BY <1>6, <3>2, <3>4, <3>5
  <2>2. i \in Nat
    BY <1>1
  <2> QED BY <1>8, <2>1, <2>2
<1>9. left = UpTo(o, n)
  <2>1. DOMAIN o = 1 .. N
    BY <1>1
  <2>2. ASSUME NEW j \in 1 .. N PROVE (j = 1 \/ ~ExceedsP(o, j - 1)) <=> j \in 1 .. n
    <3>1. CASE j = 1
      BY <1>1, <3>1
    <3>2. CASE j # 1
      <4>1. j - 1 \in 1 .. N /\ j - 1 \in 0 .. N /\ (n <= j - 1 <=> j \notin 1 .. n)
        BY <1>1, <3>2
      <4>2. ExceedsP(o, j - 1) <=> mass[j - 1] * 100 > limit
        BY <1>4, <4>1
      <4>3. mass[j - 1] * 100 > limit <=> n <= j - 1
        BY <1>7, <1>8, <4>1
      <4> QED BY <3>2, <4>1, <4>2, <4>3
    <3> QED BY <3>1, <3>2
  <2>3. {j \in DOMAIN o : j = 1 \/ ~ExceedsP(o, j - 1)} = 1 .. n
    <3>1. \A j \in 1 .. n : j \in 1 .. N
      BY <1>1
    <3> QED BY <2>1, <2>2, <3>1
  <2> QED BY <2>3 DEF Nucleus, UpTo
<1> HIDE DEF left
<1>10. left \subseteq kept
  BY <1>1, <1>9 DEF UpTo
<1>11. ASSUME NEW t \in left, NEW u \in kept \ left PROVE logits[t] >= logits[u]
  <2>1. PICK i \in 1 .. n : t = o[i]
    BY <1>9 DEF UpTo
  <2>2. PICK j \in 1 .. N : u = o[j]
    BY <1>1 DEF UpTo
  <2>3. ~(j <= n)
    BY <1>1, <1>9, <2>2 DEF UpTo
  <2>4. i \in 1 .. N /\ i < j
    BY <1>1, <2>3
  <2>5. \A a, b \in 1 .. N : a < b => logits[o[a]] >= logits[o[b]]
    BY <1>1 DEF Descending
  <2> QED BY <2>1, <2>2, <2>4, <2>5
<1>12. Mass(left) = mass[n] /\ Mass(left) * 100 > limit
  BY <1>3, <1>1, <1>7, <1>9
<1>13. ASSUME NEW t \in left, left # {t}, \A u \in left : logits[t] <= logits[u]
       PROVE  Mass(left \ {t}) * 100 <= limit
  <2>1. PICK i \in 1 .. n : t = o[i]
    BY <1>9 DEF UpTo
  <2>2. o[n] \in left /\ n \in 1 .. N /\ i \in 1 .. N
    BY <1>1, <1>9 DEF UpTo
  <2>3. o[n] \in Vocab /\ t \in Vocab
    BY <1>1, <1>10, <2>2
  <2>4. logits[t] = logits[o[n]]
    <3>1. logits[t] \in Int /\ logits[o[n]] \in Int
      BY <2>3 DEF SamplerTypes
    <3>2. \A a, b \in 1 .. N : a < b => logits[o[a]] >= logits[o[b]]
      BY <1>1 DEF Descending
    <3>3. i = n \/ i < n
      BY <1>1
    <3>4. logits[t] <= logits[o[n]]
      BY <1>13, <2>2
    <3> QED BY <2>1, <2>2, <3>1, <3>2, <3>3, <3>4
  <2>5. Odds[t] = Odds[o[n]] /\ Odds[t] \in Nat
    BY <2>3, <2>4, OddsArePositive
  <2>6. Mass(left \ {t}) \in Nat /\ Mass(left) = Mass(left \ {t}) + Odds[t]
    <3> DEFINE rest == left \ {t}
    <3>1. IsFiniteSet(rest) /\ t \notin rest /\ left = rest \cup {t}
      <4>1. rest \subseteq Vocab
        BY <1>1, <1>10
      <4>2. IsFiniteSet(rest)
        BY <4>1, SamplerAssumption, FS_Subset
      <4> QED BY <4>2
    <3>2. \A x \in left : Odds[x] \in Nat
      BY <1>1, <1>10, OddsArePositive
    <3> HIDE DEF rest
    <3>3. /\ SumFunctionOnSet(Odds, rest) \in Nat
          /\ SumFunctionOnSet(Odds, left) = SumFunctionOnSet(Odds, rest) + Odds[t]
      BY <3>1, <3>2, SumOneMore
    <3> QED BY <3>3 DEF Mass, rest
  <2>7. mass[n] = mass[n - 1] + Odds[o[n]] /\ mass[n - 1] \in Nat
    BY <1>1, <1>3, <2>2
  <2>8. Mass(left \ {t}) = mass[n - 1]
    <3> DEFINE m == Mass(left \ {t})
               k == mass[n - 1]
               d == Odds[t]
    <3>1. m + d = k + d /\ m \in Nat /\ k \in Nat /\ d \in Nat
      BY <1>12, <2>5, <2>6, <2>7
    <3> HIDE DEF m, k, d
    <3>2. m = k
      BY <3>1
    <3> QED BY <3>2 DEF m, k
  <2>9. mass[n - 1] * 100 <= limit
    <3>1. n # 1
      <4> SUFFICES ASSUME n = 1 PROVE FALSE
        OBVIOUS
      <4>1. left = {o[1]} /\ t = o[1]
        BY <1>9, <2>1 DEF UpTo
      <4> QED BY <1>13, <4>1
    <3>2. n - 1 \in 1 .. N /\ ~(n <= n - 1)
      BY <1>1, <3>1
    <3>3. ~(mass[n - 1] * 100 > limit)
      BY <1>7, <3>2
    <3> QED BY <1>6, <2>7, <3>3
  <2> QED BY <2>8, <2>9
<1> QED BY <1>10, <1>11, <1>12, <1>13 DEF Smallest, left, limit

\* sampler.py:60-73: the mask, shifted by one through a view of itself and
\* cleared for the first token, leaves exactly the tokens up to the one that
\* crosses top_p, for every row, every limit and every order of equal scores.
THEOREM NucleusIsMinimal == GenerationSpec => SmallestNucleus
<1> DEFINE Kept == stage = "topp" /\ stage' = "draw" /\ sampling_params.top_p < 100 =>
                     Smallest(kept, kept', sampling_params.top_p * Mass(kept))
<1>1. FilterInv /\ [GenerationNext]_generationVars => [Kept]_samplerVars
  <2> SUFFICES ASSUME FilterInv, [GenerationNext]_generationVars,
                      stage = "topp", stage' = "draw", sampling_params.top_p < 100
               PROVE  Smallest(kept, kept', sampling_params.top_p * Mass(kept))
    OBVIOUS
  <2>1. TopP
    <3>1. ~ComputeLogits /\ ~Emit /\ ~UNCHANGED generationVars
      BY DEF ComputeLogits, Logits, Emit, generationVars, samplerVars
    <3>2. SampleTurn
      BY <3>1 DEF GenerationNext
    <3> QED BY <3>2 DEF SampleTurn, Sample, Penalise, Scale, TopK, Draw
  <2>2. PICK o \in Descending(kept) : kept' = Nucleus(o)
    BY <2>1 DEF TopP
  <2>3. SamplerTypes /\ kept # {}
    BY SamplerAssumption DEF FilterInv, BestIsKept, SamplerTypes
  <2> QED BY <2>2, <2>3, NucleusIsSmallest
<1>2. [Kept]_samplerVars <=>
        [stage = "topp" /\ stage' = "draw" /\ sampling_params.top_p < 100 =>
           /\ kept' \subseteq kept
           /\ \A t \in kept', u \in kept \ kept' : logits[t] >= logits[u]
           /\ Mass(kept') * 100 > sampling_params.top_p * Mass(kept)
           /\ \A t \in kept' : kept' # {t} /\ (\A u \in kept' : logits[t] <= logits[u]) =>
                Mass(kept' \ {t}) * 100 <= sampling_params.top_p * Mass(kept)]_samplerVars
  BY DEF Smallest
<1> HIDE DEF Kept
<1> QED BY <1>1, <1>2, FilterInvHolds, PTL DEF GenerationSpec, SmallestNucleus

=============================================================================
