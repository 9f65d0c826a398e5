------------------------------- MODULE Sampler -------------------------------
(***************************************************************************)
(* nanoserve/scheduler/sampler.py: from the logits of one row to a token.  *)
(*                                                                         *)
(* The rows of a batch do not touch each other, so the module has one row. *)
(* Scores are integers, in a scale in which the penalty divides exactly.   *)
(* The softmax takes powers of 2 where the code has e: nothing here        *)
(* depends on the base.  A score of -inf is absence from kept.             *)
(***************************************************************************)
EXTENDS Integers, Sequences, FiniteSets, Functions

CONSTANTS
  Vocab,              \* the token ids
  Rows,               \* the rows of logits the model may give
  SamplingParamSet    \* what a request may ask for

\* top_p and repetition_penalty in percent.  The server checks none of them.
SamplerParamType ==
  [temperature : Int, top_p : Int, top_k : Int, repetition_penalty : Int \ {0}]

ASSUME SamplerAssumption ==
  /\ IsFiniteSet(Vocab) /\ Vocab # {}
  /\ Rows \subseteq [Vocab -> Int]
  /\ SamplingParamSet \subseteq SamplerParamType

\* A positive score is divided exactly, a negative one multiplied exactly.
Exact(score, percent) ==
  IF score < 0 THEN (score * percent) % 100 = 0
  ELSE (score * 100) % (IF percent < 0 THEN -percent ELSE percent) = 0

\* The scale of the scores is such that the penalty leaves integers.
ASSUME ScaleAssumption ==
  \A scores \in Rows, p \in SamplingParamSet :
    \A t \in Vocab : Exact(scores[t], p.repetition_penalty)

VARIABLES
  stage,              \* which part of sample() comes next
  sampling_params,    \* of the request whose row this is
  row,                \* the logits as the model gave them
  logits,             \* the logits as sample() has rewritten them
  kept,               \* the tokens whose logit is not -inf
  sampled             \* the result

samplerVars == <<stage, sampling_params, row, logits, kept, sampled>>

Vocabulary == Cardinality(Vocab)

\* Sequences of all elements of S with descending logits: what sort() and
\* topk() may return, which leave the order of equal elements open.
Descending(S) ==
  {o \in [1 .. Cardinality(S) -> S] :
     /\ \A t \in S : \E i \in DOMAIN o : o[i] = t
     /\ \A i, j \in DOMAIN o : i < j => logits[o[i]] >= logits[o[j]]}

-----------------------------------------------------------------------------
(* The parts of sample(), in order.                                        *)

\* score divided by a percentage, which may be negative.
Divided(score, percent) ==
  IF percent < 0 THEN -((score * 100) \div (-percent)) ELSE (score * 100) \div percent

\* Defect: negative scores are divided like positive ones.
AlwaysDivided(score) == Divided(score, sampling_params.repetition_penalty)
Penalised(score) ==
  IF score < 0 THEN (score * sampling_params.repetition_penalty) \div 100
               ELSE Divided(score, sampling_params.repetition_penalty)

\* All scores are gathered before any is written back, so a token that the
\* history has twice is penalised once.
Penalise(history) ==
  /\ stage = "penalty"
  /\ logits' = [t \in Vocab |-> IF \E i \in DOMAIN history : history[i] = t
                                THEN Penalised(logits[t]) ELSE logits[t]]
  /\ stage' = "temperature"
  /\ UNCHANGED <<sampling_params, row, kept, sampled>>

Temperature ==
  IF sampling_params.temperature > 0 THEN sampling_params.temperature ELSE 1

Scale ==
  /\ stage = "temperature"
  /\ logits' = [t \in Vocab |-> logits[t] \div Temperature]
  /\ stage' = "topk"
  /\ UNCHANGED <<sampling_params, row, kept, sampled>>

LimitsK == 0 < sampling_params.top_k /\ sampling_params.top_k < Vocabulary

\* Defect: the threshold is the first score that should go.
BelowThreshold(o) == logits[o[sampling_params.top_k + 1]]
Threshold(o) == logits[o[sampling_params.top_k]]

TopK ==
  /\ stage = "topk"
  /\ IF LimitsK
     THEN \E o \in Descending(kept) : kept' = {t \in kept : logits[t] >= Threshold(o)}
     ELSE UNCHANGED kept
  /\ stage' = "topp"
  /\ UNCHANGED <<sampling_params, row, logits, sampled>>

\* 2 ^ n, which the provers know nothing of.
PowerOf2(n) == LET power[i \in 0 .. n] == IF i = 0 THEN 1 ELSE 2 * power[i - 1] IN power[n]

Lowest == CHOOSE low \in {logits[t] : t \in Vocab} : \A t \in Vocab : low <= logits[t]

\* The softmax of the row, up to the common denominator.
Odds == [t \in Vocab |-> PowerOf2(logits[t] - Lowest)]

\* The probability of a set of tokens.
Mass(S) == SumFunctionOnSet(Odds, S)

UpTo(o, n) == {o[i] : i \in 1 .. n}

\* Whether the first n tokens of o have a cumulative probability above top_p.
ExceedsP(o, n) == Mass(UpTo(o, n)) * 100 > sampling_params.top_p * Mass(kept)

\* Defect: the mask is not shifted, so the token that crosses top_p goes too.
BeforeCrossing(o) == {o[i] : i \in {j \in DOMAIN o : ~ExceedsP(o, j)}}
\* Defect: the mask is not shifted; only the first token is exempt.
FirstOrBeforeCrossing(o) == {o[i] : i \in {j \in DOMAIN o : j = 1 \/ ~ExceedsP(o, j)}}
\* The mask is shifted by one and never set for the first token.
Nucleus(o) == {o[i] : i \in {j \in DOMAIN o : j = 1 \/ ~ExceedsP(o, j - 1)}}

TopP ==
  /\ stage = "topp"
  /\ IF sampling_params.top_p < 100
     THEN \E o \in Descending(kept) : kept' = Nucleus(o)
     ELSE UNCHANGED kept
  /\ stage' = "draw"
  /\ UNCHANGED <<sampling_params, row, logits, sampled>>

\* Defect: asked of the temperatures after the zeros were replaced.
GreedyAfterClamp == Temperature = 0
IsGreedy == sampling_params.temperature = 0

Argmax == {t \in kept : \A u \in kept : logits[u] <= logits[t]}

\* A row of -inf only has NaN for probabilities, which become uniform.
Support == IF kept = {} THEN Vocab
           ELSE IF IsGreedy THEN Argmax ELSE kept

Draw ==
  /\ stage = "draw"
  /\ sampled' \in Support
  /\ stage' = "emit"
  /\ UNCHANGED <<sampling_params, row, logits, kept>>

SamplerInit ==
  /\ stage = "model"
  /\ sampling_params \in SamplingParamSet
  /\ row = [t \in Vocab |-> 0] /\ logits = row
  /\ kept = Vocab
  /\ sampled \in {CHOOSE t \in Vocab : TRUE}

\* The engine hands over the logits of the next row, compute_logits(...).
Logits(scores) ==
  /\ stage = "model"
  /\ row' = scores /\ logits' = scores /\ kept' = Vocab
  /\ stage' = "penalty"
  /\ UNCHANGED <<sampling_params, sampled>>

Sample(history) == Penalise(history) \/ Scale \/ TopK \/ TopP \/ Draw

-----------------------------------------------------------------------------
(* Properties.                                                             *)

SamplerTypes ==
  /\ stage \in {"model", "penalty", "temperature", "topk", "topp", "draw", "emit", "done"}
  /\ sampling_params \in SamplingParamSet
  /\ row \in [Vocab -> Int] /\ logits \in [Vocab -> Int]
  /\ kept \subseteq Vocab
  /\ sampled \in Vocab

\* sampler.py:60-61: what top-p keeps is the smallest prefix of the descending
\* order whose probability, among what top-k has left, exceeds top_p, but never
\* less than one token.
SmallestNucleus ==
  [][stage = "topp" /\ stage' = "draw" /\ sampling_params.top_p < 100 =>
       /\ kept' \subseteq kept
       /\ \A t \in kept', u \in kept \ kept' : logits[t] >= logits[u]
       /\ Mass(kept') * 100 > sampling_params.top_p * Mass(kept)
       /\ \A t \in kept' : kept' # {t} /\ (\A u \in kept' : logits[t] <= logits[u]) =>
            Mass(kept' \ {t}) * 100 <= sampling_params.top_p * Mass(kept)]_samplerVars

\* The filters together never mask a whole row: the uniform fallback, which
\* would draw from all that top-k and top-p excluded, is never used.
SomethingToDraw == stage = "draw" => kept # {}

\* The drawn token is one of the top_k best: fewer than top_k tokens of the
\* whole vocabulary have a higher score.
AmongTheBest ==
  stage = "emit" /\ LimitsK =>
    Cardinality({u \in Vocab : logits[u] > logits[sampled]}) < sampling_params.top_k

\* With temperature 0 the result is a best token of the penalised row, though
\* top-k and top-p have masked it and a draw was made besides.
GreedyTakesBest ==
  stage = "emit" /\ sampling_params.temperature = 0 =>
    \A u \in Vocab : logits[u] <= logits[sampled]

=============================================================================
