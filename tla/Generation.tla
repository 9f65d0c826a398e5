----------------------------- MODULE Generation -----------------------------
(***************************************************************************)
(* The sampling part of _engine_loop (nanoserve/engine/engine.py) for one  *)
(* request: logits, sampler with the request's own history, output, text.  *)
(* Which steps sample a request is Scheduler's matter; here they follow    *)
(* each other.                                                             *)
(***************************************************************************)
EXTENDS Sampler, IncrementalDecode

CONSTANTS
  Characters,    \* what texts consist of
  EosTokenIds,   \* Scheduler.eos_token_ids
  Prompts,       \* the prompts a request may have
  MaxTokens      \* how many tokens are generated at most

ASSUME GenerationAssumption ==
  /\ Prompts \subseteq Seq(Vocab)
  /\ MaxTokens \in Nat \ {0}

\* No token has no text; any other output of a request has some text.
ASSUME TokenizerAssumption ==
  /\ Decode(<< >>) = << >>
  /\ \A n \in 0 .. MaxTokens :
       \A tokens \in [1 .. n -> Vocab] : Decode(tokens) \in Seq(Characters)

VARIABLE prompt_token_ids

generationVars == <<samplerVars, textVars, prompt_token_ids>>

GenerationInit ==
  /\ SamplerInit
  /\ DecodeInit
  /\ prompt_token_ids \in Prompts

\* The model may give any of the rows.
ComputeLogits ==
  /\ \E scores \in Rows : Logits(scores)
  /\ UNCHANGED <<textVars, prompt_token_ids>>

History == prompt_token_ids \o output_token_ids

SampleTurn ==
  /\ Sample(History)
  /\ UNCHANGED <<textVars, prompt_token_ids>>

\* The token is appended, its text sent, and the request goes on unless it
\* ended with an end-of-sequence token or at its limit.
Emit ==
  /\ stage = "emit"
  /\ DecodeIncremental(sampled)
  /\ stage' = IF sampled \in EosTokenIds \/ Len(output_token_ids') >= MaxTokens
              THEN "done" ELSE "model"
  /\ UNCHANGED <<sampling_params, row, logits, kept, sampled, prompt_token_ids>>

GenerationNext == ComputeLogits \/ SampleTurn \/ Emit

GenerationSpec == GenerationInit /\ [][GenerationNext]_generationVars

-----------------------------------------------------------------------------
(* Properties.                                                             *)

\* new is what a penalty of p percent makes of score when it is paid once: the
\* factor exactly, whatever the sign of the score; a penalty above 1 lowers it,
\* one below 1 raises it, a negative one turns it round.
PaidOnce(score, new, p) ==
  /\ new * p = score * 100 \/ new * 100 = score * p
  /\ p > 100 => new < score \/ score = 0
  /\ p \in 1 .. 99 => new > score \/ score = 0
  /\ p < 0 => (score > 0 <=> new < 0)

\* Each token of the history, of the prompt or of the output so far, pays the
\* penalty once, however often the history repeats it; no other token does.
PenalisedOnce ==
  stage = "temperature" =>
    \A t \in Vocab :
      IF t \in Range(History)
      THEN PaidOnce(row[t], logits[t], sampling_params.repetition_penalty)
      ELSE logits[t] = row[t]

=============================================================================
