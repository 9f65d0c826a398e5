---------------------------- MODULE MCScheduler ----------------------------
(***************************************************************************)
(* Small instances of Scheduler for TLC.                                   *)
(***************************************************************************)
EXTENDS Scheduler

\* A request that may stop at the end-of-sequence token or at its limit.
Ask(prompt, max_tokens) ==
  [prompt |-> prompt, max_tokens |-> max_tokens, ignore_eos |-> FALSE,
   stop_token_ids |-> {}]

\* The same, but it runs to its limit.
AskAll(prompt, max_tokens) == [Ask(prompt, max_tokens) EXCEPT !.ignore_eos = TRUE]

MCTokens == {"eos", "word"}
MCEos == {"eos"}

\* Prompts of one chunk, of several chunks, and too long for the model; output
\* that ends at max_tokens, at max_model_len, at a stop token, or at eos.
MixedParams ==
  { Ask(1, 3), AskAll(3, 9), Ask(4, 1), Ask(5, 1), Ask(6, 1),
    [AskAll(2, 2) EXCEPT !.stop_token_ids = {"word"}] }

\* Requests that stay within the blocks of their prompt, of one chunk or of
\* several, and one that grows beyond; one that is too long for the model, one
\* that is not but needs more blocks than there are, and one with an empty
\* prompt.
QueueParams ==
  { Ask(3, 2), AskAll(4, 1), AskAll(5, 1), AskAll(2, 2),
    Ask(10, 1), Ask(9, 1), Ask(0, 1) }

\* Requests whose blocks are all allocated on admission.
FittingParams == { Ask(3, 2), AskAll(4, 1) }

\* Requests that grow beyond the blocks of their prompt.
GrowingParams == { Ask(1, 4), AskAll(2, 3), AskAll(3, 2) }

AllRequests == Requests
OlderRequests == {1, 2}
NoRequests == {}

=============================================================================
