------------------------------ MODULE MCEngine ------------------------------
(***************************************************************************)
(* Small instances of Engine for TLC.                                      *)
(***************************************************************************)
EXTENDS Engine

Ask(prompt, max_tokens) ==
  [prompt |-> prompt, max_tokens |-> max_tokens, ignore_eos |-> FALSE,
   stop_token_ids |-> {}]

MCTokens == {"eos", "word"}
MCEos == {"eos"}

\* A prompt of one chunk with several outputs, and one of two chunks.
StreamParams == { Ask(1, 2), Ask(3, 1) }

\* Requests that need a second block after a few outputs.
GrowingParams == { Ask(2, 3), Ask(1, 1) }

SomeLeave == {1}
AllLeave == Requests
NobodyLeaves == {}

=============================================================================
