----------------------------- MODULE MCPagedKV -----------------------------
(***************************************************************************)
(* A small instance of PagedKV for TLC: blocks of two tokens, chunks that  *)
(* end inside a block, and a pool in which blocks are used again.          *)
(***************************************************************************)
EXTENDS PagedKV

Ask(prompt, max_tokens) ==
  [prompt |-> prompt, max_tokens |-> max_tokens, ignore_eos |-> FALSE,
   stop_token_ids |-> {}]

MCParams == { Ask(1, 4), Ask(5, 2), Ask(2, 1) }
MCTokens == {"eos", "word"}
MCEos == {"eos"}
MCAbortable == {2}

=============================================================================
