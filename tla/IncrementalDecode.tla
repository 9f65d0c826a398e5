-------------------------- MODULE IncrementalDecode --------------------------
(***************************************************************************)
(* _decode_incremental of nanoserve/engine/engine.py: all output tokens    *)
(* are decoded again at every step, and what goes beyond the length of the *)
(* text before is sent.                                                    *)
(*                                                                         *)
(* The tokenizer is external and may be any function from sequences of     *)
(* tokens to texts: with one more token the text may stay, grow by several *)
(* characters, change what it had, or become shorter.                      *)
(***************************************************************************)
EXTENDS Integers, Sequences

CONSTANTS
  Decode(_),      \* tokenizer.decode(tokens, skip_special_tokens=True)
  Replacement     \* what it has for the bytes of an incomplete character, U+FFFD

VARIABLES
  output_token_ids,     \* Request.output_token_ids
  reported_text_len,    \* _reported_text_len of the request
  full_text             \* what the handler has put together from the deltas

textVars == <<output_token_ids, reported_text_len, full_text>>

DecodeInit ==
  /\ output_token_ids = << >>
  /\ reported_text_len = 0
  /\ full_text = << >>

\* The length sent before, cut to the text if that has become shorter.
LastLen(text) ==
  IF reported_text_len > Len(text) THEN Len(text) ELSE reported_text_len

\* Defect: the length is counted in tokens.
LengthInTokens(tokens) == Len(tokens)
TextLength(tokens) == Len(Decode(tokens))

\* The sampled token is appended to the output, the delta to the text.
DecodeIncremental(token) ==
  LET tokens == Append(output_token_ids, token)
      text == Decode(tokens)
  IN  /\ output_token_ids' = tokens
      /\ full_text' = full_text \o SubSeq(text, LastLen(text) + 1, Len(text))
      /\ reported_text_len' = TextLength(tokens)

-----------------------------------------------------------------------------
(* Properties.                                                             *)

\* The text of the first n tokens of the output.
TextAfter(n) == Decode(SubSeq(output_token_ids, 1, n))
Text == TextAfter(Len(output_token_ids))

\* The text has not become shorter with any of the tokens.
NeverShrank ==
  \A n \in 1 .. Len(output_token_ids) : Len(TextAfter(n - 1)) <= Len(TextAfter(n))

\* With the n-th token the text changed in no character but replacement ones.
OnlyCompletes(n) ==
  \A i \in 1 .. Len(TextAfter(n - 1)) :
    TextAfter(n - 1)[i] \in {TextAfter(n)[i], Replacement}

\* The n-th token is the one with which the text reached the place i.
Reaches(n, i) == Len(TextAfter(n - 1)) < i /\ i <= Len(TextAfter(n))

\* The deltas put together are never shorter than the text has been.  As long
\* as the text has not become shorter, they have one character for each of its
\* characters, in its place, as it was when the text first got that far; and if
\* nothing but replacement characters has changed since, each is the character
\* of the text or the replacement character.
DeltasKeepPlace ==
  /\ \A n \in 0 .. Len(output_token_ids) : Len(TextAfter(n)) <= Len(full_text)
  /\ NeverShrank =>
       /\ Len(full_text) = Len(Text)
       /\ \A i \in 1 .. Len(Text) :
            \E n \in 1 .. Len(output_token_ids) :
              Reaches(n, i) /\ full_text[i] = TextAfter(n)[i]
       /\ (\A n \in 1 .. Len(output_token_ids) : OnlyCompletes(n)) =>
            \A i \in 1 .. Len(Text) : full_text[i] \in {Text[i], Replacement}

\* engine.py:164-165, "We decode the FULL output sequence every time, then take
\* the suffix. This is [...] correct around multi-byte chars": what was sent is
\* the text, but for an incomplete last character.
CorrectAroundMultiByte ==
  \A i \in 1 .. Len(Text) - 1 : full_text[i] = Text[i]

=============================================================================
