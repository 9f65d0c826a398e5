---------------------------- MODULE MCGeneration ----------------------------
(***************************************************************************)
(* Small instances of Generation for TLC.                                  *)
(***************************************************************************)
EXTENDS Generation

-----------------------------------------------------------------------------
(* The tokenizer.  A token is a space, or one of the two parts of a mark:  *)
(* "first", which has a space before it, and "next".                       *)

MCVocab == {"space", "first", "next", "eos"}
MCEos == {"eos"}
MCCharacters == {"space", "mark", "U+FFFD"}

\* Special tokens are skipped; a part without its other part is a replacement
\* character.
JoinBytes(tokens) ==
  LET s == SelectSeq(tokens, LAMBDA t : t \notin MCEos)
      rest[i \in 1 .. Len(s) + 1] ==
        IF i > Len(s) THEN << >>
        ELSE IF s[i] = "space" THEN <<"space">> \o rest[i + 1]
        ELSE IF s[i] = "next" THEN <<"U+FFFD">> \o rest[i + 1]
        ELSE IF i < Len(s) /\ s[i + 1] = "next" THEN <<"space", "mark">> \o rest[i + 2]
        ELSE <<"space", "U+FFFD">> \o rest[i + 1]
  IN  rest[1]

\* The spaces on both sides of a mark are taken out, which changes text that
\* was there before or makes it shorter.
TidySpaces(text) ==
  LET rest[i \in 1 .. Len(text) + 1] ==
        IF i > Len(text) THEN << >>
        ELSE IF /\ i + 1 < Len(text) /\ text[i + 1] = "mark"
                /\ text[i] = "space" /\ text[i + 2] = "space"
        THEN <<"mark">> \o rest[i + 3]
        ELSE <<text[i]>> \o rest[i + 1]
  IN  rest[1]

JoinAndTidy(tokens) == TidySpaces(JoinBytes(tokens))

-----------------------------------------------------------------------------
(* The sampler.                                                            *)

\* A prompt that repeats a token, and one that has two others.
MCPrompts == { <<"space", "space">>, <<"first", "next">> }

\* Ties at the top, in the middle, everywhere; negative scores; one token that
\* has nearly all the probability.  Multiples of penalty times temperature.
MCRows ==
  { scores \in [MCVocab -> {-4, 0, 8}] :
      /\ scores["first"] >= scores["next"]
      /\ scores["eos"] # 0 }

P(temperature, top_p, top_k, penalty) ==
  [temperature |-> temperature, top_p |-> top_p, top_k |-> top_k,
   repetition_penalty |-> penalty]

\* With penalties above 1, of 1, below 1 and below 0, and a negative top_p and
\* temperature, which nothing refuses.
MCParams ==
  { P(t, 100, k, 200) : t \in {0, 2}, k \in {-1, 2} }
    \cup { P(t, p, 3, 100) : t \in {0, 1}, p \in {0, 60} }
    \cup { P(2, p, k, 200) : p \in {50, 90}, k \in {0, 1, 4} }
    \cup { P(-1, -10, 2, -100), P(2, 90, 3, 50) }

\* A row that leaves every token as likely as any other, and a request that
\* takes it as it is.
EvenRows == { [t \in MCVocab |-> 0] }
EvenParams == { P(1, 100, -1, 100) }

=============================================================================
