------------------------------ MODULE SeqFilter ------------------------------
(***************************************************************************)
(* The list comprehension `[x for x in s if x not in F]`, which the code   *)
(* uses to drop finished requests from a list and the padding block from a *)
(* list of blocks.  It is SelectSeq(s, LAMBDA x : x \notin F), written as  *)
(* a recursive function so that the provers can unfold it.                 *)
(***************************************************************************)
EXTENDS Integers, Sequences

Without(s, F) ==
  LET kept[i \in 0..Len(s)] ==
        IF i = 0 THEN << >>
        ELSE IF s[i] \in F THEN kept[i-1]
        ELSE Append(kept[i-1], s[i])
  IN  kept[Len(s)]

=============================================================================
