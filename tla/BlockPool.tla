----------------------------- MODULE BlockPool -----------------------------
(***************************************************************************)
(* What the block allocator and its users promise together: every block    *)
(* has at most one holder, a holder takes only blocks that nobody holds,   *)
(* and it gives back all that it holds at once, never a block at a time    *)
(* and never to another holder.                                            *)
(***************************************************************************)
CONSTANTS
  Blocks,    \* the blocks that can be held
  Holders,   \* those that may hold them
  Nobody     \* the holder of a block that is free, not one of Holders

VARIABLE holder

PoolInit == holder = [b \in Blocks |-> Nobody]

FreeBlocks == {b \in Blocks : holder[b] = Nobody}

Take(h) ==
  \E B \in SUBSET FreeBlocks :
    holder' = [b \in Blocks |-> IF b \in B THEN h ELSE holder[b]]

Release(h) ==
  holder' = [b \in Blocks |-> IF holder[b] = h THEN Nobody ELSE holder[b]]

PoolNext == \E h \in Holders : Take(h) \/ Release(h)

PoolSpec == PoolInit /\ [][PoolNext]_holder

=============================================================================
