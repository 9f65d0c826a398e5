--------------------------- MODULE BlockAllocator ---------------------------
(***************************************************************************)
(* nanoserve/cache/block_allocator.py: the free list that hands out the    *)
(* physical blocks of the paged KV cache.  Block 0 is the padding sentinel *)
(* and is never on the list; blocks are taken from the head and returned   *)
(* to the tail.                                                            *)
(***************************************************************************)
EXTENDS Integers, Sequences, SeqFilter

CONSTANT NumBlocks    \* cache.num_blocks, the padding block included

ASSUME AllocatorAssumption == NumBlocks \in Nat \ {0}

VARIABLE free         \* BlockAllocator._free, a deque of block ids

PaddingBlock == 0

\* The block ids that can be handed out.
Blocks == 1 .. NumBlocks - 1

AllocatorInit == free = [b \in Blocks |-> b]

CanAllocate(n) == Len(free) >= n

\* The list returned by allocate(n), and the free list that it leaves.
Allocated(n) == SubSeq(free, 1, n)
\* Defect: the last block handed out stays on the free list.
TakeOneTooFew(n) == free' = SubSeq(free, n, Len(free))
TakeBlocks(n) == free' = SubSeq(free, n + 1, Len(free))

\* free(blocks): the padding block is skipped, the others are appended.
GiveBack(blocks) == free' = free \o Without(blocks, {PaddingBlock})

=============================================================================
