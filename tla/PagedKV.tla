------------------------------ MODULE PagedKV ------------------------------
(***************************************************************************)
(* The forward pass over the paged KV cache: the scheduler's flat tensors  *)
(* (scheduler.py, part 4 of step()), the cache write of model/attention.py *)
(* and the reads of the two attention backends under kernels/.             *)
(*                                                                         *)
(* A key and value pair is abstracted to the request and the position it   *)
(* was computed for; layers, heads and arithmetic are left out, and the    *)
(* layers all write and read the same slots.  Scattering two rows to one   *)
(* slot leaves either of them there, so a cell holds the set of the pairs  *)
(* that may be in it.                                                      *)
(***************************************************************************)
EXTENDS Scheduler

VARIABLE kv            \* k_caches and v_caches, a cell per block and offset

kvVars == <<vars, kv>>

Offsets == 0 .. BlockSize - 1
Cells == (0 .. NumBlocks - 1) \X Offsets

-----------------------------------------------------------------------------
(* The flat tensors of a batch, row by row.                                *)

SeqLen(i) == num_computed_tokens[batch_entries[i].req] + batch_entries[i].q_len
Positions(i) == num_computed_tokens[batch_entries[i].req] .. SeqLen(i) - 1

\* slot_mapping: where the key of a position of r is stored.
SlotOf(r, pos) == block_table[r][pos \div BlockSize + 1] * BlockSize + (pos % BlockSize)

\* query_start_loc, and the row that each sampling entry is sampled from.
QueryStart(i) == SumFunctionOnSet([j \in DOMAIN batch_entries |-> batch_entries[j].q_len],
                                  1 .. i - 1)
\* Defect: the first row of the entry.
FirstRow(i) == QueryStart(i)
SampleRow(i) == QueryStart(i) + batch_entries[i].q_len - 1

\* The request and position of a row of the flat tensors.
RowOf(row) ==
  LET i == CHOOSE i \in DOMAIN batch_entries :
             QueryStart(i) <= row /\ row < QueryStart(i) + batch_entries[i].q_len
      r == batch_entries[i].req
  IN  <<r, num_computed_tokens[r] + (row - QueryStart(i))>>

-----------------------------------------------------------------------------
(* write_kv_to_cache, then paged_attention_torch or paged_attention_triton. *)

CellOf(slot) == <<slot \div BlockSize, slot % BlockSize>>

WrittenTo(cell) ==
  UNION { { <<batch_entries[i].req, pos>> :
              pos \in {p \in Positions(i) : CellOf(SlotOf(batch_entries[i].req, p)) = cell} }
          : i \in DOMAIN batch_entries }

WriteKV == kv' = [c \in Cells |-> IF WrittenTo(c) = {} THEN kv[c] ELSE WrittenTo(c)]

\* What the block table of r leads to for the key at index k.
KeyAt(r, k) == kv[<<block_table[r][k \div BlockSize + 1], k % BlockSize>>]

\* Defect: the mask takes the query rows for the first positions of the sequence.
TorchMaskFromZero(q_len, kv_len, n) ==
  IF q_len = 1 THEN 0 .. kv_len - 1 ELSE {k \in 0 .. kv_len - 1 : k <= n}
\* The keys that the n-th of q_len queries attends to: is_causal for a fresh
\* prefill, no mask for a decode, a shifted mask for a later chunk.
TorchMask(q_len, kv_len, n) ==
  IF q_len = kv_len THEN 0 .. n
  ELSE IF q_len = 1 THEN 0 .. kv_len - 1
  ELSE {k \in 0 .. kv_len - 1 : k <= n + (kv_len - q_len)}

\* Defect: no causal cut-off for the query.
TritonMaskWholeSeq(q_len, kv_len, n) ==
  {k \in 0 .. CeilDiv(kv_len, BlockSize) * BlockSize - 1 : k < kv_len}
\* The kernel walks whole blocks and masks by sequence length and position.
TritonMask(q_len, kv_len, n) ==
  {k \in 0 .. CeilDiv(kv_len, BlockSize) * BlockSize - 1 :
     k < kv_len /\ k <= kv_len - q_len + n}

-----------------------------------------------------------------------------
KVInit == Init /\ kv = [c \in Cells |-> {}]

KVForward == Forward /\ WriteKV

KVNext ==
  \/ KVForward
  \/ pc # "forward" /\ Next /\ UNCHANGED kv

KVSpec == KVInit /\ [][KVNext]_kvVars

-----------------------------------------------------------------------------
(* Properties.                                                             *)

\* The keys that a query of the batch reads are those of its own request, at
\* every position up to its own, each the last one written there.
ReadsOwnPrefix(Mask(_, _, _)) ==
  pc = "update" =>
    \A i \in DOMAIN batch_entries :
      LET r == batch_entries[i].req
          q_len == batch_entries[i].q_len
      IN  \A n \in 0 .. q_len - 1 :
            LET pos == num_computed_tokens[r] + n
            IN  /\ Mask(q_len, SeqLen(i), n) = 0 .. pos
                /\ \A k \in 0 .. pos : KeyAt(r, k) = {<<r, k>>}

\* paged_attention_torch, in each of its three cases, attends to exactly the
\* request's own tokens up to the query, in whatever chunks they came.
TorchReadsOwnPrefix == ReadsOwnPrefix(TorchMask)

\* So does the Triton kernel: the two backends are interchangeable.
TritonReadsOwnPrefix == ReadsOwnPrefix(TritonMask)

\* Between iterations the cache holds every computed position of every running
\* request: no admission, growth or finish of another request overwrote it.
PrefixCached ==
  pc = "idle" =>
    \A r \in Range(running) :
      \A k \in 0 .. num_computed_tokens[r] - 1 : KeyAt(r, k) = {<<r, k>>}

\* The logits that are sampled for a request are those of its last token so
\* far, the end of its prompt or its last output, and of no other request.
SamplesLastToken ==
  pc = "forward" =>
    \A i \in DOMAIN batch_entries :
      batch_entries[i].samples =>
        RowOf(SampleRow(i)) =
          <<batch_entries[i].req, TotalTokens(batch_entries[i].req) - 1>>

=============================================================================
