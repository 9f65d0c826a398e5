--------------------------- MODULE PagedKVProofs ---------------------------
(***************************************************************************)
(* What a request has computed stays in the cells that its block table     *)
(* leads to, so both attention backends read the request's own prefix, and *)
(* the row that is sampled for it is the one of its last token.            *)
(***************************************************************************)
EXTENDS PagedKV, LifecycleProofs

-----------------------------------------------------------------------------
(* The inductive invariant.                                                *)

\* What is in the cache of r: the computed positions, and, between the forward
\* pass and the update, those of its entry in the batch.
Filled(r) == num_computed_tokens[r] + (IF pc = "update" THEN QueryLen(r) ELSE 0)

HasBlock(r, k) == k \div BlockSize + 1 \in DOMAIN block_table[r]

\* Until its blocks are freed, the table of a running request has a block for
\* every position that is computed.
ComputedHasBlocks ==
  \A r \in Range(running) :
    \/ pc = "free" /\ r \in Range(finished)
    \/ num_computed_tokens[r] <= Len(block_table[r]) * BlockSize

\* Every filled position that the table of a request leads to is there, that of
\* a request which left the batch without giving its blocks back included.
FilledIsCached ==
  \A r \in Requests : \A k \in 0 .. Filled(r) - 1 :
    HasBlock(r, k) => KeyAt(r, k) = {<<r, k>>}

KVInv == LifeInv /\ BlockOwnership /\ IdleHoldNothing /\ ComputedHasBlocks

-----------------------------------------------------------------------------
(* Positions, slots and cells.                                             *)

\* Each step of PagedKV is one of the scheduler.
LEMMA KVStepIsStep == [KVNext]_kvVars => [Next]_vars
BY DEF KVNext, kvVars, KVForward, Next, EngineThread

LEMMA DivMod ==
  ASSUME NEW a \in Nat, NEW b \in Nat \ {0}
  PROVE  /\ a \div b \in Nat /\ a % b \in 0 .. b - 1
         /\ a = (a \div b) * b + (a % b)
<1>1. a \div b \in Nat /\ a % b \in 0 .. b - 1 /\ a = b * (a \div b) + (a % b)
  OBVIOUS
<1> DEFINE q == a \div b
<1> HIDE DEF q
<1>2. b * q = q * b
  BY <1>1 DEF q
<1> QED BY <1>1, <1>2 DEF q

\* A slot leads back to its block and its offset.
LEMMA SlotSplits ==
  ASSUME NEW b \in Nat \ {0}, NEW c \in Nat, NEW o \in 0 .. b - 1
  PROVE  /\ (c * b + o) \div b = c
         /\ (c * b + o) % b = o
<1> DEFINE a == c * b + o
           q == a \div b
           m == a % b
<1>1. a \in Nat
  OBVIOUS
<1>2. q \in Nat /\ m \in 0 .. b - 1 /\ a = q * b + m
  BY <1>1, DivMod
<1>3. a = c * b + o
  OBVIOUS
<1> HIDE DEF a, q, m
<1>4. ASSUME q < c PROVE FALSE
  <2>1. (q + 1) * b <= c * b
    BY <1>2, <1>4
  <2>2. (q + 1) * b = q * b + b
    BY <1>2
  <2> QED BY <1>2, <1>3, <2>1, <2>2
<1>5. ASSUME c < q PROVE FALSE
  <2>1. (c + 1) * b <= q * b
    BY <1>2, <1>5
  <2>2. (c + 1) * b = c * b + b
    BY <1>2
  <2> QED BY <1>2, <1>3, <2>1, <2>2
<1>6. q = c
  BY <1>2, <1>4, <1>5
<1>7. m = o
  BY <1>2, <1>3, <1>6
<1> QED BY <1>6, <1>7 DEF a, q, m

\* The cell of a position, and that no other position of any request has it.
LEMMA OwnCell ==
  ASSUME TypeOK, NEW r \in Requests, NEW k \in Nat, HasBlock(r, k)
  PROVE  /\ CellOf(SlotOf(r, k)) = <<block_table[r][k \div BlockSize + 1], k % BlockSize>>
         /\ CellOf(SlotOf(r, k)) \in Cells
<1> DEFINE b == block_table[r][k \div BlockSize + 1]
<1>1. b \in Nat /\ b \in 0 .. NumBlocks - 1
  <2>1. block_table[r] \in Seq(Blocks)
    BY DEF TypeOK, BlockTypes
  <2>2. b \in Blocks
    BY <2>1 DEF HasBlock
  <2> QED BY <2>2, AllocatorAssumption DEF Blocks
<1>2. k % BlockSize \in 0 .. BlockSize - 1 /\ BlockSize \in Nat \ {0}
  BY SchedulerAssumption, DivMod
<1> HIDE DEF b
<1>3. /\ (b * BlockSize + (k % BlockSize)) \div BlockSize = b
      /\ (b * BlockSize + (k % BlockSize)) % BlockSize = k % BlockSize
  BY <1>1, <1>2, SlotSplits
<1>4. SlotOf(r, k) = b * BlockSize + (k % BlockSize)
  BY DEF SlotOf, b
<1>5. CellOf(SlotOf(r, k)) = <<b, k % BlockSize>>
  BY <1>3, <1>4 DEF CellOf
<1> QED BY <1>1, <1>2, <1>5 DEF Cells, Offsets, b

LEMMA CellsDiffer ==
  ASSUME TypeOK, BlockOwnership,
         NEW r \in Requests, NEW k \in Nat, HasBlock(r, k),
         NEW q \in Requests, NEW p \in Nat, HasBlock(q, p),
         CellOf(SlotOf(q, p)) = CellOf(SlotOf(r, k))
  PROVE  q = r /\ p = k
<1> DEFINE i == k \div BlockSize + 1
           j == p \div BlockSize + 1
<1>1. block_table[q][j] = block_table[r][i] /\ p % BlockSize = k % BlockSize
  BY OwnCell
<1>2. i \in DOMAIN block_table[r] /\ j \in DOMAIN block_table[q]
  BY DEF HasBlock
<1> HIDE DEF i, j
<1>3. block_table[r][i] \in Range(block_table[r]) /\ block_table[q][j] \in Range(block_table[q])
  BY <1>2 DEF Range
<1>4. q = r
  BY <1>1, <1>3 DEF BlockOwnership
<1>5. i = j
  <2>1. IsInjective(block_table[r])
    BY DEF BlockOwnership
  <2> QED BY <1>1, <1>2, <1>4, <2>1 DEF IsInjective
<1>6. BlockSize \in Nat \ {0}
  BY SchedulerAssumption
<1>7. p \div BlockSize = k \div BlockSize
  <2>1. p \div BlockSize \in Nat /\ k \div BlockSize \in Nat
    BY <1>6, DivMod
  <2> QED BY <1>5, <2>1 DEF i, j
<1>8. /\ p = (p \div BlockSize) * BlockSize + (p % BlockSize)
      /\ k = (k \div BlockSize) * BlockSize + (k % BlockSize)
  BY <1>6, DivMod
<1>9. p = k
  BY <1>1, <1>7, <1>8
<1> QED BY <1>4, <1>9

-----------------------------------------------------------------------------
(* A running request has blocks for what it has computed.                  *)

LEMMA ComputedHasBlocksNext ==
  LifeInv /\ ComputedHasBlocks /\ [Next]_vars => ComputedHasBlocks'
<1> SUFFICES ASSUME LifeInv, ComputedHasBlocks, [Next]_vars PROVE ComputedHasBlocks'
  OBVIOUS
<1>t. /\ TypeOK /\ QueueOrder /\ LifeCycle
      /\ BlockSize \in Nat \ {0}
      /\ num_computed_tokens \in [Requests -> Nat]
      /\ block_table \in [Requests -> Seq(Blocks)]
      /\ running \in Seq(Requests) /\ Range(running) \subseteq Requests
  BY SchedulerAssumption, RunningFacts DEF LifeInv, TypeOK, RequestTypes, BlockTypes
<1>f. ASSUME UNCHANGED <<num_computed_tokens, block_table>>,
             Range(running') \subseteq Range(running), pc # "free",
             pc' = "free" => finished' = finished
      PROVE  ComputedHasBlocks'
  BY <1>f DEF ComputedHasBlocks
<1>1. CASE Admit
  <2> DEFINE r == NextWaiting
  <2>1. /\ waiting # << >> /\ running' = Append(running, r) /\ pc # "free"
        /\ num_computed_tokens' = num_computed_tokens
        /\ block_table' = [block_table EXCEPT ![r] = Allocated(PromptBlocks(r))]
    BY <1>1 DEF Admit, MayAdmit
  <2>2. /\ r \in Requests /\ r \in Range(waiting) /\ r \notin Range(running)
        /\ Range(running') = Range(running) \cup {r}
    BY <2>1, <1>t, HeadFacts
  <2>3. num_computed_tokens[r] = 0
    BY <2>2, <1>t DEF LifeCycle, Untouched
  <2> HIDE DEF r
  <2>4. \A q \in Range(running) : block_table'[q] = block_table[q]
    BY <2>1, <2>2, <1>t
  <2>5. block_table'[r] \in Seq(Blocks)
    <3>1. block_table' \in [Requests -> Seq(Blocks)]
      BY <1>t, TypeNext DEF TypeOK, BlockTypes
    <3> QED BY <3>1, <2>2
  <2>6. 0 <= Len(block_table'[r]) * BlockSize
    BY <2>5, <1>t
  <2> QED BY <2>1, <2>2, <2>3, <2>4, <2>6 DEF ComputedHasBlocks
<1>2. CASE GrowTable
  <2> PICK r \in Requests : r = running[at]
    BY <1>2, <1>t, TurnFacts DEF GrowTable
  <2>1. /\ block_table' = [block_table EXCEPT ![r] = block_table[r] \o Allocated(1)]
        /\ UNCHANGED <<num_computed_tokens, running, pc>> /\ pc # "free"
    BY <1>2, <1>t DEF GrowTable, AtEntry, requestVars, queueVars
  <2>2. block_table' \in [Requests -> Seq(Blocks)]
    BY <1>t, TypeNext DEF TypeOK, BlockTypes
  <2>3. \A q \in Requests : Len(block_table[q]) * BlockSize <= Len(block_table'[q]) * BlockSize
    <3> SUFFICES ASSUME NEW q \in Requests
                 PROVE  Len(block_table[q]) * BlockSize <= Len(block_table'[q]) * BlockSize
      OBVIOUS
    <3>1. block_table[q] \in Seq(Blocks) /\ block_table'[q] \in Seq(Blocks)
      BY <2>2, <1>t
    <3>2. Len(block_table[q]) \in Nat /\ Len(block_table'[q]) \in Nat
      BY <3>1
    <3>3. Len(block_table[q]) <= Len(block_table'[q])
      <4>1. CASE q # r
        BY <4>1, <2>1, <3>2, <1>t
      <4>2. CASE q = r
        <5>1. Allocated(1) \in Seq(Blocks)
          BY <1>2, <1>t, AllocateType DEF GrowTable, TypeOK, BlockTypes
        <5>2. block_table'[r] = block_table[r] \o Allocated(1)
          BY <2>1, <1>t
        <5>3. Len(block_table'[r]) = Len(block_table[r]) + Len(Allocated(1))
          BY <5>1, <5>2, <3>1, <4>2, ConcatProperties
        <5>4. Len(Allocated(1)) \in Nat
          BY <5>1
        <5> QED BY <4>2, <5>3, <5>4, <3>2
      <4> QED BY <4>1, <4>2
    <3> QED BY <3>2, <3>3, <1>t, MoreBlocksHoldMore
  <2>4. ASSUME NEW q \in Range(running)
        PROVE  num_computed_tokens[q] <= Len(block_table'[q]) * BlockSize
    <3>1. /\ q \in Requests
          /\ num_computed_tokens[q] <= Len(block_table[q]) * BlockSize
      BY <2>1, <2>4, <1>t DEF ComputedHasBlocks
    <3>2. Len(block_table[q]) \in Nat /\ Len(block_table'[q]) \in Nat /\ num_computed_tokens[q] \in Nat
      <4>1. block_table[q] \in Seq(Blocks) /\ block_table'[q] \in Seq(Blocks)
        BY <3>1, <2>2, <1>t
      <4> QED BY <4>1, <3>1, <1>t
    <3>3. Len(block_table[q]) * BlockSize \in Nat /\ Len(block_table'[q]) * BlockSize \in Nat
      BY <3>2, <1>t
    <3>4. Len(block_table[q]) * BlockSize <= Len(block_table'[q]) * BlockSize
      BY <2>3, <3>1
    <3> QED BY <3>1, <3>2, <3>3, <3>4
  <2> QED BY <2>1, <2>4 DEF ComputedHasBlocks
<1>3. CASE AdvanceComputed
  <2>1. /\ pc = "update" /\ pc' = "sample" /\ UNCHANGED <<running, block_table>>
        /\ num_computed_tokens' = [r \in Requests |-> num_computed_tokens[r] + QueryLen(r)]
    BY <1>3 DEF AdvanceComputed, queueVars, blockVars
  <2>2. ASSUME NEW r \in Range(running)
        PROVE  num_computed_tokens[r] + QueryLen(r) <= Len(block_table[r]) * BlockSize
    <3>1. r \in Requests /\ num_computed_tokens[r] <= Len(block_table[r]) * BlockSize
      BY <2>1, <2>2, <1>t DEF ComputedHasBlocks
    <3>2. CASE r \notin Batched
      BY <3>1, <3>2, <1>t, QueryFacts DEF LifeCycle
    <3>3. ASSUME NEW i \in DOMAIN batch_entries, batch_entries[i].req = r
          PROVE  num_computed_tokens[r] + QueryLen(r) <= Len(block_table[r]) * BlockSize
      BY <2>1, <3>3, <1>t, QueryFacts DEF LifeCycle, EntriesLive, Fits
    <3> QED BY <3>2, <3>3, <1>t, EntryFacts
  <2>3. \A r \in Range(running) : num_computed_tokens'[r] = num_computed_tokens[r] + QueryLen(r)
    BY <2>1, <1>t
  <2> QED BY <2>1, <2>2, <2>3 DEF ComputedHasBlocks
<1>4. CASE FreeFinished
  <2> PICK r \in Requests : r = finished[at] /\ r \in Range(finished)
    <3>1. finished \in Seq(Requests) /\ at \in 1 .. Len(finished)
      BY <1>4, <1>t DEF FreeFinished, TypeOK, BatchTypes
    <3> QED BY <3>1, ElementOfSeq, RangeEquality
  <2>1. /\ pc = "free" /\ UNCHANGED <<pc, running, finished, num_computed_tokens>>
        /\ block_table' = [block_table EXCEPT ![r] = << >>]
    BY <1>4 DEF FreeFinished, ClearTable, requestVars, queueVars, localVars
  <2>2. \A q \in Range(running) : q # r => block_table'[q] = block_table[q]
    BY <2>1, <1>t
  <2> QED BY <2>1, <2>2 DEF ComputedHasBlocks
<1>5. CASE UpdateReturn
  <2>1. /\ running' = Without(running, Range(AllFinished)) /\ pc' = "idle"
        /\ UNCHANGED <<num_computed_tokens, block_table>>
    BY <1>5 DEF UpdateReturn, requestVars, blockVars
  <2>2. Range(running') = Range(running) \ Range(AllFinished)
    BY <2>1, <1>t, WithoutRange
  <2>3. Range(finished) \subseteq Range(AllFinished)
    BY RangeConcatenation DEF AllFinished, TypeOK, QueueTypes, BatchTypes, LifeInv
  <2> QED BY <2>1, <2>2, <2>3 DEF ComputedHasBlocks
<1>6. CASE EndEntries
  <2>1. /\ running' = StillRunning /\ pc # "free" /\ pc' # "free"
        /\ UNCHANGED <<num_computed_tokens, block_table>>
    BY <1>6 DEF EndEntries, requestVars, blockVars
  <2>2. Range(running') \subseteq Range(running)
    BY <2>1, <1>t, WithoutRange DEF StillRunning
  <2> QED BY <2>1, <2>2, <1>f
<1>7. CASE AddRequest \/ Sleep \/ StepBegin \/ PlanChunk \/ EndPlan \/ RejectTooLong
  BY <1>7, <1>f DEF AddRequest, Sleep, StepBegin, PlanChunk, EndPlan, RejectTooLong, vars,
     requestVars, queueVars, blockVars
<1>8. CASE SkipEntry \/ OutOfBlocks \/ EnterDecode \/ EnterPrefill
  BY <1>8, <1>f DEF SkipEntry, OutOfBlocks, EnterDecode, EnterPrefill, AtEntry,
     requestVars, queueVars, blockVars
<1>9. CASE EndAdmission \/ Forward \/ AppendSampled \/ SkipUnsampled \/ EndSample
  BY <1>9, <1>f DEF EndAdmission, Forward, AppendSampled, SkipUnsampled, EndSample,
     requestVars, queueVars, blockVars, localVars
<1>10. ASSUME NEW r \in Abortable, AbortRequest(r) PROVE ComputedHasBlocks'
  BY <1>10, <1>f DEF AbortRequest, AbortWaiting, AbortRunning, queueVars, blockVars
<1>11. CASE UNCHANGED vars
  BY <1>11 DEF ComputedHasBlocks, vars, requestVars, queueVars, blockVars, localVars
<1> QED
  BY <1>1, <1>2, <1>3, <1>4, <1>5, <1>6, <1>7, <1>8, <1>9, <1>10, <1>11
     DEF Next, EngineThread, StepTurn, UpdateTurn

-----------------------------------------------------------------------------
(* The forward pass writes the cells of its own positions and no others.   *)

\* A position of an entry that is about to be computed has a block.
LEMMA PositionsHaveBlocks ==
  ASSUME LifeInv, pc = "forward", NEW i \in DOMAIN batch_entries, NEW p \in Positions(i)
  PROVE  /\ p \in Nat /\ batch_entries[i].req \in Requests
         /\ HasBlock(batch_entries[i].req, p)
         /\ p >= num_computed_tokens[batch_entries[i].req]
         /\ p < num_computed_tokens[batch_entries[i].req] + batch_entries[i].q_len
<1> PICK r \in Requests : r = batch_entries[i].req
  BY EntryFacts DEF LifeInv
<1> DEFINE m == Len(block_table[r])
           slots == m * BlockSize
<1>1. /\ num_computed_tokens[r] \in Nat /\ batch_entries[i].q_len \in Nat /\ m \in Nat
      /\ DOMAIN block_table[r] = 1 .. m /\ BlockSize \in Nat \ {0}
  BY EntryFacts, SchedulerAssumption DEF LifeInv, TypeOK, RequestTypes, BlockTypes
<1>2. num_computed_tokens[r] + batch_entries[i].q_len <= slots
  BY DEF LifeInv, LifeCycle, EntriesLive, Fits
<1>3. slots \in Nat
  BY <1>1
<1>4. p \in num_computed_tokens[r] .. num_computed_tokens[r] + batch_entries[i].q_len - 1
  <2>1. Positions(i) = num_computed_tokens[r] .. num_computed_tokens[r] + batch_entries[i].q_len - 1
    BY <1>1 DEF Positions, SeqLen
  <2> QED BY <2>1
<1> HIDE DEF slots
<1>5. /\ p \in Nat /\ p < slots /\ p >= num_computed_tokens[r]
      /\ p < num_computed_tokens[r] + batch_entries[i].q_len
  BY <1>1, <1>2, <1>3, <1>4
<1> HIDE DEF m
<1>6. HasBlock(r, p)
  BY <1>1, <1>5, BlockOfPosition DEF HasBlock, slots
<1> QED BY <1>5, <1>6

\* What the pass leaves in the cell of a position: its own pair if the position
\* is computed now, and what was there otherwise.
LEMMA WritesOwnCell ==
  ASSUME LifeInv, BlockOwnership, pc = "forward", WriteKV,
         NEW r \in Requests, NEW k \in Nat, HasBlock(r, k)
  PROVE  LET c == CellOf(SlotOf(r, k))
             now == \E i \in DOMAIN batch_entries :
                      batch_entries[i].req = r /\ k \in Positions(i)
         IN  kv'[c] = IF now THEN {<<r, k>>} ELSE kv[c]
<1> DEFINE c == CellOf(SlotOf(r, k))
           now == \E i \in DOMAIN batch_entries :
                    batch_entries[i].req = r /\ k \in Positions(i)
<1>t. TypeOK
  BY DEF LifeInv
<1>1. c \in Cells
  BY <1>t, OwnCell
<1>2. ASSUME NEW i \in DOMAIN batch_entries, NEW p \in Positions(i),
             CellOf(SlotOf(batch_entries[i].req, p)) = c
      PROVE  batch_entries[i].req = r /\ p = k
  <2>1. p \in Nat /\ batch_entries[i].req \in Requests /\ HasBlock(batch_entries[i].req, p)
    BY PositionsHaveBlocks
  <2> QED BY <1>2, <1>t, <2>1, CellsDiffer
<1>3. WrittenTo(c) = IF now THEN {<<r, k>>} ELSE {}
  <2>1. ASSUME NEW x \in WrittenTo(c) PROVE now /\ x = <<r, k>>
    <3>1. PICK i \in DOMAIN batch_entries :
            x \in { <<batch_entries[i].req, pos>> :
              pos \in {p \in Positions(i) : CellOf(SlotOf(batch_entries[i].req, p)) = c} }
      BY <2>1 DEF WrittenTo
    <3>2. PICK p \in Positions(i) :
            /\ CellOf(SlotOf(batch_entries[i].req, p)) = c
            /\ x = <<batch_entries[i].req, p>>
      BY <3>1
    <3> HIDE DEF c
    <3>3. batch_entries[i].req = r /\ p = k
      BY <3>2, <1>2
    <3> QED BY <3>2, <3>3
  <2>2. ASSUME now PROVE <<r, k>> \in WrittenTo(c)
    <3>1. PICK i \in DOMAIN batch_entries : batch_entries[i].req = r /\ k \in Positions(i)
      BY <2>2
    <3>2. k \in {p \in Positions(i) : CellOf(SlotOf(batch_entries[i].req, p)) = c}
      BY <3>1
    <3> HIDE DEF c
    <3> QED BY <3>1, <3>2 DEF WrittenTo
  <2> HIDE DEF c, now
  <2> QED BY <2>1, <2>2
<1>4. kv'[c] = IF WrittenTo(c) = {} THEN kv[c] ELSE WrittenTo(c)
  BY <1>1 DEF WriteKV
<1> HIDE DEF c, now
<1>5. kv'[c] = IF now THEN {<<r, k>>} ELSE kv[c]
  BY <1>3, <1>4
<1> QED BY <1>5 DEF c, now

LEMMA ForwardCaches ==
  LifeInv /\ BlockOwnership /\ FilledIsCached /\ KVForward => FilledIsCached'
<1> SUFFICES ASSUME LifeInv, BlockOwnership, FilledIsCached, KVForward,
                    NEW r \in Requests, NEW k \in 0 .. Filled(r)' - 1, HasBlock(r, k)'
             PROVE  KeyAt(r, k)' = {<<r, k>>}
  BY DEF FilledIsCached
<1>1. /\ pc = "forward" /\ pc' = "update" /\ WriteKV
      /\ UNCHANGED <<num_computed_tokens, batch_entries, block_table>>
  BY DEF KVForward, Forward, requestVars, blockVars, localVars
<1>2. TypeOK /\ BatchShape /\ num_computed_tokens[r] \in Nat
  BY DEF LifeInv, LifeCycle, TypeOK, RequestTypes
<1>3. QueryLen(r)' = QueryLen(r) /\ QueryLen(r) \in Nat
  BY <1>1, <1>2, QueryLenType DEF QueryLen
<1>4. k \in Nat /\ k < num_computed_tokens[r] + QueryLen(r)
  BY <1>1, <1>2, <1>3 DEF Filled
<1>5. HasBlock(r, k)
  BY <1>1 DEF HasBlock
<1> DEFINE now == \E i \in DOMAIN batch_entries :
                    batch_entries[i].req = r /\ k \in Positions(i)
<1>6. KeyAt(r, k)' = kv'[CellOf(SlotOf(r, k))] /\ KeyAt(r, k) = kv[CellOf(SlotOf(r, k))]
  BY <1>1, <1>2, <1>4, <1>5, OwnCell DEF KeyAt
<1>7. kv'[CellOf(SlotOf(r, k))] = IF now THEN {<<r, k>>} ELSE kv[CellOf(SlotOf(r, k))]
  BY <1>1, <1>4, <1>5, WritesOwnCell
<1>8. CASE now
  <2> HIDE DEF now
  <2> QED BY <1>6, <1>7, <1>8
<1>9. CASE ~now
  <2>1. k < num_computed_tokens[r]
    <3>1. CASE r \notin Batched
      BY <3>1, <1>2, <1>4, QueryFacts
    <3>2. ASSUME NEW i \in DOMAIN batch_entries, batch_entries[i].req = r
          PROVE  k < num_computed_tokens[r]
      <4>1. k \notin Positions(i)
        BY <1>9, <3>2
      <4>2. QueryLen(r) = batch_entries[i].q_len
        BY <3>2, <1>2, QueryFacts
      <4>3. k \notin num_computed_tokens[r] .. num_computed_tokens[r] + QueryLen(r) - 1
        <5>1. Positions(i) = num_computed_tokens[r] .. num_computed_tokens[r] + QueryLen(r) - 1
          BY <3>2, <4>2, <1>2, <1>3 DEF Positions, SeqLen
        <5> QED BY <4>1, <5>1
      <4> QED BY <4>3, <1>2, <1>3, <1>4
    <3> QED BY <3>1, <3>2, <1>2, EntryFacts
  <2>2. k \in 0 .. Filled(r) - 1
    BY <1>1, <1>2, <1>4, <2>1 DEF Filled
  <2>3. KeyAt(r, k) = {<<r, k>>}
    BY <1>5, <2>2 DEF FilledIsCached
  <2> HIDE DEF now
  <2> QED BY <1>6, <1>7, <1>9, <2>3
<1> QED BY <1>8, <1>9

-----------------------------------------------------------------------------
(* The other steps leave the cache alone, and no table comes to lead to a  *)
(* filled position by another way.                                         *)

LEMMA FilledIsCachedNext ==
  KVInv /\ FilledIsCached /\ [KVNext]_kvVars => FilledIsCached'
<1> SUFFICES ASSUME KVInv, FilledIsCached, [KVNext]_kvVars PROVE FilledIsCached'
  OBVIOUS
<1>t. /\ LifeInv /\ TypeOK /\ QueueOrder /\ LifeCycle /\ BlockOwnership /\ IdleHoldNothing
      /\ BlockSize \in Nat \ {0}
      /\ num_computed_tokens \in [Requests -> Nat]
      /\ block_table \in [Requests -> Seq(Blocks)]
  BY SchedulerAssumption DEF KVInv, LifeInv, TypeOK, RequestTypes, BlockTypes
<1>f. ASSUME UNCHANGED <<kv, num_computed_tokens, block_table>>, pc # "update", pc' # "update"
      PROVE  FilledIsCached'
  <2>1. \A r \in Requests : Filled(r)' = Filled(r)
    BY <1>f DEF Filled
  <2> QED BY <2>1, <1>f DEF FilledIsCached, HasBlock, KeyAt
<1>1. CASE KVForward
  BY <1>1, <1>t, ForwardCaches
<1>2. CASE Admit /\ UNCHANGED kv
  <2> PICK r \in Requests : r = NextWaiting /\ num_computed_tokens[r] = 0
    <3>1. NextWaiting \in Requests /\ NextWaiting \in Range(waiting)
      BY <1>2, <1>t, HeadFacts DEF Admit, MayAdmit
    <3> QED BY <3>1, <1>t DEF LifeCycle, Untouched
  <2>1. /\ block_table' = [block_table EXCEPT ![r] = Allocated(PromptBlocks(r))]
        /\ UNCHANGED <<kv, num_computed_tokens, pc>> /\ pc = "admit"
    BY <1>2 DEF Admit
  <2>2. \A q \in Requests : Filled(q)' = Filled(q) /\ Filled(q) = num_computed_tokens[q]
    BY <2>1, <1>t DEF Filled
  <2>3. \A q \in Requests : q # r => block_table'[q] = block_table[q]
    BY <2>1, <1>t
  <2>4. 0 .. Filled(r) - 1 = {}
    BY <2>2
  <2> QED BY <2>1, <2>2, <2>3, <2>4 DEF FilledIsCached, HasBlock, KeyAt
<1>3. CASE GrowTable /\ UNCHANGED kv
  <2> PICK r \in Requests : r = running[at] /\ r \in Range(running)
    BY <1>3, <1>t, TurnFacts DEF GrowTable
  <2>1. /\ block_table' = [block_table EXCEPT ![r] = block_table[r] \o Allocated(1)]
        /\ UNCHANGED <<kv, num_computed_tokens, pc>> /\ pc = "entries"
        /\ CanAllocate(1) /\ TakeBlocks(1)
    BY <1>3 DEF GrowTable, AtEntry, requestVars
  <2>2. \A q \in Requests : Filled(q)' = Filled(q) /\ Filled(q) = num_computed_tokens[q]
    BY <2>1, <1>t DEF Filled
  <2>3. ASSUME NEW k \in 0 .. Filled(r) - 1
        PROVE  /\ HasBlock(r, k)
               /\ block_table'[r][k \div BlockSize + 1] = block_table[r][k \div BlockSize + 1]
    <3> DEFINE m == Len(block_table[r])
               slots == m * BlockSize
    <3>1. m \in Nat /\ DOMAIN block_table[r] = 1 .. m /\ block_table[r] \in Seq(Blocks)
      BY <1>t
    <3>2. num_computed_tokens[r] <= slots
      BY <2>1 DEF KVInv, ComputedHasBlocks
    <3>3. slots \in Nat /\ num_computed_tokens[r] \in Nat
      BY <3>1, <1>t
    <3> HIDE DEF slots
    <3>4. k \in Nat /\ k < slots
      BY <2>2, <2>3, <3>2, <3>3
    <3> HIDE DEF m
    <3>5. k \div BlockSize + 1 \in 1 .. m
      BY <3>1, <3>4, <1>t, BlockOfPosition DEF slots
    <3>6. block_table'[r] = block_table[r] \o Allocated(1)
      BY <2>1, <1>t
    <3>7. Allocated(1) \in Seq(Blocks)
      BY <2>1, <1>t, AllocateType DEF TypeOK, BlockTypes
    <3>8. \A i \in 1 .. m : (block_table[r] \o Allocated(1))[i] = block_table[r][i]
      <4>1. /\ Len(block_table[r] \o Allocated(1)) = m + Len(Allocated(1))
            /\ \A i \in 1 .. m + Len(Allocated(1)) : (block_table[r] \o Allocated(1))[i] =
                 IF i <= m THEN block_table[r][i] ELSE Allocated(1)[i - m]
        BY <3>1, <3>7, ConcatProperties DEF m
      <4>2. Len(Allocated(1)) \in Nat
        BY <3>7
      <4> QED BY <3>1, <4>1, <4>2
    <3> QED BY <3>1, <3>5, <3>6, <3>8 DEF HasBlock
  <2>4. \A q \in Requests : q # r => block_table'[q] = block_table[q]
    BY <2>1, <1>t
  <2>5. ASSUME NEW q \in Requests, NEW k \in 0 .. Filled(q)' - 1, HasBlock(q, k)'
        PROVE  KeyAt(q, k)' = {<<q, k>>}
    <3>1. k \in 0 .. Filled(q) - 1
      BY <2>2, <2>5
    <3>2. CASE q = r
      <4>1. HasBlock(r, k) /\ KeyAt(r, k)' = KeyAt(r, k)
        BY <2>1, <2>3, <3>1, <3>2 DEF KeyAt
      <4> QED BY <3>1, <3>2, <4>1 DEF FilledIsCached
    <3>3. CASE q # r
      BY <2>1, <2>4, <2>5, <3>1, <3>3 DEF FilledIsCached, HasBlock, KeyAt
    <3> QED BY <3>2, <3>3
  <2> QED BY <2>5 DEF FilledIsCached
<1>4. CASE FreeFinished /\ UNCHANGED kv
  <2> PICK r : r = finished[at]
    OBVIOUS
  <2>1. /\ block_table' = [block_table EXCEPT ![r] = << >>]
        /\ UNCHANGED <<kv, num_computed_tokens, pc>> /\ pc = "free"
    BY <1>4 DEF FreeFinished, ClearTable, requestVars
  <2>2. \A q \in Requests : Filled(q)' = Filled(q)
    BY <2>1 DEF Filled
  <2>3. \A q \in Requests : q # r => block_table'[q] = block_table[q]
    BY <2>1, <1>t
  <2>4. \A q \in Requests : q = r => DOMAIN block_table'[q] = {}
    BY <2>1, <1>t
  <2> QED BY <2>1, <2>2, <2>3, <2>4 DEF FilledIsCached, HasBlock, KeyAt
<1>5. CASE AdvanceComputed /\ UNCHANGED kv
  <2>1. /\ pc = "update" /\ pc' = "sample" /\ UNCHANGED <<kv, block_table>>
        /\ num_computed_tokens' = [r \in Requests |-> num_computed_tokens[r] + QueryLen(r)]
    BY <1>5 DEF AdvanceComputed, blockVars
  <2>2. \A r \in Requests : Filled(r)' = Filled(r)
    <3> SUFFICES ASSUME NEW r \in Requests PROVE Filled(r)' = Filled(r)
      OBVIOUS
    <3>1. num_computed_tokens'[r] = num_computed_tokens[r] + QueryLen(r)
      BY <2>1
    <3>2. num_computed_tokens[r] \in Nat /\ QueryLen(r) \in Nat
      BY <1>t, QueryLenType
    <3> QED BY <2>1, <3>1, <3>2 DEF Filled
  <2> QED BY <2>1, <2>2 DEF FilledIsCached, HasBlock, KeyAt
<1>6. CASE (AddRequest \/ Sleep \/ StepBegin \/ PlanChunk \/ EndPlan \/ RejectTooLong) /\ UNCHANGED kv
  BY <1>6, <1>f DEF AddRequest, Sleep, StepBegin, PlanChunk, EndPlan, RejectTooLong, vars,
     requestVars, blockVars
<1>7. CASE (SkipEntry \/ OutOfBlocks \/ EnterDecode \/ EnterPrefill \/ EndEntries) /\ UNCHANGED kv
  BY <1>7, <1>f DEF SkipEntry, OutOfBlocks, EnterDecode, EnterPrefill, EndEntries, AtEntry,
     requestVars, blockVars
<1>8. CASE (EndAdmission \/ AppendSampled \/ SkipUnsampled \/ EndSample \/ UpdateReturn) /\ UNCHANGED kv
  BY <1>8, <1>f DEF EndAdmission, AppendSampled, SkipUnsampled, EndSample, UpdateReturn,
     requestVars, blockVars
<1>9. ASSUME NEW r \in Abortable, AbortRequest(r), UNCHANGED kv PROVE FilledIsCached'
  BY <1>9, <1>f DEF AbortRequest, AbortWaiting, AbortRunning, blockVars
<1>10. CASE UNCHANGED kvVars
  <2>1. UNCHANGED <<kv, num_computed_tokens, block_table, pc, batch_entries>>
    BY <1>10 DEF kvVars, vars, requestVars, blockVars, localVars
  <2>2. \A r \in Requests : Filled(r)' = Filled(r)
    BY <2>1 DEF Filled, QueryLen
  <2> QED BY <2>1, <2>2 DEF FilledIsCached, HasBlock, KeyAt
<1>11. Forward => pc = "forward"
  BY DEF Forward
<1> QED
  BY <1>1, <1>2, <1>3, <1>4, <1>5, <1>6, <1>7, <1>8, <1>9, <1>10, <1>11
     DEF KVNext, Next, EngineThread, StepTurn, UpdateTurn

LEMMA KVInitCorrect == KVInit => KVInv /\ FilledIsCached
<1> SUFFICES ASSUME KVInit PROVE KVInv /\ FilledIsCached
  OBVIOUS
<1>1. Init
  BY DEF KVInit
<1>2. LifeInv /\ BlockOwnership /\ IdleHoldNothing
  BY <1>1, TypeInit, QueueOrderInit, LifeInit, OwnershipInit DEF LifeInv
<1>3. ComputedHasBlocks
  BY <1>1, EmptySeq DEF Init, ComputedHasBlocks, Range
<1>4. \A r \in Requests : 0 .. Filled(r) - 1 = {}
  BY <1>1 DEF Init, Filled
<1> QED BY <1>2, <1>3, <1>4 DEF KVInv, FilledIsCached

LEMMA KVInvNext == KVInv /\ [Next]_vars => KVInv'
<1>1. KVInv /\ [Next]_vars => TypeOK /\ QueueOrder
  BY DEF KVInv, LifeInv
<1> QED BY <1>1, LifeNext, BlockSteps, OwnershipNext, ComputedHasBlocksNext DEF KVInv

LEMMA KVCorrect == KVSpec => [](KVInv /\ FilledIsCached)
BY KVInitCorrect, KVStepIsStep, KVInvNext, FilledIsCachedNext, PTL DEF KVSpec

-----------------------------------------------------------------------------
(* What the attention backends read.                                       *)

\* A position of the sequence of an entry, up to the entry's end, is in its
\* cell once the forward pass is over.
LEMMA PrefixIsThere ==
  ASSUME KVInv, FilledIsCached, pc = "update", NEW i \in DOMAIN batch_entries,
         NEW k \in Nat, k < SeqLen(i)
  PROVE  KeyAt(batch_entries[i].req, k) = {<<batch_entries[i].req, k>>}
<1> PICK r \in Requests : r = batch_entries[i].req
  BY EntryFacts DEF KVInv, LifeInv
<1> DEFINE m == Len(block_table[r])
           slots == m * BlockSize
<1>1. /\ num_computed_tokens[r] \in Nat /\ batch_entries[i].q_len \in Nat /\ m \in Nat
      /\ DOMAIN block_table[r] = 1 .. m /\ BlockSize \in Nat \ {0}
  BY EntryFacts, SchedulerAssumption DEF KVInv, LifeInv, TypeOK, RequestTypes, BlockTypes
<1>2. num_computed_tokens[r] + batch_entries[i].q_len <= slots
  BY DEF KVInv, LifeInv, LifeCycle, EntriesLive, Fits
<1>3. QueryLen(r) = batch_entries[i].q_len
  BY QueryFacts DEF KVInv, LifeInv, LifeCycle
<1>4. k < num_computed_tokens[r] + batch_entries[i].q_len
  BY DEF SeqLen
<1>5. slots \in Nat
  BY <1>1
<1> HIDE DEF slots
<1>6. k < slots /\ k \in 0 .. Filled(r) - 1
  BY <1>1, <1>2, <1>3, <1>4, <1>5 DEF Filled
<1> HIDE DEF m
<1>7. HasBlock(r, k)
  BY <1>1, <1>6, BlockOfPosition DEF HasBlock, slots
<1> QED BY <1>6, <1>7 DEF FilledIsCached

\* Either mask of a query is exactly the positions up to its own.
LEMMA MasksAreCausal ==
  ASSUME NEW done \in Nat, NEW q_len \in Nat, NEW n \in 0 .. q_len - 1
  PROVE  /\ TorchMask(q_len, done + q_len, n) = 0 .. done + n
         /\ TritonMask(q_len, done + q_len, n) = 0 .. done + n
<1> DEFINE kv_len == done + q_len
           slots == CeilDiv(kv_len, BlockSize) * BlockSize
<1>1. kv_len \in Nat /\ done + n < kv_len /\ kv_len - q_len = done /\ kv_len - q_len + n = done + n
  OBVIOUS
<1>2. slots \in Nat /\ kv_len <= slots
  <2>1. BlockSize \in Nat \ {0}
    BY SchedulerAssumption
  <2>2. CeilDiv(kv_len, BlockSize) \in Nat
    BY <1>1, <2>1, CeilDivType
  <2> HIDE DEF kv_len
  <2> QED BY <1>1, <2>1, <2>2, CeilCovers
<1>3. TorchMask(q_len, kv_len, n) = 0 .. done + n
  <2>1. CASE q_len = kv_len
    BY <2>1 DEF TorchMask
  <2>2. CASE q_len # kv_len /\ q_len = 1
    BY <2>2 DEF TorchMask
  <2>3. CASE q_len # kv_len /\ q_len # 1
    <3> HIDE DEF kv_len
    <3>1. TorchMask(q_len, kv_len, n) = {k \in 0 .. kv_len - 1 : k <= n + (kv_len - q_len)}
      BY <2>3 DEF TorchMask
    <3>2. {k \in 0 .. kv_len - 1 : k <= n + (kv_len - q_len)} = 0 .. done + n
      BY <1>1
    <3> QED BY <3>1, <3>2
  <2> QED BY <2>1, <2>2, <2>3
<1>4. TritonMask(q_len, kv_len, n) = 0 .. done + n
  <2>1. TritonMask(q_len, kv_len, n) =
          {k \in 0 .. slots - 1 : k < kv_len /\ k <= kv_len - q_len + n}
    BY DEF TritonMask
  <2> HIDE DEF kv_len, slots
  <2>2. {k \in 0 .. slots - 1 : k < kv_len /\ k <= kv_len - q_len + n} = 0 .. done + n
    BY <1>1, <1>2
  <2> QED BY <2>1, <2>2
<1> QED BY <1>3, <1>4

LEMMA QueriesReadPrefix ==
  ASSUME KVInv, FilledIsCached, pc = "update", NEW i \in DOMAIN batch_entries,
         NEW r \in Requests, r = batch_entries[i].req,
         NEW n \in 0 .. batch_entries[i].q_len - 1
  PROVE  /\ TorchMask(batch_entries[i].q_len, SeqLen(i), n) = 0 .. num_computed_tokens[r] + n
         /\ TritonMask(batch_entries[i].q_len, SeqLen(i), n) = 0 .. num_computed_tokens[r] + n
         /\ \A k \in 0 .. num_computed_tokens[r] + n : KeyAt(r, k) = {<<r, k>>}
<1>1. /\ num_computed_tokens[r] \in Nat /\ batch_entries[i].q_len \in Nat
      /\ SeqLen(i) = num_computed_tokens[r] + batch_entries[i].q_len
  BY EntryFacts DEF KVInv, LifeInv, TypeOK, RequestTypes, SeqLen
<1>2. \A k \in 0 .. num_computed_tokens[r] + n : k \in Nat /\ k < SeqLen(i)
  BY <1>1
<1>3. \A k \in 0 .. num_computed_tokens[r] + n : KeyAt(r, k) = {<<r, k>>}
  BY <1>2, PrefixIsThere
<1>4. ASSUME NEW done \in Nat, NEW q_len \in Nat, n \in 0 .. q_len - 1
      PROVE  /\ TorchMask(q_len, done + q_len, n) = 0 .. done + n
             /\ TritonMask(q_len, done + q_len, n) = 0 .. done + n
  BY <1>4, MasksAreCausal
<1>5. /\ TorchMask(batch_entries[i].q_len, SeqLen(i), n) = 0 .. num_computed_tokens[r] + n
      /\ TritonMask(batch_entries[i].q_len, SeqLen(i), n) = 0 .. num_computed_tokens[r] + n
  <2> HIDE DEF TorchMask, TritonMask
  <2> QED BY <1>1, <1>4
<1> QED BY <1>3, <1>5

\* paged_attention_torch, with whichever of its three masks a batch calls for,
\* attends to the request's own tokens up to the query, each as last written.
THEOREM TorchIsCausal == KVSpec => []TorchReadsOwnPrefix
<1>1. KVInv /\ FilledIsCached => TorchReadsOwnPrefix
  BY QueriesReadPrefix, EntryFacts DEF KVInv, LifeInv, TorchReadsOwnPrefix, ReadsOwnPrefix
<1> QED BY <1>1, KVCorrect, PTL

\* So does the Triton kernel, which walks the block table block by block.
THEOREM TritonIsCausal == KVSpec => []TritonReadsOwnPrefix
<1>1. KVInv /\ FilledIsCached => TritonReadsOwnPrefix
  BY QueriesReadPrefix, EntryFacts DEF KVInv, LifeInv, TritonReadsOwnPrefix, ReadsOwnPrefix
<1> QED BY <1>1, KVCorrect, PTL

\* Between iterations every computed position of every running request is in
\* the cache, whoever was admitted, grew or left in the meantime.
THEOREM PrefixStaysCached == KVSpec => []PrefixCached
<1>1. KVInv /\ FilledIsCached => PrefixCached
  <2> SUFFICES ASSUME KVInv, FilledIsCached, pc = "idle",
                      NEW r \in Range(running), NEW k \in 0 .. num_computed_tokens[r] - 1
               PROVE  KeyAt(r, k) = {<<r, k>>}
    BY DEF PrefixCached
  <2> DEFINE m == Len(block_table[r])
             slots == m * BlockSize
  <2>1. r \in Requests
    BY RunningFacts DEF KVInv, LifeInv
  <2>2. /\ num_computed_tokens[r] \in Nat /\ m \in Nat /\ DOMAIN block_table[r] = 1 .. m
        /\ BlockSize \in Nat \ {0}
    BY <2>1, SchedulerAssumption DEF KVInv, LifeInv, TypeOK, RequestTypes, BlockTypes
  <2>3. num_computed_tokens[r] <= slots
    BY DEF KVInv, ComputedHasBlocks
  <2>4. slots \in Nat
    BY <2>2
  <2> HIDE DEF slots
  <2>5. k \in Nat /\ k < slots /\ k \in 0 .. Filled(r) - 1
    BY <2>2, <2>3, <2>4 DEF Filled
  <2> HIDE DEF m
  <2>6. HasBlock(r, k)
    BY <2>2, <2>5, BlockOfPosition DEF HasBlock, slots
  <2> QED BY <2>1, <2>5, <2>6 DEF FilledIsCached
<1> QED BY <1>1, KVCorrect, PTL

-----------------------------------------------------------------------------
(* The row that is sampled.                                                *)

\* The rows of an entry end where those of the next one begin.
LEMMA StartsMeet ==
  ASSUME TypeOK, NEW i \in DOMAIN batch_entries
  PROVE  /\ QueryStart(i) \in Nat
         /\ QueryStart(i + 1) = QueryStart(i) + batch_entries[i].q_len
<1> DEFINE f == [j \in DOMAIN batch_entries |-> batch_entries[j].q_len]
<1>1. /\ i \in Nat \ {0} /\ i \in 1 .. Len(batch_entries) /\ Len(batch_entries) \in Nat
      /\ DOMAIN batch_entries = 1 .. Len(batch_entries)
  BY EntryFacts
<1>2. \A j \in DOMAIN batch_entries : f[j] \in Nat /\ f[j] = batch_entries[j].q_len
  BY EntryFacts
<1>3. QueryStart(i) = SumFunctionOnSet(f, 1 .. i - 1)
  BY DEF QueryStart
<1>4. QueryStart(i + 1) = SumFunctionOnSet(f, 1 .. i)
  <2>1. 1 .. (i + 1) - 1 = 1 .. i
    BY <1>1
  <2> QED BY <2>1 DEF QueryStart
<1> HIDE DEF f
<1>5. /\ IsFiniteSet(1 .. i - 1) /\ i \notin 1 .. i - 1
      /\ 1 .. i = (1 .. i - 1) \cup {i}
      /\ 1 .. i \subseteq DOMAIN batch_entries
  <2>1. IsFiniteSet(1 .. i - 1)
    BY <1>1, FS_Interval
  <2> QED BY <1>1, <2>1
<1>6. \A x \in 1 .. i : f[x] \in Nat
  BY <1>2, <1>5
<1> DEFINE before == 1 .. i - 1
           upto == 1 .. i
<1>7. IsFiniteSet(before) /\ i \notin before /\ upto = before \cup {i}
  BY <1>5
<1>8. \A x \in upto : f[x] \in Nat
  BY <1>6
<1> HIDE DEF before, upto
<1>9. /\ SumFunctionOnSet(f, before) \in Nat
      /\ SumFunctionOnSet(f, upto) = SumFunctionOnSet(f, before) + f[i]
  BY <1>7, <1>8, SumOneMore
<1> QED BY <1>2, <1>3, <1>4, <1>9 DEF before, upto

LEMMA StartsAscend ==
  ASSUME TypeOK, NEW i \in DOMAIN batch_entries, NEW j \in DOMAIN batch_entries, i < j
  PROVE  QueryStart(i) + batch_entries[i].q_len <= QueryStart(j)
<1> DEFINE Bad == {n \in Nat : /\ n \in DOMAIN batch_entries /\ i < n
                               /\ ~(QueryStart(i) + batch_entries[i].q_len <= QueryStart(n))}
<1>1. Bad = {}
  <2> SUFFICES ASSUME Bad # {} PROVE FALSE
    OBVIOUS
  <2>1. PICK n \in Bad : \A k \in Bad : n <= k
    <3>1. Bad \in SUBSET Nat
      OBVIOUS
    <3> HIDE DEF Bad
    <3> QED BY <3>1, LeastNat
  <2>2. /\ n \in Nat /\ n \in DOMAIN batch_entries /\ i < n /\ i \in Nat \ {0}
        /\ DOMAIN batch_entries = 1 .. Len(batch_entries) /\ Len(batch_entries) \in Nat
        /\ ~(QueryStart(i) + batch_entries[i].q_len <= QueryStart(n))
    BY <2>1, EntryFacts
  <2> DEFINE m == n - 1
  <2>3. m \in Nat /\ m \in DOMAIN batch_entries /\ n = m + 1 /\ i <= m /\ ~(n <= m)
    BY <2>2
  <2>4. m \notin Bad
    <3> HIDE DEF Bad
    <3> QED BY <2>1, <2>3
  <2> HIDE DEF m
  <2>5. /\ QueryStart(i) \in Nat /\ QueryStart(m) \in Nat
        /\ QueryStart(n) = QueryStart(m) + batch_entries[m].q_len
        /\ batch_entries[i].q_len \in Nat /\ batch_entries[m].q_len \in Nat
    BY <2>3, StartsMeet, EntryFacts
  <2>6. CASE i = m
    BY <2>2, <2>5, <2>6
  <2>7. CASE i < m
    <3>1. QueryStart(i) + batch_entries[i].q_len <= QueryStart(m)
      BY <2>3, <2>4, <2>7
    <3>2. ~(QueryStart(i) + batch_entries[i].q_len <= QueryStart(n))
      BY <2>2
    <3> QED BY <2>5, <3>1, <3>2
  <2> QED BY <2>2, <2>3, <2>6, <2>7
<1>2. j \in Nat
  BY EntryFacts
<1> QED BY <1>1, <1>2

\* The last row of an entry belongs to that entry and no other.
LEMMA RowsAreOwned ==
  ASSUME TypeOK, NEW i \in DOMAIN batch_entries
  PROVE  RowOf(SampleRow(i)) =
           <<batch_entries[i].req,
             num_computed_tokens[batch_entries[i].req] + (batch_entries[i].q_len - 1)>>
<1> DEFINE row == SampleRow(i)
           Has(k) == QueryStart(k) <= row /\ row < QueryStart(k) + batch_entries[k].q_len
           j == CHOOSE k \in DOMAIN batch_entries : Has(k)
<1>1. \A k \in DOMAIN batch_entries :
        k \in Nat /\ QueryStart(k) \in Nat /\ batch_entries[k].q_len \in Nat \ {0}
  BY StartsMeet, EntryFacts
<1>2. row = QueryStart(i) + (batch_entries[i].q_len - 1)
  BY <1>1 DEF SampleRow
<1>3. row \in Nat /\ Has(i) /\ row - QueryStart(i) = batch_entries[i].q_len - 1
  BY <1>1, <1>2
<1>4. ASSUME NEW k \in DOMAIN batch_entries, Has(k) PROVE k = i
  <2>1. ~(k < i)
    <3> SUFFICES ASSUME k < i PROVE FALSE
      OBVIOUS
    <3>1. QueryStart(k) + batch_entries[k].q_len <= QueryStart(i)
      BY StartsAscend
    <3> HIDE DEF row
    <3> QED BY <1>1, <1>3, <1>4, <3>1
  <2>2. ~(i < k)
    <3> SUFFICES ASSUME i < k PROVE FALSE
      OBVIOUS
    <3>1. QueryStart(i) + batch_entries[i].q_len <= QueryStart(k)
      BY StartsAscend
    <3> HIDE DEF row
    <3> QED BY <1>1, <1>3, <1>4, <3>1
  <2> QED BY <1>1, <2>1, <2>2
<1>5. j \in DOMAIN batch_entries /\ Has(j)
  <2> HIDE DEF Has
  <2> QED BY <1>3
<1>6. j = i
  BY <1>4, <1>5
<1>7. RowOf(row) = <<batch_entries[j].req,
                     num_computed_tokens[batch_entries[j].req] + (row - QueryStart(j))>>
  BY DEF RowOf
<1> QED BY <1>3, <1>6, <1>7

\* The logits that are sampled for a request are those of its last token: the
\* end of its prompt, or its last output, at the position it stands at.
THEOREM LastTokenIsSampled == KVSpec => []SamplesLastToken
<1>1. LifeInv => SamplesLastToken
  <2> SUFFICES ASSUME LifeInv, pc = "forward", NEW i \in DOMAIN batch_entries,
                      batch_entries[i].samples
               PROVE  RowOf(SampleRow(i)) =
                        <<batch_entries[i].req, TotalTokens(batch_entries[i].req) - 1>>
    BY DEF SamplesLastToken
  <2> PICK r \in Requests : r = batch_entries[i].req
    BY EntryFacts DEF LifeInv
  <2> DEFINE q == batch_entries[i].q_len
  <2>1. /\ num_computed_tokens[r] \in Nat /\ num_output_tokens[r] \in Nat
        /\ NumPromptTokens(r) \in Nat /\ q \in Nat /\ r \in Range(running)
    <3>1. TypeOK /\ BatchShape
      BY DEF LifeInv, LifeCycle
    <3> QED BY <3>1, EntryFacts, ParamsType DEF TypeOK, RequestTypes, BatchShape
  <2>2. num_computed_tokens[r] + (q - 1) = TotalTokens(r) - 1
    <3>1. InStep(r)
      BY <2>1 DEF LifeInv, LifeCycle, TokensInStep
    <3>2. Fits(i)
      BY DEF LifeInv, LifeCycle, EntriesLive
    <3>3. CASE IsPromptDone(r)
      <4>1. q = 1 /\ num_computed_tokens[r] = TotalTokens(r) - 1
        BY <3>1, <3>2, <3>3 DEF Fits, InStep
      <4> HIDE DEF q
      <4> QED BY <2>1, <4>1
    <3>4. CASE ~IsPromptDone(r)
      <4>1. /\ num_computed_tokens[r] + q <= NumPromptTokens(r)
            /\ num_computed_tokens[r] + q >= NumPromptTokens(r)
            /\ num_output_tokens[r] = 0
        BY <3>1, <3>2, <3>4 DEF Fits, InStep
      <4> HIDE DEF q
      <4> QED BY <2>1, <4>1 DEF TotalTokens
    <3> QED BY <3>3, <3>4
  <2> QED BY <2>2, RowsAreOwned DEF LifeInv
<1>2. KVInv => LifeInv
  BY DEF KVInv
<1> QED BY <1>1, <1>2, KVCorrect, PTL

=============================================================================
