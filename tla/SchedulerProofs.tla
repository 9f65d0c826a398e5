-------------------------- MODULE SchedulerProofs --------------------------
(***************************************************************************)
(* Theorems about the scheduler, for every value of its constants: types,  *)
(* service in the order of arrival, and the one place that each block of   *)
(* the cache has, on the free list or in one table, which makes the list   *)
(* and the tables an implementation of BlockPool.                          *)
(***************************************************************************)
EXTENDS Scheduler, DataProofs, FiniteSetTheorems, TLAPS

-----------------------------------------------------------------------------
(* The helpers.                                                            *)

LEMMA LeastType ==
  ASSUME NEW a \in Nat, NEW b \in Nat
  PROVE  Least(a, b) \in Nat /\ Least(a, b) <= a /\ Least(a, b) <= b
BY DEF Least

LEMMA CeilDivType ==
  ASSUME NEW a \in Nat, NEW b \in Nat \ {0}
  PROVE  CeilDiv(a, b) \in Nat
BY DEF CeilDiv

LEMMA ParamsType ==
  ASSUME TypeOK, NEW r \in Requests
  PROVE  /\ NumPromptTokens(r) \in Nat
         /\ params[r].max_tokens \in Int
         /\ params[r].ignore_eos \in BOOLEAN
         /\ params[r].stop_token_ids \subseteq Tokens
<1>1. params[r] \in ParamType
  BY SchedulerAssumption DEF TypeOK, RequestTypes
<1> QED BY <1>1 DEF ParamType, NumPromptTokens

\* The lengths that step() computes are natural numbers, and no chunk exceeds
\* what is left of the budget.
LEMMA ChunkType ==
  ASSUME TypeOK, NEW r \in Requests
  PROVE  /\ PlannedChunk(r) \in Nat /\ PlannedChunk(r) <= token_budget
         /\ FirstChunk(r) \in Nat /\ FirstChunk(r) <= token_budget
         /\ PromptBlocks(r) \in Nat /\ PromptBlocks(r) > 0
<1>1. /\ NumPromptTokens(r) \in Nat /\ num_computed_tokens[r] \in Nat
      /\ token_budget \in Nat /\ ChunkedPrefillSize \in Nat /\ BlockSize \in Nat \ {0}
  BY ParamsType, SchedulerAssumption DEF TypeOK, RequestTypes, BatchTypes
<1>2. PromptTokensRemaining(r) \in Nat
  BY <1>1 DEF PromptTokensRemaining, Greatest
<1>3. PlannedChunk(r) \in Nat /\ PlannedChunk(r) <= token_budget
  BY <1>1, <1>2 DEF PlannedChunk, Least
<1>4. FirstChunk(r) \in Nat /\ FirstChunk(r) <= token_budget
  BY <1>1 DEF FirstChunk, Least
<1>5. CeilDiv(NumPromptTokens(r), BlockSize) \in Nat
  BY <1>1, CeilDivType
<1>6. PromptBlocks(r) \in Nat /\ PromptBlocks(r) > 0
  BY <1>5 DEF PromptBlocks, Greatest
<1> QED BY <1>3, <1>4, <1>6

\* allocate(n) hands out n blocks of the pool, the head of the free list.
LEMMA AllocateType ==
  ASSUME free \in Seq(Blocks), NEW n \in Nat, CanAllocate(n), TakeBlocks(n)
  PROVE  /\ Allocated(n) \in Seq(Blocks)
         /\ free' \in Seq(Blocks)
         /\ free = Allocated(n) \o free'
<1>1. Len(free) \in Nat /\ n \in 0 .. Len(free)
  BY DEF CanAllocate
<1>2. \A i \in 1 .. n : free[i] \in Blocks
  BY <1>1
<1>3. \A i \in n + 1 .. Len(free) : free[i] \in Blocks
  BY <1>1
<1>4. Allocated(n) \in Seq(Blocks)
  BY <1>1, <1>2, SubSeqProperties DEF Allocated
<1>5. free' \in Seq(Blocks)
  BY <1>1, <1>3, SubSeqProperties DEF TakeBlocks
<1>6. SubSeq(free, 1, n) \o SubSeq(free, n + 1, Len(free)) = SubSeq(free, 1, Len(free))
  <2>1. 1 \in 1 .. Len(free) + 1 /\ n \in 1 - 1 .. Len(free) /\ Len(free) \in n .. Len(free)
    BY <1>1
  <2> QED BY <2>1, ConcatAdjacentSubSeq
<1>7. SubSeq(free, 1, Len(free)) = free
  BY SubSeqFull
<1> QED BY <1>4, <1>5, <1>6, <1>7 DEF Allocated, TakeBlocks

\* free(blocks) puts blocks of the pool back.
LEMMA GiveBackType ==
  ASSUME free \in Seq(Blocks), NEW blocks \in Seq(Blocks), GiveBack(blocks)
  PROVE  free' \in Seq(Blocks)
<1>1. Without(blocks, {PaddingBlock}) \in Seq(Blocks)
  BY WithoutRange
<1> QED BY <1>1, ConcatProperties DEF GiveBack

LEMMA QueryLenType ==
  ASSUME TypeOK, NEW r \in Requests
  PROVE  QueryLen(r) \in Nat
<1>1. \A i \in DOMAIN batch_entries : batch_entries[i].q_len \in Nat
  <2>1. batch_entries \in Seq(EntryType)
    BY DEF TypeOK, BatchTypes
  <2>2. \A i \in DOMAIN batch_entries : batch_entries[i] \in EntryType
    BY <2>1
  <2> QED BY <2>2 DEF EntryType
<1>2. CASE \E i \in DOMAIN batch_entries : batch_entries[i].req = r
  <2> DEFINE e == CHOOSE i \in DOMAIN batch_entries : batch_entries[i].req = r
  <2>1. e \in DOMAIN batch_entries
    BY <1>2
  <2>2. QueryLen(r) = batch_entries[e].q_len
    BY <1>2 DEF QueryLen
  <2> QED BY <1>1, <2>1, <2>2
<1>3. CASE ~ \E i \in DOMAIN batch_entries : batch_entries[i].req = r
  BY <1>3 DEF QueryLen
<1> QED BY <1>2, <1>3

-----------------------------------------------------------------------------
(* Type correctness.                                                       *)

LEMMA TypeInit == Init => TypeOK
<1> SUFFICES ASSUME Init PROVE TypeOK
  OBVIOUS
<1>1. free \in Seq(Blocks)
  <2>1. NumBlocks - 1 \in Nat
    BY AllocatorAssumption
  <2>2. free \in [1 .. NumBlocks - 1 -> Blocks]
    BY DEF Init, AllocatorInit, Blocks
  <2> QED BY <2>1, <2>2, SeqDef
<1> QED BY <1>1, SchedulerAssumption DEF Init, TypeOK, RequestTypes, QueueTypes,
             BlockTypes, BatchTypes, NoChunks, Reasons, PcValues

\* What a step leaves alone keeps its type, and loops count upwards.
LEMMA TypeFrame ==
  ASSUME TypeOK
  PROVE  /\ UNCHANGED <<params, requestVars>> => RequestTypes'
         /\ UNCHANGED queueVars => QueueTypes'
         /\ UNCHANGED blockVars => BlockTypes'
         /\ UNCHANGED localVars => BatchTypes'
         /\ pc' = pc => pc' \in PcValues
         /\ at' = at \/ at' = at + 1 \/ at' = 1 => at' \in Nat \ {0}
         /\ reported' = reported => reported' \subseteq Requests
<1>1. UNCHANGED <<params, requestVars>> => RequestTypes'
  BY DEF TypeOK, RequestTypes, requestVars
<1>2. UNCHANGED queueVars => QueueTypes'
  BY DEF TypeOK, QueueTypes, queueVars
<1>3. UNCHANGED blockVars => BlockTypes'
  BY DEF TypeOK, BlockTypes, blockVars
<1>4. UNCHANGED localVars => BatchTypes'
  BY DEF TypeOK, BatchTypes, localVars
<1> QED BY <1>1, <1>2, <1>3, <1>4 DEF TypeOK

LEMMA TypeNext == TypeOK /\ [Next]_vars => TypeOK'
<1> SUFFICES ASSUME TypeOK, [Next]_vars PROVE TypeOK'
  OBVIOUS
<1>1. CASE AddRequest
  <2>1. arrived' \in 0 .. NumRequests /\ arrived + 1 \in Requests
    BY <1>1, SchedulerAssumption DEF TypeOK, QueueTypes, AddRequest, Requests
  <2>2. Append(waiting, arrived + 1) \in Seq(Requests)
    BY <2>1, AppendProperties DEF TypeOK, QueueTypes
  <2>3. QueueTypes'
    BY <1>1, <2>1, <2>2 DEF TypeOK, QueueTypes, AddRequest
  <2> QED BY <1>1, <2>3, TypeFrame DEF TypeOK, AddRequest
<1>2. ASSUME NEW r \in Requests, AbortWaiting(r) PROVE TypeOK'
  <2>1. Without(waiting, {r}) \in Seq(Requests)
    BY WithoutRange DEF TypeOK, QueueTypes
  <2>2. Append(finished_this_step, r) \in Seq(Requests)
    BY AppendProperties DEF TypeOK, QueueTypes
  <2>3. QueueTypes'
    BY <1>2, <2>1, <2>2 DEF TypeOK, QueueTypes, AbortWaiting
  <2>4. RequestTypes'
    BY <1>2 DEF TypeOK, RequestTypes, AbortWaiting, Finish, Reasons
  <2> QED BY <1>2, <2>3, <2>4, TypeFrame DEF TypeOK, AbortWaiting
<1>3. ASSUME NEW r \in Requests, AbortRunning(r) PROVE TypeOK'
  <2>1. RequestTypes'
    BY <1>3 DEF TypeOK, RequestTypes, AbortRunning, Finish, Reasons
  <2> QED BY <1>3, <2>1, TypeFrame DEF TypeOK, AbortRunning
<1>4. CASE StepBegin
  <2>1. Cardinality(DecodingRunning) \in Nat
    <3>1. DecodingRunning \subseteq 1 .. Len(running) /\ Len(running) \in Nat
      BY DEF DecodingRunning, TypeOK, QueueTypes
    <3>2. IsFiniteSet(1 .. Len(running))
      BY <3>1, FS_Interval
    <3> QED BY <3>1, <3>2, FS_Subset, FS_CardinalityType
  <2>2. token_budget' \in Nat
    BY <1>4, <2>1, SchedulerAssumption DEF StepBegin, StepBudget, Greatest
  <2>3. BatchTypes'
    BY <1>4, <2>2 DEF TypeOK, BatchTypes, StepBegin, NoChunks
  <2>4. QueueTypes'
    BY <1>4 DEF TypeOK, QueueTypes, StepBegin
  <2>5. pc' \in PcValues
    BY <1>4 DEF StepBegin, PcValues
  <2> QED BY <1>4, <2>3, <2>4, <2>5, TypeFrame DEF TypeOK, StepBegin
<1>5. CASE Sleep
  BY <1>5, TypeFrame DEF TypeOK, Sleep, vars
<1>6. CASE PlanChunk
  <2> DEFINE r == running[at]
  <2>1. r \in Requests
    BY <1>6, ElementOfSeq DEF TypeOK, QueueTypes, PlanChunk
  <2> HIDE DEF r
  <2>2. PlannedChunk(r) \in Nat /\ PlannedChunk(r) <= token_budget
    BY <2>1, ChunkType
  <2>3. BatchTypes'
    BY <1>6, <2>1, <2>2 DEF TypeOK, BatchTypes, PlanChunk, r
  <2> QED BY <1>6, <2>3, TypeFrame DEF TypeOK, PlanChunk
<1>7. CASE EndPlan
  <2>1. pc' \in PcValues
    BY <1>7 DEF EndPlan, PcValues
  <2> QED BY <1>7, <2>1, TypeFrame DEF TypeOK, EndPlan
<1>8. CASE RejectTooLong
  <2> DEFINE r == NextWaiting
  <2>1. r \in Requests /\ Tail(waiting) \in Seq(Requests)
    BY <1>8, HeadTailProperties
       DEF TypeOK, QueueTypes, RejectTooLong, MayAdmit, NextWaiting
  <2> HIDE DEF r
  <2>2. Append(finished_this_step, r) \in Seq(Requests)
    BY <2>1, AppendProperties DEF TypeOK, QueueTypes
  <2>3. QueueTypes'
    BY <1>8, <2>1, <2>2 DEF TypeOK, QueueTypes, RejectTooLong, r
  <2>4. RequestTypes'
    BY <1>8 DEF TypeOK, RequestTypes, RejectTooLong, Finish, Reasons
  <2> QED BY <1>8, <2>3, <2>4, TypeFrame DEF TypeOK, RejectTooLong
<1>9. CASE Admit
  <2> DEFINE r == NextWaiting
  <2>1. r \in Requests /\ Tail(waiting) \in Seq(Requests)
    BY <1>9, HeadTailProperties DEF TypeOK, QueueTypes, Admit, MayAdmit, NextWaiting
  <2> HIDE DEF r
  <2>2. /\ FirstChunk(r) \in Nat /\ FirstChunk(r) <= token_budget
        /\ PromptBlocks(r) \in Nat
    BY <2>1, ChunkType
  <2>3. CanAllocate(PromptBlocks(r)) /\ TakeBlocks(PromptBlocks(r))
    BY <1>9 DEF Admit, Admissible, r
  <2>4. Allocated(PromptBlocks(r)) \in Seq(Blocks) /\ free' \in Seq(Blocks)
    BY <2>2, <2>3, AllocateType DEF TypeOK, BlockTypes
  <2>5. BlockTypes'
    BY <1>9, <2>4 DEF TypeOK, BlockTypes, Admit, r
  <2>6. Append(running, r) \in Seq(Requests)
    BY <2>1, AppendProperties DEF TypeOK, QueueTypes
  <2>7. QueueTypes'
    BY <1>9, <2>1, <2>6 DEF TypeOK, QueueTypes, Admit, r
  <2>8. BatchTypes'
    <3>1. /\ token_budget' = token_budget - FirstChunk(r)
          /\ per_req_chunk' = [per_req_chunk EXCEPT ![r] = FirstChunk(r)]
          /\ UNCHANGED <<batch_entries, finished>>
      BY <1>9 DEF Admit, r
    <3>2. token_budget' \in Nat
      BY <2>2, <3>1 DEF TypeOK, BatchTypes
    <3>3. per_req_chunk' \in [Requests -> Nat]
      BY <2>2, <3>1 DEF TypeOK, BatchTypes
    <3> QED BY <3>1, <3>2, <3>3 DEF TypeOK, BatchTypes
  <2>9. RequestTypes'
    BY <1>9 DEF TypeOK, RequestTypes, Admit
  <2> QED BY <1>9, <2>5, <2>7, <2>8, <2>9, TypeFrame DEF TypeOK, Admit
<1>10. CASE EndAdmission
  <2>1. pc' \in PcValues
    BY <1>10 DEF EndAdmission, PcValues
  <2> QED BY <1>10, <2>1, TypeFrame DEF TypeOK, EndAdmission
<1>11. CASE SkipEntry
  BY <1>11, TypeFrame DEF TypeOK, SkipEntry
<1>12. CASE GrowTable
  <2> DEFINE r == running[at]
  <2>1. r \in Requests
    BY <1>12, ElementOfSeq DEF TypeOK, QueueTypes, GrowTable, AtEntry
  <2>2. Allocated(1) \in Seq(Blocks) /\ free' \in Seq(Blocks)
    BY <1>12, AllocateType DEF TypeOK, BlockTypes, GrowTable
  <2>3. block_table[r] \o Allocated(1) \in Seq(Blocks)
    BY <2>1, <2>2, ConcatProperties DEF TypeOK, BlockTypes
  <2>4. block_table' = [block_table EXCEPT ![r] = block_table[r] \o Allocated(1)]
    BY <1>12 DEF GrowTable
  <2>5. BlockTypes'
    BY <2>2, <2>3, <2>4 DEF TypeOK, BlockTypes
  <2> QED BY <1>12, <2>5, TypeFrame DEF TypeOK, GrowTable
<1>13. CASE OutOfBlocks
  <2> DEFINE r == running[at]
  <2>1. r \in Requests
    BY <1>13, ElementOfSeq DEF TypeOK, QueueTypes, OutOfBlocks, AtEntry
  <2> HIDE DEF r
  <2>2. Append(finished_this_step, r) \in Seq(Requests)
    BY <2>1, AppendProperties DEF TypeOK, QueueTypes
  <2>3. QueueTypes'
    BY <1>13, <2>2 DEF TypeOK, QueueTypes, OutOfBlocks, r
  <2>4. RequestTypes'
    BY <1>13 DEF TypeOK, RequestTypes, OutOfBlocks, Finish, Reasons
  <2> QED BY <1>13, <2>3, <2>4, TypeFrame DEF TypeOK, OutOfBlocks
<1>14. CASE EnterDecode
  <2> DEFINE e == Entry(running[at], 1, TRUE)
  <2>1. running[at] \in Requests
    BY <1>14, ElementOfSeq DEF TypeOK, QueueTypes, EnterDecode, AtEntry
  <2>2. e \in EntryType
    BY <2>1 DEF Entry, EntryType
  <2>3. batch_entries' = Append(batch_entries, e)
    BY <1>14 DEF EnterDecode
  <2> HIDE DEF e
  <2>4. batch_entries' \in Seq(EntryType)
    BY <2>2, <2>3, AppendProperties DEF TypeOK, BatchTypes
  <2>5. BatchTypes'
    BY <1>14, <2>4 DEF TypeOK, BatchTypes, EnterDecode
  <2> QED BY <1>14, <2>5, TypeFrame DEF TypeOK, EnterDecode
<1>15. CASE EnterPrefill
  <2> DEFINE r == running[at]
             e == Entry(r, per_req_chunk[r], CompletesPrompt(r, per_req_chunk[r]))
  <2>1. r \in Requests
    BY <1>15, ElementOfSeq DEF TypeOK, QueueTypes, EnterPrefill, AtEntry
  <2>2. per_req_chunk[r] \in Nat \ {0}
    BY <1>15, <2>1 DEF TypeOK, BatchTypes, EnterPrefill
  <2>3. e \in EntryType
    BY <2>1, <2>2 DEF Entry, EntryType, CompletesPrompt
  <2>4. batch_entries' = Append(batch_entries, e)
    BY <1>15 DEF EnterPrefill
  <2> HIDE DEF e
  <2>5. batch_entries' \in Seq(EntryType)
    BY <2>3, <2>4, AppendProperties DEF TypeOK, BatchTypes
  <2>6. BatchTypes'
    BY <1>15, <2>5 DEF TypeOK, BatchTypes, EnterPrefill
  <2> QED BY <1>15, <2>6, TypeFrame DEF TypeOK, EnterPrefill
<1>16. CASE EndEntries
  <2>1. StillRunning \in Seq(Requests)
    BY WithoutRange DEF TypeOK, QueueTypes, StillRunning
  <2>2. QueueTypes'
    BY <1>16, <2>1 DEF TypeOK, QueueTypes, EndEntries
  <2>3. BatchTypes'
    BY <1>16 DEF TypeOK, BatchTypes, EndEntries, NoChunks
  <2>4. pc' \in PcValues
    BY <1>16 DEF EndEntries, PcValues
  <2> QED BY <1>16, <2>2, <2>3, <2>4, TypeFrame DEF TypeOK, EndEntries
<1>17. CASE Forward
  <2>1. pc' \in PcValues
    BY <1>17 DEF Forward, PcValues
  <2> QED BY <1>17, <2>1, TypeFrame DEF TypeOK, Forward
<1>18. CASE AdvanceComputed
  <2>1. \A r \in Requests : num_computed_tokens[r] + QueryLen(r) \in Nat
    BY QueryLenType DEF TypeOK, RequestTypes
  <2>2. RequestTypes'
    BY <1>18, <2>1 DEF TypeOK, RequestTypes, AdvanceComputed
  <2>3. pc' \in PcValues
    BY <1>18 DEF AdvanceComputed, PcValues
  <2> QED BY <1>18, <2>2, <2>3, TypeFrame DEF TypeOK, AdvanceComputed
<1>19. CASE AppendSampled
  <2> DEFINE r == batch_entries[at].req
  <2>1. r \in Requests
    <3>1. batch_entries[at] \in EntryType
      BY <1>19, ElementOfSeq DEF TypeOK, BatchTypes, AppendSampled
    <3> QED BY <3>1 DEF EntryType
  <2>2. PICK tok \in Tokens :
          LET reason == StopReason(r, tok, num_output_tokens[r] + 1)
          IN  /\ num_output_tokens' = [num_output_tokens EXCEPT ![r] = @ + 1]
              /\ IF reason # "none"
                 THEN Finish(r, reason) /\ finished' = Append(finished, r)
                 ELSE /\ status' = [status EXCEPT ![r] =
                           IF @ = "prefilling" /\ IsPromptDone(r) THEN "decoding" ELSE @]
                      /\ UNCHANGED <<finish_reason, finished>>
    BY <1>19 DEF AppendSampled
  <2>3. StopReason(r, tok, num_output_tokens[r] + 1) \in Reasons
    BY DEF StopReason, Reasons
  <2> HIDE DEF r
  <2>4. num_output_tokens' \in [Requests -> Nat]
    BY <2>1, <2>2 DEF TypeOK, RequestTypes
  <2>5. /\ status' \in [Requests -> {"waiting", "prefilling", "decoding", "finished"}]
        /\ finish_reason' \in [Requests -> Reasons]
    BY <2>1, <2>2, <2>3 DEF TypeOK, RequestTypes, Finish
  <2>6. RequestTypes'
    BY <1>19, <2>4, <2>5 DEF TypeOK, RequestTypes, AppendSampled
  <2>7. finished' \in Seq(Requests)
    <3>1. Append(finished, r) \in Seq(Requests)
      BY <2>1, AppendProperties DEF TypeOK, BatchTypes
    <3>2. finished' = finished \/ finished' = Append(finished, r)
      BY <2>2
    <3> QED BY <3>1, <3>2 DEF TypeOK, BatchTypes
  <2>8. BatchTypes'
    BY <1>19, <2>7 DEF TypeOK, BatchTypes, AppendSampled
  <2> QED BY <1>19, <2>6, <2>8, TypeFrame DEF TypeOK, AppendSampled
<1>20. CASE SkipUnsampled
  BY <1>20, TypeFrame DEF TypeOK, SkipUnsampled
<1>21. CASE EndSample
  <2>1. pc' \in PcValues
    BY <1>21 DEF EndSample, PcValues
  <2> QED BY <1>21, <2>1, TypeFrame DEF TypeOK, EndSample
<1>22. CASE FreeFinished
  <2> DEFINE r == finished[at]
  <2>1. r \in Requests
    BY <1>22, ElementOfSeq DEF TypeOK, BatchTypes, FreeFinished
  <2>2. block_table[r] \in Seq(Blocks) /\ GiveBack(block_table[r])
    BY <1>22, <2>1 DEF TypeOK, BlockTypes, FreeFinished
  <2>3. free' \in Seq(Blocks)
    BY <2>2, GiveBackType DEF TypeOK, BlockTypes
  <2>4. block_table' = [block_table EXCEPT ![r] = << >>]
    BY <1>22 DEF FreeFinished, ClearTable
  <2> HIDE DEF r
  <2>5. BlockTypes'
    BY <2>3, <2>4, EmptySeq DEF TypeOK, BlockTypes
  <2> QED BY <1>22, <2>5, TypeFrame DEF TypeOK, FreeFinished
<1>23. CASE UpdateReturn
  <2>1. AllFinished \in Seq(Requests)
    BY ConcatProperties DEF TypeOK, QueueTypes, BatchTypes, AllFinished
  <2>2. Without(running, Range(AllFinished)) \in Seq(Requests)
    BY WithoutRange DEF TypeOK, QueueTypes
  <2>3. QueueTypes'
    BY <1>23, <2>2 DEF TypeOK, QueueTypes, UpdateReturn
  <2>4. BatchTypes'
    BY <1>23 DEF TypeOK, BatchTypes, UpdateReturn
  <2>5. reported' \subseteq Requests
    BY <1>23, <2>1, RangeOfSeq DEF TypeOK, UpdateReturn
  <2>6. pc' \in PcValues
    BY <1>23 DEF UpdateReturn, PcValues
  <2> QED BY <1>23, <2>3, <2>4, <2>5, <2>6, TypeFrame DEF TypeOK, UpdateReturn
<1>24. CASE UNCHANGED vars
  BY <1>24, TypeFrame DEF TypeOK, vars
<1>25. Abortable \subseteq Requests
  BY SchedulerAssumption
<1> QED
  BY <1>1, <1>2, <1>3, <1>4, <1>5, <1>6, <1>7, <1>8, <1>9, <1>10, <1>11, <1>12, <1>13,
     <1>14, <1>15, <1>16, <1>17, <1>18, <1>19, <1>20, <1>21, <1>22, <1>23, <1>24, <1>25
     DEF Next, AbortRequest, EngineThread, StepTurn, UpdateTurn

\* The variables of the scheduler keep their types, in particular the token
\* budget never goes below zero.
THEOREM TypeCorrect == Spec => []TypeOK
BY TypeInit, TypeNext, PTL DEF Spec

-----------------------------------------------------------------------------
(* Lists in increasing order, and lists without repetition.                *)

LEMMA AppendIncreasing ==
  ASSUME NEW s \in Seq(Requests), Increasing(s),
         NEW e \in Requests, \A x \in Range(s) : x < e
  PROVE  /\ Increasing(Append(s, e))
         /\ Range(Append(s, e)) = Range(s) \cup {e}
<1>1. /\ Len(s) \in Nat
      /\ Append(s, e) \in Seq(Requests)
      /\ Len(Append(s, e)) = Len(s) + 1
      /\ \A i \in 1 .. Len(s) : Append(s, e)[i] = s[i]
      /\ Append(s, e)[Len(s) + 1] = e
  BY AppendProperties
<1>2. Range(s) = {s[i] : i \in 1 .. Len(s)}
  BY RangeEquality
<1>3. Range(Append(s, e)) = {Append(s, e)[i] : i \in 1 .. Len(s) + 1}
  BY <1>1, RangeEquality
<1>4. \A i \in 1 .. Len(s) + 1 : i \in 1 .. Len(s) \/ i = Len(s) + 1
  BY <1>1
<1>5. Range(Append(s, e)) = Range(s) \cup {e}
  BY <1>1, <1>2, <1>3, <1>4
<1>6. ASSUME NEW i \in 1 .. Len(s) + 1, NEW j \in 1 .. Len(s) + 1, i < j
      PROVE  Append(s, e)[i] < Append(s, e)[j]
  <2>1. i \in 1 .. Len(s)
    BY <1>1, <1>6
  <2>2. CASE j = Len(s) + 1
    BY <1>1, <1>2, <2>1, <2>2
  <2>3. CASE j \in 1 .. Len(s)
    BY <1>1, <1>6, <2>1, <2>3 DEF Increasing
  <2> QED BY <1>4, <2>2, <2>3
<1> QED BY <1>1, <1>5, <1>6 DEF Increasing

LEMMA TailIncreasing ==
  ASSUME NEW s \in Seq(Requests), s # << >>, Increasing(s)
  PROVE  /\ Increasing(Tail(s))
         /\ Range(s) = {Head(s)} \cup Range(Tail(s))
         /\ \A x \in Range(Tail(s)) : Head(s) < x
<1>1. /\ Len(s) \in Nat \ {0} /\ Len(Tail(s)) = Len(s) - 1
      /\ Tail(s) \in Seq(Requests)
      /\ \A i \in 1 .. Len(Tail(s)) : Tail(s)[i] = s[i+1]
      /\ Head(s) = s[1]
  BY HeadTailProperties, EmptySeq
<1>2. Range(s) = {s[i] : i \in 1 .. Len(s)}
  BY RangeEquality
<1>3. Range(Tail(s)) = {Tail(s)[i] : i \in 1 .. Len(s) - 1}
  BY <1>1, RangeEquality
<1>4. Increasing(Tail(s))
  <2> SUFFICES ASSUME NEW i \in 1 .. Len(Tail(s)), NEW j \in 1 .. Len(Tail(s)), i < j
               PROVE  Tail(s)[i] < Tail(s)[j]
    BY DEF Increasing
  <2>1. i + 1 \in 1 .. Len(s) /\ j + 1 \in 1 .. Len(s) /\ i + 1 < j + 1
    BY <1>1
  <2>2. s[i + 1] < s[j + 1]
    BY <2>1 DEF Increasing
  <2> QED BY <1>1, <2>2
<1>5. \A x \in Range(Tail(s)) : Head(s) < x /\ x \in Range(s)
  <2> SUFFICES ASSUME NEW i \in 1 .. Len(s) - 1
               PROVE  Head(s) < Tail(s)[i] /\ Tail(s)[i] \in Range(s)
    BY <1>3
  <2>1. 1 \in 1 .. Len(s) /\ i + 1 \in 1 .. Len(s) /\ 1 < i + 1 /\ i \in 1 .. Len(Tail(s))
    BY <1>1
  <2>2. s[1] < s[i + 1]
    BY <2>1 DEF Increasing
  <2>3. Tail(s)[i] = s[i + 1]
    BY <1>1, <2>1
  <2> QED BY <1>1, <1>2, <2>1, <2>2, <2>3
<1>6. \A x \in Range(s) : x = Head(s) \/ x \in Range(Tail(s))
  <2> SUFFICES ASSUME NEW i \in 1 .. Len(s), i # 1
               PROVE  s[i] \in Range(Tail(s))
    BY <1>1, <1>2
  <2>1. i - 1 \in 1 .. Len(s) - 1 /\ i - 1 \in 1 .. Len(Tail(s)) /\ (i - 1) + 1 = i
    BY <1>1
  <2>2. Tail(s)[i - 1] = s[i]
    BY <1>1, <2>1
  <2> QED BY <1>3, <2>1, <2>2
<1>7. Head(s) \in Range(s)
  BY <1>1, <1>2
<1> QED BY <1>4, <1>5, <1>6, <1>7

\* A concatenation has no repetition just if its parts have none and share
\* no element.
LEMMA ConcatInjective ==
  ASSUME NEW S, NEW s \in Seq(S), NEW t \in Seq(S)
  PROVE  IsInjective(s \o t) <=>
           IsInjective(s) /\ IsInjective(t) /\ Range(s) \cap Range(t) = {}
<1> DEFINE u == s \o t
           m == Len(s)
           n == Len(t)
<1>1. /\ m \in Nat /\ n \in Nat
      /\ DOMAIN s = 1 .. m /\ DOMAIN t = 1 .. n
      /\ u \in Seq(S) /\ Len(u) = m + n /\ DOMAIN u = 1 .. m + n
      /\ \A i \in 1 .. m + n : u[i] = IF i <= m THEN s[i] ELSE t[i - m]
  BY ConcatProperties, LenProperties
<1>2. /\ \A i \in 1 .. m : i \in 1 .. m + n /\ u[i] = s[i]
      /\ \A i \in 1 .. n : m + i \in 1 .. m + n /\ u[m + i] = t[i]
  <2> HIDE DEF u, m, n
  <2>1. \A i \in 1 .. m : i \in 1 .. m + n /\ u[i] = s[i]
    BY <1>1
  <2>2. \A i \in 1 .. n : m + i \in 1 .. m + n /\ ~(m + i <= m) /\ (m + i) - m = i
    BY <1>1
  <2> QED BY <1>1, <2>1, <2>2
<1>3. Range(s) = {s[i] : i \in 1 .. m} /\ Range(t) = {t[i] : i \in 1 .. n}
  BY RangeEquality
<1> HIDE DEF u, m, n
<1>4. ASSUME IsInjective(u)
      PROVE  IsInjective(s) /\ IsInjective(t) /\ Range(s) \cap Range(t) = {}
  <2>1. IsInjective(s)
    BY <1>1, <1>2, <1>4 DEF IsInjective
  <2>2. IsInjective(t)
    <3> SUFFICES ASSUME NEW i \in 1 .. n, NEW j \in 1 .. n, t[i] = t[j] PROVE i = j
      BY <1>1 DEF IsInjective
    <3>0. m + i \in DOMAIN u /\ m + j \in DOMAIN u /\ u[m + i] = u[m + j]
      BY <1>1, <1>2
    <3>1. m + i = m + j
      BY <3>0, <1>4 DEF IsInjective
    <3> QED BY <1>1, <3>1
  <2>3. ASSUME NEW i \in 1 .. m, NEW j \in 1 .. n, s[i] = t[j] PROVE FALSE
    <3>1. i = m + j
      BY <1>1, <1>2, <1>4, <2>3 DEF IsInjective
    <3> QED BY <1>1, <3>1
  <2> QED BY <1>3, <2>1, <2>2, <2>3
<1>5. ASSUME IsInjective(s), IsInjective(t), Range(s) \cap Range(t) = {}
      PROVE  IsInjective(u)
  <2> SUFFICES ASSUME NEW i \in 1 .. m + n, NEW j \in 1 .. m + n, u[i] = u[j]
               PROVE  i = j
    BY <1>1 DEF IsInjective
  <2>1. /\ i \in 1 .. m \/ (i - m \in 1 .. n /\ ~(i <= m))
        /\ j \in 1 .. m \/ (j - m \in 1 .. n /\ ~(j <= m))
    <3>1. m \in Nat /\ n \in Nat
      BY <1>1
    <3> QED BY <3>1
  <2>2. CASE i \in 1 .. m /\ j \in 1 .. m
    BY <1>1, <1>2, <1>5, <2>2 DEF IsInjective
  <2>3. CASE i \in 1 .. m /\ j - m \in 1 .. n /\ ~(j <= m)
    <3>1. s[i] = t[j - m]
      BY <1>1, <1>2, <2>3
    <3> QED BY <1>3, <1>5, <2>3, <3>1
  <2>4. CASE i - m \in 1 .. n /\ ~(i <= m) /\ j \in 1 .. m
    <3>1. s[j] = t[i - m]
      BY <1>1, <1>2, <2>4
    <3> QED BY <1>3, <1>5, <2>4, <3>1
  <2>5. CASE i - m \in 1 .. n /\ ~(i <= m) /\ j - m \in 1 .. n /\ ~(j <= m)
    <3>1. t[i - m] = t[j - m]
      BY <1>1, <2>5
    <3>2. i - m = j - m
      BY <1>1, <1>5, <2>5, <3>1 DEF IsInjective
    <3> QED BY <1>1, <3>2
  <2> QED BY <2>1, <2>2, <2>3, <2>4, <2>5
<1> QED BY <1>4, <1>5 DEF u

-----------------------------------------------------------------------------
(* First come, first served.                                               *)

\* Both lists are in order of arrival, every running request arrived before
\* every waiting one, and no request is listed before it arrives.
QueueOrder ==
  /\ Increasing(running)
  /\ Increasing(waiting)
  /\ \A r \in Range(running), q \in Range(waiting) : r < q
  /\ \A r \in Range(running) \cup Range(waiting) : r <= arrived

LEMMA QueueOrderInit == Init => QueueOrder
BY EmptySeq DEF Init, QueueOrder, Increasing, Range

LEMMA QueueOrderNext == TypeOK /\ QueueOrder /\ [Next]_vars => QueueOrder'
<1> SUFFICES ASSUME TypeOK, QueueOrder, [Next]_vars PROVE QueueOrder'
  OBVIOUS
<1>t. /\ running \in Seq(Requests) /\ waiting \in Seq(Requests)
      /\ arrived \in 0 .. NumRequests /\ NumRequests \in Nat
  BY SchedulerAssumption DEF TypeOK, QueueTypes
<1>f. ASSUME UNCHANGED <<running, waiting, arrived>> PROVE QueueOrder'
  BY <1>f DEF QueueOrder, Increasing
<1>r. ASSUME NEW F, running' = Without(running, F), UNCHANGED <<waiting, arrived>>
      PROVE  QueueOrder'
  <2>1. Increasing(running') /\ Range(running') \subseteq Range(running)
    BY <1>r, <1>t, WithoutIncreasing, WithoutRange DEF QueueOrder
  <2> QED BY <1>r, <2>1 DEF QueueOrder
<1>w. ASSUME Increasing(waiting'), Range(waiting') \subseteq Range(waiting),
             UNCHANGED <<running, arrived>>
      PROVE  QueueOrder'
  BY <1>w DEF QueueOrder
<1>1. CASE AddRequest
  <2>1. /\ arrived + 1 \in Requests /\ arrived' = arrived + 1
        /\ waiting' = Append(waiting, arrived + 1) /\ running' = running
    BY <1>1, <1>t DEF AddRequest, Requests
  <2>2. \A x \in Range(running) \cup Range(waiting) :
          x \in Nat /\ x <= arrived /\ x < arrived + 1
    <3>1. Range(running) \subseteq Requests /\ Range(waiting) \subseteq Requests
      BY <1>t, RangeOfSeq
    <3> QED BY <3>1, <1>t DEF QueueOrder, Requests
  <2>3. Increasing(waiting') /\ Range(waiting') = Range(waiting) \cup {arrived + 1}
    BY <2>1, <2>2, <1>t, AppendIncreasing DEF QueueOrder
  <2>4. \A r \in Range(running), q \in Range(waiting') : r < q
    BY <2>2, <2>3 DEF QueueOrder
  <2>5. \A r \in Range(running) \cup Range(waiting') : r <= arrived + 1
    BY <2>2, <2>3, <1>t
  <2> QED BY <2>1, <2>3, <2>4, <2>5 DEF QueueOrder
<1>2. ASSUME NEW r \in Requests, AbortWaiting(r) PROVE QueueOrder'
  <2>1. waiting' = Without(waiting, {r}) /\ UNCHANGED <<running, arrived>>
    BY <1>2 DEF AbortWaiting
  <2>2. Increasing(waiting') /\ Range(waiting') \subseteq Range(waiting)
    BY <2>1, <1>t, WithoutIncreasing, WithoutRange DEF QueueOrder
  <2> QED BY <2>1, <2>2, <1>w
<1>3. ASSUME NEW r \in Requests, AbortRunning(r) PROVE QueueOrder'
  BY <1>3, <1>f DEF AbortRunning, queueVars
<1>4. CASE RejectTooLong
  <2>1. waiting # << >> /\ waiting' = Tail(waiting) /\ UNCHANGED <<running, arrived>>
    BY <1>4 DEF RejectTooLong, MayAdmit
  <2>2. Increasing(waiting') /\ Range(waiting') \subseteq Range(waiting)
    BY <2>1, <1>t, TailIncreasing DEF QueueOrder
  <2> QED BY <2>1, <2>2, <1>w
<1>5. CASE Admit
  <2> DEFINE h == Head(waiting)
  <2>1. /\ waiting # << >> /\ waiting' = Tail(waiting)
        /\ running' = Append(running, h) /\ arrived' = arrived
    BY <1>5 DEF Admit, MayAdmit, NextWaiting
  <2>2. /\ Increasing(waiting') /\ Range(waiting) = {h} \cup Range(waiting')
        /\ \A x \in Range(waiting') : h < x
    BY <2>1, <1>t, TailIncreasing DEF QueueOrder
  <2>3. h \in Requests
    BY <2>1, <1>t, HeadTailProperties
  <2> HIDE DEF h
  <2>4. \A x \in Range(running) : x < h
    BY <2>2 DEF QueueOrder
  <2>5. Increasing(running') /\ Range(running') = Range(running) \cup {h}
    BY <2>1, <2>3, <2>4, <1>t, AppendIncreasing DEF QueueOrder
  <2> QED BY <2>1, <2>2, <2>5 DEF QueueOrder
<1>6. CASE EndEntries
  <2>1. running' = Without(running, {r \in Requests : status[r] = "finished"})
        /\ UNCHANGED <<waiting, arrived>>
    BY <1>6 DEF EndEntries, StillRunning
  <2> QED BY <2>1, <1>r
<1>7. CASE UpdateReturn
  <2>1. running' = Without(running, Range(AllFinished)) /\ UNCHANGED <<waiting, arrived>>
    BY <1>7 DEF UpdateReturn
  <2> QED BY <2>1, <1>r
<1>8. CASE StepBegin \/ OutOfBlocks
  BY <1>8, <1>f DEF StepBegin, OutOfBlocks
<1>9. CASE \/ Sleep \/ PlanChunk \/ EndPlan \/ EndAdmission \/ SkipEntry \/ GrowTable
           \/ EnterDecode \/ EnterPrefill \/ UNCHANGED vars
  BY <1>9, <1>f DEF Sleep, PlanChunk, EndPlan, EndAdmission, SkipEntry, GrowTable,
     EnterDecode, EnterPrefill, vars, queueVars
<1>10. CASE \/ Forward \/ AdvanceComputed \/ AppendSampled \/ SkipUnsampled
            \/ EndSample \/ FreeFinished
  BY <1>10, <1>f DEF Forward, AdvanceComputed, AppendSampled, SkipUnsampled, EndSample,
     FreeFinished, queueVars
<1>11. Abortable \subseteq Requests
  BY SchedulerAssumption
<1> QED
  BY <1>1, <1>2, <1>3, <1>4, <1>5, <1>6, <1>7, <1>8, <1>9, <1>10, <1>11
     DEF Next, AbortRequest, EngineThread, StepTurn, UpdateTurn

\* Requests run in the order of their arrival, and none is listed twice.
THEOREM FirstComeFirstServed == Spec => []ArrivalOrder
<1>1. TypeOK /\ QueueOrder => ArrivalOrder
  <2> SUFFICES ASSUME TypeOK, QueueOrder,
                      NEW i \in DOMAIN (running \o waiting),
                      NEW j \in DOMAIN (running \o waiting), i < j
               PROVE  (running \o waiting)[i] < (running \o waiting)[j]
    BY DEF ArrivalOrder
  <2> DEFINE u == running \o waiting
             m == Len(running)
             n == Len(waiting)
  <2>1. running \in Seq(Requests) /\ waiting \in Seq(Requests)
    BY DEF TypeOK, QueueTypes
  <2>2. /\ m \in Nat /\ n \in Nat /\ DOMAIN u = 1 .. m + n
        /\ \A k \in 1 .. m + n : u[k] = IF k <= m THEN running[k] ELSE waiting[k - m]
    BY <2>1, ConcatProperties, LenProperties
  <2>3. /\ \A k \in 1 .. m : running[k] \in Range(running)
        /\ \A k \in 1 .. n : waiting[k] \in Range(waiting)
    BY <2>1, RangeEquality
  <2>4. /\ \A k, l \in 1 .. m : k < l => running[k] < running[l]
        /\ \A k, l \in 1 .. n : k < l => waiting[k] < waiting[l]
        /\ \A r \in Range(running), q \in Range(waiting) : r < q
    BY DEF QueueOrder, Increasing
  <2>5. i \in 1 .. m + n /\ j \in 1 .. m + n
    BY <2>2
  <2> HIDE DEF u, m, n
  <2>6. CASE j <= m
    <3>1. i \in 1 .. m /\ j \in 1 .. m /\ i <= m
      BY <2>2, <2>5, <2>6
    <3> QED BY <2>2, <2>4, <2>5, <3>1 DEF u
  <2>7. CASE ~(j <= m) /\ i <= m
    <3>1. i \in 1 .. m /\ j - m \in 1 .. n
      BY <2>2, <2>5, <2>7
    <3>2. u[i] = running[i] /\ u[j] = waiting[j - m]
      BY <2>2, <2>5, <2>7
    <3> QED BY <2>3, <2>4, <3>1, <3>2 DEF u
  <2>8. CASE ~(j <= m) /\ ~(i <= m)
    <3>1. i - m \in 1 .. n /\ j - m \in 1 .. n /\ i - m < j - m
      BY <2>2, <2>5, <2>8
    <3>2. u[i] = waiting[i - m] /\ u[j] = waiting[j - m]
      BY <2>2, <2>5, <2>8
    <3> QED BY <2>4, <3>1, <3>2 DEF u
  <2> QED BY <2>6, <2>7, <2>8
<1> QED BY <1>1, TypeInit, TypeNext, QueueOrderInit, QueueOrderNext, PTL DEF Spec

-----------------------------------------------------------------------------
(* Every block has one place.                                              *)

\* Requests that wait, or have yet to arrive, have no blocks: Admit, which
\* overwrites the table, does not lose any.
IdleHoldNothing ==
  \A r \in Requests :
    r \in Range(waiting) \/ r > arrived => block_table[r] = << >>

\* Blocks move from the head of the free list to the end of the table of r.
TakesBlocks(r) ==
  \E taken \in Seq(Blocks) :
    /\ free' \in Seq(Blocks)
    /\ free = taken \o free'
    /\ block_table' = [block_table EXCEPT ![r] = block_table[r] \o taken]

\* The table of r is given back as a whole.
ReturnsBlocks(r) ==
  /\ GiveBack(block_table[r])
  /\ block_table' = [block_table EXCEPT ![r] = << >>]

\* The only ways in which a step of the scheduler moves blocks.
BlockStep ==
  UNCHANGED blockVars \/ \E r \in Requests : TakesBlocks(r) \/ ReturnsBlocks(r)

LEMMA OwnershipTake ==
  ASSUME TypeOK, BlockOwnership, NEW r \in Requests, TakesBlocks(r)
  PROVE  BlockOwnership'
<1> PICK taken \in Seq(Blocks) :
       /\ free' \in Seq(Blocks)
       /\ free = taken \o free'
       /\ block_table' = [block_table EXCEPT ![r] = block_table[r] \o taken]
  BY DEF TakesBlocks
<1>1. block_table \in [Requests -> Seq(Blocks)]
  BY DEF TypeOK, BlockTypes
<1>2. /\ IsInjective(taken) /\ IsInjective(free') /\ Range(taken) \cap Range(free') = {}
      /\ Range(free) = Range(taken) \cup Range(free')
  BY ConcatInjective, RangeConcatenation DEF BlockOwnership
<1>3. /\ block_table'[r] = block_table[r] \o taken
      /\ \A q \in Requests : q # r => block_table'[q] = block_table[q]
  BY <1>1
<1>4. block_table[r] \in Seq(Blocks)
  BY <1>1
<1>5. Range(block_table'[r]) = Range(block_table[r]) \cup Range(taken)
  <2>1. Range(block_table[r] \o taken) = Range(block_table[r]) \cup Range(taken)
    BY <1>4, RangeConcatenation
  <2> QED BY <1>3, <2>1
<1>6. \A q \in Requests : Range(block_table[q]) \cap Range(free) = {}
  BY DEF BlockOwnership
<1>7. IsInjective(block_table'[r])
  <2>1. IsInjective(block_table[r]) /\ Range(block_table[r]) \cap Range(taken) = {}
    BY <1>2, <1>6 DEF BlockOwnership
  <2> QED BY <1>2, <1>3, <1>4, <2>1, ConcatInjective
<1>8. \A q \in Requests : IsInjective(block_table'[q])
  BY <1>3, <1>7 DEF BlockOwnership
<1>9. \A q \in Requests : Range(block_table'[q]) \cap Range(free') = {}
  BY <1>2, <1>3, <1>5, <1>6
<1>10. \A p, q \in Requests : p # q => Range(block_table'[p]) \cap Range(block_table'[q]) = {}
  <2> SUFFICES ASSUME NEW p \in Requests, NEW q \in Requests, p # q
               PROVE  Range(block_table'[p]) \cap Range(block_table'[q]) = {}
    OBVIOUS
  <2>1. Range(block_table[p]) \cap Range(block_table[q]) = {}
    BY DEF BlockOwnership
  <2> QED BY <2>1, <1>2, <1>3, <1>5, <1>6
<1>11. Blocks = Range(free') \cup UNION {Range(block_table'[q]) : q \in Requests}
  <2>1. \A b : b \in Range(free) \/ (\E q \in Requests : b \in Range(block_table[q]))
               <=> b \in Blocks
    BY DEF BlockOwnership
  <2>2. \A b : b \in Range(free') \/ (\E q \in Requests : b \in Range(block_table'[q]))
               <=> b \in Blocks
    BY <2>1, <1>2, <1>3, <1>5
  <2> QED BY <2>2
<1> QED BY <1>2, <1>8, <1>9, <1>10, <1>11 DEF BlockOwnership

LEMMA OwnershipReturn ==
  ASSUME TypeOK, BlockOwnership, NEW r \in Requests, ReturnsBlocks(r)
  PROVE  BlockOwnership'
<1> USE DEF ReturnsBlocks
<1> DEFINE back == Without(block_table[r], {PaddingBlock})
<1>1. block_table \in [Requests -> Seq(Blocks)] /\ free \in Seq(Blocks)
  BY DEF TypeOK, BlockTypes
<1>2. block_table[r] \in Seq(Blocks) /\ IsInjective(block_table[r])
  BY <1>1 DEF BlockOwnership
<1>3. back \in Seq(Blocks) /\ IsInjective(back) /\ free' = free \o back
  BY <1>2, WithoutRange, WithoutInjective DEF GiveBack
<1>4. Range(back) = Range(block_table[r])
  <2>1. Range(block_table[r]) \subseteq Blocks
    BY <1>2, RangeOfSeq
  <2>2. PaddingBlock \notin Blocks
    BY DEF PaddingBlock, Blocks
  <2>3. Range(back) = Range(block_table[r]) \ {PaddingBlock}
    BY <1>2, WithoutRange
  <2> HIDE DEF back
  <2> QED BY <2>1, <2>2, <2>3
<1> HIDE DEF back
<1>5. /\ block_table'[r] = << >> /\ Range(block_table'[r]) = {}
      /\ \A q \in Requests : q # r => block_table'[q] = block_table[q]
  <2>1. block_table'[r] = << >> /\ \A q \in Requests : q # r => block_table'[q] = block_table[q]
    BY <1>1
  <2>2. Range(<< >>) = {}
    BY EmptySeq DEF Range
  <2> QED BY <2>1, <2>2
<1>6. Range(free') = Range(free) \cup Range(block_table[r])
  BY <1>1, <1>3, <1>4, RangeConcatenation
<1>7. \A q \in Requests : Range(block_table[q]) \cap Range(free) = {}
  BY DEF BlockOwnership
<1>8. IsInjective(free')
  <2>1. IsInjective(free) /\ Range(free) \cap Range(back) = {}
    BY <1>4, <1>7 DEF BlockOwnership
  <2> QED BY <2>1, <1>1, <1>3, ConcatInjective
<1>9. \A q \in Requests : IsInjective(block_table'[q])
  <2>1. IsInjective(<< >>)
    BY EmptySeq DEF IsInjective
  <2> QED BY <2>1, <1>5 DEF BlockOwnership
<1>10. \A q \in Requests : Range(block_table'[q]) \cap Range(free') = {}
  <2> SUFFICES ASSUME NEW q \in Requests, q # r
               PROVE  Range(block_table'[q]) \cap Range(free') = {}
    BY <1>5
  <2>1. Range(block_table[q]) \cap Range(block_table[r]) = {}
    BY DEF BlockOwnership
  <2> QED BY <2>1, <1>5, <1>6, <1>7
<1>11. \A p, q \in Requests : p # q => Range(block_table'[p]) \cap Range(block_table'[q]) = {}
  <2> SUFFICES ASSUME NEW p \in Requests, NEW q \in Requests, p # q
               PROVE  Range(block_table'[p]) \cap Range(block_table'[q]) = {}
    OBVIOUS
  <2>1. Range(block_table[p]) \cap Range(block_table[q]) = {}
    BY DEF BlockOwnership
  <2> QED BY <2>1, <1>5
<1>12. Blocks = Range(free') \cup UNION {Range(block_table'[q]) : q \in Requests}
  <2>1. \A b : b \in Range(free) \/ (\E q \in Requests : b \in Range(block_table[q]))
               <=> b \in Blocks
    BY DEF BlockOwnership
  <2>2. \A b : b \in Range(free') \/ (\E q \in Requests : b \in Range(block_table'[q]))
               <=> b \in Blocks
    BY <2>1, <1>5, <1>6
  <2> QED BY <2>2
<1> QED BY <1>8, <1>9, <1>10, <1>11, <1>12 DEF BlockOwnership

LEMMA OwnershipInit == Init => BlockOwnership /\ IdleHoldNothing
<1> SUFFICES ASSUME Init PROVE BlockOwnership /\ IdleHoldNothing
  OBVIOUS
<1>1. \A r \in Requests : block_table[r] = << >>
  BY DEF Init
<1>2. Range(<< >>) = {} /\ IsInjective(<< >>)
  BY EmptySeq DEF Range, IsInjective
<1>3. IsInjective(free) /\ Range(free) = Blocks
  BY DEF Init, AllocatorInit, IsInjective, Range
<1>4. UNION {Range(block_table[r]) : r \in Requests} = {}
  BY <1>1, <1>2
<1> QED BY <1>1, <1>2, <1>3, <1>4 DEF BlockOwnership, IdleHoldNothing

\* Each action, by what it does to the free list and the tables.
LEMMA BlockSteps ==
  TypeOK /\ QueueOrder /\ IdleHoldNothing /\ [Next]_vars => BlockStep /\ IdleHoldNothing'
<1> SUFFICES ASSUME TypeOK, QueueOrder, IdleHoldNothing, [Next]_vars
             PROVE  BlockStep /\ IdleHoldNothing'
  OBVIOUS
<1>t. /\ running \in Seq(Requests) /\ waiting \in Seq(Requests)
      /\ free \in Seq(Blocks) /\ block_table \in [Requests -> Seq(Blocks)]
      /\ Range(running) \subseteq Requests /\ Range(waiting) \subseteq Requests
      /\ arrived \in Nat
  BY SchedulerAssumption, RangeOfSeq DEF TypeOK, QueueTypes, BlockTypes
<1>o. ASSUME UNCHANGED blockVars PROVE BlockStep
  BY <1>o DEF BlockStep
<1>f. ASSUME UNCHANGED <<block_table, arrived>>, Range(waiting') \subseteq Range(waiting)
      PROVE  IdleHoldNothing'
  BY <1>f DEF IdleHoldNothing
<1>1. CASE AddRequest
  <2>1. /\ arrived' = arrived + 1 /\ waiting' = Append(waiting, arrived + 1)
        /\ UNCHANGED blockVars
    BY <1>1 DEF AddRequest
  <2>2. arrived + 1 \in Requests
    BY <1>1, SchedulerAssumption, <1>t DEF AddRequest, Requests
  <2>3. Range(waiting') = Range(waiting) \cup {arrived + 1}
    <3>1. /\ waiting' \in Seq(Requests) /\ Len(waiting') = Len(waiting) + 1
          /\ \A i \in 1 .. Len(waiting) : waiting'[i] = waiting[i]
          /\ waiting'[Len(waiting) + 1] = arrived + 1
      BY <2>1, <2>2, <1>t, AppendProperties
    <3>2. /\ Range(waiting') = {waiting'[i] : i \in 1 .. Len(waiting) + 1}
          /\ Range(waiting) = {waiting[i] : i \in 1 .. Len(waiting)}
      BY <1>t, <3>1, RangeEquality
    <3>3. Len(waiting) \in Nat
      BY <1>t
    <3>4. \A i \in 1 .. Len(waiting) + 1 : i \in 1 .. Len(waiting) \/ i = Len(waiting) + 1
      BY <3>3
    <3> QED BY <3>1, <3>2, <3>3, <3>4
  <2>4. \A r \in Requests : r > arrived + 1 => r > arrived
    BY <1>t DEF Requests
  <2>5. arrived + 1 > arrived
    BY <1>t
  <2>6. IdleHoldNothing'
    BY <2>1, <2>2, <2>3, <2>4, <2>5 DEF IdleHoldNothing, blockVars
  <2> QED BY <2>1, <2>6, <1>o
<1>2. ASSUME NEW r \in Requests, AbortWaiting(r) PROVE BlockStep /\ IdleHoldNothing'
  <2>1. waiting' = Without(waiting, {r}) /\ UNCHANGED blockVars /\ arrived' = arrived
    BY <1>2 DEF AbortWaiting
  <2>2. Range(waiting') \subseteq Range(waiting)
    BY <2>1, <1>t, WithoutRange
  <2> QED BY <2>1, <2>2, <1>o, <1>f DEF blockVars
<1>3. CASE RejectTooLong
  <2>1. waiting # << >> /\ waiting' = Tail(waiting) /\ UNCHANGED blockVars /\ arrived' = arrived
    BY <1>3 DEF RejectTooLong, MayAdmit
  <2>2. Range(waiting') \subseteq Range(waiting)
    BY <2>1, <1>t, TailIncreasing DEF QueueOrder
  <2> QED BY <2>1, <2>2, <1>o, <1>f DEF blockVars
<1>4. CASE Admit
  <2> DEFINE r == NextWaiting
             taken == Allocated(PromptBlocks(r))
  <2>1. /\ waiting # << >> /\ waiting' = Tail(waiting) /\ arrived' = arrived
        /\ block_table' = [block_table EXCEPT ![r] = taken]
        /\ CanAllocate(PromptBlocks(r)) /\ TakeBlocks(PromptBlocks(r))
    BY <1>4 DEF Admit, MayAdmit, Admissible
  <2>2. /\ Range(waiting) = {r} \cup Range(waiting')
        /\ \A x \in Range(waiting') : r < x
        /\ r \in Requests
    BY <2>1, <1>t, TailIncreasing, HeadTailProperties DEF QueueOrder, NextWaiting
  <2> HIDE DEF r
  <2>3. taken \in Seq(Blocks) /\ free' \in Seq(Blocks) /\ free = taken \o free'
    BY <2>1, <2>2, <1>t, ChunkType, AllocateType
  <2> HIDE DEF taken
  <2>4. block_table[r] = << >>
    BY <2>2 DEF IdleHoldNothing
  <2>5. block_table[r] \o taken = taken
    BY <2>3, <2>4, ConcatEmptySeq
  <2>6. BlockStep
    BY <2>1, <2>2, <2>3, <2>5 DEF BlockStep, TakesBlocks
  <2>7. r \notin Range(waiting') /\ ~(r > arrived)
    <3>1. r \in Range(waiting) /\ r \in Nat
      BY <2>2 DEF Requests
    <3>2. r <= arrived
      BY <3>1 DEF QueueOrder
    <3>3. ~(r < r) /\ ~(r > arrived)
      BY <3>1, <3>2, <1>t
    <3> QED BY <2>2, <3>3
  <2>8. IdleHoldNothing'
    BY <2>1, <2>2, <2>7, <1>t DEF IdleHoldNothing
  <2> QED BY <2>6, <2>8
<1>5. CASE GrowTable
  <2> DEFINE r == running[at]
  <2>1. /\ r \in Requests /\ r \in Range(running)
        /\ block_table' = [block_table EXCEPT ![r] = block_table[r] \o Allocated(1)]
        /\ CanAllocate(1) /\ TakeBlocks(1) /\ UNCHANGED queueVars
    <3>1. at \in 1 .. Len(running)
      BY <1>5 DEF GrowTable, AtEntry, TypeOK
    <3> QED BY <3>1, <1>5, <1>t, ElementOfSeq, RangeEquality DEF GrowTable
  <2> HIDE DEF r
  <2>2. Allocated(1) \in Seq(Blocks) /\ free' \in Seq(Blocks) /\ free = Allocated(1) \o free'
    BY <2>1, <1>t, AllocateType
  <2>3. BlockStep
    BY <2>1, <2>2 DEF BlockStep, TakesBlocks
  <2>4. r \notin Range(waiting) /\ ~(r > arrived)
    BY <2>1, <1>t DEF QueueOrder, Requests
  <2>5. IdleHoldNothing'
    BY <2>1, <2>4, <1>t DEF IdleHoldNothing, queueVars
  <2> QED BY <2>3, <2>5
<1>6. CASE FreeFinished
  <2> DEFINE r == finished[at]
  <2>1. /\ r \in Requests /\ GiveBack(block_table[r])
        /\ block_table' = [block_table EXCEPT ![r] = << >>]
        /\ UNCHANGED queueVars
    BY <1>6, ElementOfSeq DEF TypeOK, BatchTypes, FreeFinished, ClearTable
  <2> HIDE DEF r
  <2>2. BlockStep
    BY <2>1 DEF BlockStep, ReturnsBlocks
  <2>3. IdleHoldNothing'
    BY <2>1, <1>t DEF IdleHoldNothing, queueVars
  <2> QED BY <2>2, <2>3
<1>7. ASSUME NEW r \in Requests, AbortRunning(r) PROVE BlockStep /\ IdleHoldNothing'
  BY <1>7, <1>o, <1>f DEF AbortRunning, queueVars, blockVars
<1>8. CASE StepBegin \/ OutOfBlocks \/ EndEntries \/ UpdateReturn
  BY <1>8, <1>o, <1>f DEF StepBegin, OutOfBlocks, EndEntries, UpdateReturn, blockVars
<1>9. CASE \/ Sleep \/ PlanChunk \/ EndPlan \/ EndAdmission \/ SkipEntry
           \/ EnterDecode \/ EnterPrefill \/ UNCHANGED vars
  BY <1>9, <1>o, <1>f DEF Sleep, PlanChunk, EndPlan, EndAdmission, SkipEntry,
     EnterDecode, EnterPrefill, vars, queueVars, blockVars
<1>10. CASE Forward \/ AdvanceComputed \/ AppendSampled \/ SkipUnsampled \/ EndSample
  BY <1>10, <1>o, <1>f DEF Forward, AdvanceComputed, AppendSampled, SkipUnsampled,
     EndSample, queueVars, blockVars
<1>11. Abortable \subseteq Requests
  BY SchedulerAssumption
<1> QED
  BY <1>1, <1>2, <1>3, <1>4, <1>5, <1>6, <1>7, <1>8, <1>9, <1>10, <1>11
     DEF Next, AbortRequest, EngineThread, StepTurn, UpdateTurn

LEMMA OwnershipNext == TypeOK /\ BlockOwnership /\ BlockStep => BlockOwnership'
<1> SUFFICES ASSUME TypeOK, BlockOwnership, BlockStep PROVE BlockOwnership'
  OBVIOUS
<1>1. CASE UNCHANGED blockVars
  BY <1>1 DEF BlockOwnership, blockVars
<1> QED BY <1>1, OwnershipTake, OwnershipReturn DEF BlockStep

\* A block is on the free list once or in one table once, and never in both:
\* two requests never write to one block, and no block disappears.
THEOREM BlocksHaveOnePlace == Spec => []BlockOwnership
BY TypeInit, TypeNext, QueueOrderInit, QueueOrderNext, OwnershipInit, OwnershipNext,
   BlockSteps, PTL
   DEF Spec

-----------------------------------------------------------------------------
(* The refinement of BlockPool.                                            *)

\* HolderOf, a CHOOSE over the tables, is the one table that has the block.
HolderFacts ==
  \A b \in Blocks :
    /\ \A r \in Requests : b \in Range(block_table[r]) => HolderOf(b) = r
    /\ (\A r \in Requests : b \notin Range(block_table[r])) => HolderOf(b) = 0
    /\ b \in Range(free) => HolderOf(b) = 0

LEMMA OwnersAreHolders == BlockOwnership => HolderFacts
<1> SUFFICES ASSUME BlockOwnership, NEW b \in Blocks
             PROVE  /\ \A r \in Requests : b \in Range(block_table[r]) => HolderOf(b) = r
                    /\ (\A r \in Requests : b \notin Range(block_table[r])) => HolderOf(b) = 0
                    /\ b \in Range(free) => HolderOf(b) = 0
  BY DEF HolderFacts
<1>1. ASSUME NEW r \in Requests, b \in Range(block_table[r]) PROVE HolderOf(b) = r
  <2>1. \A q \in Requests : b \in Range(block_table[q]) => q = r
    BY <1>1 DEF BlockOwnership
  <2>2. HolderOf(b) = CHOOSE q \in Requests : b \in Range(block_table[q])
    BY <1>1 DEF HolderOf
  <2> QED BY <1>1, <2>1, <2>2
<1>2. (\A r \in Requests : b \notin Range(block_table[r])) => HolderOf(b) = 0
  BY DEF HolderOf
<1>3. b \in Range(free) => \A r \in Requests : b \notin Range(block_table[r])
  BY DEF BlockOwnership
<1> QED BY <1>1, <1>2, <1>3

LEMMA TakeRefines ==
  ASSUME TypeOK, BlockOwnership, HolderFacts, HolderFacts',
         NEW r \in Requests, TakesBlocks(r)
  PROVE  Pool!Take(r)
<1> PICK taken \in Seq(Blocks) :
       /\ free' \in Seq(Blocks)
       /\ free = taken \o free'
       /\ block_table' = [block_table EXCEPT ![r] = block_table[r] \o taken]
  BY DEF TakesBlocks
<1>1. block_table \in [Requests -> Seq(Blocks)]
  BY DEF TypeOK, BlockTypes
<1>2. /\ block_table'[r] = block_table[r] \o taken
      /\ \A q \in Requests : q # r => block_table'[q] = block_table[q]
  BY <1>1
<1>3. Range(block_table'[r]) = Range(block_table[r]) \cup Range(taken)
  <2>1. Range(block_table[r] \o taken) = Range(block_table[r]) \cup Range(taken)
    BY <1>1, RangeConcatenation
  <2> QED BY <1>2, <2>1
<1>4. Range(taken) \subseteq Blocks /\ Range(taken) \subseteq Range(free)
  BY RangeOfSeq, RangeConcatenation
<1>5. Range(taken) \in SUBSET Pool!FreeBlocks
  BY <1>4 DEF Pool!FreeBlocks, HolderFacts
<1>6. ASSUME NEW b \in Blocks
      PROVE  HolderOf(b)' = IF b \in Range(taken) THEN r ELSE HolderOf(b)
  <2>1. CASE b \in Range(taken)
    BY <1>3, <2>1 DEF HolderFacts
  <2>2. CASE b \notin Range(taken) /\ \E q \in Requests : b \in Range(block_table[q])
    <3>1. PICK q \in Requests : b \in Range(block_table[q])
      BY <2>2
    <3>2. b \in Range(block_table'[q])
      BY <3>1, <1>2, <1>3
    <3> QED BY <3>1, <3>2, <2>2 DEF HolderFacts
  <2>3. CASE b \notin Range(taken) /\ \A q \in Requests : b \notin Range(block_table[q])
    <3>1. \A q \in Requests : b \notin Range(block_table'[q])
      BY <2>3, <1>2, <1>3
    <3> QED BY <3>1, <2>3 DEF HolderFacts
  <2> QED BY <2>1, <2>2, <2>3
<1>7. [b \in Blocks |-> HolderOf(b)]'
        = [b \in Blocks |-> IF b \in Range(taken) THEN r
                            ELSE [c \in Blocks |-> HolderOf(c)][b]]
  BY <1>6
<1> QED BY <1>5, <1>7 DEF Pool!Take

LEMMA ReturnRefines ==
  ASSUME TypeOK, HolderFacts, HolderFacts', NEW r \in Requests, ReturnsBlocks(r)
  PROVE  Pool!Release(r)
<1>1. block_table \in [Requests -> Seq(Blocks)]
  BY DEF TypeOK, BlockTypes
<1>2. /\ Range(block_table'[r]) = {}
      /\ \A q \in Requests : q # r => block_table'[q] = block_table[q]
  <2>1. block_table'[r] = << >> /\ \A q \in Requests : q # r => block_table'[q] = block_table[q]
    BY <1>1 DEF ReturnsBlocks
  <2>2. Range(<< >>) = {}
    BY EmptySeq DEF Range
  <2> QED BY <2>1, <2>2
<1>3. 0 \notin Requests
  BY DEF Requests
<1>4. ASSUME NEW b \in Blocks
      PROVE  HolderOf(b)' = IF HolderOf(b) = r THEN 0 ELSE HolderOf(b)
  <2>1. CASE \E q \in Requests : q # r /\ b \in Range(block_table[q])
    <3>1. PICK q \in Requests : q # r /\ b \in Range(block_table[q])
      BY <2>1
    <3> QED BY <3>1, <1>2 DEF HolderFacts
  <2>2. CASE \A q \in Requests : q # r => b \notin Range(block_table[q])
    <3>1. \A q \in Requests : b \notin Range(block_table'[q])
      BY <2>2, <1>2
    <3>2. HolderOf(b)' = 0
      BY <3>1 DEF HolderFacts
    <3>3. HolderOf(b) = r \/ HolderOf(b) = 0
      BY <2>2 DEF HolderFacts
    <3> QED BY <3>2, <3>3
  <2> QED BY <2>1, <2>2
<1>5. [b \in Blocks |-> HolderOf(b)]'
        = [b \in Blocks |-> IF [c \in Blocks |-> HolderOf(c)][b] = r THEN 0
                            ELSE [c \in Blocks |-> HolderOf(c)][b]]
  BY <1>4
<1> QED BY <1>5 DEF Pool!Release

LEMMA PoolInitRefines == Init => Pool!PoolInit
<1> SUFFICES ASSUME Init PROVE Pool!PoolInit
  OBVIOUS
<1>1. \A r \in Requests : Range(block_table[r]) = {}
  BY EmptySeq DEF Init, Range
<1>2. \A b \in Blocks : HolderOf(b) = 0
  BY <1>1 DEF HolderOf
<1> QED BY <1>2 DEF Pool!PoolInit

LEMMA PoolNextRefines ==
  TypeOK /\ BlockOwnership /\ HolderFacts /\ HolderFacts' /\ BlockStep
    => [Pool!PoolNext]_([b \in Blocks |-> HolderOf(b)])
<1> SUFFICES ASSUME TypeOK, BlockOwnership, HolderFacts, HolderFacts', BlockStep
             PROVE  [Pool!PoolNext]_([b \in Blocks |-> HolderOf(b)])
  OBVIOUS
<1>1. CASE UNCHANGED blockVars
  BY <1>1 DEF blockVars, HolderOf
<1>2. ASSUME NEW r \in Requests, TakesBlocks(r) PROVE Pool!PoolNext
  BY <1>2, TakeRefines DEF Pool!PoolNext
<1>3. ASSUME NEW r \in Requests, ReturnsBlocks(r) PROVE Pool!PoolNext
  BY <1>3, ReturnRefines DEF Pool!PoolNext
<1> QED BY <1>1, <1>2, <1>3 DEF BlockStep

\* The free list and the block tables implement the abstract pool: a request
\* only ever takes free blocks, and gives back all of its blocks at once.
THEOREM BlocksArePooled == Spec => ImplementsBlockPool
BY TypeInit, TypeNext, QueueOrderInit, QueueOrderNext, OwnershipInit, OwnershipNext,
   BlockSteps, OwnersAreHolders, PoolInitRefines, PoolNextRefines, PTL
   DEF Spec, ImplementsBlockPool, Pool!PoolSpec

=============================================================================
