--------------------------- MODULE BudgetProofs ---------------------------
(***************************************************************************)
(* What the limits of a configuration are enough for.                      *)
(*                                                                         *)
(* The token budget: a batch never exceeds it, and yet every running       *)
(* request takes part in every batch.  Both follow from what the running   *)
(* requests need at the least, which always fits the budget: one token of  *)
(* each that decodes, a full chunk of each that prefills, except for the   *)
(* youngest, which makes do with one token.                                *)
(*                                                                         *)
(* The pool of blocks: with a full table for each request that can hold    *)
(* blocks at one time, no running request is ever given up on.             *)
(***************************************************************************)
EXTENDS LifecycleProofs

-----------------------------------------------------------------------------
(* The inductive invariant.                                                *)

Youngest(r) == \A q \in Range(running) : q <= r

FullChunk(r) == Least(PromptTokensRemaining(r), ChunkedPrefillSize)

\* What each running request needs of a step, what step() has given it so
\* far, and what it contributes to the batch.
Needs == [r \in Requests |->
  IF r \notin Range(running) THEN 0
  ELSE IF IsPromptDone(r) \/ Youngest(r) THEN 1 ELSE FullChunk(r)]

Shares == [r \in Requests |->
  IF r \notin Range(running) THEN 0
  ELSE IF IsPromptDone(r) THEN 1 ELSE per_req_chunk[r]]

QueryLens == [r \in Requests |-> QueryLen(r)]

Planning == pc \in {"plan", "admit", "entries"}

\* A chunk size of 0 admits nobody.
ChunkingOn == running # << >> => ChunkedPrefillSize > 0

NeedsFit ==
  pc \in {"idle", "plan", "sample", "free"} => SumFunction(Needs) <= MaxNumBatchedTokens

SharesFit == Planning => SumFunction(Shares) + token_budget = MaxNumBatchedTokens

\* Nobody has a share before its turn.
Unplanned ==
  Planning =>
    /\ \A r \in Requests : r \notin Range(running) => per_req_chunk[r] = 0
    /\ pc = "plan" => \A k \in DOMAIN running : k >= at => per_req_chunk[running[k]] = 0

\* Those that had their turn have a full chunk; only the youngest may have
\* less, and then the budget is used up.
FairShares ==
  Planning =>
    \A k \in DOMAIN running :
      (pc = "plan" => k < at) /\ ~IsPromptDone(running[k]) =>
        /\ per_req_chunk[running[k]] > 0
        /\ \/ per_req_chunk[running[k]] = FullChunk(running[k])
           \/ Youngest(running[k]) /\ token_budget = 0

\* Who had its turn is finished or in the batch.
Entered ==
  /\ pc = "entries" =>
       /\ running # << >>
       /\ \A k \in DOMAIN running : k < at => status[running[k]] = "finished" \/ running[k] \in Batched
  /\ pc \in {"forward", "update", "sample", "free"} => Batched = Range(running)

BatchLens == [i \in DOMAIN batch_entries |-> batch_entries[i].q_len]

Spent ==
  /\ SumFunction(BatchLens) = SumFunction(QueryLens)
  /\ pc = "entries" =>
       \A i \in DOMAIN batch_entries : batch_entries[i].q_len = Shares[batch_entries[i].req]
  /\ pc \in {"forward", "update"} =>
       /\ SumFunction(QueryLens) <= MaxNumBatchedTokens
       /\ \A r \in Range(running) : ~IsPromptDone(r) => QueryLen(r) = FullChunk(r) \/ Youngest(r)

Budget ==
  /\ ChunkingOn /\ NeedsFit /\ SharesFit /\ Unplanned /\ FairShares /\ Entered /\ Spent

BudgetInv == LifeInv /\ Budget

-----------------------------------------------------------------------------
(* Facts that the steps share.                                             *)

LEMMA RequestsFinite == IsFiniteSet(Requests)
BY SchedulerAssumption, FS_Interval DEF Requests

LEMMA NumberTypes ==
  TypeOK => /\ Needs \in [Requests -> Nat]
            /\ Shares \in [Requests -> Nat]
            /\ QueryLens \in [Requests -> Nat]
            /\ \A r \in Requests : FullChunk(r) \in Nat /\ PromptTokensRemaining(r) \in Nat
            /\ SumFunction(Needs) \in Nat /\ SumFunction(Shares) \in Nat
            /\ SumFunction(QueryLens) \in Nat
<1> SUFFICES ASSUME TypeOK
             PROVE  /\ Needs \in [Requests -> Nat]
                    /\ Shares \in [Requests -> Nat]
                    /\ QueryLens \in [Requests -> Nat]
                    /\ \A r \in Requests : FullChunk(r) \in Nat /\ PromptTokensRemaining(r) \in Nat
                    /\ SumFunction(Needs) \in Nat /\ SumFunction(Shares) \in Nat
                    /\ SumFunction(QueryLens) \in Nat
  OBVIOUS
<1>1. ASSUME NEW r \in Requests PROVE PromptTokensRemaining(r) \in Nat /\ FullChunk(r) \in Nat
  <2>1. /\ NumPromptTokens(r) \in Nat /\ num_computed_tokens[r] \in Nat
        /\ ChunkedPrefillSize \in Nat
    BY ParamsType, SchedulerAssumption DEF TypeOK, RequestTypes
  <2>2. PromptTokensRemaining(r) \in Nat
    BY <2>1 DEF PromptTokensRemaining, Greatest
  <2> QED BY <2>1, <2>2, LeastType DEF FullChunk
<1>2. Needs \in [Requests -> Nat]
  BY <1>1 DEF Needs
<1>3. Shares \in [Requests -> Nat]
  BY DEF Shares, TypeOK, BatchTypes
<1>4. QueryLens \in [Requests -> Nat]
  BY QueryLenType DEF QueryLens
<1> QED BY <1>1, <1>2, <1>3, <1>4, RequestsFinite, SumType

\* The same types in the state after a step.
LEMMA NumberTypesNext ==
  TypeOK' => /\ Needs' \in [Requests -> Nat]
             /\ Shares' \in [Requests -> Nat]
             /\ QueryLens' \in [Requests -> Nat]
             /\ SumFunction(Needs') \in Nat /\ SumFunction(Shares') \in Nat
             /\ SumFunction(QueryLens') \in Nat
<1>1. (TypeOK => /\ Needs \in [Requests -> Nat]
                 /\ Shares \in [Requests -> Nat]
                 /\ QueryLens \in [Requests -> Nat]
                 /\ SumFunction(Needs) \in Nat /\ SumFunction(Shares) \in Nat
                 /\ SumFunction(QueryLens) \in Nat)'
  <2>1. TypeOK => /\ Needs \in [Requests -> Nat]
                 /\ Shares \in [Requests -> Nat]
                 /\ QueryLens \in [Requests -> Nat]
                 /\ SumFunction(Needs) \in Nat /\ SumFunction(Shares) \in Nat
                 /\ SumFunction(QueryLens) \in Nat
    BY NumberTypes
  <2> QED BY <2>1, PTL
<1> QED BY <1>1

\* What depends on the running list, the computed tokens, the shares and the
\* batch only.
LEMMA SameNumbers ==
  ASSUME UNCHANGED <<params, num_computed_tokens>>
  PROVE  /\ \A r \in Requests : /\ IsPromptDone(r)' = IsPromptDone(r)
                                /\ PromptTokensRemaining(r)' = PromptTokensRemaining(r)
                                /\ FullChunk(r)' = FullChunk(r)
         /\ running' = running => Needs' = Needs
         /\ UNCHANGED <<running, per_req_chunk>> => Shares' = Shares
<1>1. ASSUME NEW r \in Requests
      PROVE  /\ IsPromptDone(r)' = IsPromptDone(r)
             /\ PromptTokensRemaining(r)' = PromptTokensRemaining(r)
             /\ FullChunk(r)' = FullChunk(r)
  BY DEF IsPromptDone, PromptTokensRemaining, FullChunk, NumPromptTokens
<1>2. running' = running => Needs' = Needs
  <2> SUFFICES ASSUME running' = running PROVE Needs' = Needs
    OBVIOUS
  <2>1. \A r \in Requests : Youngest(r)' = Youngest(r)
    BY DEF Youngest
  <2> QED BY <1>1, <2>1 DEF Needs
<1>3. UNCHANGED <<running, per_req_chunk>> => Shares' = Shares
  BY <1>1 DEF Shares
<1> QED BY <1>1, <1>2, <1>3

LEMMA SameBatch ==
  ASSUME batch_entries' = batch_entries
  PROVE  /\ \A r \in Requests : QueryLen(r)' = QueryLen(r)
         /\ QueryLens' = QueryLens /\ BatchLens' = BatchLens /\ Batched' = Batched
<1>1. \A r \in Requests : QueryLen(r)' = QueryLen(r)
  BY DEF QueryLen
<1> QED BY <1>1 DEF QueryLens, BatchLens, Batched

LEMMA QueryFactsNext ==
  TypeOK' /\ BatchShape' =>
    \A r \in Requests : \A i \in DOMAIN batch_entries' :
      batch_entries'[i].req = r => QueryLen(r)' = batch_entries'[i].q_len
<1>1. TypeOK /\ BatchShape =>
        \A r \in Requests : \A i \in DOMAIN batch_entries :
          batch_entries[i].req = r => QueryLen(r) = batch_entries[i].q_len
  BY QueryFacts
<1>2. (TypeOK /\ BatchShape =>
        \A r \in Requests : \A i \in DOMAIN batch_entries :
          batch_entries[i].req = r => QueryLen(r) = batch_entries[i].q_len)'
  BY <1>1, PTL
<1> QED BY <1>2

\* The youngest stands last.
LEMMA YoungestIsLast ==
  ASSUME TypeOK, QueueOrder, NEW k \in DOMAIN running, NEW l \in DOMAIN running, k < l
  PROVE  ~Youngest(running[k])
<1>1. /\ k \in 1 .. Len(running) /\ l \in 1 .. Len(running)
      /\ running[k] \in Requests /\ running[l] \in Requests /\ running[l] \in Range(running)
  BY RunningFacts
<1>2. running[k] < running[l]
  BY <1>1 DEF QueueOrder, Increasing
<1>3. ~(running[l] <= running[k])
  BY <1>1, <1>2 DEF Requests
<1> QED BY <1>1, <1>3 DEF Youngest

LEMMA EmptyRange ==
  ASSUME NEW S, NEW s \in Seq(S)
  PROVE  Range(s) = {} <=> s = << >>
<1>1. Range(s) = {s[i] : i \in 1 .. Len(s)} /\ Len(s) \in Nat
  BY RangeEquality
<1>2. s # << >> => 1 \in 1 .. Len(s)
  BY <1>1, EmptySeq
<1>3. s = << >> => Range(s) = {}
  BY EmptySeq DEF Range
<1> QED BY <1>1, <1>2, <1>3

LEMMA EmptyBatchSum ==
  ASSUME batch_entries = << >>
  PROVE  SumFunction(BatchLens) = 0
<1>1. DOMAIN batch_entries = {} /\ IsFiniteSet({})
  BY EmptySeq, FS_EmptySet
<1>2. BatchLens \in [{} -> Nat] /\ \A x \in {} : BatchLens[x] = 0
  BY <1>1 DEF BatchLens
<1> QED BY <1>1, <1>2, SumZero

\* A request that prefills needs a token at the least, and its full chunk
\* covers one.
LEMMA NeedsOne ==
  ASSUME TypeOK, ChunkingOn, NEW r \in Range(running), r \in Requests, ~IsPromptDone(r)
  PROVE  FullChunk(r) > 0
<1>1. ChunkedPrefillSize > 0 /\ ChunkedPrefillSize \in Nat
  <2>1. running # << >>
    BY EmptyRange DEF TypeOK, QueueTypes
  <2> QED BY <2>1, SchedulerAssumption DEF ChunkingOn
<1>2. NumPromptTokens(r) \in Nat /\ num_computed_tokens[r] \in Nat
  BY ParamsType DEF TypeOK, RequestTypes
<1>3. PromptTokensRemaining(r) > 0 /\ PromptTokensRemaining(r) \in Nat
  BY <1>2 DEF IsPromptDone, PromptTokensRemaining, Greatest
<1> QED BY <1>1, <1>3 DEF FullChunk, Least

\* A new entry is of the request whose turn it is, and as long as its share.
LEMMA NewEntry ==
  ASSUME TypeOK, QueueOrder, EnterDecode \/ EnterPrefill
  PROVE  \E e \in EntryType : /\ e.req = running[at]
                              /\ batch_entries' = Append(batch_entries, e)
                              /\ e.q_len = Shares[e.req]
<1>0. AtEntry
  BY DEF EnterDecode, EnterPrefill
<1>1. PICK r \in Requests : r = running[at] /\ r \in Range(running)
  BY <1>0, TurnFacts
<1>2. CASE EnterDecode
  <2>1. Entry(r, 1, TRUE) \in EntryType /\ Entry(r, 1, TRUE).req = r /\ Entry(r, 1, TRUE).q_len = 1
    BY DEF Entry, EntryType
  <2>2. IsPromptDone(r) /\ batch_entries' = Append(batch_entries, Entry(r, 1, TRUE))
    BY <1>1, <1>2 DEF EnterDecode
  <2>3. Shares[r] = 1
    BY <1>1, <2>2 DEF Shares
  <2> QED BY <1>1, <2>1, <2>2, <2>3
<1>3. CASE EnterPrefill
  <2> DEFINE n == per_req_chunk[r]
             e == Entry(r, n, CompletesPrompt(r, n))
  <2>1. ~IsPromptDone(r) /\ n > 0 /\ batch_entries' = Append(batch_entries, e)
    BY <1>1, <1>3 DEF EnterPrefill
  <2>2. n \in Nat \ {0} /\ CompletesPrompt(r, n) \in BOOLEAN
    BY <2>1 DEF TypeOK, BatchTypes, CompletesPrompt
  <2>3. Shares[r] = n
    BY <1>1, <2>1 DEF Shares
  <2> HIDE DEF n
  <2>4. e \in EntryType /\ e.req = r /\ e.q_len = n
    BY <2>2 DEF Entry, EntryType
  <2> HIDE DEF e
  <2> QED BY <1>1, <2>1, <2>3, <2>4
<1> QED BY <1>2, <1>3

-----------------------------------------------------------------------------
(* Every step keeps the invariant.                                         *)

LEMMA BudgetInit == Init => Budget
<1> SUFFICES ASSUME Init PROVE Budget
  OBVIOUS
<1>1. running = << >> /\ batch_entries = << >> /\ pc = "idle"
  BY DEF Init
<1>2. Range(running) = {} /\ TypeOK
  BY <1>1, TypeInit, EmptySeq DEF Range
<1>3. ChunkingOn /\ SharesFit /\ Unplanned /\ FairShares /\ Entered
  BY <1>1 DEF ChunkingOn, SharesFit, Unplanned, FairShares, Entered, Planning
<1>4. NeedsFit
  <2>1. \A r \in Requests : Needs[r] = 0
    BY <1>2 DEF Needs
  <2>2. SumFunction(Needs) = 0
    BY <2>1, <1>2, NumberTypes, RequestsFinite, SumZero
  <2> QED BY <2>2, SchedulerAssumption DEF NeedsFit
<1>5. Spent
  <2>1. SumFunction(QueryLens) = 0
    <3>1. \A r \in Requests : QueryLens[r] = 0
      BY <1>1, EmptySeq DEF QueryLens, QueryLen
    <3> QED BY <3>1, <1>2, NumberTypes, RequestsFinite, SumZero
  <2>2. SumFunction(BatchLens) = 0
    BY <1>1, EmptyBatchSum
  <2> QED BY <1>1, <2>1, <2>2 DEF Spent
<1> QED BY <1>3, <1>4, <1>5 DEF Budget

LEMMA ChunkingOnNext == BudgetInv /\ [Next]_vars => ChunkingOn'
<1> SUFFICES ASSUME TypeOK, LifeInv, ChunkingOn, [Next]_vars PROVE ChunkingOn'
  BY DEF BudgetInv, Budget, LifeInv
<1>t. running \in Seq(Requests) /\ running' \in Seq(Requests)
  BY TypeNext DEF TypeOK, QueueTypes
<1>f. ASSUME Range(running') \subseteq Range(running) PROVE ChunkingOn'
  BY <1>f, <1>t, EmptyRange DEF ChunkingOn
<1>1. CASE Admit
  <2>1. /\ waiting # << >> /\ FirstChunk(NextWaiting) > 0
    BY <1>1 DEF Admit, MayAdmit, Admissible
  <2>2. /\ NumPromptTokens(NextWaiting) \in Nat /\ token_budget \in Nat /\ ChunkedPrefillSize \in Nat
    BY <2>1, HeadFacts, ParamsType, SchedulerAssumption DEF LifeInv, TypeOK, BatchTypes
  <2> QED BY <2>1, <2>2 DEF ChunkingOn, FirstChunk, Least
<1>2. CASE EndEntries \/ UpdateReturn
  BY <1>2, <1>t, <1>f, WithoutRange DEF EndEntries, StillRunning, UpdateReturn
<1>3. ASSUME NEW r \in Requests, AbortRequest(r) PROVE ChunkingOn'
  BY <1>3, <1>f DEF AbortRequest, AbortWaiting, AbortRunning, queueVars
<1>4. CASE \/ AddRequest \/ Sleep \/ StepBegin \/ PlanChunk \/ EndPlan \/ RejectTooLong
           \/ EndAdmission \/ SkipEntry \/ GrowTable \/ OutOfBlocks \/ EnterDecode \/ EnterPrefill
  BY <1>4, <1>f DEF AddRequest, Sleep, StepBegin, PlanChunk, EndPlan, RejectTooLong,
     EndAdmission, SkipEntry, GrowTable, OutOfBlocks, EnterDecode, EnterPrefill, vars, queueVars
<1>5. CASE \/ Forward \/ AdvanceComputed \/ AppendSampled \/ SkipUnsampled \/ EndSample
           \/ FreeFinished \/ UNCHANGED vars
  BY <1>5, <1>f DEF Forward, AdvanceComputed, AppendSampled, SkipUnsampled, EndSample,
     FreeFinished, vars, queueVars
<1>6. Abortable \subseteq Requests
  BY SchedulerAssumption
<1> QED
  BY <1>1, <1>2, <1>3, <1>4, <1>5, <1>6 DEF Next, EngineThread, StepTurn, UpdateTurn

\* A step that empties the running list leaves no need.
LEMMA NothingNeeded ==
  ASSUME TypeOK', Range(running') = {}
  PROVE  SumFunction(Needs') <= MaxNumBatchedTokens
<1>1. \A r \in Requests : Needs'[r] = 0
  BY DEF Needs
<1>2. SumFunction(Needs') = 0
  BY <1>1, NumberTypesNext, RequestsFinite, SumZero
<1> QED BY <1>2, SchedulerAssumption

\* The needs of the next step fit because they fit this one: a prefill that
\* goes on took a full chunk, so what it needs next is no more, and everybody
\* else needs one token and took one.
LEMMA NeedsFitNext == BudgetInv /\ [Next]_vars => NeedsFit'
<1> SUFFICES ASSUME TypeOK, LifeInv, Budget, [Next]_vars PROVE NeedsFit'
  BY DEF BudgetInv, LifeInv
<1>t. /\ running \in Seq(Requests) /\ running' \in Seq(Requests) /\ TypeOK'
      /\ num_computed_tokens \in [Requests -> Nat] /\ MaxNumBatchedTokens \in Nat
  BY TypeNext, SchedulerAssumption DEF TypeOK, QueueTypes, RequestTypes
<1>n. ASSUME pc' \notin {"idle", "plan", "sample", "free"} PROVE NeedsFit'
  BY <1>n DEF NeedsFit
<1>f. ASSUME UNCHANGED <<params, num_computed_tokens, running>>,
             pc \in {"idle", "plan", "sample", "free"}
      PROVE  NeedsFit'
  BY <1>f, SameNumbers DEF NeedsFit, Budget
<1>1. CASE EndAdmission
  <2>1. CASE running = << >>
    <3>1. Range(running') = {}
      BY <1>1, <1>t, <2>1, EmptyRange DEF EndAdmission, queueVars
    <3> QED BY <3>1, <1>t, NothingNeeded DEF NeedsFit
  <2>2. CASE running # << >>
    BY <1>1, <2>2, <1>n DEF EndAdmission
  <2> QED BY <2>1, <2>2
<1>2. CASE EndEntries
  <2>1. CASE batch_entries = << >>
    <3>1. /\ pc = "entries" /\ at > Len(running) /\ at \in Nat
          /\ Range(running') = Range(running) \ {r \in Requests : status[r] = "finished"}
      BY <1>2, <1>t, WithoutRange DEF EndEntries, StillRunning, TypeOK
    <3>2. Batched = {}
      BY <2>1, EmptySeq DEF Batched
    <3>3. \A r \in Range(running) : r \in Requests /\ status[r] = "finished"
      <4>1. \A k \in DOMAIN running : k < at
        BY <3>1, RunningFacts DEF LifeInv
      <4> QED BY <3>1, <3>2, <4>1, RunningFacts DEF LifeInv, Budget, Entered
    <3> QED BY <3>1, <3>3, <1>t, NothingNeeded DEF NeedsFit
  <2>2. CASE batch_entries # << >>
    BY <1>2, <2>2, <1>n DEF EndEntries
  <2> QED BY <2>1, <2>2
<1>3. CASE AdvanceComputed
  <2>1. /\ pc = "update" /\ UNCHANGED <<params, running>>
        /\ \A r \in Requests : num_computed_tokens'[r] = num_computed_tokens[r] + QueryLen(r)
    BY <1>3 DEF AdvanceComputed, queueVars
  <2>2. ASSUME NEW r \in Requests PROVE Needs'[r] <= QueryLens[r]
    <3>t. QueryLens[r] = QueryLen(r) /\ QueryLen(r) \in Nat /\ num_computed_tokens[r] \in Nat
          /\ NumPromptTokens(r) \in Nat /\ ChunkedPrefillSize \in Nat
      BY QueryLenType, <1>t, ParamsType, SchedulerAssumption DEF QueryLens
    <3>1. /\ IsPromptDone(r)' <=> num_computed_tokens[r] + QueryLen(r) >= NumPromptTokens(r)
          /\ FullChunk(r)' = Least(Greatest(0, NumPromptTokens(r) - (num_computed_tokens[r] + QueryLen(r))),
                                   ChunkedPrefillSize)
          /\ Youngest(r)' = Youngest(r)
      BY <2>1 DEF IsPromptDone, FullChunk, PromptTokensRemaining, NumPromptTokens, Youngest
    <3>2. Needs'[r] = IF r \notin Range(running) THEN 0
                      ELSE IF IsPromptDone(r)' \/ Youngest(r)' THEN 1 ELSE FullChunk(r)'
      BY <2>1 DEF Needs
    <3>3. CASE r \notin Range(running)
      BY <3>t, <3>2, <3>3
    <3>4. CASE r \in Range(running)
      <4>1. QueryLen(r) > 0
        <5>1. r \in Batched
          BY <2>1, <3>4 DEF Budget, Entered
        <5>2. PICK i \in DOMAIN batch_entries : batch_entries[i].req = r
          BY <5>1, EntryFacts
        <5>3. QueryLen(r) = batch_entries[i].q_len
          BY <5>2, QueryFacts DEF LifeInv, LifeCycle
        <5> QED BY <5>3, EntryFacts, <3>t
      <4>2. CASE IsPromptDone(r)' \/ Youngest(r)
        BY <3>t, <3>1, <3>2, <3>4, <4>1, <4>2
      <4>3. CASE ~IsPromptDone(r)' /\ ~Youngest(r)
        <5>1. ~IsPromptDone(r)
          BY <3>t, <3>1, <4>3 DEF IsPromptDone
        <5>2. QueryLen(r) = Least(Greatest(0, NumPromptTokens(r) - num_computed_tokens[r]),
                                  ChunkedPrefillSize)
          BY <2>1, <3>4, <4>3, <5>1 DEF Budget, Spent, FullChunk, PromptTokensRemaining
        <5>3. FullChunk(r)' <= QueryLen(r)
          BY <3>t, <3>1, <5>2 DEF Least, Greatest
        <5> QED BY <3>t, <3>1, <3>2, <3>4, <4>3, <5>3
      <4> QED BY <4>2, <4>3
    <3> QED BY <3>3, <3>4
  <2>3. SumFunction(Needs') <= SumFunction(QueryLens)
    BY <2>2, <1>t, NumberTypes, NumberTypesNext, RequestsFinite, SumMonotone
  <2>4. SumFunction(QueryLens) <= MaxNumBatchedTokens
    BY <2>1 DEF Budget, Spent
  <2> QED BY <2>3, <2>4, <1>t, NumberTypes, NumberTypesNext DEF NeedsFit
<1>4. CASE UpdateReturn
  <2>1. /\ pc = "free" /\ UNCHANGED <<params, num_computed_tokens>>
        /\ Range(running') \subseteq Range(running)
    BY <1>4, <1>t, WithoutRange DEF UpdateReturn, requestVars
  <2>2. ASSUME NEW r \in Requests PROVE Needs'[r] <= Needs[r]
    <3>1. IsPromptDone(r)' = IsPromptDone(r) /\ FullChunk(r)' = FullChunk(r) /\ FullChunk(r) \in Nat
      BY <2>1, SameNumbers, NumberTypes
    <3>2. Youngest(r) => Youngest(r)'
      BY <2>1 DEF Youngest
    <3>3. r \in Range(running) /\ ~IsPromptDone(r) => FullChunk(r) > 0
      BY NeedsOne DEF Budget
    <3> QED BY <2>1, <3>1, <3>2, <3>3 DEF Needs
  <2>3. SumFunction(Needs') <= SumFunction(Needs)
    BY <2>2, <1>t, NumberTypes, NumberTypesNext, RequestsFinite, SumMonotone
  <2>4. SumFunction(Needs) <= MaxNumBatchedTokens
    BY <2>1 DEF Budget, NeedsFit
  <2> QED BY <2>3, <2>4, <1>t, NumberTypes, NumberTypesNext DEF NeedsFit
<1>5. ASSUME NEW r \in Requests, AbortRequest(r) PROVE NeedsFit'
  BY <1>5, <1>f DEF AbortRequest, AbortWaiting, AbortRunning, queueVars
<1>6. CASE AddRequest \/ Sleep \/ StepBegin \/ PlanChunk
  BY <1>6, <1>f DEF AddRequest, Sleep, StepBegin, PlanChunk, vars, queueVars, requestVars
<1>7. CASE AppendSampled \/ SkipUnsampled \/ EndSample \/ FreeFinished
  BY <1>7, <1>f DEF AppendSampled, SkipUnsampled, EndSample, FreeFinished, queueVars, requestVars
<1>8. CASE \/ EndPlan \/ RejectTooLong \/ Admit \/ SkipEntry \/ GrowTable
           \/ OutOfBlocks \/ EnterDecode \/ EnterPrefill \/ Forward
  BY <1>8, <1>n DEF EndPlan, RejectTooLong, Admit, SkipEntry, GrowTable, OutOfBlocks,
     EnterDecode, EnterPrefill, Forward, AtEntry
<1>9. CASE UNCHANGED vars
  BY <1>9, <1>f, <1>n DEF vars, queueVars, requestVars
<1>10. Abortable \subseteq Requests
  BY SchedulerAssumption
<1> QED
  BY <1>1, <1>2, <1>3, <1>4, <1>5, <1>6, <1>7, <1>8, <1>9, <1>10
     DEF Next, EngineThread, StepTurn, UpdateTurn

LEMMA UnplannedNext == BudgetInv /\ [Next]_vars => Unplanned'
<1> SUFFICES ASSUME TypeOK, LifeInv, Unplanned, [Next]_vars PROVE Unplanned'
  BY DEF BudgetInv, Budget, LifeInv
<1>t. per_req_chunk \in [Requests -> Nat] /\ at \in Nat /\ QueueOrder
  BY DEF TypeOK, BatchTypes, LifeInv
<1>n. ASSUME ~Planning' PROVE Unplanned'
  BY <1>n DEF Unplanned
<1>f. ASSUME UNCHANGED <<per_req_chunk, running>>, Planning, pc' # "plan" \/ UNCHANGED <<pc, at>>
      PROVE  Unplanned'
  BY <1>f DEF Unplanned
<1>1. CASE StepBegin
  <2>1. (\A r \in Requests : per_req_chunk'[r] = 0) /\ running' = running
    BY <1>1 DEF StepBegin, NoChunks
  <2> QED BY <2>1, RunningFacts, <1>t DEF Unplanned
<1>2. CASE PlanChunk
  <2>1. /\ pc = "plan" /\ pc' = "plan" /\ running' = running /\ at' = at + 1 /\ at \in DOMAIN running
        /\ per_req_chunk' = [per_req_chunk EXCEPT ![running[at]] = PlannedChunk(running[at])]
    BY <1>2, <1>t, RunningFacts DEF PlanChunk, queueVars, TypeOK
  <2>2. ASSUME NEW r \in Requests, r \notin Range(running) PROVE per_req_chunk'[r] = 0
    BY <2>1, <2>2, <1>t, RunningFacts DEF Unplanned, Planning
  <2>3. ASSUME NEW k \in DOMAIN running, k >= at + 1 PROVE per_req_chunk'[running[k]] = 0
    <3>1. k \in Nat /\ k >= at /\ k # at
      BY <2>3, <1>t, RunningFacts
    <3>2. running[k] # running[at] /\ running[k] \in Requests
      BY <2>1, <2>3, <3>1, <1>t, RunningFacts
    <3> QED BY <2>1, <2>3, <3>1, <3>2, <1>t DEF Unplanned, Planning
  <2> QED BY <2>1, <2>2, <2>3 DEF Unplanned
<1>3. CASE Admit
  <2>1. /\ pc = "admit" /\ pc' = "admit" /\ waiting # << >>
        /\ running' = Append(running, NextWaiting)
        /\ per_req_chunk' = [per_req_chunk EXCEPT ![NextWaiting] = FirstChunk(NextWaiting)]
    BY <1>3 DEF Admit, MayAdmit
  <2>2. Range(running') = Range(running) \cup {NextWaiting}
    BY <2>1, <1>t, HeadFacts
  <2> QED BY <2>1, <2>2, <1>t DEF Unplanned, Planning
<1>4. CASE EndPlan \/ RejectTooLong
  BY <1>4, <1>f DEF EndPlan, RejectTooLong, localVars, queueVars, Planning
<1>5. CASE EndAdmission
  <2>1. CASE running = << >>
    BY <1>5, <2>1, <1>n DEF EndAdmission, Planning
  <2>2. CASE running # << >>
    BY <1>5, <2>2, <1>f DEF EndAdmission, localVars, queueVars, Planning
  <2> QED BY <2>1, <2>2
<1>6. CASE SkipEntry \/ GrowTable \/ OutOfBlocks \/ EnterDecode \/ EnterPrefill
  BY <1>6, <1>f DEF SkipEntry, GrowTable, OutOfBlocks, EnterDecode, EnterPrefill, AtEntry,
     localVars, queueVars, Planning
<1>7. ASSUME NEW r \in Requests, AbortRequest(r) PROVE Unplanned'
  BY <1>7, <1>n DEF AbortRequest, AbortWaiting, AbortRunning, Planning
<1>8. CASE \/ AddRequest \/ Sleep \/ EndEntries \/ Forward \/ AdvanceComputed \/ AppendSampled
           \/ SkipUnsampled \/ EndSample \/ FreeFinished \/ UpdateReturn
  BY <1>8, <1>n DEF AddRequest, Sleep, EndEntries, Forward, AdvanceComputed, AppendSampled,
     SkipUnsampled, EndSample, FreeFinished, UpdateReturn, Planning, vars
<1>9. CASE UNCHANGED vars
  BY <1>9, <1>f, <1>n DEF vars, localVars, queueVars, Planning
<1>10. Abortable \subseteq Requests
  BY SchedulerAssumption
<1> QED
  BY <1>1, <1>2, <1>3, <1>4, <1>5, <1>6, <1>7, <1>8, <1>9, <1>10
     DEF Next, EngineThread, StepTurn, UpdateTurn

\* A request that decodes is given nothing to prefill.
LEMMA DecodesGetNoChunk ==
  ASSUME TypeOK, NEW r \in Requests, IsPromptDone(r)
  PROVE  PlannedChunk(r) = 0
<1>1. NumPromptTokens(r) \in Nat /\ num_computed_tokens[r] \in Nat /\ token_budget \in Nat
      /\ ChunkedPrefillSize \in Nat
  BY ParamsType, SchedulerAssumption DEF TypeOK, RequestTypes, BatchTypes
<1>2. PromptTokensRemaining(r) = 0
  BY <1>1 DEF IsPromptDone, PromptTokensRemaining, Greatest
<1> QED BY <1>1, <1>2 DEF PlannedChunk, Least

\* As many requests decode as there are positions of decoding ones.
LEMMA DecodesCounted ==
  ASSUME TypeOK, QueueOrder
  PROVE  LET ones == [r \in Requests |-> IF r \in Range(running) /\ IsPromptDone(r) THEN 1 ELSE 0]
         IN  SumFunction(ones) = Cardinality(DecodingRunning)
<1> DEFINE T == {running[i] : i \in DecodingRunning}
           f == [i \in DecodingRunning |-> running[i]]
           ones == [r \in Requests |-> IF r \in Range(running) /\ IsPromptDone(r) THEN 1 ELSE 0]
<1>1. DecodingRunning \subseteq DOMAIN running /\ T \in SUBSET Requests
  BY RunningFacts DEF DecodingRunning
<1>2. \A r \in Requests : r \in T <=> r \in Range(running) /\ IsPromptDone(r)
  BY RunningFacts DEF DecodingRunning
<1>3. ones = [r \in Requests |-> IF r \in T THEN 1 ELSE 0]
  BY <1>2
<1>4. IsFiniteSet(T)
  BY <1>1, RequestsFinite, FS_Subset
<1>5. f \in Surjection(DecodingRunning, T)
  BY DEF Surjection
<1>6. f \in Injection(DecodingRunning, T)
  <2>1. \A i, j \in DecodingRunning : f[i] = f[j] => i = j
    BY <1>1, RunningFacts
  <2>2. f \in [DecodingRunning -> T]
    OBVIOUS
  <2> QED BY <2>1, <2>2 DEF Injection, IsInjective
<1>7. Cardinality(DecodingRunning) = Cardinality(T)
  <2> HIDE DEF f, T
  <2> QED BY <1>4, <1>5, <1>6, FS_Injection
<1>8. SumFunction([r \in Requests |-> IF r \in T THEN 1 ELSE 0]) = Cardinality(T)
  <2> HIDE DEF T
  <2> QED BY <1>1, RequestsFinite, SumOfOnes
<1> HIDE DEF T
<1> QED BY <1>3, <1>7, <1>8

\* What is handed out comes off the budget, and the decodes, which come
\* first, fit it because the needs do.
LEMMA SharesFitNext == BudgetInv /\ [Next]_vars => SharesFit'
<1> SUFFICES ASSUME TypeOK, LifeInv, Budget, [Next]_vars PROVE SharesFit'
  BY DEF BudgetInv, LifeInv
<1>t. /\ per_req_chunk \in [Requests -> Nat] /\ token_budget \in Nat /\ QueueOrder
      /\ MaxNumBatchedTokens \in Nat /\ TypeOK'
  BY TypeNext, SchedulerAssumption DEF TypeOK, BatchTypes, LifeInv
<1>n. ASSUME ~Planning' PROVE SharesFit'
  BY <1>n DEF SharesFit
<1>f. ASSUME UNCHANGED <<params, num_computed_tokens, running, per_req_chunk, token_budget>>, Planning
      PROVE  SharesFit'
  BY <1>f, SameNumbers DEF SharesFit, Budget
<1>1. CASE StepBegin
  <2> DEFINE ones == [r \in Requests |-> IF r \in Range(running) /\ IsPromptDone(r) THEN 1 ELSE 0]
  <2>1. /\ pc = "idle" /\ UNCHANGED <<params, num_computed_tokens, running>>
        /\ \A r \in Requests : per_req_chunk'[r] = 0
        /\ token_budget' = Greatest(0, MaxNumBatchedTokens - Cardinality(DecodingRunning))
    BY <1>1 DEF StepBegin, StepBudget, NoChunks, requestVars
  <2>2. Shares' = ones
    <3>1. \A r \in Requests : Shares'[r] = ones[r]
      BY <2>1, SameNumbers DEF Shares
    <3> QED BY <3>1 DEF Shares
  <2>3. SumFunction(Shares') = Cardinality(DecodingRunning)
    BY <2>2, <1>t, DecodesCounted
  <2>4. \A r \in Requests : ones[r] <= Needs[r]
    BY NumberTypes DEF Needs
  <2>5. ones \in [Requests -> Nat]
    OBVIOUS
  <2>6. SumFunction(ones) <= SumFunction(Needs)
    <3> HIDE DEF ones
    <3> QED BY <2>4, <2>5, NumberTypes, RequestsFinite, SumMonotone
  <2>7. SumFunction(Needs) <= MaxNumBatchedTokens
    BY <2>1 DEF Budget, NeedsFit
  <2>8. SumFunction(Shares') \in Nat /\ SumFunction(Shares') <= MaxNumBatchedTokens
    BY <2>2, <2>6, <2>7, <1>t, NumberTypes, NumberTypesNext
  <2> QED BY <2>1, <2>3, <2>8, <1>t DEF SharesFit, Greatest
<1>2. CASE PlanChunk
  <2>0. PICK r \in Requests : r = running[at] /\ r \in Range(running) /\ at \in DOMAIN running
    BY <1>2, <1>t, RunningFacts DEF PlanChunk, TypeOK
  <2>1. /\ pc = "plan" /\ UNCHANGED <<params, num_computed_tokens, running>>
        /\ per_req_chunk' = [per_req_chunk EXCEPT ![r] = PlannedChunk(r)]
        /\ token_budget' = token_budget - PlannedChunk(r)
    BY <1>2, <2>0 DEF PlanChunk, requestVars, queueVars
  <2>2. per_req_chunk[r] = 0 /\ PlannedChunk(r) \in Nat
    BY <2>0, <2>1, ChunkType, <1>t DEF Budget, Unplanned, Planning, TypeOK
  <2>3. \A q \in Requests : q # r => Shares'[q] = Shares[q]
    BY <2>1, <1>t, SameNumbers DEF Shares
  <2>4. Shares'[r] = Shares[r] + PlannedChunk(r)
    <3>1. IsPromptDone(r) => PlannedChunk(r) = 0
      BY DecodesGetNoChunk
    <3> QED BY <2>0, <2>1, <2>2, <3>1, <1>t, SameNumbers DEF Shares
  <2>5. SumFunction(Shares') = SumFunction(Shares) - Shares[r] + Shares'[r]
    <3>1. \A q \in Requests : q # r => Shares[q] = Shares'[q]
      BY <2>3
    <3> QED BY <3>1, <1>t, NumberTypes, NumberTypesNext, RequestsFinite, SumUpdate
  <2>6. SumFunction(Shares) + token_budget = MaxNumBatchedTokens
    BY <2>1 DEF Budget, SharesFit, Planning
  <2>7. Shares[r] \in Nat /\ SumFunction(Shares) \in Nat
    BY NumberTypes
  <2> QED BY <2>1, <2>2, <2>4, <2>5, <2>6, <2>7, <1>t DEF SharesFit
<1>3. CASE Admit
  <2>0. PICK h \in Requests : h = NextWaiting
    BY <1>3, <1>t, HeadFacts DEF Admit, MayAdmit
  <2>1. /\ pc = "admit" /\ UNCHANGED <<params, num_computed_tokens>> /\ FirstChunk(h) > 0
        /\ waiting # << >> /\ running' = Append(running, h)
        /\ per_req_chunk' = [per_req_chunk EXCEPT ![h] = FirstChunk(h)]
        /\ token_budget' = token_budget - FirstChunk(h)
    BY <1>3, <2>0 DEF Admit, MayAdmit, Admissible
  <2>2. /\ h \notin Range(running) /\ h \in Range(waiting)
        /\ Range(running') = Range(running) \cup {h}
    BY <2>0, <2>1, <1>t, HeadFacts
  <2>3. FirstChunk(h) \in Nat /\ ~IsPromptDone(h)
    <3>1. num_computed_tokens[h] = 0
      BY <2>2 DEF LifeInv, LifeCycle, Untouched
    <3>2. NumPromptTokens(h) \in Nat /\ ChunkedPrefillSize \in Nat
      BY ParamsType, SchedulerAssumption
    <3>3. NumPromptTokens(h) > 0
      BY <2>1, <3>2, <1>t DEF FirstChunk, Least
    <3> QED BY <3>1, <3>2, <3>3, ChunkType DEF IsPromptDone
  <2>4. \A q \in Requests : q # h => Shares[q] = Shares'[q]
    BY <2>1, <2>2, <1>t, SameNumbers DEF Shares
  <2>5. Shares[h] = 0 /\ Shares'[h] = FirstChunk(h)
    BY <2>1, <2>2, <2>3, <1>t, SameNumbers DEF Shares
  <2>6. SumFunction(Shares') = SumFunction(Shares) - Shares[h] + Shares'[h]
    BY <2>4, <1>t, NumberTypes, NumberTypesNext, RequestsFinite, SumUpdate
  <2>7. SumFunction(Shares) + token_budget = MaxNumBatchedTokens
    BY <2>1 DEF Budget, SharesFit, Planning
  <2>8. SumFunction(Shares) \in Nat
    BY NumberTypes
  <2> QED BY <2>1, <2>3, <2>5, <2>6, <2>7, <2>8, <1>t DEF SharesFit
<1>4. CASE EndPlan \/ RejectTooLong
  BY <1>4, <1>f DEF EndPlan, RejectTooLong, localVars, queueVars, requestVars, Planning
<1>5. CASE EndAdmission
  BY <1>5, <1>f DEF EndAdmission, localVars, queueVars, requestVars, Planning
<1>6. CASE SkipEntry \/ GrowTable \/ OutOfBlocks \/ EnterDecode \/ EnterPrefill
  BY <1>6, <1>f DEF SkipEntry, GrowTable, OutOfBlocks, EnterDecode, EnterPrefill, AtEntry,
     localVars, queueVars, requestVars, Planning
<1>7. ASSUME NEW r \in Requests, AbortRequest(r) PROVE SharesFit'
  BY <1>7, <1>n DEF AbortRequest, AbortWaiting, AbortRunning, Planning
<1>8. CASE \/ AddRequest \/ Sleep \/ EndEntries \/ Forward \/ AdvanceComputed \/ AppendSampled
           \/ SkipUnsampled \/ EndSample \/ FreeFinished \/ UpdateReturn
  BY <1>8, <1>n DEF AddRequest, Sleep, EndEntries, Forward, AdvanceComputed, AppendSampled,
     SkipUnsampled, EndSample, FreeFinished, UpdateReturn, Planning, vars
<1>9. CASE UNCHANGED vars
  BY <1>9, <1>f, <1>n DEF vars, localVars, queueVars, requestVars, Planning
<1>10. Abortable \subseteq Requests
  BY SchedulerAssumption
<1> QED
  BY <1>1, <1>2, <1>3, <1>4, <1>5, <1>6, <1>7, <1>8, <1>9, <1>10
     DEF Next, EngineThread, StepTurn, UpdateTurn

\* When the turn of a request comes, what is left of the budget covers its
\* need: nobody took more than its own, except for the youngest.
LEMMA RoomForNeed ==
  ASSUME TypeOK, QueueOrder, Budget, pc = "plan",
         NEW k \in DOMAIN running, k = at, NEW r \in Requests, r = running[k], ~IsPromptDone(r)
  PROVE  Needs[r] <= token_budget
<1> DEFINE g == [Shares EXCEPT ![r] = Needs[r]]
<1>t. /\ Shares \in [Requests -> Nat] /\ Needs \in [Requests -> Nat] /\ g \in [Requests -> Nat]
      /\ per_req_chunk \in [Requests -> Nat] /\ token_budget \in Nat /\ MaxNumBatchedTokens \in Nat
      /\ \A q \in Requests : FullChunk(q) \in Nat
      /\ SumFunction(Shares) \in Nat /\ SumFunction(Needs) \in Nat
  BY NumberTypes, SchedulerAssumption DEF TypeOK, BatchTypes
<1>0. k \in Nat /\ \A l \in DOMAIN running : l \in Nat
  BY RunningFacts
<1>1. Shares[r] = 0
  <2>1. per_req_chunk[r] = 0
    BY <1>0 DEF Budget, Unplanned, Planning
  <2> QED BY <2>1, RunningFacts DEF Shares
<1>2. ASSUME NEW q \in Requests, q # r PROVE Shares[q] <= Needs[q]
  <2>1. CASE q \notin Range(running)
    BY <2>1, <1>t DEF Shares
  <2>2. CASE q \in Range(running) /\ IsPromptDone(q)
    BY <2>2 DEF Shares, Needs
  <2>3. CASE q \in Range(running) /\ ~IsPromptDone(q)
    <3>1. PICK l \in DOMAIN running : running[l] = q
      BY <2>3, RunningFacts
    <3>2. Shares[q] = per_req_chunk[q] /\ per_req_chunk[q] \in Nat
      BY <2>3, <1>t DEF Shares
    <3>3. CASE l < k
      <4>1. ~Youngest(q)
        BY <3>1, <3>3, YoungestIsLast
      <4>2. per_req_chunk[q] = FullChunk(q)
        BY <2>3, <3>1, <3>3, <4>1 DEF Budget, FairShares, Planning
      <4>3. Needs[q] = FullChunk(q)
        BY <2>3, <4>1 DEF Needs
      <4> QED BY <3>2, <4>2, <4>3, <1>t
    <3>4. CASE ~(l < k)
      <4>1. l >= at
        BY <3>4, <1>0
      <4>2. per_req_chunk[q] = 0
        BY <3>1, <4>1 DEF Budget, Unplanned, Planning
      <4> QED BY <3>2, <4>2, <1>t
    <3> QED BY <3>3, <3>4
  <2> QED BY <2>1, <2>2, <2>3
<1>3. g[r] = Needs[r] /\ \A q \in Requests : q # r => Shares[q] = g[q]
  BY <1>t
<1>4. \A q \in Requests : g[q] <= Needs[q]
  <2>1. Needs[r] \in Nat
    BY <1>t
  <2> QED BY <1>2, <1>3, <2>1
<1> HIDE DEF g
<1>5. SumFunction(g) = SumFunction(Shares) - Shares[r] + g[r]
  BY <1>t, <1>3, RequestsFinite, SumUpdate
<1>6. SumFunction(g) <= SumFunction(Needs)
  BY <1>t, <1>4, RequestsFinite, SumMonotone
<1>7. SumFunction(Needs) <= MaxNumBatchedTokens /\ SumFunction(Shares) + token_budget = MaxNumBatchedTokens
  BY DEF Budget, NeedsFit, SharesFit, Planning
<1>8. Needs[r] \in Nat
  BY <1>t
<1> QED BY <1>t, <1>1, <1>3, <1>5, <1>6, <1>7, <1>8

LEMMA FairSharesNext == BudgetInv /\ [Next]_vars => FairShares'
<1> SUFFICES ASSUME TypeOK, LifeInv, Budget, [Next]_vars PROVE FairShares'
  BY DEF BudgetInv, LifeInv
<1>t. /\ per_req_chunk \in [Requests -> Nat] /\ token_budget \in Nat /\ ChunkedPrefillSize \in Nat
      /\ at \in Nat \ {0} /\ QueueOrder /\ FairShares
  BY SchedulerAssumption DEF TypeOK, BatchTypes, LifeInv, Budget
<1>n. ASSUME ~Planning' PROVE FairShares'
  BY <1>n DEF FairShares
<1>f. ASSUME UNCHANGED <<params, num_computed_tokens, running, per_req_chunk, token_budget>>, Planning,
             pc = "plan" => (pc' = "plan" /\ at' = at) \/ at > Len(running)
      PROVE  FairShares'
  <2>1. \A r \in Requests : Youngest(r)' = Youngest(r)
    BY <1>f DEF Youngest
  <2>2. at > Len(running) => \A k \in DOMAIN running : k < at
    BY <1>t, RunningFacts
  <2> QED BY <1>f, <1>t, <2>1, <2>2, SameNumbers, RunningFacts DEF FairShares
<1>1. CASE StepBegin
  <2>1. \A k \in DOMAIN running : ~(k < 1)
    BY <1>t, RunningFacts
  <2> QED BY <1>1, <2>1 DEF StepBegin, FairShares
<1>2. CASE PlanChunk
  <2>0. PICK r \in Requests : r = running[at] /\ r \in Range(running) /\ at \in DOMAIN running
    BY <1>2, <1>t, RunningFacts DEF PlanChunk
  <2>1. /\ pc = "plan" /\ pc' = "plan" /\ at' = at + 1 /\ UNCHANGED <<params, num_computed_tokens, running>>
        /\ per_req_chunk' = [per_req_chunk EXCEPT ![r] = PlannedChunk(r)]
        /\ token_budget' = token_budget - PlannedChunk(r)
    BY <1>2, <2>0 DEF PlanChunk, requestVars, queueVars
  <2>2. /\ PlannedChunk(r) \in Nat /\ PlannedChunk(r) <= token_budget
        /\ PromptTokensRemaining(r) \in Nat /\ FullChunk(r) \in Nat
    BY ChunkType, NumberTypes
  <2>3. \A q \in Requests : Youngest(q)' = Youngest(q)
    BY <2>1 DEF Youngest
  <2>4. ASSUME NEW k \in DOMAIN running, k < at + 1, NEW q \in Requests, q = running[k], ~IsPromptDone(q)
        PROVE  /\ per_req_chunk'[q] > 0
               /\ per_req_chunk'[q] = FullChunk(q) \/ (Youngest(q) /\ token_budget' = 0)
    <3>1. CASE k = at
      <4>1. q = r /\ per_req_chunk'[q] = PlannedChunk(r)
        BY <2>0, <2>1, <2>4, <3>1, <1>t
      <4>2. Needs[r] <= token_budget
        BY <2>0, <2>1, <2>4, <4>1, <1>t, RoomForNeed
      <4>3. FullChunk(r) > 0
        BY <2>0, <2>4, <4>1, NeedsOne DEF Budget
      <4>4. Needs[r] = IF Youngest(r) THEN 1 ELSE FullChunk(r)
        BY <2>0, <2>4, <4>1 DEF Needs
      <4>5. PlannedChunk(r) = Least(FullChunk(r), token_budget)
        BY <2>2, <1>t DEF PlannedChunk, FullChunk, Least
      <4>6. CASE Youngest(r)
        BY <2>1, <2>2, <4>1, <4>2, <4>3, <4>4, <4>5, <4>6, <1>t DEF Least
      <4>7. CASE ~Youngest(r)
        BY <2>1, <2>2, <4>1, <4>2, <4>3, <4>4, <4>5, <4>7, <1>t DEF Least
      <4> QED BY <4>6, <4>7
    <3>2. CASE k # at
      <4>1. k \in Nat /\ k < at
        BY <2>4, <3>2, <1>t, RunningFacts
      <4>2. q # r
        BY <2>0, <2>4, <3>2, <1>t, RunningFacts
      <4>3. per_req_chunk'[q] = per_req_chunk[q]
        BY <2>1, <4>2, <1>t
      <4>4. ~Youngest(q)
        BY <2>0, <2>4, <4>1, <1>t, YoungestIsLast
      <4> QED BY <2>1, <2>4, <4>1, <4>3, <4>4, <1>t DEF FairShares, Planning
    <3> QED BY <3>1, <3>2
  <2> QED BY <2>1, <2>3, <2>4, <1>t, SameNumbers, RunningFacts DEF FairShares
<1>3. CASE Admit
  <2>0. PICK h \in Requests : h = NextWaiting
    BY <1>3, <1>t, HeadFacts DEF Admit, MayAdmit
  <2>1. /\ pc = "admit" /\ pc' = "admit" /\ token_budget > 0 /\ waiting # << >>
        /\ UNCHANGED <<params, num_computed_tokens>> /\ FirstChunk(h) > 0
        /\ running' = Append(running, h)
        /\ per_req_chunk' = [per_req_chunk EXCEPT ![h] = FirstChunk(h)]
        /\ token_budget' = token_budget - FirstChunk(h)
    BY <1>3, <2>0 DEF Admit, MayAdmit, Admissible
  <2>2. /\ h \notin Range(running) /\ h \in Range(waiting)
        /\ Range(running') = Range(running) \cup {h}
        /\ \A q \in Range(running) : q < h
    BY <2>0, <2>1, <1>t, HeadFacts
  <2>3. FirstChunk(h) \in Nat /\ FirstChunk(h) <= token_budget /\ FullChunk(h) \in Nat
    BY ChunkType, NumberTypes
  <2>4. Youngest(h)'
    <3>1. \A q \in Range(running') : q <= h
      BY <2>2, <1>t, RunningFacts DEF Requests
    <3> QED BY <3>1 DEF Youngest
  <2>5. FirstChunk(h) = Least(FullChunk(h), token_budget)
    <3>1. NumPromptTokens(h) \in Nat /\ num_computed_tokens[h] = 0
      BY <2>2, ParamsType DEF LifeInv, LifeCycle, Untouched
    <3>2. PromptTokensRemaining(h) = NumPromptTokens(h)
      BY <3>1 DEF PromptTokensRemaining, Greatest
    <3> QED BY <3>1, <3>2, <1>t DEF FirstChunk, FullChunk, Least
  <2>6. FirstChunk(h) = FullChunk(h) \/ token_budget' = 0
    BY <2>1, <2>3, <2>5, <1>t DEF Least
  <2>7. ASSUME NEW k \in DOMAIN running', NEW q \in Requests, q = running'[k], ~IsPromptDone(q)
        PROVE  /\ per_req_chunk'[q] > 0
               /\ per_req_chunk'[q] = FullChunk(q) \/ (Youngest(q)' /\ token_budget' = 0)
    <3>1. CASE q = h
      BY <2>1, <2>4, <2>6, <3>1, <1>t
    <3>2. CASE q # h
      <4>1. k \in DOMAIN running /\ q = running[k]
        <5>1. running \in Seq(Requests) /\ Len(running) \in Nat /\ DOMAIN running = 1 .. Len(running)
          BY <1>t, RunningFacts
        <5>2. /\ DOMAIN running' = 1 .. Len(running) + 1 /\ running'[Len(running) + 1] = h
              /\ \A i \in 1 .. Len(running) : running'[i] = running[i]
          BY <2>1, <5>1, AppendProperties
        <5>3. k \in 1 .. Len(running) \/ k = Len(running) + 1
          BY <5>1, <5>2
        <5> QED BY <2>7, <3>2, <5>1, <5>2, <5>3
      <4>2. per_req_chunk'[q] = per_req_chunk[q]
        BY <2>1, <3>2, <1>t
      <4>3. per_req_chunk[q] > 0 /\ per_req_chunk[q] = FullChunk(q)
        BY <2>1, <2>7, <4>1, <1>t DEF FairShares, Planning
      <4> QED BY <4>2, <4>3
    <3> QED BY <3>1, <3>2
  <2>8. \A k \in DOMAIN running' : running'[k] \in Requests
    <3>1. running' \in Seq(Requests)
      BY TypeNext DEF TypeOK, QueueTypes
    <3> QED BY <3>1
  <2> QED BY <2>1, <2>7, <2>8, SameNumbers DEF FairShares
<1>4. CASE EndPlan \/ RejectTooLong
  BY <1>4, <1>f DEF EndPlan, RejectTooLong, localVars, queueVars, requestVars, Planning
<1>5. CASE EndAdmission
  BY <1>5, <1>f DEF EndAdmission, localVars, queueVars, requestVars, Planning
<1>6. CASE SkipEntry \/ GrowTable \/ OutOfBlocks \/ EnterDecode \/ EnterPrefill
  BY <1>6, <1>f DEF SkipEntry, GrowTable, OutOfBlocks, EnterDecode, EnterPrefill, AtEntry,
     localVars, queueVars, requestVars, Planning
<1>7. ASSUME NEW r \in Requests, AbortRequest(r) PROVE FairShares'
  BY <1>7, <1>n DEF AbortRequest, AbortWaiting, AbortRunning, Planning
<1>8. CASE \/ AddRequest \/ Sleep \/ EndEntries \/ Forward \/ AdvanceComputed \/ AppendSampled
           \/ SkipUnsampled \/ EndSample \/ FreeFinished \/ UpdateReturn
  BY <1>8, <1>n DEF AddRequest, Sleep, EndEntries, Forward, AdvanceComputed, AppendSampled,
     SkipUnsampled, EndSample, FreeFinished, UpdateReturn, Planning, vars
<1>9. CASE UNCHANGED vars
  BY <1>9, <1>f, <1>n DEF vars, localVars, queueVars, requestVars, Planning
<1>10. Abortable \subseteq Requests
  BY SchedulerAssumption
<1> QED
  BY <1>1, <1>2, <1>3, <1>4, <1>5, <1>6, <1>7, <1>8, <1>9, <1>10
     DEF Next, EngineThread, StepTurn, UpdateTurn

\* Nobody is passed over but the finished: every share is positive.
LEMMA EnteredNext == BudgetInv /\ [Next]_vars => Entered'
<1> SUFFICES ASSUME TypeOK, LifeInv, Budget, [Next]_vars PROVE Entered'
  BY DEF BudgetInv, LifeInv
<1>t. /\ at \in Nat \ {0} /\ QueueOrder /\ Entered /\ FairShares /\ BatchShape
      /\ running \in Seq(Requests)
      /\ status \in [Requests -> {"waiting", "prefilling", "decoding", "finished"}]
  BY DEF TypeOK, RequestTypes, QueueTypes, LifeInv, LifeCycle, Budget
<1>n. ASSUME pc' \notin {"entries", "forward", "update", "sample", "free"} PROVE Entered'
  BY <1>n DEF Entered
\* After the entries the batch is the running list.
<1>f. ASSUME pc \in {"forward", "update", "sample", "free"},
             pc' \in {"forward", "update", "sample", "free"},
             UNCHANGED <<running, batch_entries>>
      PROVE  Entered'
  BY <1>f, <1>t, SameBatch DEF Entered
\* The turn of one request.
<1>e. ASSUME pc = "entries", pc' = "entries", running' = running, Batched \subseteq Batched',
             \A r \in Requests : status[r] = "finished" => status'[r] = "finished",
             at' = at \/ (at' = at + 1 /\ (status'[running[at]] = "finished" \/ running[at] \in Batched'))
      PROVE  Entered'
  <2>1. ASSUME NEW k \in DOMAIN running, k < at'
        PROVE  status'[running[k]] = "finished" \/ running[k] \in Batched'
    <3>1. k < at \/ (k = at /\ at' = at + 1)
      BY <1>e, <1>t, <2>1, RunningFacts
    <3>2. running[k] \in Requests
      BY <1>t, RunningFacts
    <3> QED BY <1>e, <1>t, <3>1, <3>2 DEF Entered
  <2> QED BY <1>e, <1>t, <2>1 DEF Entered
<1>1. CASE EndAdmission
  <2>1. CASE running = << >>
    BY <1>1, <2>1, <1>n DEF EndAdmission
  <2>2. CASE running # << >>
    <3>1. \A k \in DOMAIN running : ~(k < 1)
      BY <1>t, RunningFacts
    <3> QED BY <1>1, <2>2, <3>1 DEF EndAdmission, queueVars, Entered
  <2> QED BY <2>1, <2>2
<1>2. CASE SkipEntry
  <2>1. ~Idles(running[at])
    <3>1. at \in DOMAIN running /\ running[at] \in Requests /\ pc = "entries"
      BY <1>2, <1>t, TurnFacts DEF SkipEntry, AtEntry
    <3>2. ~IsPromptDone(running[at]) => per_req_chunk[running[at]] > 0
      BY <3>1, <1>t DEF FairShares, Planning
    <3>3. per_req_chunk[running[at]] \in Nat
      BY <3>1 DEF TypeOK, BatchTypes
    <3> QED BY <3>2, <3>3 DEF Idles
  <2>2. Batched' = Batched
    BY <1>2, SameBatch DEF SkipEntry, localVars
  <2> QED BY <2>1, <2>2, <1>2, <1>e DEF SkipEntry, AtEntry, queueVars, requestVars
<1>3. CASE GrowTable
  <2>1. Batched' = Batched
    BY <1>3, SameBatch DEF GrowTable, localVars
  <2> QED BY <2>1, <1>3, <1>e DEF GrowTable, AtEntry, queueVars, requestVars
<1>4. CASE OutOfBlocks
  <2>0. PICK r \in Requests : r = running[at]
    BY <1>4, <1>t, TurnFacts DEF OutOfBlocks
  <2>1. Batched' = Batched
    BY <1>4, SameBatch DEF OutOfBlocks, localVars
  <2>2. status' = [status EXCEPT ![r] = "finished"]
    BY <1>4, <2>0 DEF OutOfBlocks, Finish
  <2>3. status'[r] = "finished" /\ \A q \in Requests : status[q] = "finished" => status'[q] = "finished"
    BY <2>2, <1>t
  <2> QED BY <2>0, <2>1, <2>3, <1>4, <1>e DEF OutOfBlocks, AtEntry
<1>5. CASE EnterDecode \/ EnterPrefill
  <2>1. AtEntry
    BY <1>5 DEF EnterDecode, EnterPrefill
  <2>2. PICK e \in EntryType :
          e.req = running[at] /\ batch_entries' = Append(batch_entries, e) /\ e.q_len = Shares[e.req]
    BY <1>5, <1>t, NewEntry
  <2>3. Batched' = Batched \cup {running[at]}
    BY <2>2, AppendEntry
  <2> QED BY <2>1, <2>3, <1>5, <1>e
          DEF EnterDecode, EnterPrefill, AtEntry, queueVars, requestVars
<1>6. CASE EndEntries
  <2>1. CASE batch_entries = << >>
    BY <1>6, <2>1, <1>n DEF EndEntries
  <2>2. CASE batch_entries # << >>
    <3>1. /\ pc = "entries" /\ pc' = "forward" /\ batch_entries' = batch_entries
          /\ at > Len(running) /\ Range(running') = Range(running) \ {r \in Requests : status[r] = "finished"}
      BY <1>6, <2>2, <1>t, WithoutRange DEF EndEntries, StillRunning
    <3>2. ASSUME NEW r \in Range(running), status[r] # "finished" PROVE r \in Batched
      <4>1. PICK k \in DOMAIN running : running[k] = r
        BY <1>t, RunningFacts
      <4>2. k < at
        BY <3>1, <1>t, RunningFacts
      <4> QED BY <3>1, <3>2, <4>1, <4>2, <1>t DEF Entered
    <3>3. \A r \in Batched : r \in Requests /\ r \in Range(running) /\ status[r] # "finished"
      BY <3>1, <1>t, EntryFacts DEF LifeInv, LifeCycle, EntriesLive, BatchShape
    <3>4. Batched' = Range(running')
      <4>1. Batched' = Batched
        BY <3>1, SameBatch
      <4>2. \A r \in Range(running') : r \in Range(running) /\ r \in Requests /\ status[r] # "finished"
        BY <3>1, <1>t, RunningFacts
      <4>3. \A r \in Batched : r \in Range(running')
        BY <3>1, <3>3
      <4> QED BY <3>2, <4>1, <4>2, <4>3
    <3> QED BY <3>1, <3>4 DEF Entered
  <2> QED BY <2>1, <2>2
<1>7. CASE \/ Forward \/ AdvanceComputed \/ AppendSampled \/ SkipUnsampled \/ EndSample \/ FreeFinished
  BY <1>7, <1>f DEF Forward, AdvanceComputed, AppendSampled, SkipUnsampled, EndSample,
     FreeFinished, localVars, queueVars
<1>8. ASSUME NEW r \in Requests, AbortRequest(r) PROVE Entered'
  BY <1>8, <1>n DEF AbortRequest, AbortWaiting, AbortRunning
<1>9. CASE \/ AddRequest \/ Sleep \/ StepBegin \/ PlanChunk \/ EndPlan \/ RejectTooLong \/ Admit
           \/ UpdateReturn
  BY <1>9, <1>n DEF AddRequest, Sleep, StepBegin, PlanChunk, EndPlan, RejectTooLong, Admit,
     UpdateReturn, vars
<1>10. CASE UNCHANGED vars
  <2>1. Batched' = Batched
    BY <1>10, SameBatch DEF vars, localVars
  <2> QED BY <1>10, <2>1, <1>t DEF vars, queueVars, requestVars, Entered
<1>11. Abortable \subseteq Requests
  BY SchedulerAssumption
<1> QED
  BY <1>1, <1>2, <1>3, <1>4, <1>5, <1>6, <1>7, <1>8, <1>9, <1>10, <1>11
     DEF Next, EngineThread, StepTurn, UpdateTurn

\* The batch is what the shares allow, and its length is the sum of them.
LEMMA SpentNext == BudgetInv /\ [Next]_vars => Spent'
<1> SUFFICES ASSUME TypeOK, LifeInv, Budget, [Next]_vars PROVE Spent'
  BY DEF BudgetInv, LifeInv
<1>t. /\ at \in Nat \ {0} /\ QueueOrder /\ Spent /\ BatchShape /\ TypeOK'
      /\ running \in Seq(Requests) /\ MaxNumBatchedTokens \in Nat
  BY TypeNext, SchedulerAssumption DEF TypeOK, QueueTypes, LifeInv, LifeCycle, Budget
<1>n. ASSUME batch_entries' = batch_entries, pc' \notin {"entries", "forward", "update"} PROVE Spent'
  BY <1>n, <1>t, SameBatch DEF Spent
<1>f. ASSUME UNCHANGED <<params, num_computed_tokens, running, per_req_chunk, batch_entries>>,
             pc' = "entries" => pc = "entries" \/ batch_entries = << >>,
             pc' \in {"forward", "update"} => pc \in {"forward", "update"}
      PROVE  Spent'
  <2>1. SumFunction(BatchLens') = SumFunction(QueryLens')
    BY <1>f, <1>t, SameBatch DEF Spent
  <2>2. ASSUME pc' = "entries", NEW i \in DOMAIN batch_entries
        PROVE  batch_entries[i].q_len = Shares'[batch_entries[i].req]
    <3>1. DOMAIN << >> = {}
      BY EmptySeq
    <3>2. pc = "entries"
      BY <1>f, <2>2, <3>1
    <3> QED BY <1>f, <1>t, <2>2, <3>2, SameNumbers DEF Spent
  <2>3. ASSUME pc' \in {"forward", "update"}
        PROVE  /\ SumFunction(QueryLens') <= MaxNumBatchedTokens
               /\ \A r \in Range(running') : ~IsPromptDone(r)' =>
                     QueryLen(r)' = FullChunk(r)' \/ Youngest(r)'
    <3>1. pc \in {"forward", "update"} /\ QueryLens' = QueryLens
      BY <1>f, <2>3, SameBatch
    <3>2. \A r \in Requests : Youngest(r)' = Youngest(r)
      BY <1>f DEF Youngest
    <3> QED BY <1>f, <1>t, <3>1, <3>2, SameNumbers, SameBatch, RunningFacts DEF Spent
  <2> QED BY <1>f, <2>1, <2>2, <2>3 DEF Spent
<1>1. CASE EnterDecode \/ EnterPrefill
  <2>1. /\ pc = "entries" /\ pc' = "entries"
        /\ UNCHANGED <<params, num_computed_tokens, running, per_req_chunk>>
    BY <1>1 DEF EnterDecode, EnterPrefill, AtEntry, queueVars, requestVars
  <2>2. PICK e \in EntryType :
          e.req = running[at] /\ batch_entries' = Append(batch_entries, e) /\ e.q_len = Shares[e.req]
    BY <1>1, <1>t, NewEntry
  <2>3. AtEntry
    BY <1>1 DEF EnterDecode, EnterPrefill
  <2>4. PICK r \in Requests : r = running[at] /\ r = e.req /\ r \notin Batched
    BY <2>1, <2>2, <2>3, <1>t, TurnFacts DEF BatchShape
  <2> DEFINE n == Len(batch_entries)
  <2>5. /\ DOMAIN batch_entries = 1 .. n /\ DOMAIN batch_entries' = 1 .. n + 1 /\ n \in Nat
        /\ \A i \in 1 .. n : batch_entries'[i] = batch_entries[i]
        /\ batch_entries'[n + 1] = e
        /\ Batched' = Batched \cup {r}
    BY <2>2, <2>4, AppendEntry
  <2>6. Shares' = Shares /\ e.q_len \in Nat
    BY <2>1, SameNumbers DEF EntryType
  <2> HIDE DEF n
  <2>7. \A i \in 1 .. n + 1 : i \in 1 .. n \/ i = n + 1
    BY <2>5
  <2>8. SumFunction(BatchLens') = SumFunction(BatchLens) + e.q_len
    <3> DEFINE f == BatchLens
               g == BatchLens'
               S == 1 .. n
               T == 1 .. n + 1
    <3>1. f \in [S -> Nat]
      BY <2>5, EntryFacts DEF BatchLens
    <3>2. g = [i \in T |-> batch_entries'[i].q_len]
      BY <2>5 DEF BatchLens
    <3>3. ASSUME NEW i \in T PROVE g[i] \in Nat
      <4>1. CASE i \in 1 .. n
        BY <2>5, <3>2, <3>3, <4>1, EntryFacts
      <4>2. CASE i = n + 1
        BY <2>5, <2>6, <3>2, <3>3, <4>2
      <4> QED BY <2>7, <3>3, <4>1, <4>2
    <3>4. IsFiniteSet(S) /\ n + 1 \notin S /\ T = S \cup {n + 1}
      <4>1. IsFiniteSet(1 .. n)
        BY <2>5, FS_Interval
      <4>2. n + 1 \notin 1 .. n /\ n + 1 \in 1 .. n + 1 /\ 1 .. n \subseteq 1 .. n + 1
        BY <2>5
      <4> QED BY <2>7, <4>1, <4>2
    <3>5. n + 1 \in T
      BY <2>5
    <3>6. g[n + 1] = e.q_len /\ \A i \in S : f[i] = g[i]
      BY <2>5, <3>2, <3>4, <3>5 DEF BatchLens
    <3>7. g \in [T -> Nat]
      BY <3>2, <3>3
    <3> HIDE DEF f, g, S, T
    <3>8. SumFunction(g) = SumFunction(f) + g[n + 1]
      <4> DEFINE m == n + 1
      <4>1. m \notin S /\ T = S \cup {m} /\ \A i \in S : f[i] = g[i]
        BY <3>4, <3>6
      <4> HIDE DEF m
      <4>2. SumFunction(g) = SumFunction(f) + g[m]
        BY <3>1, <3>4, <3>7, <4>1, SumExtend
      <4> QED BY <4>2 DEF m
    <3> QED BY <3>6, <3>8 DEF f, g
  <2>9. SumFunction(QueryLens') = SumFunction(QueryLens) + e.q_len
    <3>b. BatchShape'
      BY BatchShapeNext DEF LifeInv
    <3>q. \A q \in Requests : \A i \in DOMAIN batch_entries' :
            batch_entries'[i].req = q => QueryLen(q)' = batch_entries'[i].q_len
      BY <3>b, <1>t, QueryFactsNext
    <3>1. QueryLen(r)' = e.q_len
      <4>1. n + 1 \in DOMAIN batch_entries' /\ batch_entries'[n + 1].req = r
        BY <2>4, <2>5
      <4> QED BY <2>5, <3>q, <4>1
    <3>2. ASSUME NEW q \in Requests, q # r PROVE QueryLen(q)' = QueryLen(q)
      <4>1. CASE q \in Batched
        <5>1. PICK i \in 1 .. n : batch_entries[i].req = q
          BY <2>5, <4>1, EntryFacts
        <5>2. i \in DOMAIN batch_entries' /\ batch_entries'[i] = batch_entries[i]
          BY <2>5
        <5>3. QueryLen(q)' = batch_entries[i].q_len
          BY <5>1, <5>2, <3>q
        <5>4. QueryLen(q) = batch_entries[i].q_len
          BY <2>5, <5>1, <1>t, QueryFacts
        <5> QED BY <5>3, <5>4
      <4>2. CASE q \notin Batched
        <5>1. q \notin Batched'
          BY <2>5, <3>2, <4>2
        <5>2. QueryLen(q)' = 0
          BY <5>1 DEF QueryLen, Batched
        <5> QED BY <4>2, <5>2, <1>t, QueryFacts
      <4> QED BY <4>1, <4>2
    <3>3. QueryLen(r) = 0
      BY <2>4, <1>t, QueryFacts
    <3>4. /\ QueryLens[r] = 0 /\ QueryLens'[r] = e.q_len
          /\ \A q \in Requests : q # r => QueryLens[q] = QueryLens'[q]
      BY <3>1, <3>2, <3>3 DEF QueryLens
    <3>5. SumFunction(QueryLens') = SumFunction(QueryLens) - QueryLens[r] + QueryLens'[r]
      <4>1. \A q \in Requests : q # r => QueryLens[q] = QueryLens'[q]
        BY <3>4
      <4>2. QueryLens \in [Requests -> Nat] /\ QueryLens' \in [Requests -> Nat]
        BY <1>t, NumberTypes, NumberTypesNext
      <4> QED BY <4>1, <4>2, RequestsFinite, SumUpdate
    <3>6. SumFunction(QueryLens) \in Nat
      BY NumberTypes
    <3> QED BY <2>6, <3>4, <3>5, <3>6
  <2>10. \A i \in DOMAIN batch_entries' : batch_entries'[i].q_len = Shares'[batch_entries'[i].req]
    BY <2>1, <2>2, <2>5, <2>6, <2>7, <1>t DEF Spent
  <2> QED BY <2>1, <2>8, <2>9, <2>10, <1>t DEF Spent
<1>2. CASE EndEntries
  <2>1. CASE batch_entries = << >>
    BY <1>2, <2>1, <1>n DEF EndEntries
  <2>2. CASE batch_entries # << >>
    <3>1. /\ pc = "entries" /\ pc' = "forward" /\ batch_entries' = batch_entries
          /\ UNCHANGED <<params, num_computed_tokens>>
          /\ Range(running') = Range(running) \ {r \in Requests : status[r] = "finished"}
      BY <1>2, <2>2, <1>t, WithoutRange DEF EndEntries, StillRunning, requestVars
    <3>2. \A r \in Batched : QueryLen(r) = Shares[r]
      BY <3>1, <1>t, EntryFacts, QueryFacts DEF Spent
    <3>3. \A r \in Requests : QueryLens[r] <= Shares[r]
      <4>1. ASSUME NEW r \in Requests PROVE QueryLen(r) <= Shares[r]
        <5>1. Shares[r] \in Nat
          BY NumberTypes
        <5> QED BY <3>2, <5>1, <1>t, QueryFacts
      <4> QED BY <4>1 DEF QueryLens
    <3>4. SumFunction(QueryLens) <= SumFunction(Shares)
      BY <3>3, NumberTypes, RequestsFinite, SumMonotone
    <3>5. SumFunction(Shares) + token_budget = MaxNumBatchedTokens /\ token_budget \in Nat
      BY <3>1 DEF Budget, SharesFit, Planning, TypeOK, BatchTypes
    <3>6. SumFunction(QueryLens) <= MaxNumBatchedTokens
      BY <3>4, <3>5, <1>t, NumberTypes
    <3>7. ASSUME NEW r \in Range(running'), ~IsPromptDone(r)
          PROVE  QueryLen(r) = FullChunk(r) \/ Youngest(r)'
      <4>1. PICK k \in DOMAIN running : running[k] = r /\ r \in Requests
        BY <3>1, <1>t, RunningFacts
      <4>2. Youngest(r) => Youngest(r)'
        BY <3>1 DEF Youngest
      <4>3. per_req_chunk[r] = FullChunk(r) \/ Youngest(r)
        BY <3>1, <3>7, <4>1 DEF Budget, FairShares, Planning
      <4>4. r \in Batched
        <5>1. Batched' = Range(running')
          BY <3>1, EnteredNext DEF BudgetInv, Entered
        <5> QED BY <3>1, <3>7, <5>1, SameBatch
      <4>5. QueryLen(r) = per_req_chunk[r]
        BY <3>1, <3>2, <3>7, <4>1, <4>4 DEF Shares
      <4> QED BY <4>2, <4>3, <4>5
    <3>8. \A r \in Range(running') : r \in Requests
      BY <3>1, <1>t, RunningFacts
    <3> QED BY <3>1, <3>6, <3>7, <3>8, <1>t, SameBatch, SameNumbers DEF Spent
  <2> QED BY <2>1, <2>2
<1>3. CASE EndAdmission
  BY <1>3, <1>t, <1>f DEF EndAdmission, BatchShape, localVars, queueVars, requestVars
<1>4. CASE UpdateReturn
  <2>1. batch_entries' = << >> /\ pc' = "idle"
    BY <1>4 DEF UpdateReturn
  <2>2. SumFunction(BatchLens') = 0
    <3>1. DOMAIN batch_entries' = {} /\ IsFiniteSet({})
      BY <2>1, EmptySeq, FS_EmptySet
    <3>2. BatchLens' \in [{} -> Nat] /\ \A x \in {} : BatchLens'[x] = 0
      BY <3>1 DEF BatchLens
    <3> QED BY <3>1, <3>2, SumZero
  <2>3. SumFunction(QueryLens') = 0
    <3>1. \A r \in Requests : QueryLens'[r] = 0
      BY <2>1, EmptySeq DEF QueryLens, QueryLen
    <3> QED BY <3>1, <1>t, NumberTypesNext, RequestsFinite, SumZero
  <2> QED BY <2>1, <2>2, <2>3 DEF Spent
<1>5. CASE SkipEntry \/ GrowTable \/ OutOfBlocks
  BY <1>5, <1>f DEF SkipEntry, GrowTable, OutOfBlocks, AtEntry, localVars, queueVars, requestVars
<1>6. CASE Forward
  BY <1>6, <1>f DEF Forward, localVars, queueVars, requestVars
<1>7. CASE \/ AddRequest \/ Sleep \/ StepBegin \/ PlanChunk \/ EndPlan \/ RejectTooLong \/ Admit
  BY <1>7, <1>n DEF AddRequest, Sleep, StepBegin, PlanChunk, EndPlan, RejectTooLong, Admit,
     localVars, vars
<1>8. CASE AdvanceComputed \/ AppendSampled \/ SkipUnsampled \/ EndSample \/ FreeFinished
  BY <1>8, <1>n DEF AdvanceComputed, AppendSampled, SkipUnsampled, EndSample, FreeFinished, localVars
<1>9. CASE UNCHANGED vars
  BY <1>9, <1>f DEF vars, localVars, queueVars, requestVars
<1>10. ASSUME NEW r \in Requests, AbortRequest(r) PROVE Spent'
  BY <1>10, <1>n DEF AbortRequest, AbortWaiting, AbortRunning, localVars
<1>11. Abortable \subseteq Requests
  BY SchedulerAssumption
<1> QED
  BY <1>1, <1>2, <1>3, <1>4, <1>5, <1>6, <1>7, <1>8, <1>9, <1>10, <1>11
     DEF Next, EngineThread, StepTurn, UpdateTurn

LEMMA BudgetNext == BudgetInv /\ [Next]_vars => BudgetInv'
BY LifeNext, ChunkingOnNext, NeedsFitNext, SharesFitNext, UnplannedNext, FairSharesNext,
   EnteredNext, SpentNext DEF BudgetInv, Budget

LEMMA BudgetCorrect == Spec => []BudgetInv
<1>1. Init => BudgetInv
  BY TypeInit, QueueOrderInit, LifeInit, BudgetInit DEF BudgetInv, LifeInv
<1> QED BY <1>1, BudgetNext, PTL DEF Spec

-----------------------------------------------------------------------------
(* What the invariant gives.                                               *)

\* A batch never has more tokens than max_num_batched_tokens, although step()
\* gives every decoding request its token before it looks at the budget.
THEOREM BatchFitsBudget == Spec => []BatchWithinBudget
<1>1. BudgetInv => BatchWithinBudget
  BY DEF BudgetInv, Budget, Spent, BatchLens, BatchWithinBudget
<1> QED BY <1>1, BudgetCorrect, PTL

\* A prefilling request with a younger one behind it has its full chunk: no
\* admission slows down a prefill that is under way.
THEOREM OlderPrefillIsFirst == Spec => []OlderPrefillFirst
<1>1. BudgetInv => OlderPrefillFirst
  <2> SUFFICES ASSUME TypeOK, QueueOrder, Budget, pc = "entries",
                      NEW i \in DOMAIN running, NEW j \in DOMAIN running, i < j,
                      ~IsPromptDone(running[i])
               PROVE  per_req_chunk[running[i]] = FullChunk(running[i])
    BY DEF BudgetInv, LifeInv, OlderPrefillFirst, FullChunk
  <2>1. ~Youngest(running[i])
    BY YoungestIsLast
  <2> QED BY <2>1 DEF Budget, FairShares, Planning
<1> QED BY <1>1, BudgetCorrect, PTL

\* Every running request takes part in every batch, and no finished one does.
THEOREM EveryoneTakesPart == Spec => []EveryoneAdvances
<1>1. BudgetInv => EveryoneAdvances
  <2> SUFFICES ASSUME TypeOK, LifeCycle, Budget, pc = "forward" PROVE EveryoneAdvances
    BY DEF BudgetInv, LifeInv, EveryoneAdvances
  <2>1. Batched = Range(running)
    BY DEF Budget, Entered
  <2>2. \A r \in Batched : status[r] # "finished"
    BY EntryFacts DEF LifeCycle, EntriesLive
  <2> QED BY <2>1, <2>2 DEF EveryoneAdvances
<1> QED BY <1>1, BudgetCorrect, PTL

\* A step() that comes back without a batch, while requests were running, has
\* dropped them all: the engine loop cannot spin on an empty batch.
THEOREM EmptyStepMakesProgress == Spec => EmptyStepDropsEveryone
<1>1. BudgetInv /\ [Next]_vars =>
        (pc = "entries" /\ pc' = "idle" => running # << >> /\ running' = << >>)
  <2> SUFFICES ASSUME TypeOK, QueueOrder, LifeCycle, Budget, [Next]_vars, pc = "entries", pc' = "idle"
               PROVE  running # << >> /\ running' = << >>
    BY DEF BudgetInv, LifeInv
  <2>1. EndEntries
    <3>1. \A r \in Requests : ~AbortRequest(r)
      BY DEF AbortRequest, AbortWaiting, AbortRunning
    <3>2. pc' # pc /\ Abortable \subseteq Requests
      BY SchedulerAssumption
    <3> QED BY <3>1, <3>2 DEF Next, EngineThread, StepTurn, UpdateTurn, AddRequest, Sleep, StepBegin,
            PlanChunk, EndPlan, RejectTooLong, Admit, EndAdmission, SkipEntry, GrowTable, OutOfBlocks,
            EnterDecode, EnterPrefill, AtEntry, Forward, AdvanceComputed, AppendSampled,
            SkipUnsampled, EndSample, FreeFinished, UpdateReturn, vars
  <2>2. /\ running \in Seq(Requests) /\ running' \in Seq(Requests) /\ batch_entries = << >>
        /\ at > Len(running) /\ at \in Nat
        /\ Range(running') = Range(running) \ {r \in Requests : status[r] = "finished"}
    <3>1. running \in Seq(Requests) /\ running' \in Seq(Requests)
      BY TypeNext DEF TypeOK, QueueTypes
    <3> QED BY <2>1, <3>1, WithoutRange DEF EndEntries, StillRunning, TypeOK
  <2>3. Batched = {} /\ running # << >>
    BY <2>2, EmptySeq DEF Batched, Budget, Entered
  <2>4. \A r \in Range(running) : r \in Requests /\ status[r] = "finished"
    <3>1. \A k \in DOMAIN running : k < at
      BY <2>2, RunningFacts
    <3> QED BY <2>3, <3>1, RunningFacts DEF Budget, Entered
  <2>5. running' = << >>
    BY <2>2, <2>4, EmptyRange
  <2> QED BY <2>3, <2>5
<1> QED BY <1>1, BudgetCorrect, PTL DEF Spec, EmptyStepDropsEveryone

-----------------------------------------------------------------------------
(* A pool that is large enough.  Only running requests hold blocks, and    *)
(* those that were aborted while running, whose blocks never come back; so *)
(* a pool with a full table for each of them is never empty when a running *)
(* request needs a block.                                                  *)

\* No table is ever longer than this: a prompt has up to max_model_len tokens.
TableLimit == Greatest(1, CeilDiv(MaxModelLen, BlockSize))

\* How many requests can hold blocks at the same time.
MostHolders == Least(NumRequests, MaxNumSeqs + Cardinality(Abortable))

EnoughBlocks == MostHolders * TableLimit <= NumBlocks - 1

\* step() has given up on no request for want of a block.
NobodyStarves == \A r \in Requests : ~Starved(r)

Holders == {r \in Requests : block_table[r] # << >>}

TablesFit == \A r \in Requests : Len(block_table[r]) <= TableLimit

FewRun == Cardinality(Range(running)) <= MaxNumSeqs

\* A reason is given only to the finished, and only those are on the list of
\* what finished in this step.
ReasonsKnown ==
  /\ \A r \in Requests : finish_reason[r] # "none" => status[r] = "finished"
  /\ \A r \in Range(finished_this_step) : status[r] = "finished"

\* Whoever leaves the running list without giving back its blocks was aborted.
HoldersKnown ==
  /\ Holders \subseteq Range(running) \cup Abortable
  /\ pc \notin {"sample", "free"} =>
       \A r \in Range(running) : status[r] = "finished" => r \in Abortable

Capacity == TablesFit /\ FewRun /\ ReasonsKnown /\ HoldersKnown /\ NobodyStarves

CapacityInv == LifeInv /\ BlockOwnership /\ Capacity

-----------------------------------------------------------------------------
(* Counting.                                                               *)

LEMMA CeilMonotone ==
  ASSUME NEW a \in Nat, NEW c \in Nat, a <= c, NEW b \in Nat \ {0}
  PROVE  CeilDiv(a, b) \in Nat /\ CeilDiv(c, b) \in Nat /\ CeilDiv(a, b) <= CeilDiv(c, b)
<1> DEFINE x == CeilDiv(a, b)
           y == CeilDiv(c, b)
<1>1. x \in Nat /\ y \in Nat
  BY CeilDivType
<1>2. /\ a + b - 1 = (b * x) + ((a + b - 1) % b) /\ (a + b - 1) % b \in 0 .. b - 1
      /\ c + b - 1 = (b * y) + ((c + b - 1) % b) /\ (c + b - 1) % b \in 0 .. b - 1
  BY DEF CeilDiv
<1> HIDE DEF x, y
<1>3. b * x <= a + b - 1 /\ c + b - 1 < b * y + b
  BY <1>1, <1>2
<1>4. b * x < b * (y + 1)
  BY <1>1, <1>3
<1>5. x < y + 1
  BY <1>1, <1>4
<1> QED BY <1>1, <1>5 DEF x, y

LEMMA LimitTypes ==
  /\ TableLimit \in Nat /\ TableLimit > 0 /\ MostHolders \in Nat
  /\ IsFiniteSet(Abortable) /\ Cardinality(Abortable) \in Nat
  /\ MostHolders <= NumRequests \/ MostHolders <= MaxNumSeqs + Cardinality(Abortable)
<1>1. /\ NumRequests \in Nat /\ MaxNumSeqs \in Nat /\ MaxModelLen \in Nat
      /\ BlockSize \in Nat \ {0} /\ Abortable \subseteq Requests
  BY SchedulerAssumption
<1>2. IsFiniteSet(Abortable) /\ Cardinality(Abortable) \in Nat
  BY <1>1, RequestsFinite, FS_Subset, FS_CardinalityType
<1>3. CeilDiv(MaxModelLen, BlockSize) \in Nat
  BY <1>1, CeilDivType
<1>4. TableLimit \in Nat /\ TableLimit > 0
  BY <1>3 DEF TableLimit, Greatest
<1> QED BY <1>1, <1>2, <1>4 DEF MostHolders, Least

\* A list has no more members than places.
LEMMA RangeBound ==
  ASSUME NEW S, NEW s \in Seq(S)
  PROVE  IsFiniteSet(Range(s)) /\ Cardinality(Range(s)) \in Nat /\ Cardinality(Range(s)) <= Len(s)
<1>1. Len(s) \in Nat /\ DOMAIN s = 1 .. Len(s) /\ Range(s) = {s[i] : i \in 1 .. Len(s)}
  BY RangeEquality
<1>2. s \in Surjection(1 .. Len(s), Range(s))
  BY <1>1 DEF Surjection
<1>3. IsFiniteSet(1 .. Len(s)) /\ Cardinality(1 .. Len(s)) = Len(s)
  BY <1>1, FirstNumbers
<1>4. IsFiniteSet(Range(s)) /\ Cardinality(Range(s)) <= Len(s)
  BY <1>2, <1>3, FS_Surjection
<1> QED BY <1>4, FS_CardinalityType

\* Those that hold blocks, or may want some, are never more than MostHolders.
LEMMA FewHold ==
  ASSUME TypeOK, QueueOrder, FewRun, HoldersKnown
  PROVE  LET H == Holders \cup Range(running)
         IN  IsFiniteSet(H) /\ Cardinality(H) \in Nat /\ Cardinality(H) <= MostHolders
<1> DEFINE H == Holders \cup Range(running)
<1>t. /\ NumRequests \in Nat /\ MaxNumSeqs \in Nat /\ Cardinality(Abortable) \in Nat
      /\ IsFiniteSet(Abortable)
  BY SchedulerAssumption, LimitTypes
<1>1. IsFiniteSet(Requests) /\ Cardinality(Requests) = NumRequests
  <2>1. IsFiniteSet(1 .. NumRequests) /\ Cardinality(1 .. NumRequests) = NumRequests
    BY <1>t, FirstNumbers
  <2> QED BY <2>1 DEF Requests
<1>2. H \in SUBSET Requests
  BY RunningFacts DEF Holders
<1>3. IsFiniteSet(H) /\ Cardinality(H) \in Nat /\ Cardinality(H) <= NumRequests
  BY <1>1, <1>2, FS_Subset, FS_CardinalityType
<1> DEFINE run == Range(running)
<1>4. IsFiniteSet(run) /\ Cardinality(run) \in Nat /\ Cardinality(run) <= MaxNumSeqs
  BY RangeBound DEF TypeOK, QueueTypes, FewRun
<1>5. H \in SUBSET (run \cup Abortable)
  BY DEF HoldersKnown
<1> HIDE DEF run, H
<1>6. /\ IsFiniteSet(run \cup Abortable)
      /\ Cardinality(run \cup Abortable)
           = Cardinality(run) + Cardinality(Abortable) - Cardinality(run \cap Abortable)
  BY <1>t, <1>4, FS_Union
<1>7. Cardinality(run \cap Abortable) \in Nat
  BY <1>4, FS_Intersection, FS_CardinalityType
<1>8. Cardinality(H) <= Cardinality(run \cup Abortable)
  BY <1>5, <1>6, FS_Subset
<1>9. Cardinality(H) <= MaxNumSeqs + Cardinality(Abortable)
  BY <1>t, <1>3, <1>4, <1>6, <1>7, <1>8
<1> QED BY <1>3, <1>9 DEF MostHolders, Least, H

\* The heart of the matter: with the pool empty every block is at some place in
\* the table of a holder, and those places are more than the blocks.
LEMMA PoolSuffices ==
  ASSUME EnoughBlocks, TypeOK, QueueOrder, BlockOwnership, TablesFit, FewRun, HoldersKnown,
         NEW r \in Range(running), r \in Requests, Len(block_table[r]) < TableLimit
  PROVE  CanAllocate(1)
<1> SUFFICES ASSUME ~CanAllocate(1) PROVE FALSE
  OBVIOUS
<1>t. /\ free \in Seq(Blocks) /\ block_table \in [Requests -> Seq(Blocks)]
      /\ NumBlocks \in Nat \ {0} /\ TableLimit \in Nat /\ MostHolders \in Nat
  BY AllocatorAssumption, LimitTypes DEF TypeOK, BlockTypes
<1>1. Range(free) = {}
  <2>1. free = << >>
    <3>1. Len(free) \in Nat /\ ~(Len(free) >= 1)
      BY <1>t DEF CanAllocate
    <3> QED BY <3>1, <1>t, EmptySeq
  <2> QED BY <2>1, EmptySeq DEF Range
<1>2. ASSUME NEW b \in Blocks PROVE \E q \in Requests : b \in Range(block_table[q])
  <2>1. b \in UNION {Range(block_table[q]) : q \in Requests}
    BY <1>1 DEF BlockOwnership
  <2> QED BY <2>1
<1> DEFINE H == Holders \cup Range(running)
           places == H \X (1 .. TableLimit)
           IsPlace(b, p) == /\ p[2] \in DOMAIN block_table[p[1]]
                            /\ block_table[p[1]][p[2]] = b
           place == [b \in Blocks |-> CHOOSE p \in places : IsPlace(b, p)]
           last == <<r, Len(block_table[r]) + 1>>
<1>3. ASSUME NEW b \in Blocks PROVE place[b] \in places /\ IsPlace(b, place[b])
  <2>1. PICK q \in Requests : b \in Range(block_table[q])
    BY <1>2
  <2>2. /\ block_table[q] \in Seq(Blocks) /\ Len(block_table[q]) \in Nat
        /\ DOMAIN block_table[q] = 1 .. Len(block_table[q]) /\ Len(block_table[q]) <= TableLimit
    BY <1>t DEF TablesFit
  <2>3. PICK i \in 1 .. Len(block_table[q]) : block_table[q][i] = b
    BY <2>1, <2>2, RangeEquality
  <2>4. q \in Holders
    BY <2>2, <2>3, EmptySeq DEF Holders
  <2>5. i \in 1 .. TableLimit
    BY <2>2, <1>t
  <2>6. <<q, i>> \in places /\ IsPlace(b, <<q, i>>)
    BY <2>2, <2>3, <2>4, <2>5
  <2>7. \E p \in places : IsPlace(b, p)
    BY <2>6
  <2> HIDE DEF places, IsPlace
  <2> QED BY <2>7
<1>4. /\ IsFiniteSet(places) /\ Cardinality(places) \in Nat
      /\ Cardinality(places) <= MostHolders * TableLimit
  <2>1. IsFiniteSet(H) /\ Cardinality(H) \in Nat /\ Cardinality(H) <= MostHolders
    BY FewHold
  <2>2. IsFiniteSet(1 .. TableLimit) /\ Cardinality(1 .. TableLimit) = TableLimit
    BY <1>t, FirstNumbers
  <2> HIDE DEF H
  <2>3. IsFiniteSet(places) /\ Cardinality(places) = Cardinality(H) * TableLimit
    BY <2>1, <2>2, FS_Product
  <2>4. Cardinality(H) * TableLimit \in Nat /\ Cardinality(H) * TableLimit <= MostHolders * TableLimit
    BY <1>t, <2>1, MoreBlocksHoldMore
  <2> QED BY <2>3, <2>4
<1>5. last \in places /\ \A b \in Blocks : ~IsPlace(b, last)
  <2>1. /\ Len(block_table[r]) \in Nat /\ DOMAIN block_table[r] = 1 .. Len(block_table[r])
    BY <1>t
  <2>2. Len(block_table[r]) + 1 \in 1 .. TableLimit
    BY <2>1, <1>t
  <2>3. Len(block_table[r]) + 1 \notin DOMAIN block_table[r]
    BY <2>1
  <2> QED BY <2>2, <2>3
<1>6. \A a, b \in Blocks : place[a] = place[b] => a = b
  <2> SUFFICES ASSUME NEW a \in Blocks, NEW b \in Blocks, place[a] = place[b] PROVE a = b
    OBVIOUS
  <2>1. IsPlace(a, place[a]) /\ IsPlace(b, place[a])
    BY <1>3
  <2> HIDE DEF place
  <2> QED BY <2>1
<1>7. place \in Injection(Blocks, places \ {last})
  <2>1. \A b \in Blocks : place[b] \in places /\ place[b] # last
    BY <1>3, <1>5
  <2>2. place \in [Blocks -> places \ {last}]
    <3> HIDE DEF places, last, IsPlace
    <3> QED BY <2>1
  <2> HIDE DEF place, places, last
  <2> QED BY <2>2, <1>6 DEF Injection, IsInjective
<1> HIDE DEF place, places, last
<1>8. IsFiniteSet(places \ {last}) /\ Cardinality(places \ {last}) = Cardinality(places) - 1
  BY <1>4, <1>5, FS_RemoveElement
<1>9. Cardinality(Blocks) <= Cardinality(places) - 1
  BY <1>7, <1>8, FS_Injection
<1>10. Cardinality(Blocks) = NumBlocks - 1
  BY <1>t, FS_Interval DEF Blocks
<1>11. MostHolders * TableLimit \in Nat
  BY <1>t
<1>12. MostHolders * TableLimit <= NumBlocks - 1
  BY DEF EnoughBlocks
<1> QED BY <1>4, <1>9, <1>10, <1>11, <1>12, <1>t


-----------------------------------------------------------------------------
(* Every step keeps the invariant.                                         *)

LEMMA CapacityInit == Init => Capacity
<1> SUFFICES ASSUME Init PROVE Capacity
  OBVIOUS
<1>t. TypeOK
  BY TypeInit
<1>1. Range(<< >>) = {} /\ Len(<< >>) = 0
  BY EmptySeq DEF Range
<1>2. TablesFit
  BY <1>1, LimitTypes DEF Init, TablesFit
<1>3. FewRun
  <2>1. Cardinality(Range(running)) = 0
    BY <1>1, FS_EmptySet DEF Init
  <2> QED BY <2>1, SchedulerAssumption DEF FewRun
<1>4. ReasonsKnown
  BY <1>1 DEF Init, ReasonsKnown
<1>5. HoldersKnown
  BY <1>1 DEF Init, HoldersKnown, Holders
<1>6. NobodyStarves
  BY DEF Init, NobodyStarves, Starved
<1> QED BY <1>2, <1>3, <1>4, <1>5, <1>6 DEF Capacity

\* A decoding request whose next token needs a block has a table below the
\* limit: it stops before it reaches max_model_len.
LEMMA DecodeNeedsLess ==
  ASSUME LifeInv, NEW r \in Range(running), r \in Requests, pc = "entries",
         status[r] # "finished", IsPromptDone(r)
  PROVE  DecodeBlocks(r) \in Nat /\ DecodeBlocks(r) <= TableLimit
<1>t. /\ num_computed_tokens[r] \in Nat /\ num_output_tokens[r] \in Nat
      /\ NumPromptTokens(r) \in Nat /\ MaxModelLen \in Nat /\ BlockSize \in Nat \ {0}
  BY ParamsType, SchedulerAssumption DEF LifeInv, TypeOK, RequestTypes
<1>1. num_computed_tokens[r] = TotalTokens(r) - 1 /\ num_computed_tokens[r] >= NumPromptTokens(r)
  BY DEF LifeInv, LifeCycle, TokensInStep, InStep, IsPromptDone
<1>2. num_output_tokens[r] > 0
  BY <1>1, <1>t DEF TotalTokens
<1>3. TotalTokens(r) < MaxModelLen
  BY <1>2 DEF LifeInv, LifeCycle, LimitsAhead
<1>4. num_computed_tokens[r] + 1 \in Nat /\ num_computed_tokens[r] + 1 <= MaxModelLen
  BY <1>t, <1>1, <1>3 DEF TotalTokens
<1>5. /\ DecodeBlocks(r) \in Nat /\ CeilDiv(MaxModelLen, BlockSize) \in Nat
      /\ DecodeBlocks(r) <= CeilDiv(MaxModelLen, BlockSize)
  BY <1>t, <1>4, CeilMonotone DEF DecodeBlocks
<1> QED BY <1>5 DEF TableLimit, Greatest

\* So with enough blocks step() never gives up on a request.
LEMMA NeverOutOfBlocks == EnoughBlocks /\ CapacityInv => ~OutOfBlocks
<1> SUFFICES ASSUME EnoughBlocks, CapacityInv, OutOfBlocks PROVE FALSE
  OBVIOUS
<1>t. TypeOK /\ QueueOrder /\ AtEntry
  BY DEF CapacityInv, LifeInv, OutOfBlocks
<1>1. PICK r \in Requests : r = running[at] /\ r \in Range(running)
  BY <1>t, TurnFacts
<1>2. /\ pc = "entries" /\ status[r] # "finished" /\ IsPromptDone(r)
      /\ DecodeBlocks(r) > Len(block_table[r]) /\ ~CanAllocate(1)
  BY <1>1 DEF OutOfBlocks, AtEntry
<1>3. Len(block_table[r]) \in Nat /\ TableLimit \in Nat
  BY <1>t, LimitTypes DEF TypeOK, BlockTypes
<1>4. DecodeBlocks(r) \in Nat /\ DecodeBlocks(r) <= TableLimit
  BY <1>1, <1>2, DecodeNeedsLess DEF CapacityInv
<1>5. Len(block_table[r]) < TableLimit
  BY <1>2, <1>3, <1>4
<1> QED BY <1>1, <1>2, <1>5, <1>t, PoolSuffices DEF CapacityInv, Capacity

\* Admit builds a table for the prompt, GrowTable adds the block of the next
\* token.
LEMMA TablesFitNext == CapacityInv /\ [Next]_vars => TablesFit'
<1> SUFFICES ASSUME LifeInv, TypeOK, QueueOrder, TablesFit, [Next]_vars PROVE TablesFit'
  BY DEF CapacityInv, LifeInv, Capacity
<1>t. /\ free \in Seq(Blocks) /\ block_table \in [Requests -> Seq(Blocks)] /\ finished \in Seq(Requests)
      /\ MaxModelLen \in Nat /\ BlockSize \in Nat \ {0} /\ TableLimit \in Nat /\ TableLimit > 0
  BY SchedulerAssumption, LimitTypes DEF TypeOK, BlockTypes, BatchTypes
<1>f. ASSUME block_table' = block_table PROVE TablesFit'
  BY <1>f DEF TablesFit
<1>r. ASSUME NEW q \in Requests, NEW t, block_table' = [block_table EXCEPT ![q] = t], Len(t) <= TableLimit
      PROVE  TablesFit'
  BY <1>t, <1>r DEF TablesFit
<1>1. CASE Admit
  <2>0. PICK r \in Requests : r = NextWaiting
    BY <1>1, HeadFacts DEF Admit, MayAdmit
  <2>1. /\ ~TooLong(r) /\ CanAllocate(PromptBlocks(r))
        /\ block_table' = [block_table EXCEPT ![r] = Allocated(PromptBlocks(r))]
    BY <1>1, <2>0 DEF Admit, Admissible
  <2>2. NumPromptTokens(r) \in Nat /\ NumPromptTokens(r) <= MaxModelLen
    BY <2>1, <1>t, ParamsType DEF TooLong
  <2>3. PromptBlocks(r) \in Nat /\ PromptBlocks(r) <= TableLimit
    <3>1. /\ CeilDiv(NumPromptTokens(r), BlockSize) \in Nat /\ CeilDiv(MaxModelLen, BlockSize) \in Nat
          /\ CeilDiv(NumPromptTokens(r), BlockSize) <= CeilDiv(MaxModelLen, BlockSize)
      BY <2>2, <1>t, CeilMonotone
    <3> QED BY <3>1 DEF PromptBlocks, TableLimit, Greatest
  <2>4. Len(Allocated(PromptBlocks(r))) = PromptBlocks(r)
    <3>1. Len(free) \in Nat /\ PromptBlocks(r) <= Len(free)
      BY <2>1, <1>t DEF CanAllocate
    <3> QED BY <3>1, <2>3, <1>t, SubSeqProperties DEF Allocated
  <2> QED BY <2>1, <2>3, <2>4, <1>r
<1>2. CASE GrowTable
  <2>0. PICK r \in Requests : r = running[at] /\ r \in Range(running)
    BY <1>2, TurnFacts DEF GrowTable
  <2>1. /\ pc = "entries" /\ status[r] # "finished" /\ IsPromptDone(r)
        /\ DecodeBlocks(r) > Len(block_table[r]) /\ CanAllocate(1)
        /\ block_table' = [block_table EXCEPT ![r] = block_table[r] \o Allocated(1)]
    BY <1>2, <2>0 DEF GrowTable, AtEntry
  <2>2. DecodeBlocks(r) \in Nat /\ DecodeBlocks(r) <= TableLimit
    BY <2>0, <2>1, DecodeNeedsLess
  <2>3. Allocated(1) \in Seq(Blocks) /\ Len(Allocated(1)) = 1
    <3>1. Len(free) \in Nat /\ 1 <= Len(free)
      BY <2>1, <1>t DEF CanAllocate
    <3> QED BY <3>1, <1>t, SubSeqProperties DEF Allocated
  <2>4. block_table[r] \in Seq(Blocks) /\ Len(block_table[r]) \in Nat
    BY <1>t
  <2>5. Len(block_table[r] \o Allocated(1)) = Len(block_table[r]) + 1
    <3> DEFINE old == block_table[r]
               new == Allocated(1)
    <3> HIDE DEF old, new
    <3>1. old \in Seq(Blocks) /\ new \in Seq(Blocks)
      BY <2>3, <2>4 DEF old, new
    <3>2. Len(old \o new) = Len(old) + Len(new)
      BY <3>1, ConcatProperties
    <3> QED BY <2>3, <3>2 DEF old, new
  <2>6. Len(block_table[r] \o Allocated(1)) <= TableLimit
    <3>1. TableLimit \in Nat /\ DecodeBlocks(r) > Len(block_table[r])
      BY <2>1, <1>t
    <3> QED BY <3>1, <2>2, <2>4, <2>5
  <2> QED BY <2>1, <2>6, <1>r
<1>3. CASE FreeFinished
  <2>1. PICK r \in Requests : r = finished[at]
    BY <1>3, <1>t, ElementOfSeq DEF FreeFinished, TypeOK
  <2>2. block_table' = [block_table EXCEPT ![r] = << >>]
    BY <1>3, <2>1 DEF FreeFinished, ClearTable
  <2>3. Len(<< >>) <= TableLimit
    BY <1>t, EmptySeq
  <2> QED BY <2>2, <2>3, <1>r
<1>4. ASSUME NEW r \in Requests, AbortRequest(r) PROVE TablesFit'
  BY <1>4, <1>f DEF AbortRequest, AbortWaiting, AbortRunning, blockVars
<1>5. CASE \/ AddRequest \/ Sleep \/ StepBegin \/ PlanChunk \/ EndPlan \/ RejectTooLong \/ EndAdmission
           \/ SkipEntry \/ OutOfBlocks \/ EnterDecode \/ EnterPrefill \/ EndEntries
  BY <1>5, <1>f DEF AddRequest, Sleep, StepBegin, PlanChunk, EndPlan, RejectTooLong, EndAdmission,
     SkipEntry, OutOfBlocks, EnterDecode, EnterPrefill, EndEntries, vars, blockVars
<1>6. CASE \/ Forward \/ AdvanceComputed \/ AppendSampled \/ SkipUnsampled \/ EndSample \/ UpdateReturn
           \/ UNCHANGED vars
  BY <1>6, <1>f DEF Forward, AdvanceComputed, AppendSampled, SkipUnsampled, EndSample, UpdateReturn,
     vars, blockVars
<1>7. Abortable \subseteq Requests
  BY SchedulerAssumption
<1> QED BY <1>1, <1>2, <1>3, <1>4, <1>5, <1>6, <1>7 DEF Next, EngineThread, StepTurn, UpdateTurn

LEMMA FewRunNext == CapacityInv /\ [Next]_vars => FewRun'
<1> SUFFICES ASSUME TypeOK, QueueOrder, FewRun, [Next]_vars PROVE FewRun'
  BY DEF CapacityInv, LifeInv, Capacity
<1>t. /\ running \in Seq(Requests) /\ MaxNumSeqs \in Nat
      /\ IsFiniteSet(Range(running)) /\ Cardinality(Range(running)) \in Nat
      /\ Cardinality(Range(running)) <= Len(running) /\ Len(running) \in Nat
  BY SchedulerAssumption, RangeBound DEF TypeOK, QueueTypes
<1>f. ASSUME Range(running') \subseteq Range(running) PROVE FewRun'
  <2>1. Cardinality(Range(running')) \in Nat /\ Cardinality(Range(running')) <= Cardinality(Range(running))
    BY <1>f, <1>t, FS_Subset, FS_CardinalityType
  <2> QED BY <2>1, <1>t DEF FewRun
<1>1. CASE Admit
  <2>1. Range(running') = Range(running) \cup {NextWaiting} /\ NextWaiting \notin Range(running)
        /\ Len(running) < MaxNumSeqs
    BY <1>1, HeadFacts DEF Admit, MayAdmit
  <2>2. Cardinality(Range(running')) = Cardinality(Range(running)) + 1
    BY <2>1, <1>t, FS_AddElement
  <2> QED BY <2>1, <2>2, <1>t DEF FewRun
<1>2. CASE EndEntries \/ UpdateReturn
  <2>1. Range(running') \subseteq Range(running)
    BY <1>2, <1>t, WithoutRange DEF EndEntries, StillRunning, UpdateReturn
  <2> QED BY <2>1, <1>f
<1>3. ASSUME NEW r \in Requests, AbortRequest(r) PROVE FewRun'
  BY <1>3, <1>f DEF AbortRequest, AbortWaiting, AbortRunning, queueVars
<1>4. CASE \/ AddRequest \/ Sleep \/ StepBegin \/ PlanChunk \/ EndPlan \/ RejectTooLong \/ EndAdmission
           \/ SkipEntry \/ GrowTable \/ OutOfBlocks \/ EnterDecode \/ EnterPrefill
  BY <1>4, <1>f DEF AddRequest, Sleep, StepBegin, PlanChunk, EndPlan, RejectTooLong, EndAdmission,
     SkipEntry, GrowTable, OutOfBlocks, EnterDecode, EnterPrefill, vars, queueVars
<1>5. CASE \/ Forward \/ AdvanceComputed \/ AppendSampled \/ SkipUnsampled \/ EndSample \/ FreeFinished
           \/ UNCHANGED vars
  BY <1>5, <1>f DEF Forward, AdvanceComputed, AppendSampled, SkipUnsampled, EndSample, FreeFinished,
     vars, queueVars
<1>6. Abortable \subseteq Requests
  BY SchedulerAssumption
<1> QED BY <1>1, <1>2, <1>3, <1>4, <1>5, <1>6 DEF Next, EngineThread, StepTurn, UpdateTurn


LEMMA ReasonsKnownNext == CapacityInv /\ [Next]_vars => ReasonsKnown'
<1> SUFFICES ASSUME LifeInv, TypeOK, QueueOrder, ReasonsKnown, KeepsFinished, [Next]_vars
             PROVE  ReasonsKnown'
  BY FinishIsKept DEF CapacityInv, LifeInv, Capacity
<1>t. /\ status \in [Requests -> {"waiting", "prefilling", "decoding", "finished"}]
      /\ finish_reason \in [Requests -> Reasons]
      /\ finished_this_step \in Seq(Requests) /\ Range(finished_this_step) \subseteq Requests
  BY RangeOfSeq DEF TypeOK, RequestTypes, QueueTypes
<1>e. Range(<< >>) = {}
  BY EmptySeq DEF Range
\* A step that gives no reason, or gives one to the request that it finishes.
<1>f. ASSUME finish_reason' = finish_reason, Range(finished_this_step') \subseteq Range(finished_this_step)
      PROVE  ReasonsKnown'
  BY <1>f, <1>t DEF ReasonsKnown, KeepsFinished
<1>r. ASSUME NEW q \in Requests, NEW why \in Reasons, Finish(q, why),
             \/ finished_this_step' = finished_this_step
             \/ finished_this_step' = Append(finished_this_step, q)
      PROVE  ReasonsKnown'
  <2>1. /\ status'[q] = "finished"
        /\ \A r \in Requests : r # q => status'[r] = status[r] /\ finish_reason'[r] = finish_reason[r]
    BY <1>t, <1>r DEF Finish
  <2>2. Range(finished_this_step') \subseteq Range(finished_this_step) \cup {q}
    <3>1. \/ finished_this_step' = finished_this_step
          \/ finished_this_step' = Append(finished_this_step, q)
      BY <1>r
    <3>2. Range(Append(finished_this_step, q)) = Range(finished_this_step) \cup {q}
      BY <1>t, <1>r, RangeAppend
    <3> QED BY <3>1, <3>2
  <2>3. \A r \in Requests : finish_reason'[r] # "none" => status'[r] = "finished"
    BY <2>1 DEF ReasonsKnown
  <2>4. \A r \in Range(finished_this_step') : status'[r] = "finished"
    BY <2>1, <2>2, <1>t DEF ReasonsKnown
  <2> QED BY <2>3, <2>4 DEF ReasonsKnown
<1>w. {"abort", "length", "stop"} \subseteq Reasons
  BY DEF Reasons
<1>1. ASSUME NEW r \in Requests, AbortRequest(r) PROVE ReasonsKnown'
  BY <1>1, <1>r, <1>w DEF AbortRequest, AbortWaiting, AbortRunning, queueVars
<1>2. CASE RejectTooLong
  <2>1. NextWaiting \in Requests
    BY <1>2, HeadFacts DEF RejectTooLong, MayAdmit
  <2> QED BY <1>2, <1>r, <1>w, <2>1 DEF RejectTooLong
<1>3. CASE OutOfBlocks
  <2>1. PICK r \in Requests : r = running[at]
    BY <1>3, TurnFacts DEF OutOfBlocks
  <2> QED BY <1>3, <1>r, <1>w, <2>1 DEF OutOfBlocks
<1>4. CASE AppendSampled
  <2>1. PICK r \in Requests : r = batch_entries[at].req
    BY <1>4, EntryFacts DEF AppendSampled, TypeOK
  <2>2. finished_this_step' = finished_this_step
    BY <1>4 DEF AppendSampled, queueVars
  <2>3. PICK tok \in Tokens :
          IF StopReason(r, tok, num_output_tokens[r] + 1) # "none"
          THEN Finish(r, StopReason(r, tok, num_output_tokens[r] + 1))
          ELSE UNCHANGED finish_reason
    BY <1>4, <2>1 DEF AppendSampled
  <2>4. StopReason(r, tok, num_output_tokens[r] + 1) \in {"stop", "length", "none"}
    BY DEF StopReason
  <2> QED BY <2>2, <2>3, <2>4, <1>f, <1>r, <1>w
<1>5. CASE Admit \/ StepBegin \/ UpdateReturn
  BY <1>5, <1>f, <1>e DEF Admit, StepBegin, UpdateReturn, requestVars
<1>6. CASE \/ AddRequest \/ Sleep \/ PlanChunk \/ EndPlan \/ EndAdmission \/ SkipEntry \/ GrowTable
           \/ EnterDecode \/ EnterPrefill \/ EndEntries
  BY <1>6, <1>f DEF AddRequest, Sleep, PlanChunk, EndPlan, EndAdmission, SkipEntry, GrowTable,
     EnterDecode, EnterPrefill, EndEntries, vars, requestVars, queueVars
<1>7. CASE \/ Forward \/ AdvanceComputed \/ SkipUnsampled \/ EndSample \/ FreeFinished
           \/ UNCHANGED vars
  BY <1>7, <1>f DEF Forward, AdvanceComputed, SkipUnsampled, EndSample, FreeFinished,
     vars, requestVars, queueVars
<1>8. Abortable \subseteq Requests
  BY SchedulerAssumption
<1> QED BY <1>1, <1>2, <1>3, <1>4, <1>5, <1>6, <1>7, <1>8 DEF Next, EngineThread, StepTurn, UpdateTurn

\* Who leaves the running list has given back its blocks in FreeFinished, or
\* was aborted.
LEMMA HoldersKnownNext == CapacityInv /\ [Next]_vars /\ ~OutOfBlocks => HoldersKnown'
<1> SUFFICES ASSUME LifeInv, TypeOK, QueueOrder, ReasonsKnown, HoldersKnown, [Next]_vars, ~OutOfBlocks
             PROVE  HoldersKnown'
  BY DEF CapacityInv, LifeInv, Capacity
<1>t. /\ status \in [Requests -> {"waiting", "prefilling", "decoding", "finished"}]
      /\ block_table \in [Requests -> Seq(Blocks)] /\ running \in Seq(Requests)
      /\ finished \in Seq(Requests) /\ finished_this_step \in Seq(Requests)
      /\ Range(running) \subseteq Requests
  BY RangeOfSeq DEF TypeOK, RequestTypes, QueueTypes, BlockTypes, BatchTypes
<1>h. /\ \A r \in Requests : block_table[r] # << >> => r \in Range(running) \cup Abortable
      /\ pc \notin {"sample", "free"} =>
           \A r \in Range(running) : status[r] = "finished" => r \in Abortable
  BY DEF HoldersKnown, Holders
\* Nobody gets blocks, and nobody of the running list is finished.
<1>f. ASSUME UNCHANGED <<status, block_table, running>>, pc' \in {"sample", "free"} \/ pc \notin {"sample", "free"}
      PROVE  HoldersKnown'
  BY <1>f, <1>h DEF HoldersKnown, Holders
<1>1. ASSUME NEW r \in Abortable, r \in Requests, AbortRequest(r) PROVE HoldersKnown'
  <2>1. /\ pc = "idle" /\ pc' = pc /\ UNCHANGED <<block_table, running>>
        /\ status' = [status EXCEPT ![r] = "finished"]
    BY <1>1 DEF AbortRequest, AbortWaiting, AbortRunning, Finish, queueVars, blockVars
  <2> QED BY <1>1, <1>t, <1>h, <2>1 DEF HoldersKnown, Holders
<1>2. CASE RejectTooLong
  <2>1. /\ NextWaiting \in Requests /\ NextWaiting \notin Range(running)
    BY <1>2, HeadFacts DEF RejectTooLong, MayAdmit
  <2>2. /\ pc = "admit" /\ pc' = pc /\ UNCHANGED <<block_table, running>>
        /\ status' = [status EXCEPT ![NextWaiting] = "finished"]
    BY <1>2 DEF RejectTooLong, Finish, blockVars
  <2> QED BY <1>t, <1>h, <2>1, <2>2 DEF HoldersKnown, Holders
<1>3. CASE Admit
  <2>0. PICK h \in Requests : h = NextWaiting
    BY <1>3, HeadFacts DEF Admit, MayAdmit
  <2>1. /\ pc = "admit" /\ pc' = pc /\ Range(running') = Range(running) \cup {h}
        /\ status' = [status EXCEPT ![h] = "prefilling"]
        /\ block_table' = [block_table EXCEPT ![h] = Allocated(PromptBlocks(h))]
    BY <1>3, <2>0, HeadFacts DEF Admit, MayAdmit
  <2>2. /\ status'[h] # "finished"
        /\ \A r \in Requests : r # h => status'[r] = status[r] /\ block_table'[r] = block_table[r]
    BY <1>t, <2>1
  <2>3. \A r \in Requests : block_table'[r] # << >> => r \in Range(running') \cup Abortable
    BY <1>h, <2>1, <2>2
  <2>4. \A r \in Range(running') : status'[r] = "finished" => r \in Abortable
    BY <1>h, <1>t, <2>1, <2>2
  <2> QED BY <2>3, <2>4 DEF HoldersKnown, Holders
<1>4. CASE GrowTable
  <2>0. PICK r \in Requests : r = running[at] /\ r \in Range(running)
    BY <1>4, TurnFacts DEF GrowTable
  <2>1. /\ pc = "entries" /\ pc' = pc /\ UNCHANGED <<status, running>>
        /\ block_table' = [block_table EXCEPT ![r] = block_table[r] \o Allocated(1)]
    BY <1>4, <2>0 DEF GrowTable, AtEntry, requestVars, queueVars
  <2> QED BY <1>t, <1>h, <2>0, <2>1 DEF HoldersKnown, Holders
<1>5. CASE EndEntries
  <2>1. Range(running') = Range(running) \ {r \in Requests : status[r] = "finished"}
    BY <1>5, <1>t, WithoutRange DEF EndEntries, StillRunning
  <2>2. pc = "entries" /\ pc' \notin {"sample", "free"} /\ UNCHANGED <<status, block_table>>
    BY <1>5 DEF EndEntries, requestVars, blockVars
  <2> QED BY <1>h, <1>t, <2>1, <2>2 DEF HoldersKnown, Holders
<1>6. CASE AppendSampled
  <2>1. pc' = "sample" /\ UNCHANGED <<block_table, running>>
    BY <1>6 DEF AppendSampled, blockVars, queueVars
  <2> QED BY <1>h, <2>1 DEF HoldersKnown, Holders
<1>7. CASE FreeFinished
  <2>0. PICK r \in Requests : r = finished[at]
    BY <1>7, <1>t, ElementOfSeq DEF FreeFinished, TypeOK
  <2>1. pc' = "free" /\ running' = running /\ block_table' = [block_table EXCEPT ![r] = << >>]
    BY <1>7, <2>0 DEF FreeFinished, ClearTable, queueVars
  <2> QED BY <1>h, <1>t, <2>1 DEF HoldersKnown, Holders
<1>8. CASE UpdateReturn
  <2>1. /\ pc = "free" /\ UNCHANGED <<status, block_table>>
        /\ running' = Without(running, Range(AllFinished))
    BY <1>8 DEF UpdateReturn, requestVars, blockVars
  <2>2. Range(AllFinished) = Range(finished) \cup Range(finished_this_step)
    BY <1>t, RangeConcatenation DEF AllFinished
  <2>3. Range(running') = Range(running) \ (Range(finished) \cup Range(finished_this_step))
    BY <2>1, <2>2, <1>t, WithoutRange
  <2>4. ASSUME NEW r \in Range(running), status[r] = "finished"
        PROVE  r \in Range(finished) /\ block_table[r] = << >>
    <3>0. FinishedKnown
      BY DEF LifeInv, LifeCycle
    <3>1. r \in Range(finished)
      <4>1. \A q \in Range(running) :
              status[q] = "finished" => (pc \in {"sample", "free"} => q \in Range(finished))
        BY <3>0 DEF FinishedKnown
      <4> QED BY <2>1, <2>4, <4>1
    <3>2. PICK k \in 1 .. Len(finished) : finished[k] = r
      <4>1. finished \in Seq(Requests)
        BY <1>t
      <4>2. Range(finished) = {finished[k] : k \in 1 .. Len(finished)}
        BY <4>1, RangeEquality
      <4> QED BY <3>1, <4>2
    <3>3. k \in DOMAIN finished /\ k < at
      <4>1. Len(finished) \in Nat /\ DOMAIN finished = 1 .. Len(finished)
        BY <1>t
      <4>2. at \in Nat /\ at > Len(finished)
        BY <1>8 DEF UpdateReturn, TypeOK
      <4> QED BY <4>1, <4>2
    <3>4. block_table[finished[k]] = << >>
      BY <2>1, <3>0, <3>3 DEF FinishedKnown
    <3> QED BY <3>1, <3>2, <3>4
  <2>5. \A r \in Range(finished) \cup Range(finished_this_step) : status[r] = "finished"
    BY DEF LifeInv, LifeCycle, FinishedKnown, ReasonsKnown
  <2>6. \A r \in Range(running) : block_table[r] # << >> => r \in Range(running')
    BY <2>3, <2>4, <2>5
  <2>7. \A r \in Range(running') : status[r] # "finished"
    BY <2>3, <2>4
  <2> QED BY <1>h, <2>1, <2>6, <2>7 DEF HoldersKnown, Holders
<1>9. CASE \/ AddRequest \/ Sleep \/ StepBegin \/ PlanChunk \/ EndPlan \/ EndAdmission
           \/ SkipEntry \/ EnterDecode \/ EnterPrefill
  <2>1. pc \notin {"sample", "free"}
    BY <1>9 DEF AddRequest, Sleep, StepBegin, PlanChunk, EndPlan, EndAdmission, SkipEntry,
       EnterDecode, EnterPrefill, AtEntry
  <2> QED BY <1>9, <1>f, <2>1 DEF AddRequest, Sleep, StepBegin, PlanChunk, EndPlan, EndAdmission,
          SkipEntry, EnterDecode, EnterPrefill, vars, requestVars, blockVars, queueVars
<1>10. CASE Forward \/ AdvanceComputed \/ SkipUnsampled \/ EndSample \/ UNCHANGED vars
  BY <1>10, <1>f DEF Forward, AdvanceComputed, SkipUnsampled, EndSample,
     vars, requestVars, blockVars, queueVars
<1>11. Abortable \subseteq Requests
  BY SchedulerAssumption
<1> QED BY <1>1, <1>2, <1>3, <1>4, <1>5, <1>6, <1>7, <1>8, <1>9, <1>10, <1>11
        DEF Next, EngineThread, StepTurn, UpdateTurn


\* Only OutOfBlocks ends a request short of its limits with "length".
LEMMA NobodyStarvesNext == CapacityInv /\ [Next]_vars /\ ~OutOfBlocks => NobodyStarves'
<1> SUFFICES ASSUME LifeInv, TypeOK, QueueOrder, ReasonsKnown, NobodyStarves, KeepsFinished,
                    [Next]_vars, ~OutOfBlocks, NEW r \in Requests
             PROVE  ~Starved(r)'
  BY FinishIsKept DEF CapacityInv, LifeInv, Capacity, NobodyStarves
<1>t. /\ finish_reason \in [Requests -> Reasons] /\ num_output_tokens \in [Requests -> Nat]
      /\ num_output_tokens[r] \in Nat /\ NumPromptTokens(r) \in Nat /\ params[r].max_tokens \in Int
      /\ MaxModelLen \in Nat
  BY SchedulerAssumption, ParamsType DEF TypeOK, RequestTypes
<1>p. params' = params
  BY DEF Next, AbortRequest, EngineThread, StepTurn, UpdateTurn,
     AddRequest, AbortWaiting, AbortRunning, Sleep, StepBegin, PlanChunk, EndPlan, RejectTooLong, Admit,
     EndAdmission, SkipEntry, GrowTable, OutOfBlocks, EnterDecode, EnterPrefill, EndEntries,
     Forward, AdvanceComputed, AppendSampled, SkipUnsampled, EndSample, FreeFinished, UpdateReturn, vars
<1>f. CASE finish_reason'[r] = finish_reason[r]
  <2>1. finish_reason[r] = "length" => num_output_tokens'[r] = num_output_tokens[r]
    BY DEF ReasonsKnown, KeepsFinished
  <2>2. finish_reason[r] = "length" => ~(num_output_tokens[r] < params[r].max_tokens /\ TotalTokens(r) < MaxModelLen)
    BY DEF NobodyStarves, Starved
  <2> QED BY <1>f, <1>p, <2>1, <2>2 DEF Starved, TotalTokens, NumPromptTokens
<1>n. CASE finish_reason'[r] # "length"
  BY <1>n DEF Starved
<1>1. ASSUME NEW q \in Requests, AbortRequest(q) PROVE ~Starved(r)'
  <2>1. finish_reason' = [finish_reason EXCEPT ![q] = "abort"]
    BY <1>1 DEF AbortRequest, AbortWaiting, AbortRunning, Finish
  <2>2. finish_reason'[r] \in {finish_reason[r], "abort"}
    BY <2>1, <1>t
  <2> QED BY <2>2, <1>f, <1>n
<1>2. CASE RejectTooLong
  <2>0. PICK h \in Requests : h = NextWaiting
    BY <1>2, HeadFacts DEF RejectTooLong, MayAdmit
  <2>1. /\ finish_reason' = [finish_reason EXCEPT ![h] = "length"] /\ TooLong(h)
        /\ num_output_tokens' = num_output_tokens
    BY <1>2, <2>0 DEF RejectTooLong, Finish
  <2>2. CASE r = h
    <3>1. ~(TotalTokens(r) < MaxModelLen)
      BY <1>t, <2>1, <2>2 DEF TooLong, TotalTokens
    <3>2. TotalTokens(r)' = TotalTokens(r)
      BY <1>p, <2>1 DEF TotalTokens, NumPromptTokens
    <3> QED BY <3>1, <3>2 DEF Starved
  <2>3. CASE r # h
    <3>1. finish_reason'[r] = finish_reason[r]
      BY <1>t, <2>1, <2>3
    <3> QED BY <3>1, <1>f
  <2> QED BY <2>2, <2>3
<1>3. CASE AppendSampled
  <2>0. PICK q \in Requests : q = batch_entries[at].req
    BY <1>3, EntryFacts DEF AppendSampled, TypeOK
  <2>1. PICK tok \in Tokens :
          LET reason == StopReason(q, tok, num_output_tokens[q] + 1)
          IN  /\ num_output_tokens' = [num_output_tokens EXCEPT ![q] = num_output_tokens[q] + 1]
              /\ IF reason # "none" THEN Finish(q, reason) ELSE UNCHANGED finish_reason
    BY <1>3, <2>0 DEF AppendSampled
  <2> DEFINE n == num_output_tokens[q] + 1
             reason == StopReason(q, tok, n)
  <2>2. CASE reason = "none" \/ r # q
    <3>1. finish_reason'[r] = finish_reason[r]
      BY <1>t, <2>1, <2>2 DEF Finish
    <3> QED BY <3>1, <1>f
  <2>3. CASE reason # "none" /\ r = q
    <3>1. finish_reason'[r] = reason /\ num_output_tokens'[r] = n
      BY <1>t, <2>1, <2>3 DEF Finish
    <3>2. reason = "length" => n >= params[q].max_tokens \/ NumPromptTokens(q) + n >= MaxModelLen
      BY DEF StopReason
    <3>3. TotalTokens(r)' = NumPromptTokens(r) + num_output_tokens'[r] /\ n \in Nat
      BY <1>p, <1>t, <2>3 DEF TotalTokens, NumPromptTokens
    <3> HIDE DEF n, reason
    <3>4. finish_reason'[r] = "length" =>
            ~(num_output_tokens'[r] < params[r].max_tokens /\ TotalTokens(r)' < MaxModelLen)
      BY <1>t, <2>3, <3>1, <3>2, <3>3
    <3> QED BY <3>4, <1>p DEF Starved
  <2> QED BY <2>2, <2>3
<1>4. CASE \/ AddRequest \/ Sleep \/ StepBegin \/ PlanChunk \/ EndPlan \/ Admit \/ EndAdmission
           \/ SkipEntry \/ GrowTable \/ EnterDecode \/ EnterPrefill \/ EndEntries
  BY <1>4, <1>f DEF AddRequest, Sleep, StepBegin, PlanChunk, EndPlan, Admit, EndAdmission,
     SkipEntry, GrowTable, EnterDecode, EnterPrefill, EndEntries, vars, requestVars
<1>5. CASE \/ Forward \/ AdvanceComputed \/ SkipUnsampled \/ EndSample \/ FreeFinished \/ UpdateReturn
           \/ UNCHANGED vars
  BY <1>5, <1>f DEF Forward, AdvanceComputed, SkipUnsampled, EndSample, FreeFinished, UpdateReturn,
     vars, requestVars
<1>6. Abortable \subseteq Requests
  BY SchedulerAssumption
<1> QED BY <1>1, <1>2, <1>3, <1>4, <1>5, <1>6 DEF Next, EngineThread, StepTurn, UpdateTurn

LEMMA CapacityNext == EnoughBlocks /\ CapacityInv /\ [Next]_vars => LifeInv' /\ Capacity'
<1> SUFFICES ASSUME EnoughBlocks, CapacityInv, [Next]_vars PROVE LifeInv' /\ Capacity'
  OBVIOUS
<1>1. ~OutOfBlocks
  BY NeverOutOfBlocks
<1>2. LifeInv'
  BY LifeNext DEF CapacityInv
<1>3. TablesFit' /\ FewRun' /\ ReasonsKnown' /\ HoldersKnown' /\ NobodyStarves'
  BY <1>1, TablesFitNext, FewRunNext, ReasonsKnownNext, HoldersKnownNext, NobodyStarvesNext
<1> QED BY <1>2, <1>3 DEF Capacity

\* Under EnoughBlocks, step() never gives up on a request: the blocks that
\* aborts leak (AbortFreesBlocks does not hold) are the ones of Abortable, and
\* the running requests have theirs.
THEOREM EnoughIsEnough == ASSUME EnoughBlocks PROVE Spec => []NobodyStarves
<1>1. Init => LifeInv /\ Capacity
  BY TypeInit, QueueOrderInit, LifeInit, CapacityInit DEF LifeInv
<1>2. LifeInv /\ Capacity /\ BlockOwnership => NobodyStarves
  BY DEF Capacity
<1>3. LifeInv /\ Capacity /\ BlockOwnership /\ [Next]_vars => LifeInv' /\ Capacity'
  BY CapacityNext DEF CapacityInv
<1> QED BY <1>1, <1>2, <1>3, BlocksHaveOnePlace, PTL DEF Spec

=============================================================================
