-------------------------- MODULE LifecycleProofs --------------------------
(***************************************************************************)
(* The life of a request: it waits untouched, runs within its limits and   *)
(* its table, takes part in a batch at most once, and once finished stays  *)
(* as it is and is handed to the engine.                                   *)
(***************************************************************************)
EXTENDS SchedulerProofs

-----------------------------------------------------------------------------
(* The inductive invariant.                                                *)

\* A request that waits, or has yet to arrive, has not been computed on.
Untouched ==
  \A r \in Requests :
    r \in Range(waiting) \/ r > arrived =>
      status[r] = "waiting" /\ num_computed_tokens[r] = 0 /\ num_output_tokens[r] = 0

\* What admission checked of a running request, which its table keeps true.
Admitted ==
  \A r \in Range(running) :
    /\ NumPromptTokens(r) > 0
    /\ ~TooLong(r)
    /\ status[r] # "finished" => NumPromptTokens(r) <= Len(block_table[r]) * BlockSize

\* A request that goes on has not reached a limit; none has passed one.
LimitsAhead ==
  \A r \in Requests :
    /\ num_output_tokens[r] <= Greatest(1, params[r].max_tokens)
    /\ status[r] # "finished" /\ num_output_tokens[r] > 0 =>
         num_output_tokens[r] < params[r].max_tokens /\ TotalTokens(r) < MaxModelLen

\* All but the last output token is computed.
InStep(r) ==
  IF IsPromptDone(r) THEN num_computed_tokens[r] = TotalTokens(r) - 1
                     ELSE num_output_tokens[r] = 0

\* While the sampled tokens are appended, the entries from at on are ahead:
\* what they sampled is computed and not yet appended.
Counted(i) ==
  LET r == batch_entries[i].req
  IN  IF batch_entries[i].samples
      THEN /\ IsPromptDone(r)
           /\ num_computed_tokens[r] = TotalTokens(r) - (IF i < at THEN 1 ELSE 0)
      ELSE ~IsPromptDone(r) /\ num_output_tokens[r] = 0

TokensInStep ==
  /\ \A r \in Range(running) : pc # "sample" \/ r \notin Batched => InStep(r)
  /\ pc = "sample" => \A i \in DOMAIN batch_entries : Counted(i)

\* A request has at most one entry, which it gets when its turn comes.
BatchShape ==
  /\ pc \in {"idle", "plan", "admit"} => batch_entries = << >>
  /\ \A i, j \in DOMAIN batch_entries : batch_entries[i].req = batch_entries[j].req => i = j
  /\ Batched \subseteq Range(running)
  /\ pc = "entries" => \A k \in DOMAIN running : k >= at => running[k] \notin Batched

\* The positions of an entry have blocks, and a prefill chunk ends with the
\* prompt at the latest.
Fits(i) ==
  LET r == batch_entries[i].req
      end == num_computed_tokens[r] + batch_entries[i].q_len
  IN  /\ end <= Len(block_table[r]) * BlockSize
      /\ IF IsPromptDone(r)
         THEN batch_entries[i].q_len = 1 /\ batch_entries[i].samples
         ELSE /\ end <= NumPromptTokens(r)
              /\ batch_entries[i].samples <=> end >= NumPromptTokens(r)

\* No entry is of a finished request until it is sampled.
EntriesLive ==
  \A i \in DOMAIN batch_entries :
    /\ pc \in {"entries", "forward", "update"} =>
         status[batch_entries[i].req] # "finished" /\ Fits(i)
    /\ pc = "sample" /\ i >= at => status[batch_entries[i].req] # "finished"

\* Which finished requests can still be on the running list: between
\* iterations the aborted ones, after sampling those about to be freed.
FinishedKnown ==
  /\ pc \notin {"sample", "free"} => finished = << >>
  /\ \A r \in Range(finished) : status[r] = "finished"
  /\ \A r \in Range(running) : status[r] = "finished" =>
       /\ pc \notin {"forward", "update"}
       /\ pc \in {"sample", "free"} => r \in Range(finished)
       /\ pc = "idle" => finish_reason[r] = "abort"
  /\ pc = "free" => \A k \in DOMAIN finished : k < at => block_table[finished[k]] = << >>

\* NormalFinishIsComplete, between iterations and during them.
Settled ==
  \A r \in Requests :
    status[r] = "finished" /\ finish_reason[r] # "abort" /\ ~Starved(r) /\ ~TooLong(r) =>
      \/ r \in Range(finished)
      \/ r \in reported /\ block_table[r] = << >> /\ r \notin Range(running)

\* No request is given more prompt tokens than it has left.
ChunksFit ==
  pc \in {"plan", "admit", "entries"} =>
    \A r \in Requests : per_req_chunk[r] <= PromptTokensRemaining(r)

LifeCycle ==
  /\ Untouched /\ Admitted /\ LimitsAhead /\ TokensInStep /\ BatchShape
  /\ EntriesLive /\ FinishedKnown /\ Settled /\ ChunksFit

LifeInv == TypeOK /\ QueueOrder /\ LifeCycle

-----------------------------------------------------------------------------
(* Facts that the steps share.                                             *)

\* n blocks of b slots hold at least a slots, if a divided by b, rounded up,
\* is at most n.
LEMMA CeilCovers ==
  ASSUME NEW a \in Nat, NEW b \in Nat \ {0}, NEW n \in Nat, CeilDiv(a, b) <= n
  PROVE  a <= n * b
<1> DEFINE q == (a + b - 1) \div b
<1>1. q \in Nat /\ q <= n
  BY DEF CeilDiv
<1>2. a + b - 1 = (b * q) + ((a + b - 1) % b) /\ (a + b - 1) % b \in 0 .. b - 1
  OBVIOUS
<1> HIDE DEF q
<1>3. a <= q * b
  BY <1>1, <1>2
<1>4. q * b <= n * b
  BY <1>1
<1> QED BY <1>1, <1>3, <1>4

LEMMA MoreBlocksHoldMore ==
  ASSUME NEW m \in Nat, NEW n \in Nat, m <= n, NEW b \in Nat
  PROVE  m * b <= n * b
OBVIOUS

LEMMA RangeAppend ==
  ASSUME NEW S, NEW s \in Seq(S), NEW e \in S
  PROVE  Range(Append(s, e)) = Range(s) \cup {e}
<1>1. Range(Append(s, e)) = {Append(s, e)[i] : i \in 1 .. Len(s) + 1}
  <2>1. Append(s, e) \in Seq(S) /\ Len(Append(s, e)) = Len(s) + 1
    BY AppendProperties
  <2> QED BY <2>1, RangeEquality
<1>2. Range(s) = {s[i] : i \in 1 .. Len(s)} /\ Len(s) \in Nat
  BY RangeEquality
<1>3. /\ \A i \in 1 .. Len(s) : Append(s, e)[i] = s[i]
      /\ Append(s, e)[Len(s) + 1] = e
  BY AppendProperties
<1>4. \A i \in 1 .. Len(s) + 1 : i \in 1 .. Len(s) \/ i = Len(s) + 1
  BY <1>2
<1> QED BY <1>1, <1>2, <1>3, <1>4

LEMMA RunningFacts ==
  ASSUME TypeOK, QueueOrder
  PROVE  /\ running \in Seq(Requests) /\ Len(running) \in Nat
         /\ DOMAIN running = 1 .. Len(running)
         /\ \A r \in Range(running) :
              r \in Requests /\ r \notin Range(waiting) /\ ~(r > arrived)
         /\ \A k \in DOMAIN running : running[k] \in Range(running) /\ running[k] \in Requests
         /\ \A k, l \in DOMAIN running : running[k] = running[l] => k = l
         /\ \A r \in Range(running) : \E k \in DOMAIN running : running[k] = r
<1>1. running \in Seq(Requests) /\ Len(running) \in Nat /\ DOMAIN running = 1 .. Len(running)
  BY DEF TypeOK, QueueTypes
<1>2. Range(running) = {running[k] : k \in 1 .. Len(running)} /\ Range(running) \subseteq Requests
  BY <1>1, RangeEquality, RangeOfSeq
<1>3. arrived \in Nat
  BY SchedulerAssumption DEF TypeOK, QueueTypes
<1>4. ASSUME NEW r \in Range(running)
      PROVE  r \in Requests /\ r \notin Range(waiting) /\ ~(r > arrived)
  <2>1. r \in Nat /\ r <= arrived /\ ~(r < r)
    BY <1>2, <1>4 DEF QueueOrder, Requests
  <2>2. r \notin Range(waiting)
    BY <2>1, <1>4 DEF QueueOrder
  <2> QED BY <1>2, <1>3, <1>4, <2>1, <2>2
<1>5. ASSUME NEW k \in 1 .. Len(running), NEW l \in 1 .. Len(running), running[k] = running[l]
      PROVE  k = l
  <2>1. running[k] \in Nat /\ running[l] \in Nat
    <3>1. running[k] \in Requests /\ running[l] \in Requests
      BY <1>2
    <3> QED BY <3>1 DEF Requests
  <2>2. ~(k < l) /\ ~(l < k)
    BY <1>5, <2>1 DEF QueueOrder, Increasing
  <2> QED BY <2>2
<1> QED BY <1>1, <1>2, <1>4, <1>5

\* The request whose turn it is.
LEMMA TurnFacts ==
  ASSUME TypeOK, QueueOrder, AtEntry
  PROVE  /\ at \in DOMAIN running
         /\ running[at] \in Requests /\ running[at] \in Range(running)
<1>1. at \in DOMAIN running
  BY RunningFacts DEF AtEntry, TypeOK
<1> QED BY <1>1, RunningFacts

LEMMA HeadFacts ==
  ASSUME TypeOK, QueueOrder, waiting # << >>
  PROVE  /\ NextWaiting \in Requests /\ NextWaiting \in Range(waiting)
         /\ NextWaiting \notin Range(running) /\ ~(NextWaiting > arrived)
         /\ Range(waiting) = {NextWaiting} \cup Range(Tail(waiting))
         /\ NextWaiting \notin Range(Tail(waiting))
         /\ \A r \in Range(running) : r < NextWaiting
         /\ Range(Append(running, NextWaiting)) = Range(running) \cup {NextWaiting}
<1>1. /\ waiting \in Seq(Requests) /\ running \in Seq(Requests) /\ arrived \in Nat
      /\ Increasing(waiting) /\ Increasing(running)
  BY SchedulerAssumption DEF TypeOK, QueueTypes, QueueOrder
<1>2. /\ Range(waiting) = {NextWaiting} \cup Range(Tail(waiting))
      /\ \A x \in Range(Tail(waiting)) : NextWaiting < x
      /\ NextWaiting \in Requests
  BY <1>1, TailIncreasing, HeadTailProperties DEF NextWaiting
<1>3. NextWaiting \in Nat /\ NextWaiting \in Range(waiting)
  BY <1>2 DEF Requests
<1>4. NextWaiting <= arrived /\ \A r \in Range(running) : r < NextWaiting
  BY <1>3 DEF QueueOrder
<1>5. Range(Append(running, NextWaiting)) = Range(running) \cup {NextWaiting}
  BY <1>1, <1>2, <1>4, AppendIncreasing
<1>6. NextWaiting \notin Range(running) /\ NextWaiting \notin Range(Tail(waiting))
  <2>1. ~(NextWaiting < NextWaiting)
    BY <1>3
  <2> QED BY <1>2, <1>4, <2>1
<1> QED BY <1>1, <1>2, <1>3, <1>4, <1>5, <1>6

LEMMA EntryFacts ==
  ASSUME TypeOK
  PROVE  /\ DOMAIN batch_entries = 1 .. Len(batch_entries) /\ Len(batch_entries) \in Nat
         /\ \A i \in DOMAIN batch_entries :
              /\ batch_entries[i].req \in Requests /\ batch_entries[i].req \in Batched
              /\ batch_entries[i].q_len \in Nat \ {0}
              /\ batch_entries[i].samples \in BOOLEAN
         /\ \A r \in Batched : \E i \in DOMAIN batch_entries : batch_entries[i].req = r
<1>1. batch_entries \in Seq(EntryType)
  BY DEF TypeOK, BatchTypes
<1>2. \A i \in DOMAIN batch_entries : batch_entries[i] \in EntryType
  BY <1>1
<1>3. DOMAIN batch_entries = 1 .. Len(batch_entries) /\ Len(batch_entries) \in Nat
  BY <1>1
<1> QED BY <1>2, <1>3 DEF EntryType, Batched

\* QueryLen is the query length of the one entry of r.
LEMMA QueryFacts ==
  ASSUME TypeOK, BatchShape
  PROVE  /\ \A i \in DOMAIN batch_entries :
              QueryLen(batch_entries[i].req) = batch_entries[i].q_len
         /\ \A r \in Requests : r \notin Batched => QueryLen(r) = 0
<1>1. ASSUME NEW i \in DOMAIN batch_entries
      PROVE  QueryLen(batch_entries[i].req) = batch_entries[i].q_len
  <2> DEFINE r == batch_entries[i].req
             j == CHOOSE k \in DOMAIN batch_entries : batch_entries[k].req = r
  <2>1. \E k \in DOMAIN batch_entries : batch_entries[k].req = r
    BY <1>1
  <2>2. j \in DOMAIN batch_entries /\ batch_entries[j].req = r
    BY <2>1
  <2>3. j = i
    BY <1>1, <2>2 DEF BatchShape
  <2>4. QueryLen(r) = batch_entries[j].q_len
    BY <2>1 DEF QueryLen
  <2> QED BY <2>3, <2>4
<1>2. \A r \in Requests : r \notin Batched => QueryLen(r) = 0
  BY DEF QueryLen, Batched
<1> QED BY <1>1, <1>2

\* One more entry.
LEMMA AppendEntry ==
  ASSUME TypeOK, NEW e \in EntryType, batch_entries' = Append(batch_entries, e)
  PROVE  LET n == Len(batch_entries)
         IN  /\ DOMAIN batch_entries = 1 .. n /\ DOMAIN batch_entries' = 1 .. n + 1 /\ n \in Nat
             /\ \A i \in 1 .. n : batch_entries'[i] = batch_entries[i]
             /\ batch_entries'[n + 1] = e
             /\ Batched' = Batched \cup {e.req}
<1> DEFINE n == Len(batch_entries)
<1>1. batch_entries \in Seq(EntryType)
  BY DEF TypeOK, BatchTypes
<1>2. /\ DOMAIN batch_entries = 1 .. n /\ DOMAIN batch_entries' = 1 .. n + 1 /\ n \in Nat
      /\ \A i \in 1 .. n : batch_entries'[i] = batch_entries[i]
      /\ batch_entries'[n + 1] = e
  BY <1>1, AppendProperties
<1> HIDE DEF n
<1>3. \A i \in 1 .. n + 1 : i \in 1 .. n \/ i = n + 1
  BY <1>2
<1>4. n + 1 \in 1 .. n + 1 /\ 1 .. n \subseteq 1 .. n + 1
  BY <1>2
<1>5. Batched' = Batched \cup {e.req}
  BY <1>2, <1>3, <1>4 DEF Batched
<1> QED BY <1>2, <1>5 DEF n

\* The queue after add_request.
LEMMA QueueAppend ==
  ASSUME TypeOK, waiting' = Append(waiting, arrived + 1), arrived + 1 \in Requests
  PROVE  Range(waiting') = Range(waiting) \cup {arrived + 1}
<1>1. waiting \in Seq(Requests)
  BY DEF TypeOK, QueueTypes
<1> QED BY <1>1, RangeAppend

-----------------------------------------------------------------------------
(* Every step keeps the invariant.                                         *)

LEMMA LifeInit == Init => LifeCycle
<1> SUFFICES ASSUME Init PROVE LifeCycle
  OBVIOUS
<1>t. TypeOK
  BY TypeInit
<1>1. /\ Range(<< >>) = {} /\ DOMAIN << >> = {} /\ Batched = {}
  BY EmptySeq DEF Init, Range, Batched
<1>2. Untouched
  BY DEF Init, Untouched
<1>3. Admitted
  BY <1>1 DEF Init, Admitted
<1>4. LimitsAhead
  <2>1. \A r \in Requests : params[r].max_tokens \in Int
    BY <1>t, ParamsType
  <2> QED BY <2>1 DEF Init, LimitsAhead, Greatest
<1>5. TokensInStep /\ BatchShape /\ EntriesLive /\ FinishedKnown
  BY <1>1 DEF Init, TokensInStep, BatchShape, EntriesLive, FinishedKnown
<1>6. Settled /\ ChunksFit
  BY DEF Init, Settled, ChunksFit
<1> QED BY <1>2, <1>3, <1>4, <1>5, <1>6 DEF LifeCycle

\* A step computes on, and finishes, requests of the running list or the one
\* that it takes off the queue.
LEMMA UntouchedNext == LifeInv /\ [Next]_vars => Untouched'
<1> SUFFICES ASSUME TypeOK, QueueOrder, LifeCycle, [Next]_vars PROVE Untouched'
  BY DEF LifeInv
<1>t. /\ waiting \in Seq(Requests) /\ arrived \in Nat
      /\ status \in [Requests -> {"waiting", "prefilling", "decoding", "finished"}]
      /\ num_computed_tokens \in [Requests -> Nat] /\ num_output_tokens \in [Requests -> Nat]
  BY SchedulerAssumption DEF TypeOK, QueueTypes, RequestTypes
<1>b. Untouched /\ Batched \subseteq Range(running)
  BY DEF LifeCycle, BatchShape
\* It is enough that the step leaves those alone that go on waiting.
<1>f. ASSUME \A r \in Requests : r \in Range(waiting') \/ r > arrived' =>
               /\ r \in Range(waiting) \/ r > arrived
               /\ status'[r] = status[r]
               /\ num_computed_tokens'[r] = num_computed_tokens[r]
               /\ num_output_tokens'[r] = num_output_tokens[r]
      PROVE  Untouched'
  BY <1>b, <1>f DEF Untouched
<1>1. CASE AddRequest
  <2>1. /\ arrived' = arrived + 1 /\ waiting' = Append(waiting, arrived + 1)
        /\ arrived + 1 \in Requests /\ UNCHANGED requestVars
    BY <1>1, <1>t, SchedulerAssumption DEF AddRequest, Requests
  <2>2. Range(waiting') = Range(waiting) \cup {arrived + 1}
    BY <2>1, QueueAppend
  <2>3. \A r \in Requests : r > arrived + 1 => r > arrived
    BY <1>t DEF Requests
  <2>4. arrived + 1 > arrived
    BY <1>t
  <2> QED BY <2>1, <2>2, <2>3, <2>4, <1>f DEF requestVars
<1>2. ASSUME NEW r \in Requests, AbortWaiting(r) PROVE Untouched'
  <2>1. Range(waiting') = Range(waiting) \ {r} /\ arrived' = arrived
    BY <1>2, <1>t, WithoutRange DEF AbortWaiting
  <2>2. r \in Range(waiting) /\ ~(r > arrived)
    <3>1. r \in Range(waiting) /\ r <= arrived /\ r \in Nat
      BY <1>2 DEF AbortWaiting, QueueOrder, Requests
    <3> QED BY <3>1, <1>t
  <2> QED BY <2>1, <2>2, <1>2, <1>t, <1>f DEF AbortWaiting, Finish
<1>3. ASSUME NEW r \in Requests, AbortRunning(r) PROVE Untouched'
  <2>1. r \notin Range(waiting) /\ ~(r > arrived)
    BY <1>3, RunningFacts DEF AbortRunning
  <2> QED BY <2>1, <1>3, <1>t, <1>f DEF AbortRunning, Finish, queueVars
<1>4. CASE RejectTooLong \/ Admit
  <2>1. waiting # << >> /\ waiting' = Tail(waiting) /\ arrived' = arrived
    BY <1>4 DEF RejectTooLong, Admit, MayAdmit
  <2>2. /\ NextWaiting \notin Range(waiting') /\ ~(NextWaiting > arrived)
        /\ Range(waiting') \subseteq Range(waiting)
    BY <2>1, HeadFacts
  <2>3. \A r \in Requests : r # NextWaiting => status'[r] = status[r]
    BY <1>4, <1>t DEF RejectTooLong, Admit, Finish
  <2>4. UNCHANGED <<num_computed_tokens, num_output_tokens>>
    BY <1>4 DEF RejectTooLong, Admit
  <2> QED BY <2>1, <2>2, <2>3, <2>4, <1>f
<1>5. CASE OutOfBlocks
  <2>1. running[at] \notin Range(waiting) /\ ~(running[at] > arrived)
    BY <1>5, RunningFacts DEF OutOfBlocks, AtEntry, TypeOK
  <2> QED BY <2>1, <1>5, <1>t, <1>f DEF OutOfBlocks, Finish
<1>6. CASE AdvanceComputed
  <2>1. ASSUME NEW r \in Requests, r \in Range(waiting) \/ r > arrived PROVE QueryLen(r) = 0
    <3>1. r \notin Batched
      BY <2>1, <1>b, RunningFacts
    <3> QED BY <3>1, QueryFacts DEF LifeCycle
  <2> QED BY <2>1, <1>6, <1>t, <1>f DEF AdvanceComputed, queueVars
<1>7. CASE AppendSampled
  <2> DEFINE r == batch_entries[at].req
  <2>1. r \in Requests /\ r \notin Range(waiting) /\ ~(r > arrived)
    BY <1>7, <1>b, EntryFacts, RunningFacts DEF AppendSampled, TypeOK
  <2>2. \A q \in Requests : q # r =>
          status'[q] = status[q] /\ num_output_tokens'[q] = num_output_tokens[q]
    BY <1>7, <1>t DEF AppendSampled, Finish
  <2> HIDE DEF r
  <2> QED BY <2>1, <2>2, <1>7, <1>f DEF AppendSampled, queueVars
<1>8. CASE StepBegin \/ EndEntries \/ UpdateReturn
  BY <1>8, <1>f DEF StepBegin, EndEntries, UpdateReturn, requestVars
<1>9. CASE \/ Sleep \/ PlanChunk \/ EndPlan \/ EndAdmission \/ SkipEntry \/ GrowTable
           \/ EnterDecode \/ EnterPrefill \/ UNCHANGED vars
  BY <1>9, <1>f DEF Sleep, PlanChunk, EndPlan, EndAdmission, SkipEntry, GrowTable,
     EnterDecode, EnterPrefill, vars, queueVars, requestVars
<1>10. CASE Forward \/ SkipUnsampled \/ EndSample \/ FreeFinished
  BY <1>10, <1>f DEF Forward, SkipUnsampled, EndSample, FreeFinished, queueVars, requestVars
<1>11. Abortable \subseteq Requests
  BY SchedulerAssumption
<1> QED
  BY <1>1, <1>2, <1>3, <1>4, <1>5, <1>6, <1>7, <1>8, <1>9, <1>10, <1>11
     DEF Next, AbortRequest, EngineThread, StepTurn, UpdateTurn

LEMMA AdmittedNext == LifeInv /\ [Next]_vars => Admitted'
<1> SUFFICES ASSUME TypeOK, QueueOrder, LifeCycle, [Next]_vars PROVE Admitted'
  BY DEF LifeInv
<1>t. /\ running \in Seq(Requests) /\ BlockSize \in Nat \ {0}
      /\ status \in [Requests -> {"waiting", "prefilling", "decoding", "finished"}]
      /\ block_table \in [Requests -> Seq(Blocks)] /\ finished \in Seq(Requests)
      /\ Admitted
  BY SchedulerAssumption DEF TypeOK, QueueTypes, RequestTypes, BlockTypes, BatchTypes, LifeCycle
<1>f. ASSUME params' = params, Range(running') \subseteq Range(running),
             \A r \in Range(running) : status'[r] # "finished" =>
               status[r] # "finished" /\ block_table'[r] = block_table[r]
      PROVE  Admitted'
  BY <1>f, <1>t DEF Admitted, NumPromptTokens, TooLong
<1>1. ASSUME NEW r \in Requests, AbortRequest(r) PROVE Admitted'
  <2>1. /\ UNCHANGED <<params, running, block_table>>
        /\ status' = [status EXCEPT ![r] = "finished"]
    BY <1>1 DEF AbortRequest, AbortWaiting, AbortRunning, Finish, queueVars, blockVars
  <2>2. \A q \in Requests : status'[q] # "finished" => status[q] # "finished"
    BY <2>1, <1>t
  <2> QED BY <2>1, <2>2, <1>f, RunningFacts
<1>2. CASE RejectTooLong
  BY <1>2, <1>t, <1>f DEF RejectTooLong, Finish, blockVars
<1>3. CASE Admit
  <2> DEFINE h == NextWaiting
  <2>1. /\ waiting # << >> /\ running' = Append(running, h) /\ params' = params
        /\ ~TooLong(h) /\ CanAllocate(PromptBlocks(h)) /\ FirstChunk(h) > 0
        /\ block_table' = [block_table EXCEPT ![h] = Allocated(PromptBlocks(h))]
        /\ status' = [status EXCEPT ![h] = "prefilling"]
    BY <1>3 DEF Admit, MayAdmit, Admissible
  <2>2. h \in Requests /\ h \notin Range(running) /\ Range(running') = Range(running) \cup {h}
    BY <2>1, HeadFacts
  <2> HIDE DEF h
  <2>3. NumPromptTokens(h) \in Nat /\ NumPromptTokens(h) > 0
    <3>1. NumPromptTokens(h) \in Nat /\ ChunkedPrefillSize \in Nat /\ token_budget \in Nat
      BY <2>2, ParamsType, SchedulerAssumption DEF TypeOK, BatchTypes
    <3> QED BY <3>1, <2>1 DEF FirstChunk, Least
  <2>4. PromptBlocks(h) \in Nat /\ CeilDiv(NumPromptTokens(h), BlockSize) <= PromptBlocks(h)
    <3>1. CeilDiv(NumPromptTokens(h), BlockSize) \in Nat
      BY <2>3, <1>t, CeilDivType
    <3> QED BY <3>1 DEF PromptBlocks, Greatest
  <2>5. Len(block_table'[h]) = PromptBlocks(h)
    <3>1. free \in Seq(Blocks) /\ Len(free) \in Nat /\ PromptBlocks(h) <= Len(free)
      BY <2>1 DEF TypeOK, BlockTypes, CanAllocate
    <3>2. Len(Allocated(PromptBlocks(h))) = PromptBlocks(h)
      BY <3>1, <2>4, SubSeqProperties DEF Allocated
    <3> QED BY <3>2, <2>1, <2>2, <1>t
  <2>6. NumPromptTokens(h) <= Len(block_table'[h]) * BlockSize
    BY <2>3, <2>4, <2>5, <1>t, CeilCovers
  <2>7. \A r \in Requests : r # h => status'[r] = status[r] /\ block_table'[r] = block_table[r]
    BY <2>1, <1>t
  <2>8. \A r \in Range(running) : r \in Requests /\ r # h
    BY <2>2, RunningFacts
  <2>9. \A r \in Requests : NumPromptTokens(r)' = NumPromptTokens(r) /\ TooLong(r)' = TooLong(r)
    BY <2>1 DEF NumPromptTokens, TooLong
  <2> QED BY <2>1, <2>2, <2>3, <2>6, <2>7, <2>8, <2>9, <1>t DEF Admitted
<1>4. CASE GrowTable
  <2> DEFINE r == running[at]
  <2>1. r \in Requests /\ r \in Range(running)
    BY <1>4, RunningFacts DEF GrowTable, AtEntry, TypeOK
  <2>2. /\ block_table' = [block_table EXCEPT ![r] = block_table[r] \o Allocated(1)]
        /\ CanAllocate(1) /\ TakeBlocks(1)
        /\ UNCHANGED <<params, status, running>>
    BY <1>4 DEF GrowTable, requestVars, queueVars
  <2> HIDE DEF r
  <2>3. Allocated(1) \in Seq(Blocks)
    BY <2>2, AllocateType DEF TypeOK, BlockTypes
  <2>4. Len(block_table[r]) \in Nat /\ Len(block_table'[r]) \in Nat
        /\ Len(block_table[r]) <= Len(block_table'[r])
    <3>1. block_table[r] \in Seq(Blocks)
      BY <2>1, <1>t
    <3>2. Len(block_table[r] \o Allocated(1)) = Len(block_table[r]) + Len(Allocated(1))
      BY <3>1, <2>3, ConcatProperties
    <3>3. Len(block_table[r]) \in Nat /\ Len(Allocated(1)) \in Nat
      BY <3>1, <2>3, LenProperties
    <3> QED BY <3>2, <3>3, <2>1, <2>2, <1>t
  <2>5. Len(block_table[r]) * BlockSize <= Len(block_table'[r]) * BlockSize
    BY <2>4, <1>t, MoreBlocksHoldMore
  <2>6. \A q \in Range(running) : q \in Requests /\ NumPromptTokens(q) \in Nat
    BY RunningFacts, ParamsType
  <2>7. \A q \in Requests : q # r => block_table'[q] = block_table[q]
    BY <2>2, <1>t
  <2>8. \A q \in Requests : NumPromptTokens(q)' = NumPromptTokens(q) /\ TooLong(q)' = TooLong(q)
    BY <2>2 DEF NumPromptTokens, TooLong
  <2>9. NumPromptTokens(r) <= Len(block_table[r]) * BlockSize =>
          NumPromptTokens(r) <= Len(block_table'[r]) * BlockSize
    <3> DEFINE before == Len(block_table[r]) * BlockSize
               after == Len(block_table'[r]) * BlockSize
    <3>1. before \in Nat /\ after \in Nat /\ before <= after /\ NumPromptTokens(r) \in Nat
      BY <2>1, <2>4, <2>5, <2>6, <1>t
    <3> HIDE DEF before, after
    <3>2. NumPromptTokens(r) <= before => NumPromptTokens(r) <= after
      BY <3>1
    <3> QED BY <3>2 DEF before, after
  <2> QED BY <2>2, <2>6, <2>7, <2>8, <2>9, <1>t DEF Admitted
<1>5. CASE OutOfBlocks
  BY <1>5, <1>t, <1>f DEF OutOfBlocks, Finish, blockVars
<1>6. CASE AppendSampled
  <2>1. batch_entries[at].req \in Requests
    BY <1>6, EntryFacts DEF AppendSampled, TypeOK
  <2>2. \A r \in Requests : status'[r] # "finished" => status[r] # "finished"
    BY <2>1, <1>6, <1>t DEF AppendSampled, Finish
  <2> QED BY <2>2, <1>6, <1>f, RunningFacts DEF AppendSampled, queueVars, blockVars
<1>7. CASE FreeFinished
  <2>1. /\ finished[at] \in Range(finished) /\ finished[at] \in Requests
        /\ status[finished[at]] = "finished"
    <3>1. at \in 1 .. Len(finished)
      BY <1>7 DEF FreeFinished, TypeOK
    <3>2. finished[at] \in Range(finished)
      BY <3>1, <1>t, RangeEquality
    <3> QED BY <3>1, <3>2, <1>t, ElementOfSeq DEF LifeCycle, FinishedKnown
  <2> QED BY <2>1, <1>7, <1>t, <1>f, RunningFacts
          DEF FreeFinished, ClearTable, queueVars, requestVars
<1>8. CASE EndEntries \/ UpdateReturn
  <2>1. Range(running') \subseteq Range(running)
    BY <1>8, <1>t, WithoutRange DEF EndEntries, StillRunning, UpdateReturn
  <2> QED BY <2>1, <1>8, <1>f DEF EndEntries, UpdateReturn, requestVars, blockVars
<1>9. CASE AddRequest \/ StepBegin \/ AdvanceComputed
  BY <1>9, <1>f DEF AddRequest, StepBegin, AdvanceComputed, requestVars, blockVars, queueVars
<1>10. CASE \/ Sleep \/ PlanChunk \/ EndPlan \/ EndAdmission \/ SkipEntry
            \/ EnterDecode \/ EnterPrefill \/ Forward \/ SkipUnsampled \/ EndSample
            \/ UNCHANGED vars
  BY <1>10, <1>f DEF Sleep, PlanChunk, EndPlan, EndAdmission, SkipEntry,
     EnterDecode, EnterPrefill, Forward, SkipUnsampled, EndSample,
     vars, queueVars, requestVars, blockVars
<1>11. Abortable \subseteq Requests
  BY SchedulerAssumption
<1> QED
  BY <1>1, <1>2, <1>3, <1>4, <1>5, <1>6, <1>7, <1>8, <1>9, <1>10, <1>11
     DEF Next, EngineThread, StepTurn, UpdateTurn

\* Only AppendSampled adds a token, to a request that was below its limits,
\* or had no token; if it goes on, it is below them again.
LEMMA LimitsAheadNext == LifeInv /\ [Next]_vars => LimitsAhead'
<1> SUFFICES ASSUME TypeOK, QueueOrder, LifeCycle, [Next]_vars PROVE LimitsAhead'
  BY DEF LifeInv
<1>t. /\ status \in [Requests -> {"waiting", "prefilling", "decoding", "finished"}]
      /\ num_output_tokens \in [Requests -> Nat] /\ MaxModelLen \in Nat
      /\ LimitsAhead
  BY SchedulerAssumption DEF TypeOK, RequestTypes, LifeCycle
<1>f. ASSUME UNCHANGED <<params, num_output_tokens>>,
             \A r \in Requests : status'[r] # "finished" => status[r] # "finished"
      PROVE  LimitsAhead'
  BY <1>f, <1>t DEF LimitsAhead, TotalTokens, NumPromptTokens
<1>1. ASSUME NEW r \in Requests, AbortRequest(r) PROVE LimitsAhead'
  BY <1>1, <1>t, <1>f DEF AbortRequest, AbortWaiting, AbortRunning, Finish
<1>2. CASE RejectTooLong \/ OutOfBlocks
  BY <1>2, <1>t, <1>f DEF RejectTooLong, OutOfBlocks, Finish
<1>3. CASE Admit
  <2>1. NextWaiting \in Requests /\ NextWaiting \in Range(waiting)
    BY <1>3, HeadFacts DEF Admit, MayAdmit
  <2>2. status[NextWaiting] = "waiting"
    BY <2>1 DEF LifeCycle, Untouched
  <2> QED BY <2>1, <2>2, <1>3, <1>t, <1>f DEF Admit
<1>4. CASE AppendSampled
  <2>0. PICK r \in Requests : r = batch_entries[at].req
    BY <1>4, EntryFacts DEF AppendSampled, TypeOK
  <2> DEFINE n == num_output_tokens[r] + 1
  <2>1. r \in Requests /\ status[r] # "finished" /\ pc = "sample"
    BY <1>4, <2>0, EntryFacts DEF AppendSampled, TypeOK, LifeCycle, EntriesLive
  <2>2. PICK tok \in Tokens :
          /\ num_output_tokens' = [num_output_tokens EXCEPT ![r] = n]
          /\ StopReason(r, tok, n) = "none" \/ status' = [status EXCEPT ![r] = "finished"]
          /\ \A q \in Requests : q # r => status'[q] = status[q]
    BY <1>4, <1>t, <2>0 DEF AppendSampled, Finish
  <2>3. params' = params
    BY <1>4 DEF AppendSampled
  <2>4. /\ n \in Nat /\ n > 0 /\ num_output_tokens'[r] = n
        /\ params[r].max_tokens \in Int /\ NumPromptTokens(r) \in Nat
    BY <2>1, <2>2, <1>t, ParamsType
  <2>5. n <= Greatest(1, params[r].max_tokens)
    <3>1. num_output_tokens[r] = 0 \/ num_output_tokens[r] < params[r].max_tokens
      BY <2>1, <1>t DEF LimitsAhead
    <3> QED BY <2>1, <2>4, <3>1, <1>t DEF Greatest
  <2>6. StopReason(r, tok, n) = "none" =>
          n < params[r].max_tokens /\ NumPromptTokens(r) + n < MaxModelLen
    BY <2>4, <1>t DEF StopReason
  <2>7. /\ num_output_tokens'[r] <= Greatest(1, params'[r].max_tokens)
        /\ status'[r] # "finished" =>
             num_output_tokens'[r] < params'[r].max_tokens /\ TotalTokens(r)' < MaxModelLen
    <3>1. TotalTokens(r)' = NumPromptTokens(r) + n
      BY <2>3, <2>4 DEF TotalTokens, NumPromptTokens
    <3>2. status'[r] # "finished" => StopReason(r, tok, n) = "none"
      BY <2>1, <2>2, <1>t
    <3> QED BY <2>3, <2>4, <2>5, <2>6, <3>1, <3>2
  <2>8. ASSUME NEW q \in Requests, q # r
        PROVE  /\ num_output_tokens'[q] <= Greatest(1, params'[q].max_tokens)
               /\ status'[q] # "finished" /\ num_output_tokens'[q] > 0 =>
                    num_output_tokens'[q] < params'[q].max_tokens /\ TotalTokens(q)' < MaxModelLen
    <3>1. num_output_tokens'[q] = num_output_tokens[q] /\ status'[q] = status[q]
      BY <2>2, <2>8, <1>t
    <3> QED BY <2>3, <3>1, <1>t DEF LimitsAhead, TotalTokens, NumPromptTokens
  <2> QED BY <2>7, <2>8 DEF LimitsAhead
<1>5. CASE AddRequest \/ StepBegin \/ EndEntries \/ AdvanceComputed \/ UpdateReturn
  BY <1>5, <1>f DEF AddRequest, StepBegin, EndEntries, AdvanceComputed, UpdateReturn, requestVars
<1>6. CASE \/ Sleep \/ PlanChunk \/ EndPlan \/ EndAdmission \/ SkipEntry \/ GrowTable
           \/ EnterDecode \/ EnterPrefill \/ Forward \/ SkipUnsampled \/ EndSample
           \/ FreeFinished \/ UNCHANGED vars
  BY <1>6, <1>f DEF Sleep, PlanChunk, EndPlan, EndAdmission, SkipEntry, GrowTable,
     EnterDecode, EnterPrefill, Forward, SkipUnsampled, EndSample, FreeFinished,
     vars, requestVars
<1>7. Abortable \subseteq Requests
  BY SchedulerAssumption
<1> QED
  BY <1>1, <1>2, <1>3, <1>4, <1>5, <1>6, <1>7 DEF Next, EngineThread, StepTurn, UpdateTurn

\* A batch adds to each request in it what the request is then given back, or
\* part of its prompt.
LEMMA TokensInStepNext == LifeInv /\ [Next]_vars => TokensInStep'
<1> SUFFICES ASSUME TypeOK, QueueOrder, LifeCycle, [Next]_vars PROVE TokensInStep'
  BY DEF LifeInv
<1>t. /\ num_computed_tokens \in [Requests -> Nat] /\ num_output_tokens \in [Requests -> Nat]
      /\ running \in Seq(Requests) /\ TokensInStep /\ BatchShape /\ EntriesLive
      /\ Batched \subseteq Range(running) /\ at \in Nat
  BY DEF TypeOK, RequestTypes, QueueTypes, LifeCycle, BatchShape
<1>r. \A r \in Requests : NumPromptTokens(r) \in Nat
  BY ParamsType
<1>u. ASSUME UNCHANGED <<params, num_computed_tokens, num_output_tokens>>, NEW r \in Requests
      PROVE  /\ InStep(r)' = InStep(r) /\ IsPromptDone(r)' = IsPromptDone(r)
             /\ TotalTokens(r)' = TotalTokens(r)
  BY <1>u DEF InStep, IsPromptDone, TotalTokens, NumPromptTokens
<1>f. ASSUME UNCHANGED <<params, num_computed_tokens, num_output_tokens>>,
             Range(running') \subseteq Range(running), pc # "sample", pc' # "sample"
      PROVE  TokensInStep'
  BY <1>f, <1>t, <1>u, RunningFacts DEF TokensInStep
<1>1. ASSUME NEW r \in Requests, AbortRequest(r) PROVE TokensInStep'
  BY <1>1, <1>f DEF AbortRequest, AbortWaiting, AbortRunning, queueVars
<1>2. CASE Admit
  <2> DEFINE h == NextWaiting
  <2>1. /\ waiting # << >> /\ running' = Append(running, h) /\ FirstChunk(h) > 0
        /\ UNCHANGED <<params, num_computed_tokens, num_output_tokens, pc>> /\ pc = "admit"
    BY <1>2 DEF Admit, MayAdmit, Admissible
  <2>2. /\ h \in Requests /\ h \in Range(waiting)
        /\ Range(running') = Range(running) \cup {h}
    BY <2>1, HeadFacts
  <2> HIDE DEF h
  <2>3. NumPromptTokens(h) > 0
    <3>1. NumPromptTokens(h) \in Nat /\ ChunkedPrefillSize \in Nat /\ token_budget \in Nat
      BY <2>2, <1>r, SchedulerAssumption DEF TypeOK, BatchTypes
    <3> QED BY <3>1, <2>1 DEF FirstChunk, Least
  <2>4. num_computed_tokens[h] = 0 /\ num_output_tokens[h] = 0
    BY <2>2 DEF LifeCycle, Untouched
  <2>5. InStep(h)
    BY <2>2, <2>3, <2>4, <1>r DEF InStep, IsPromptDone
  <2> QED BY <2>1, <2>2, <2>5, <1>t, <1>u, RunningFacts DEF TokensInStep
<1>3. CASE AdvanceComputed
  <2>1. /\ pc = "update" /\ pc' = "sample" /\ at' = 1
        /\ UNCHANGED <<params, num_output_tokens, running, batch_entries>>
        /\ \A r \in Requests : num_computed_tokens'[r] = num_computed_tokens[r] + QueryLen(r)
    BY <1>3 DEF AdvanceComputed, queueVars, localVars
  <2>2. ASSUME NEW r \in Range(running), r \notin Batched' PROVE InStep(r)'
    <3>1. r \in Requests /\ r \notin Batched /\ InStep(r)
      BY <2>1, <2>2, <1>t, RunningFacts DEF Batched, TokensInStep
    <3>2. num_computed_tokens'[r] = num_computed_tokens[r]
      BY <3>1, <2>1, <1>t, QueryFacts
    <3> QED BY <3>1, <3>2, <2>1 DEF InStep, IsPromptDone, TotalTokens, NumPromptTokens
  <2>3. ASSUME NEW i \in DOMAIN batch_entries PROVE Counted(i)'
    <3>0. PICK r \in Requests : r = batch_entries[i].req
      BY EntryFacts
    <3> DEFINE n == batch_entries[i].q_len
               p == NumPromptTokens(r)
               c == num_computed_tokens[r]
               o == num_output_tokens[r]
    <3>1. /\ r \in Requests /\ r \in Range(running) /\ n \in Nat \ {0}
          /\ batch_entries[i].samples \in BOOLEAN
          /\ p \in Nat /\ c \in Nat /\ o \in Nat
      BY <1>t, <1>r, <3>0, EntryFacts
    <3>2. InStep(r) /\ Fits(i)
      BY <2>1, <3>1, <1>t DEF TokensInStep, EntriesLive
    <3>3. num_computed_tokens'[r] = c + n
      BY <2>1, <3>0, <3>1, <1>t, QueryFacts
    <3>5. /\ IsPromptDone(r) <=> c >= p
          /\ IsPromptDone(r)' <=> c + n >= p
          /\ TotalTokens(r) = p + o /\ TotalTokens(r)' = p + o
          /\ num_output_tokens'[r] = o
      BY <2>1, <3>3 DEF IsPromptDone, TotalTokens, NumPromptTokens
    <3>6. IF c >= p THEN c = p + o - 1 /\ n = 1 /\ batch_entries[i].samples
          ELSE o = 0 /\ c + n <= p /\ (batch_entries[i].samples <=> c + n >= p)
      <4>1. IF IsPromptDone(r) THEN n = 1 /\ batch_entries[i].samples
            ELSE c + n <= p /\ (batch_entries[i].samples <=> c + n >= p)
        BY <3>0, <3>2, Zenon DEF Fits
      <4>2. IF IsPromptDone(r) THEN c = TotalTokens(r) - 1 ELSE o = 0
        BY <3>2 DEF InStep
      <4> HIDE DEF n, p, c, o
      <4>3. CASE c >= p
        <5>1. IsPromptDone(r)
          BY <3>5, <4>3
        <5> QED BY <3>1, <3>5, <4>1, <4>2, <4>3, <5>1
      <4>4. CASE ~(c >= p)
        <5>1. ~IsPromptDone(r)
          BY <3>5, <4>4
        <5> QED BY <3>1, <4>1, <4>2, <4>4, <5>1
      <4> QED BY <4>3, <4>4
    <3> HIDE DEF n, p, c, o
    <3>7. IF batch_entries[i].samples THEN c + n >= p /\ c + n = p + o
          ELSE ~(c + n >= p) /\ o = 0
      BY <3>1, <3>5, <3>6
    <3>8. batch_entries'[i] = batch_entries[i]
      BY <2>1
    <3>9. IF batch_entries[i].samples
          THEN IsPromptDone(r)' /\ num_computed_tokens'[r] = TotalTokens(r)' - 0
          ELSE ~IsPromptDone(r)' /\ num_output_tokens'[r] = 0
      BY <3>1, <3>3, <3>5, <3>7
    <3>10. at' = 1 /\ ~(i < 1) /\ batch_entries'[i].req = r
      BY <2>1, <3>0, <3>8, EntryFacts
    <3> HIDE DEF IsPromptDone, TotalTokens
    <3> QED BY <3>8, <3>9, <3>10 DEF Counted
  <2> QED BY <2>1, <2>2, <2>3 DEF TokensInStep
<1>4. CASE AppendSampled
  <2>0. PICK r \in Requests : r = batch_entries[at].req
    BY <1>4, EntryFacts DEF AppendSampled, TypeOK
  <2>1. /\ pc = "sample" /\ pc' = "sample" /\ at' = at + 1 /\ at \in DOMAIN batch_entries
        /\ batch_entries[at].samples
        /\ UNCHANGED <<params, num_computed_tokens, running, batch_entries>>
    BY <1>4, EntryFacts DEF AppendSampled, TypeOK, queueVars
  <2>2. r \in Requests /\ r \in Batched
    BY <2>0, <2>1, EntryFacts
  <2>3. /\ num_output_tokens'[r] = num_output_tokens[r] + 1
        /\ \A q \in Requests : q # r => num_output_tokens'[q] = num_output_tokens[q]
    BY <1>4, <2>0, <2>2, <1>t DEF AppendSampled
  <2>4. Batched' = Batched
    BY <2>1 DEF Batched
  <2>5. ASSUME NEW q \in Range(running), q \notin Batched PROVE InStep(q)'
    <3>1. q \in Requests /\ q # r /\ InStep(q)
      BY <2>2, <2>5, <1>t, RunningFacts DEF TokensInStep
    <3>2. num_output_tokens'[q] = num_output_tokens[q]
      BY <2>3, <3>1
    <3> QED BY <3>1, <3>2, <2>1 DEF InStep, IsPromptDone, TotalTokens, NumPromptTokens
  <2>6. ASSUME NEW i \in DOMAIN batch_entries PROVE Counted(i)'
    <3>0. PICK q \in Requests : q = batch_entries[i].req
      BY EntryFacts
    <3>1. q \in Requests /\ Counted(i) /\ i \in Nat
      BY <2>1, <1>t, EntryFacts DEF TokensInStep
    <3>2. CASE i = at
      <4>1. /\ IsPromptDone(r) /\ num_computed_tokens[r] = TotalTokens(r) - 0
            /\ NumPromptTokens(r) \in Nat
        BY <2>0, <2>1, <2>2, <3>1, <3>2, <1>t, <1>r DEF Counted
      <4>2. TotalTokens(r)' = TotalTokens(r) + 1 /\ IsPromptDone(r)' = IsPromptDone(r)
            /\ TotalTokens(r) \in Nat
        <5>1. NumPromptTokens(r)' = NumPromptTokens(r) /\ num_output_tokens[r] \in Nat
          BY <2>1, <1>t DEF NumPromptTokens
        <5>2. IsPromptDone(r)' = IsPromptDone(r)
          BY <2>1, <5>1 DEF IsPromptDone
        <5> QED BY <2>3, <4>1, <5>1, <5>2 DEF TotalTokens
      <4>3. at < at + 1
        BY <1>t
      <4>4. num_computed_tokens'[r] = TotalTokens(r)' - 1
        BY <2>1, <4>1, <4>2
      <4>5. /\ q = r /\ batch_entries'[i].req = r /\ batch_entries'[i].samples
            /\ i < at' /\ IsPromptDone(r)'
        BY <2>0, <2>1, <3>0, <3>2, <4>1, <4>2, <4>3
      <4> HIDE DEF IsPromptDone, TotalTokens
      <4> QED BY <4>4, <4>5 DEF Counted
    <3>3. CASE i # at
      <4>1. q # r
        BY <2>0, <2>1, <3>0, <3>3, <1>t DEF BatchShape
      <4>2. num_output_tokens'[q] = num_output_tokens[q] /\ (i < at' <=> i < at)
        BY <2>1, <2>3, <3>1, <3>3, <4>1, <1>t
      <4> QED BY <2>1, <3>0, <3>1, <4>2 DEF Counted, IsPromptDone, TotalTokens, NumPromptTokens
    <3> QED BY <3>2, <3>3
  <2> QED BY <2>1, <2>4, <2>5, <2>6 DEF TokensInStep
<1>5. CASE SkipUnsampled
  <2>1. /\ pc = "sample" /\ pc' = "sample" /\ at' = at + 1 /\ at \in DOMAIN batch_entries
        /\ ~batch_entries[at].samples
        /\ UNCHANGED <<params, num_computed_tokens, num_output_tokens, running, batch_entries>>
    BY <1>5, EntryFacts DEF SkipUnsampled, TypeOK, requestVars, queueVars, localVars
  <2>2. Batched' = Batched
    BY <2>1 DEF Batched
  <2>3. ASSUME NEW i \in DOMAIN batch_entries PROVE Counted(i)'
    <3>1. Counted(i) /\ i \in Nat
      BY <2>1, <1>t, EntryFacts DEF TokensInStep
    <3>2. i = at \/ (i < at' <=> i < at)
      BY <2>1, <3>1, <1>t
    <3> QED BY <2>1, <3>1, <3>2 DEF Counted, IsPromptDone, TotalTokens, NumPromptTokens
  <2> QED BY <2>1, <2>2, <2>3, <1>t, <1>u, RunningFacts DEF TokensInStep
<1>6. CASE EndSample
  <2>1. /\ pc = "sample" /\ pc' = "free" /\ ~(at <= Len(batch_entries))
        /\ UNCHANGED <<params, num_computed_tokens, num_output_tokens, running>>
    BY <1>6, <1>t, EntryFacts DEF EndSample, requestVars, queueVars
  <2>2. ASSUME NEW r \in Range(running) PROVE InStep(r)
    <3>1. CASE r \notin Batched
      BY <3>1, <1>t DEF TokensInStep
    <3>2. CASE r \in Batched
      <4>1. PICK i \in DOMAIN batch_entries : batch_entries[i].req = r
        BY <3>2, EntryFacts
      <4>2. i < at /\ Counted(i) /\ r \in Requests
        BY <2>1, <4>1, <1>t, EntryFacts DEF TokensInStep
      <4> QED BY <4>1, <4>2 DEF Counted, InStep
    <3> QED BY <3>1, <3>2
  <2> QED BY <2>1, <2>2, <1>u, RunningFacts DEF TokensInStep
<1>7. CASE EndEntries \/ UpdateReturn
  <2>1. Range(running') \subseteq Range(running)
    BY <1>7, <1>t, WithoutRange DEF EndEntries, StillRunning, UpdateReturn
  <2> QED BY <2>1, <1>7, <1>f DEF EndEntries, UpdateReturn, requestVars
<1>8. CASE AddRequest \/ StepBegin \/ RejectTooLong \/ OutOfBlocks
  BY <1>8, <1>f DEF AddRequest, StepBegin, RejectTooLong, OutOfBlocks, AtEntry, requestVars
<1>9. CASE \/ Sleep \/ PlanChunk \/ EndPlan \/ EndAdmission \/ SkipEntry \/ GrowTable
           \/ EnterDecode \/ EnterPrefill
  BY <1>9, <1>f DEF Sleep, PlanChunk, EndPlan, EndAdmission, SkipEntry, GrowTable,
     EnterDecode, EnterPrefill, AtEntry, vars, requestVars, queueVars
<1>10. CASE Forward \/ FreeFinished
  BY <1>10, <1>f DEF Forward, FreeFinished, requestVars, queueVars
<1>11. CASE UNCHANGED vars
  BY <1>11, <1>t DEF vars, requestVars, queueVars, localVars, TokensInStep, Batched, Counted,
     InStep, IsPromptDone, TotalTokens, NumPromptTokens
<1>12. Abortable \subseteq Requests
  BY SchedulerAssumption
<1> QED
  BY <1>1, <1>2, <1>3, <1>4, <1>5, <1>6, <1>7, <1>8, <1>9, <1>10, <1>11, <1>12
     DEF Next, EngineThread, StepTurn, UpdateTurn

\* A request is entered when its turn comes, and only then; those that are
\* dropped from the running list have no entry.
LEMMA BatchShapeNext == LifeInv /\ [Next]_vars => BatchShape'
<1> SUFFICES ASSUME TypeOK, QueueOrder, LifeCycle, [Next]_vars PROVE BatchShape'
  BY DEF LifeInv
<1>t. /\ running \in Seq(Requests) /\ at \in Nat
      /\ pc \in {"idle", "plan", "admit"} => batch_entries = << >>
      /\ \A i, j \in DOMAIN batch_entries : batch_entries[i].req = batch_entries[j].req => i = j
      /\ Batched \subseteq Range(running)
      /\ pc = "entries" => \A k \in DOMAIN running : k >= at => running[k] \notin Batched
  BY DEF TypeOK, QueueTypes, LifeCycle, BatchShape
<1>f. ASSUME batch_entries' = batch_entries, Batched \subseteq Range(running'),
             pc' \in {"idle", "plan", "admit"} =>
               pc \in {"idle", "plan", "admit"} \/ batch_entries = << >>,
             pc' = "entries" => pc = "entries" /\ running' = running /\ (at' = at \/ at' = at + 1)
      PROVE  BatchShape'
  <2>1. Batched' = Batched
    BY <1>f DEF Batched
  <2>2. ASSUME pc' = "entries", NEW k \in DOMAIN running', k >= at'
        PROVE  running'[k] \notin Batched'
    <3>1. k \in Nat /\ k \in DOMAIN running /\ k >= at
      BY <1>f, <1>t, <2>2, RunningFacts
    <3> QED BY <1>f, <1>t, <2>1, <2>2, <3>1
  <2> QED BY <1>f, <1>t, <2>1, <2>2 DEF BatchShape
<1>e. batch_entries = << >> => Batched = {}
  BY DEF Batched
<1>1. CASE Admit
  <2>1. /\ batch_entries' = batch_entries /\ pc' = "admit" /\ pc = "admit"
        /\ waiting # << >> /\ running' = Append(running, NextWaiting)
    BY <1>1 DEF Admit, MayAdmit
  <2> QED BY <2>1, <1>t, <1>f, HeadFacts
<1>2. CASE EndAdmission
  <2>1. /\ batch_entries' = << >> /\ batch_entries = << >>
        /\ pc' \in {"idle", "entries"}
    BY <1>2, <1>t DEF EndAdmission, localVars
  <2>2. Batched' = {}
    BY <2>1 DEF Batched
  <2> QED BY <2>1, <2>2 DEF BatchShape
<1>3. CASE EnterDecode \/ EnterPrefill
  <2>at. AtEntry
    BY <1>3 DEF EnterDecode, EnterPrefill
  <2>0. PICK e \in EntryType : e.req = running[at] /\ batch_entries' = Append(batch_entries, e)
    <3>1. at \in DOMAIN running /\ running[at] \in Requests
      BY <2>at, TurnFacts
    <3>2. per_req_chunk[running[at]] \in Nat
      BY <3>1 DEF TypeOK, BatchTypes
    <3>3. CASE EnterDecode
      <4>1. Entry(running[at], 1, TRUE) \in EntryType
        BY <3>1 DEF Entry, EntryType
      <4> QED BY <4>1, <3>3 DEF EnterDecode, Entry
    <3>4. CASE EnterPrefill
      <4> DEFINE n == per_req_chunk[running[at]]
      <4>1. n > 0 /\ batch_entries' =
              Append(batch_entries, Entry(running[at], n, CompletesPrompt(running[at], n)))
        BY <3>4 DEF EnterPrefill
      <4>2. n \in Nat \ {0} /\ CompletesPrompt(running[at], n) \in BOOLEAN
        BY <3>2, <4>1 DEF CompletesPrompt
      <4> HIDE DEF n
      <4>3. Entry(running[at], n, CompletesPrompt(running[at], n)) \in EntryType
        BY <3>1, <4>2 DEF Entry, EntryType
      <4> QED BY <4>1, <4>3 DEF Entry
    <3> QED BY <1>3, <3>3, <3>4
  <2>1. /\ pc = "entries" /\ pc' = "entries" /\ at' = at + 1 /\ running' = running
        /\ at \in DOMAIN running
    BY <1>3, <2>at, TurnFacts DEF EnterDecode, EnterPrefill, AtEntry, queueVars
  <2>2. e.req \notin Batched /\ e.req \in Range(running)
    BY <2>0, <2>1, <1>t, RunningFacts
  <2> DEFINE n == Len(batch_entries)
  <2>3. /\ DOMAIN batch_entries = 1 .. n /\ DOMAIN batch_entries' = 1 .. n + 1 /\ n \in Nat
        /\ \A i \in 1 .. n : batch_entries'[i] = batch_entries[i]
        /\ batch_entries'[n + 1] = e
        /\ Batched' = Batched \cup {e.req}
    BY <2>0, AppendEntry
  <2> HIDE DEF n
  <2>4. ASSUME NEW i \in 1 .. n + 1, NEW j \in 1 .. n + 1,
               batch_entries'[i].req = batch_entries'[j].req
        PROVE  i = j
    <3>1. \A k \in 1 .. n + 1 : k \in 1 .. n \/ k = n + 1
      BY <2>3
    <3>2. \A k \in 1 .. n : batch_entries'[k].req # e.req
      BY <2>2, <2>3, EntryFacts
    <3>3. CASE i \in 1 .. n /\ j \in 1 .. n
      BY <2>3, <2>4, <3>3, <1>t
    <3> QED BY <2>3, <2>4, <3>1, <3>2, <3>3
  <2>5. ASSUME NEW k \in DOMAIN running, k >= at + 1 PROVE running[k] \notin Batched'
    <3>1. k \in Nat /\ k >= at /\ k # at
      BY <2>5, <1>t, RunningFacts
    <3>2. running[k] \notin Batched /\ running[k] # running[at]
      BY <2>1, <2>5, <3>1, <1>t, RunningFacts
    <3> QED BY <2>0, <2>3, <3>2
  <2> QED BY <2>1, <2>2, <2>3, <2>4, <2>5, <1>t DEF BatchShape
<1>4. CASE EndEntries
  <2>1. /\ running' = Without(running, {r \in Requests : status[r] = "finished"})
        /\ batch_entries' = batch_entries
        /\ pc' = IF batch_entries = << >> THEN "idle" ELSE "forward"
    BY <1>4 DEF EndEntries, StillRunning
  <2>2. Range(running') = Range(running) \ {r \in Requests : status[r] = "finished"}
    BY <2>1, <1>t, WithoutRange
  <2>3. \A r \in Batched : status[r] # "finished"
    BY <1>4, EntryFacts DEF EndEntries, LifeCycle, EntriesLive
  <2> QED BY <2>1, <2>2, <2>3, <1>t, <1>f
<1>5. CASE UpdateReturn
  <2>1. batch_entries' = << >> /\ pc' = "idle"
    BY <1>5 DEF UpdateReturn
  <2>2. Batched' = {}
    BY <2>1 DEF Batched
  <2> QED BY <2>1, <2>2 DEF BatchShape
<1>6. ASSUME NEW r \in Requests, AbortRequest(r) PROVE BatchShape'
  BY <1>6, <1>t, <1>f DEF AbortRequest, AbortWaiting, AbortRunning, localVars, queueVars
<1>7. CASE \/ AddRequest \/ Sleep \/ StepBegin \/ PlanChunk \/ EndPlan \/ RejectTooLong
  BY <1>7, <1>t, <1>f DEF AddRequest, Sleep, StepBegin, PlanChunk, EndPlan, RejectTooLong,
     vars, localVars, queueVars
<1>8. CASE SkipEntry \/ GrowTable \/ OutOfBlocks
  BY <1>8, <1>t, <1>f DEF SkipEntry, GrowTable, OutOfBlocks, AtEntry, localVars, queueVars
<1>9. CASE \/ Forward \/ AdvanceComputed \/ AppendSampled \/ SkipUnsampled
           \/ EndSample \/ FreeFinished
  BY <1>9, <1>t, <1>f DEF Forward, AdvanceComputed, AppendSampled, SkipUnsampled, EndSample,
     FreeFinished, localVars, queueVars
<1>10. CASE UNCHANGED vars
  BY <1>10, <1>t, <1>f DEF vars, localVars, queueVars
<1>11. Abortable \subseteq Requests
  BY SchedulerAssumption
<1> QED
  BY <1>1, <1>2, <1>3, <1>4, <1>5, <1>6, <1>7, <1>8, <1>9, <1>10, <1>11
     DEF Next, EngineThread, StepTurn, UpdateTurn

\* What is entered fits the table: a decode because step() grew the table
\* first, a prefill because admission reserved the whole prompt.
LEMMA EntriesLiveNext == LifeInv /\ [Next]_vars => EntriesLive'
<1> SUFFICES ASSUME TypeOK, QueueOrder, LifeCycle, [Next]_vars PROVE EntriesLive'
  BY DEF LifeInv
<1>t. /\ status \in [Requests -> {"waiting", "prefilling", "decoding", "finished"}]
      /\ num_computed_tokens \in [Requests -> Nat] /\ block_table \in [Requests -> Seq(Blocks)]
      /\ per_req_chunk \in [Requests -> Nat] /\ BlockSize \in Nat \ {0} /\ at \in Nat
      /\ BatchShape /\ EntriesLive
  BY SchedulerAssumption DEF TypeOK, RequestTypes, BlockTypes, BatchTypes, LifeCycle
\* Where nothing is claimed, and where the batch stays as it is.
<1>n. ASSUME pc' \notin {"entries", "forward", "update", "sample"} \/ batch_entries' = << >>
      PROVE  EntriesLive'
  BY <1>n DEF EntriesLive
<1>f. ASSUME batch_entries' = batch_entries, UNCHANGED <<params, num_computed_tokens>>,
             pc' \in {"entries", "forward", "update"} => pc \in {"entries", "forward", "update"},
             pc' = "sample" => pc = "sample" /\ (at' = at \/ at' = at + 1),
             \A r \in Batched : status'[r] = status[r] /\ block_table'[r] = block_table[r]
      PROVE  EntriesLive'
  <2> SUFFICES ASSUME NEW i \in DOMAIN batch_entries
               PROVE  /\ pc' \in {"entries", "forward", "update"} =>
                           status'[batch_entries'[i].req] # "finished" /\ Fits(i)'
                      /\ pc' = "sample" /\ i >= at' => status'[batch_entries'[i].req] # "finished"
    BY <1>f DEF EntriesLive
  <2>0. PICK r \in Requests : r = batch_entries[i].req /\ r \in Batched
    BY EntryFacts
  <2>1. batch_entries'[i] = batch_entries[i] /\ status'[r] = status[r]
        /\ block_table'[r] = block_table[r] /\ i \in Nat
    BY <2>0, <1>f, EntryFacts
  <2>2. Fits(i) => Fits(i)'
    BY <2>0, <2>1, <1>f DEF Fits, IsPromptDone, NumPromptTokens
  <2>3. i >= at' /\ pc' = "sample" => i >= at
    BY <2>1, <1>f, <1>t
  <2> QED BY <2>0, <2>1, <2>2, <2>3, <1>f, <1>t DEF EntriesLive
<1>1. CASE EndAdmission
  BY <1>1, <1>t, <1>n DEF EndAdmission, localVars, BatchShape
<1>2. CASE GrowTable \/ OutOfBlocks
  <2>1. running[at] \notin Batched /\ running[at] \in Requests
    BY <1>2, <1>t, RunningFacts DEF GrowTable, OutOfBlocks, AtEntry, TypeOK, BatchShape
  <2>2. Batched \subseteq Requests
    BY EntryFacts
  <2> QED BY <2>1, <2>2, <1>2, <1>t, <1>f
          DEF GrowTable, OutOfBlocks, Finish, AtEntry, localVars, requestVars, blockVars
<1>3. CASE EnterDecode \/ EnterPrefill
  <2>0. PICK r \in Requests : r = running[at] /\ r \in Range(running) /\ at \in DOMAIN running
    <3>1. AtEntry
      BY <1>3 DEF EnterDecode, EnterPrefill
    <3> QED BY <3>1, TurnFacts
  <2> DEFINE c == num_computed_tokens[r]
             p == NumPromptTokens(r)
             m == Len(block_table[r])
  <2>1. /\ pc = "entries" /\ pc' = "entries" /\ status[r] # "finished"
        /\ UNCHANGED <<params, num_computed_tokens, status, block_table>>
    BY <1>3, <2>0 DEF EnterDecode, EnterPrefill, AtEntry, requestVars, blockVars
  <2>2. c \in Nat /\ p \in Nat /\ m \in Nat
    BY <1>t, ParamsType
  <2>3. PICK n \in Nat \ {0}, done \in BOOLEAN :
          /\ batch_entries' = Append(batch_entries, Entry(r, n, done))
          /\ c + n <= m * BlockSize
          /\ IF c >= p THEN n = 1 /\ done ELSE c + n <= p /\ (done <=> c + n >= p)
    <3>1. CASE EnterDecode
      <4>1. /\ c >= p /\ CeilDiv(c + 1, BlockSize) <= m
            /\ batch_entries' = Append(batch_entries, Entry(r, 1, TRUE))
        BY <3>1, <2>0 DEF EnterDecode, IsPromptDone, DecodeBlocks
      <4>2. c + 1 \in Nat
        BY <2>2
      <4>3. c + 1 <= m * BlockSize
        BY <4>1, <4>2, <2>2, <1>t, CeilCovers
      <4> HIDE DEF c, p, m
      <4>4. IF c >= p THEN 1 = 1 /\ TRUE ELSE c + 1 <= p /\ (TRUE <=> c + 1 >= p)
        BY <4>1
      <4>5. 1 \in Nat \ {0} /\ TRUE \in BOOLEAN
        OBVIOUS
      <4> QED BY <4>1, <4>3, <4>4, <4>5
    <3>2. CASE EnterPrefill
      <4> DEFINE k == per_req_chunk[r]
      <4>1. /\ ~(c >= p) /\ k > 0
            /\ batch_entries' = Append(batch_entries, Entry(r, k, c + k >= p))
        BY <3>2, <2>0 DEF EnterPrefill, IsPromptDone, CompletesPrompt
      <4>2. k \in Nat /\ k <= PromptTokensRemaining(r)
        BY <2>1, <1>t DEF LifeCycle, ChunksFit
      <4> HIDE DEF k
      <4>3. c + k <= p
        BY <4>1, <4>2, <2>2 DEF PromptTokensRemaining, Greatest
      <4>4. p <= m * BlockSize
        BY <2>0, <2>1 DEF LifeCycle, Admitted
      <4>5. c + k <= m * BlockSize
        <5> DEFINE slots == m * BlockSize
        <5>1. slots \in Nat
          BY <2>2, <1>t
        <5> HIDE DEF slots, c, p
        <5>2. p <= slots
          BY <4>4 DEF slots
        <5>3. c + k <= slots
          BY <4>2, <4>3, <5>1, <5>2, <2>2
        <5> QED BY <5>3 DEF slots
      <4>6. k \in Nat \ {0} /\ (c + k >= p) \in BOOLEAN
        BY <4>1, <4>2
      <4> QED BY <4>1, <4>3, <4>5, <4>6
    <3> QED BY <1>3, <3>1, <3>2
  <2> DEFINE e == Entry(r, n, done)
             l == Len(batch_entries)
  <2>4. e \in EntryType /\ e.req = r /\ e.q_len = n /\ e.samples = done
    BY DEF Entry, EntryType
  <2> HIDE DEF e
  <2>5. /\ DOMAIN batch_entries = 1 .. l /\ DOMAIN batch_entries' = 1 .. l + 1 /\ l \in Nat
        /\ \A i \in 1 .. l : batch_entries'[i] = batch_entries[i]
        /\ batch_entries'[l + 1] = e
    <3>1. batch_entries' = Append(batch_entries, e)
      BY <2>3 DEF e
    <3> QED BY <2>4, <3>1, AppendEntry
  <2> HIDE DEF l
  <2>6. ASSUME NEW i \in DOMAIN batch_entries'
        PROVE  status'[batch_entries'[i].req] # "finished" /\ Fits(i)'
    <3>1. CASE i \in 1 .. l
      <4>1. batch_entries'[i] = batch_entries[i]
        BY <2>5, <3>1
      <4> QED BY <4>1, <3>1, <2>1, <2>5, <1>t DEF EntriesLive, Fits, IsPromptDone, NumPromptTokens
    <3>2. CASE i = l + 1
      <4>1. batch_entries'[i] = e /\ batch_entries'[i].req = r
        BY <2>4, <2>5, <3>2
      <4>2. /\ num_computed_tokens'[r] = c /\ NumPromptTokens(r)' = p
            /\ Len(block_table'[r]) = m
        BY <2>1 DEF NumPromptTokens
      <4> HIDE DEF c, p, m
      <4>3. IsPromptDone(r)' <=> c >= p
        BY <4>2 DEF IsPromptDone
      <4>4. IF IsPromptDone(r)' THEN n = 1 /\ done ELSE c + n <= p /\ (done <=> c + n >= p)
        BY <2>3, <4>3
      <4>5. Fits(i)'
        BY <2>3, <2>4, <4>1, <4>2, <4>4, Zenon DEF Fits
      <4> QED BY <2>1, <4>1, <4>5
    <3>3. i \in 1 .. l \/ i = l + 1
      BY <2>5
    <3> QED BY <3>1, <3>2, <3>3
  <2> QED BY <2>1, <2>6 DEF EntriesLive
<1>4. CASE AdvanceComputed
  <2>1. /\ pc = "update" /\ pc' = "sample" /\ UNCHANGED <<batch_entries, status>>
    BY <1>4 DEF AdvanceComputed, localVars
  <2> QED BY <2>1, <1>t DEF EntriesLive
<1>5. CASE AppendSampled
  <2>0. PICK r \in Requests : r = batch_entries[at].req
    BY <1>5, EntryFacts DEF AppendSampled, TypeOK
  <2>1. /\ pc = "sample" /\ pc' = "sample" /\ at' = at + 1 /\ batch_entries' = batch_entries
        /\ at \in DOMAIN batch_entries
    BY <1>5, EntryFacts DEF AppendSampled, TypeOK
  <2>2. \A q \in Requests : q # r => status'[q] = status[q]
    BY <1>5, <2>0, <1>t DEF AppendSampled, Finish
  <2>3. ASSUME NEW i \in DOMAIN batch_entries, i >= at + 1
        PROVE  status'[batch_entries[i].req] # "finished"
    <3>1. i \in Nat /\ i # at /\ i >= at
      BY <2>1, <2>3, <1>t, EntryFacts
    <3>2. batch_entries[i].req # r /\ batch_entries[i].req \in Requests
      BY <2>0, <2>1, <3>1, <1>t, EntryFacts DEF BatchShape
    <3> QED BY <2>1, <2>2, <3>1, <3>2, <1>t DEF EntriesLive
  <2> QED BY <2>1, <2>3 DEF EntriesLive
<1>6. CASE SkipEntry \/ EndEntries \/ Forward \/ SkipUnsampled
  BY <1>6, <1>t, <1>f DEF SkipEntry, AtEntry, EndEntries, Forward, SkipUnsampled, localVars,
     requestVars, blockVars
<1>7. CASE UNCHANGED vars
  BY <1>7, <1>t, <1>f DEF vars, localVars, requestVars, blockVars
<1>8. ASSUME NEW r \in Requests, AbortRequest(r) PROVE EntriesLive'
  BY <1>8, <1>n DEF AbortRequest, AbortWaiting, AbortRunning
<1>9. CASE \/ AddRequest \/ Sleep \/ StepBegin \/ PlanChunk \/ EndPlan \/ RejectTooLong
           \/ Admit \/ EndSample \/ FreeFinished \/ UpdateReturn
  BY <1>9, <1>n DEF AddRequest, Sleep, StepBegin, PlanChunk, EndPlan, RejectTooLong, Admit,
     EndSample, FreeFinished, UpdateReturn, vars
<1>10. Abortable \subseteq Requests
  BY SchedulerAssumption
<1> QED
  BY <1>1, <1>2, <1>3, <1>4, <1>5, <1>6, <1>7, <1>8, <1>9, <1>10
     DEF Next, EngineThread, StepTurn, UpdateTurn

\* finish() leaves on the running list only what the caller of the iteration
\* still has to look at.
LEMMA FinishedKnownNext == LifeInv /\ [Next]_vars => FinishedKnown'
<1> SUFFICES ASSUME TypeOK, QueueOrder, LifeCycle, [Next]_vars PROVE FinishedKnown'
  BY DEF LifeInv
<1>t. /\ status \in [Requests -> {"waiting", "prefilling", "decoding", "finished"}]
      /\ finish_reason \in [Requests -> Reasons] /\ running \in Seq(Requests)
      /\ finished \in Seq(Requests) /\ finished_this_step \in Seq(Requests) /\ at \in Nat
      /\ pc \notin {"sample", "free"} => finished = << >>
      /\ \A r \in Range(finished) : status[r] = "finished"
      /\ \A r \in Range(running) : status[r] = "finished" =>
           /\ pc \notin {"forward", "update"}
           /\ pc \in {"sample", "free"} => r \in Range(finished)
           /\ pc = "idle" => finish_reason[r] = "abort"
      /\ pc = "free" => \A k \in DOMAIN finished : k < at => block_table[finished[k]] = << >>
  BY DEF TypeOK, RequestTypes, QueueTypes, BatchTypes, LifeCycle, FinishedKnown
<1>e. Range(<< >>) = {}
  BY EmptySeq DEF Range
\* During step() nothing is claimed but that the list is empty.
<1>s. ASSUME pc \notin {"sample", "free"}, finished' = finished,
             \/ pc' \in {"plan", "admit", "entries"}
             \/ \A r \in Range(running') : status'[r] # "finished"
             \/ pc' = "idle" /\ \A r \in Range(running') :
                                   status'[r] = "finished" => finish_reason'[r] = "abort",
             pc' \notin {"sample", "free"}
      PROVE  FinishedKnown'
  <2>1. finished' = << >> /\ Range(finished') = {}
    BY <1>s, <1>t, <1>e
  <2> QED BY <2>1, <1>s DEF FinishedKnown
<1>1. ASSUME NEW r \in Requests, AbortRequest(r) PROVE FinishedKnown'
  <2>1. /\ pc = "idle" /\ pc' = "idle" /\ UNCHANGED <<finished, running>>
        /\ status' = [status EXCEPT ![r] = "finished"]
        /\ finish_reason' = [finish_reason EXCEPT ![r] = "abort"]
    BY <1>1 DEF AbortRequest, AbortWaiting, AbortRunning, Finish, queueVars, localVars
  <2>2. ASSUME NEW q \in Range(running), status'[q] = "finished" PROVE finish_reason'[q] = "abort"
    <3>1. q \in Requests
      BY RunningFacts
    <3>2. CASE q = r
      BY <2>1, <3>1, <3>2, <1>t
    <3>3. CASE q # r
      BY <2>1, <2>2, <3>1, <3>3, <1>t
    <3> QED BY <3>2, <3>3
  <2> QED BY <2>1, <2>2, <1>s
<1>2. CASE \/ StepBegin \/ PlanChunk \/ EndPlan \/ RejectTooLong \/ Admit
           \/ SkipEntry \/ GrowTable \/ OutOfBlocks \/ EnterDecode \/ EnterPrefill
  BY <1>2, <1>s DEF StepBegin, PlanChunk, EndPlan, RejectTooLong, Admit, SkipEntry, GrowTable,
     OutOfBlocks, EnterDecode, EnterPrefill, AtEntry, localVars
<1>3. CASE EndAdmission
  BY <1>3, <1>s, <1>e DEF EndAdmission, localVars, queueVars
<1>4. CASE EndEntries
  <2>1. Range(running') = Range(running) \ {r \in Requests : status[r] = "finished"}
    BY <1>4, <1>t, WithoutRange DEF EndEntries, StillRunning
  <2>2. \A r \in Range(running') : status[r] # "finished"
    BY <2>1, RunningFacts
  <2> QED BY <2>2, <1>4, <1>s DEF EndEntries, requestVars
<1>5. CASE AddRequest \/ Sleep
  BY <1>5, <1>t, <1>s DEF AddRequest, Sleep, vars, localVars, queueVars, requestVars
<1>6. CASE Forward
  BY <1>6, <1>t, <1>s DEF Forward, localVars, queueVars, requestVars
<1>7. CASE AdvanceComputed
  <2>1. /\ pc = "update" /\ pc' = "sample" /\ finished' = << >> /\ UNCHANGED <<status, running>>
    BY <1>7, <1>t DEF AdvanceComputed, localVars, queueVars
  <2> QED BY <2>1, <1>t, <1>e DEF FinishedKnown
<1>8. CASE AppendSampled
  <2>0. PICK r \in Requests : r = batch_entries[at].req
    BY <1>8, EntryFacts DEF AppendSampled, TypeOK
  <2>1. pc = "sample" /\ pc' = "sample" /\ running' = running
    BY <1>8 DEF AppendSampled, queueVars
  <2>2. CASE status' = [status EXCEPT ![r] = "finished"] /\ finished' = Append(finished, r)
    <3>1. Range(finished') = Range(finished) \cup {r}
      BY <2>2, <1>t, RangeAppend
    <3>2. \A q \in Requests : q # r => status'[q] = status[q]
      BY <2>2, <1>t
    <3>3. status'[r] = "finished" /\ Range(finished) \subseteq Requests
      BY <2>2, <1>t, RangeOfSeq
    <3> QED BY <2>1, <3>1, <3>2, <3>3, <1>t, RunningFacts DEF FinishedKnown
  <2>3. CASE /\ UNCHANGED <<finish_reason, finished>>
             /\ \A q \in Requests : (status'[q] = "finished") <=> (status[q] = "finished")
    <3>1. Range(finished) \subseteq Requests
      BY <1>t, RangeOfSeq
    <3> QED BY <2>1, <2>3, <3>1, <1>t, RunningFacts DEF FinishedKnown
  <2>4. \/ status' = [status EXCEPT ![r] = "finished"] /\ finished' = Append(finished, r)
        \/ /\ status' = [status EXCEPT ![r] =
                           IF @ = "prefilling" /\ IsPromptDone(r) THEN "decoding" ELSE @]
           /\ UNCHANGED <<finish_reason, finished>>
    BY <1>8, <2>0 DEF AppendSampled, Finish
  <2>5. status' = [status EXCEPT ![r] =
                     IF @ = "prefilling" /\ IsPromptDone(r) THEN "decoding" ELSE @]
        => \A q \in Requests : (status'[q] = "finished") <=> (status[q] = "finished")
    BY <1>t
  <2> QED BY <2>2, <2>3, <2>4, <2>5
<1>9. CASE SkipUnsampled \/ EndSample
  <2>1. /\ pc = "sample" /\ UNCHANGED <<status, finish_reason, running, finished, block_table>>
        /\ pc' = "sample" \/ (pc' = "free" /\ at' = 1)
    BY <1>9 DEF SkipUnsampled, EndSample, localVars, queueVars, requestVars, blockVars
  <2>2. \A k \in DOMAIN finished : ~(k < 1)
    BY <1>t
  <2> QED BY <2>1, <2>2, <1>t DEF FinishedKnown
<1>10. CASE FreeFinished
  <2>1. /\ pc = "free" /\ pc' = "free" /\ at' = at + 1
        /\ UNCHANGED <<status, finish_reason, running, finished>>
        /\ block_table' = [block_table EXCEPT ![finished[at]] = << >>]
    BY <1>10 DEF FreeFinished, ClearTable, localVars, queueVars, requestVars
  <2>2. ASSUME NEW k \in DOMAIN finished, k < at + 1 PROVE block_table'[finished[k]] = << >>
    <3>1. k \in Nat /\ finished[k] \in Requests /\ (k = at \/ k < at)
      BY <2>2, <1>t, ElementOfSeq
    <3>2. block_table[finished[k]] = << >> \/ finished[k] = finished[at]
      BY <2>1, <3>1, <1>t
    <3> QED BY <2>1, <3>1, <3>2 DEF TypeOK, BlockTypes
  <2> QED BY <2>1, <2>2, <1>t DEF FinishedKnown
<1>11. CASE UpdateReturn
  <2>1. Range(AllFinished) = Range(finished) \cup Range(finished_this_step)
    BY <1>t, RangeConcatenation DEF AllFinished
  <2>2. Range(running') = Range(running) \ Range(AllFinished)
    BY <1>11, <1>t, WithoutRange DEF UpdateReturn
  <2>3. pc = "free" /\ pc' = "idle" /\ finished' = << >> /\ status' = status
    BY <1>11 DEF UpdateReturn, requestVars
  <2> QED BY <2>1, <2>2, <2>3, <1>t, <1>e DEF FinishedKnown
<1>12. CASE UNCHANGED vars
  BY <1>12, <1>t DEF FinishedKnown, vars, localVars, queueVars, requestVars, blockVars
<1>13. Abortable \subseteq Requests
  BY SchedulerAssumption
<1> QED
  BY <1>1, <1>2, <1>3, <1>4, <1>5, <1>6, <1>7, <1>8, <1>9, <1>10, <1>11, <1>12, <1>13
     DEF Next, EngineThread, StepTurn, UpdateTurn

\* A request that ran out of blocks is Starved: it goes on below its limits.
\* One that was sampled to its end is freed and reported before the thread
\* leaves update_with_sampled().
LEMMA SettledNext == LifeInv /\ [Next]_vars => Settled'
<1> SUFFICES ASSUME TypeOK, QueueOrder, LifeCycle, [Next]_vars PROVE Settled'
  BY DEF LifeInv
<1>t. /\ status \in [Requests -> {"waiting", "prefilling", "decoding", "finished"}]
      /\ finish_reason \in [Requests -> Reasons] /\ running \in Seq(Requests)
      /\ block_table \in [Requests -> Seq(Blocks)] /\ num_output_tokens \in [Requests -> Nat]
      /\ finished \in Seq(Requests) /\ finished_this_step \in Seq(Requests) /\ at \in Nat
      /\ Settled
  BY DEF TypeOK, RequestTypes, QueueTypes, BlockTypes, BatchTypes, LifeCycle
\* A step that keeps what is settled, and adds nothing to be settled.
<1>f. ASSUME UNCHANGED <<params, num_output_tokens, finished, reported>>,
             \A r \in Requests : r \in Range(running') => r \in Range(running) \/ status[r] # "finished",
             \A r \in Requests :
               status'[r] = "finished" /\ finish_reason'[r] # "abort" =>
                 \/ TooLong(r)
                 \/ Starved(r)'
                 \/ /\ status[r] = "finished" /\ finish_reason'[r] = finish_reason[r]
                    /\ block_table'[r] = block_table[r] \/ block_table'[r] = << >>
      PROVE  Settled'
  <2> SUFFICES ASSUME NEW r \in Requests, status'[r] = "finished", finish_reason'[r] # "abort",
                      ~Starved(r)', ~TooLong(r)'
               PROVE  \/ r \in Range(finished)
                      \/ r \in reported /\ block_table'[r] = << >> /\ r \notin Range(running')
    BY <1>f DEF Settled
  <2>1. ~TooLong(r) /\ (Starved(r)' <=> finish_reason'[r] = "length" /\ num_output_tokens[r] < params[r].max_tokens
                                       /\ TotalTokens(r) < MaxModelLen)
    BY <1>f DEF TooLong, NumPromptTokens, Starved, TotalTokens
  <2>2. /\ status[r] = "finished" /\ finish_reason'[r] = finish_reason[r] /\ ~Starved(r)
        /\ block_table'[r] = block_table[r] \/ block_table'[r] = << >>
    BY <2>1, <1>f DEF Starved
  <2> QED BY <2>1, <2>2, <1>f, <1>t DEF Settled
<1>1. ASSUME NEW r \in Requests, AbortRequest(r) PROVE Settled'
  <2>1. /\ UNCHANGED <<params, num_output_tokens, finished, reported, running, block_table>>
        /\ status' = [status EXCEPT ![r] = "finished"]
        /\ finish_reason' = [finish_reason EXCEPT ![r] = "abort"]
    BY <1>1 DEF AbortRequest, AbortWaiting, AbortRunning, Finish, queueVars, localVars, blockVars
  <2>2. \A q \in Requests : finish_reason'[q] # "abort" =>
          status'[q] = status[q] /\ finish_reason'[q] = finish_reason[q]
    BY <2>1, <1>t
  <2> QED BY <2>1, <2>2, <1>f
<1>2. CASE RejectTooLong
  <2>1. /\ UNCHANGED <<params, num_output_tokens, finished, reported, running, block_table>>
        /\ status' = [status EXCEPT ![NextWaiting] = "finished"]
        /\ finish_reason' = [finish_reason EXCEPT ![NextWaiting] = "length"]
        /\ TooLong(NextWaiting)
    BY <1>2 DEF RejectTooLong, Finish, localVars, blockVars
  <2>2. \A q \in Requests : q # NextWaiting =>
          status'[q] = status[q] /\ finish_reason'[q] = finish_reason[q]
    BY <2>1, <1>t
  <2> QED BY <2>1, <2>2, <1>f
<1>3. CASE Admit
  <2>0. waiting # << >> /\ running' = Append(running, NextWaiting)
    BY <1>3 DEF Admit, MayAdmit
  <2>1. NextWaiting \in Requests /\ NextWaiting \in Range(waiting)
        /\ Range(running') = Range(running) \cup {NextWaiting}
    BY <2>0, HeadFacts
  <2>2. status[NextWaiting] = "waiting"
    BY <2>1 DEF LifeCycle, Untouched
  <2>3. /\ UNCHANGED <<params, num_output_tokens, finished, reported, finish_reason>>
        /\ status' = [status EXCEPT ![NextWaiting] = "prefilling"]
        /\ block_table' = [block_table EXCEPT ![NextWaiting] = Allocated(PromptBlocks(NextWaiting))]
    BY <1>3 DEF Admit
  <2>4. \A q \in Requests : q # NextWaiting =>
          status'[q] = status[q] /\ block_table'[q] = block_table[q]
    BY <2>3, <1>t
  <2>5. status'[NextWaiting] = "prefilling"
    BY <2>1, <2>3, <1>t
  <2> QED BY <2>1, <2>2, <2>3, <2>4, <2>5, <1>f
<1>4. CASE GrowTable
  <2>1. running[at] \in Requests
    BY <1>4, TurnFacts DEF GrowTable
  <2>2. /\ UNCHANGED <<params, num_output_tokens, finished, reported, running, status, finish_reason>>
        /\ status[running[at]] # "finished"
        /\ \A q \in Requests : q # running[at] => block_table'[q] = block_table[q]
    BY <1>4, <1>t DEF GrowTable, localVars, queueVars, requestVars
  <2> QED BY <2>1, <2>2, <1>f
<1>5. CASE OutOfBlocks
  <2>0. PICK r \in Requests : r = running[at] /\ r \in Range(running)
    BY <1>5, TurnFacts DEF OutOfBlocks
  <2>1. /\ UNCHANGED <<params, num_output_tokens, finished, reported, running, block_table>>
        /\ pc = "entries" /\ status[r] # "finished" /\ IsPromptDone(r)
        /\ status' = [status EXCEPT ![r] = "finished"]
        /\ finish_reason' = [finish_reason EXCEPT ![r] = "length"]
    BY <1>5, <2>0 DEF OutOfBlocks, AtEntry, Finish, localVars, blockVars
  <2>2. num_computed_tokens[r] = TotalTokens(r) - 1
    BY <2>0, <2>1 DEF LifeCycle, TokensInStep, InStep
  <2>3. num_output_tokens[r] > 0
    <3>1. NumPromptTokens(r) \in Nat /\ num_computed_tokens[r] \in Nat /\ num_output_tokens[r] \in Nat
      BY ParamsType DEF TypeOK, RequestTypes
    <3> QED BY <2>1, <2>2, <3>1 DEF IsPromptDone, TotalTokens
  <2>4. num_output_tokens[r] < params[r].max_tokens /\ TotalTokens(r) < MaxModelLen
    BY <2>1, <2>3 DEF LifeCycle, LimitsAhead
  <2>5. finish_reason'[r] = "length"
    BY <2>1, <1>t
  <2>6. Starved(r)'
    BY <2>1, <2>4, <2>5 DEF Starved, TotalTokens, NumPromptTokens
  <2>7. \A q \in Requests : q # r => status'[q] = status[q] /\ finish_reason'[q] = finish_reason[q]
    BY <2>1, <1>t
  <2> QED BY <2>1, <2>6, <2>7, <1>f
<1>6. CASE AppendSampled
  <2>0. PICK r \in Requests : r = batch_entries[at].req
    BY <1>6, EntryFacts DEF AppendSampled, TypeOK
  <2>1. /\ UNCHANGED <<params, reported, running, block_table>> /\ status[r] # "finished"
    <3>1. at \in DOMAIN batch_entries /\ pc = "sample"
      BY <1>6, EntryFacts DEF AppendSampled, TypeOK
    <3>2. status[r] # "finished"
      BY <2>0, <3>1, <1>t DEF LifeCycle, EntriesLive
    <3> QED BY <1>6, <3>2 DEF AppendSampled, queueVars, blockVars
  <2>2. \A q \in Requests : q # r => /\ status'[q] = status[q] /\ finish_reason'[q] = finish_reason[q]
                                     /\ num_output_tokens'[q] = num_output_tokens[q]
    BY <1>6, <2>0, <1>t DEF AppendSampled, Finish
  <2>3. /\ Range(finished) \subseteq Range(finished')
        /\ status'[r] = "finished" => r \in Range(finished')
    <3>1. CASE finished' = Append(finished, r)
      BY <3>1, <1>t, RangeAppend
    <3>2. CASE finished' = finished /\ status'[r] # "finished"
      BY <3>2
    <3>3. \/ finished' = Append(finished, r)
          \/ /\ status' = [status EXCEPT ![r] =
                             IF @ = "prefilling" /\ IsPromptDone(r) THEN "decoding" ELSE @]
             /\ finished' = finished
      BY <1>6, <2>0 DEF AppendSampled
    <3>4. status' = [status EXCEPT ![r] =
                       IF @ = "prefilling" /\ IsPromptDone(r) THEN "decoding" ELSE @]
          => status'[r] # "finished"
      BY <2>1, <1>t
    <3> QED BY <3>1, <3>2, <3>3, <3>4
  <2>4. ASSUME NEW q \in Requests, q # r, status'[q] = "finished", finish_reason'[q] # "abort",
               ~Starved(q)', ~TooLong(q)'
        PROVE  \/ q \in Range(finished')
               \/ q \in reported /\ block_table[q] = << >> /\ q \notin Range(running)
    <3>1. ~Starved(q) /\ ~TooLong(q) /\ status[q] = "finished" /\ finish_reason[q] # "abort"
      BY <2>1, <2>2, <2>4 DEF Starved, TooLong, TotalTokens, NumPromptTokens
    <3> QED BY <2>3, <3>1, <1>t DEF Settled
  <2> QED BY <2>1, <2>3, <2>4 DEF Settled
<1>7. CASE FreeFinished
  <2>1. /\ UNCHANGED <<params, num_output_tokens, finished, reported, running, status, finish_reason>>
        /\ block_table' = [block_table EXCEPT ![finished[at]] = << >>]
    BY <1>7 DEF FreeFinished, ClearTable, localVars, queueVars, requestVars
  <2>2. \A q \in Requests : block_table'[q] = block_table[q] \/ block_table'[q] = << >>
    BY <2>1, <1>t
  <2> QED BY <2>1, <2>2, <1>f
<1>8. CASE UpdateReturn
  <2>1. Range(AllFinished) = Range(finished) \cup Range(finished_this_step)
    BY <1>t, RangeConcatenation DEF AllFinished
  <2>2. Range(running') = Range(running) \ Range(AllFinished)
    BY <1>8, <1>t, WithoutRange DEF UpdateReturn
  <2>3. /\ UNCHANGED <<params, num_output_tokens, status, finish_reason, block_table>>
        /\ pc = "free" /\ at > Len(finished) /\ reported' = reported \cup Range(AllFinished)
    BY <1>8 DEF UpdateReturn, requestVars, blockVars
  <2>4. \A r \in Range(finished) : block_table[r] = << >>
    <3>1. \A k \in DOMAIN finished : k \in 1 .. Len(finished) /\ k < at
      BY <2>3, <1>t
    <3>2. Range(finished) = {finished[k] : k \in 1 .. Len(finished)}
      BY <1>t, RangeEquality
    <3>3. DOMAIN finished = 1 .. Len(finished)
      BY <1>t
    <3> QED BY <2>3, <3>1, <3>2, <3>3 DEF LifeCycle, FinishedKnown
  <2>5. ASSUME NEW q \in Requests, status'[q] = "finished", finish_reason'[q] # "abort",
               ~Starved(q)', ~TooLong(q)'
        PROVE  q \in reported' /\ block_table'[q] = << >> /\ q \notin Range(running')
    <3>1. ~Starved(q) /\ ~TooLong(q) /\ status[q] = "finished" /\ finish_reason[q] # "abort"
      BY <2>3, <2>5 DEF Starved, TooLong, TotalTokens, NumPromptTokens
    <3>2. \/ q \in Range(finished)
          \/ q \in reported /\ block_table[q] = << >> /\ q \notin Range(running)
      BY <3>1, <1>t DEF Settled
    <3> QED BY <2>1, <2>2, <2>3, <2>4, <3>2
  <2> QED BY <2>5 DEF Settled
<1>9. CASE EndEntries
  <2>1. Range(running') \subseteq Range(running)
    BY <1>9, <1>t, WithoutRange DEF EndEntries, StillRunning
  <2> QED BY <2>1, <1>9, <1>f DEF EndEntries, requestVars, blockVars
<1>10. CASE AddRequest \/ StepBegin \/ AdvanceComputed
  BY <1>10, <1>f DEF AddRequest, StepBegin, AdvanceComputed, localVars, queueVars, requestVars, blockVars
<1>11. CASE \/ Sleep \/ PlanChunk \/ EndPlan \/ EndAdmission \/ SkipEntry
            \/ EnterDecode \/ EnterPrefill \/ Forward \/ SkipUnsampled \/ EndSample
            \/ UNCHANGED vars
  BY <1>11, <1>f DEF Sleep, PlanChunk, EndPlan, EndAdmission, SkipEntry, EnterDecode,
     EnterPrefill, Forward, SkipUnsampled, EndSample, vars, localVars, queueVars, requestVars,
     blockVars
<1>12. Abortable \subseteq Requests
  BY SchedulerAssumption
<1> QED
  BY <1>1, <1>2, <1>3, <1>4, <1>5, <1>6, <1>7, <1>8, <1>9, <1>10, <1>11, <1>12
     DEF Next, EngineThread, StepTurn, UpdateTurn

LEMMA ChunksFitNext == LifeInv /\ [Next]_vars => ChunksFit'
<1> SUFFICES ASSUME TypeOK, QueueOrder, LifeCycle, [Next]_vars PROVE ChunksFit'
  BY DEF LifeInv
<1>t. /\ per_req_chunk \in [Requests -> Nat] /\ ChunkedPrefillSize \in Nat /\ token_budget \in Nat
      /\ num_computed_tokens \in [Requests -> Nat]
      /\ ChunksFit
  BY SchedulerAssumption DEF TypeOK, RequestTypes, BatchTypes, LifeCycle
<1>r. \A r \in Requests : NumPromptTokens(r) \in Nat /\ PromptTokensRemaining(r) \in Nat
  BY <1>t, ParamsType DEF PromptTokensRemaining, Greatest
<1>f. ASSUME UNCHANGED <<params, num_computed_tokens>>,
             pc' \in {"plan", "admit", "entries"} =>
               \A r \in Requests : \/ per_req_chunk'[r] <= PromptTokensRemaining(r)
                                   \/ pc \in {"plan", "admit", "entries"} /\ per_req_chunk'[r] = per_req_chunk[r]
      PROVE  ChunksFit'
  BY <1>f, <1>t DEF ChunksFit, PromptTokensRemaining, NumPromptTokens
<1>1. CASE StepBegin
  <2>1. \A r \in Requests : per_req_chunk'[r] = 0
    BY <1>1 DEF StepBegin, NoChunks
  <2> QED BY <2>1, <1>1, <1>r, <1>f DEF StepBegin, requestVars
<1>2. CASE PlanChunk
  <2>0. PICK r \in Requests : r = running[at]
    BY <1>2, RunningFacts DEF PlanChunk, TypeOK
  <2>1. PlannedChunk(r) <= PromptTokensRemaining(r)
    BY <1>r, <1>t DEF PlannedChunk, Least
  <2>2. /\ per_req_chunk' = [per_req_chunk EXCEPT ![r] = PlannedChunk(r)] /\ pc = "plan"
        /\ UNCHANGED <<params, num_computed_tokens>>
    BY <1>2, <2>0 DEF PlanChunk, requestVars
  <2>3. \A q \in Requests : \/ per_req_chunk'[q] <= PromptTokensRemaining(q)
                            \/ per_req_chunk'[q] = per_req_chunk[q]
    BY <2>1, <2>2, <1>t
  <2> QED BY <2>2, <2>3, <1>f
<1>3. CASE Admit
  <2>0. /\ waiting # << >> /\ pc = "admit" /\ UNCHANGED <<params, num_computed_tokens>>
        /\ per_req_chunk' = [per_req_chunk EXCEPT ![NextWaiting] = FirstChunk(NextWaiting)]
    BY <1>3 DEF Admit, MayAdmit
  <2>1. NextWaiting \in Requests /\ num_computed_tokens[NextWaiting] = 0
    BY <2>0, HeadFacts DEF LifeCycle, Untouched
  <2>2. PromptTokensRemaining(NextWaiting) = NumPromptTokens(NextWaiting)
    BY <2>1, <1>r DEF PromptTokensRemaining, Greatest
  <2>3. FirstChunk(NextWaiting) <= PromptTokensRemaining(NextWaiting)
    BY <2>1, <2>2, <1>r, <1>t DEF FirstChunk, Least
  <2>4. \A q \in Requests : \/ per_req_chunk'[q] <= PromptTokensRemaining(q)
                            \/ per_req_chunk'[q] = per_req_chunk[q]
    BY <2>0, <2>3, <1>t
  <2> QED BY <2>0, <2>4, <1>f
<1>4. ASSUME pc' \notin {"plan", "admit", "entries"} PROVE ChunksFit'
  BY <1>4 DEF ChunksFit
<1>5. ASSUME NEW r \in Requests, AbortRequest(r) PROVE ChunksFit'
  BY <1>5, <1>4 DEF AbortRequest, AbortWaiting, AbortRunning
<1>6. CASE \/ AddRequest \/ Sleep \/ EndEntries \/ Forward \/ AdvanceComputed \/ AppendSampled
           \/ SkipUnsampled \/ EndSample \/ FreeFinished \/ UpdateReturn
  BY <1>6, <1>4 DEF AddRequest, Sleep, EndEntries, Forward, AdvanceComputed, AppendSampled,
     SkipUnsampled, EndSample, FreeFinished, UpdateReturn, vars
<1>7. CASE \/ EndPlan \/ RejectTooLong \/ EndAdmission \/ SkipEntry \/ GrowTable
           \/ OutOfBlocks \/ EnterDecode \/ EnterPrefill \/ UNCHANGED vars
  BY <1>7, <1>f DEF EndPlan, RejectTooLong, EndAdmission, SkipEntry, GrowTable, OutOfBlocks,
     EnterDecode, EnterPrefill, AtEntry, vars, requestVars, localVars
<1>8. Abortable \subseteq Requests
  BY SchedulerAssumption
<1> QED
  BY <1>1, <1>2, <1>3, <1>5, <1>6, <1>7, <1>8 DEF Next, EngineThread, StepTurn, UpdateTurn

LEMMA LifeNext == LifeInv /\ [Next]_vars => LifeInv'
BY TypeNext, QueueOrderNext, UntouchedNext, AdmittedNext, LimitsAheadNext, TokensInStepNext,
   BatchShapeNext, EntriesLiveNext, FinishedKnownNext, SettledNext, ChunksFitNext
   DEF LifeInv, LifeCycle

LEMMA LifeCorrect == Spec => []LifeInv
<1>1. Init => LifeInv
  BY TypeInit, QueueOrderInit, LifeInit DEF LifeInv
<1> QED BY <1>1, LifeNext, PTL DEF Spec

-----------------------------------------------------------------------------
(* What the invariant gives.                                               *)

\* A position below n blocks of b slots is in one of the first n blocks.
LEMMA BlockOfPosition ==
  ASSUME NEW pos \in Nat, NEW n \in Nat, NEW b \in Nat \ {0}, pos < n * b
  PROVE  pos \div b + 1 \in 1 .. n
<1> DEFINE q == pos \div b
<1>1. q \in Nat
  OBVIOUS
<1>2. pos = (b * q) + (pos % b) /\ pos % b \in 0 .. b - 1
  OBVIOUS
<1> HIDE DEF q
<1>3. b * q <= pos
  BY <1>1, <1>2
<1>4. ASSUME n <= q PROVE FALSE
  <2>1. n * b <= b * q
    BY <1>1, <1>4
  <2> QED BY <1>1, <1>3, <2>1
<1> QED BY <1>1, <1>4 DEF q

\* Each position of each entry of a batch falls in a block of the request's
\* table, so step() can always build the slot mapping.
THEOREM SlotsHaveBlocks == Spec => []SlotsInBounds
<1>1. LifeInv => SlotsInBounds
  <2> SUFFICES ASSUME TypeOK, LifeCycle, pc = "forward",
                      NEW i \in DOMAIN batch_entries, NEW r \in Requests, r = batch_entries[i].req,
                      NEW pos \in num_computed_tokens[r] ..
                                  num_computed_tokens[r] + batch_entries[i].q_len - 1
               PROVE  pos \div BlockSize + 1 \in DOMAIN block_table[r]
    BY EntryFacts DEF LifeInv, SlotsInBounds
  <2> DEFINE m == Len(block_table[r])
             slots == m * BlockSize
  <2>1. /\ num_computed_tokens[r] \in Nat /\ batch_entries[i].q_len \in Nat /\ m \in Nat
        /\ DOMAIN block_table[r] = 1 .. m /\ BlockSize \in Nat \ {0}
    BY EntryFacts, SchedulerAssumption DEF TypeOK, RequestTypes, BlockTypes
  <2>2. num_computed_tokens[r] + batch_entries[i].q_len <= slots
    BY DEF LifeCycle, EntriesLive, Fits
  <2>3. slots \in Nat
    BY <2>1
  <2> HIDE DEF slots
  <2>4. pos \in Nat /\ pos < slots
    BY <2>1, <2>2, <2>3
  <2> HIDE DEF m
  <2> QED BY <2>1, <2>4, BlockOfPosition DEF slots
<1> QED BY <1>1, LifeCorrect, PTL

\* Between iterations a decoding request has computed all but its last output
\* token, and one whose prompt is not done has no output.
THEOREM ComputedIsEmitted == Spec => []ComputedMatchesEmitted
<1>1. LifeInv => ComputedMatchesEmitted
  BY DEF LifeInv, LifeCycle, TokensInStep, InStep, ComputedMatchesEmitted
<1> QED BY <1>1, LifeCorrect, PTL

\* No position at or beyond max_model_len reaches the model, and no request
\* gets more tokens than it asked for.
THEOREM LengthsAreLimited == Spec => []LengthLimits
<1>1. LifeInv => LengthLimits
  <2> SUFFICES ASSUME TypeOK, QueueOrder, LifeCycle PROVE LengthLimits
    BY DEF LifeInv
  <2>1. ASSUME pc = "forward", NEW i \in DOMAIN batch_entries,
               NEW r \in Requests, r = batch_entries[i].req
        PROVE  num_computed_tokens[r] + batch_entries[i].q_len <= MaxModelLen
    <3>1. /\ num_computed_tokens[r] \in Nat /\ batch_entries[i].q_len \in Nat
          /\ NumPromptTokens(r) \in Nat /\ MaxModelLen \in Nat /\ num_output_tokens[r] \in Nat
      BY <2>1, EntryFacts, ParamsType, SchedulerAssumption DEF TypeOK, RequestTypes
    <3>2. r \in Range(running) /\ status[r] # "finished" /\ Fits(i)
      BY <2>1, EntryFacts DEF LifeCycle, BatchShape, EntriesLive
    <3>3. InStep(r) /\ NumPromptTokens(r) <= MaxModelLen
      BY <2>1, <3>1, <3>2 DEF LifeCycle, TokensInStep, Admitted, TooLong
    <3>4. CASE IsPromptDone(r)
      <4>1. batch_entries[i].q_len = 1 /\ num_computed_tokens[r] = TotalTokens(r) - 1
        BY <2>1, <3>2, <3>3, <3>4 DEF Fits, InStep
      <4>2. num_output_tokens[r] > 0
        BY <3>1, <3>4, <4>1 DEF IsPromptDone, TotalTokens
      <4>3. TotalTokens(r) < MaxModelLen
        BY <3>2, <4>2 DEF LifeCycle, LimitsAhead
      <4> QED BY <3>1, <4>1, <4>3 DEF TotalTokens
    <3>5. CASE ~IsPromptDone(r)
      <4>1. num_computed_tokens[r] + batch_entries[i].q_len <= NumPromptTokens(r)
        BY <2>1, <3>2, <3>5 DEF Fits
      <4> QED BY <3>1, <3>3, <4>1
    <3> QED BY <3>4, <3>5
  <2> QED BY <2>1, EntryFacts DEF LengthLimits, LifeCycle, LimitsAhead
<1> QED BY <1>1, LifeCorrect, PTL

\* A request that stopped by its own tokens or limits is, once the iteration
\* is over, off the running list, without blocks, and handed to the engine.
THEOREM NormalFinishCompletes == Spec => []NormalFinishIsComplete
<1>1. LifeInv => NormalFinishIsComplete
  <2> SUFFICES ASSUME LifeCycle, pc = "idle", NEW r \in Requests,
                      status[r] = "finished", finish_reason[r] # "abort",
                      ~Starved(r), ~TooLong(r)
               PROVE  r \in reported /\ block_table[r] = << >> /\ r \notin Range(running)
    BY DEF LifeInv, NormalFinishIsComplete
  <2>1. Range(finished) = {}
    BY EmptySeq DEF LifeCycle, FinishedKnown, Range
  <2> QED BY <2>1 DEF LifeCycle, Settled
<1> QED BY <1>1, LifeCorrect, PTL

\* What a step leaves alone in a finished request.
KeepsFinished ==
  \A r \in Requests : status[r] = "finished" =>
    /\ status'[r] = "finished"
    /\ finish_reason'[r] = finish_reason[r]
    /\ num_output_tokens'[r] = num_output_tokens[r]
    /\ num_computed_tokens'[r] = num_computed_tokens[r]

LEMMA FinishIsKept == LifeInv /\ [Next]_vars => KeepsFinished
<1> SUFFICES ASSUME TypeOK, QueueOrder, LifeCycle, [Next]_vars PROVE KeepsFinished
  BY DEF LifeInv
<1>t. /\ status \in [Requests -> {"waiting", "prefilling", "decoding", "finished"}]
      /\ finish_reason \in [Requests -> Reasons]
      /\ num_computed_tokens \in [Requests -> Nat] /\ num_output_tokens \in [Requests -> Nat]
  BY DEF TypeOK, RequestTypes
\* One request is changed, and that one was not finished.
<1>f. ASSUME NEW q, status[q] # "finished",
             \A r \in Requests : r # q =>
               /\ status'[r] = status[r] /\ finish_reason'[r] = finish_reason[r]
               /\ num_output_tokens'[r] = num_output_tokens[r]
               /\ num_computed_tokens'[r] = num_computed_tokens[r]
      PROVE  KeepsFinished
  BY <1>f DEF KeepsFinished
<1>1. ASSUME NEW r \in Requests, AbortWaiting(r) PROVE KeepsFinished
  <2>1. status[r] = "waiting"
    BY <1>1 DEF AbortWaiting, LifeCycle, Untouched
  <2> QED BY <1>1, <1>t, <1>f, <2>1 DEF AbortWaiting, Finish
<1>2. ASSUME NEW r \in Requests, AbortRunning(r) PROVE KeepsFinished
  <2>1. status[r] = "finished" => finish_reason[r] = "abort"
    BY <1>2 DEF AbortRunning, LifeCycle, FinishedKnown
  <2>2. /\ status' = [status EXCEPT ![r] = "finished"]
        /\ finish_reason' = [finish_reason EXCEPT ![r] = "abort"]
        /\ UNCHANGED <<num_computed_tokens, num_output_tokens>>
    BY <1>2 DEF AbortRunning, Finish
  <2> QED BY <1>t, <2>1, <2>2 DEF KeepsFinished
<1>3. CASE RejectTooLong \/ Admit
  <2>1. NextWaiting \in Requests /\ NextWaiting \in Range(waiting)
    BY <1>3, HeadFacts DEF RejectTooLong, Admit, MayAdmit
  <2>2. status[NextWaiting] = "waiting"
    BY <2>1 DEF LifeCycle, Untouched
  <2> QED BY <1>3, <1>t, <1>f, <2>1, <2>2 DEF RejectTooLong, Admit, Finish
<1>4. CASE OutOfBlocks
  BY <1>4, <1>t, <1>f DEF OutOfBlocks, Finish
<1>5. CASE AdvanceComputed
  <2>1. ASSUME NEW r \in Requests, status[r] = "finished" PROVE QueryLen(r) = 0
    <3>1. r \notin Range(running)
      BY <1>5, <2>1 DEF AdvanceComputed, LifeCycle, FinishedKnown
    <3>2. r \notin Batched
      BY <3>1 DEF LifeCycle, BatchShape
    <3> QED BY <3>2, QueryFacts DEF LifeCycle
  <2> QED BY <1>5, <1>t, <2>1 DEF AdvanceComputed, KeepsFinished
<1>6. CASE AppendSampled
  <2>0. PICK r \in Requests : r = batch_entries[at].req
    BY <1>6, EntryFacts DEF AppendSampled, TypeOK
  <2>1. status[r] # "finished"
    <3>1. at \in DOMAIN batch_entries /\ pc = "sample" /\ at >= at
      BY <1>6, EntryFacts DEF AppendSampled, TypeOK
    <3> QED BY <2>0, <3>1 DEF LifeCycle, EntriesLive
  <2> QED BY <1>6, <1>t, <1>f, <2>0, <2>1 DEF AppendSampled, Finish
<1>7. CASE \/ AddRequest \/ Sleep \/ StepBegin \/ PlanChunk \/ EndPlan \/ EndAdmission
           \/ SkipEntry \/ GrowTable \/ EnterDecode \/ EnterPrefill \/ EndEntries
  BY <1>7 DEF AddRequest, Sleep, StepBegin, PlanChunk, EndPlan, EndAdmission, SkipEntry,
     GrowTable, EnterDecode, EnterPrefill, EndEntries, vars, requestVars, KeepsFinished
<1>8. CASE \/ Forward \/ SkipUnsampled \/ EndSample \/ FreeFinished \/ UpdateReturn
           \/ UNCHANGED vars
  BY <1>8 DEF Forward, SkipUnsampled, EndSample, FreeFinished, UpdateReturn, vars, requestVars,
     KeepsFinished
<1>9. Abortable \subseteq Requests
  BY SchedulerAssumption
<1> QED BY <1>1, <1>2, <1>3, <1>4, <1>5, <1>6, <1>7, <1>8, <1>9
        DEF Next, AbortRequest, EngineThread, StepTurn, UpdateTurn

\* Once finished, a request keeps its reason and gains no more tokens, though
\* it may stay on the running list: only an abort can meet it there, and that
\* one is already an abort.
THEOREM FinishedStaysFinished == Spec => FinishIsFinal
BY FinishIsKept, LifeCorrect, PTL DEF Spec, FinishIsFinal, KeepsFinished

=============================================================================
