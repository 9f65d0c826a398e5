---------------------------- MODULE EngineProofs ----------------------------
(***************************************************************************)
(* The engine drives the scheduler only in ways that the scheduler's own   *)
(* specification allows, so what is proved of the one holds in the other.  *)
(***************************************************************************)
EXTENDS Engine, BudgetProofs

\* Only requests that may be aborted are ever in the abort queue.
AbortsAllowed ==
  /\ gone \subseteq Abortable
  /\ abort_q \in Seq(Abortable)

LEMMA StepKeepsAborts == AbortsAllowed /\ [EngineNext]_engineVars => AbortsAllowed'
<1> SUFFICES ASSUME AbortsAllowed, [EngineNext]_engineVars PROVE AbortsAllowed'
  OBVIOUS
<1>1. ASSUME NEW r \in Requests, Submit(r) \/ TakeOutput(r) PROVE AbortsAllowed'
  BY <1>1 DEF AbortsAllowed, Submit, TakeOutput, queues
<1>2. ASSUME NEW r \in Requests, CheckConnection(r) PROVE AbortsAllowed'
  BY <1>2 DEF AbortsAllowed, CheckConnection
<1>3. ASSUME NEW r \in Abortable, Disconnect(r) PROVE AbortsAllowed'
  BY <1>3 DEF AbortsAllowed, Disconnect, queues
<1>4. CASE DrainAbort
  <2>1. gone' = gone /\ abort_q' = Tail(abort_q) /\ abort_q # << >>
    BY <1>4 DEF DrainAbort, handlerVars
  <2> QED BY <2>1 DEF AbortsAllowed
<1>5. CASE DrainAdd \/ SchedulerTurn
  BY <1>5 DEF AbortsAllowed, DrainAdd, SchedulerTurn, queues, handlerVars
<1>6. CASE LoopHead \/ Stop \/ Exited \/ AddsDrained \/ AbortsDrained \/ DeltasPushed \/ StreamsEnded
  BY <1>6 DEF AbortsAllowed, LoopHead, Stop, Exited, AddsDrained, AbortsDrained, DeltasPushed,
       StreamsEnded, engineVars, queues, handlerVars
<1>7. CASE PushDelta \/ EndStream
  BY <1>7 DEF AbortsAllowed, PushDelta, EndStream, queues, handlerVars
<1>8. CASE UNCHANGED engineVars
  BY <1>8 DEF AbortsAllowed, engineVars, queues, handlerVars
<1> QED
  BY <1>1, <1>2, <1>3, <1>4, <1>5, <1>6, <1>7, <1>8 DEF EngineNext, HandlerTurn, EngineLoop

LEMMA LoopDrivesScheduler == AbortsAllowed /\ EngineLoop => [Next]_vars
<1> SUFFICES ASSUME AbortsAllowed, EngineLoop PROVE [Next]_vars
  OBVIOUS
<1>1. CASE DrainAdd
  BY <1>1 DEF DrainAdd, Next
<1>2. CASE DrainAbort
  <2>1. Head(abort_q) \in Abortable
    BY <1>2 DEF DrainAbort, AbortsAllowed
  <2> QED BY <1>2, <2>1 DEF DrainAbort, Next
<1>3. CASE SchedulerTurn
  BY <1>3 DEF SchedulerTurn, Next
<1>4. CASE LoopHead \/ AddsDrained \/ AbortsDrained \/ DeltasPushed \/ StreamsEnded
  BY <1>4 DEF LoopHead, AddsDrained, AbortsDrained, DeltasPushed, StreamsEnded
<1>5. CASE PushDelta \/ EndStream
  BY <1>5 DEF PushDelta, EndStream
<1> QED BY <1>1, <1>2, <1>3, <1>4, <1>5 DEF EngineLoop

LEMMA EngineStepIsStep == AbortsAllowed /\ [EngineNext]_engineVars => [Next]_vars
<1> SUFFICES ASSUME AbortsAllowed, [EngineNext]_engineVars PROVE [Next]_vars
  OBVIOUS
<1>1. ASSUME NEW r, Submit(r) \/ HandlerTurn(r) \/ Disconnect(r) \/ Stop
      PROVE  UNCHANGED vars
  BY <1>1 DEF Submit, HandlerTurn, CheckConnection, TakeOutput, Disconnect, Stop
<1>2. CASE Exited \/ UNCHANGED engineVars
  BY <1>2 DEF Exited, engineVars
<1> QED BY <1>1, <1>2, LoopDrivesScheduler DEF EngineNext

\* With the queues drained one entry at a time, and handlers that come and
\* leave at any moment, the engine is still an execution of the scheduler.
THEOREM EngineDrivesScheduler == EngineSpec => Spec
<1>1. EngineInit => Init /\ AbortsAllowed
  BY DEF EngineInit, AbortsAllowed
<1> QED BY <1>1, EngineStepIsStep, StepKeepsAborts, PTL DEF EngineSpec, Spec

\* In the running engine, too, every block of the cache has one place: on the
\* free list, or in the table of one request.
THEOREM EngineKeepsOwnership == EngineSpec => []BlockOwnership
BY EngineDrivesScheduler, BlocksHaveOnePlace, PTL

\* So do the batches that the running engine hands to the model: they stay
\* within the token budget and the model's length, every slot has a block, and
\* everyone who runs takes part.
THEOREM EngineBatchesAreSound ==
  EngineSpec => [](BatchWithinBudget /\ SlotsInBounds /\ LengthLimits /\ EveryoneAdvances)
BY EngineDrivesScheduler, BatchFitsBudget, SlotsHaveBlocks, LengthsAreLimited,
   EveryoneTakesPart, PTL

\* However clients come and leave, a finished request stays as it finished.
THEOREM EngineFinishIsFinal == EngineSpec => FinishIsFinal
BY EngineDrivesScheduler, FinishedStaysFinished, PTL

-----------------------------------------------------------------------------
(* What update_with_sampled() hands to the engine.                         *)

\* A token was sampled for r in this iteration, and is counted.
Sampled(r) ==
  \E i \in DOMAIN batch_entries :
    /\ batch_entries[i].req = r /\ batch_entries[i].samples
    /\ pc = "free" \/ (pc = "sample" /\ i < at)

OwnReasons == {"stop", "length"}

\* The requests that update_with_sampled() returns: those that finished by
\* their sampled token, and those that step() gave up on, in this iteration.
ReturnKnown ==
  /\ \A r \in Requests : status[r] # "finished" => finish_reason[r] = "none"
  /\ \A r \in Requests : Sampled(r) /\ status[r] = "finished" => finish_reason[r] \in OwnReasons
  /\ \A r \in Range(finished) : Sampled(r)
  /\ pc # "idle" => \A r \in Range(finished_this_step) :
       /\ status[r] = "finished"
       /\ Starved(r) \/ (TooLong(r) /\ r <= arrived)

-----------------------------------------------------------------------------
(* The scheduler's part.                                                   *)

LEMMA ReturnInit == Init => ReturnKnown
BY EmptySeq DEF Init, ReturnKnown, Sampled, Range

LEMMA ParamsFixed == [Next]_vars => params' = params
<1> SUFFICES ASSUME [Next]_vars PROVE params' = params
  OBVIOUS
<1>1. ASSUME NEW r \in Abortable, AbortRequest(r) PROVE params' = params
  BY <1>1 DEF AbortRequest, AbortWaiting, AbortRunning
<1>2. CASE AddRequest \/ Sleep \/ StepBegin \/ PlanChunk \/ EndPlan \/ RejectTooLong \/ Admit
  BY <1>2 DEF AddRequest, Sleep, StepBegin, PlanChunk, EndPlan, RejectTooLong, Admit, vars
<1>3. CASE \/ EndAdmission \/ SkipEntry \/ GrowTable \/ OutOfBlocks \/ EnterDecode
           \/ EnterPrefill \/ EndEntries
  BY <1>3 DEF EndAdmission, SkipEntry, GrowTable, OutOfBlocks, EnterDecode, EnterPrefill, EndEntries
<1>4. CASE \/ Forward \/ AdvanceComputed \/ AppendSampled \/ SkipUnsampled \/ EndSample
           \/ FreeFinished \/ UpdateReturn \/ UNCHANGED vars
  BY <1>4 DEF Forward, AdvanceComputed, AppendSampled, SkipUnsampled, EndSample, FreeFinished,
     UpdateReturn, vars
<1> QED BY <1>1, <1>2, <1>3, <1>4 DEF Next, EngineThread, StepTurn, UpdateTurn

\* Which tokens an iteration has sampled only changes while it samples.
LEMMA SampledSame ==
  ASSUME TypeOK, NEW r,
         \/ pc \notin {"sample", "free"} /\ pc' \notin {"sample", "free"}
         \/ UNCHANGED <<batch_entries, pc, at>>
         \/ pc = "free" /\ UNCHANGED <<batch_entries, pc>>
         \/ SkipUnsampled
         \/ EndSample
         \/ AdvanceComputed
  PROVE  Sampled(r)' = Sampled(r)
<1>t. at \in Nat \ {0} /\ DOMAIN batch_entries = 1 .. Len(batch_entries) /\ Len(batch_entries) \in Nat
  BY EntryFacts DEF TypeOK
<1>1. CASE pc \notin {"sample", "free"} /\ pc' \notin {"sample", "free"}
  BY <1>1 DEF Sampled
<1>2. CASE UNCHANGED <<batch_entries, pc, at>>
  BY <1>2 DEF Sampled
<1>3. CASE pc = "free" /\ UNCHANGED <<batch_entries, pc>>
  BY <1>3 DEF Sampled
<1>4. CASE SkipUnsampled
  <2>1. /\ pc = "sample" /\ pc' = "sample" /\ at' = at + 1 /\ batch_entries' = batch_entries
        /\ ~batch_entries[at].samples
    BY <1>4 DEF SkipUnsampled, localVars
  <2>2. \A i \in DOMAIN batch_entries : batch_entries[i].samples => (i < at + 1 <=> i < at)
    BY <2>1, <1>t
  <2> QED BY <2>1, <2>2 DEF Sampled
<1>5. CASE EndSample
  <2>1. pc = "sample" /\ pc' = "free" /\ batch_entries' = batch_entries /\ at > Len(batch_entries)
    BY <1>5 DEF EndSample, localVars
  <2>2. \A i \in DOMAIN batch_entries : i < at
    BY <2>1, <1>t
  <2> QED BY <2>1, <2>2 DEF Sampled
<1>6. CASE AdvanceComputed
  <2>1. pc = "update" /\ pc' = "sample" /\ batch_entries' = batch_entries /\ at' = 1
    BY <1>6 DEF AdvanceComputed, localVars
  <2>2. \A i \in DOMAIN batch_entries : ~(i < 1)
    BY <1>t
  <2> QED BY <2>1, <2>2 DEF Sampled
<1> QED BY <1>1, <1>2, <1>3, <1>4, <1>5, <1>6

\* The request whose token is appended, and what that does to it.
LEMMA AppendFacts ==
  ASSUME LifeInv, AppendSampled, NEW r \in Requests, r = batch_entries[at].req
  PROVE  /\ at \in DOMAIN batch_entries /\ r \in Range(running)
         /\ status[r] # "finished" /\ ~Sampled(r) /\ Sampled(r)'
         /\ \A q \in Requests : q # r => Sampled(q)' = Sampled(q)
         /\ num_output_tokens' = [num_output_tokens EXCEPT ![r] = @ + 1]
<1>1. /\ pc = "sample" /\ pc' = "sample" /\ at' = at + 1 /\ batch_entries' = batch_entries
      /\ batch_entries[at].samples
      /\ num_output_tokens' = [num_output_tokens EXCEPT ![r] = @ + 1]
  BY DEF AppendSampled
<1>2. /\ at \in DOMAIN batch_entries /\ at \in Nat
      /\ DOMAIN batch_entries = 1 .. Len(batch_entries) /\ Len(batch_entries) \in Nat
  BY EntryFacts DEF AppendSampled, LifeInv, TypeOK
<1>3. r \in Range(running) /\ status[r] # "finished"
  <2>1. at >= at /\ r \in Batched
    BY <1>2 DEF Batched
  <2> QED BY <1>1, <1>2, <2>1 DEF LifeInv, LifeCycle, BatchShape, EntriesLive
<1>4. \A i \in DOMAIN batch_entries : batch_entries[i].req = r => i = at
  BY <1>2 DEF LifeInv, LifeCycle, BatchShape
<1>5. \A i \in DOMAIN batch_entries : i < at + 1 <=> i < at \/ i = at
  BY <1>2
<1>6. ~(at < at) /\ at < at + 1
  BY <1>2
<1>7. ~Sampled(r)
  BY <1>1, <1>4, <1>6 DEF Sampled
<1>8. Sampled(r)'
  BY <1>1, <1>2, <1>6 DEF Sampled
<1>9. ASSUME NEW q \in Requests, q # r PROVE Sampled(q)' = Sampled(q)
  BY <1>1, <1>5, <1>9 DEF Sampled
<1> QED BY <1>1, <1>2, <1>3, <1>7, <1>8, <1>9

\* A token is counted and sampled at once, and sampling is over at the return.
LEMMA TokensMove ==
  ASSUME LifeInv, [Next]_vars, ~UpdateReturn, NEW r \in Requests
  PROVE  \/ num_output_tokens'[r] = num_output_tokens[r] /\ Sampled(r)' = Sampled(r)
         \/ /\ num_output_tokens'[r] = num_output_tokens[r] + 1
            /\ ~Sampled(r) /\ Sampled(r)' /\ status[r] # "finished" /\ r \in Range(running)
<1>t. TypeOK /\ num_output_tokens \in [Requests -> Nat]
  BY DEF LifeInv, TypeOK, RequestTypes
<1>1. CASE AppendSampled
  <2> PICK q \in Requests : q = batch_entries[at].req
    BY <1>1, <1>t, EntryFacts DEF AppendSampled, TypeOK
  <2>1. /\ q \in Range(running) /\ status[q] # "finished" /\ ~Sampled(q) /\ Sampled(q)'
        /\ r # q => Sampled(r)' = Sampled(r)
        /\ num_output_tokens' = [num_output_tokens EXCEPT ![q] = @ + 1]
    BY <1>1, AppendFacts
  <2>2. CASE r = q
    BY <2>1, <2>2, <1>t
  <2>3. CASE r # q
    BY <2>1, <2>3, <1>t
  <2> QED BY <2>2, <2>3
<1>2. CASE AddRequest \/ Sleep \/ StepBegin \/ PlanChunk \/ EndPlan \/ RejectTooLong \/ Admit
  BY <1>2, <1>t, SampledSame DEF AddRequest, Sleep, StepBegin, PlanChunk, EndPlan,
     RejectTooLong, Admit, vars, requestVars, localVars
<1>3. CASE SkipEntry \/ GrowTable \/ OutOfBlocks \/ EnterDecode \/ EnterPrefill \/ EndEntries
  BY <1>3, <1>t, SampledSame DEF SkipEntry, GrowTable, OutOfBlocks, EnterDecode, EnterPrefill,
     EndEntries, AtEntry, requestVars, localVars
<1>4. CASE EndAdmission \/ Forward
  BY <1>4, <1>t, SampledSame DEF EndAdmission, Forward, requestVars
<1>5. CASE SkipUnsampled \/ EndSample \/ AdvanceComputed
  BY <1>5, <1>t, SampledSame DEF SkipUnsampled, EndSample, AdvanceComputed, requestVars
<1>6. CASE FreeFinished \/ UNCHANGED vars
  BY <1>6, <1>t, SampledSame DEF FreeFinished, vars, requestVars, localVars
<1>7. ASSUME NEW q \in Abortable, AbortRequest(q)
      PROVE  num_output_tokens' = num_output_tokens /\ Sampled(r)' = Sampled(r)
  BY <1>7, <1>t, SampledSame DEF AbortRequest, AbortWaiting, AbortRunning, localVars
<1> QED BY <1>1, <1>2, <1>3, <1>4, <1>5, <1>6, <1>7
        DEF Next, EngineThread, StepTurn, UpdateTurn

LEMMA ReturnClears ==
  UpdateReturn => UNCHANGED requestVars /\ \A r \in Requests : ~Sampled(r)'
BY DEF UpdateReturn, Sampled

\* A request is given up before its first token of this iteration, because its
\* prompt is too long, or because it needs a block while it is below its limits.
LEMMA ReturnKnownNext == LifeInv /\ ReturnKnown /\ [Next]_vars => ReturnKnown'
<1> SUFFICES ASSUME TypeOK, QueueOrder, LifeCycle, LifeInv, ReturnKnown, [Next]_vars
             PROVE  ReturnKnown'
  BY DEF LifeInv
<1>t. /\ status \in [Requests -> {"waiting", "prefilling", "decoding", "finished"}]
      /\ finish_reason \in [Requests -> Reasons] /\ num_output_tokens \in [Requests -> Nat]
      /\ finished \in Seq(Requests) /\ finished_this_step \in Seq(Requests)
      /\ arrived \in Nat
      /\ Range(finished) \subseteq Requests /\ Range(finished_this_step) \subseteq Requests
  BY RangeOfSeq, SchedulerAssumption DEF TypeOK, RequestTypes, QueueTypes, BatchTypes
<1>e. Range(<< >>) = {}
  BY EmptySeq DEF Range
<1>p. params' = params
  BY ParamsFixed
<1>k. /\ \A r \in Requests : status[r] # "finished" => finish_reason[r] = "none"
      /\ \A r \in Requests : Sampled(r) /\ status[r] = "finished" => finish_reason[r] \in OwnReasons
      /\ \A r \in Range(finished) : Sampled(r)
      /\ pc # "idle" => \A r \in Range(finished_this_step) :
           status[r] = "finished" /\ (Starved(r) \/ (TooLong(r) /\ r <= arrived))
  BY DEF ReturnKnown
<1>l. \A r \in Requests : TooLong(r)' = TooLong(r)
  BY <1>p DEF TooLong, NumPromptTokens
\* The requests that were given up stay so.
<1>g. ASSUME NEW r \in Requests, Starved(r) \/ (TooLong(r) /\ r <= arrived),
             finish_reason'[r] = finish_reason[r], num_output_tokens'[r] = num_output_tokens[r],
             arrived' = arrived
      PROVE  (Starved(r) \/ (TooLong(r) /\ r <= arrived))'
  BY <1>g, <1>p, <1>l DEF Starved, TotalTokens, NumPromptTokens
<1>f. ASSUME UNCHANGED <<status, finish_reason, num_output_tokens, finished, arrived>>,
             \A r \in Requests : Sampled(r)' = Sampled(r),
             \/ pc' = "idle"
             \/ pc # "idle" /\ finished_this_step' = finished_this_step
             \/ finished_this_step' = << >>
      PROVE  ReturnKnown'
  <2>1. pc' # "idle" => \A r \in Range(finished_this_step') :
           status'[r] = "finished" /\ (Starved(r) \/ (TooLong(r) /\ r <= arrived))'
    BY <1>f, <1>k, <1>e, <1>g, <1>t
  <2> QED BY <2>1, <1>f, <1>k, <1>t DEF ReturnKnown
\* Nothing is sampled or finished while pc is elsewhere.
<1>s. ASSUME pc \notin {"sample", "free"}, pc' \notin {"sample", "free"}
      PROVE  \A r \in Requests : ~Sampled(r) /\ ~Sampled(r)'
  BY <1>s DEF Sampled
<1>n. pc \notin {"sample", "free"} => finished = << >>
  BY DEF LifeCycle, FinishedKnown
<1>1. ASSUME NEW r \in Requests, AbortRequest(r) PROVE ReturnKnown'
  <2>1. /\ pc = "idle" /\ pc' = "idle" /\ finished' = finished
        /\ status' = [status EXCEPT ![r] = "finished"]
        /\ finish_reason' = [finish_reason EXCEPT ![r] = "abort"]
    BY <1>1 DEF AbortRequest, AbortWaiting, AbortRunning, Finish, localVars
  <2>2. \A q \in Requests : status'[q] # "finished" => finish_reason'[q] = "none"
    BY <2>1, <1>t, <1>k
  <2> QED BY <2>1, <2>2, <1>s, <1>n, <1>e DEF ReturnKnown
<1>2. CASE RejectTooLong
  <2> PICK r \in Requests : r = NextWaiting
    BY <1>2, HeadFacts DEF RejectTooLong, MayAdmit
  <2>1. /\ pc = "admit" /\ pc' = "admit" /\ finished' = finished
        /\ status' = [status EXCEPT ![r] = "finished"]
        /\ finish_reason' = [finish_reason EXCEPT ![r] = "length"]
        /\ finished_this_step' = Append(finished_this_step, r)
        /\ UNCHANGED <<num_output_tokens, arrived>> /\ TooLong(r)
    BY <1>2 DEF RejectTooLong, Finish, localVars
  <2>2. r \in Range(waiting) /\ r <= arrived
    BY <1>2, <1>t, HeadFacts DEF RejectTooLong, MayAdmit, Requests
  <2>3. status[r] # "finished"
    BY <2>2 DEF LifeCycle, Untouched
  <2>4. Range(finished_this_step') = Range(finished_this_step) \cup {r}
    BY <2>1, <1>t, RangeAppend
  <2>5. ASSUME NEW q \in Range(finished_this_step)
        PROVE  status'[q] = "finished" /\ (Starved(q) \/ (TooLong(q) /\ q <= arrived))'
    <3>1. q \in Requests /\ q # r /\ status[q] = "finished"
          /\ (Starved(q) \/ (TooLong(q) /\ q <= arrived))
      BY <2>1, <2>3, <2>5, <1>k, <1>t
    <3>2. status'[q] = status[q] /\ finish_reason'[q] = finish_reason[q]
      BY <2>1, <3>1, <1>t
    <3> QED BY <3>1, <3>2, <2>1, <1>g
  <2>6. status'[r] = "finished" /\ TooLong(r)' /\ (r <= arrived)'
    BY <2>1, <2>2, <1>t, <1>l
  <2>7. \A q \in Requests : status'[q] # "finished" => finish_reason'[q] = "none"
    BY <2>1, <1>t, <1>k
  <2> QED BY <2>1, <2>4, <2>5, <2>6, <2>7, <1>s, <1>n, <1>e DEF ReturnKnown
<1>3. CASE OutOfBlocks
  <2> PICK r \in Requests : r = running[at]
    BY <1>3, TurnFacts DEF OutOfBlocks
  <2>1. /\ pc = "entries" /\ pc' = "entries" /\ finished' = finished
        /\ status[r] # "finished" /\ IsPromptDone(r)
        /\ status' = [status EXCEPT ![r] = "finished"]
        /\ finish_reason' = [finish_reason EXCEPT ![r] = "length"]
        /\ finished_this_step' = Append(finished_this_step, r)
        /\ UNCHANGED <<num_output_tokens, arrived>>
    BY <1>3 DEF OutOfBlocks, AtEntry, Finish, localVars
  <2>2. InStep(r)
    BY <1>3, <2>1, TurnFacts DEF OutOfBlocks, LifeCycle, TokensInStep
  <2>3. num_output_tokens[r] > 0
    <3>1. /\ num_computed_tokens[r] >= NumPromptTokens(r)
          /\ num_computed_tokens[r] = TotalTokens(r) - 1
      BY <2>1, <2>2 DEF InStep, IsPromptDone
    <3>2. num_output_tokens[r] \in Nat /\ NumPromptTokens(r) \in Nat
      BY <1>t, ParamsType
    <3> QED BY <3>1, <3>2 DEF TotalTokens
  <2>4. num_output_tokens[r] < params[r].max_tokens /\ TotalTokens(r) < MaxModelLen
    BY <2>1, <2>3 DEF LifeCycle, LimitsAhead
  <2>5. status'[r] = "finished" /\ Starved(r)'
    BY <2>1, <2>4, <1>t, <1>p DEF Starved, TotalTokens, NumPromptTokens
  <2>6. Range(finished_this_step') = Range(finished_this_step) \cup {r}
    BY <2>1, <1>t, RangeAppend
  <2>7. ASSUME NEW q \in Range(finished_this_step)
        PROVE  status'[q] = "finished" /\ (Starved(q) \/ (TooLong(q) /\ q <= arrived))'
    <3>1. q \in Requests /\ q # r /\ status[q] = "finished"
          /\ (Starved(q) \/ (TooLong(q) /\ q <= arrived))
      BY <2>1, <2>7, <1>k, <1>t
    <3>2. status'[q] = status[q] /\ finish_reason'[q] = finish_reason[q]
      BY <2>1, <3>1, <1>t
    <3> QED BY <3>1, <3>2, <2>1, <1>g
  <2>8. \A q \in Requests : status'[q] # "finished" => finish_reason'[q] = "none"
    BY <2>1, <1>t, <1>k
  <2> QED BY <2>1, <2>5, <2>6, <2>7, <2>8, <1>s, <1>n, <1>e DEF ReturnKnown
<1>4. CASE AppendSampled
  <2> PICK r \in Requests : r = batch_entries[at].req
    BY <1>4, EntryFacts DEF AppendSampled, TypeOK
  <2>1. /\ status[r] # "finished" /\ ~Sampled(r) /\ Sampled(r)'
        /\ \A q \in Requests : q # r => Sampled(q)' = Sampled(q)
        /\ num_output_tokens' = [num_output_tokens EXCEPT ![r] = @ + 1]
    BY <1>4, AppendFacts
  <2>2. PICK tok \in Tokens :
          LET reason == StopReason(r, tok, num_output_tokens[r] + 1)
          IN  IF reason # "none"
              THEN Finish(r, reason) /\ finished' = Append(finished, r)
              ELSE /\ status' = [status EXCEPT ![r] =
                        IF @ = "prefilling" /\ IsPromptDone(r) THEN "decoding" ELSE @]
                   /\ UNCHANGED <<finish_reason, finished>>
    BY <1>4 DEF AppendSampled
  <2>3. /\ pc = "sample" /\ pc' = "sample"
        /\ UNCHANGED <<arrived, finished_this_step>>
    BY <1>4 DEF AppendSampled, queueVars
  <2>4. ASSUME NEW q \in Requests, q # r
        PROVE  /\ status'[q] = status[q] /\ finish_reason'[q] = finish_reason[q]
               /\ num_output_tokens'[q] = num_output_tokens[q]
    BY <2>1, <2>2, <2>4, <1>t DEF Finish
  <2>5. /\ status'[r] # "finished" => finish_reason'[r] = "none"
        /\ status'[r] = "finished" => finish_reason'[r] \in OwnReasons
        /\ Range(finished') \subseteq Range(finished) \cup {r}
    <3> DEFINE reason == StopReason(r, tok, num_output_tokens[r] + 1)
    <3>1. reason # "none" => reason \in OwnReasons
      BY DEF StopReason, OwnReasons
    <3>2. CASE reason # "none"
      <4>1. status'[r] = "finished" /\ finish_reason'[r] = reason
        BY <3>2, <2>2, <1>t DEF Finish
      <4>2. finished' = Append(finished, r)
        BY <3>2, <2>2
      <4>3. Range(finished') = Range(finished) \cup {r}
        BY <4>2, <1>t, RangeAppend
      <4> QED BY <3>1, <3>2, <4>1, <4>3
    <3>3. CASE reason = "none"
      <4>1. /\ status'[r] # "finished" /\ UNCHANGED <<finish_reason, finished>>
        BY <3>3, <2>1, <2>2, <1>t
      <4> QED BY <4>1, <2>1, <1>k
    <3> QED BY <3>2, <3>3
  <2>6. ASSUME NEW q \in Range(finished_this_step)
        PROVE  status'[q] = "finished" /\ (Starved(q) \/ (TooLong(q) /\ q <= arrived))'
    <3>1. q \in Requests /\ q # r /\ status[q] = "finished"
          /\ (Starved(q) \/ (TooLong(q) /\ q <= arrived))
      BY <2>1, <2>3, <2>6, <1>k, <1>t
    <3> QED BY <3>1, <2>3, <2>4, <1>g
  <2>7. \A q \in Requests : status'[q] # "finished" => finish_reason'[q] = "none"
    BY <2>4, <2>5, <1>k
  <2>8. \A q \in Requests : Sampled(q)' /\ status'[q] = "finished" =>
          finish_reason'[q] \in OwnReasons
    BY <2>1, <2>4, <2>5, <1>k
  <2>9. \A q \in Range(finished') : Sampled(q)'
    BY <2>1, <2>5, <1>k, <1>t
  <2> QED BY <2>3, <2>6, <2>7, <2>8, <2>9 DEF ReturnKnown, OwnReasons
<1>5. CASE UpdateReturn
  <2>1. /\ pc' = "idle" /\ finished' = << >> /\ UNCHANGED <<status, finish_reason>>
        /\ \A r \in Requests : ~Sampled(r)'
    BY <1>5, ReturnClears DEF UpdateReturn, requestVars
  <2> QED BY <2>1, <1>e, <1>k DEF ReturnKnown
<1>6. CASE Admit
  <2>1. NextWaiting \in Requests /\ NextWaiting \in Range(waiting)
    BY <1>6, HeadFacts DEF Admit, MayAdmit
  <2>2. status[NextWaiting] # "finished"
    BY <2>1 DEF LifeCycle, Untouched
  <2>3. /\ pc = "admit" /\ pc' = "admit"
        /\ status' = [status EXCEPT ![NextWaiting] = "prefilling"]
        /\ UNCHANGED <<finish_reason, num_output_tokens, finished, arrived, finished_this_step>>
    BY <1>6 DEF Admit
  <2>4. \A q \in Requests : status'[q] = "finished" <=> status[q] = "finished"
    BY <2>1, <2>2, <2>3, <1>t
  <2>5. \A q \in Range(finished_this_step) :
          status'[q] = "finished" /\ (Starved(q) \/ (TooLong(q) /\ q <= arrived))'
    BY <2>3, <2>4, <1>g, <1>k, <1>t
  <2> QED BY <2>3, <2>4, <2>5, <1>s, <1>n, <1>e, <1>k DEF ReturnKnown
<1>7. CASE AddRequest
  BY <1>7, <1>s, <1>n, <1>e, <1>k DEF AddRequest, ReturnKnown, requestVars, localVars
<1>8. CASE StepBegin \/ PlanChunk \/ EndPlan \/ EndAdmission \/ EndEntries
  <2>1. \A r \in Requests : Sampled(r)' = Sampled(r)
    BY <1>8, SampledSame DEF StepBegin, PlanChunk, EndPlan, EndAdmission, EndEntries
  <2> QED BY <2>1, <1>8, <1>f DEF StepBegin, PlanChunk, EndPlan, EndAdmission, EndEntries,
          requestVars, queueVars, localVars
<1>9. CASE SkipEntry \/ GrowTable \/ EnterDecode \/ EnterPrefill \/ Forward
  <2>1. \A r \in Requests : Sampled(r)' = Sampled(r)
    BY <1>9, SampledSame DEF SkipEntry, GrowTable, EnterDecode, EnterPrefill, Forward, AtEntry
  <2> QED BY <2>1, <1>9, <1>f DEF SkipEntry, GrowTable, EnterDecode, EnterPrefill, Forward,
          AtEntry, requestVars, queueVars, localVars
<1>10. CASE AdvanceComputed \/ SkipUnsampled \/ EndSample
  <2>1. \A r \in Requests : Sampled(r)' = Sampled(r)
    BY <1>10, SampledSame
  <2> QED BY <2>1, <1>10, <1>f DEF AdvanceComputed, SkipUnsampled, EndSample, requestVars,
          queueVars, localVars
<1>11. CASE FreeFinished
  <2>1. \A r \in Requests : Sampled(r)' = Sampled(r)
    BY <1>11, SampledSame DEF FreeFinished, localVars
  <2> QED BY <2>1, <1>11, <1>f DEF FreeFinished, requestVars, queueVars, localVars
<1>12. CASE Sleep \/ UNCHANGED vars
  <2>1. UNCHANGED vars
    BY <1>12 DEF Sleep
  <2>2. \A r \in Requests : Sampled(r)' = Sampled(r)
    BY <2>1, SampledSame DEF vars, localVars
  <2> QED BY <2>1, <2>2, <1>f DEF vars, requestVars, queueVars, localVars
<1>13. Abortable \subseteq Requests
  BY SchedulerAssumption
<1> QED
  BY <1>1, <1>2, <1>3, <1>4, <1>5, <1>6, <1>7, <1>8, <1>9, <1>10, <1>11, <1>12, <1>13
     DEF Next, EngineThread, StepTurn, UpdateTurn

\* Every sampled request is handed over once.
LEMMA SampledRequestsFacts ==
  ASSUME LifeInv
  PROVE  /\ SampledRequests \in Seq(Requests) /\ IsInjective(SampledRequests)
         /\ pc = "free" => \A r : r \in Range(SampledRequests) <=> Sampled(r)
<1> DEFINE silent == {e \in Range(batch_entries) : ~e.samples}
           entries == Without(batch_entries, silent)
<1>1. batch_entries \in Seq(EntryType) /\ TypeOK
  BY DEF LifeInv, TypeOK, BatchTypes
<1>2. \A i, j \in DOMAIN batch_entries : batch_entries[i].req = batch_entries[j].req => i = j
  BY DEF LifeInv, LifeCycle, BatchShape
<1>3. IsInjective(batch_entries)
  BY <1>2 DEF IsInjective
<1> HIDE DEF silent
<1>4. /\ entries \in Seq(EntryType) /\ IsInjective(entries)
      /\ Range(entries) = Range(batch_entries) \ silent
  <2>1. entries \in Seq(EntryType) /\ Range(entries) = Range(batch_entries) \ silent
    BY <1>1, WithoutRange
  <2>2. IsInjective(entries)
    BY <1>1, <1>3, WithoutInjective
  <2> QED BY <2>1, <2>2
<1>5. SampledRequests = [i \in DOMAIN entries |-> entries[i].req]
  BY DEF SampledRequests, silent
<1> HIDE DEF entries
<1>6. /\ DOMAIN entries = 1 .. Len(entries) /\ Len(entries) \in Nat
      /\ \A i \in DOMAIN entries : entries[i] \in EntryType /\ entries[i].req \in Requests
  <2>1. /\ DOMAIN entries = 1 .. Len(entries) /\ Len(entries) \in Nat
        /\ \A i \in DOMAIN entries : entries[i] \in EntryType
    BY <1>4
  <2> QED BY <2>1 DEF EntryType
<1>7. SampledRequests \in Seq(Requests) /\ DOMAIN SampledRequests = DOMAIN entries
  BY <1>5, <1>6
<1>8. \A i \in DOMAIN entries : \E k \in DOMAIN batch_entries :
        entries[i] = batch_entries[k] /\ entries[i] \notin silent
  BY <1>4 DEF Range
<1>9. IsInjective(SampledRequests)
  <2>1. ASSUME NEW i \in DOMAIN entries, NEW j \in DOMAIN entries, entries[i].req = entries[j].req
        PROVE  i = j
    <3>1. entries[i] = entries[j]
      BY <1>2, <1>8, <2>1
    <3> QED BY <3>1, <1>4 DEF IsInjective
  <2> QED BY <2>1, <1>5 DEF IsInjective
<1>10. ASSUME pc = "free", NEW r PROVE r \in Range(SampledRequests) <=> Sampled(r)
  <2>1. ASSUME r \in Range(SampledRequests) PROVE Sampled(r)
    <3>1. PICK i \in DOMAIN entries : entries[i].req = r
      BY <2>1, <1>5 DEF Range
    <3>2. PICK k \in DOMAIN batch_entries : entries[i] = batch_entries[k] /\ entries[i] \notin silent
      BY <1>8
    <3>3. batch_entries[k].samples
      BY <3>2 DEF silent, Range
    <3> QED BY <1>10, <3>1, <3>2, <3>3 DEF Sampled
  <2>2. ASSUME Sampled(r) PROVE r \in Range(SampledRequests)
    <3>1. PICK k \in DOMAIN batch_entries : batch_entries[k].req = r /\ batch_entries[k].samples
      BY <2>2 DEF Sampled
    <3>2. batch_entries[k] \in Range(entries)
      BY <3>1, <1>4 DEF silent, Range
    <3>3. PICK i \in DOMAIN entries : entries[i] = batch_entries[k]
      BY <3>2 DEF Range
    <3> QED BY <3>1, <3>3, <1>5 DEF Range
  <2> QED BY <2>1, <2>2
<1> QED BY <1>7, <1>9, <1>10

-----------------------------------------------------------------------------
(* The streams.                                                            *)

Items == [n : Nat, is_finished : BOOLEAN, finish_reason : Reasons] \cup {Sentinel}

StreamTypes ==
  /\ phase \in {"head", "adds", "aborts", "step", "push", "end", "exited"}
  /\ add_q \in Seq(Requests) /\ deltas \in Seq(Requests) /\ ending \in Seq(Requests)
  /\ registered \subseteq Requests
  /\ stream \in [Requests -> Seq(Items)]
  /\ taken \in [Requests -> Nat]
  /\ handler \in [Requests -> {"absent", "check", "get", "done", "left"}]

\* The thread is inside step() or update_with_sampled() only in that phase, and
\* pushes in the phase after it.
PhaseOrder ==
  /\ pc # "idle" => phase = "step"
  /\ phase # "push" => deltas = << >>

\* Requests reach the scheduler in the order of their submission, and a request
\* that was submitted has been accepted.
Submitted ==
  /\ \A i \in DOMAIN add_q : add_q[i] = arrived + i
  /\ \A r \in Requests : handler[r] = "absent" <=> r > arrived + Len(add_q)
  /\ \A r \in Requests : handler[r] # "absent" => Accepted(r)

\* The last token of r is still on its way to the queue of its reader.
Unsent(r) == r \in Range(deltas) \/ Sampled(r)

\* A request keeps its queue until it is finished and all its tokens are sent.
QueueLasts ==
  \A r \in Requests :
    \/ r \in registered /\ handler[r] # "absent"
    \/ r \notin registered /\ handler[r] = "absent"
    \/ r \notin registered /\ status[r] = "finished" /\ ~Unsent(r)

DeltasKnown ==
  /\ IsInjective(deltas)
  /\ \A r \in Range(deltas) :
       r \in registered /\ (status[r] = "finished" => finish_reason[r] \in OwnReasons)

\* While its stream is open, all tokens but an unsent one are in the queue.
TokensCounted ==
  \A r \in Requests :
    r \in registered \/ handler[r] = "absent" =>
      num_output_tokens[r] = Len(stream[r]) + (IF Unsent(r) THEN 1 ELSE 0)

Token(i) == [n |-> i, is_finished |-> FALSE, finish_reason |-> "none"]

\* The i-th item of the queue of r is its last token, marked as such.
IsLast(r, i) ==
  /\ stream[r][i] = [n |-> i, is_finished |-> TRUE, finish_reason |-> finish_reason[r]]
  /\ status[r] = "finished" /\ finish_reason[r] \in OwnReasons
  /\ num_output_tokens[r] = i

\* What the i-th item in the queue of r can be.
ItemShape(r, i) ==
  \/ stream[r][i] = Token(i)
  \/ IsLast(r, i)
  \/ /\ stream[r][i] = Sentinel
     /\ r \notin registered /\ status[r] = "finished"
     /\ Starved(r) \/ (i > 1 /\ IsLast(r, i - 1))

StreamShape == \A r \in Requests : \A i \in DOMAIN stream[r] : ItemShape(r, i)

\* A stream that is about to be ended has been given its last token, or will
\* be first, unless the request was given up.
EndingKnown ==
  \A r \in Range(ending) :
    /\ status[r] = "finished"
    /\ \/ Starved(r)
       \/ r \in Range(deltas)
       \/ num_output_tokens[r] \in DOMAIN stream[r] /\ IsLast(r, num_output_tokens[r])

\* A handler that still reads has read plain tokens only.
ReadersKnown ==
  \A r \in Requests :
    LET plain == IF handler[r] = "done" THEN taken[r] - 1 ELSE taken[r]
    IN  /\ taken[r] <= Len(stream[r])
        /\ \A i \in 1 .. plain : stream[r][i] = Token(i)
        /\ handler[r] = "done" => taken[r] > 0 /\ EndsReading(stream[r][taken[r]])

StreamInv ==
  /\ StreamTypes /\ PhaseOrder /\ Submitted /\ QueueLasts /\ DeltasKnown
  /\ TokensCounted /\ StreamShape /\ EndingKnown /\ ReadersKnown

-----------------------------------------------------------------------------
(* The steps, by what they do to the streams.                              *)

\* A handler looks at its connection, or the thread goes from phase to phase.
Quiet ==
  /\ UNCHANGED <<vars, deltas, ending, add_q, registered, stream, taken>>
  /\ \A r \in Requests :
       handler'[r] = handler[r] \/ (handler[r] = "check" /\ handler'[r] \in {"get", "left"})

\* The scheduler moves and the streams do not.
Turn ==
  /\ [Next]_vars /\ ~UpdateReturn /\ deltas = << >>
  /\ UNCHANGED <<deltas, ending, registered, stream, taken, handler>>
  /\ \/ UNCHANGED <<arrived, add_q>>
     \/ arrived' = arrived + 1 /\ add_q # << >> /\ add_q' = Tail(add_q)

\* update_with_sampled() returns.
Return ==
  /\ UpdateReturn /\ [Next]_vars /\ pc = "free" /\ pc' = "idle" /\ deltas = << >>
  /\ deltas' = SampledRequests /\ ending' = AllFinished
  /\ UNCHANGED <<arrived, add_q, registered, stream, taken, handler>>

LEMMA ThreadKeepsArrivals == EngineThread => arrived' = arrived
<1> SUFFICES ASSUME EngineThread PROVE arrived' = arrived
  OBVIOUS
<1>1. CASE StepBegin \/ PlanChunk \/ EndPlan \/ RejectTooLong \/ Admit \/ EndAdmission
  BY <1>1 DEF StepBegin, PlanChunk, EndPlan, RejectTooLong, Admit, EndAdmission, queueVars
<1>2. CASE SkipEntry \/ GrowTable \/ OutOfBlocks \/ EnterDecode \/ EnterPrefill \/ EndEntries
  BY <1>2 DEF SkipEntry, GrowTable, OutOfBlocks, EnterDecode, EnterPrefill, EndEntries, queueVars
<1>3. CASE \/ Forward \/ AdvanceComputed \/ AppendSampled \/ SkipUnsampled \/ EndSample
           \/ FreeFinished \/ UpdateReturn
  BY <1>3 DEF Forward, AdvanceComputed, AppendSampled, SkipUnsampled, EndSample, FreeFinished,
     UpdateReturn, queueVars
<1> QED BY <1>1, <1>2, <1>3 DEF EngineThread, StepTurn, UpdateTurn

LEMMA StepKinds ==
  AbortsAllowed /\ StreamTypes /\ PhaseOrder /\ [EngineNext]_engineVars =>
    \/ Quiet \/ Turn \/ Return \/ PushDelta \/ EndStream
    \/ \E r \in Requests : Submit(r) \/ TakeOutput(r)
<1> SUFFICES ASSUME AbortsAllowed, StreamTypes, PhaseOrder, [EngineNext]_engineVars
             PROVE  \/ Quiet \/ Turn \/ Return \/ PushDelta \/ EndStream
                    \/ \E r \in Requests : Submit(r) \/ TakeOutput(r)
  OBVIOUS
<1>t. phase # "push" => deltas = << >>
  BY DEF PhaseOrder
<1>1. CASE Stop \/ Exited \/ UNCHANGED engineVars
  BY <1>1 DEF Stop, Exited, Quiet, engineVars, loopVars, queues, outVars, handlerVars
<1>2. CASE LoopHead \/ AddsDrained \/ AbortsDrained \/ DeltasPushed \/ StreamsEnded
  BY <1>2 DEF LoopHead, AddsDrained, AbortsDrained, DeltasPushed, StreamsEnded, Quiet,
     queues, outVars, handlerVars
<1>3. ASSUME NEW r \in Requests, CheckConnection(r) PROVE Quiet
  BY <1>3 DEF CheckConnection, Quiet, StreamTypes, loopVars, outVars
<1>4. ASSUME NEW r \in Abortable, Disconnect(r) PROVE Quiet
  BY <1>4 DEF Disconnect, Quiet, loopVars, queues, outVars
<1>5. CASE DrainAdd \/ DrainAbort
  <2>1. phase # "push" /\ UNCHANGED <<loopVars, outVars, handlerVars>>
    BY <1>5 DEF DrainAdd, DrainAbort
  <2>2. ~UpdateReturn
    <3>1. pc = "idle"
      BY <1>5, <2>1 DEF PhaseOrder, DrainAdd, DrainAbort
    <3> QED BY <3>1 DEF UpdateReturn
  <2>3. [Next]_vars
    BY <1>5, LoopDrivesScheduler DEF EngineLoop
  <2>4. \/ UNCHANGED <<arrived, add_q>>
        \/ arrived' = arrived + 1 /\ add_q # << >> /\ add_q' = Tail(add_q)
    BY <1>5 DEF DrainAdd, DrainAbort, AddRequest, AbortRequest, AbortWaiting, AbortRunning, vars,
       queueVars
  <2> QED BY <2>1, <2>2, <2>3, <2>4, <1>t DEF Turn, loopVars, outVars, handlerVars
<1>6. CASE SchedulerTurn
  <2>1. [Next]_vars /\ EngineThread /\ UNCHANGED <<queues, outVars, handlerVars>> /\ deltas = << >>
    BY <1>6, <1>t, LoopDrivesScheduler DEF EngineLoop, SchedulerTurn
  <2>4. UNCHANGED <<arrived, add_q>>
    BY <2>1, ThreadKeepsArrivals DEF queues
  <2>2. CASE UpdateReturn
    BY <1>6, <2>1, <2>2 DEF UpdateReturn, SchedulerTurn, Return, queues, outVars, handlerVars
  <2>3. CASE ~UpdateReturn
    <3>1. ~(pc = "free" /\ pc' = "idle")
      BY <2>1, <2>3 DEF EngineThread, StepTurn, UpdateTurn, StepBegin, PlanChunk, EndPlan,
         RejectTooLong, Admit, EndAdmission, SkipEntry, GrowTable, OutOfBlocks, EnterDecode,
         EnterPrefill, EndEntries, AtEntry, Forward, AdvanceComputed, AppendSampled,
         SkipUnsampled, EndSample, FreeFinished
    <3> QED BY <1>6, <2>1, <2>3, <2>4, <3>1 DEF SchedulerTurn, Turn, outVars, handlerVars
  <2> QED BY <2>2, <2>3
<1> QED BY <1>1, <1>2, <1>3, <1>4, <1>5, <1>6 DEF EngineNext, EngineLoop, HandlerTurn

LEMMA PhaseOrderNext ==
  AbortsAllowed /\ PhaseOrder /\ [EngineNext]_engineVars => PhaseOrder'
<1> SUFFICES ASSUME AbortsAllowed, PhaseOrder, [EngineNext]_engineVars PROVE PhaseOrder'
  OBVIOUS
<1>1. CASE Stop \/ Exited \/ UNCHANGED engineVars
  BY <1>1 DEF Stop, Exited, PhaseOrder, engineVars, loopVars, vars
<1>2. CASE LoopHead \/ AddsDrained \/ AbortsDrained \/ DeltasPushed \/ StreamsEnded
  BY <1>2 DEF LoopHead, AddsDrained, AbortsDrained, DeltasPushed, StreamsEnded, PhaseOrder, vars
<1>3. ASSUME NEW r, CheckConnection(r) \/ Disconnect(r) \/ Submit(r) \/ TakeOutput(r)
      PROVE  PhaseOrder'
  BY <1>3 DEF CheckConnection, Disconnect, Submit, TakeOutput, PhaseOrder, loopVars, vars
<1>4. CASE DrainAdd
  BY <1>4 DEF DrainAdd, AddRequest, PhaseOrder, loopVars
<1>5. CASE DrainAbort
  <2>1. pc' = pc
    BY <1>5 DEF DrainAbort, AbortRequest, AbortWaiting, AbortRunning, vars
  <2> QED BY <1>5, <2>1 DEF DrainAbort, PhaseOrder, loopVars
<1>6. CASE SchedulerTurn
  BY <1>6 DEF SchedulerTurn, PhaseOrder
<1>7. CASE PushDelta \/ EndStream
  BY <1>7 DEF PushDelta, EndStream, PhaseOrder, vars
<1> QED
  BY <1>1, <1>2, <1>3, <1>4, <1>5, <1>6, <1>7 DEF EngineNext, EngineLoop, HandlerTurn

EngineInv == LifeInv /\ ReturnKnown /\ AbortsAllowed /\ StreamInv

-----------------------------------------------------------------------------
(* What is put in a queue.                                                 *)

LEMMA OutputIsItem ==
  ASSUME TypeOK, NEW r \in Requests
  PROVE  OutputOf(r) \in Items \ {Sentinel}
<1>1. num_output_tokens[r] \in Nat /\ finish_reason[r] \in Reasons
  BY DEF TypeOK, RequestTypes
<1>2. OutputOf(r) \in [n : Nat, is_finished : BOOLEAN, finish_reason : Reasons]
  BY <1>1 DEF OutputOf, IsFinal
<1>3. OutputOf(r) # Sentinel
  <2>1. "n" \in DOMAIN OutputOf(r) /\ "n" \notin DOMAIN Sentinel
    BY DEF OutputOf, Sentinel
  <2> QED BY <2>1
<1> QED BY <1>2, <1>3 DEF Items

\* No output is the sentinel.
LEMMA OutputsDiffer ==
  ASSUME NEW n, NEW b, NEW why
  PROVE  [n |-> n, is_finished |-> b, finish_reason |-> why] # Sentinel
<1>1. /\ "n" \in DOMAIN [n |-> n, is_finished |-> b, finish_reason |-> why]
      /\ "n" \notin DOMAIN Sentinel
  BY DEF Sentinel
<1> QED BY <1>1

\* One more item at the end of a queue.
LEMMA OneMoreItem ==
  ASSUME StreamTypes, NEW r \in Requests, NEW item \in Items,
         stream' = [stream EXCEPT ![r] = @ \o <<item>>]
  PROVE  /\ stream' \in [Requests -> Seq(Items)]
         /\ \A q \in Requests : q # r => stream'[q] = stream[q]
         /\ stream'[r] = Append(stream[r], item)
         /\ stream' = [stream EXCEPT ![r] = Append(stream[r], item)]
         /\ DOMAIN stream[r] = 1 .. Len(stream[r]) /\ Len(stream[r]) \in Nat
         /\ Len(stream'[r]) = Len(stream[r]) + 1
         /\ DOMAIN stream'[r] = 1 .. Len(stream[r]) + 1
         /\ \A i \in DOMAIN stream[r] : stream'[r][i] = stream[r][i]
         /\ stream'[r][Len(stream[r]) + 1] = item
<1>1. stream[r] \in Seq(Items) /\ stream \in [Requests -> Seq(Items)]
  BY DEF StreamTypes
<1>2. stream[r] \o <<item>> = Append(stream[r], item)
  BY <1>1, AppendIsConcat
<1>3. stream' = [stream EXCEPT ![r] = Append(stream[r], item)]
  BY <1>2
<1>4. stream'[r] = Append(stream[r], item) /\ Append(stream[r], item) \in Seq(Items)
  BY <1>1, <1>3
<1>5. /\ stream' \in [Requests -> Seq(Items)]
      /\ \A q \in Requests : q # r => stream'[q] = stream[q]
  BY <1>1, <1>3, <1>4
<1>6. /\ DOMAIN stream[r] = 1 .. Len(stream[r]) /\ Len(stream[r]) \in Nat
      /\ Len(Append(stream[r], item)) = Len(stream[r]) + 1
      /\ \A i \in DOMAIN stream[r] : Append(stream[r], item)[i] = stream[r][i]
      /\ Append(stream[r], item)[Len(stream[r]) + 1] = item
  BY <1>1, AppendProperties
<1>7. DOMAIN stream'[r] = 1 .. Len(stream[r]) + 1
  BY <1>4, <1>6, AppendProperties, <1>1
<1> QED BY <1>3, <1>4, <1>5, <1>6, <1>7

\* The head of a list without duplicates is not in its tail.
LEMMA HeadOnce ==
  ASSUME NEW S, NEW s \in Seq(S), s # << >>
  PROVE  /\ Head(s) \in S /\ Tail(s) \in Seq(S) /\ Range(s) = {Head(s)} \cup Range(Tail(s))
         /\ IsInjective(s) => Head(s) \notin Range(Tail(s)) /\ IsInjective(Tail(s))
<1> DEFINE t == Tail(s)
           n == Len(s)
<1>1. /\ Head(s) \in S /\ t \in Seq(S) /\ Len(t) = n - 1 /\ n \in Nat \ {0}
      /\ DOMAIN s = 1 .. n /\ DOMAIN t = 1 .. n - 1 /\ Head(s) = s[1]
      /\ \A i \in 1 .. n - 1 : t[i] = s[i + 1]
  <2>1. /\ Head(s) \in S /\ t \in Seq(S) /\ Len(t) = n - 1 /\ n \in Nat \ {0} /\ Head(s) = s[1]
    BY HeadTailProperties, EmptySeq
  <2>2. DOMAIN s = 1 .. n /\ DOMAIN t = 1 .. Len(t)
    BY <2>1
  <2>3. \A i \in 1 .. Len(t) : t[i] = s[i + 1]
    BY HeadTailProperties
  <2> QED BY <2>1, <2>2, <2>3
<1> HIDE DEF t, n
<1>2. \A i \in 1 .. n : i = 1 \/ (i - 1 \in 1 .. n - 1 /\ i = (i - 1) + 1)
  BY <1>1
<1>3. \A i \in 1 .. n - 1 : i + 1 \in 1 .. n /\ i + 1 # 1 /\ i \in Int
  BY <1>1
<1>4. 1 \in 1 .. n
  BY <1>1
<1>5. \A x \in Range(s) : x = Head(s) \/ x \in Range(t)
  <2> SUFFICES ASSUME NEW i \in 1 .. n PROVE s[i] = Head(s) \/ s[i] \in Range(t)
    BY <1>1 DEF Range
  <2>1. CASE i = 1
    BY <2>1, <1>1
  <2>2. CASE i - 1 \in 1 .. n - 1 /\ i = (i - 1) + 1
    <3>1. t[i - 1] = s[i]
      BY <1>1, <2>2
    <3> QED BY <1>1, <2>2, <3>1 DEF Range
  <2> QED BY <1>2, <2>1, <2>2
<1>6. Head(s) \in Range(s) /\ Range(t) \subseteq Range(s)
  BY <1>1, <1>3, <1>4 DEF Range
<1>7. ASSUME IsInjective(s) PROVE Head(s) \notin Range(t) /\ IsInjective(t)
  <2>1. \A i \in 1 .. n - 1 : t[i] # s[1]
    <3> SUFFICES ASSUME NEW i \in 1 .. n - 1, t[i] = s[1] PROVE FALSE
      OBVIOUS
    <3>1. i + 1 \in DOMAIN s /\ 1 \in DOMAIN s /\ s[i + 1] = s[1] /\ i + 1 # 1
      BY <1>1, <1>3, <1>4
    <3> QED BY <3>1, <1>7 DEF IsInjective
  <2>2. ASSUME NEW i \in 1 .. n - 1, NEW j \in 1 .. n - 1, t[i] = t[j]
        PROVE  i + 1 = j + 1
    <3>1. s[i + 1] = s[j + 1] /\ i + 1 \in DOMAIN s /\ j + 1 \in DOMAIN s
      BY <1>1, <1>3, <2>2
    <3> QED BY <3>1, <1>7 DEF IsInjective
  <2>3. \A i, j \in 1 .. n - 1 : i + 1 = j + 1 => i = j
    BY <1>1
  <2> QED BY <1>1, <2>1, <2>2, <2>3 DEF IsInjective, Range
<1> QED BY <1>1, <1>5, <1>6, <1>7 DEF t

\* A token is pushed: its request has a queue, and lacks only this token.
LEMMA PushFacts ==
  ASSUME EngineInv, PushDelta, NEW r \in Requests, r = Head(deltas)
  PROVE  /\ r \in registered /\ r \in Range(deltas) /\ r \notin Range(deltas')
         /\ Range(deltas) = {r} \cup Range(deltas') /\ IsInjective(deltas')
         /\ deltas' \in Seq(Requests)
         /\ stream' = [stream EXCEPT ![r] = @ \o <<OutputOf(r)>>]
         /\ Len(stream[r]) + 1 = num_output_tokens[r]
         /\ status[r] = "finished" => finish_reason[r] \in OwnReasons
         /\ \A q : ~Sampled(q) /\ ~Sampled(q)'
         /\ UNCHANGED <<vars, ending, add_q, registered, taken, handler>>
<1>1. deltas \in Seq(Requests) /\ deltas # << >> /\ IsInjective(deltas) /\ phase = "push"
  BY DEF PushDelta, EngineInv, StreamInv, StreamTypes, DeltasKnown
<1>2. /\ r \in Range(deltas) /\ r \notin Range(deltas') /\ IsInjective(deltas')
      /\ Range(deltas) = {r} \cup Range(deltas') /\ deltas' \in Seq(Requests)
  BY <1>1, HeadOnce DEF PushDelta
<1>3. r \in registered /\ (status[r] = "finished" => finish_reason[r] \in OwnReasons)
  BY <1>2 DEF EngineInv, StreamInv, DeltasKnown
<1>4. stream' = [stream EXCEPT ![r] = @ \o <<OutputOf(r)>>]
  BY <1>3 DEF PushDelta, Put
<1>5. num_output_tokens[r] = Len(stream[r]) + 1
  <2>1. Unsent(r)
    BY <1>2 DEF Unsent
  <2> QED BY <2>1, <1>3 DEF EngineInv, StreamInv, TokensCounted
<1>6. pc = "idle" /\ pc' = "idle"
  BY <1>1 DEF EngineInv, StreamInv, PhaseOrder, PushDelta, vars
<1>7. \A q : ~Sampled(q) /\ ~Sampled(q)'
  BY <1>6 DEF Sampled
<1>8. UNCHANGED <<vars, ending, add_q, registered, taken, handler>>
  BY DEF PushDelta, queues, handlerVars
<1> QED BY <1>2, <1>3, <1>4, <1>5, <1>7, <1>8

\* A stream is ended: with the bare sentinel, after all its tokens.
LEMMA EndFacts ==
  ASSUME EngineInv, EndStream, NEW r \in Requests, r = Head(ending)
  PROVE  /\ deltas = << >> /\ r \in Range(ending) /\ Range(ending') \subseteq Range(ending)
         /\ ending' \in Seq(Requests)
         /\ status[r] = "finished"
         /\ Starved(r) \/ (num_output_tokens[r] \in DOMAIN stream[r] /\ IsLast(r, num_output_tokens[r]))
         /\ registered' = registered \ {r}
         /\ r \notin registered => stream' = stream
         /\ r \in registered => /\ stream' = [stream EXCEPT ![r] = @ \o <<Sentinel>>]
                                /\ num_output_tokens[r] = Len(stream[r])
         /\ \A q : ~Sampled(q) /\ ~Sampled(q)'
         /\ UNCHANGED <<vars, deltas, add_q, taken, handler>>
<1>1. ending \in Seq(Requests) /\ ending # << >> /\ phase = "end"
  BY DEF EndStream, EngineInv, StreamInv, StreamTypes
<1>2. r \in Range(ending) /\ Range(ending') \subseteq Range(ending) /\ ending' \in Seq(Requests)
  BY <1>1, HeadOnce DEF EndStream
<1>3. deltas = << >> /\ Range(deltas) = {}
  BY <1>1, EmptySeq DEF EngineInv, StreamInv, PhaseOrder, Range
<1>4. /\ status[r] = "finished"
      /\ Starved(r) \/ (num_output_tokens[r] \in DOMAIN stream[r] /\ IsLast(r, num_output_tokens[r]))
  BY <1>2, <1>3 DEF EngineInv, StreamInv, EndingKnown
<1>5. FinalItems(r) = <<Sentinel>>
  BY <1>4 DEF FinalItems, Starved, IsLast, OwnReasons
<1>6. pc = "idle" /\ pc' = "idle"
  BY <1>1 DEF EngineInv, StreamInv, PhaseOrder, EndStream, vars
<1>7. \A q : ~Sampled(q) /\ ~Sampled(q)'
  BY <1>6 DEF Sampled
<1>8. r \in registered => num_output_tokens[r] = Len(stream[r])
  <2>1. ~Unsent(r)
    BY <1>3, <1>7 DEF Unsent
  <2>2. ASSUME r \in registered
        PROVE  num_output_tokens[r] = Len(stream[r]) + (IF Unsent(r) THEN 1 ELSE 0)
    BY <2>2 DEF EngineInv, StreamInv, TokensCounted
  <2>3. Len(stream[r]) \in Nat
    BY DEF EngineInv, StreamInv, StreamTypes
  <2> QED BY <2>1, <2>2, <2>3
<1>9. /\ registered' = registered \ {r}
      /\ UNCHANGED <<vars, deltas, add_q, taken, handler>>
      /\ r \notin registered => stream' = stream
      /\ r \in registered => stream' = [stream EXCEPT ![r] = @ \o <<Sentinel>>]
  BY <1>5 DEF EndStream, Put, Unregister, queues, handlerVars
<1> QED BY <1>2, <1>3, <1>4, <1>7, <1>8, <1>9

-----------------------------------------------------------------------------
(* Every step keeps the invariant.                                         *)

LEMMA StreamTypesNext == EngineInv /\ [EngineNext]_engineVars => StreamTypes'
<1> SUFFICES ASSUME EngineInv, [EngineNext]_engineVars PROVE StreamTypes'
  OBVIOUS
<1> DEFINE LoopTypes == phase \in {"head", "adds", "aborts", "step", "push", "end", "exited"}
           RestTypes == /\ deltas \in Seq(Requests) /\ ending \in Seq(Requests)
                        /\ registered \subseteq Requests
                        /\ stream \in [Requests -> Seq(Items)]
                        /\ taken \in [Requests -> Nat]
                        /\ handler \in [Requests -> {"absent", "check", "get", "done", "left"}]
<1>t. StreamTypes /\ TypeOK
  BY DEF EngineInv, StreamInv, LifeInv
<1>1. LoopTypes'
  <2>1. CASE LoopHead \/ AddsDrained \/ AbortsDrained \/ DeltasPushed \/ StreamsEnded \/ SchedulerTurn
    BY <2>1 DEF LoopHead, AddsDrained, AbortsDrained, DeltasPushed, StreamsEnded, SchedulerTurn
  <2>2. CASE \/ DrainAdd \/ DrainAbort \/ PushDelta \/ EndStream \/ Stop \/ Exited
             \/ UNCHANGED engineVars
    BY <2>2, <1>t DEF DrainAdd, DrainAbort, PushDelta, EndStream, Stop, Exited, engineVars, loopVars,
       StreamTypes
  <2>3. ASSUME NEW r, CheckConnection(r) \/ Disconnect(r) \/ Submit(r) \/ TakeOutput(r)
        PROVE  LoopTypes'
    BY <2>3, <1>t DEF CheckConnection, Disconnect, Submit, TakeOutput, loopVars, StreamTypes
  <2> QED BY <2>1, <2>2, <2>3 DEF EngineNext, EngineLoop, HandlerTurn
<1>2. add_q' \in Seq(Requests)
  <2>1. CASE LoopHead \/ AddsDrained \/ AbortsDrained \/ DeltasPushed \/ StreamsEnded \/ SchedulerTurn
    BY <2>1, <1>t DEF LoopHead, AddsDrained, AbortsDrained, DeltasPushed, StreamsEnded, SchedulerTurn,
       queues, StreamTypes
  <2>2. CASE \/ DrainAbort \/ PushDelta \/ EndStream \/ Stop \/ Exited \/ UNCHANGED engineVars
    BY <2>2, <1>t DEF DrainAbort, PushDelta, EndStream, Stop, Exited, engineVars, queues, StreamTypes
  <2>3. CASE DrainAdd
    BY <2>3, <1>t, HeadOnce DEF DrainAdd, StreamTypes
  <2>4. ASSUME NEW r \in Requests, CheckConnection(r) \/ Submit(r) \/ TakeOutput(r)
        PROVE  add_q' \in Seq(Requests)
    <3>1. add_q' = add_q \/ add_q' = Append(add_q, r)
      BY <2>4 DEF CheckConnection, Submit, TakeOutput, queues
    <3>2. add_q \in Seq(Requests)
      BY <1>t DEF StreamTypes
    <3>3. Append(add_q, r) \in Seq(Requests)
      BY <3>2, AppendProperties
    <3> QED BY <3>1, <3>2, <3>3
  <2>5. ASSUME NEW r, Disconnect(r) PROVE add_q' \in Seq(Requests)
    BY <2>5, <1>t DEF Disconnect, queues, StreamTypes
  <2> QED BY <2>1, <2>2, <2>3, <2>4, <2>5 DEF EngineNext, EngineLoop, HandlerTurn
<1>3. RestTypes'
  <2>1. CASE Quiet
    <3>1. handler' \in [Requests -> {"absent", "check", "get", "done", "left"}]
      <4>1. CASE \E r \in Requests : CheckConnection(r)
        BY <4>1, <1>t DEF CheckConnection, StreamTypes
      <4>2. CASE handler' = handler
        BY <4>2, <1>t DEF StreamTypes
      <4>3. \/ handler' = handler \/ \E r \in Requests : CheckConnection(r) \/ Submit(r) \/ TakeOutput(r)
        BY DEF EngineNext, EngineLoop, HandlerTurn, Disconnect, Stop, LoopHead, DrainAdd, AddsDrained,
           DrainAbort, AbortsDrained, SchedulerTurn, PushDelta, DeltasPushed, EndStream, StreamsEnded,
           Exited, engineVars, handlerVars
      <4>4. ASSUME NEW r \in Requests, Submit(r) \/ TakeOutput(r)
            PROVE  handler' \in [Requests -> {"absent", "check", "get", "done", "left"}]
        BY <4>4, <1>t DEF Submit, TakeOutput, StreamTypes
      <4> QED BY <4>1, <4>2, <4>3, <4>4
    <3> QED BY <2>1, <3>1, <1>t DEF Quiet, StreamTypes
  <2>2. CASE Turn
    BY <2>2, <1>t DEF Turn, StreamTypes
  <2>3. CASE Return
    <3>1. deltas' \in Seq(Requests)
      BY <2>3, SampledRequestsFacts DEF Return, EngineInv
    <3>2. ending' \in Seq(Requests)
      BY <2>3, <1>t DEF Return, AllFinished, TypeOK, QueueTypes, BatchTypes
    <3> QED BY <3>1, <3>2, <2>3, <1>t DEF Return, StreamTypes
  <2>4. CASE PushDelta
    <3> PICK r \in Requests : r = Head(deltas)
      BY <2>4, <1>t, HeadOnce DEF PushDelta, StreamTypes
    <3>1. /\ stream' = [stream EXCEPT ![r] = @ \o <<OutputOf(r)>>] /\ deltas' \in Seq(Requests)
          /\ UNCHANGED <<ending, registered, taken, handler>>
      BY <2>4, PushFacts
    <3>2. OutputOf(r) \in Items
      BY <1>t, OutputIsItem
    <3>3. stream' \in [Requests -> Seq(Items)]
      BY <3>1, <3>2, <1>t, OneMoreItem
    <3> QED BY <3>1, <3>3, <1>t DEF StreamTypes
  <2>5. CASE EndStream
    <3> PICK r \in Requests : r = Head(ending)
      BY <2>5, <1>t, HeadOnce DEF EndStream, StreamTypes
    <3>1. /\ ending' \in Seq(Requests) /\ registered' = registered \ {r}
          /\ stream' = stream \/ stream' = [stream EXCEPT ![r] = @ \o <<Sentinel>>]
          /\ UNCHANGED <<deltas, taken, handler>>
      BY <2>5, EndFacts
    <3>2. Sentinel \in Items
      BY DEF Items
    <3>3. stream' \in [Requests -> Seq(Items)]
      BY <3>1, <3>2, <1>t, OneMoreItem DEF StreamTypes
    <3> QED BY <3>1, <3>3, <1>t DEF StreamTypes
  <2>6. ASSUME NEW r \in Requests, Submit(r) \/ TakeOutput(r) PROVE RestTypes'
    <3>1. CASE Submit(r)
      BY <3>1, <1>t DEF Submit, StreamTypes, loopVars
    <3>2. CASE TakeOutput(r)
      <4>1. taken' = [taken EXCEPT ![r] = taken[r] + 1] /\ taken[r] + 1 \in Nat
        BY <3>2, <1>t DEF TakeOutput, StreamTypes
      <4>2. taken' \in [Requests -> Nat]
        BY <4>1, <1>t DEF StreamTypes
      <4>3. handler' \in [Requests -> {"absent", "check", "get", "done", "left"}]
        BY <3>2, <1>t DEF TakeOutput, StreamTypes
      <4>4. UNCHANGED <<deltas, ending, registered, stream>>
        BY <3>2 DEF TakeOutput, loopVars, outVars
      <4> QED BY <4>2, <4>3, <4>4, <1>t DEF StreamTypes
    <3> QED BY <2>6, <3>1, <3>2
  <2> QED BY <2>1, <2>2, <2>3, <2>4, <2>5, <2>6, StepKinds DEF EngineInv, StreamInv
<1> QED BY <1>1, <1>2, <1>3 DEF StreamTypes

LEMMA SubmittedNext == EngineInv /\ [EngineNext]_engineVars => Submitted'
<1> SUFFICES ASSUME EngineInv, [EngineNext]_engineVars PROVE Submitted'
  OBVIOUS
<1>t. /\ StreamTypes /\ Submitted /\ AbortsAllowed /\ add_q \in Seq(Requests) /\ arrived \in Nat
      /\ handler \in [Requests -> {"absent", "check", "get", "done", "left"}]
      /\ DOMAIN add_q = 1 .. Len(add_q) /\ Len(add_q) \in Nat
  BY SchedulerAssumption DEF EngineInv, StreamInv, LifeInv, TypeOK, QueueTypes, StreamTypes
<1>f. ASSUME UNCHANGED <<params, arrived, add_q>>,
             \A r \in Requests : handler'[r] = "absent" <=> handler[r] = "absent"
      PROVE  Submitted'
  BY <1>f, <1>t DEF Submitted, Accepted, NumPromptTokens
<1>1. ASSUME NEW r \in Requests, Submit(r) PROVE Submitted'
  <2>1. /\ handler[r] = "absent" /\ Accepted(r) /\ add_q' = Append(add_q, r)
        /\ \A q \in 1 .. r - 1 : handler[q] # "absent"
        /\ handler' = [handler EXCEPT ![r] = "check"] /\ UNCHANGED <<params, arrived>>
    BY <1>1 DEF Submit, vars, queueVars
  <2>2. r = arrived + Len(add_q) + 1
    <3>1. r > arrived + Len(add_q) /\ r \in Nat /\ r > 0
      BY <2>1 DEF Requests, EngineInv, StreamInv, Submitted
    <3>2. r = 1 \/ (r - 1 \in 1 .. r - 1 /\ r - 1 \in Requests)
      BY <3>1, SchedulerAssumption DEF Requests
    <3>3. r = 1 \/ ~(r - 1 > arrived + Len(add_q))
      BY <2>1, <3>2, <1>t DEF Submitted
    <3> QED BY <3>1, <3>3, <1>t
  <2>3. /\ DOMAIN add_q' = 1 .. Len(add_q) + 1 /\ Len(add_q') = Len(add_q) + 1
        /\ \A i \in 1 .. Len(add_q) : add_q'[i] = add_q[i]
        /\ add_q'[Len(add_q) + 1] = r
    BY <2>1, <1>t, AppendProperties
  <2>4. \A i \in DOMAIN add_q' : add_q'[i] = arrived' + i
    <3>1. \A i \in 1 .. Len(add_q) + 1 : i \in 1 .. Len(add_q) \/ i = Len(add_q) + 1
      BY <1>t
    <3>2. \A i \in 1 .. Len(add_q) : add_q[i] = arrived + i
      BY <1>t DEF Submitted
    <3>3. arrived + (Len(add_q) + 1) = r
      BY <2>2, <1>t
    <3> QED BY <2>1, <2>3, <3>1, <3>2, <3>3
  <2>5. ASSUME NEW q \in Requests PROVE handler'[q] = "absent" <=> q > arrived' + Len(add_q')
    <3>1. handler[q] = "absent" <=> q > arrived + Len(add_q)
      BY <1>t DEF Submitted
    <3>2. q # r => handler'[q] = handler[q]
      BY <2>1, <1>t
    <3>3. handler'[r] = "check"
      BY <2>1, <1>t
    <3> QED BY <2>1, <2>2, <2>3, <3>1, <3>2, <3>3, <1>t DEF Requests
  <2>6. ASSUME NEW q \in Requests, handler'[q] # "absent" PROVE Accepted(q)'
    <3>1. q = r \/ handler[q] # "absent"
      BY <2>1, <2>6, <1>t
    <3>2. Accepted(q)
      BY <2>1, <3>1, <1>t DEF Submitted
    <3> QED BY <2>1, <3>2 DEF Accepted, NumPromptTokens
  <2> QED BY <2>4, <2>5, <2>6 DEF Submitted
<1>2. ASSUME arrived' = arrived + 1, add_q # << >>, add_q' = Tail(add_q),
             handler' = handler, params' = params
      PROVE  Submitted'
  <2>1. arrived' = arrived + 1 /\ add_q # << >> /\ add_q' = Tail(add_q)
    BY <1>2
  <2>2. /\ Len(add_q') = Len(add_q) - 1 /\ Len(add_q') \in Nat /\ DOMAIN add_q' = 1 .. Len(add_q')
        /\ \A i \in 1 .. Len(add_q') : add_q'[i] = add_q[i + 1] /\ i + 1 \in 1 .. Len(add_q)
    <3>1. Len(add_q') = Len(add_q) - 1 /\ add_q' \in Seq(Requests)
      BY <2>1, <1>t, HeadTailProperties
    <3>2. \A i \in 1 .. Len(add_q') : add_q'[i] = add_q[i + 1]
      BY <2>1, <1>t, HeadTailProperties
    <3>3. Len(add_q') \in Nat /\ DOMAIN add_q' = 1 .. Len(add_q')
      BY <3>1
    <3>4. \A i \in 1 .. Len(add_q') : i + 1 \in 1 .. Len(add_q)
      BY <3>1, <3>3, <1>t
    <3> QED BY <3>1, <3>2, <3>3, <3>4
  <2>3. ASSUME NEW i \in DOMAIN add_q' PROVE add_q'[i] = arrived' + i
    <3>1. add_q'[i] = arrived + (i + 1) /\ i \in Nat
      BY <2>2, <1>t DEF Submitted
    <3> QED BY <2>1, <3>1, <1>t
  <2>4. arrived' + Len(add_q') = arrived + Len(add_q)
    BY <2>1, <2>2, <1>t
  <2> QED BY <1>2, <2>3, <2>4, <1>t DEF Submitted, Accepted, NumPromptTokens
<1>3. CASE Turn
  <2>1. params' = params /\ handler' = handler
    BY <1>3, ParamsFixed DEF Turn
  <2> QED BY <1>2, <1>3, <2>1, <1>f DEF Turn
<1>4. CASE Return
  <2>1. params' = params
    BY <1>4, ParamsFixed DEF Return
  <2> QED BY <1>4, <2>1, <1>f DEF Return
<1>5. CASE Quiet
  BY <1>5, <1>f DEF Quiet, vars, queueVars
<1>6. CASE PushDelta \/ EndStream
  BY <1>6, <1>f DEF PushDelta, EndStream, vars, queueVars, queues, handlerVars
<1>7. ASSUME NEW r \in Requests, TakeOutput(r) PROVE Submitted'
  <2>1. \A q \in Requests : handler'[q] = "absent" <=> handler[q] = "absent"
    BY <1>7, <1>t DEF TakeOutput
  <2> QED BY <1>7, <2>1, <1>f DEF TakeOutput, vars, queueVars, queues
<1> QED BY <1>1, <1>3, <1>4, <1>5, <1>6, <1>7, StepKinds DEF EngineInv, StreamInv

LEMMA SampledRuns ==
  ASSUME LifeInv, NEW r, Sampled(r)
  PROVE  r \in Range(running) /\ r \in Requests /\ r <= arrived
<1>1. r \in Range(running)
  BY DEF Sampled, Batched, LifeInv, LifeCycle, BatchShape
<1>2. r \in Requests
  BY <1>1, RunningFacts DEF LifeInv
<1>3. r <= arrived
  BY <1>1, <1>2 DEF LifeInv, QueueOrder
<1> QED BY <1>1, <1>2, <1>3

\* A request that has not been submitted has nothing yet.
LEMMA AbsentFacts ==
  ASSUME EngineInv, NEW r \in Requests, handler[r] = "absent"
  PROVE  /\ r \notin registered /\ ~Unsent(r) /\ status[r] = "waiting"
         /\ num_output_tokens[r] = 0 /\ stream[r] = << >>
<1>t. add_q \in Seq(Requests) /\ arrived \in Nat /\ stream[r] \in Seq(Items) /\ TypeOK
  BY SchedulerAssumption DEF EngineInv, StreamInv, LifeInv, TypeOK, QueueTypes, StreamTypes
<1>1. r > arrived
  <2>1. r > arrived + Len(add_q)
    BY DEF EngineInv, StreamInv, Submitted
  <2> QED BY <2>1, <1>t DEF Requests
<1>2. status[r] = "waiting" /\ num_output_tokens[r] = 0
  BY <1>1 DEF EngineInv, LifeInv, LifeCycle, Untouched
<1>3. r \notin registered
  BY <1>2 DEF EngineInv, StreamInv, QueueLasts
<1>4. ~Unsent(r)
  <2>1. r \notin Range(deltas)
    BY <1>3 DEF EngineInv, StreamInv, DeltasKnown
  <2>2. ~Sampled(r)
    <3>1. ~(r <= arrived)
      BY <1>1, <1>t DEF Requests
    <3> QED BY <3>1, SampledRuns DEF EngineInv
  <2> QED BY <2>1, <2>2 DEF Unsent
<1>5. num_output_tokens[r] = Len(stream[r])
  <2>1. num_output_tokens[r] = Len(stream[r]) + (IF Unsent(r) THEN 1 ELSE 0)
    BY DEF EngineInv, StreamInv, TokensCounted
  <2> QED BY <2>1, <1>4, <1>t
<1>6. stream[r] = << >>
  BY <1>2, <1>5, <1>t, EmptySeq
<1> QED BY <1>2, <1>3, <1>4, <1>6

\* While the streams rest, the last token of a request appears and is handed on.
LEMMA TokensOnTheWay ==
  ASSUME EngineInv, Turn \/ Return, NEW r \in Requests
  PROVE  \/ num_output_tokens'[r] = num_output_tokens[r] /\ (Unsent(r)' <=> Unsent(r))
         \/ /\ num_output_tokens'[r] = num_output_tokens[r] + 1
            /\ ~Unsent(r) /\ Unsent(r)' /\ status[r] # "finished" /\ r \in Range(running)
<1>e. Range(<< >>) = {}
  BY EmptySeq DEF Range
<1>1. CASE Turn
  <2>1. Range(deltas) = {} /\ Range(deltas') = {}
    BY <1>1, <1>e DEF Turn
  <2>2. (Unsent(r) <=> Sampled(r)) /\ (Unsent(r)' <=> Sampled(r)')
    BY <2>1 DEF Unsent
  <2>3. \/ num_output_tokens'[r] = num_output_tokens[r] /\ Sampled(r)' = Sampled(r)
        \/ /\ num_output_tokens'[r] = num_output_tokens[r] + 1
           /\ ~Sampled(r) /\ Sampled(r)' /\ status[r] # "finished" /\ r \in Range(running)
    BY <1>1, TokensMove DEF Turn, EngineInv
  <2> QED BY <2>2, <2>3
<1>2. CASE Return
  <2>1. Range(deltas) = {}
    BY <1>2, <1>e DEF Return
  <2>2. UNCHANGED requestVars /\ ~Sampled(r)'
    BY <1>2, ReturnClears DEF Return
  <2>3. (r \in Range(deltas)') <=> Sampled(r)
    BY <1>2, SampledRequestsFacts DEF Return, EngineInv
  <2> QED BY <2>1, <2>2, <2>3 DEF Unsent, requestVars
<1> QED BY <1>1, <1>2

LEMMA UnsentSame ==
  ASSUME UNCHANGED <<vars, deltas>>, NEW r
  PROVE  Unsent(r)' = Unsent(r)
BY DEF Unsent, Sampled, vars, localVars

\* A step of a handler, or of the thread between its phases.
LEMMA Resting ==
  ASSUME StreamTypes, Quiet \/ \E q \in Requests : TakeOutput(q)
  PROVE  /\ UNCHANGED <<vars, deltas, ending, registered, stream>>
         /\ \A r \in Requests : handler'[r] = "absent" <=> handler[r] = "absent"
<1>1. CASE Quiet
  BY <1>1 DEF Quiet
<1>2. ASSUME NEW q \in Requests, TakeOutput(q)
      PROVE  /\ UNCHANGED <<vars, deltas, ending, registered, stream>>
             /\ \A r \in Requests : handler'[r] = "absent" <=> handler[r] = "absent"
  <2>1. handler[q] # "absent" /\ handler'[q] # "absent"
    BY <1>2 DEF TakeOutput, StreamTypes
  <2>2. \A r \in Requests : r # q => handler'[r] = handler[r]
    BY <1>2 DEF TakeOutput, StreamTypes
  <2> QED BY <1>2, <2>1, <2>2 DEF TakeOutput, loopVars, outVars
<1> QED BY <1>1, <1>2

LEMMA QueueLastsNext == EngineInv /\ [EngineNext]_engineVars => QueueLasts'
<1> SUFFICES ASSUME EngineInv, [EngineNext]_engineVars, NEW r \in Requests
             PROVE  \/ r \in registered' /\ handler'[r] # "absent"
                    \/ r \notin registered' /\ handler'[r] = "absent"
                    \/ r \notin registered' /\ status'[r] = "finished" /\ ~Unsent(r)'
  BY DEF QueueLasts
<1> DEFINE Goal == \/ r \in registered' /\ handler'[r] # "absent"
                   \/ r \notin registered' /\ handler'[r] = "absent"
                   \/ r \notin registered' /\ status'[r] = "finished" /\ ~Unsent(r)'
<1>t. /\ StreamTypes /\ AbortsAllowed /\ PhaseOrder
      /\ \/ r \in registered /\ handler[r] # "absent"
         \/ r \notin registered /\ handler[r] = "absent"
         \/ r \notin registered /\ status[r] = "finished" /\ ~Unsent(r)
  BY DEF EngineInv, StreamInv, QueueLasts
<1>1. CASE Quiet \/ \E q \in Requests : TakeOutput(q)
  <2>1. /\ UNCHANGED <<vars, deltas, ending, registered, stream>>
        /\ handler'[r] = "absent" <=> handler[r] = "absent"
    BY <1>1, <1>t, Resting
  <2>2. Unsent(r)' = Unsent(r) /\ status' = status
    BY <2>1, UnsentSame DEF vars, requestVars
  <2> QED BY <2>1, <2>2, <1>t
<1>2. ASSUME NEW q \in Requests, Submit(q) PROVE Goal
  <2>1. registered' = registered \cup {q} /\ handler' = [handler EXCEPT ![q] = "check"]
    BY <1>2 DEF Submit
  <2>2. CASE r = q
    BY <2>1, <2>2, <1>t DEF StreamTypes
  <2>3. CASE r # q
    <3>1. UNCHANGED <<vars, deltas>> /\ handler'[r] = handler[r]
      BY <1>2, <2>1, <2>3, <1>t DEF Submit, loopVars, StreamTypes
    <3>2. Unsent(r)' = Unsent(r) /\ status' = status
      BY <3>1, UnsentSame DEF vars, requestVars
    <3> QED BY <2>1, <2>3, <3>1, <3>2, <1>t
  <2> QED BY <2>2, <2>3
<1>3. CASE Turn \/ Return
  <2>1. UNCHANGED <<registered, handler>> /\ [Next]_vars
    BY <1>3 DEF Turn, Return
  <2>2. status[r] = "finished" => status'[r] = "finished"
    BY <2>1, FinishIsKept DEF EngineInv, KeepsFinished
  <2>3. status[r] = "finished" => (Unsent(r)' <=> Unsent(r))
    BY <1>3, TokensOnTheWay
  <2> QED BY <2>1, <2>2, <2>3, <1>t
<1>4. CASE PushDelta
  <2> PICK q \in Requests : q = Head(deltas)
    BY <1>4, <1>t, HeadOnce DEF PushDelta, StreamTypes
  <2>1. /\ UNCHANGED <<vars, registered, handler>> /\ ~Sampled(r)'
        /\ Range(deltas) = {q} \cup Range(deltas')
    BY <1>4, PushFacts
  <2>2. ~Unsent(r) => ~Unsent(r)'
    BY <2>1 DEF Unsent
  <2> QED BY <2>1, <2>2, <1>t DEF vars, requestVars
<1>5. CASE EndStream
  <2> PICK q \in Requests : q = Head(ending)
    BY <1>5, <1>t, HeadOnce DEF EndStream, StreamTypes
  <2>1. /\ UNCHANGED <<vars, handler, deltas>> /\ ~Sampled(r) /\ ~Sampled(r)' /\ deltas = << >>
        /\ registered' = registered \ {q} /\ status[q] = "finished"
    BY <1>5, EndFacts
  <2>2. ~Unsent(r)'
    BY <2>1, EmptySeq DEF Unsent, Range
  <2> QED BY <2>1, <2>2, <1>t DEF vars, requestVars
<1> QED BY <1>1, <1>2, <1>3, <1>4, <1>5, <1>t, StepKinds

LEMMA DeltasKnownNext == EngineInv /\ [EngineNext]_engineVars => DeltasKnown'
<1> SUFFICES ASSUME EngineInv, [EngineNext]_engineVars PROVE DeltasKnown'
  OBVIOUS
<1>t. /\ StreamTypes /\ AbortsAllowed /\ PhaseOrder /\ IsInjective(deltas) /\ LifeInv
      /\ \A r \in Range(deltas) :
           r \in registered /\ (status[r] = "finished" => finish_reason[r] \in OwnReasons)
  BY DEF EngineInv, StreamInv, DeltasKnown
<1>e. Range(<< >>) = {} /\ IsInjective(<< >>)
  BY EmptySeq DEF Range, IsInjective
<1>1. CASE Quiet \/ \E q \in Requests : Submit(q) \/ TakeOutput(q)
  <2>1. UNCHANGED <<vars, deltas>> /\ registered \subseteq registered'
    BY <1>1, <1>t DEF Quiet, Submit, TakeOutput, loopVars, outVars
  <2> QED BY <2>1, <1>t DEF DeltasKnown, vars, requestVars
<1>2. CASE Turn
  BY <1>2, <1>e DEF Turn, DeltasKnown
<1>3. CASE Return
  <2>1. /\ IsInjective(deltas') /\ UNCHANGED <<status, finish_reason, registered>>
        /\ \A r : r \in Range(deltas') <=> Sampled(r)
    BY <1>3, <1>t, ReturnClears, SampledRequestsFacts DEF Return, requestVars
  <2>2. ASSUME NEW r, Sampled(r)
        PROVE  r \in registered /\ (status[r] = "finished" => finish_reason[r] \in OwnReasons)
    <3>1. r \in Requests /\ r <= arrived
      BY <2>2, <1>t, SampledRuns
    <3>2. Unsent(r)
      BY <2>2 DEF Unsent
    <3>3. handler[r] # "absent"
      BY <3>1, <3>2, AbsentFacts
    <3>4. r \in registered
      BY <3>1, <3>2, <3>3 DEF EngineInv, StreamInv, QueueLasts
    <3> QED BY <2>2, <3>1, <3>4 DEF EngineInv, ReturnKnown
  <2> QED BY <2>1, <2>2 DEF DeltasKnown
<1>4. CASE PushDelta
  <2> PICK q \in Requests : q = Head(deltas)
    BY <1>4, <1>t, HeadOnce DEF PushDelta, StreamTypes
  <2>1. /\ UNCHANGED <<vars, registered>> /\ IsInjective(deltas')
        /\ Range(deltas) = {q} \cup Range(deltas')
    BY <1>4, PushFacts
  <2> QED BY <2>1, <1>t DEF DeltasKnown, vars, requestVars
<1>5. CASE EndStream
  <2> PICK q \in Requests : q = Head(ending)
    BY <1>5, <1>t, HeadOnce DEF EndStream, StreamTypes
  <2>1. deltas' = << >>
    BY <1>5, EndFacts
  <2> QED BY <2>1, <1>e DEF DeltasKnown
<1> QED BY <1>1, <1>2, <1>3, <1>4, <1>5, <1>t, StepKinds

LEMMA TokensCountedNext == EngineInv /\ [EngineNext]_engineVars => TokensCounted'
<1> SUFFICES ASSUME EngineInv, [EngineNext]_engineVars, NEW r \in Requests,
                    r \in registered' \/ handler'[r] = "absent"
             PROVE  num_output_tokens'[r] = Len(stream'[r]) + (IF Unsent(r)' THEN 1 ELSE 0)
  BY DEF TokensCounted
<1> DEFINE Goal == num_output_tokens'[r] = Len(stream'[r]) + (IF Unsent(r)' THEN 1 ELSE 0)
<1>t. /\ StreamTypes /\ AbortsAllowed /\ PhaseOrder /\ Len(stream[r]) \in Nat
      /\ num_output_tokens[r] \in Nat /\ TypeOK
  BY DEF EngineInv, StreamInv, StreamTypes, LifeInv, TypeOK, RequestTypes
<1>u. r \in registered \/ handler[r] = "absent" =>
        num_output_tokens[r] = Len(stream[r]) + (IF Unsent(r) THEN 1 ELSE 0)
  BY DEF EngineInv, StreamInv, TokensCounted
<1>1. CASE Quiet \/ \E q \in Requests : TakeOutput(q)
  <2>1. /\ UNCHANGED <<vars, deltas, ending, registered, stream>>
        /\ handler'[r] = "absent" <=> handler[r] = "absent"
    BY <1>1, <1>t, Resting
  <2>2. Unsent(r)' = Unsent(r) /\ num_output_tokens' = num_output_tokens
    BY <2>1, UnsentSame DEF vars, requestVars
  <2> QED BY <2>1, <2>2, <1>u
<1>2. ASSUME NEW q \in Requests, Submit(q) PROVE Goal
  <2>1. /\ registered' = registered \cup {q} /\ handler' = [handler EXCEPT ![q] = "check"]
        /\ handler[q] = "absent" /\ UNCHANGED <<vars, deltas, stream>>
    BY <1>2 DEF Submit, loopVars
  <2>2. r \in registered \/ handler[r] = "absent"
    BY <2>1, <1>t DEF StreamTypes
  <2>3. Unsent(r)' = Unsent(r) /\ num_output_tokens' = num_output_tokens
    BY <2>1, UnsentSame DEF vars, requestVars
  <2> QED BY <2>1, <2>2, <2>3, <1>u
<1>3. CASE Turn \/ Return
  <2>1. UNCHANGED <<registered, handler, stream>>
    BY <1>3 DEF Turn, Return
  <2>2. \/ num_output_tokens'[r] = num_output_tokens[r] /\ (Unsent(r)' <=> Unsent(r))
        \/ num_output_tokens'[r] = num_output_tokens[r] + 1 /\ ~Unsent(r) /\ Unsent(r)'
    BY <1>3, TokensOnTheWay
  <2>3. num_output_tokens[r] = Len(stream[r]) + (IF Unsent(r) THEN 1 ELSE 0)
    BY <2>1, <1>u
  <2>4. CASE num_output_tokens'[r] = num_output_tokens[r] /\ (Unsent(r)' <=> Unsent(r))
    BY <2>1, <2>3, <2>4
  <2>5. CASE num_output_tokens'[r] = num_output_tokens[r] + 1 /\ ~Unsent(r) /\ Unsent(r)'
    BY <2>1, <2>3, <2>5, <1>t
  <2> QED BY <2>2, <2>4, <2>5
<1>4. CASE PushDelta
  <2> PICK q \in Requests : q = Head(deltas)
    BY <1>4, <1>t, HeadOnce DEF PushDelta, StreamTypes
  <2>1. /\ UNCHANGED <<vars, registered, handler>> /\ ~Sampled(r)' /\ ~Sampled(r)
        /\ q \notin Range(deltas') /\ Range(deltas) = {q} \cup Range(deltas')
        /\ stream' = [stream EXCEPT ![q] = @ \o <<OutputOf(q)>>]
        /\ Len(stream[q]) + 1 = num_output_tokens[q]
    BY <1>4, PushFacts
  <2>2. OutputOf(q) \in Items
    BY <1>t, OutputIsItem
  <2>3. /\ Len(stream'[q]) = Len(stream[q]) + 1
        /\ r # q => stream'[r] = stream[r]
    BY <2>1, <2>2, <1>t, OneMoreItem
  <2>4. num_output_tokens' = num_output_tokens
    BY <2>1 DEF vars, requestVars
  <2>5. CASE r = q
    <3>1. ~Unsent(r)'
      BY <2>1, <2>5 DEF Unsent
    <3> QED BY <2>1, <2>3, <2>4, <2>5, <3>1, <1>t
  <2>6. CASE r # q
    <3>1. Unsent(r)' = Unsent(r)
      BY <2>1, <2>6 DEF Unsent
    <3> QED BY <2>1, <2>3, <2>4, <2>6, <3>1, <1>u
  <2> QED BY <2>5, <2>6
<1>5. CASE EndStream
  <2> PICK q \in Requests : q = Head(ending)
    BY <1>5, <1>t, HeadOnce DEF EndStream, StreamTypes
  <2>1. /\ UNCHANGED <<vars, handler, deltas>> /\ registered' = registered \ {q}
        /\ q \notin registered => stream' = stream
        /\ q \in registered => stream' = [stream EXCEPT ![q] = @ \o <<Sentinel>>]
    BY <1>5, EndFacts
  <2>2. stream'[r] = stream[r]
    <3>1. CASE q \notin registered
      BY <2>1, <3>1
    <3>2. CASE q \in registered
      <4>1. handler[q] # "absent"
        BY <3>2, AbsentFacts
      <4>2. r # q
        BY <2>1, <4>1
      <4> QED BY <2>1, <3>2, <4>2, <1>t DEF StreamTypes
    <3> QED BY <3>1, <3>2
  <2>3. Unsent(r)' = Unsent(r) /\ num_output_tokens' = num_output_tokens
    BY <2>1, UnsentSame DEF vars, requestVars
  <2> QED BY <2>1, <2>2, <2>3, <1>u
<1> QED BY <1>1, <1>2, <1>3, <1>4, <1>5, <1>t, StepKinds

\* A queue only grows, at its end: by the output of the request whose delta is
\* pushed, or by the sentinel of the request whose stream is ended.
LEMMA QueueGrows ==
  ASSUME EngineInv, [EngineNext]_engineVars, NEW r \in Requests
  PROVE  /\ DOMAIN stream[r] = 1 .. Len(stream[r]) /\ Len(stream[r]) \in Nat
         /\ \A i \in DOMAIN stream[r] :
              i \in DOMAIN stream'[r] /\ stream'[r][i] = stream[r][i]
         /\ \/ stream'[r] = stream[r]
            \/ /\ PushDelta /\ r = Head(deltas)
               /\ DOMAIN stream'[r] = 1 .. Len(stream[r]) + 1
               /\ stream'[r] = Append(stream[r], OutputOf(r))
               /\ stream'[r][Len(stream[r]) + 1] = OutputOf(r)
            \/ /\ EndStream /\ r = Head(ending) /\ r \in registered
               /\ DOMAIN stream'[r] = 1 .. Len(stream[r]) + 1
               /\ stream'[r] = Append(stream[r], Sentinel)
               /\ stream'[r][Len(stream[r]) + 1] = Sentinel
<1> DEFINE Goal == /\ \A i \in DOMAIN stream[r] :
                        i \in DOMAIN stream'[r] /\ stream'[r][i] = stream[r][i]
                   /\ \/ stream'[r] = stream[r]
                      \/ /\ PushDelta /\ r = Head(deltas)
                         /\ DOMAIN stream'[r] = 1 .. Len(stream[r]) + 1
                         /\ stream'[r] = Append(stream[r], OutputOf(r))
                         /\ stream'[r][Len(stream[r]) + 1] = OutputOf(r)
                      \/ /\ EndStream /\ r = Head(ending) /\ r \in registered
                         /\ DOMAIN stream'[r] = 1 .. Len(stream[r]) + 1
                         /\ stream'[r] = Append(stream[r], Sentinel)
                         /\ stream'[r][Len(stream[r]) + 1] = Sentinel
<1>t. /\ StreamTypes /\ AbortsAllowed /\ PhaseOrder /\ TypeOK
      /\ DOMAIN stream[r] = 1 .. Len(stream[r]) /\ Len(stream[r]) \in Nat
  BY DEF EngineInv, StreamInv, StreamTypes, LifeInv
<1>f. stream'[r] = stream[r] => Goal
  OBVIOUS
<1>1. CASE Quiet \/ Turn \/ Return \/ \E q \in Requests : Submit(q) \/ TakeOutput(q)
  BY <1>1, <1>f DEF Quiet, Turn, Return, Submit, TakeOutput, outVars
<1>2. CASE PushDelta
  <2> PICK q \in Requests : q = Head(deltas)
    BY <1>2, <1>t, HeadOnce DEF PushDelta, StreamTypes
  <2>1. stream' = [stream EXCEPT ![q] = @ \o <<OutputOf(q)>>]
    BY <1>2, PushFacts
  <2>2. OutputOf(q) \in Items
    BY <1>t, OutputIsItem
  <2>3. CASE r = q
    <3>1. /\ DOMAIN stream'[r] = 1 .. Len(stream[r]) + 1
          /\ \A i \in DOMAIN stream[r] : stream'[r][i] = stream[r][i]
          /\ stream'[r] = Append(stream[r], OutputOf(r))
          /\ stream'[r][Len(stream[r]) + 1] = OutputOf(r)
      <4>1. stream' = [stream EXCEPT ![r] = @ \o <<OutputOf(r)>>] /\ OutputOf(r) \in Items
        BY <2>1, <2>2, <2>3
      <4> QED BY <4>1, <1>t, OneMoreItem
    <3>2. \A i \in 1 .. Len(stream[r]) : i \in 1 .. Len(stream[r]) + 1
      BY <1>t
    <3> QED BY <1>2, <1>t, <2>3, <3>1, <3>2
  <2>4. CASE r # q
    BY <2>1, <2>2, <2>4, <1>t, <1>f, OneMoreItem
  <2> QED BY <2>3, <2>4
<1>3. CASE EndStream
  <2> PICK q \in Requests : q = Head(ending)
    BY <1>3, <1>t, HeadOnce DEF EndStream, StreamTypes
  <2>1. /\ q \notin registered => stream' = stream
        /\ q \in registered => stream' = [stream EXCEPT ![q] = @ \o <<Sentinel>>]
    BY <1>3, EndFacts
  <2>2. Sentinel \in Items
    BY DEF Items
  <2>3. CASE q \notin registered
    BY <2>1, <2>3, <1>f
  <2>4. CASE q \in registered /\ r = q
    <3>1. /\ DOMAIN stream'[r] = 1 .. Len(stream[r]) + 1
          /\ \A i \in DOMAIN stream[r] : stream'[r][i] = stream[r][i]
          /\ stream'[r] = Append(stream[r], Sentinel)
          /\ stream'[r][Len(stream[r]) + 1] = Sentinel
      BY <2>1, <2>2, <2>4, <1>t, OneMoreItem
    <3>2. \A i \in 1 .. Len(stream[r]) : i \in 1 .. Len(stream[r]) + 1
      BY <1>t
    <3> QED BY <1>3, <1>t, <2>4, <3>1, <3>2
  <2>5. CASE q \in registered /\ r # q
    BY <2>1, <2>2, <2>5, <1>t, <1>f, OneMoreItem
  <2> QED BY <2>3, <2>4, <2>5
<1> QED BY <1>1, <1>2, <1>3, <1>t, StepKinds

\* How a request finished is not taken back.
LEMMA FinishStays ==
  ASSUME EngineInv, [EngineNext]_engineVars, NEW r \in Requests, status[r] = "finished"
  PROVE  /\ status'[r] = "finished" /\ finish_reason'[r] = finish_reason[r]
         /\ num_output_tokens'[r] = num_output_tokens[r]
         /\ Starved(r) => Starved(r)'
         /\ \A i \in DOMAIN stream[r] : IsLast(r, i) => IsLast(r, i)'
<1>1. [Next]_vars /\ LifeInv
  BY EngineStepIsStep DEF EngineInv
<1>2. /\ status'[r] = "finished" /\ finish_reason'[r] = finish_reason[r]
      /\ num_output_tokens'[r] = num_output_tokens[r] /\ params' = params
  BY <1>1, FinishIsKept, ParamsFixed DEF KeepsFinished
<1>3. Starved(r) => Starved(r)'
  BY <1>2 DEF Starved, TotalTokens, NumPromptTokens
<1>4. \A i \in DOMAIN stream[r] : stream'[r][i] = stream[r][i]
  BY QueueGrows
<1>5. \A i \in DOMAIN stream[r] : IsLast(r, i) => IsLast(r, i)'
  BY <1>2, <1>4 DEF IsLast
<1> QED BY <1>2, <1>3, <1>5

\* Nor does a request get a queue again.
LEMMA NoSecondQueue ==
  ASSUME EngineInv, [EngineNext]_engineVars, NEW r \in Requests,
         r \notin registered, stream[r] # << >>
  PROVE  r \notin registered'
<1>t. StreamTypes /\ AbortsAllowed /\ PhaseOrder
  BY DEF EngineInv, StreamInv
<1>1. ASSUME NEW q \in Requests, Submit(q) PROVE r \notin registered'
  <2>1. handler[q] = "absent" /\ registered' = registered \cup {q}
    BY <1>1 DEF Submit
  <2>2. r # q
    BY <2>1, AbsentFacts
  <2> QED BY <2>1, <2>2
<1>2. ASSUME NEW q \in Requests, TakeOutput(q) PROVE r \notin registered'
  BY <1>2 DEF TakeOutput, outVars
<1>3. CASE Quiet \/ Turn \/ Return \/ PushDelta \/ EndStream
  BY <1>3 DEF Quiet, Turn, Return, PushDelta, EndStream, Unregister
<1> QED BY <1>1, <1>2, <1>3, <1>t, StepKinds

LEMMA StreamShapeNext == EngineInv /\ [EngineNext]_engineVars => StreamShape'
<1> SUFFICES ASSUME EngineInv, [EngineNext]_engineVars,
                    NEW r \in Requests, NEW i \in DOMAIN stream'[r]
             PROVE  ItemShape(r, i)'
  BY DEF StreamShape
<1>t. TypeOK /\ StreamTypes /\ num_output_tokens[r] \in Nat
  BY DEF EngineInv, StreamInv, LifeInv, TypeOK, RequestTypes
<1>g. /\ DOMAIN stream[r] = 1 .. Len(stream[r]) /\ Len(stream[r]) \in Nat
      /\ \A k \in DOMAIN stream[r] : stream'[r][k] = stream[r][k]
  BY QueueGrows
<1>1. CASE i \in DOMAIN stream[r]
  <2>1. ItemShape(r, i) /\ stream'[r][i] = stream[r][i]
    BY <1>1, <1>g DEF EngineInv, StreamInv, StreamShape
  <2>2. CASE stream[r][i] = Token(i)
    BY <2>1, <2>2 DEF ItemShape, Token
  <2>3. CASE IsLast(r, i)
    <3>1. IsLast(r, i)'
      BY <1>1, <2>3, FinishStays DEF IsLast
    <3> QED BY <3>1 DEF ItemShape
  <2>4. CASE /\ stream[r][i] = Sentinel /\ r \notin registered /\ status[r] = "finished"
             /\ Starved(r) \/ (i > 1 /\ IsLast(r, i - 1))
    <3>1. stream'[r][i] = Sentinel
      BY <2>1, <2>4 DEF Sentinel
    <3>2. r \notin registered'
      <4>1. stream[r] # << >>
        BY <1>1, EmptySeq
      <4> QED BY <4>1, <2>4, NoSecondQueue
    <3>3. status'[r] = "finished"
      BY <2>4, FinishStays
    <3>4. Starved(r) => Starved(r)'
      BY <2>4, FinishStays
    <3>5. i > 1 /\ IsLast(r, i - 1) => i > 1 /\ IsLast(r, i - 1)'
      <4> SUFFICES ASSUME i > 1, IsLast(r, i - 1) PROVE IsLast(r, i - 1)'
        OBVIOUS
      <4>1. i - 1 \in DOMAIN stream[r]
        BY <1>1, <1>g
      <4> QED BY <4>1, <2>4, FinishStays
    <3>6. Sentinel' = Sentinel
      BY DEF Sentinel
    <3> QED BY <2>4, <3>1, <3>2, <3>3, <3>4, <3>5, <3>6 DEF ItemShape
  <2> QED BY <2>1, <2>2, <2>3, <2>4 DEF ItemShape
<1>2. CASE PushDelta /\ r = Head(deltas) /\ i = Len(stream[r]) + 1 /\ stream'[r][i] = OutputOf(r)
  <2>1. /\ i = num_output_tokens[r] /\ UNCHANGED vars
        /\ status[r] = "finished" => finish_reason[r] \in OwnReasons
    BY <1>2, PushFacts
  <2>2. UNCHANGED <<status, finish_reason, num_output_tokens>>
    BY <2>1 DEF vars, requestVars
  <2>3. CASE status[r] = "finished"
    <3>1. stream'[r][i] = [n |-> i, is_finished |-> TRUE, finish_reason |-> finish_reason[r]]
      BY <1>2, <2>1, <2>3 DEF OutputOf, IsFinal
    <3>2. IsLast(r, i)'
      BY <2>1, <2>2, <2>3, <3>1 DEF IsLast, OwnReasons
    <3> QED BY <3>2 DEF ItemShape
  <2>4. CASE status[r] # "finished"
    <3>1. finish_reason[r] = "none"
      BY <2>4 DEF EngineInv, ReturnKnown
    <3>2. (status[r] = "finished") = FALSE
      BY <2>4
    <3>3. stream'[r][i] = Token(i)
      BY <1>2, <2>1, <3>1, <3>2 DEF OutputOf, IsFinal, Token
    <3> QED BY <3>3 DEF ItemShape, Token
  <2> QED BY <2>3, <2>4
<1>3. CASE /\ EndStream /\ r = Head(ending) /\ r \in registered
           /\ i = Len(stream[r]) + 1 /\ stream'[r][i] = Sentinel
  <2>1. /\ status[r] = "finished" /\ registered' = registered \ {r}
        /\ \/ Starved(r)
           \/ num_output_tokens[r] \in DOMAIN stream[r] /\ IsLast(r, num_output_tokens[r])
        /\ num_output_tokens[r] = Len(stream[r])
    BY <1>3, EndFacts
  <2>2. CASE Starved(r)
    <3>1. Starved(r)' /\ status'[r] = "finished" /\ r \notin registered'
      BY <2>1, <2>2, FinishStays
    <3> QED BY <1>3, <3>1 DEF ItemShape, Sentinel
  <2>3. CASE num_output_tokens[r] \in DOMAIN stream[r] /\ IsLast(r, num_output_tokens[r])
    <3>1. i - 1 = num_output_tokens[r] /\ i > 1
      BY <1>3, <2>1, <2>3, <1>g
    <3>2. IsLast(r, i - 1)' /\ status'[r] = "finished" /\ r \notin registered'
      BY <2>1, <2>3, <3>1, FinishStays
    <3> QED BY <1>3, <3>1, <3>2 DEF ItemShape, Sentinel
  <2> QED BY <2>1, <2>2, <2>3
<1> QED
  <2>1. \A k \in 1 .. Len(stream[r]) + 1 : k \in 1 .. Len(stream[r]) \/ k = Len(stream[r]) + 1
    BY <1>g
  <2> QED BY <1>1, <1>2, <1>3, <2>1, QueueGrows

LEMMA EndingKnownNext == EngineInv /\ [EngineNext]_engineVars => EndingKnown'
<1> SUFFICES ASSUME EngineInv, [EngineNext]_engineVars, NEW r \in Range(ending')
             PROVE  /\ status'[r] = "finished"
                    /\ \/ Starved(r)'
                       \/ r \in Range(deltas')
                       \/ num_output_tokens'[r] \in DOMAIN stream'[r] /\ IsLast(r, num_output_tokens[r])'
  BY DEF EndingKnown
<1> DEFINE n == num_output_tokens[r]
           Goal == /\ status'[r] = "finished"
                   /\ \/ Starved(r)'
                      \/ r \in Range(deltas')
                      \/ num_output_tokens'[r] \in DOMAIN stream'[r] /\ IsLast(r, num_output_tokens[r])'
<1>t. StreamTypes /\ AbortsAllowed /\ PhaseOrder /\ TypeOK /\ LifeInv /\ r \in Requests
  <2>1. StreamTypes' /\ StreamTypes
    BY StreamTypesNext DEF EngineInv, StreamInv
  <2>2. r \in Requests
    BY <2>1, RangeOfSeq DEF StreamTypes
  <2> QED BY <2>1, <2>2 DEF EngineInv, StreamInv, LifeInv
<1>k. \A q \in Range(ending) :
        /\ status[q] = "finished"
        /\ \/ Starved(q) \/ q \in Range(deltas)
           \/ num_output_tokens[q] \in DOMAIN stream[q] /\ IsLast(q, num_output_tokens[q])
  BY DEF EngineInv, StreamInv, EndingKnown
\* Who was to be ended still is.
<1>s. ASSUME status[r] = "finished", Starved(r) \/ (n \in DOMAIN stream[r] /\ IsLast(r, n))
      PROVE  Goal
  <2>1. /\ status'[r] = "finished" /\ num_output_tokens'[r] = n
        /\ Starved(r) => Starved(r)'
        /\ \A i \in DOMAIN stream[r] : IsLast(r, i) => IsLast(r, i)'
    BY <1>s, <1>t, FinishStays
  <2>2. n \in DOMAIN stream[r] => n \in DOMAIN stream'[r]
    BY <1>t, QueueGrows
  <2>3. IsLast(r, num_output_tokens[r])' <=> IsLast(r, n)'
    BY <2>1 DEF IsLast
  <2> QED BY <1>s, <2>1, <2>2, <2>3
<1>1. CASE Quiet \/ Turn \/ EndStream \/ \E q \in Requests : Submit(q) \/ TakeOutput(q)
  <2>1. deltas' = deltas /\ Range(ending') \subseteq Range(ending)
    <3>1. CASE EndStream
      BY <3>1, <1>t, HeadOnce DEF EndStream, StreamTypes
    <3>2. CASE Quiet \/ Turn \/ \E q \in Requests : Submit(q) \/ TakeOutput(q)
      BY <3>2 DEF Quiet, Turn, Submit, TakeOutput, loopVars
    <3> QED BY <1>1, <3>1, <3>2
  <2>2. status[r] = "finished" => status'[r] = "finished"
    BY <1>t, FinishStays
  <2> QED BY <2>1, <2>2, <1>k, <1>s
<1>2. CASE Return
  <2>1. /\ finished \in Seq(Requests) /\ finished_this_step \in Seq(Requests)
        /\ ending' = finished \o finished_this_step
    BY <1>2, <1>t DEF Return, AllFinished, TypeOK, QueueTypes, BatchTypes
  <2>2. r \in Range(finished) \/ r \in Range(finished_this_step)
    BY <2>1, RangeConcatenation
  <2>3. UNCHANGED requestVars
    BY <1>2, ReturnClears DEF Return
  <2>4. CASE r \in Range(finished)
    <3>1. status[r] = "finished" /\ Sampled(r)
      BY <2>4, <1>t DEF LifeInv, LifeCycle, FinishedKnown, EngineInv, ReturnKnown
    <3>2. r \in Range(deltas')
      BY <3>1, <1>2, <1>t, SampledRequestsFacts DEF Return
    <3> QED BY <2>3, <3>1, <3>2 DEF requestVars
  <2>5. CASE r \in Range(finished_this_step)
    <3>1. status[r] = "finished" /\ (Starved(r) \/ (TooLong(r) /\ r <= arrived))
      BY <2>5, <1>2 DEF Return, EngineInv, ReturnKnown
    <3>2. ~(TooLong(r) /\ r <= arrived)
      <4> SUFFICES ASSUME TooLong(r), r <= arrived PROVE FALSE
        OBVIOUS
      <4>1. Len(add_q) \in Nat /\ arrived \in Nat /\ r \in Nat
        BY <1>t, SchedulerAssumption DEF StreamTypes, TypeOK, QueueTypes, Requests
      <4>2. ~(r > arrived + Len(add_q))
        BY <4>1
      <4>3. Accepted(r)
        BY <4>2, <1>t DEF EngineInv, StreamInv, Submitted
      <4>4. NumPromptTokens(r) \in Nat /\ MaxModelLen \in Nat
        BY <1>t, ParamsType, SchedulerAssumption
      <4> QED BY <4>3, <4>4 DEF Accepted, TooLong
    <3> QED BY <3>1, <3>2, <1>s
  <2> QED BY <2>2, <2>4, <2>5
<1>3. CASE PushDelta
  <2> PICK q \in Requests : q = Head(deltas)
    BY <1>3, <1>t, HeadOnce DEF PushDelta, StreamTypes
  <2>1. /\ Range(deltas) = {q} \cup Range(deltas') /\ Len(stream[q]) + 1 = num_output_tokens[q]
        /\ status[q] = "finished" => finish_reason[q] \in OwnReasons
        /\ UNCHANGED <<vars, ending>>
        /\ stream' = [stream EXCEPT ![q] = @ \o <<OutputOf(q)>>]
    BY <1>3, PushFacts
  <2>2. status[r] = "finished" /\ UNCHANGED <<status, finish_reason, num_output_tokens>>
    BY <2>1, <1>k DEF vars, requestVars
  <2>3. CASE r = q
    <3>1. OutputOf(r) \in Items
      BY <1>t, OutputIsItem
    <3>2. /\ DOMAIN stream'[r] = 1 .. Len(stream[r]) + 1
          /\ stream'[r][Len(stream[r]) + 1] = OutputOf(r) /\ Len(stream[r]) \in Nat
      <4>1. stream' = [stream EXCEPT ![r] = @ \o <<OutputOf(r)>>]
        BY <2>1, <2>3
      <4> QED BY <4>1, <3>1, <1>t, OneMoreItem
    <3>3. n \in DOMAIN stream'[r] /\ stream'[r][n] = OutputOf(r)
      <4>1. n = Len(stream[r]) + 1
        BY <2>1, <2>3
      <4> QED BY <4>1, <3>2
    <3>4. OutputOf(r) = [n |-> n, is_finished |-> TRUE, finish_reason |-> finish_reason[r]]
      BY <2>2 DEF OutputOf, IsFinal
    <3>5. IsLast(r, num_output_tokens[r])'
      BY <2>1, <2>2, <2>3, <3>3, <3>4 DEF IsLast, OwnReasons
    <3> QED BY <2>2, <3>3, <3>5
  <2>4. CASE r # q
    BY <2>1, <2>2, <2>4, <1>k, <1>s
  <2> QED BY <2>3, <2>4
<1> QED BY <1>1, <1>2, <1>3, <1>t, StepKinds

LEMMA ReadersKnownNext == EngineInv /\ [EngineNext]_engineVars => ReadersKnown'
<1> SUFFICES ASSUME EngineInv, [EngineNext]_engineVars, NEW r \in Requests
             PROVE  LET plain == IF handler'[r] = "done" THEN taken'[r] - 1 ELSE taken'[r]
                    IN  /\ taken'[r] <= Len(stream'[r])
                        /\ \A i \in 1 .. plain : stream'[r][i] = Token(i)
                        /\ handler'[r] = "done" =>
                             taken'[r] > 0 /\ EndsReading(stream'[r][taken'[r]])
  BY DEF ReadersKnown, Token, EndsReading, Sentinel
<1> DEFINE plain == IF handler[r] = "done" THEN taken[r] - 1 ELSE taken[r]
           next == IF handler'[r] = "done" THEN taken'[r] - 1 ELSE taken'[r]
           Goal == /\ taken'[r] <= Len(stream'[r])
                   /\ \A i \in 1 .. next : stream'[r][i] = Token(i)
                   /\ handler'[r] = "done" =>
                        taken'[r] > 0 /\ EndsReading(stream'[r][taken'[r]])
<1>t. /\ StreamTypes /\ AbortsAllowed /\ PhaseOrder
      /\ taken \in [Requests -> Nat] /\ taken[r] \in Nat
      /\ handler \in [Requests -> {"absent", "check", "get", "done", "left"}]
  BY DEF EngineInv, StreamInv, StreamTypes
<1>k. /\ taken[r] <= Len(stream[r])
      /\ \A i \in 1 .. plain : stream[r][i] = Token(i)
      /\ handler[r] = "done" => taken[r] > 0 /\ EndsReading(stream[r][taken[r]])
  BY DEF EngineInv, StreamInv, ReadersKnown
<1>g. /\ DOMAIN stream[r] = 1 .. Len(stream[r]) /\ Len(stream[r]) \in Nat
      /\ Len(stream[r]) <= Len(stream'[r])
      /\ \A i \in DOMAIN stream[r] : stream'[r][i] = stream[r][i]
  <2>1. /\ DOMAIN stream[r] = 1 .. Len(stream[r]) /\ Len(stream[r]) \in Nat
        /\ \A i \in DOMAIN stream[r] : i \in DOMAIN stream'[r] /\ stream'[r][i] = stream[r][i]
    BY QueueGrows
  <2>2. DOMAIN stream'[r] = 1 .. Len(stream'[r]) /\ Len(stream'[r]) \in Nat
    BY StreamTypesNext DEF StreamTypes
  <2>3. Len(stream[r]) <= Len(stream'[r])
    <3>1. Len(stream[r]) = 0 \/ Len(stream[r]) \in 1 .. Len(stream'[r])
      BY <2>1, <2>2
    <3> QED BY <3>1, <2>1, <2>2
  <2> QED BY <2>1, <2>3
<1>f. ASSUME taken'[r] = taken[r], (handler'[r] = "done") <=> (handler[r] = "done")
      PROVE  Goal
  <2>1. next = plain
    BY <1>f
  <2>2. \A i \in 1 .. plain : i \in DOMAIN stream[r]
    BY <1>t, <1>k, <1>g
  <2>3. \A i \in 1 .. next : stream'[r][i] = Token(i)
    BY <2>1, <2>2, <1>k, <1>g
  <2>4. taken'[r] <= Len(stream'[r])
    BY <1>f, <1>t, <1>k, <1>g, StreamTypesNext DEF StreamTypes
  <2>5. handler'[r] = "done" => taken'[r] > 0 /\ EndsReading(stream'[r][taken'[r]])
    <3>1. taken[r] > 0 => taken[r] \in DOMAIN stream[r]
      BY <1>t, <1>k, <1>g
    <3> QED BY <3>1, <1>f, <1>k, <1>g
  <2> QED BY <2>3, <2>4, <2>5
<1>1. CASE Quiet
  <2>1. taken' = taken /\ ((handler'[r] = "done") <=> (handler[r] = "done"))
    BY <1>1 DEF Quiet
  <2> QED BY <2>1, <1>f
<1>2. CASE Turn \/ Return \/ PushDelta \/ EndStream
  <2>1. taken' = taken /\ handler' = handler
    BY <1>2 DEF Turn, Return, PushDelta, EndStream, handlerVars
  <2> QED BY <2>1, <1>f
<1>3. ASSUME NEW q \in Requests, Submit(q) PROVE Goal
  <2>1. taken' = taken /\ ((handler'[r] = "done") <=> (handler[r] = "done"))
    BY <1>3, <1>t DEF Submit
  <2> QED BY <2>1, <1>f
<1>4. ASSUME NEW q \in Requests, TakeOutput(q) PROVE Goal
  <2>1. CASE r # q
    <3>1. taken'[r] = taken[r] /\ handler'[r] = handler[r]
      BY <1>4, <2>1, <1>t DEF TakeOutput
    <3> QED BY <3>1, <1>f
  <2>2. CASE r = q
    <3>1. /\ handler[r] = "get" /\ taken[r] < Len(stream[r])
          /\ taken'[r] = taken[r] + 1 /\ stream' = stream
          /\ handler'[r] = IF EndsReading(stream[r][taken[r] + 1]) THEN "done" ELSE "check"
      BY <1>4, <2>2, <1>t DEF TakeOutput, outVars
    <3>2. \A i \in 1 .. taken[r] : stream[r][i] = Token(i)
      BY <3>1, <1>k
    <3>3. taken'[r] <= Len(stream'[r]) /\ taken'[r] > 0
      BY <3>1, <1>t, <1>g
    <3>4. CASE EndsReading(stream[r][taken[r] + 1])
      <4>1. handler'[r] = "done" /\ next = taken[r]
        BY <3>1, <3>4, <1>t
      <4> QED BY <3>1, <3>2, <3>3, <3>4, <4>1
    <3>5. CASE ~EndsReading(stream[r][taken[r] + 1])
      <4>1. handler'[r] # "done" /\ next = taken[r] + 1
        BY <3>1, <3>5, <1>t
      <4>2. taken[r] + 1 \in DOMAIN stream[r]
        BY <3>1, <1>t, <1>g
      <4>3. ItemShape(r, taken[r] + 1)
        BY <4>2 DEF EngineInv, StreamInv, StreamShape
      <4>4. stream[r][taken[r] + 1] = Token(taken[r] + 1)
        BY <3>5, <4>3 DEF ItemShape, IsLast, EndsReading
      <4>5. \A i \in 1 .. taken[r] + 1 : i \in 1 .. taken[r] \/ i = taken[r] + 1
        BY <1>t
      <4>6. \A i \in 1 .. next : stream'[r][i] = Token(i)
        BY <3>1, <3>2, <4>1, <4>4, <4>5
      <4> QED BY <3>3, <4>1, <4>6
    <3> QED BY <3>4, <3>5
  <2> QED BY <2>1, <2>2
<1> QED BY <1>1, <1>2, <1>3, <1>4, <1>t, StepKinds

LEMMA EngineInvInit == EngineInit => EngineInv
<1> SUFFICES ASSUME EngineInit PROVE EngineInv
  OBVIOUS
<1>1. Init /\ AbortsAllowed
  BY DEF EngineInit, AbortsAllowed
<1>2. LifeInv /\ ReturnKnown
  BY <1>1, TypeInit, QueueOrderInit, LifeInit, ReturnInit DEF LifeInv
<1>e. /\ \A S : << >> \in Seq(S)
      /\ Range(<< >>) = {} /\ DOMAIN << >> = {} /\ Len(<< >>) = 0 /\ IsInjective(<< >>)
  BY EmptySeq DEF Range, IsInjective
<1>3. StreamTypes /\ PhaseOrder
  BY <1>e DEF EngineInit, Init, StreamTypes, PhaseOrder
<1>4. Submitted
  <2>1. \A r \in Requests : r > 0 + 0
    BY SchedulerAssumption DEF Requests
  <2> QED BY <1>e, <2>1 DEF EngineInit, Init, Submitted
<1>5. \A r \in Requests : ~Unsent(r)
  BY <1>e DEF EngineInit, Init, Unsent, Sampled
<1>6. QueueLasts /\ DeltasKnown /\ TokensCounted
  BY <1>e, <1>5 DEF EngineInit, Init, QueueLasts, DeltasKnown, TokensCounted
<1>7. StreamShape /\ EndingKnown
  BY <1>e DEF EngineInit, StreamShape, EndingKnown
<1>8. ReadersKnown
  <2>1. \A i \in 1 .. 0 : FALSE
    OBVIOUS
  <2> QED BY <1>e, <2>1 DEF EngineInit, ReadersKnown
<1> QED BY <1>1, <1>2, <1>3, <1>4, <1>6, <1>7, <1>8 DEF EngineInv, StreamInv

LEMMA EngineInvNext == EngineInv /\ [EngineNext]_engineVars => EngineInv'
<1> SUFFICES ASSUME EngineInv, [EngineNext]_engineVars PROVE EngineInv'
  OBVIOUS
<1>1. LifeInv' /\ ReturnKnown' /\ AbortsAllowed'
  BY EngineStepIsStep, LifeNext, ReturnKnownNext, StepKeepsAborts DEF EngineInv
<1>2. StreamTypes' /\ PhaseOrder'
  BY StreamTypesNext, PhaseOrderNext DEF EngineInv, StreamInv
<1>3. Submitted' /\ QueueLasts' /\ DeltasKnown' /\ TokensCounted'
  BY SubmittedNext, QueueLastsNext, DeltasKnownNext, TokensCountedNext
<1>4. StreamShape' /\ EndingKnown' /\ ReadersKnown'
  BY StreamShapeNext, EndingKnownNext, ReadersKnownNext
<1> QED BY <1>1, <1>2, <1>3, <1>4 DEF EngineInv, StreamInv

LEMMA EngineCorrect == EngineSpec => []EngineInv
BY EngineInvInit, EngineInvNext, PTL DEF EngineSpec

-----------------------------------------------------------------------------
(* What the readers get.                                                   *)

\* A handler that has read to the end has every token of its request, and the
\* reason for its end: the item that ended the reading is the marked last token,
\* for the sentinel behind it is only read by who has overlooked the mark.  Not
\* so of a request that step() gave up on for want of a block: its stream ends
\* with a bare sentinel, see EndIsMarked.
THEOREM AnswersAreComplete == EngineSpec => [](NobodyStarves => AnswerIsComplete)
<1>1. EngineInv /\ NobodyStarves => AnswerIsComplete
  <2> SUFFICES ASSUME EngineInv, NobodyStarves, NEW r \in Requests, handler[r] = "done"
               PROVE  /\ status[r] = "finished"
                      /\ taken[r] = num_output_tokens[r]
                      /\ Answer(r) = finish_reason[r]
    BY DEF AnswerIsComplete
  <2> DEFINE k == taken[r]
  <2>t. /\ k \in Nat /\ Len(stream[r]) \in Nat /\ DOMAIN stream[r] = 1 .. Len(stream[r])
    BY DEF EngineInv, StreamInv, StreamTypes
  <2>1. /\ k <= Len(stream[r]) /\ k > 0 /\ EndsReading(stream[r][k])
        /\ \A i \in 1 .. k - 1 : stream[r][i] = Token(i)
    BY DEF EngineInv, StreamInv, ReadersKnown
  <2>2. k \in DOMAIN stream[r]
    BY <2>1, <2>t
  <2>3. ItemShape(r, k)
    BY <2>2 DEF EngineInv, StreamInv, StreamShape
  <2>4. stream[r][k] # Token(k)
    <3>1. Token(k) # Sentinel /\ ~Token(k).is_finished
      BY OutputsDiffer DEF Token
    <3> QED BY <2>1, <3>1 DEF EndsReading
  <2>5. ~(k > 1 /\ IsLast(r, k - 1))
    <3> SUFFICES ASSUME k > 1, IsLast(r, k - 1) PROVE FALSE
      OBVIOUS
    <3>1. k - 1 \in 1 .. k - 1
      BY <2>t
    <3>2. stream[r][k - 1] = Token(k - 1)
      BY <2>1, <3>1
    <3> QED BY <3>2 DEF IsLast, Token
  <2>6. IsLast(r, k)
    BY <2>3, <2>4, <2>5 DEF ItemShape, NobodyStarves
  <2>7. stream[r][k] # Sentinel /\ stream[r][k].finish_reason = finish_reason[r]
    BY <2>6, OutputsDiffer DEF IsLast
  <2> QED BY <2>6, <2>7 DEF IsLast, Answer
<1> QED BY <1>1, EngineCorrect, PTL

\* Every push is the next token of a stream that is still open, and a stream is
\* closed right after its last token.
LEMMA StreamStepRefines ==
  EngineInv /\ NobodyStarves /\ [EngineNext]_engineVars => [Streams!StreamNext]_stream
<1> SUFFICES ASSUME EngineInv, NobodyStarves, [EngineNext]_engineVars
             PROVE  [Streams!StreamNext]_stream
  OBVIOUS
<1>t. StreamTypes /\ AbortsAllowed /\ PhaseOrder /\ TypeOK
  BY DEF EngineInv, StreamInv, LifeInv
<1>1. CASE Quiet \/ Turn \/ Return \/ \E q \in Requests : Submit(q) \/ TakeOutput(q)
  BY <1>1 DEF Quiet, Turn, Return, Submit, TakeOutput, outVars
<1>2. CASE PushDelta
  <2> PICK q \in Requests : q = Head(deltas)
    BY <1>2, <1>t, HeadOnce DEF PushDelta, StreamTypes
  <2> DEFINE n == Len(stream[q])
  <2>1. /\ stream' = [stream EXCEPT ![q] = @ \o <<OutputOf(q)>>] /\ q \in registered
        /\ n + 1 = num_output_tokens[q]
        /\ status[q] = "finished" => finish_reason[q] \in OwnReasons
    BY <1>2, PushFacts
  <2>2. OutputOf(q) \in Items
    BY <1>t, OutputIsItem
  <2>3. /\ stream' = [stream EXCEPT ![q] = Append(stream[q], OutputOf(q))]
        /\ DOMAIN stream[q] = 1 .. n /\ n \in Nat
    BY <2>1, <2>2, <1>t, OneMoreItem
  <2>4. stream[q] = << >> \/ stream[q][n] = Token(n)
    <3> SUFFICES ASSUME stream[q] # << >> PROVE stream[q][n] = Token(n)
      OBVIOUS
    <3>1. n \in DOMAIN stream[q]
      BY <2>3, <1>t, EmptySeq DEF StreamTypes
    <3>2. ItemShape(q, n)
      BY <3>1 DEF EngineInv, StreamInv, StreamShape
    <3>3. ~IsLast(q, n)
      BY <2>1, <2>3 DEF IsLast
    <3> QED BY <3>2, <3>3, <2>1 DEF ItemShape
  <2>5. ~Streams!Closed(q) /\ ~Streams!Complete(q)
    <3>1. Token(n) # Sentinel /\ ~Token(n).is_finished
      BY OutputsDiffer DEF Token
    <3> QED BY <2>4, <3>1 DEF Streams!Closed, Streams!Complete
  <2>6. CASE status[q] = "finished"
    <3>1. OutputOf(q) = Streams!Output(n + 1, TRUE, finish_reason[q])
      BY <2>1, <2>6 DEF OutputOf, IsFinal, Streams!Output
    <3>2. Streams!Extend(q, Streams!Output(n + 1, TRUE, finish_reason[q]))
      BY <2>3, <3>1 DEF Streams!Extend
    <3>3. finish_reason[q] \in {"stop", "length"}
      BY <2>1, <2>6 DEF OwnReasons
    <3> QED BY <2>5, <3>2, <3>3 DEF Streams!NextToken, Streams!StreamNext
  <2>7. CASE status[q] # "finished"
    <3>1. finish_reason[q] = "none"
      BY <2>7 DEF EngineInv, ReturnKnown
    <3>2. (status[q] = "finished") = FALSE
      BY <2>7
    <3>3. OutputOf(q) = Streams!Output(n + 1, FALSE, "none")
      BY <2>1, <3>1, <3>2 DEF OutputOf, IsFinal, Streams!Output
    <3>4. Streams!Extend(q, Streams!Output(n + 1, FALSE, "none"))
      BY <2>3, <3>3 DEF Streams!Extend
    <3> QED BY <2>5, <3>4 DEF Streams!NextToken, Streams!StreamNext
  <2> QED BY <2>6, <2>7
<1>3. CASE EndStream
  <2> PICK q \in Requests : q = Head(ending)
    BY <1>3, <1>t, HeadOnce DEF EndStream, StreamTypes
  <2> DEFINE n == Len(stream[q])
  <2>1. /\ \/ Starved(q)
           \/ num_output_tokens[q] \in DOMAIN stream[q] /\ IsLast(q, num_output_tokens[q])
        /\ q \notin registered => stream' = stream
        /\ q \in registered => /\ stream' = [stream EXCEPT ![q] = @ \o <<Sentinel>>]
                               /\ num_output_tokens[q] = n
    BY <1>3, EndFacts
  <2>2. CASE q \in registered
    <3>1. n \in DOMAIN stream[q] /\ IsLast(q, n)
      BY <2>1, <2>2 DEF NobodyStarves
    <3>2. stream[q][n] # Sentinel /\ stream[q][n].is_finished /\ stream[q] # << >>
      <4>1. stream[q][n] # Sentinel /\ stream[q][n].is_finished
        BY <3>1, OutputsDiffer DEF IsLast
      <4>2. stream[q] # << >>
        BY <3>1, EmptySeq
      <4> QED BY <4>1, <4>2
    <3>3. Streams!Complete(q)
      BY <3>2 DEF Streams!Complete, Streams!Closed
    <3>4. Sentinel \in Items
      BY DEF Items
    <3>5. stream' = [stream EXCEPT ![q] = Append(stream[q], Sentinel)]
      BY <2>1, <2>2, <3>4, <1>t, OneMoreItem
    <3> QED BY <3>3, <3>5 DEF Streams!Extend, Streams!Close, Streams!StreamNext
  <2>3. CASE q \notin registered
    BY <2>1, <2>3
  <2> QED BY <2>2, <2>3
<1> QED BY <1>1, <1>2, <1>3, <1>t, StepKinds

\* As long as step() gives up on nobody, every queue is a ClientStream: the
\* tokens one by one, the last of them marked, then the sentinel and no more.
THEOREM StreamsAreKept == EngineSpec /\ []NobodyStarves => ImplementsClientStream
<1>1. EngineInit => Streams!StreamInit
  BY DEF EngineInit, Streams!StreamInit
<1> QED
  BY <1>1, EngineCorrect, StreamStepRefines, PTL
     DEF EngineSpec, ImplementsClientStream, Streams!StreamSpec

\* With a pool that is large enough no stream is cut short: every answer is
\* complete, and every queue is a ClientStream.
THEOREM LargePoolKeepsStreams ==
  ASSUME EnoughBlocks PROVE EngineSpec => []AnswerIsComplete /\ ImplementsClientStream
<1>1. EngineSpec => []NobodyStarves
  BY EngineDrivesScheduler, EnoughIsEnough, PTL
<1> QED BY <1>1, AnswersAreComplete, StreamsAreKept, PTL

=============================================================================
