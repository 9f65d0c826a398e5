------------------------------- MODULE Engine -------------------------------
(***************************************************************************)
(* nanoserve/engine/engine.py and the chat handler of api/server.py: the   *)
(* engine thread, the handlers on the asyncio loop, and what they share.   *)
(*                                                                         *)
(* A handler submits its request and then reads its queue until the end or *)
(* until it notices that its client is gone.  The engine thread drains the *)
(* add queue, then the abort queue, runs an iteration of the Scheduler, and*)
(* pushes what was sampled.  The two run at their own pace.                *)
(*                                                                         *)
(* call_soon_threadsafe(put_nowait) runs in order and before the reader    *)
(* can see the item, so a push appends to the queue directly: a callback   *)
(* that is late looks like a reader that is slow.  The text of an item is  *)
(* abstracted to the number of tokens generated so far.                    *)
(***************************************************************************)
EXTENDS Scheduler

VARIABLES
  phase,        \* where the engine thread stands in _engine_loop
  deltas,       \* sampled requests whose output is still to be pushed
  ending,       \* finished requests whose stream is still to be ended
  add_q,        \* InferenceEngine._add_q
  abort_q,      \* InferenceEngine._abort_q
  stop,         \* InferenceEngine._stop, the flag that the server sets last
  registered,   \* the keys of InferenceEngine._output_qs and _loops
  stream,       \* per request, all that was ever put in its out_q
  taken,        \* per request, how much of that its handler has read
  handler,      \* where the handler of a request stands
  gone          \* the requests whose client has disconnected

loopVars    == <<phase, deltas, ending>>
queues      == <<add_q, abort_q>>
outVars     == <<stop, registered, stream>>
handlerVars == <<taken, handler, gone>>
engineVars  == <<vars, loopVars, queues, outVars, handlerVars>>

Sentinel == [sentinel |-> TRUE]    \* None, the end of a stream

EngineInit ==
  /\ Init
  /\ phase = "head" /\ deltas = << >> /\ ending = << >>
  /\ add_q = << >> /\ abort_q = << >>
  /\ stop = FALSE
  /\ registered = {}
  /\ stream = [r \in Requests |-> << >>]
  /\ taken = [r \in Requests |-> 0]
  /\ handler = [r \in Requests |-> "absent"]
  /\ gone = {}

-----------------------------------------------------------------------------
(* The chat handler, one per request.                                      *)

\* Longer prompts are answered with an error and never reach the engine.
Accepted(r) == NumPromptTokens(r) < MaxModelLen

\* Requests are numbered in the order in which they are submitted; a prompt
\* that is not accepted has no number, so Params has none.
Submit(r) ==
  /\ handler[r] = "absent"
  /\ \A q \in 1 .. r - 1 : handler[q] # "absent"
  /\ Accepted(r)
  /\ ~stop
  /\ registered' = registered \cup {r}
  /\ add_q' = Append(add_q, r)
  /\ handler' = [handler EXCEPT ![r] = "check"]
  /\ UNCHANGED <<vars, loopVars, abort_q, stop, stream, taken, gone>>

\* The client goes away; the handler does not know yet.
Disconnect(r) ==
  /\ handler[r] \in {"check", "get"}
  /\ r \notin gone
  /\ gone' = gone \cup {r}
  /\ UNCHANGED <<vars, loopVars, queues, outVars, taken, handler>>

CheckConnection(r) ==
  /\ handler[r] = "check"
  /\ IF r \in gone
     THEN /\ abort_q' = Append(abort_q, r)
          /\ handler' = [handler EXCEPT ![r] = "left"]
     ELSE /\ handler' = [handler EXCEPT ![r] = "get"]
          /\ UNCHANGED abort_q
  /\ UNCHANGED <<vars, loopVars, add_q, outVars, taken, gone>>

\* Defect: the handler also goes on after the item that is marked final.
EndsOnSentinel(item) == item = Sentinel
EndsReading(item) == IF item = Sentinel THEN TRUE ELSE item.is_finished

\* await out_q.get() returns once there is something to read.
TakeOutput(r) ==
  /\ handler[r] = "get"
  /\ taken[r] < Len(stream[r])
  /\ taken' = [taken EXCEPT ![r] = @ + 1]
  /\ handler' = [handler EXCEPT ![r] =
       IF EndsReading(stream[r][taken[r] + 1]) THEN "done" ELSE "check"]
  /\ UNCHANGED <<vars, loopVars, queues, outVars, gone>>

HandlerTurn(r) == CheckConnection(r) \/ TakeOutput(r)

\* The web server returns once all its handlers have ended, and takes no more
\* requests; then main() stops the engine.
Stop ==
  /\ ~stop
  /\ \A r \in Requests : handler[r] \in {"absent", "done", "left"}
  /\ stop' = TRUE
  /\ UNCHANGED <<vars, loopVars, queues, registered, stream, handlerVars>>

-----------------------------------------------------------------------------
(* The engine thread, up to the scheduler.                                 *)

\* Defect: an idle loop never looks at the flag.
ContinuesIfIdle == ~stop \/ ~HasUnfinishedRequests
Continues == ~stop

\* The flag is looked at between two passes through the loop, nowhere else.
LoopHead ==
  /\ phase = "head"
  /\ phase' = IF Continues THEN "adds" ELSE "exited"
  /\ UNCHANGED <<vars, deltas, ending, queues, outVars, handlerVars>>

DrainAdd ==
  /\ phase = "adds" /\ add_q # << >>
  /\ AddRequest
  /\ add_q' = Tail(add_q)
  /\ UNCHANGED <<loopVars, abort_q, outVars, handlerVars>>

AddsDrained ==
  /\ phase = "adds" /\ add_q = << >>
  /\ phase' = "aborts"
  /\ UNCHANGED <<vars, deltas, ending, queues, outVars, handlerVars>>

\* The scheduler ignores the abort of a request that it does not have.
DrainAbort ==
  /\ phase = "aborts" /\ abort_q # << >>
  /\ IF Head(abort_q) \in Range(waiting) \cup Range(running)
     THEN AbortRequest(Head(abort_q))
     ELSE UNCHANGED vars
  /\ abort_q' = Tail(abort_q)
  /\ UNCHANGED <<loopVars, add_q, outVars, handlerVars>>

\* Defect: the loop goes to sleep as soon as nobody waits for admission.
WorkIfWaiting == waiting # << >>
HasWork == HasUnfinishedRequests

AbortsDrained ==
  /\ phase = "aborts" /\ abort_q = << >>
  /\ phase' = IF HasWork THEN "step" ELSE "head"
  /\ UNCHANGED <<vars, deltas, ending, queues, outVars, handlerVars>>

\* The requests that were sampled for, in the order of the batch.
SampledRequests ==
  LET entries == Without(batch_entries, {e \in Range(batch_entries) : ~e.samples})
  IN  [i \in DOMAIN entries |-> entries[i].req]

\* step(), the forward pass and update_with_sampled(), turn by turn; without a
\* batch the loop starts over.
SchedulerTurn ==
  /\ phase = "step"
  /\ EngineThread
  /\ IF pc = "free" /\ pc' = "idle"
     THEN phase' = "push" /\ deltas' = SampledRequests /\ ending' = AllFinished
     ELSE /\ phase' = IF pc' = "idle" THEN "head" ELSE "step"
          /\ UNCHANGED <<deltas, ending>>
  /\ UNCHANGED <<queues, outVars, handlerVars>>

-----------------------------------------------------------------------------
(* The engine thread, after the scheduler: outputs and ends of streams.    *)

\* Defect: an end at a length limit is not marked.
FinalIfStopped(r) == finish_reason[r] = "stop"
IsFinal(r) == status[r] = "finished"

OutputOf(r) ==
  [n |-> num_output_tokens[r], is_finished |-> IsFinal(r),
   finish_reason |-> finish_reason[r]]

\* _push and _push_sentinel, for a request that may have no queue any more.
Put(r, items) ==
  stream' = IF r \in registered THEN [stream EXCEPT ![r] = @ \o items] ELSE stream

PushDelta ==
  /\ phase = "push" /\ deltas # << >>
  /\ Put(Head(deltas), <<OutputOf(Head(deltas))>>)
  /\ deltas' = Tail(deltas)
  /\ UNCHANGED <<vars, phase, ending, queues, stop, registered, handlerVars>>

DeltasPushed ==
  /\ phase = "push" /\ deltas = << >>
  /\ phase' = "end"
  /\ UNCHANGED <<vars, deltas, ending, queues, outVars, handlerVars>>

\* A marker of its own only for an abort before the first token.
FinalItems(r) ==
  IF finish_reason[r] = "abort" /\ num_output_tokens[r] = 0
  THEN <<OutputOf(r), Sentinel>>
  ELSE <<Sentinel>>

\* Defect: the entries of the request stay in the registry.
KeepEntries(r) == registered
Unregister(r) == registered \ {r}

EndStream ==
  /\ phase = "end" /\ ending # << >>
  /\ Put(Head(ending), FinalItems(Head(ending)))
  /\ registered' = Unregister(Head(ending))
  /\ ending' = Tail(ending)
  /\ UNCHANGED <<vars, phase, deltas, queues, stop, handlerVars>>

StreamsEnded ==
  /\ phase = "end" /\ ending = << >>
  /\ phase' = "head"
  /\ UNCHANGED <<vars, deltas, ending, queues, outVars, handlerVars>>

EngineLoop ==
  \/ LoopHead
  \/ DrainAdd \/ AddsDrained \/ DrainAbort \/ AbortsDrained
  \/ SchedulerTurn
  \/ PushDelta \/ DeltasPushed \/ EndStream \/ StreamsEnded

\* The thread is gone, and with it the process.
Exited == phase = "exited" /\ UNCHANGED engineVars

EngineNext ==
  \/ \E r \in Requests : Submit(r) \/ HandlerTurn(r)
  \/ \E r \in Abortable : Disconnect(r)
  \/ Stop
  \/ EngineLoop
  \/ Exited

EngineSpec == EngineInit /\ [][EngineNext]_engineVars

\* The engine thread and the asyncio loop both keep running; clients come and
\* go as they like.
FairEngineSpec ==
  EngineSpec /\ WF_engineVars(EngineLoop) /\ \A r \in Requests : WF_engineVars(HandlerTurn(r))

-----------------------------------------------------------------------------
(* Properties.                                                             *)

Streams == INSTANCE ClientStream
             WITH Readers <- Requests, Reasons <- {"stop", "length"}

\* As long as blocks do not run out, every reader gets what ClientStream says:
\* no token is lost, repeated or out of order between the sampler and the
\* queue, the last one is marked, and nothing follows the sentinel.
ImplementsClientStream == Streams!StreamSpec

\* The reason that the handler puts in its answer ("stop" unless told).
Answer(r) ==
  IF stream[r][taken[r]] = Sentinel THEN "stop" ELSE stream[r][taken[r]].finish_reason

\* A handler that has read to the end has read every token generated for its
\* request, which has finished, and answers with the reason for that.
AnswerIsComplete ==
  \A r \in Requests :
    handler[r] = "done" =>
      /\ status[r] = "finished"
      /\ taken[r] = num_output_tokens[r]
      /\ Answer(r) = finish_reason[r]

\* Every handler comes to an end, whoever else leaves or is aborted.
EveryReaderEnds ==
  \A r \in Requests : handler[r] = "check" ~> handler[r] \in {"done", "left"}

\* engine.py:313-314, "avoids a per-request leak": the entries of a request
\* whose client stays are removed sometime.
RegistryIsCleared ==
  \A r \in Requests \ Abortable : r \in registered ~> r \notin registered

\* engine.py:109-113, stop() joins the thread: whatever the loop is doing when
\* the flag is set, drained requests, a batch or an idle wait, it comes back to
\* the head of the loop and ends, and by then every stream that has been given
\* its last output has also been ended and its entries removed.
StopEndsTheThread ==
  /\ stop ~> phase = "exited"
  /\ [](phase = "exited" => \A r \in reported : r \notin registered)

(* Claims of the docs and comments that the code does not keep.            *)

\* README.md:233-235, disconnects "trigger `engine.abort_request`, which frees
\* the request's blocks": a request whose abort was taken from the queue does
\* not run any more.
AbortsTakeEffect ==
  \A r \in Requests :
    handler[r] = "left" /\ r \notin Range(abort_q) => status[r] = "finished"

\* engine.py:276-277, "For requests finished without sampling this step (e.g.
\* aborted), also emit a final marker": no stream ends without one.
EndIsMarked ==
  \A r \in Requests : \A i \in DOMAIN stream[r] :
    stream[r][i] = Sentinel =>
      \E j \in 1 .. i - 1 : stream[r][j] # Sentinel /\ stream[r][j].is_finished

=============================================================================
