---------------------------- MODULE ClientStream ----------------------------
(***************************************************************************)
(* What the engine promises to the reader of a request's output queue: the *)
(* generated tokens one by one and in order, the last of them marked as    *)
(* final, then the sentinel, then nothing.                                 *)
(***************************************************************************)
EXTENDS Naturals, Sequences

CONSTANTS
  Readers,    \* the requests, each with a queue and one reader
  Reasons,    \* why a stream may end
  Sentinel    \* the end of a queue, unlike any output

VARIABLE stream    \* all that was ever put in the queue of a reader

StreamInit == stream = [r \in Readers |-> << >>]

Output(n, is_finished, finish_reason) ==
  [n |-> n, is_finished |-> is_finished, finish_reason |-> finish_reason]

Extend(r, item) == stream' = [stream EXCEPT ![r] = Append(stream[r], item)]

Closed(r) == stream[r] # << >> /\ stream[r][Len(stream[r])] = Sentinel
Complete(r) ==
  stream[r] # << >> /\ ~Closed(r) /\ stream[r][Len(stream[r])].is_finished

NextToken(r) ==
  /\ ~Closed(r) /\ ~Complete(r)
  /\ \/ Extend(r, Output(Len(stream[r]) + 1, FALSE, "none"))
     \/ \E why \in Reasons : Extend(r, Output(Len(stream[r]) + 1, TRUE, why))

Close(r) == Complete(r) /\ Extend(r, Sentinel)

StreamNext == \E r \in Readers : NextToken(r) \/ Close(r)

StreamSpec == StreamInit /\ [][StreamNext]_stream

=============================================================================
