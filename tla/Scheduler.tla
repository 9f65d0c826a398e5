------------------------------ MODULE Scheduler ------------------------------
(***************************************************************************)
(* nanoserve/scheduler/scheduler.py: iteration-level continuous batching.  *)
(*                                                                         *)
(* The scheduler is driven by one thread, the engine loop, which calls     *)
(* add_request and abort_request between iterations, then step(), the      *)
(* forward pass, and update_with_sampled().  Each loop of step() and of    *)
(* update_with_sampled() is unrolled: one action is one turn of the loop,  *)
(* and pc says where the thread stands.  The turns of a call follow each   *)
(* other with nothing in between, because requests arrive and are aborted  *)
(* only while pc = "idle".                                                 *)
(*                                                                         *)
(* Requests are numbered by arrival.  The tokens of a request are          *)
(* abstracted to how many there are; a sampled token is kept only as far   *)
(* as the stop conditions look at it.                                      *)
(***************************************************************************)
EXTENDS Integers, Sequences, FiniteSets, Functions, BlockAllocator

CONSTANTS
  NumRequests,          \* how many requests ever arrive (bound of the workload)
  Params,               \* what a request may ask for, see ParamType
  Tokens,               \* the vocabulary
  EosTokenIds,          \* Scheduler.eos_token_ids
  Abortable,            \* the requests whose client may abort them
  BlockSize,            \* cache.block_size
  MaxNumSeqs,           \* SchedulerConfig.max_num_seqs
  MaxNumBatchedTokens,  \* SchedulerConfig.max_num_batched_tokens
  MaxModelLen,          \* SchedulerConfig.max_model_len
  ChunkedPrefillSize    \* SchedulerConfig.chunked_prefill_size

Requests == 1 .. NumRequests

\* The length of the prompt and the SamplingParams that the scheduler reads.
ParamType == [prompt : Nat, max_tokens : Int, ignore_eos : BOOLEAN,
              stop_token_ids : SUBSET Tokens]

ASSUME SchedulerAssumption ==
  /\ NumRequests \in Nat
  /\ Params \subseteq ParamType
  /\ EosTokenIds \subseteq Tokens
  /\ Abortable \subseteq Requests
  /\ BlockSize \in Nat \ {0}
  /\ MaxNumSeqs \in Nat
  /\ MaxNumBatchedTokens \in Nat
  /\ MaxModelLen \in Nat
  /\ ChunkedPrefillSize \in Nat

VARIABLES
  params,               \* prompt length and sampling parameters of each request
  arrived,              \* how many requests have been added so far
  waiting,              \* Scheduler.waiting, a deque
  running,              \* Scheduler.running, a list
  finished_this_step,   \* Scheduler.finished_this_step, a list
  status,               \* Request.status
  finish_reason,        \* Request.finish_reason
  block_table,          \* Request.block_table
  num_computed_tokens,  \* Request.num_computed_tokens
  num_output_tokens,    \* len(Request.output_token_ids)
  pc,                   \* which loop of which call the engine thread is in
  at,                   \* the position of that loop in the list it walks
  token_budget,         \* local of step()
  per_req_chunk,        \* local of step(); 0 where the dict has no entry
  batch_entries,        \* the SchedulerOutput: one entry per batched request
  finished,             \* local of update_with_sampled()
  reported              \* the requests update_with_sampled() has ever returned

requestVars == <<status, finish_reason, num_computed_tokens, num_output_tokens>>
queueVars   == <<arrived, waiting, running, finished_this_step>>
blockVars   == <<free, block_table>>
localVars   == <<token_budget, per_req_chunk, batch_entries, finished>>
vars == <<params, requestVars, queueVars, blockVars, localVars, pc, at, reported>>

NumPromptTokens(r) == params[r].prompt
IsPromptDone(r) == num_computed_tokens[r] >= NumPromptTokens(r)
TotalTokens(r) == NumPromptTokens(r) + num_output_tokens[r]

CeilDiv(a, b) == (a + b - 1) \div b
Least(a, b) == IF a <= b THEN a ELSE b
Greatest(a, b) == IF a >= b THEN a ELSE b

PromptTokensRemaining(r) == Greatest(0, NumPromptTokens(r) - num_computed_tokens[r])

\* One request becomes FINISHED for the given reason.
Finish(r, reason) ==
  /\ status' = [status EXCEPT ![r] = "finished"]
  /\ finish_reason' = [finish_reason EXCEPT ![r] = reason]

NoChunks == [r \in Requests |-> 0]

Init ==
  /\ AllocatorInit
  /\ params \in [Requests -> Params]
  /\ arrived = 0
  /\ waiting = << >> /\ running = << >> /\ finished_this_step = << >>
  /\ status = [r \in Requests |-> "waiting"]
  /\ finish_reason = [r \in Requests |-> "none"]
  /\ block_table = [r \in Requests |-> << >>]
  /\ num_computed_tokens = [r \in Requests |-> 0]
  /\ num_output_tokens = [r \in Requests |-> 0]
  /\ pc = "idle" /\ at = 1
  /\ token_budget = 0 /\ per_req_chunk = NoChunks
  /\ batch_entries = << >> /\ finished = << >>
  /\ reported = {}

-----------------------------------------------------------------------------
(* add_request and abort_request, called by the engine loop between steps. *)

AddRequest ==
  /\ pc = "idle"
  /\ arrived < NumRequests
  /\ arrived' = arrived + 1
  /\ waiting' = Append(waiting, arrived + 1)
  /\ UNCHANGED <<params, requestVars, running, finished_this_step, blockVars,
                 localVars, pc, at, reported>>

AbortWaiting(r) ==
  /\ pc = "idle"
  /\ r \in Range(waiting)
  /\ waiting' = Without(waiting, {r})
  /\ Finish(r, "abort")
  /\ finished_this_step' = Append(finished_this_step, r)
  /\ UNCHANGED <<params, arrived, running, num_computed_tokens, num_output_tokens,
                 blockVars, localVars, pc, at, reported>>

\* A running request is only marked; the next step() drops it from the list.
AbortRunning(r) ==
  /\ pc = "idle"
  /\ r \notin Range(waiting)
  /\ r \in Range(running)
  /\ Finish(r, "abort")
  /\ UNCHANGED <<params, queueVars, num_computed_tokens, num_output_tokens,
                 blockVars, localVars, pc, at, reported>>

AbortRequest(r) == AbortWaiting(r) \/ AbortRunning(r)

-----------------------------------------------------------------------------
(* step(), part 1: plan how many tokens each running request contributes.  *)

HasUnfinishedRequests == waiting # << >> \/ running # << >>

DecodingRunning == {i \in DOMAIN running : IsPromptDone(running[i])}

\* Defect: every running request is taken for a decoding one.
BudgetLessAllRunning == Greatest(0, MaxNumBatchedTokens - Len(running))
\* Defect: the decoding requests are not counted against the budget.
BudgetIgnoringDecodes == MaxNumBatchedTokens

StepBudget == Greatest(0, MaxNumBatchedTokens - Cardinality(DecodingRunning))

StepBegin ==
  /\ pc = "idle"
  /\ HasUnfinishedRequests
  /\ finished_this_step' = << >>
  /\ token_budget' = StepBudget
  /\ per_req_chunk' = NoChunks
  /\ pc' = "plan" /\ at' = 1
  /\ UNCHANGED <<params, requestVars, arrived, waiting, running, blockVars,
                 batch_entries, finished, reported>>

\* With nothing to do the loop sleeps and looks at its queues again.
Sleep ==
  /\ pc = "idle"
  /\ ~HasUnfinishedRequests
  /\ UNCHANGED vars

\* Defect: a chunk that does not fit is put off, and a younger one may overtake it.
WholeChunkOrNothing(r) ==
  LET chunk == Least(PromptTokensRemaining(r), ChunkedPrefillSize)
  IN  IF chunk <= token_budget THEN chunk ELSE 0

\* A decoding request has no prompt token left, so its chunk is 0.
PlannedChunk(r) == Least(PromptTokensRemaining(r), Least(ChunkedPrefillSize, token_budget))

PlanChunk ==
  /\ pc = "plan" /\ at <= Len(running)
  /\ LET r == running[at]
     IN  /\ per_req_chunk' = [per_req_chunk EXCEPT ![r] = PlannedChunk(r)]
         /\ token_budget' = token_budget - PlannedChunk(r)
  /\ at' = at + 1
  /\ UNCHANGED <<params, requestVars, queueVars, blockVars, batch_entries,
                 finished, pc, reported>>

EndPlan ==
  /\ pc = "plan" /\ at > Len(running)
  /\ pc' = "admit"
  /\ UNCHANGED <<params, requestVars, queueVars, blockVars, localVars, at, reported>>

-----------------------------------------------------------------------------
(* step(), part 2: admit waiting requests from the head of the queue.      *)

MayAdmit ==
  /\ waiting # << >>
  /\ Len(running) < MaxNumSeqs
  /\ token_budget > 0

\* Defect: the last of the queue goes first.
LastWaiting == waiting[Len(waiting)]
NextWaiting == Head(waiting)

TooLong(r) == NumPromptTokens(r) > MaxModelLen

\* Defect: the partly filled last block of the prompt is forgotten.
FullPromptBlocks(r) == Greatest(1, NumPromptTokens(r) \div BlockSize)
PromptBlocks(r) == Greatest(1, CeilDiv(NumPromptTokens(r), BlockSize))
\* Defect: a new prompt is not held to what is left of the budget.
ChunkBeyondBudget(r) == Least(NumPromptTokens(r), ChunkedPrefillSize)
FirstChunk(r) == Least(NumPromptTokens(r), Least(ChunkedPrefillSize, token_budget))
Admissible(r) == CanAllocate(PromptBlocks(r)) /\ FirstChunk(r) > 0

RejectTooLong ==
  /\ pc = "admit" /\ MayAdmit
  /\ TooLong(NextWaiting)
  /\ waiting' = Tail(waiting)
  /\ Finish(NextWaiting, "length")
  /\ finished_this_step' = Append(finished_this_step, NextWaiting)
  /\ UNCHANGED <<params, arrived, running, num_computed_tokens, num_output_tokens,
                 blockVars, localVars, pc, at, reported>>

Admit ==
  /\ pc = "admit" /\ MayAdmit
  /\ ~TooLong(NextWaiting)
  /\ Admissible(NextWaiting)
  /\ LET r == NextWaiting
     IN  /\ block_table' = [block_table EXCEPT ![r] = Allocated(PromptBlocks(r))]
         /\ TakeBlocks(PromptBlocks(r))
         /\ status' = [status EXCEPT ![r] = "prefilling"]
         /\ running' = Append(running, r)
         /\ per_req_chunk' = [per_req_chunk EXCEPT ![r] = FirstChunk(r)]
         /\ token_budget' = token_budget - FirstChunk(r)
  /\ waiting' = Tail(waiting)
  /\ UNCHANGED <<params, finish_reason, num_computed_tokens, num_output_tokens, arrived,
                 finished_this_step, batch_entries, finished, pc, at, reported>>

\* step() returns None at once when nothing is running.
EndAdmission ==
  /\ pc = "admit"
  /\ MayAdmit => ~TooLong(NextWaiting) /\ ~Admissible(NextWaiting)
  /\ pc' = IF running = << >> THEN "idle" ELSE "entries"
  /\ at' = 1
  /\ UNCHANGED <<params, requestVars, queueVars, blockVars, localVars, reported>>

-----------------------------------------------------------------------------
(* step(), part 3: one batch entry per running request that contributes.   *)

AtEntry == pc = "entries" /\ at <= Len(running)

\* Defect: room for the tokens so far, not for the one about to be written.
BlocksBeforeToken(r) == CeilDiv(num_computed_tokens[r], BlockSize)
\* The number of blocks that the next decoded position needs.
DecodeBlocks(r) == CeilDiv(num_computed_tokens[r] + 1, BlockSize)
Entry(r, n, samples) == [req |-> r, q_len |-> n, samples |-> samples]

\* Defect: a decoding request, which has no chunk, counts as idle.
IdleWithoutChunk(r) == per_req_chunk[r] <= 0
\* A prefilling request that got no share of the budget in this step.
Idles(r) == ~IsPromptDone(r) /\ per_req_chunk[r] <= 0

\* Finished since the last step, or still waiting for a share of the budget.
SkipEntry ==
  /\ AtEntry
  /\ status[running[at]] = "finished" \/ Idles(running[at])
  /\ at' = at + 1
  /\ UNCHANGED <<params, requestVars, queueVars, blockVars, localVars, pc, reported>>

GrowTable ==
  /\ AtEntry
  /\ LET r == running[at]
     IN  /\ status[r] # "finished" /\ IsPromptDone(r)
         /\ DecodeBlocks(r) > Len(block_table[r])
         /\ CanAllocate(1)
         /\ block_table' = [block_table EXCEPT ![r] = @ \o Allocated(1)]
         /\ TakeBlocks(1)
  /\ UNCHANGED <<params, requestVars, queueVars, localVars, pc, at, reported>>

OutOfBlocks ==
  /\ AtEntry
  /\ LET r == running[at]
     IN  /\ status[r] # "finished" /\ IsPromptDone(r)
         /\ DecodeBlocks(r) > Len(block_table[r])
         /\ ~CanAllocate(1)
         /\ Finish(r, "length")
         /\ finished_this_step' = Append(finished_this_step, r)
  /\ at' = at + 1
  /\ UNCHANGED <<params, arrived, waiting, running, num_computed_tokens,
                 num_output_tokens, blockVars, localVars, pc, reported>>

EnterDecode ==
  /\ AtEntry
  /\ LET r == running[at]
     IN  /\ status[r] # "finished" /\ IsPromptDone(r)
         /\ DecodeBlocks(r) <= Len(block_table[r])
         /\ batch_entries' = Append(batch_entries, Entry(r, 1, TRUE))
  /\ at' = at + 1
  /\ UNCHANGED <<params, requestVars, queueVars, blockVars, token_budget,
                 per_req_chunk, finished, pc, reported>>

\* Defect: the chunk that exactly completes the prompt is not sampled from.
PassesPromptEnd(r, n) == num_computed_tokens[r] + n > NumPromptTokens(r)
\* A prefill chunk is sampled from only if it completes the prompt.
CompletesPrompt(r, n) == num_computed_tokens[r] + n >= NumPromptTokens(r)

EnterPrefill ==
  /\ AtEntry
  /\ LET r == running[at]
         n == per_req_chunk[r]
     IN  /\ status[r] # "finished" /\ ~IsPromptDone(r)
         /\ n > 0
         /\ batch_entries' = Append(batch_entries, Entry(r, n, CompletesPrompt(r, n)))
  /\ at' = at + 1
  /\ UNCHANGED <<params, requestVars, queueVars, blockVars, token_budget,
                 per_req_chunk, finished, pc, reported>>

\* Defect: the list is taken over as it is.
KeepRunning == running
StillRunning == Without(running, {r \in Requests : status[r] = "finished"})

\* Drop the finished requests; an empty batch makes step() return None.
EndEntries ==
  /\ pc = "entries" /\ at > Len(running)
  /\ running' = StillRunning
  /\ pc' = IF batch_entries = << >> THEN "idle" ELSE "forward"
  /\ token_budget' = 0 /\ per_req_chunk' = NoChunks /\ at' = 1
  /\ UNCHANGED <<params, requestVars, arrived, waiting, finished_this_step, blockVars,
                 batch_entries, finished, reported>>

-----------------------------------------------------------------------------
(* The forward pass and update_with_sampled().                             *)

\* The engine runs the model and the sampler on the batch; no scheduler
\* state changes until it calls update_with_sampled().
Forward ==
  /\ pc = "forward"
  /\ pc' = "update"
  /\ UNCHANGED <<params, requestVars, queueVars, blockVars, localVars, at, reported>>

\* The query length of r in the batch, 0 if r is not in it.
QueryLen(r) ==
  IF \E i \in DOMAIN batch_entries : batch_entries[i].req = r
  THEN batch_entries[CHOOSE i \in DOMAIN batch_entries : batch_entries[i].req = r].q_len
  ELSE 0

AdvanceComputed ==
  /\ pc = "update"
  /\ num_computed_tokens' = [r \in Requests |-> num_computed_tokens[r] + QueryLen(r)]
  /\ pc' = "sample" /\ at' = 1
  /\ UNCHANGED <<params, status, finish_reason, num_output_tokens, queueVars,
                 blockVars, localVars, reported>>

\* Defect: a request goes on for one token more than either limit.
StopPastLimits(r, tok, n) ==
  IF ~params[r].ignore_eos /\ tok \in EosTokenIds THEN "stop"
  ELSE IF tok \in params[r].stop_token_ids THEN "stop"
  ELSE IF n > params[r].max_tokens THEN "length"
  ELSE IF NumPromptTokens(r) + n > MaxModelLen THEN "length"
  ELSE "none"

\* Why r stops when its output reaches n tokens with tok, or "none".
StopReason(r, tok, n) ==
  IF ~params[r].ignore_eos /\ tok \in EosTokenIds THEN "stop"
  ELSE IF tok \in params[r].stop_token_ids THEN "stop"
  ELSE IF n >= params[r].max_tokens THEN "length"
  ELSE IF NumPromptTokens(r) + n >= MaxModelLen THEN "length"
  ELSE "none"

AppendSampled ==
  /\ pc = "sample" /\ at <= Len(batch_entries)
  /\ batch_entries[at].samples
  /\ \E tok \in Tokens :
       LET r == batch_entries[at].req
           reason == StopReason(r, tok, num_output_tokens[r] + 1)
       IN  /\ num_output_tokens' = [num_output_tokens EXCEPT ![r] = @ + 1]
           /\ IF reason # "none"
              THEN Finish(r, reason) /\ finished' = Append(finished, r)
              ELSE /\ status' = [status EXCEPT ![r] =
                        IF @ = "prefilling" /\ IsPromptDone(r) THEN "decoding" ELSE @]
                   /\ UNCHANGED <<finish_reason, finished>>
  /\ at' = at + 1
  /\ UNCHANGED <<params, num_computed_tokens, queueVars, blockVars, token_budget,
                 per_req_chunk, batch_entries, pc, reported>>

SkipUnsampled ==
  /\ pc = "sample" /\ at <= Len(batch_entries)
  /\ ~batch_entries[at].samples
  /\ at' = at + 1
  /\ UNCHANGED <<params, requestVars, queueVars, blockVars, localVars, pc, reported>>

EndSample ==
  /\ pc = "sample" /\ at > Len(batch_entries)
  /\ pc' = "free" /\ at' = 1
  /\ UNCHANGED <<params, requestVars, queueVars, blockVars, localVars, reported>>

\* Defect: the request keeps the block numbers that went back to the pool.
KeepTable(r) == UNCHANGED block_table
ClearTable(r) == block_table' = [block_table EXCEPT ![r] = << >>]

FreeFinished ==
  /\ pc = "free" /\ at <= Len(finished)
  /\ GiveBack(block_table[finished[at]])
  /\ ClearTable(finished[at])
  /\ at' = at + 1
  /\ UNCHANGED <<params, requestVars, queueVars, localVars, pc, reported>>

\* Defect: what finished in step() hides what finished by sampling.
OnlyFromStep == finished_this_step
AllFinished == finished \o finished_this_step

\* The requests that finished go back to the engine, which ends their streams.
UpdateReturn ==
  /\ pc = "free" /\ at > Len(finished)
  /\ running' = Without(running, Range(AllFinished))
  /\ finished_this_step' = << >>
  /\ reported' = reported \cup Range(AllFinished)
  /\ batch_entries' = << >> /\ finished' = << >>
  /\ pc' = "idle" /\ at' = 1
  /\ UNCHANGED <<params, requestVars, arrived, waiting, blockVars, token_budget,
                 per_req_chunk>>

-----------------------------------------------------------------------------
StepTurn == \/ StepBegin \/ PlanChunk \/ EndPlan
            \/ RejectTooLong \/ Admit \/ EndAdmission
            \/ SkipEntry \/ GrowTable \/ OutOfBlocks \/ EnterDecode \/ EnterPrefill
            \/ EndEntries

UpdateTurn == \/ AdvanceComputed \/ AppendSampled \/ SkipUnsampled \/ EndSample
              \/ FreeFinished \/ UpdateReturn

EngineThread == StepTurn \/ Forward \/ UpdateTurn

Next ==
  \/ AddRequest
  \/ \E r \in Abortable : AbortRequest(r)
  \/ Sleep
  \/ EngineThread

Spec == Init /\ [][Next]_vars

\* The engine loop is a daemon thread that keeps calling step(): it does not
\* stop between two turns.  Nothing is assumed of the clients.
FairSpec == Spec /\ WF_vars(EngineThread)

-----------------------------------------------------------------------------
(* Properties.                                                             *)

Reasons == {"none", "stop", "length", "abort"}
PcValues == {"idle", "plan", "admit", "entries", "forward", "update", "sample", "free"}
EntryType == [req : Requests, q_len : Nat \ {0}, samples : BOOLEAN]

RequestTypes ==
  /\ params \in [Requests -> Params]
  /\ status \in [Requests -> {"waiting", "prefilling", "decoding", "finished"}]
  /\ finish_reason \in [Requests -> Reasons]
  /\ num_computed_tokens \in [Requests -> Nat]
  /\ num_output_tokens \in [Requests -> Nat]

QueueTypes ==
  /\ arrived \in 0 .. NumRequests
  /\ waiting \in Seq(Requests)
  /\ running \in Seq(Requests)
  /\ finished_this_step \in Seq(Requests)

BlockTypes ==
  /\ free \in Seq(Blocks)
  /\ block_table \in [Requests -> Seq(Blocks)]

BatchTypes ==
  /\ token_budget \in Nat
  /\ per_req_chunk \in [Requests -> Nat]
  /\ batch_entries \in Seq(EntryType)
  /\ finished \in Seq(Requests)

\* Every variable keeps its type; in particular the token budget, which the
\* loops of step() only ever subtract from, never goes below zero.
TypeOK ==
  /\ RequestTypes /\ QueueTypes /\ BlockTypes /\ BatchTypes
  /\ pc \in PcValues
  /\ at \in Nat \ {0}
  /\ reported \subseteq Requests

\* A block is on the free list once, or in the table of one request once, and
\* never in both: no two requests write to the same block of the cache, and
\* no block is lost between the lists.
BlockOwnership ==
  /\ IsInjective(free)
  /\ \A r \in Requests : IsInjective(block_table[r])
  /\ \A r \in Requests : Range(block_table[r]) \cap Range(free) = {}
  /\ \A r, q \in Requests : r # q => Range(block_table[r]) \cap Range(block_table[q]) = {}
  /\ Blocks = Range(free) \cup UNION {Range(block_table[r]) : r \in Requests}

\* When step() builds the flat tensors, each position of each entry falls in
\* a block that the request's table has (r.block_table[blk_idx] does not
\* raise, which would end the engine thread).
SlotsInBounds ==
  pc = "forward" =>
    \A i \in DOMAIN batch_entries :
      LET r == batch_entries[i].req
          start == num_computed_tokens[r]
      IN  \A pos \in start .. start + batch_entries[i].q_len - 1 :
            pos \div BlockSize + 1 \in DOMAIN block_table[r]

\* Between iterations, a running request whose prompt is done has computed
\* everything but its last output token: it has one to feed to the next
\* decode (r.output_token_ids[-1]), at the position that step() gives it.
ComputedMatchesEmitted ==
  pc = "idle" =>
    \A r \in Range(running) :
      IF IsPromptDone(r) THEN num_computed_tokens[r] = TotalTokens(r) - 1
                         ELSE num_output_tokens[r] = 0

\* A batch never has more tokens than max_num_batched_tokens, decodes
\* included.  The code calls this a soft target that decoders may exceed.
BatchWithinBudget ==
  pc = "forward" =>
    SumFunction([i \in DOMAIN batch_entries |-> batch_entries[i].q_len])
      <= MaxNumBatchedTokens

\* First come, first served: the running list and then the queue hold the
\* requests in the order of their arrival, and none of them twice.
ArrivalOrder ==
  \A i, j \in DOMAIN (running \o waiting) :
    i < j => (running \o waiting)[i] < (running \o waiting)[j]

\* Only the youngest of the running requests can be short of budget: every
\* prefilling request with a younger one behind it gets as much as it can
\* take, so no admission slows down a prefill that is under way.
OlderPrefillFirst ==
  pc = "entries" =>
    \A i, j \in DOMAIN running :
      i < j /\ ~IsPromptDone(running[i]) =>
        per_req_chunk[running[i]] =
          Least(PromptTokensRemaining(running[i]), ChunkedPrefillSize)

Batched == {batch_entries[i].req : i \in DOMAIN batch_entries}

\* Every request that is left running takes part in every batch ("decoders
\* always run", and a prefill, once admitted, is never put off to a later
\* step), and no request that has finished takes part.
EveryoneAdvances ==
  pc = "forward" =>
    /\ Batched = Range(running)
    /\ \A r \in Batched : status[r] # "finished"

\* No position at or beyond max_model_len ever reaches the model, and no
\* request gets more tokens than it asked for (but always gets one).
LengthLimits ==
  /\ pc = "forward" =>
       \A i \in DOMAIN batch_entries :
         num_computed_tokens[batch_entries[i].req] + batch_entries[i].q_len <= MaxModelLen
  /\ \A r \in Requests : num_output_tokens[r] <= Greatest(1, params[r].max_tokens)

\* A request that step() gave up on because the pool was empty.
Starved(r) ==
  /\ finish_reason[r] = "length"
  /\ num_output_tokens[r] < params[r].max_tokens
  /\ TotalTokens(r) < MaxModelLen

\* A request that stopped by its own tokens or limits is, once the iteration
\* is over, off the running list, without blocks, and handed to the engine.
NormalFinishIsComplete ==
  pc = "idle" =>
    \A r \in Requests :
      /\ status[r] = "finished" /\ finish_reason[r] # "abort"
      /\ ~Starved(r) /\ ~TooLong(r)
      => r \in reported /\ block_table[r] = << >> /\ r \notin Range(running)

\* Once finished, a request keeps its reason and gains no more tokens.
FinishIsFinal ==
  [][\A r \in Requests : status[r] = "finished" =>
        /\ status'[r] = "finished"
        /\ finish_reason'[r] = finish_reason[r]
        /\ num_output_tokens'[r] = num_output_tokens[r]
        /\ num_computed_tokens'[r] = num_computed_tokens[r]]_vars

\* step() comes back without a batch, after it had requests to look at, only
\* if every one of them was finished and it has dropped them all: no live
\* request is passed over, and the loop cannot spin without making progress.
EmptyStepDropsEveryone ==
  [][pc = "entries" /\ pc' = "idle" => running # << >> /\ running' = << >>]_vars

\* The blocks that requests have kept which are finished and dropped from the
\* batch: aborted while running, or ended for want of a block.  They never
\* return to the pool.
Leaked == UNION {Range(block_table[q]) :
                   q \in {q \in Requests : status[q] = "finished" /\ q \notin Range(running)}}

\* A request that admission skips at every step from now on: for want of
\* blocks, though all others give back theirs, or, with an empty prompt, for
\* want of a chunk.
Unservable(r) ==
  /\ ~TooLong(r)
  /\ NumPromptTokens(r) = 0 \/ PromptBlocks(r) > Cardinality(Blocks \ Leaked)

\* Every request that arrives is finished sometime, though blocks, sequences
\* and budget are scarce and requests grow, starve and are aborted.  One thing
\* can keep it waiting for ever: the head of the queue, older or the request
\* itself, can never be admitted, because its prompt is empty or needs more
\* blocks than the leaks have left.  The queue is served strictly from its head.
OnlyUnservableBlocks ==
  \A r \in Requests :
    arrived >= r ~> \/ status[r] = "finished"
                   \/ /\ waiting # << >>
                      /\ NextWaiting <= r
                      /\ Unservable(NextWaiting)

\* A running request that was aborted leaves the batch sometime.
AbortedLeavesBatch ==
  \A r \in Requests : finish_reason[r] = "abort" ~> r \notin Range(running)

\* The request whose table has the block; 0 is nobody.
HolderOf(b) ==
  IF \E r \in Requests : b \in Range(block_table[r])
  THEN CHOOSE r \in Requests : b \in Range(block_table[r])
  ELSE 0

Pool == INSTANCE BlockPool
          WITH Holders <- Requests, Nobody <- 0, holder <- [b \in Blocks |-> HolderOf(b)]

\* The free list and the block tables implement the abstract pool: a block
\* changes hands only by being taken while free and by being given back with
\* all the others of its holder.
ImplementsBlockPool == Pool!PoolSpec

(* Claims of the docs and comments that the code does not keep.            *)

\* README.md:233-235: an abort "frees the request's blocks through the
\* scheduler": an aborted request that is off the running list has no blocks.
AbortFreesBlocks ==
  pc = "idle" =>
    \A r \in Requests :
      finish_reason[r] = "abort" /\ r \notin Range(running) => block_table[r] = << >>

\* scheduler.py:270, "free finished blocks": between iterations a finished
\* request that is off the running list has no blocks.
FinishedHoldsNoBlocks ==
  pc = "idle" =>
    \A r \in Requests :
      status[r] = "finished" /\ r \notin Range(running) => block_table[r] = << >>

\* scheduler.py:62, "Requests that finished this step; engine picks them up",
\* and scheduler.py:319, "Combine with finished_this_step from step() (e.g.
\* OOM, aborts, length>max)": between iterations a finished request that is
\* off the running list was returned by update_with_sampled(), or is still on
\* finished_this_step.
FinishedIsPickedUp ==
  pc = "idle" =>
    \A r \in Requests :
      status[r] = "finished" /\ r \notin Range(running)
        => r \in reported \cup Range(finished_this_step)

=============================================================================
