# NanoServe in TLA+

A verification project for NanoServe, a continuous-batching LLM inference
server: TLA+ modules translated from `src/nanoserve`, TLC runs on small
instances, and TLAPS proofs for every instance.  `PROJECT.json` lists the runs,
the mutants, the theorems, the hazards, and the source lines that each
definition stands for.

## 1. The system

One process.  FastAPI handlers (asyncio) hand requests to an engine, whose
daemon thread runs an endless loop: drain the queues, let the scheduler pick a
batch, run the model on it, sample, let the scheduler digest the samples, push
the tokens to the per-request streams.

| Component | State it keeps | Operations |
|---|---|---|
| scheduler (`scheduler/scheduler.py`) | `waiting`, `running`, `finished_this_step` | `add_request`, `abort_request`, `step`, `update_with_sampled` |
| request (`scheduler/request.py`) | `status`, `finish_reason`, `block_table`, `num_computed_tokens`, output tokens | written by the scheduler only |
| block allocator (`cache/block_allocator.py`) | the free list | `can_allocate`, `allocate`, `free` |
| paged KV cache (`cache/kv_cache.py`, `model/attention.py`, `kernels/`) | K and V tensors by (block, offset) | cache write, attention read in two backends |
| engine (`engine/engine.py`) | add and abort queues, per-request output queues and text lengths, stop flag, thread | `add_request`, `abort_request`, `start`, `stop`, the loop |
| HTTP server (`api/server.py`) | per call: the stream's queue, the text so far | chat completion, streaming or not; disconnect leads to an abort |
| sampler (`scheduler/sampler.py`) | none | logits to token, with penalties and top-k/top-p |
| model, RoPE, loader (`model/`) | the parameters, fused from a checkpoint; rotary tables | `load_model`, once at start; forward pass |

How they interact.  The handlers share with the engine thread only the two
thread-safe queues and the registry of output queues (under a lock); answers
come back by `call_soon_threadsafe`.  The scheduler, the allocator, the
requests and the cache belong to the engine thread alone.  The scheduler hands
the model slots and block tables, so the cache is right only if the block
tables are: this is the contract everything else leans on.

What is hard.

- *Block life cycle.* Blocks move between the free list and the tables at
  admission, in the middle of building a batch, and after sampling; a leak or a
  double owner shows up much later, as wrong text or as a server that admits
  nobody.
- *Position arithmetic.* `num_computed_tokens` advances by whole chunks, before
  the sample is appended; from then on it lags the tokens by one.  Prompts end
  in the middle, or exactly at the end, of chunks and blocks.
- *Sharing the budget.* Decodes, prefills under way and admissions share one
  token budget; nobody may starve, nobody may be overtaken.
- *Finishing.* A request ends in any of eight places (four stop conditions, two
  aborts, rejection, empty pool), at three different times, and each must take
  it off the lists, free its blocks and tell the engine.
- *The thread/asyncio bridge.* Aborts race adds and finishes; a stream that is
  never ended hangs its reader.
- *Filters on top of filters.* Penalty, temperature, top-k and top-p rewrite one
  row of logits in turn, with ties, masks shifted by one and scatters through a
  sort; an error is a token that should not have been drawn, once in a while.
- *Text from tokens.* The text of an output is sent as suffixes of a text that
  may still change behind the cut.
- *Conventions between modules.* The loader fuses what the model splits; the two
  backends pair query and KV heads by different formulas.

What makes each component correct: every block has one owner and none is lost;
every position of a batch has a slot and each query reads exactly its own
prefix; a batch keeps to the budget, contains every running request, oldest
first; a finished request stays as it finished, is reported and gives back its
blocks; every request that can be served finishes; every stream ends once, with
the whole text; the sampler draws from what its parameters leave and leaves
something; the text sent is the text of the tokens; each head has the weights the
checkpoint has for it.

## 2. The modules

| Module | Models | Correspondence |
|---|---|---|
| `SeqFilter` | `[x for x in s if x not in F]` | `Without`, a recursive function, which the provers can unfold |
| `BlockAllocator` | `block_allocator.py` | `free` is the deque; `Allocated(n)` and `TakeBlocks(n)` are the result and the effect of `allocate(n)`; `GiveBack` is `free` |
| `BlockPool` | abstract | one holder per block; `Take`, `Release` |
| `Scheduler` | `scheduler.py`, `request.py`, the order of calls in `engine.py` | below |
| `PagedKV` | part 4 of `step()`, `attention.py`, both kernels | extends `Scheduler`; the forward pass writes the cache |
| `Engine` | `engine.py`, the chat handler of `server.py` | extends `Scheduler`; the engine thread drives it, handlers submit and read |
| `ClientStream` | abstract | what the reader of an output queue may rely on |
| `Sampler` | `sampler.py` | one action per part of `sample()`, for one row |
| `IncrementalDecode` | `_decode_incremental` of `engine.py` | the text put together from the deltas against the text of the tokens, for any tokenizer (`Decode` is a constant) |
| `Generation` | the sampling part of `_engine_loop` | extends the two above: a request's own history goes into the sampler, the token into the output, the delta to the reader |
| `Rope` | `compute_llama3_inv_freq` of `rope.py` | the frequency of one dimension, as a fraction |
| `ModelLoading` | `loader.py`, the modules of `llama.py`, the splits in `attention.py`, the GQA pairing of both kernels | extends `Rope`; one action per part of `load_model()` |
| `MCScheduler`, `MCPagedKV`, `MCEngine`, `MCGeneration`, `MCModelLoading` | - | values of the constants for TLC |
| `DataProofs`, `SchedulerProofs`, `LifecycleProofs`, `BudgetProofs`, `PagedKVProofs`, `EngineProofs`, `GenerationProofs`, `ModelLoadingProofs` | - | the theorems |

`Scheduler` unrolls the loops of `step()` and `update_with_sampled()`, one
action per turn; `pc` names the loop and `at` the position in it.

| `pc` | Code | Actions |
|---|---|---|
| `idle` | between iterations | `AddRequest`, `AbortWaiting`, `AbortRunning`, `StepBegin`, `Sleep` |
| `plan` | `step()`, part 1 | `PlanChunk`, `EndPlan` |
| `admit` | part 2 | `RejectTooLong`, `Admit`, `EndAdmission` |
| `entries` | part 3 | `SkipEntry`, `GrowTable`, `OutOfBlocks`, `EnterDecode`, `EnterPrefill`, `EndEntries` |
| `forward` | model and sampler | `Forward` |
| `update`, `sample`, `free` | `update_with_sampled()` | `AdvanceComputed`, `AppendSampled`, `SkipUnsampled`, `EndSample`, `FreeFinished`, `UpdateReturn` |

`Engine` has two kinds of processes.  The engine thread walks through the loop
body; `phase` says where it is.

| `phase` | Code | Actions |
|---|---|---|
| `head` | `while not self._stop.is_set()` | `LoopHead` |
| `adds` | drain `_add_q` | `DrainAdd`, `AddsDrained` |
| `aborts` | drain `_abort_q`; the test for work | `DrainAbort`, `AbortsDrained` |
| `step` | `step()`, forward pass, `update_with_sampled()` | `SchedulerTurn` (any turn of `Scheduler`) |
| `push` | push the sampled outputs | `PushDelta`, `DeltasPushed` |
| `end` | end the streams of the finished | `EndStream`, `StreamsEnded` |
| `exited` | the thread has returned | `Exited` |

A handler is `absent` until `Submit`, then alternates between `check` (is the
client still there? `CheckConnection`) and `get` (`await out_q.get()`,
`TakeOutput`), until it is `done` or has `left` with an abort.  Each of these is
one action, because handlers share one asyncio loop and run undisturbed from one
`await` to the next.  The engine thread interleaves with them at every turn.
`Stop` is the end of `main()`: uvicorn has returned, so every handler has ended,
and the flag is set; `start()`, called once before the server listens, is `Init`.

`Generation` passes through the parts of `sample()`; `stage` says which is next.

| `stage` | Code | Actions |
|---|---|---|
| `model` | `compute_logits` | `ComputeLogits` |
| `penalty`, `temperature`, `topk`, `topp`, `draw` | the parts of `sample()` | `Penalise`, `Scale`, `TopK`, `TopP`, `Draw` |
| `emit` | append, decode, push | `Emit` |

`ModelLoading` likewise: `build` (`Build`), `read` (`ReadShard`, `ShardsRead`),
`top` (`CopyTop`), `layers` (`CopyLayer`, then `LoadStateDict` or `LoadRefused`),
a missing tensor in either of the last two (`TensorMissing`), and the ends `ready`
and `failed`.

Abstractions.

- Requests are numbered by arrival (`request_id` is a fresh uuid).  Tokens are
  counted, not stored; a sampled token is any element of `Tokens`, which is all
  the stop conditions look at.
- `per_req_chunk` is a function with 0 for a missing key; the code treats a
  missing key and a chunk of 0 alike.
- `FinishReason.EOS`, `STOP_TOKEN` and `STOP_STRING` are aliases of one enum
  member (all have the value `"stop"`), so they are one reason here.
- Adds and aborts happen one at a time while `pc = "idle"`; the engine drains
  its queues there and nowhere else.  An abort of an id that the scheduler does
  not know changes nothing and is left out.
- In `Engine`, `call_soon_threadsafe(q.put_nowait, item)` appends to the queue
  at once: the loop runs such callbacks in order, and a late callback cannot be
  told from a slow reader.  `stream` keeps all that was ever put and `taken` how
  much of it was read.  The text of an output is abstracted to the number of
  tokens so far.  A prompt that the handler refuses never gets a request number.
- `reported` is a history variable: what `update_with_sampled` ever returned.
- In `Sampler` scores are integers, `repetition_penalty` and `top_p` are
  percentages, and the scores come in a scale in which the penalty leaves integers
  (`ScaleAssumption`).  All of them may be negative, since nothing in the server
  refuses that; only a penalty of 0 is left out.  Probabilities are weights in
  powers of 2: the filters depend on the order of scores and on sums of weights,
  not on the base.  A logit of -inf is absence from `kept`.  `sort()` and `topk()`
  may put equal scores in any order, so `Descending` has all of them.
- In `IncrementalDecode` the tokenizer is a constant, `Decode`, any function from
  sequences of tokens to texts: one more token may leave the text, add several
  characters, change what was there, or make it shorter.  Texts are sequences of
  characters, since the code cuts by their number.
- In `ModelLoading` a weight is the sequence of its rows, each named by the tensor
  and the index it has in the checkpoint: fusing and splitting along the rows is
  all that the loader and the forward pass do to them.
- In `Rope` frequencies are exact fractions and wavelengths whole numbers.
- In `PagedKV` a cached key is the pair (request, position) it was computed for,
  and a cell holds a set, because a scatter to one slot twice leaves either row.

Operators under a comment `Defect:` are not part of the model: each is a
plausible mistake in the definition that follows it, and the mutants put it in
that definition's place to see the property fail.

## 3. What is checked

| Run | Instance | Question |
|---|---|---|
| `SchedulerSafety` | 3 requests of 6 kinds, 5 usable blocks of 2, budget 3, chunks of 2, `max_model_len` 5, anybody may abort | blocks, positions, budget, finishing |
| `SchedulerProgress` | 3 requests of 7 kinds at once, 4 usable blocks of 2, budget 3, chunks of 1, two abortable, some growing, some impossible to serve | who is in a batch, in what order; empty steps and aborts lead on; who may wait for ever |
| `PagedKV` | 3 requests, prompts up to 5 in chunks of 3, one abortable | what attention reads; which row is sampled |
| `EngineStreams` | 2 requests, one client may leave, blocks enough, a stop | the streams, their readers, the end of the thread |
| `Generation` | 4 tokens, 16 kinds of parameters, 36 rows of 4 scores, 2 prompts, up to 4 tokens, a tokenizer that joins and tidies | what is penalised, masked, drawn and sent |
| `ModelLoading` | 4 configs, 2 layers, one tensor lost or none, one shard or two, wavelengths 1 to 24 | what the loaded model holds |
| `AbortLeak`, `StarvedLeak`, `LostFinish`, `LostAbort`, `UnmarkedEnd`, `SplitCharacter` | small | six statements of the docs that the code does not keep |

`SchedulerSafety`:
- `TypeOK`: types; the token budget never goes below zero.
- `BlockOwnership`: a block is on the free list once or in one table once.
- `ImplementsBlockPool`: the free list with the tables implements `BlockPool`;
  the holder of a block is the request whose table has it.
- `SlotsInBounds`: `step()` never indexes past a block table.
- `ComputedMatchesEmitted`: a decoding request has computed all but its last
  output; a prefilling one has emitted nothing.
- `BatchWithinBudget`: the budget is a hard limit.  The comment at
  `scheduler.py:104-105` expects decoders to exceed it, and the clamp guards
  against that; the run shows that neither happens, because every running
  request was admitted with at least one token of budget left over.
- `OlderPrefillFirst`: only the youngest running request can be short of budget.
- `LengthLimits`: no position at or past `max_model_len` reaches the model.
- `NormalFinishIsComplete`: finishing by token or limit is reported, frees the
  blocks, and leaves the list within the iteration.
- `FinishIsFinal`: a finished request never changes again.

`SchedulerProgress`:
- `ArrivalOrder`: first come, first served.
- `EveryoneAdvances`: the batch is exactly the running list, so the
  `q_len <= 0` exit of part 3 is never what leaves a live request out.
- `EmptyStepDropsEveryone`: a step that had requests to look at comes back without a
  batch only if it has dropped them all, so the loop cannot spin idly with requests
  running.
- `AbortedLeavesBatch`: an aborted request leaves the running list.
- `OnlyUnservableBlocks`: every request that arrives is finished sometime, unless
  an older one, or itself, waits at the head of the queue and can never be
  admitted (`scheduler.py:134-142`): its prompt is empty, or is short enough for the
  model but needs more blocks than the pool has without those that are `Leaked`
  for good by requests aborted while running or starved (findings 1 and 2).  So two
  early disconnects can keep a small request waiting for ever.  Nothing in the server
  rules these heads out: its length check does not relate `max_model_len` to the pool.

`PagedKV`: `TorchReadsOwnPrefix`, `TritonReadsOwnPrefix` (each query reads the
latest keys of its own request up to its own position and nothing else, so the
backends are interchangeable), `PrefixCached` (nobody overwrites a running
request's keys), `SamplesLastToken`.

`EngineStreams`:
- `ImplementsClientStream`: each output queue implements `ClientStream`: tokens
  one by one and in order, the last one marked with its reason, one sentinel,
  nothing after it.
- `AnswerIsComplete`: a handler that has read to the end has every token of its
  request, which has finished, and answers with its reason.
- `EveryReaderEnds`: no handler waits for ever.
- `RegistryIsCleared`: the entries of a request whose client stays are removed.
- `StopEndsTheThread`: once the flag is set the thread comes back to the head of
  the loop and returns, and every request that was reported has had its stream
  ended by then.

The first four hold because nobody runs out of blocks in that run, whose pool
satisfies `EnoughBlocks` (section 4); `LostFinish` and `UnmarkedEnd` show what
happens to a stream when somebody does.

`Generation`:
- `PenalisedOnce`: each token of the prompt and of the output so far pays the penalty
  exactly once, however often it occurs: the score is multiplied or divided by just
  that factor, down for a penalty above 1, up for one below 1, turned round for a
  negative one.  Every other token keeps its score.
- `SmallestNucleus`: top-p keeps the smallest prefix of what top-k left whose
  probability exceeds `top_p`, the crossing token included, whatever the ties, but
  never less than one token.
- `SomethingToDraw`: the filters never mask a whole row.
- `AmongTheBest`: fewer than `top_k` tokens of the whole vocabulary beat the drawn
  one, though ties let more than `top_k` tokens survive.
- `GreedyTakesBest`: at temperature 0 the result is the best token of the penalised
  row, though its temperature was replaced by 1 and the row was filtered.
- `DeltasKeepPlace`: the deltas put together are never shorter than the text has been.
  Until the text first becomes shorter, they have one character for each of its
  characters, in its place, as it was when the text first got that far; and where only
  replacement characters have changed since, each is right or U+FFFD.  Once the text
  has become shorter (`engine.py:173`) the property promises no places: what is sent
  after that is shifted against the text, and the client keeps what was taken out.

`ModelLoading`:
- `HeadsGetTheirRows`: each query, key and value head, and each half of the MLP,
  finds in the fused weight the rows the checkpoint has for it.
- `EveryWeightIsLoaded`: no parameter of a loaded model keeps its initial value,
  and the output projection is the one the config means.
- `RefusesOnlyIncomplete`: a checkpoint that has all it needs is loaded.
- `BackendsShareKvHeads`: `repeat_interleave` and `h // NUM_KV_GROUPS` pair the
  same heads, and each KV head serves equally many.
- `RopeKeepsOrder`: the scaled frequencies stay strictly ordered, between the
  original ones and those divided by the factor, across both ends of the band.

### Findings

1. `AbortLeak`.  README.md:233-235 says that an abort "frees the request's
   blocks through the scheduler".  For a running request nothing does: it is
   marked, dropped at `scheduler.py:203`, and its blocks never return.
2. `StarvedLeak`.  The docstring at `scheduler.py:270` says "free finished
   blocks".  A request that `step()` ends for want of a block keeps those it
   has, so the pool that was full stays full.
3. `LostFinish`.  `scheduler.py:62` and `:319` say the engine picks up what
   finished in `step()` or by abort.  When `step()` returns None, the next call
   clears the list before anyone has read it; aborts of waiting requests are
   always cleared that way.
4. `LostAbort`.  The same README lines: an abort whose request is added after
   the drain of the adds and before the drain of the aborts is dropped, and the
   request, added on the next pass, runs to its end for nobody.
5. `UnmarkedEnd`.  `engine.py:276-277` promises a final marker for every request
   that finished without being sampled.  Only an abort before the first token
   gets one (`engine.py:283`), and by findings 1 and 3 no such abort is ever
   reported; a request ended for want of a block gets the bare sentinel, and its
   handler answers "stop".
6. `SplitCharacter`.  `engine.py:164-165` says the deltas are "correct around
   multi-byte chars".  The first token of a split character decodes to U+FFFD, which
   is sent; when the next one completes the character, the text has the same length,
   the delta is empty, and the reader keeps the U+FFFD.

### Bounds

The constants of the cfgs are the bounds; the model adds no other counter bound
(outputs are bounded by `max_tokens` and `MaxModelLen`).  Three requests give one
that finishes, one that runs and one that waits; blocks of 2 with prompts of 1 to
4 give full and partly full last blocks; chunks of 1 to 3 under budgets of 2 to 4
give prompts that end inside, and exactly at the end of, a chunk, and chunks cut
short by the budget; the pools are smaller than what all requests ask for, so
admission waits and (in `SchedulerSafety`, `SchedulerProgress`, `StarvedLeak`,
`LostFinish`) decoding runs out.  Every action fires in the passing runs.
`EngineStreams` has two requests, one that finishes at a prompt of two chunks and
one with several outputs: streams touch each other only through the scheduler and
the order of the queues, so the second request is there to be in the same batch,
to be pushed in between, and to stay when the other leaves; a third one makes the
liveness check too slow.

In `SchedulerProgress` a prompt of no tokens and one that needs more blocks than
the pool has are among the kinds, in every place of the queue.  The two older
requests may be aborted, which can leak the whole pool, and so can a request that
grows until it starves; either leak alone can leave a small prompt without blocks.
`Generation` has four tokens, so that rows have ties at the top, in the middle and
throughout, `top_k` falls inside and outside them, and a prompt can repeat a token;
the history has sampled tokens, repeated or not, beside those of the prompt.  The
sampler treats tokens alike, so the rows are cut down to those that prefer `first` to
`next`, with two scores for `eos`; all four tokens are still drawn.  Every score is a
multiple of penalty times temperature.
For the text, `first` is a space and the first part of a character, `next` its other
part, and spaces on both sides of that character are taken out.  `MaxTokens` is 4, so
that texts which change in more than replacement characters, which become shorter (with
the third token), and which grow again after that (with the fourth) all occur.
`SplitCharacter` needs only the text and has one row of equal scores.
`ModelLoading` has heads without groups, groups of two, one KV head and a
`head_dim` that is not `hidden_size` divided by the heads; two layers, as the loop
has a first and a next; `MaxLost` is 1, because any gap alone must be found; the
wavelengths lie below, in and beyond both bands, their ends included.

Nothing stops for good in the scheduler (`Sleep` is the idle loop), and the engine
stops only with `Exited`, so deadlock is checked in all of those runs.  A
generation and a load come to an end, so the runs `Generation`, `SplitCharacter` and
`ModelLoading` say `CHECK_DEADLOCK FALSE`.

### Fairness

`FairSpec` adds `WF_vars(EngineThread)`: the engine loop is a `while` in a
daemon thread that the operating system keeps running, and none of its turns
waits for anybody.  Nothing is assumed of clients: requests may never come, and
aborts may never happen or happen at any time.  `OnlyUnservableBlocks` is
therefore about requests that have arrived.

`FairEngineSpec` adds weak fairness of the engine thread's loop and, one by one,
of each handler's turns: the asyncio loop runs every task that is ready.  A
handler is not ready while its queue is empty, and `TakeOutput` is disabled then.
Clients are under no obligation to come, to stay or to leave, and nothing is assumed
of `Stop`.  `Generation` and `ModelLoading` have safety properties only and no
fairness.

## 4. What is proved

The theorems hold for every number of requests, blocks and sequences, every
block size, chunk size, budget and vocabulary, under `SchedulerAssumption` and
`AllocatorAssumption` (naturals, a positive block size and pool), and those that name
`EnoughBlocks` under that condition as well; those of
`GenerationProofs` for every finite vocabulary, all integer rows, all sampling
parameters but a penalty of 0, every order of ties and every tokenizer, under
`SamplerAssumption`, `ScaleAssumption`, `GenerationAssumption` and
`TokenizerAssumption` (the text of no token is empty); those of `ModelLoadingProofs` for all configs whose sizes are
naturals and whose KV heads divide the heads, any checkpoint with any number of
tensors missing, any split of it into files, and all wavelengths, under
`ModelAssumption` (which also asks that `low_freq_factor` is less than
`high_freq_factor`; with equal ones `rope.py` divides by zero).

| Theorem | Statement |
|---|---|
| `SchedulerProofs!TypeCorrect` | `Spec => []TypeOK` |
| `SchedulerProofs!FirstComeFirstServed` | `Spec => []ArrivalOrder` |
| `SchedulerProofs!BlocksHaveOnePlace` | `Spec => []BlockOwnership` |
| `SchedulerProofs!BlocksArePooled` | `Spec => ImplementsBlockPool` |
| `LifecycleProofs!SlotsHaveBlocks` | `Spec => []SlotsInBounds` |
| `LifecycleProofs!ComputedIsEmitted` | `Spec => []ComputedMatchesEmitted` |
| `LifecycleProofs!LengthsAreLimited` | `Spec => []LengthLimits` |
| `LifecycleProofs!NormalFinishCompletes` | `Spec => []NormalFinishIsComplete` |
| `LifecycleProofs!FinishedStaysFinished` | `Spec => FinishIsFinal` |
| `BudgetProofs!BatchFitsBudget` | `Spec => []BatchWithinBudget` |
| `BudgetProofs!OlderPrefillIsFirst` | `Spec => []OlderPrefillFirst` |
| `BudgetProofs!EveryoneTakesPart` | `Spec => []EveryoneAdvances` |
| `BudgetProofs!EmptyStepMakesProgress` | `Spec => EmptyStepDropsEveryone` |
| `BudgetProofs!EnoughIsEnough` | `EnoughBlocks` implies `Spec => []NobodyStarves` |
| `PagedKVProofs!TorchIsCausal`, `TritonIsCausal` | `KVSpec => []TorchReadsOwnPrefix`, `[]TritonReadsOwnPrefix` |
| `PagedKVProofs!PrefixStaysCached` | `KVSpec => []PrefixCached` |
| `PagedKVProofs!LastTokenIsSampled` | `KVSpec => []SamplesLastToken` |
| `EngineProofs!EngineDrivesScheduler` | `EngineSpec => Spec` |
| `EngineProofs!EngineKeepsOwnership` | `EngineSpec => []BlockOwnership` |
| `EngineProofs!EngineBatchesAreSound`, `EngineFinishIsFinal` | the theorems on batches and finishing, of `EngineSpec` |
| `EngineProofs!AnswersAreComplete` | `EngineSpec => [](NobodyStarves => AnswerIsComplete)` |
| `EngineProofs!StreamsAreKept` | `EngineSpec /\ []NobodyStarves => ImplementsClientStream` |
| `EngineProofs!LargePoolKeepsStreams` | `EnoughBlocks` implies both, without the condition |
| `GenerationProofs!PenaltyIsPaidOnce` | `GenerationSpec => []PenalisedOnce` |
| `GenerationProofs!NeverAllMasked` | `GenerationSpec => []SomethingToDraw` |
| `GenerationProofs!TopKIsKept` | `GenerationSpec => []AmongTheBest` |
| `GenerationProofs!GreedyIsExact` | `GenerationSpec => []GreedyTakesBest` |
| `GenerationProofs!NucleusIsMinimal` | `GenerationSpec => SmallestNucleus` |
| `GenerationProofs!DeltasAddUp` | `GenerationSpec => []DeltasKeepPlace` |
| `ModelLoadingProofs!HeadsKeepTheirRows` | `Spec => []HeadsGetTheirRows` |
| `ModelLoadingProofs!EveryParameterIsRead` | `Spec => []EveryWeightIsLoaded` |
| `ModelLoadingProofs!CompleteIsNotRefused` | `Spec => []RefusesOnlyIncomplete` |
| `ModelLoadingProofs!BackendsPairAlike` | `Spec => []BackendsShareKvHeads` |
| `ModelLoadingProofs!RopeIsMonotone` | `Spec => []RopeKeepsOrder` |

The proof modules build on each other: `DataProofs` (lists and sums), then
`SchedulerProofs`, `LifecycleProofs`, and on this last `BudgetProofs` and
`PagedKVProofs`; `EngineProofs` uses `BudgetProofs`.  `GenerationProofs` and
`ModelLoadingProofs` need `DataProofs` only.

*Data.* `Without`, `FlattenSeq` and the sum of a function over a set are defined by
recursion, and the induction theorems of the library cannot be used.  What the proofs
need of them (range, order and injectivity of a filtered list; a filtered or joined
list with one element more; a sum with one element more, or changed at one place, or
compared with another) is proved by least counterexample: `LeastNat` for prefixes,
`SmallestSet` for subsets.

*Types, queues, blocks.*
- `TypeOK` is inductive by itself.  The part that is not bookkeeping is that the
  planned chunks never exceed the budget they are subtracted from.
- `QueueOrder` is the inductive form of `ArrivalOrder`: both lists increasing,
  every running request older than every waiting one, and nobody in a list who
  has not arrived.  `ArrivalOrder` alone is not inductive, because `AddRequest`
  needs the last part.
- `BlockOwnership` needs `IdleHoldNothing` (requests that wait or have not come
  have no blocks), because `Admit` overwrites `block_table[r]`; that in turn needs
  `QueueOrder`, which says that a request that runs or finishes is not waiting.
  `BlockSteps` reduces every action to one of three effects on the blocks (none,
  take from the head, give back a table); the rest of the proof looks only at those.
- The refinement uses the same three effects.  `OwnersAreHolders` shows that under
  `BlockOwnership` the CHOOSE in the refinement mapping has one candidate.

*The life of a request.*  The five theorems of `LifecycleProofs` share one inductive
invariant, `LifeInv`, whose parts need each other.  `ComputedMatchesEmitted` speaks
of the moments between iterations only; `TokensInStep` says what holds inside: the
entries that `update_with_sampled()` has yet to look at are one token ahead.  That
needs that a request has one entry at most (`BatchShape`) and that an entry's request
is alive when its turn comes (`EntriesLive`).  `SlotsInBounds` needs that admission
allocated for the whole prompt (`Admitted`) and that a prefill chunk ends with the
prompt (`ChunksFit`, `Fits`).  `LengthLimits` needs `LimitsAhead`: a request that
goes on has not reached a limit, so one more position is allowed.
`NormalFinishIsComplete` needs to know which finished requests can still be in the
running list (`FinishedKnown`).

*The budget.*  `BatchWithinBudget` holds although decoding requests take their token
without looking at the budget, and it is not inductive: between iterations nothing is
planned.  `NeedsFit` is what carries over: one token for each running request that
decodes or is the youngest, and a full chunk for each other, fit into
`max_num_batched_tokens` together.  Admission keeps this, because it stops when the
budget is used up, and an iteration only lowers the needs.  `SharesFit` says that
inside `step()` what was given and what is left make the budget; `FairShares` that only
the youngest may have less than a full chunk.  The other three theorems follow.

*The pool.*  How large must it be for `step()` never to end a request for want of a
block?  Room for every running request is not enough: an aborted request keeps its
blocks for ever (finding 1).  `EnoughBlocks` asks for room for the longest table
(`TableLimit`) of `MostHolders`: `MaxNumSeqs` running requests and everybody who may
abort.  `PoolSuffices` is the argument: with the free list empty each block would be
at a place of some holder's table, each at one of its own, while the table of the
request in need has a place left over.  `Capacity` says who holds blocks
(`HoldersKnown`) and that no table is longer than its limit (`TablesFit`).
The condition is sufficient and not necessary.

*The cache.*  `FilledIsCached` is the invariant: each filled position that a request's
table leads to holds the key of that request and position, that of an aborted request
included.  `BlockOwnership` gives that a batch's slots are apart from each other and
from everybody else's cells, and `ComputedHasBlocks` that the table leads to every
position that attention reads.  The rest is arithmetic: `SlotSplits` takes a slot back
to block and offset, and `LastTokenIsSampled` sums query lengths.

*The engine* is an execution of the scheduler: each step of a handler stutters, and
each turn of the loop is a scheduler step or stutters.  That an abort taken from the
queue is one the scheduler expects needs an invariant of the queue (`AbortsAllowed`).
So every safety theorem about `Spec` holds of the running engine; three are restated.
For the streams, `ReturnKnown` says what `update_with_sampled()` hands over: who
finished was sampled in this iteration, or starved, or was rejected.  `StreamInv`
relates the items of each queue to the tokens emitted, to what the loop has still to
push, and to what the reader has taken.  The theorems about streams
have the condition `NobodyStarves` because without it they are false (finding 5,
`UnmarkedEnd`); `LargePoolKeepsStreams` discharges it.

*The sampler.*  Three theorems share `FilterInv`.  None of them is inductive: that
something is left to draw needs that a best token of the vocabulary is kept
(`BestIsKept`), which each filter passes on because it keeps the first of a
descending order; that the drawn token is among the `top_k` best needs that each
kept one is, from the moment top-k ran.  `FirstIsBest` and the counting lemmas
below it need `Descending` only, never a particular sort.  `PenaltyIsPaidOnce` is
about integer scores in a scale in which the penalty is exact (`ScaleAssumption`):
`DividedIsExact` and `MultipliedIsExact` say that the integer operations of
`Penalised` are then the quotient and the product themselves, `QuotientMoves` and
`ProductMoves` which way the score goes; that a token pays once is `PenaltyInv`, which
keeps the logits equal to the row until the penalty has been.
`NucleusIsMinimal` finds the first prefix of the descending order whose mass exceeds
the limit: there is one, because `top_p` is below 1 (it may be negative: then the first token
alone), and every longer one exceeds it as well, because no token has mass 0; so the
shifted mask is a prefix, and it ends there.
Of the softmax it uses only that equal scores have equal, positive mass
(`OddsArePositive`), not the base.

*The text.*  Nothing is known of `Decode` but that no tokens have no text.  `DecodeInv`
adds to the property that `_reported_text_len` is the length of the text.  One more
token leaves the texts of the earlier prefixes as they were (`PrefixesStay`), so what
was known of them is known still (`OneMoreText`).  `DeltaAdds` says what the cut does:
if the text is not shorter than it was, the deltas grow to its length and each new
place has the character of the new text; if it is, the delta is empty and the deltas,
already longer, stay.  A place that was reached before keeps the token that reached it.
For the last part of the property, a character that only ever changed from U+FFFD is,
as it was sent, the final one or U+FFFD.

*The loader.*  `LoadInv` says that after any number of layers `own_state` has, for
exactly the names copied so far, what the checkpoint has for them (`Fused`), and that
the parameters have the shapes of the config until they are replaced.  Then
`load_state_dict()` finds the shapes right, and what it leaves out is what
`load_model()` refuses: every way to `failed` leads through a tensor that is missing.
The theorems about the loaded model cut the fused weights apart again: `CutOut` for a
part that follows others, `HeadIsCutOut` for a head within its part.  For the KV heads,
`RepeatIsDivision` shows that the list that `repeat_interleave` makes has `j \div g` at
index `j`.  For the frequencies, the smoothed band is compared with both of its
neighbours and with itself, as fractions without division.

Model-checked only: liveness (`OnlyUnservableBlocks`, `AbortedLeavesBatch`,
`EveryReaderEnds`, `RegistryIsCleared`, `StopEndsTheThread`), which the provers cannot
treat.  Every invariant and every other action property that a run checks is a theorem.

## 5. Not modelled

The arithmetic of the model: norms, projections, the MLP, the softmax of attention,
`apply_rope` and floating point everywhere, the sampler's included (a penalty of 0,
which yields inf and NaN, is outside the constants).  Downloads, dtypes, devices, bias tensors (the loader has none, whatever
the checkpoint holds), the tables of `RotaryEmbedding` and their length.  The
tokenizer itself: the theorem is about any, the runs have a small one of split
characters and of spaces taken out.  The 5 s limit of `stop()`'s join; exceptions in the engine thread, which
end it; the endpoints other than chat completion and the protocol schemas, which keep no
state; the cancellation of a streaming response by the web framework, which is not in the
repository; the command line, the benchmark and the profiling scripts.  `kv_cache_memory_bytes`,
`blocks_needed` and `get_token_id_at` have no caller.  `stop` strings, `seed` and
the sampler's `generators` are accepted and never used by the code.

## 6. Plan

In order of importance:

1. *Done*: allocator, scheduler, abstract pool, paged cache, engine and handlers
   with the end of the thread, abstract stream, sampler, incremental decoding,
   loader and RoPE frequencies; the theorems of section 4.
2. *Proved*: every safety property of the passing runs, and both refinements.
3. Steps towards liveness that are safety: a measure that falls with every turn of the
   engine thread within one iteration, so that an iteration ends; the head of the queue
   is admitted by the first iteration that has room for it.
4. An abstract specification of a whole answer, from `Submit` to the end of the
   handler, that `Engine` implements when the pool is large enough.
