# A TLA+ model of vibevoice.c

vibevoice.c is a speech-to-text runtime in C (CPU, CUDA and Metal) with an
OpenAI-compatible HTTP server. This directory holds a TLA+ model of it, in two
halves. The first is what threads share: who may run, who waits, who owns which
memory, and what the counters say about it. The second is the machinery one
request drives: the decode loop and its cache, the streams and rings of the
device, loading and freeing a model, the encoder, and the algorithms whose index
arithmetic is easy to get wrong. TLC checks the model on small instances. TLAPS
proves the main results for every value of the constants: all the safety results
of the first half but the front end's, and of the second half every part that is
a state machine of its own: the decode loop, layer streaming, the life of
contexts, the sessions of a slot, the tile rings, the microphone ring, the
segmenter and the resampler.

`PROJECT.json` is the machine-readable index: components, runs, mutants, the map
from definitions to source lines, findings, hazards and theorems.

## The system and its parts

A request travels through these components (paths relative to the repository):

| component | source | state it keeps | operations |
|---|---|---|---|
| HTTP server | `src/server/http.c`, `ws.c` | listening socket, `n_conns`, `running` | accept, one thread per connection, shutdown, WebSocket framing |
| API handlers | `src/server/api.c` | request counters, the queue | routes; transcription, SSE, chat, WebSocket session |
| admission queue | `src/server/vv_queue.h` | `active`, `waiting`, `next`, `serving`, `rejected` | `vv_queue_enter`, `vv_queue_try_enter`, `vv_queue_leave` |
| engine | `src/engine/engine.c` | `busy[]`, `n_busy`, `completed`, per-slot `last_perf` | acquire and release a slot, transcribe, generate, stream open/push/finish/close |
| batch pipeline | `src/inference/pipeline.c`, `decoder.c` | one context per slot: KV length on the host and on every device, graphs, staging slots, buffers | create, clone, free; encode, prefill, decode step by step, stream layers, cleanup |
| streaming session | `src/inference/stream.c`, `stream_ctx.c` | pending PCM, chunk counter, KV length, cancel flag | open, push, finish, cancel, close; events |
| KV pool | `src/inference/kv_cache.c` | free stack, holders, stalled holders, generation | reserve, reserve_wait, release |
| speech front end | `src/inference/frontend.c` | job queue, launch plan, worker thread | submit, plan a launch, complete |
| audio input | `src/audio/*.c`, `core/vv_spawn.c` | decoder child process, resampler phase, VAD state, mic ring | decode, resample, normalise, detect, capture |
| loaders | `src/model/*.c`, `src/quant/*.c` | mapped files, tensors | parse config, safetensors and GGUF; choose a form, balance, quantise; free |
| speech encoder | `src/tokenizer_encoder/*` | a context per layer and stream, an arena | encode a batch of chunks, or a whole signal in tiles |
| text | `src/text_tokenizer/*.c`, `inference/sampling.c`, `postprocess.c`, `chat_prompt.c` | vocabulary, bytes held back | BPE encode/decode, sample, stream text, parse segments, prompts |
| kernels | `src/cuda`, `src/metal`, `src/cpu` | device buffers, shared-memory rings | choose a kernel, tile, split, merge |

They interact through calls on the connection's own thread. Shared between
threads are: the queue (one mutex, one condition variable), the engine's slots
(the same), the KV pool of a device (the same; holders on different slots),
the front end's worker and its job queue, and the HTTP server's connection
count. A slot's context is used by one thread at a time, which is the engine's
promise and not a lock.

The hard behaviours are therefore the ones between threads: wakeups that are
lost or go to the wrong waiter, a deadline that passes while a slot frees up,
requests that hold pages and wait for pages, counters read after a wakeup that
happened before they were true, an error path that forgets one of the three
things a request holds (place in the queue, slot, pages), and shutdown. Inside
one request they are the ones between a host that issues work and devices that
do it later: a length kept twice, a captured step replayed with the arguments of
its capture, a staging slot overwritten while it is read, a buffer that still
holds what the last session wrote; and a stream cut into pieces nobody chose,
which must give what the whole would.
`PROJECT.json` lists them under `hazards`, with their lines.

What makes each part correct:

* queue: never more than `slots` inside nor `slots + capacity` admitted; first
  come first served; live sessions never pass the line; nobody sleeps through
  its turn;
* engine: one request per slot; no free slot with only sleepers to want it; a
  request reports its own metrics;
* KV pool: no page lost or shared; a request is told "exhausted" only when
  waiting could not help; nobody waits for ever on holders that wait too;
* server: queue and engine agree; every path gives everything back; counters
  mean what their help text says;
* streaming session: chunks in order, each encoded from its own audio, text
  emitted once, nothing after DONE or ERROR;
* front end: every job is answered once, from its own audio, however jobs share
  a launch;
* HTTP server: shutdown waits for every connection and touches nothing after;
* batch pipeline: every row of a sequence is at its position in memory the
  request owns; an answer that says ok is complete; a call leaves nothing behind;
* layer streaming: a layer runs on its own weights, and the streams drain;
* contexts: freed once, borrowed things outlive their borrowers;
* loaders: the model has the form that was asked for, and both sides of a
  SmoothQuant pair are balanced, or the load fails and frees everything;
* kernels: a linear layer is the product and attention the sum over every visible
  position, whichever kernel, tile, split, page or packing was chosen;
* encoder, resampler, detector, text: pieces give what the whole gives.

## Modules

| module | what it is |
|---|---|
| `PageAllocator` | abstract specification: a pool of pages, who may be refused |
| `KvPool` | `kv_cache.c`: the counting scheme, refines `PageAllocator` |
| `KvPoolProofs` | its theorems |
| `FifoAdmission` | abstract specification: a bounded first-come-first-served line |
| `AdmissionQueue` | `vv_queue.h`, refines `FifoAdmission` |
| `AdmissionProofs` | its theorems |
| `EngineSlots` | `engine.c` |
| `EngineProofs` | its theorems |
| `Server` | `api.c`: the handlers, composed from `AdmissionQueue` and `EngineSlots` by `INSTANCE` |
| `ServerProofs` | its theorems |
| `ChunkedProtocol` | abstract specification: what the model is fed, chunk by chunk |
| `StreamSession` | `stream.c` and the encode-ahead of `stream_ctx.c`, refines `ChunkedProtocol` |
| `StreamProofs` | its theorems, and those about `Vad` |
| `HttpServer` | `http.c`, `vv_server_run` and `vv_server_stop` in `api.c`: the life of the server |
| `HttpProofs` | its theorems |
| `Frontend` | `frontend.c`: the service thread, its queue and the planning of launches |
| `DecodeLoop` | `pipeline.c`, `decoder.c`: one request on one context, from prompt to cleanup |
| `DecodeProofs` | its theorems |
| `LayerStream` | `decoder.c`: layers copied into staging slots ahead of the compute |
| `ContextLife` | `pipeline.c`, `engine.c`: contexts created, cloned and freed |
| `StreamBackend` | `stream_ctx.c`: the sessions of a slot, one after the other |
| `ModelLoad` | `loader.c`, `loader_gguf.c`: a checkpoint becomes a model |
| `Linear` | `quant_linear` and the kernels, packings and activations under it |
| `TileRing` | the shared-memory rings of the GEMM and attention kernels |
| `Attention` | the attention kernels, their choice, pages and the KV codecs |
| `VaePlan`, `Encoder`, `EncoderArena` | `vae_plan.h`, `vae_gpu.c`, `vae_cpu.c` and their kernels |
| `MicCapture`, `Vad`, `Resampler` | `mic.c`, `vad.c`, `resample.c` |
| `TextOut` | deltas, generation, sampling and segments: `stream.c`, `pipeline.c`, `sampling.c`, `postprocess.c` |
| `Tokenizer` | `bpe.c` |
| `PartsProofs` | theorems about `TileRing`, `MicCapture`, `LayerStream`, `Resampler`, `ContextLife` and `StreamBackend` |
| `MC*` | the instances for TLC; `MCParts` runs the parts that work on their own |

**A step** is what runs under one hold of a mutex. Taking the mutex, testing a
wait condition and going to sleep is one step because `vv_cond_wait` releases
the mutex atomically; being woken is a separate step, after which the condition
is tested again. A condition variable may also wake a thread that nobody
signalled. Time is a fact ("the deadline of this caller has passed"), never a
number.

### KvPool

The free stack and a cache's page list are sets; `n_free`, `n_pages`,
`n_holders`, `n_stalled` and `stall_gen` are kept beside them as the code keeps
them, because every decision is taken on the counters and the question is
whether they are right. `Reserve` is `reserve_pages` up to the lock; `Grant`,
`GiveUp` and `Stall` are the three ways out of one turn of its loop; `MapOk` and
`MapFail` are the device copy that runs after the unlock; `Release` is
`vv_kv_cache_release` at the end of a request, on every path. A cache is
identified with the slot thread that uses it.

`PageAllocator` says what the pool promises without any counter: pages are
granted from the free ones, and a caller that is willing to wait may be refused
only if it asks for more than the pool has, or holds pages while everybody else
who holds some is itself asking for more than is free.

### AdmissionQueue

`Enter` runs `vv_queue_enter` up to its first sleep; `Admit` and `WaitOn` are a
later turn of its loop, `TryAdmit`, `TryReject` and `TryWait` a turn of
`vv_queue_try_enter`. `FifoAdmission` has a sequence where the code has tickets;
the refinement mapping reads the sequence off the ticket numbers.

### EngineSlots

`Take`, `WaitSlot` and `GiveUp` are a turn of `acquire_slot_wait`. `ReleaseSlot`
signals one sleeper, chosen by the system. `last_perf` is the set of requests
whose figures are in a slot's metrics: a transcription clears them first, a
generation adds its own to what is there, and only when it succeeds.

### Server

One action per stage of the handlers; `InQueue` and `InEngine` take the
component's own actions. `Direct` is a set of threads of the program that embeds
the server and calls the same engine; it is empty where the question is about
the server alone. `outcome` and `counted` are history variables.

### StreamSession

One thread calls `vv_stream_push` and `vv_stream_finish`; `vv_stream_cancel`
comes from any thread and from inside the event callback. So every read of the
cancel flag, every call of the backend and every emitted event is a step of its
own, and a cancel can fall between any two. The chunker's buffer, `base`,
`total` and window index are kept as the code keeps them; samples and tokens are
numbers, one frame is one sample. The text emitter is a buffer that may release
any prefix of what it holds, which is what matters for the order of the text;
its UTF-8 and control-string rules are `TextOut`. A failure of the backend or of
an allocation is the status `FAILED` and can happen at every such call.

`ChunkedProtocol` is what the session owes the model: prompt once, then for each
window its start, the features of exactly its samples, its end, the tokens
decoded from it one by one, and one chunk-end token; no buffers, no batches, no
chunk end folded into the next prefill. The refinement mapping is the rows in
the KV cache, with a chunk end that is still to be fed counted as fed.

### HttpServer

`vv_server_stop` runs in a signal handler and takes no lock, so each of its
accesses (the handle, `sv->http`, `running`, the socket, the broadcast) is a
step. Using an object after it was freed is recorded in `touched` and ends that
stop. Descriptor numbers are reused by the system (external): after the
listening socket is closed a handler may be given its number, and a later close
is recorded in `foreign`. What a connection sends is left out.

### Frontend

A job is `<<s, k>>`, the k-th of the call slot `s` is making. A step is what
runs under one hold of `fe->lock` (a launch) or of `q_lock`. Audio is counted in
units of one frame; a launch succeeds or fails as a whole. `plan_launch` is
written with folds over the candidates in the order the code sorts them. `enc`
and `ctx` are histories: the units of a job that were encoded, and what a
stream's encoder context has seen. One assumption is the engine's: no submit
begins between `vv_frontend_service_stop` and its return. Device events, staging
buffers, `vv_frontend_connect` and the log counters are left out.

### DecodeLoop

One action per stage of `vv_inference_transcribe` and `vv_inference_generate`:
admission, encoding, each prefill pass, the head, the token, and the step on each
device in turn, which runs directly, or is captured into a graph and replayed. A
cache's length is `host` (`current_len`) and, on each device, `dev` and `nxt`
(`d_len`, `d_len_next`); `cells` records which row was really written where. A
captured step is valid for `ShapeStep` positions and then captured again. Every call of
the device or the allocator may fail; the handler the code has at that point is
part of the action. A placement (`conf`) is the CPU, one device or several, paged
or not, with or without captured steps.

### LayerStream

The host issues copies, kernels and events; each stream takes its work in order
at its own pace (`busy` splits a piece of work into its begin and its end, so a
copy can overlap a kernel that reads the same slot). A recorded event carries
the number of its record, and a wait the number of the record it is for, so that
a wait is for the last record before it and not for a later one; a kernel
remembers the pointer its layer had at the launch. `clock` and the stamp `t` of a
piece of work are histories: the host's call that issued it.

Up to `MaxFaults` calls to the device fail: a copy, the first of its layer or a
later one; a wait; the record of an event; a layer's kernels. A copy that fails
half way leaves some tensors pointing into the slot (`Mixed`) and nobody loaded
there; the tensors that are in the slot already are skipped when the layer is
staged again, so a mixed layer is never whole again. The layer loops ignore what
`vv_layer_prefetch_begin` and `vv_layer_prefetch_wait` return, and so does the
model: it goes on as the code does. `RunsOwnWeights` has, whatever fails, that
the streams drain, and that weights are right while nothing has failed. Without
its `faults = 0` it does not hold (see Findings). A layer whose kernels fail
counts as a fault too: it leaves a prefetch behind that nobody waits for, and the
next pass may stage over it. What separates the two in the code is that freeing
device memory at the end of a request waits for the device, which is not modelled.

### ContextLife

An allocation is a pair of an owner and a name. `vv_inference_init` and
`vv_inference_clone` are walked stage by stage, each of which may fail into the
handler that `goto` reaches. `twice` is a history of what was freed without being
allocated. `Asked` is `{FALSE}` in the run: with `--gpu-layers` the code frees
memory it does not own (see Findings); the theorem `OnlyStagedLayersFreedWrong`
is about both values.

### StreamBackend

What a buffer holds is what was last written to it, by whichever session. A
closed session parks its buffers on the context. `mem` has the buffers of the
session (`held`, with room for `cap` rows) and `live`, the number of allocations
of each name that were made and not freed; while a session is opened, `left` is
how many allocations still succeed. `TryAll` is a row of allocations up to the
first that fails, `TryBoth` two that are looked at together.

### ModelLoad

`model_load_impl` stage by stage. A projection is a record of what the loader's
decisions read: the form it is stored in, whether its header agrees, its groups,
zero points, order and bias. `divided` and the projections' own fields hold the
SmoothQuant factors, so that balance is a relation between both.

### Linear, TileRing and Attention

Numbers are left out and positions are kept. A linear kernel is the set of terms
(stored code, activation column, scale group) its threads add to one output; a
packing is a permutation that the reader must undo; the reference is the product.
An attention kernel is the set of visits (key, value, store row) that enter a
row's softmax; the reference is every visible position once. `TileRing` is the
concurrency inside a block: warps, asynchronous copies and barriers.

### Encoder

A column is a number modulo a prime under weights that tell layers and taps
apart, so that two frames are equal when the same samples reach them through the
same taps. A stream in chunks, in batches with others, or in tiles on the CPU, is
compared with the layers over the whole signal. `EncoderArena` has the sizes of
the real encoder and asks whether every buffer is as large as what a launch
writes, over arenas of one and of sixteen items, from the 3200 samples that
`frontend.c` allows up, and whether the rows of a launch are within the front
end's own bound (`f_max`; so its refusal of more, `frontend.c:384`, is never
met and `Frontend` leaves it out). That a launch always has room for
one tile is claimed only where the hidden buffer has (`HoldsTile`); a small arena
has not (see Findings).

### Audio and text

`MicCapture` has a step per access of a shared field: the ring has no lock.
`Vad` and `Resampler` number their samples; levels are a choice and positions
exact. In `Vad`, `feeder` is the program that pushes and drains; a frame has at
least one sample, which is a rate of 50 Hz or more. `SegmentsInOrder` states a
segment sample by sample: a pre-roll that is full or reaches back to the segment
before, then every sample on, with the opening frame twice, as the code has it.
In both an allocation may fail. A push of the resampler that finds no room for
its input loses it; one that finds none for its outputs has taken the input in
and makes them at the next call; both return the same status, and outputs are
compared with the input taken in. `MicCapture` takes the stores of the capture
thread in program order: `head` and `tail` are volatile, the samples are not,
and no barrier stands between a sample and `head` (`mic.c:81-82`), so it is
about a compiler and a machine that keep that order, as x86 does.

`TextOut` and `Tokenizer` work on bytes: characters of one to three bytes for the
first, the code points that the splitting rules tell apart for the second; the
tokenizer's reference is the checkpoint's regular expression and the textbook
merge, over texts whose spaces are one byte. What a generation streams is its
text, until a stop string ends it. The text is then cut in front of that string:
it may end before what was streamed, by a proper beginning of the string, or
behind it, by text of the last token that nobody was sent. `SentIsText` says
exactly that (see Findings).

### MCParts

`suite` is chosen in the initial state. `TileRing`, `MicCapture`, `LayerStream`,
`Resampler`, `ContextLife`, `Vad` and `StreamBackend` are extended and keep their
own variables, so that the run and the theorems are about the same definitions;
every other suite is an instance of its module with the variables
`v1` to `v16` mapped onto the module's own. A suite of a pure part takes its input
from a set and computes it in stages.

## Runs

| run | shows | bounds |
|---|---|---|
| `kv_pool` | `IInv`: pages partitioned, counters exact; `AllocatorSpec`: `PageAllocator` implemented, so no false exhaustion; `ReserveReturns` | 3 caches, 2 pages of 2 positions, requests of 1 to 6 positions with a window of 5 (so that overflow, a request larger than the pool, and every smaller size happen; two holders can hold each other up while a third waits), 4 calls |
| `admission` | `IInv`: limits, tickets, no lost wakeup; `FifoSpec`; `CallersAnswered` | 5 clients, 2 slots, line of 2: one client more than fit, two that can be in the wrong order; 5 calls |
| `engine` | `IInv`: exclusive slots, no stranded slot; `PerfIsOwn`; `AcquireReturns` | 3 callers, 1 slot, 4 calls, so that two sleep while one holds, and the one that is signalled may be the wrong one |
| `server` | `Safety`: admitted requests find a slot, nothing leaks, transcriptions counted | 3 connections, 1 slot, line of 1, 4 requests of any kind |
| `server_live` | `RequestsAnswered` | 2 connections and a direct caller, 1 slot, 2 requests |
| `stream` | `IInv`: the cache is bounded, a cancel prompt; `TextInOrder`; `FollowsProtocol`: `ChunkedProtocol` implemented; `CallsEnd` | windows of 2 + 1 samples, up to 7 samples in pushes of any size: three full windows and a flushed rest; 2 tokens per chunk; a cache of 26 rows, which the longest sessions exceed; up to 3 windows encoded ahead |
| `http` | `Safety`: the state outlives every connection, the limit holds; `StopReturns` | 3 connections for a limit of 2, 2 stops |
| `frontend` | `CallsReturn`: every submit returns, with the service, without it, and while it stops | 3 slots, files that need two launches and a run of a window that fits none, 3 calls; runs that are launched are in `parts` |
| `decode` | `RowsInPlace`: rows at their positions, in owned memory; `AnswersComplete`: ok answers complete, generations within the window, idle contexts empty; `CallReturns` | window of 6 positions in pages of 2, prefill chunks of 3, prompts of 2, 5, 6 and 8 rows (one pass, two, a full window, too long), up to 5 new tokens, 2 devices |
| `parts` | 19 properties, one or two a suite; those of the seven modules that `MCParts` extends are their own, the others are defined in `MCParts` | stated at each suite; a front end of 2 slots with every kind of job, whose safety (`LaunchesRight`) and planner (`OldestGoesOn`) are here; all byte strings of 5 and texts of 4 characters; 3 layers over 1 or 2 slots in 3 passes, one call of which fails; every stored form of a projection; token counts and lengths on both sides of every threshold of the kernels |
| `http_stop_safe` | finding: a stop may use freed memory | as `http` |
| `decode_tail` | finding: a prefill tail of one row is written at the wrong position | one prompt of 4 rows in chunks of 3 |

Symmetry is used only in `server`, which has no liveness. The `http` run does not
check deadlock: once `vv_server_run` has returned and the stops are done nothing
is left to do. Nor does `parts`, whose suites end when their input does; where a
part could hang, its property says so (`RunsOwnWeights` includes that the streams
of `LayerStream` drain, whichever call fails). The prompts of `decode` leave out the one-row tail that
`decode_tail` is about. Behaviour after a stop has used a freed
object is undefined, and in the model that stop does nothing more; the other
properties of `http` are about the server's side.

`MaxCalls` bounds the length of a behaviour in each module. It also bounds the
overtaking that the pool and the engine allow: neither has a line of its own, so
with unboundedly many newcomers a waiter can starve. That is the design (the
queue in front of them is what is fair), and the liveness results say what they
say for finitely many calls.

**Fairness.** Weak fairness of each thread's next step: the operating system
runs every thread, a mutex is eventually obtained, time passes. A run of the
model ends because its tokens are bounded (`max_new_tokens`, the KV window); a
session ends because its audio does or the idle and trickle rules of
`handle_ws_stream` end it. Starting a request, a spurious wakeup and a stream's
success are never fair.

In `StreamSession` fairness is the running call taking its next step; that a
call begins, that a cancel comes and that a backend call succeeds is not
assumed. `Pop` may go on only while there are windows, which is what bounds it.
In `HttpServer` the serving thread and a stop under way are scheduled, and a
handler closes the descriptors it opened (weak) and returns (strong, since a
handler may open another one in between): handlers are bounded by the read and
idle limits of `http.c` and by the results above. No connection ever has to
arrive. In `Frontend` the service thread and the callers are scheduled; a launch
may fail for ever, since a failed launch ends its jobs. In `DecodeLoop` the call
in progress takes its next step; the loop is bounded by the cap and the window.

## Theorems

Each proof rests on an inductive invariant, which TLC checked first. For
`KvPool`, `AdmissionQueue`, `EngineSlots` and `StreamSession` the run checks that
invariant itself; for the others it checks the result, and the invariant (`IInv`,
`ProtocolInv`, `RingInv`, `MicInv`, `LayersInv`, `ResampleInv`, `LifeInv`,
`VadInv`, `BackendInv`) is stated at the end of the component's module. `Invariance` proves it; the other theorems read a named part off it or
add an action property or a refinement. All are proved for every value of the
constants that meets the assumption stated beside them: any finite set of clients
or caches, any positive number of slots, pages and places.

* `KvPoolProofs`: the invariant `IInv` adds to the page partition and the exact
  counters what the locals of a call in flight say: pages popped but not mapped
  belong to a cache at `mapping`; `counted` implies pages held; no recorded
  generation is ahead of `stall_gen`. The last is why setting `n_stalled` to 0
  on a release is right: nobody can be counted in the new generation yet.
  `ExhaustionIsReal` follows by counting: when `running <= 0` the stalled
  holders are all the other holders, and each was short of pages when it last
  looked, with nothing returned since. `ImplementsAllocator` is step simulation
  over that invariant.
* `AdmissionProofs`: `next = serving + waiting` and the tickets in line being
  exactly `serving .. next - 1`, held by one client each. `NoLostWakeup` needs
  no more than that every step that could make it somebody's turn broadcasts.
  `ImplementsFifo` shows that `Admit` removes the head of the mapped sequence and
  `Enter` appends to it.
* `EngineProofs`: `NoStrandedSlot` is a count: a release adds one free slot and
  wakes one sleeper, taking one removes both, and a caller gives up only when
  there is no free slot, so the number of awake callers never drops below the
  number of free slots while anybody sleeps. `MetricsAreOwn` follows from slots
  being exclusive.
* `StreamProofs`: the cache bound (`CacheNeverOverflows`) is checked by `kv_fits`
  long before the rows are written, so the invariant says at each point between
  them how much room is still promised; `CancelTakesEffect` needs to know how
  many backend calls can have begun under a cancel at each point of
  `run_chunk`; both need that a call in progress has seen no failure
  (`StepsSane`). `SessionEndsOnce` is the action property that nothing changes
  DONE or ERROR once it was emitted.
  `TextKeepsOrder` needs that what was emitted and what the emitter holds are
  together the text decoded so far. `SessionFollowsProtocol` is the refinement of
  `ChunkedProtocol`, over `ProtocolInv`: the buffer holds the samples from `base`
  on, the windows cut but not yet fed are the next ones in order, and a window
  encoded ahead is the one at the head of the queue. It is a step simulation, one
  lemma a step of the session. The same module has the segmenter
  (`SegmentsStayInOrder`), for every size of frame, pre-roll, hangover and cut.
  The theorem gives each segment as a sequence: which sample is at which index,
  the opening frame at both of its places, and that a pre-roll that is not full
  begins where the segment before ended. Its invariant says where each pushed
  sample is now: FIFO, frame and pre-roll are stretches that follow on one
  another, a segment under way ends where the frames have got, and everything
  handed out ends before the pre-roll begins.
* `ServerProofs`: the invariant is the one of the queue and the one of the engine,
  taken over from their own proofs by `INSTANCE`, and `HandlersInStep`, which ties
  a handler's stage to its place in line, its slot and its history. A step of a
  handler is a step of at most one of the two components and changes nothing of
  the other, so each component's step lemma is cited and only the tie is proved.
  `AdmittedFindSlot` then is a count: everyone in the engine is one of the
  admitted or a direct caller.
* `HttpProofs`: `Safety` needs only `Phases` to be inductive: which object is
  alive at which point of `vv_http_serve`, and that nobody is counted before the
  loop and after the drain. `OneStopClosesOwn` takes the finding
  `http_stop_safe` apart: with one stop at most, no descriptor but the listening
  socket is ever closed; the use of freed memory needs no second stop. The assumption that
  no connection is named like the socket only keeps the descriptors apart.
* `DecodeProofs`: beside the results, the invariant says that host and device
  lengths agree at each point of a step (`LengthsAgree`), which rows are where
  (`RowsPlaced`), that the pages held reach past the last row that may be written
  (`PagesCover`) and what a call holds (`HeldIsOurs`). `NoStrayWrite`
  and `AnswersAreComplete` hold for every prompt. The rows are in their
  places only if no prompt leaves one row to its last prefill chunk
  (`RowsStayInPlace` has that as its hypothesis, and so has the `decode` run);
  `OnlyTailsMisplace` states it per request, so that tail is the only cause of
  the finding `decode_tail`.
* `PartsProofs`: the tile ring for any number of warps and any kernel whose ring
  has a slot to spare when it copies ahead (`RingAssumption`). All warps have
  passed the same number of barriers (`InStep`); copies in flight are between what
  the wait has seen landed and what was issued (`InFlight`); the tiles from the
  oldest that any warp may still read to the last issued are in the slots or on
  their way (`Held`), and they are at most as many as there are slots, so no copy
  lands on a tile that is read. The microphone ring for any size
  (`MicAssumption`): `Published` and `Taken` count samples, while no overrun was
  counted they give `head` and `tail` modulo the size and are less than a ring
  apart, and each sample lies where its number says. Nothing is claimed after an
  overrun, where both threads move `tail` (see Findings). Then the parts with
  longer arguments:
  * layer streaming (`LayersRunOwnWeights`), for any number of layers. Work is
    compared by the host's order of issue, its stamps. Two pieces of work of
    different streams on one slot, one of them a copy, are never both free to run:
    the later one is `Behind` a wait for an event that is recorded after the
    earlier one (`SlotsGuarded`). A kernel in the queue finds, once the copies
    issued before it are through, its own layer in its slot (`WillHold`,
    `KernelsFed`). These are about runs in which no call has failed: after one
    the weights may be wrong (see Findings). That the streams cannot wait for each
    other holds whatever fails, from the stamps alone (`Ordered`): every record
    waited for was issued before the wait, and a call that fails issues a part of
    what it would have issued, in the same order;
  * the resampler (`StreamResamplesAsWhole`), for every pair of rates, filter
    width and cut into pushes: the buffer is the input from `base` on and never
    loses a sample that an output still to be made reads (`BufferHeld`); an output
    is made only when no later sample can change it (`Final`), so the outputs so
    far are those of the input so far; and the last ones are as many as
    `n_out` says. The least output that is not final exists by well-foundedness
    of the naturals;
  * the life of contexts (`ContextsFreeOnce`, `OnlyStagedLayersFreedWrong`), for
    any number of clones: the invariant is a ledger by stage, of what may exist
    while the first context comes up (`Early`, `OnGpuUp`) and once there are
    clones (`Served`); the pool's reference count is the number of contexts that
    share it (`PoolShared`), and host copies belong to the model until they move
    (`WeightsHeld`). The second theorem has no hypothesis: with `--gpu-layers`
    too, what is freed wrong is a staged layer of a model that fits, and nothing
    borrowed goes before its borrower;
  * the sessions of a slot (`SlotsLeftClean`, `SessionsReadWhatWasAsked`), for
    every way to open them and every failure. No helper allocates or frees
    anything but what the session holds (`Keeps` in the proofs), so what is alive
    and not held is exactly what is parked (`AllKept`); adopting and parking move
    both sides at once. `DeviceHolds` says which token and which windows are
    really on the device when `tok_dev_id` and `first`, `n` say so, and `ClipTold`
    which texts a clip has.

Only model-checked: everything about fairness (`ReserveReturns`,
`CallersAnswered`, `AcquireReturns`, `RequestsAnswered`, `CallsEnd`,
`StopReturns`, `CallsReturn`, `CallReturns`), which is out of the prover's reach;
`Frontend`, whose planner sorts and folds over jobs and needs induction over
data; and the suites of `MCParts` that are instances there: `ModelLoad`, `Linear`,
`Attention`, `Encoder`, `EncoderArena`, `TextOut` and `Tokenizer` are algorithms
over finitely many chosen inputs, with folds and recursive definitions.

## Findings

* `http_stop_safe`: `vv_server_run` frees `sv` before it clears the handle, and
  `vv_http_serve` frees `s` while a stop may still be between its writes to it.
  `server.h` calls a stop "safe from a signal handler".
* `decode_tail`: a prompt one row longer than a whole number of prefill chunks
  ends in a pass of one row, which `decoder_layer_impl` takes for a decode step
  (`decoder.c:735`): the row uses the device's length, which a prefill has not
  published, and is written at position 0.

Seen while modelling, without a run of their own:

* the layer loops drop the status of `vv_layer_prefetch_begin` and
  `vv_layer_prefetch_wait` (`decoder.c:1063`, `1067`, `1069`, and `1197`, `1202`,
  `1204`), and `vv_layer_pool_stage` returns from a failed copy with some tensors
  moved and the slot nobody's (`decoder.c:142-150`). The layer then runs with some
  pointers into the slot and some on the host, and stays so: the next stage skips
  what was moved, packs the rest over it and forgets its host pointers. After a
  failed wait it runs before its weights have landed, where `inference.h:289` says
  "Block the compute stream until layer `layer_idx` has landed".
  `LayerStream` behaves so: TLC refutes `ReadsOwnLayer` with one fault, in six
  states;
* the frame that opens a segment is in the pre-roll and is appended again
  (`vad.c:197`, `203-207`), where `capture.h:104` speaks of "Audio kept before the
  trigger"; `SegmentsInOrder` has it at both places;
* `vv_inference_generate` cuts the answer at a stop string and breaks before
  `on_text` (`pipeline.c:3646`, on the CPU `3487`): a beginning of the string that
  was streamed with earlier tokens is not in the answer, and text of the last
  token in front of the string is in the answer and was not streamed, where
  `inference.h:664` promises each new piece of text;
* `arena_layout` cuts the hidden buffer of an arena of few items and little audio
  below the tile its own comment asks for (`vae_gpu.c:323`, `340`), and a call on
  it overflows half way through its layers (`vae_gpu.c:590`);
* `handle_chat` hands `count_request` milliseconds where every other caller hands
  it seconds (`api.c:1115`); a failed chat completion, and a WebSocket session
  that cannot be opened, are not in `vibevoice_errors_total` (`api.c:235`,
  `api.c:1112`, `api.c:965`);
* `drain` returns OK for "no window left" before it reads the flag
  (`stream.c:675`), so a cancel during `vv_stream_finish` after the last chunk
  lets the session end with DONE, where `stream.h:428` promises
  VV_ERR_CANCELLED;
* a stop between the publishing of the handle (`api.c:1324`) and the listening
  socket (`http.c:505`) finds `sv->http` NULL and has no effect;
* a window larger than three quarters of a launch waits for a long file although
  it is the shorter job (`frontend.c:567`, `frontend.h:22`). It takes a very
  small `VV_ENC_BATCH_SEC`;
* `transcribe_cpu` leaves its loop on a failed step without keeping the status
  (`pipeline.c`, near 3045), so a transcription cut short is reported as ok;
  `AnswersComplete` excludes that one call. There too a failed `vv_realloc` is
  read through, which is the state `crashed` of `DecodeLoop`;
* a stop string on the last allowed token of `vv_inference_generate` reports
  "length" (`pipeline.c`, 3723);
* with `--gpu-layers` a clone takes the pool of a model that fits
  (`pipeline.c:1310`) and `vv_inference_free` frees interior pointers; placements
  that stream layers leak on a failed start;
* the capture thread of `mic.c` moves `tail` when the ring is full (`mic.c:77`)
  while the reader moves it too; after a failed thread start the ALSA handle is
  closed twice;
* a mixed checkpoint whose SmoothQuant maps name only one side of a pair loads
  unbalanced (`loader.c:940`);
* `gpu_open` may park an encode-ahead whose events could not be created; every
  later session on that slot opens and fails at its first window
  (`stream_ctx.c:545`);
* `next_piece` steps back by one byte at the end of a run of spaces
  (`bpe.c:537`), which splits a space of several bytes.

## Plan

Modelled first was what the threads share, then the decode loop and the device's
streams, then loading, life times, kernels, encoder, audio and text. Left, in
this order:

1. the whole: `Server` over `KvPool` and `StreamSession` or `Frontend`, for the
   question whether requests that hold places, slots and pages can hold each
   other up;
2. an abstract specification of the front end (each job answered once);
3. WebSocket framing, and the int8 encoder (`vae_i8.c`).

To prove: the queue protocol of `Frontend` without its planner.

## Not modelled

* Numbers: what a kernel computes in floating point, rounding of quantised
  weights, softmax, filters, levels. The model keeps which element meets which.
* The BitNet language model on the CPU, the CPU kernels, Metal, the elementwise
  CUDA kernels, the int8 encoder and the connector: straight-line numerics of
  one thread whose control is a loop over rows.
* The upload of weights, the placement arithmetic and the calibration that
  decide how many layers fit.
* Parsers and formats: HTTP requests, multipart bodies, WebSocket framing, JSON,
  safetensors and GGUF headers, WAV and other audio files, responses.
* `chat_prompt.c`, the family table and the vocabulary's hash tables: lookups.
* The command line, core services, device enumeration and child processes: they
  run once at start, or belong to the operating system. `third_party` is
  vendored.

`PROJECT.json` lists each of these with its sources.
