----------------------------- MODULE DecodeLoop -----------------------------
(***************************************************************************)
(* One request on one inference context: prompt, chunked prefill, and the  *)
(* autoregressive loop that replays a captured decode step                 *)
(* (src/inference/pipeline.c, src/inference/decoder.c, and the length      *)
(* bookkeeping of src/inference/kv_cache.c).                               *)
(*                                                                         *)
(* The length of a cache is kept twice: current_len on the host, which     *)
(* bounds checks and prefill use, and d_len / d_len_next on the device,    *)
(* which a replayed step reads.  The model keeps both, per device of a     *)
(* sharded model, and where every row of the sequence was really written.  *)
(* Row r of a request is its r-th prompt row or, past the prompt, its      *)
(* (r - prompt)-th token; it belongs at position r - 1.                    *)
(*                                                                         *)
(* A stream runs its kernels in order and hand_off orders the streams of   *)
(* two devices, so the effect of a launch is shown at the launch.  Which   *)
(* token the head picks, and which call of the device or the allocator     *)
(* fails, is a choice.                                                     *)
(***************************************************************************)
EXTENDS Integers, FiniteSets

CONSTANTS
    MaxShards,      \* devices past the primary
    Window,         \* kv->max_seq_len
    PageSize,       \* VV_KV_PAGE_SIZE
    Prompts,        \* prompt lengths requests have
    MaxNews,        \* params->max_new_tokens
    Chunk,          \* rows of one prefill pass
    ShapeStep,      \* positions over which one launch shape is valid
    Expected,       \* decode length admission counts on
    OutCap          \* tokens the output buffer starts with

ASSUME DecodeAssumption ==
    /\ MaxShards \in Nat
    /\ {Window, PageSize, Chunk, ShapeStep, Expected, OutCap} \subseteq Nat \ {0}
    /\ Prompts \subseteq Nat \ {0} /\ MaxNews \subseteq Nat \ {0}

VARIABLES
    conf,           \* how the context was placed
    pc, op,         \* where the call is; "transcribe" or "generate"
    prompt, maxNew, \* seq_len; max_new_tokens
    slice, start,   \* the device whose layers run; rows already prefilled
    host,           \* kv->current_len, per device
    dev, nxt,       \* *d_len, *d_len_next
    cells,          \* the row a position holds, 0 when none of this request
    att,            \* positions the last attention of a device covered
    pages,          \* kv->n_pages of the primary, when it is paged
    graph,          \* graphs[i].shape
    held,           \* memory the call owns
    tok, n,         \* the token at hand; n_generated
    why,            \* history: what ended the loop
    ret,            \* the last result
    stray           \* history: a row was written outside what the cache owns

call == <<conf, op, prompt, maxNew>>
lens == <<host, dev, nxt, cells, att>>
vars == <<call, pc, slice, start, lens, pages, graph, held, tok, n, why, ret,
          stray>>

None == -1          \* graphs[i].shape before a capture
GaveUp == -2        \* VV_GRAPH_GAVE_UP

Min2(a, b) == IF a < b THEN a ELSE b
PagesFor(k) == (k + PageSize - 1) \div PageSize

\* The placements a context can have: only an unsharded device cache is
\* paged, and only resident layers on a device are captured.
Conf == {c \in [cpu : BOOLEAN, shards : 0..MaxShards, paged : BOOLEAN,
                graphs : BOOLEAN] :
            /\ c.cpu => c.shards = 0 /\ ~c.paged /\ ~c.graphs
            /\ c.paged => c.shards = 0}

Devices == 0..conf.shards
Positions == 0..(Window - 1)
Everywhere(x) == [i \in 0..MaxShards |-> x]

Whys == {"none", "refused", "fail", "end", "max", "stop", "cancel", "window"}

Results == [op : {"none", "transcribe", "generate"},
            status : {"none", "ok", "error", "OVERFLOW", "EXHAUSTED"},
            n : Nat, why : Whys]

Init ==
    /\ conf \in Conf
    /\ pc = "idle" /\ op = "none" /\ prompt = 0 /\ maxNew = 0
    /\ slice = 0 /\ start = 0
    /\ host = Everywhere(0) /\ dev = Everywhere(0) /\ nxt = Everywhere(0)
    /\ cells = Everywhere([p \in Positions |-> 0]) /\ att = Everywhere(0)
    /\ pages = 0 /\ graph = Everywhere(None) /\ held = {}
    /\ tok = "none" /\ n = 0 /\ why = "none"
    /\ ret = [op |-> "none", status |-> "none", n |-> 0, why |-> "none"]
    /\ stray = FALSE

----------------------------------------------------------------------------
\* vv_kv_cache_reset of every device.  What earlier requests left in a cache
\* is worth nothing to this one, so its cells count as empty.
ResetAll ==
    /\ host' = Everywhere(0) /\ dev' = Everywhere(0) /\ nxt' = Everywhere(0)
    /\ cells' = Everywhere([p \in Positions |-> 0]) /\ att' = Everywhere(0)
    /\ pages' = 0

\* The call answers and the caller has the context back.  Idle contexts keep
\* no pages: transcribe and generate both release them on the way out.
Answer(status, freed) ==
    /\ ret' = [op |-> op, status |-> status, n |-> n, why |-> why']
    /\ held' = held \ freed
    /\ pages' = 0
    /\ pc' = "idle"
    /\ graph' = Everywhere(None)

Stay == UNCHANGED <<call, slice, start, lens, tok, n, stray>>

Fail(status, freed) ==
    /\ why' = "fail"
    /\ Answer(status, freed)
    /\ Stay

----------------------------------------------------------------------------
\* What every call starts with: its caches reset, its graphs empty.
Start(kind, p, m, mem) ==
    /\ pc = "idle"
    /\ op' = kind /\ prompt' = p /\ maxNew' = m
    /\ ResetAll
    /\ held' = held \cup mem /\ n' = 0 /\ tok' = "none" /\ why' = "none"
    /\ graph' = Everywhere(None) /\ slice' = 0 /\ start' = 0
    /\ UNCHANGED <<conf, ret, stray>>

\* transcribe_gpu up to its admission: the prompt is built from the number
\* of frames the audio will have, before any of it is encoded.
Transcribe(p, m) ==
    /\ ~conf.cpu
    /\ Start("transcribe", p, m, {"ids"})
    /\ pc' = IF conf.paged THEN "admit" ELSE "build"

\* transcribe_cpu up to its prompt: the audio is encoded first.
TranscribeCpu(p, m) ==
    /\ conf.cpu
    /\ Start("transcribe", p, m, {})
    /\ pc' = "encode"

\* The tokens a generation may still produce after its prompt.
AnswerCap(p, m) == Min2(m, Window - p)

\* vv_inference_generate up to its admission: the answer is cut to what the
\* window leaves, and a prompt that fills the window is refused.
Generate(p, m) ==
    /\ p < Window
    /\ Start("generate", p, AnswerCap(p, m), {"ids", "answer"})
    /\ pc' = IF conf.paged THEN "admit" ELSE "build"

GenerateTooLong(p) ==
    /\ pc = "idle" /\ p >= Window
    /\ ret' = [op |-> "generate", status |-> "OVERFLOW", n |-> 0,
               why |-> "refused"]
    /\ UNCHANGED <<call, pc, slice, start, lens, pages, graph, held, tok, n,
                   why, stray>>

\* kv_admit_positions for a transcription, the whole answer for a generation.
AdmitPositions ==
    IF op = "transcribe" THEN Min2(prompt + Min2(Expected, maxNew), Window)
                         ELSE prompt + maxNew

\* Admission: the expected pages before any work, or no request.
Admit ==
    /\ pc = "admit"
    /\ \/ /\ pages' = PagesFor(AdmitPositions)
          /\ pc' = "build"
          /\ UNCHANGED <<call, slice, start, lens, graph, held, tok, n, why,
                         ret, stray>>
       \/ Fail("EXHAUSTED", {"ids", "answer"})

Advance(to, mem) ==
    /\ pc' = to /\ held' = mem
    /\ UNCHANGED <<call, slice, start, lens, pages, graph, tok, n, why, ret,
                   stray>>

\* The hidden rows on the device: embedding of the prompt, then the front end
\* or the int8 encoder writes the speech rows over it.
BuildRows ==
    /\ pc = "build" /\ op = "transcribe" /\ ~conf.cpu
    /\ \/ Advance("prefill", (held \ {"ids"}) \cup {"hidden"})
       \/ Fail("error", {"ids"})

\* The two encoders and connectors on the host, summed into one block.
EncodeCpu ==
    /\ pc = "encode"
    /\ \/ Advance("build", held \cup {"features"})
       \/ Fail("error", {})

\* The prompt and its embedding on the host, the features laid over it.
BuildRowsCpu ==
    /\ pc = "build" /\ op = "transcribe" /\ conf.cpu
    /\ \/ Advance("prefill", (held \ {"features"}) \cup {"hidden"})
       \/ Fail("error", {"features"})

\* The working buffers of a generation and the embedding of its prompt; the
\* ids are kept until the way out.
BuildPrompt ==
    /\ pc = "build" /\ op = "generate"
    /\ \/ Advance("prefill", held \cup {"hidden", "work"})
       \/ Fail("error", {"ids", "answer"})

----------------------------------------------------------------------------
(* The layers of one device over `len` rows from row `first` on.           *)

\* decoder_layer_impl and vv_kv_cache_append: one row on a device cache
\* takes its position, and how far it attends, from the device.
DevicePosition(len) == len = 1 /\ ~conf.cpu

WriteAt(i, pos, first, len) ==
    [p \in Positions |-> IF p >= pos /\ p < pos + len THEN first + (p - pos)
                                                      ELSE cells[i][p]]

Owned(p) == p < Window /\ (conf.paged => p < pages' * PageSize)

\* Positions the attention of the pass covers; what follows it in the layer
\* touches no cache.
Attends(i, len, dn) == IF DevicePosition(len) THEN dn ELSE host[i] + len

RunLayers(i, first, len, d, dn) ==
    LET pos == IF DevicePosition(len) THEN d ELSE host[i]
    IN  /\ cells' = [cells EXCEPT ![i] = WriteAt(i, pos, first, len)]
        /\ att' = [att EXCEPT ![i] = Attends(i, len, dn)]
        /\ stray' = (stray \/ ~Owned(pos + len - 1))

\* prefill_all_shards and hand_off: the last chunk of a device hands the
\* hidden state to the next one, which starts over at the first row.
HandOff(last) ==
    /\ slice' = IF last THEN (slice + 1) % (conf.shards + 1) ELSE slice
    /\ pc' = IF last /\ slice = conf.shards THEN "first" ELSE "prefill"

\* vv_decoder_prefill: one chunk of the prompt through the layers of device
\* `slice`.
PrefillChunk ==
    /\ pc = "prefill" /\ ~conf.cpu /\ prompt <= Window
    /\ LET len == Min2(Chunk, prompt - start)
           last == start + len = prompt
       IN  /\ pages' = pages
           /\ RunLayers(slice, start + 1, len, dev[slice], nxt[slice])
           /\ host' = [host EXCEPT ![slice] = @ + len]
           /\ start' = IF last THEN 0 ELSE start + len
           /\ HandOff(last)
    /\ UNCHANGED <<call, dev, nxt, graph, held, tok, n, why, ret>>

\* vv_decoder_prefill_cpu: the whole prompt, layer by layer.
PrefillCpu ==
    /\ pc = "prefill" /\ conf.cpu /\ prompt <= Window
    /\ pages' = pages
    /\ RunLayers(0, 1, prompt, dev[0], nxt[0])
    /\ host' = [host EXCEPT ![0] = @ + prompt]
    /\ pc' = "first"
    /\ UNCHANGED <<call, slice, start, dev, nxt, graph, held, tok, n, why, ret>>

\* What a request owns before its loop, and what a way out before it frees.
Owned0 == {"ids", "answer", "hidden", "work"}

PrefillFails ==
    /\ pc = "prefill"
    /\ Fail(IF prompt > Window THEN "OVERFLOW" ELSE "error", Owned0)

\* vv_kv_cache_publish_len of every device: from here the kernels read the
\* length there.
Publish ==
    /\ dev' = [i \in 0..MaxShards |-> host[i]]
    /\ nxt' = [i \in 0..MaxShards |-> host[i] + 1]

\* transcribe_gpu: the decode buffers, the first token off the last prompt
\* row, the output buffer it goes to, and the lengths handed over.
FirstToken(t) ==
    /\ pc = "first" /\ op = "transcribe" /\ ~conf.cpu
    /\ tok' = t /\ n' = IF t = "word" THEN 1 ELSE 0
    /\ held' = (held \ {"hidden"}) \cup {"work", "out"}
    /\ Publish
    /\ pc' = "loop"
    /\ UNCHANGED <<call, slice, start, host, cells, att, pages, graph, why,
                   ret, stray>>

\* The same on the host, which keeps no second length.
FirstTokenCpu(t) ==
    /\ pc = "first" /\ op = "transcribe" /\ conf.cpu
    /\ tok' = t /\ n' = IF t = "word" THEN 1 ELSE 0
    /\ held' = (held \ {"hidden"}) \cup {"work", "out"}
    /\ pc' = "loop"
    /\ UNCHANGED <<call, slice, start, lens, pages, graph, why, ret, stray>>

\* A generation's first token is only counted when the loop emits it.
FirstAnswer(t) ==
    /\ pc = "first" /\ op = "generate"
    /\ tok' = t
    /\ held' = held \ {"hidden"}
    /\ IF conf.cpu THEN UNCHANGED <<dev, nxt>> ELSE Publish
    /\ pc' = "loop"
    /\ UNCHANGED <<call, slice, start, host, cells, att, pages, graph, n, why,
                   ret, stray>>

FirstFails ==
    /\ pc = "first"
    /\ Fail("error", Owned0)

----------------------------------------------------------------------------
(* The loop.                                                               *)

\* The while condition of the three loops: an end token, or <|im_start|> in
\* a generation, or the cap.
LoopEnds ==
    /\ pc = "loop"
    /\ tok # "word" \/ n >= maxNew
    /\ why' = IF tok # "word" THEN "end" ELSE "max"
    /\ pc' = "finish"
    /\ UNCHANGED <<call, slice, start, lens, pages, graph, held, tok, n, ret,
                   stray>>

\* A generation counts and emits its token before the step; a stop string or
\* the caller's callback ends it there.
Emit ==
    /\ pc = "loop" /\ op = "generate" /\ tok = "word" /\ n < maxNew
    /\ n' = n + 1
    /\ \/ pc' = "step" /\ why' = why
       \/ pc' = "finish" /\ why' \in {"stop", "cancel"}
    /\ UNCHANGED <<call, slice, start, lens, pages, graph, held, tok, ret,
                   stray>>

Embed ==
    /\ pc = "loop" /\ op = "transcribe" /\ tok = "word" /\ n < maxNew
    /\ pc' = "step"
    /\ UNCHANGED <<call, slice, start, lens, pages, graph, held, tok, n, why,
                   ret, stray>>

\* The vv_attn_decode_shape a captured step must have been captured for.
ShapeFor(len) == len \div ShapeStep

\* The row fed now is the token emitted last.
FedRow == prompt + n

NextDevice ==
    /\ slice' = IF slice = conf.shards THEN 0 ELSE slice + 1
    /\ pc' = IF slice = conf.shards THEN "head" ELSE "step"

\* A page for this position (vv_kv_cache_reserve_wait), taken before the step
\* and outside any capture.
TakePage ==
    pages' = IF conf.paged /\ pages < PagesFor(host[slice] + 1)
             THEN PagesFor(host[slice] + 1) ELSE pages

\* The device's share of a step: d_len_next, the layers at d_len, d_len.
DeviceStep(i) ==
    /\ RunLayers(i, FedRow, 1, dev[i], dev[i] + 1)
    /\ IF conf.cpu THEN UNCHANGED <<dev, nxt>>
       ELSE /\ nxt' = [nxt EXCEPT ![i] = dev[i] + 1]
            /\ dev' = [dev EXCEPT ![i] = @ + 1]

\* vv_decoder_step_cpu: the token's row through every layer on the host.
StepCpu ==
    /\ pc = "step" /\ conf.cpu /\ host[slice] < Window
    /\ TakePage
    /\ DeviceStep(slice)
    /\ host' = [host EXCEPT ![slice] = @ + 1]
    /\ NextDevice
    /\ UNCHANGED <<call, start, graph, held, tok, n, why, ret>>

\* step_slice without a graph: vv_decoder_step advances the host length as
\* its last layer appends.
StepDirect ==
    /\ pc = "step" /\ ~conf.cpu /\ host[slice] < Window
    /\ ~conf.graphs \/ graph[slice] = GaveUp
    /\ TakePage
    /\ DeviceStep(slice)
    /\ host' = [host EXCEPT ![slice] = @ + 1]
    /\ NextDevice
    /\ UNCHANGED <<call, start, graph, held, tok, n, why, ret>>

\* Mutant: the length the recording advanced is kept.
AfterRecording(i) == host[i] + 1

\* The length the host is left with once the step has been recorded: the
\* recorded host code advanced it and nothing ran on the device.
AfterCapture(i) == host[i]

\* step_slice with a graph: captured again when the launch shape changed,
\* then launched; the launch advances the host length.
StepReplay ==
    /\ pc = "step" /\ host[slice] < Window
    /\ conf.graphs /\ graph[slice] # GaveUp
    /\ TakePage
    /\ LET want == ShapeFor(host[slice] + 1)
           len == IF want # graph[slice] THEN AfterCapture(slice)
                                         ELSE host[slice]
       IN  /\ graph' = [graph EXCEPT ![slice] = want]
           /\ host' = [host EXCEPT ![slice] = len + 1]
    /\ DeviceStep(slice)
    /\ NextDevice
    /\ UNCHANGED <<call, start, held, tok, n, why, ret>>

\* The step cannot be captured: launched kernel by kernel from now on.
StepGivesUp ==
    /\ pc = "step" /\ host[slice] < Window
    /\ conf.graphs /\ graph[slice] # GaveUp
    /\ ShapeFor(host[slice] + 1) # graph[slice]
    /\ TakePage
    /\ graph' = [graph EXCEPT ![slice] = GaveUp]
    /\ DeviceStep(slice)
    /\ host' = [host EXCEPT ![slice] = AfterCapture(slice) + 1]
    /\ NextDevice
    /\ UNCHANGED <<call, start, held, tok, n, why, ret>>

\* What the loop's ways out free.
Loaned == {"ids", "answer", "work", "out"}

\* Mutant: every path breaks out and post-processes what it has.
LoopBreaksQuietly(status) ==
    /\ why' = "fail" /\ pc' = "finish"
    /\ UNCHANGED <<call, slice, start, lens, pages, graph, held, tok, n, ret,
                   stray>>

\* What an error in the loop does: the CPU transcription breaks out of the
\* loop and post-processes what it has, everything else fails the request.
LoopBreaks(status) ==
    IF conf.cpu /\ op = "transcribe"
    THEN /\ why' = "fail" /\ pc' = "finish"
         /\ UNCHANGED <<call, slice, start, lens, pages, graph, held, tok, n,
                        ret, stray>>
    ELSE Fail(status, Loaned)

\* Mutant: a full window is waited out.
StepWaitsForRoom ==
    /\ pc = "step" /\ host[slice] >= Window
    /\ UNCHANGED vars

\* This request's own window is full: the transcript ends there.
StepOverflows ==
    /\ pc = "step" /\ host[slice] >= Window
    /\ why' = "window" /\ pc' = "finish" /\ slice' = 0
    /\ UNCHANGED <<call, start, lens, pages, graph, held, tok, n, ret, stray>>

\* The shared pool has no page, or a launch, a copy or the embedding failed.
StepFails ==
    /\ pc = "step" /\ host[slice] < Window
    /\ \/ conf.paged /\ pages < PagesFor(host[slice] + 1)
          /\ Fail("EXHAUSTED", Loaned)
       \/ LoopBreaks("error")

\* vv_pipeline_head_argmax / head_host: the next token, and in a
\* transcription the output it goes to.
Head(t) ==
    /\ pc = "head"
    /\ tok' = t
    /\ n' = IF op = "transcribe" /\ t = "word" THEN n + 1 ELSE n
    /\ pc' = "loop"
    /\ UNCHANGED <<call, slice, start, lens, pages, graph, held, why, ret,
                   stray>>

HeadFails ==
    /\ pc = "head"
    /\ LoopBreaks("error")

\* The output buffer cannot grow.  The device path fails the request and has
\* lost the block; the CPU path goes on to read the tokens through NULL.
GrowFails ==
    /\ pc = "head" /\ op = "transcribe" /\ n >= OutCap
    /\ IF conf.cpu
       THEN /\ pc' = "crashed"
            /\ UNCHANGED <<call, slice, start, lens, pages, graph, held, tok,
                           n, why, ret, stray>>
       ELSE Fail("error", {"work"})

Crashed == pc = "crashed" /\ UNCHANGED vars

\* transcribe_gpu from the end of its loop: post-processing, graphs and
\* buffers freed, then the dispatcher hands the pages back.
Finish ==
    /\ pc = "finish" /\ op = "transcribe" /\ ~conf.cpu
    /\ why' = why
    /\ \E status \in {"ok", "error"} : Answer(status, {"work", "out"})
    /\ Stay

\* transcribe_cpu from the end of its loop: whatever ended it, the status is
\* post-processing's.
FinishCpu ==
    /\ pc = "finish" /\ op = "transcribe" /\ conf.cpu
    /\ why' = why
    /\ \E status \in {"ok", "error"} : Answer(status, {"work", "out"})
    /\ Stay

\* vv_inference_generate from `done`: the answer becomes the caller's, or is
\* freed with the rest.
FinishAnswer ==
    /\ pc = "finish" /\ op = "generate"
    /\ why' = why
    /\ \E status \in {"ok", "error"} : Answer(status, {"ids", "answer", "work"})
    /\ Stay

----------------------------------------------------------------------------
Tokens == {"word", "end"}

Next ==
    \/ \E p \in Prompts, m \in MaxNews :
          Transcribe(p, m) \/ TranscribeCpu(p, m) \/ Generate(p, m)
    \/ \E p \in Prompts : GenerateTooLong(p)
    \/ Admit \/ BuildRows \/ EncodeCpu \/ BuildRowsCpu \/ BuildPrompt
    \/ PrefillChunk \/ PrefillCpu \/ PrefillFails
    \/ \E t \in Tokens :
          FirstToken(t) \/ FirstTokenCpu(t) \/ FirstAnswer(t) \/ Head(t)
    \/ FirstFails \/ LoopEnds \/ Emit \/ Embed
    \/ StepCpu \/ StepDirect \/ StepReplay \/ StepGivesUp \/ StepOverflows \/ StepFails
    \/ HeadFails \/ GrowFails \/ Crashed
    \/ Finish \/ FinishCpu \/ FinishAnswer

Spec == Init /\ [][Next]_vars

\* A call runs on its caller's thread and every wait in it is a wait for the
\* device; the caller may stay away.
FairSpec == Spec /\ WF_vars(pc # "idle" /\ Next)

----------------------------------------------------------------------------
TypeOK ==
    /\ conf \in Conf
    /\ pc \in {"idle", "admit", "encode", "build", "prefill", "first", "loop", "step",
               "head", "finish", "crashed"}
    /\ op \in {"none", "transcribe", "generate"}
    /\ prompt \in Nat /\ maxNew \in Nat /\ n \in Nat /\ start \in Nat
    /\ slice \in 0..MaxShards
    /\ host \in [0..MaxShards -> Nat] /\ dev \in [0..MaxShards -> Nat]
    /\ nxt \in [0..MaxShards -> Nat] /\ att \in [0..MaxShards -> Nat]
    /\ cells \in [0..MaxShards -> [Positions -> Nat]]
    /\ pages \in Nat /\ graph \in [0..MaxShards -> {None, GaveUp} \cup Nat]
    /\ held \subseteq Owned0 \cup Loaned \cup {"features"}
    /\ ret \in Results /\ stray \in BOOLEAN

\* A transcription has counted the token it is about to feed.
Waiting == IF pc = "loop" /\ op = "transcribe" /\ tok = "word" THEN 1 ELSE 0

(* Every row sits at its own position on every device whenever the loop    *)
(* looks for the next token: the rows of the prompt and of every token fed *)
(* so far, no other, with the host, the device and the last attention      *)
(* agreeing on how many there are.  A capture that left the length         *)
(* advanced, a device whose length was not published, or a row written     *)
(* through the wrong length breaks it.                                     *)
CacheHoldsSequence ==
    pc \in {"loop", "head"} =>
        \A i \in Devices :
            /\ host[i] = prompt + n - Waiting
            /\ ~conf.cpu => dev[i] = host[i]
            /\ att[i] = host[i]
            /\ \A p \in Positions :
                  cells[i][p] = IF p < host[i] THEN p + 1 ELSE 0

(* No row is ever written past the window or into a page the request does  *)
(* not hold: a replayed step runs none of the checks of                    *)
(* vv_kv_cache_append, so step_slice has to have made them.                *)
WritesAreOwned == ~stray

(* What the decode loop keeps for the model: its rows, each in its place   *)
(* and in memory the request holds (vv_kv_cache_append, step_slice,        *)
(* graph_capture).                                                         *)
RowsInPlace == TypeOK /\ CacheHoldsSequence /\ WritesAreOwned

(* An answer that says ok is complete: it ended at an end token, at the    *)
(* caller's cap, stop string or cancel, or at the request's own full       *)
(* window - never at a step that failed or a pool that ran dry.            *)
OkMeansComplete ==
    ret.status = "ok" /\ ~(conf.cpu /\ ret.op = "transcribe")
        => ret.why # "fail"

(* A generation never meets the end of its window: its cap was cut to what *)
(* the prompt left, counting the step each token costs.                    *)
GenerationFits == op = "generate" => why # "window"

(* An idle context holds nothing of a request that is over: no pages       *)
(* another slot could use, no graph, no buffer.  (A realloc that fails     *)
(* loses the output block.)                                                *)
IdleHoldsNothing ==
    pc = "idle" => pages = 0 /\ held \subseteq {"out"}
                   /\ \A i \in Devices : graph[i] = None

(* What a caller of vv_inference_transcribe or vv_inference_generate may   *)
(* rely on when it has its answer, and what the next caller finds.         *)
AnswersComplete == OkMeansComplete /\ GenerationFits /\ IdleHoldsNothing

----------------------------------------------------------------------------
(* What makes the two inductive.                                           *)

\* A prompt whose last prefill chunk is a single row.
OneRowTail(p) == \E k \in 0..p : p = k * Chunk + 1

\* The call at hand: its kind, its path and what may end it.
CallSane ==
    /\ why \in Whys
    /\ slice \in Devices
    /\ pc # "idle" => op # "none" /\ prompt > 0
    /\ op = "generate" => prompt + maxNew <= Window /\ n <= maxNew
    /\ pc = "admit" => ~conf.cpu
    /\ pc = "encode" => conf.cpu /\ op = "transcribe"
    /\ pc = "finish" /\ why = "fail" => conf.cpu /\ op = "transcribe"

\* The length of every device at every point of the call, in rows of the
\* request; the device's own length once it has been published.
LengthsAgree ==
    /\ pc \in {"admit", "encode", "build", "first", "loop", "head"} => slice = 0
    /\ pc \in {"admit", "encode", "build", "first", "loop", "step", "head"} => start = 0
    /\ pc \in {"admit", "encode", "build", "prefill", "first"} => n = 0
    /\ pc = "prefill" => /\ start < prompt
                         /\ conf.cpu => start = 0
                         /\ \E k \in 0..start : start = k * Chunk
    /\ \A i \in Devices :
          /\ pc \in {"admit", "encode", "build"} => host[i] = 0
          /\ pc \in {"admit", "encode", "build", "prefill"} => dev[i] = 0
          /\ pc = "prefill" => host[i] = IF i < slice THEN prompt
                                         ELSE IF i = slice THEN start ELSE 0
          /\ pc = "first" => host[i] = prompt
          /\ pc \in {"loop", "head"} => host[i] = prompt + n - Waiting
          /\ pc = "step" => host[i] = prompt + n - (IF i < slice THEN 0 ELSE 1)
          /\ pc \in {"loop", "step", "head"} /\ ~conf.cpu => dev[i] = host[i]

\* Every row that a device has, at its own place and attended to.
RowsPlaced ==
    conf.cpu \/ ~OneRowTail(prompt) =>
        \A i \in Devices :
            /\ att[i] = host[i]
            /\ \A p \in Positions : cells[i][p] = IF p < host[i] THEN p + 1 ELSE 0

\* Admission took the pages of the prompt.
PagesCover ==
    conf.paged /\ prompt <= Window /\ pc \in {"build", "prefill"} =>
        prompt <= pages * PageSize

\* The memory a call can own where it is; a lost output block stays lost.
HeldAt ==
    CASE pc = "idle" -> {}
      [] pc = "encode" -> {}
      [] pc = "admit" -> IF op = "generate" THEN {"ids", "answer"} ELSE {"ids"}
      [] pc = "build" -> IF op = "generate" THEN {"ids", "answer"}
                         ELSE IF conf.cpu THEN {"features"} ELSE {"ids"}
      [] pc \in {"prefill", "first"} -> IF op = "generate" THEN Owned0 ELSE {"hidden"}
      [] OTHER -> IF op = "generate" THEN {"ids", "answer", "work"} ELSE {"work"}

HeldIsOurs == held \subseteq HeldAt \cup {"out"}

IInv ==
    /\ TypeOK /\ WritesAreOwned /\ AnswersComplete
    /\ CallSane /\ LengthsAgree /\ RowsPlaced /\ PagesCover /\ HeldIsOurs

(* Every call returns: the loop is bounded by the cap and the window.      *)
CallReturns == (pc # "idle") ~> (pc \in {"idle", "crashed"})

=============================================================================
