--------------------------- MODULE StreamSession ---------------------------
(***************************************************************************)
(* A streaming session: the chunker that cuts pushed PCM into windows and  *)
(* the session that runs them (src/inference/stream.c), over the encode-   *)
(* ahead of the GPU backend (src/inference/stream_ctx.c).                  *)
(*                                                                         *)
(* One thread makes the calls; vv_stream_cancel comes from any thread and  *)
(* from inside the event callback, so every read of the flag, every call   *)
(* of the backend and every emitted event is a step of its own.  Every     *)
(* failure other than a cancel or a full cache - of the backend or of an   *)
(* allocation - is the status "FAILED".                                    *)
(*                                                                         *)
(* Samples and tokens are numbers, as in ChunkedProtocol.  The text        *)
(* emitter is a buffer that releases any prefix of what it holds; one frame*)
(* is one sample.                                                          *)
(***************************************************************************)
EXTENDS Integers, Sequences

CONSTANTS
    Chunk, Lookahead,   \* geom.chunk_frames, geom.lookahead_frames
    PromptLen,          \* tokens of the prompt
    Capacity,           \* be.kv_capacity
    MaxNew,             \* p.max_new_tokens
    AheadMax,           \* VV_STREAM_AHEAD_MAX
    MaxTotal            \* bound: samples pushed to a session

ASSUME StreamAssumption ==
    /\ Chunk \in Nat \ {0} /\ Lookahead \in Nat
    /\ PromptLen \in Nat /\ Capacity \in Nat
    /\ MaxNew \in Nat \ {0}
    /\ AheadMax \in Nat \ {0}
    /\ MaxTotal \in Nat

VARIABLES
    opt,                    \* [fold, ahead]: how the session was set up
    pc, call, ret,          \* where the thread is, in which call, last result
    buf, base, total, nextIdx, finished,   \* the chunker
    todo,                   \* windows popped and not run
    aheadFirst, aheadFeats, \* windows the backend has encoded ahead
    cache, lead,            \* the KV cache; a chunk end still to be fed
    tok, step, tokens,      \* the token at hand, of this chunk, of the session
    held, chunkText, transcript,
    chunks,                 \* stats.chunks
    failed, done, cancel,
    shown,                  \* history: the text of all DELTA events
    final,                  \* history: the last event, when it is DONE or ERROR
    late                    \* history: backend calls begun under a cancel

control == <<pc, call, ret>>
chunker == <<buf, base, total, nextIdx, finished>>
encoded == <<aheadFirst, aheadFeats>>
kv == <<cache, lead>>
decode == <<tok, step, tokens>>
text == <<held, chunkText, transcript, shown>>
status == <<failed, done, final>>
vars == <<opt, control, chunker, todo, encoded, kv, decode, text, chunks,
          status, cancel, late>>

Window == Chunk + Lookahead

Row(kind, v) == [kind |-> kind, v |-> v]
Rows(kind, v, n) == [i \in 1..n |-> Row(kind, v)]
ChunkEnd == <<Row("chunk_end", << >>)>>

Token == {"text", "chunk_end", "eos"}

Smaller(a, b) == IF a < b THEN a ELSE b

RowType ==
    [kind : {"prompt", "start", "feature", "end", "token", "chunk_end"},
     v : Seq(Nat)]
WindowType == [index : Nat, start : Nat, pcm : Seq(Nat)]

Status == {"OK", "CANCELLED", "OVERFLOW", "INVALID_ARG", "FAILED"}

TypeCalls ==
    /\ opt \in [fold : BOOLEAN, ahead : BOOLEAN]
    /\ pc \in {"closed", "idle", "drain", "pop", "encode", "chunk", "prefill",
               "decode", "feed", "step", "end", "append", "emit", "check"}
    /\ call \in {"none", "push", "finish"}
    /\ ret \in Status /\ failed \in Status
    /\ done \in BOOLEAN /\ cancel \in BOOLEAN
    /\ final \in {"none", "DONE", "ERROR"}
    /\ late \in Nat /\ chunks \in Nat

TypeChunker ==
    /\ buf \in Seq(Nat) /\ base \in Nat /\ total \in Nat /\ nextIdx \in Nat
    /\ finished \in BOOLEAN

TypeWindows ==
    /\ todo \in Seq(WindowType)
    /\ aheadFirst \in Nat /\ aheadFeats \in Seq(Seq(Nat))

TypeModel ==
    /\ cache \in Seq(RowType) /\ lead \in BOOLEAN
    /\ tok \in Token /\ step \in 0..MaxNew /\ tokens \in Nat

TypeText ==
    /\ held \in Seq(Nat) /\ chunkText \in Seq(Nat) /\ transcript \in Seq(Nat)
    /\ shown \in Seq(Nat)

TypeOK == TypeCalls /\ TypeChunker /\ TypeWindows /\ TypeModel /\ TypeText

(* A session just allocated, as it is after memset.                        *)
Fresh ==
    /\ call = "none" /\ ret = "OK"
    /\ buf = << >> /\ base = 0 /\ total = 0 /\ nextIdx = 0 /\ finished = FALSE
    /\ todo = << >> /\ aheadFirst = 0 /\ aheadFeats = << >>
    /\ cache = << >> /\ lead = FALSE
    /\ tok = "eos" /\ step = 0 /\ tokens = 0
    /\ held = << >> /\ chunkText = << >> /\ transcript = << >>
    /\ shown = << >>
    /\ chunks = 0
    /\ failed = "OK" /\ done = FALSE /\ cancel = FALSE
    /\ final = "none" /\ late = 0

Init ==
    /\ opt \in [fold : BOOLEAN, ahead : BOOLEAN]
    /\ pc = "closed"
    /\ Fresh

-----------------------------------------------------------------------------
(* The chunker *)

(* vv_stream_chunker_push, of a chunker that is not finished.              *)
chunker_push(n) ==
    /\ buf' = buf \o [i \in 1..n |-> total + i]
    /\ total' = total + n

(* vv_stream_chunker_ready: windows that can be popped now.                *)
ready ==
    IF finished
    THEN IF base >= total THEN 0 ELSE (total - base + Chunk - 1) \div Chunk
    ELSE IF total < base + Window THEN 0
         ELSE (total - base - Window) \div Chunk + 1

(* vv_stream_chunker_next: the window at base, zero-padded; one stride is  *)
(* dropped and the lookahead kept.                                         *)
chunker_next ==
    LET avail == Len(buf)
        valid == Smaller(avail, Window)
        drop == Smaller(avail, Chunk)
        pcm == [j \in 1..Window |-> IF j <= valid THEN buf[j] ELSE 0]
    IN /\ todo' = Append(todo, [index |-> nextIdx, start |-> base, pcm |-> pcm])
       /\ buf' = SubSeq(buf, drop + 1, avail)
       /\ base' = base + Chunk
       /\ nextIdx' = nextIdx + 1
       /\ UNCHANGED <<total, finished>>

-----------------------------------------------------------------------------
(* Returning from a call *)

Return(st) == pc' = "idle" /\ call' = "none" /\ ret' = st /\ todo' = << >>

(* fail: the first failure is kept and, unless it is a cancel, reported.   *)
fail(st) ==
    /\ failed' = IF failed = "OK" THEN st ELSE failed
    /\ final' = IF failed = "OK" /\ st # "CANCELLED" THEN "ERROR" ELSE final
    /\ UNCHANGED done
    /\ Return(failed')

Goto(where) == pc' = where /\ UNCHANGED <<call, ret>>

(* A backend call begins.                                                  *)
Work == late' = IF cancel THEN late + 1 ELSE late

kv_fits(n) == Len(cache) + n <= Capacity

-----------------------------------------------------------------------------
(* Calls *)

(* vv_stream_open and vv_stream_open_backend: the prompt goes into an empty*)
(* cache; a prompt that does not fit, or a backend that refuses it, leaves *)
(* no session.                                                             *)
Open ==
    /\ pc = "closed"
    /\ PromptLen + 1 <= Capacity
    /\ pc' = "idle"
    /\ cache' = Rows("prompt", << >>, PromptLen)
    /\ UNCHANGED <<opt, call, ret, chunker, todo, encoded, lead, decode, text,
                   chunks, status, cancel, late>>

(* vv_stream_push, up to the windows it made ready.                        *)
Push(n) ==
    /\ pc = "idle"
    /\ \/ /\ failed # "OK"
          /\ Return(failed)
          /\ UNCHANGED <<chunker, status>>
       \/ /\ failed = "OK" /\ cancel
          /\ fail("CANCELLED")
          /\ UNCHANGED chunker
       \/ /\ failed = "OK" /\ ~cancel /\ done
          /\ Return("INVALID_ARG")
          /\ UNCHANGED <<chunker, status>>
       \/ /\ failed = "OK" /\ ~cancel /\ ~done
          /\ IF finished THEN fail("INVALID_ARG") /\ UNCHANGED chunker
             ELSE \/ fail("FAILED") /\ UNCHANGED chunker
                  \/ /\ chunker_push(n)
                     /\ pc' = "drain" /\ call' = "push"
                     /\ UNCHANGED <<ret, base, nextIdx, finished, todo, status>>
    /\ UNCHANGED <<opt, encoded, kv, decode, text, chunks, cancel, late>>

(* vv_stream_finish, up to the windows of the tail.                        *)
Finish ==
    /\ pc = "idle"
    /\ \/ /\ failed # "OK"
          /\ Return(failed)
          /\ UNCHANGED <<finished, status>>
       \/ /\ failed = "OK" /\ done
          /\ Return("OK")
          /\ UNCHANGED <<finished, status>>
       \/ /\ failed = "OK" /\ ~done /\ cancel
          /\ fail("CANCELLED")
          /\ UNCHANGED finished
       \/ /\ failed = "OK" /\ ~done /\ ~cancel
          /\ finished' = TRUE
          /\ pc' = "drain" /\ call' = "finish"
          /\ UNCHANGED <<ret, todo, status>>
    /\ UNCHANGED <<opt, buf, base, total, nextIdx, encoded, kv, decode, text,
                   chunks, cancel, late>>

(* vv_stream_cancel.                                                       *)
Cancel ==
    /\ pc # "closed" /\ ~cancel
    /\ cancel' = TRUE
    /\ UNCHANGED <<opt, control, chunker, todo, encoded, kv, decode, text,
                   chunks, status, late>>

(* vv_stream_close, after any outcome; the context is ready for another    *)
(* session.                                                                *)
Close ==
    /\ pc = "idle"
    /\ pc' = "closed"
    /\ call' = "none" /\ ret' = "OK"
    /\ buf' = << >> /\ base' = 0 /\ total' = 0 /\ nextIdx' = 0 /\ finished' = FALSE
    /\ todo' = << >> /\ aheadFirst' = 0 /\ aheadFeats' = << >>
    /\ cache' = << >> /\ lead' = FALSE
    /\ tok' = "eos" /\ step' = 0 /\ tokens' = 0
    /\ held' = << >> /\ chunkText' = << >> /\ transcript' = << >>
    /\ shown' = << >>
    /\ chunks' = 0
    /\ failed' = "OK" /\ done' = FALSE /\ cancel' = FALSE
    /\ final' = "none" /\ late' = 0
    /\ UNCHANGED opt

-----------------------------------------------------------------------------
(* drain *)

(* No window ready: a push returns, a finish reports DONE.                 *)
Drained ==
    /\ pc = "drain" /\ ready = 0
    /\ Return("OK")
    /\ IF call = "finish" THEN done' = TRUE /\ final' = "DONE"
                          ELSE UNCHANGED <<done, final>>
    /\ UNCHANGED <<opt, chunker, encoded, kv, decode, text, chunks, failed,
                   cancel, late>>

Drain ==
    /\ pc = "drain" /\ ready > 0
    /\ \/ cancel /\ fail("CANCELLED") /\ UNCHANGED chunker
       \/ /\ ~cancel /\ ready >= 2 /\ opt.ahead
          /\ Goto("pop")
          /\ UNCHANGED <<chunker, todo, status>>
       \/ /\ ~cancel /\ (ready < 2 \/ ~opt.ahead)
          /\ chunker_next
          /\ Goto("chunk")
          /\ UNCHANGED status
    /\ UNCHANGED <<opt, encoded, kv, decode, text, chunks, cancel, late>>

(* mutant: the loop waits for a full buffer.                               *)
PopUntilFull ==
    /\ pc = "pop"
    /\ IF Len(todo) < AheadMax
       THEN /\ IF ready > 0 THEN chunker_next ELSE UNCHANGED <<chunker, todo>>
            /\ UNCHANGED control
       ELSE Goto("encode") /\ UNCHANGED <<chunker, todo>>
    /\ UNCHANGED <<opt, encoded, kv, decode, text, chunks, status, cancel, late>>

(* Windows into the ahead buffer, as many as are ready and it holds.       *)
Pop ==
    /\ pc = "pop"
    /\ IF ready > 0 /\ Len(todo) < AheadMax
       THEN chunker_next /\ UNCHANGED control
       ELSE Goto("encode") /\ UNCHANGED <<chunker, todo>>
    /\ UNCHANGED <<opt, encoded, kv, decode, text, chunks, status, cancel, late>>

(* gpu_encode_ahead: the batch is void until it has succeeded.             *)
EncodeAhead ==
    /\ pc = "encode"
    /\ Work
    /\ \/ /\ aheadFirst' = todo[1].index
          /\ aheadFeats' = [i \in 1..Len(todo) |-> todo[i].pcm]
          /\ Goto("chunk")
          /\ UNCHANGED <<todo, status>>
       \/ /\ aheadFeats' = << >>
          /\ fail("FAILED")
          /\ UNCHANGED aheadFirst
    /\ UNCHANGED <<opt, chunker, kv, decode, text, chunks, cancel>>

-----------------------------------------------------------------------------
(* run_chunk *)

(* vv_stream_chunk_layout: the rows of the window `pcm` was encoded from.  *)
chunk_layout(feats) ==
    (IF lead THEN ChunkEnd ELSE << >>)
      \o <<Row("start", << >>)>> \o Rows("feature", feats, Window)
      \o <<Row("end", << >>)>>

n_rows == (IF lead THEN 1 ELSE 0) + Window + 2

StartChunk ==
    /\ pc = "chunk"
    /\ \/ cancel /\ fail("CANCELLED")
       \/ ~cancel /\ ~kv_fits(n_rows + 1) /\ fail("OVERFLOW")
       \/ ~cancel /\ kv_fits(n_rows + 1) /\ Goto("prefill")
                  /\ UNCHANGED <<todo, status>>
    /\ UNCHANGED <<opt, chunker, encoded, kv, decode, text, chunks, cancel, late>>

(* mutant: any batch is taken for this window's.                           *)
FeaturesStale(w) ==
    IF aheadFeats # << >>
    THEN aheadFeats[((w.index - aheadFirst) % Len(aheadFeats)) + 1]
    ELSE w.pcm

(* Encoded already, with the windows around it, or encoded now.            *)
Features(w) ==
    IF w.index >= aheadFirst /\ w.index < aheadFirst + Len(aheadFeats)
    THEN aheadFeats[w.index - aheadFirst + 1]
    ELSE w.pcm

(* mutant: the previous chunk's text is not cleared.                       *)
PrefillKeepsText ==
    LET rows == chunk_layout(Features(todo[1]))
    IN /\ pc = "prefill"
       /\ Work
       /\ cache' = cache \o rows
       /\ lead' = FALSE
       /\ tok' \in Token /\ step' = 0
       /\ Goto("decode")
       /\ UNCHANGED <<opt, chunker, encoded, tokens, text, chunks, cancel,
                      todo, status>>

(* be.prefill_chunk: a failure may come before or after the rows are in.   *)
Prefill ==
    LET rows == chunk_layout(Features(todo[1]))
    IN /\ pc = "prefill"
       /\ Work
       /\ \/ /\ cache' = cache \o rows
             /\ lead' = FALSE
             /\ tok' \in Token /\ step' = 0
             /\ chunkText' = << >>
             /\ Goto("decode")
             /\ UNCHANGED <<todo, status>>
          \/ /\ cache' \in {cache, cache \o rows}
             /\ fail("FAILED")
             /\ UNCHANGED <<lead, tok, step, chunkText>>
       /\ UNCHANGED <<opt, chunker, encoded, tokens, held, transcript, shown,
                      chunks, cancel>>

(* The text emitter releases the first n pieces of what it holds, and the  *)
(* session hands them to the caller.                                       *)
emit_delta(pending, n) ==
    /\ held' = SubSeq(pending, n + 1, Len(pending))
    /\ chunkText' = chunkText \o SubSeq(pending, 1, n)
    /\ shown' = shown \o SubSeq(pending, 1, n)
    /\ UNCHANGED transcript

(* The decode loop: it ends at a stop token or at the cap; any other token *)
(* is counted and its text pushed.                                         *)
DecodeStop ==
    /\ pc = "decode"
    /\ step = MaxNew \/ tok # "text"
    /\ Goto("end")
    /\ UNCHANGED <<opt, chunker, todo, encoded, kv, decode, text, chunks,
                   status, cancel, late>>

DecodeText ==
    /\ pc = "decode"
    /\ step < MaxNew /\ tok = "text"
    /\ tokens' = tokens + 1
    /\ \/ /\ \E n \in 0..(Len(held) + 1) :
                 emit_delta(Append(held, tokens + 1), n)
          /\ Goto("feed")
          /\ UNCHANGED <<todo, status>>
       \/ fail("FAILED") /\ UNCHANGED text
    /\ UNCHANGED <<opt, chunker, encoded, kv, tok, step, chunks, cancel, late>>

(* mutant: no position is kept for the chunk end.                          *)
FeedTokenToTheEnd ==
    /\ pc = "feed"
    /\ \/ cancel /\ fail("CANCELLED")
       \/ ~cancel /\ ~kv_fits(1) /\ fail("OVERFLOW")
       \/ ~cancel /\ kv_fits(1) /\ Goto("step") /\ UNCHANGED <<todo, status>>
    /\ UNCHANGED <<opt, chunker, encoded, kv, decode, text, chunks, cancel, late>>

(* One position stays free for the chunk end.                              *)
FeedToken ==
    /\ pc = "feed"
    /\ \/ cancel /\ fail("CANCELLED")
       \/ ~cancel /\ ~kv_fits(2) /\ fail("OVERFLOW")
       \/ ~cancel /\ kv_fits(2) /\ Goto("step") /\ UNCHANGED <<todo, status>>
    /\ UNCHANGED <<opt, chunker, encoded, kv, decode, text, chunks, cancel, late>>

DecodeStep ==
    LET fed == Append(cache, Row("token", <<tokens>>))
    IN /\ pc = "step"
       /\ Work
       /\ \/ /\ cache' = fed
             /\ tok' \in Token
             /\ step' = step + 1
             /\ Goto("decode")
             /\ UNCHANGED <<todo, status>>
          \/ /\ cache' \in {cache, fed}
             /\ fail("FAILED")
             /\ UNCHANGED <<tok, step>>
       /\ UNCHANGED <<opt, chunker, encoded, lead, tokens, text, chunks, cancel>>

(* Everything held back is released; the chunk end is folded into the next *)
(* prefill or fed now.                                                     *)
EndChunk ==
    /\ pc = "end"
    /\ \/ /\ emit_delta(held, Len(held))
          /\ lead' = opt.fold
          /\ Goto(IF opt.fold THEN "emit" ELSE "append")
          /\ UNCHANGED <<todo, status>>
       \/ fail("FAILED") /\ UNCHANGED <<lead, text>>
    /\ UNCHANGED <<opt, chunker, encoded, cache, decode, chunks, cancel, late>>

AppendTokens ==
    /\ pc = "append"
    /\ Work
    /\ \/ /\ cache' = cache \o ChunkEnd
          /\ Goto("emit")
          /\ UNCHANGED <<todo, status>>
       \/ /\ cache' \in {cache, cache \o ChunkEnd}
          /\ fail("FAILED")
    /\ UNCHANGED <<opt, chunker, encoded, lead, decode, text, chunks, cancel>>

EmitChunk ==
    /\ pc = "emit"
    /\ \/ /\ transcript' = transcript \o chunkText
          /\ chunks' = chunks + 1
          /\ Goto("check")
          /\ UNCHANGED <<todo, status>>
       \/ fail("FAILED") /\ UNCHANGED <<transcript, chunks>>
    /\ UNCHANGED <<opt, chunker, encoded, kv, decode, held, chunkText, shown,
                   cancel, late>>

(* The last line of run_chunk, then the next window of the batch or drain. *)
CheckCancel ==
    /\ pc = "check"
    /\ \/ cancel /\ fail("CANCELLED")
       \/ /\ ~cancel
          /\ todo' = Tail(todo)
          /\ Goto(IF Tail(todo) = << >> THEN "drain" ELSE "chunk")
          /\ UNCHANGED status
    /\ UNCHANGED <<opt, chunker, encoded, kv, decode, text, chunks, cancel, late>>

-----------------------------------------------------------------------------
(* What the thread does inside a call.                                     *)
Running ==
    \/ Drained \/ Drain \/ Pop \/ EncodeAhead
    \/ StartChunk \/ Prefill \/ DecodeStop \/ DecodeText \/ FeedToken
    \/ DecodeStep \/ EndChunk \/ AppendTokens \/ EmitChunk \/ CheckCancel

Next ==
    \/ Open \/ Finish \/ Cancel \/ Close \/ Running
    \/ \E n \in 0..(MaxTotal - total) : Push(n)

Spec == Init /\ [][Next]_vars

(* The backend returns from every call, so a call that runs goes on.       *)
FairSpec == Spec /\ WF_vars(Running)
-----------------------------------------------------------------------------
(* Properties *)

InChunk == {"decode", "feed", "step", "end", "append"}

(* The cache never holds more than its capacity, and while a chunk's end   *)
(* is outstanding - being decoded, or folded into a prefill that may never *)
(* come - there is a position left for it (kv_fits(n_rows + 1) in          *)
(* run_chunk and kv_fits(2) between tokens).                               *)
KvBounded ==
    /\ Len(cache) <= Capacity
    /\ failed = "OK" /\ (pc \in InChunk \/ lead) => Len(cache) + 1 <= Capacity

(* No token's text is lost, repeated or reordered on its way through the   *)
(* emitter (text_push, text_flush), the DELTA events and the transcript,   *)
(* and nothing is held back between chunks; a chunk that failed is missing *)
(* from the transcript whole.                                              *)
TextInOrder ==
    /\ failed = "OK" => shown \o held = [i \in 1..tokens |-> i]
    /\ failed = "OK" => shown = transcript \o
                (IF pc \in InChunk \cup {"emit"} THEN chunkText ELSE << >>)
    /\ failed = "OK" /\ pc \notin InChunk => held = << >>
    /\ Len(transcript) <= Len(shown)
    /\ transcript = SubSeq(shown, 1, Len(transcript))

(* A session ends once: after its DONE or ERROR event no event follows,    *)
(* whatever is called then (fail, vv_stream_push and vv_stream_finish).    *)
EndsOnce ==
    [][final # "none" /\ pc' # "closed" => UNCHANGED <<shown, chunks, final>>]_vars

(* A cancel takes effect between tokens and between chunks: the call of    *)
(* the backend under way is followed by at most one more, the feeding of a *)
(* chunk end (the reads of the flag in run_chunk and drain).               *)
CancelIsPrompt == late <= 2

(* What makes the three above inductive.  A call in progress has seen no   *)
(* failure, and a chunker that was finished belongs to a finish; room seen *)
(* by kv_fits is still there when the backend is called; how many calls of *)
(* the backend can have begun under a cancel at each point of run_chunk.   *)
InCall == pc \notin {"closed", "idle"}

StepsSane ==
    /\ InCall <=> call # "none"
    /\ InCall => failed = "OK" /\ ~done
    /\ failed = "OK" /\ ~done => final = "none"
    /\ finished /\ failed = "OK" => done \/ call = "finish"
    /\ failed = "OK" /\ lead => pc \notin InChunk
    /\ pc = "prefill" => kv_fits(n_rows + 1)
    /\ pc = "step" => kv_fits(2)
    /\ pc = "pop" => todo # << >> \/ ready > 0
    /\ pc \in {"encode", "chunk", "prefill", "emit", "check"} \cup InChunk
          => todo # << >>
    /\ pc \in {"feed", "step"} => step < MaxNew

LateSane ==
    /\ ~cancel => late = 0
    /\ pc \in {"closed", "drain", "pop", "encode", "prefill", "step"} => late = 0
    /\ pc \in {"chunk", "decode", "feed", "end", "append"} => late <= 1

(* The inductive invariant the proofs rest on: no position past the cache  *)
(* at any call of the backend, and a cancel that is prompt (kv_fits,       *)
(* run_chunk, drain).                                                      *)
IInv == TypeOK /\ KvBounded /\ CancelIsPrompt /\ StepsSane /\ LateSane

(* Whatever the sizes pushed, batches encoded ahead and chunk ends folded  *)
(* into the next prefill, the model is fed what the protocol of stream.h   *)
(* prescribes: every window of the audio once, in order, zero-padded at    *)
(* the end, each with its own features, its tokens and its chunk end.      *)
Over(x, y) == IF failed = "OK" \/ done THEN x ELSE y

FedCache == Over(cache \o (IF lead THEN ChunkEnd ELSE << >>), << >>)
DoneChunks == Over(chunks + (IF pc = "emit" THEN 1 ELSE 0), 0)
FedStep == IF pc \in InChunk THEN step ELSE 0
FedTokens == Over(tokens - (IF pc \in {"feed", "step"} THEN 1 ELSE 0), 0)
Outcome ==
    IF pc = "closed" THEN "closed"
    ELSE IF done THEN "done"
    ELSE IF failed = "OK" THEN "live"
    ELSE IF failed = "CANCELLED" THEN "cancelled" ELSE "error"

Protocol == INSTANCE ChunkedProtocol WITH
    over <- finished, cache <- FedCache, chunks <- DoneChunks,
    busy <- pc \in InChunk, fed <- FedStep, toks <- FedTokens, status <- Outcome

FollowsProtocol == Protocol!Spec

(* What it takes for the two above.  The chunker holds the audio from the  *)
(* next window on; the windows popped and not run are the next ones, each  *)
(* with its own audio; and what was encoded ahead is, from the window that *)
(* runs on, that window's.                                                 *)
BufHoldsRest ==
    /\ base = nextIdx * Chunk
    /\ ~finished => base <= total
    /\ Len(buf) = IF total > base THEN total - base ELSE 0
    /\ \A j \in 1..Len(buf) : buf[j] = base + j

FirstTodo == nextIdx - Len(todo)

TodoInOrder ==
    /\ chunks = FirstTodo + (IF pc = "check" THEN 1 ELSE 0)
    /\ \A j \in 1..Len(todo) :
          /\ todo[j].index = FirstTodo + j - 1
          /\ todo[j].pcm = Protocol!WindowAt(todo[j].index)
          /\ Protocol!Available(todo[j].index)

AheadIsCurrent ==
    \A i \in 1..Len(aheadFeats) :
        LET x == aheadFirst + i - 1
        IN  x < nextIdx /\ (x >= FirstTodo => aheadFeats[i] = Protocol!WindowAt(x))

(* The flush has left nothing in the emitter when the chunk end is fed.     *)
Flushed == pc = "append" => held = << >>

CallsSane ==
    /\ pc = "closed" => Fresh
    /\ failed = "OK" /\ pc \in {"idle", "drain"} => todo = << >>
    /\ call = "finish" => finished
    /\ Flushed

ProtocolInv ==
    /\ IInv /\ TextInOrder /\ CallsSane
    /\ failed = "OK" => BufHoldsRest /\ TodoInOrder /\ AheadIsCurrent

(* Every call returns, and the end of the audio leads to DONE or to a      *)
(* failure, whatever was still to be done: drain ends, and so does the     *)
(* decode loop of every chunk.                                             *)
CallsEnd ==
    /\ (call = "push") ~> (pc = "idle")
    /\ (call = "finish") ~> (pc = "idle" /\ (done \/ failed # "OK"))

=============================================================================
