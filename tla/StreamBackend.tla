--------------------------- MODULE StreamBackend ---------------------------
(***************************************************************************)
(* The backend of streaming sessions over one inference context            *)
(* (src/inference/stream_ctx.c): sessions follow each other on a slot, a   *)
(* closed one parks its device buffers on the context for the next.  What  *)
(* a session computes is identified by what it was asked to compute:       *)
(* window i of session s is <<s, i>>, and a buffer holds whatever was last *)
(* written to it, by an earlier session too.                               *)
(*                                                                         *)
(* An allocation or a device call may fail, MaxFails times; the session    *)
(* (StreamSession) then only closes.  The pool the pages come from is      *)
(* KvPool; here it grants a reservation or it does not.                    *)
(***************************************************************************)
EXTENDS Integers, Sequences, FiniteSets, Functions

CONSTANTS
    OpenParams,     \* how sessions are opened: rows, reserve, no_wait, clip
    ChunkRows,      \* rows of one chunk, at most the rows of any session
    AheadMax,       \* VV_STREAM_AHEAD_MAX
    TokenIds,       \* token ids
    MaxSessions, MaxChunks, MaxSteps, MaxFails

ASSUME BackendAssumption ==
  /\ OpenParams \subseteq [rows : Nat \ {0}, reserve : Nat, no_wait : BOOLEAN, clip : BOOLEAN]
  /\ ChunkRows \in Nat /\ AheadMax \in 0..8 /\ TokenIds \subseteq Nat

VARIABLES
    ctx,            \* what the context keeps between sessions
    be,             \* sbe_t and the session around it
    mem,            \* the buffers of the session and all allocations
    dev,            \* contents of the token and the feature buffers
    col,            \* vv_stream_transcribe's collect_t, and its result
    computed,       \* the last computation: what was asked and what was read
    count           \* sessions opened, failures so far

backendVars == <<ctx, be, mem, dev, col, computed, count>>

Rows == <<"hidden", "ids_dev", "ids_pin">>
Fixed == <<"normed", "hidden_one", "tok_dev", "tok_pin">>
DevHead == <<"logits", "am_v", "am_i">>
HostHead == {"host_h", "host_f"}
AheadEv == <<"ev0", "ev1", "ev2", "ev3", "ev4", "ev5", "ev6", "ev7">>
Ahead == [i \in 1..(AheadMax + 1) |-> IF i = 1 THEN "ahead" ELSE AheadEv[i - 1]]
Host == HostHead \cup {"sbe", "hid32", "one32", "norm32"}
\* Moved by park_move, freed by gpu_free_bufs.
Device == Range(Rows) \cup Range(Fixed) \cup Range(DevHead) \cup Range(Ahead)
Allocs == Device \cup Host \cup {"parked"}

\* sbe_t after memset; tok_dev_id is set to -1 when the device is opened.
Blank(open) == [open |-> open, failed |-> FALSE, tok_dev_id |-> -1, first |-> 0, n |-> 0,
                at |-> "idle", chunk |-> 0, steps |-> 0, tok |-> -1]
NewSession == Blank(TRUE)
Closed == Blank(FALSE)
Unparked == [is |-> FALSE, bufs |-> {}, cap |-> 0]
Junk == <<"junk">>
NoStep == [asked |-> Junk, read |-> Junk]
NoClip == [on |-> FALSE, texts |-> <<>>, oom |-> FALSE, sent |-> 0, result |-> <<"none">>]
-----------------------------------------------------------------------------
(* Memory: the buffers the session holds (held, cap rows of them), all     *)
(* allocations alive, how many more succeed, whether every one so far did. *)
Memory(live, left) == [held |-> {}, cap |-> 0, live |-> live, ok |-> TRUE, left |-> left]

Gain(r, X) ==
  [r EXCEPT !.held = @ \cup X, !.left = @ - Cardinality(X),
            !.live = [x \in Allocs |-> IF x \in X THEN @[x] + 1 ELSE @[x]]]
\* In order, up to the first that fails.
Missing(r, xs) == {i \in DOMAIN xs : xs[i] \notin r.held}
Granted(r, xs) == {xs[i] : i \in {k \in Missing(r, xs) : Cardinality(Missing(r, xs) \cap 1..k) <= r.left}}
TryAll(r, xs) ==
  IF r.ok THEN [Gain(r, Granted(r, xs)) EXCEPT !.ok = Range(xs) \subseteq r.held \cup Granted(r, xs)] ELSE r
\* Two at once, looked at after both: one may fail and the other not.
Either(r, x, y) == (IF r.left >= 2 THEN {x, y} ELSE IF r.left = 1 THEN {x} ELSE {y}) \ r.held
TryBoth(r, x, y) == IF r.ok THEN [Gain(r, Either(r, x, y)) EXCEPT !.ok = r.left >= 2] ELSE r
Release(r, X) ==
  [r EXCEPT !.held = @ \ X,
            !.live = [x \in Allocs |-> IF x \in X \cap r.held THEN @[x] - 1 ELSE @[x]]]

gpu_free_rows(r) == [Release(r, Range(Rows)) EXCEPT !.cap = 0]

gpu_rows(r, rows) ==
  IF ~r.ok \/ rows <= r.cap THEN r
  ELSE LET f == TryAll(gpu_free_rows(r), Rows)
       IN IF f.ok THEN [f EXCEPT !.cap = rows] ELSE gpu_free_rows(f)

gpu_free_bufs(r) == Release(gpu_free_rows(r), Device)

\* Everything a closed session held on the device moves to the context, and
\* back to the next session.
Park(r) == [is |-> TRUE, bufs |-> r.held \cap Device, cap |-> r.cap]
ParkCopies(r) == r
park_move(r) == [r EXCEPT !.held = @ \ Device, !.cap = 0]
Adopt(r, p) ==
  IF ~p.is THEN r
  ELSE [r EXCEPT !.held = @ \cup p.bufs, !.cap = p.cap, !.live["parked"] = @ - 1]

\* The events come with the buffer: a session that finds one makes none.
OpenAhead(r, c) == IF c.ahead /\ "ahead" \notin r.held THEN TryAll(r, Ahead) ELSE r

gpu_open(r, c, rows) ==
  LET fixed == TryAll(gpu_rows(Adopt(r, c.parked), rows), Fixed)
      head == IF c.headDev THEN TryAll(fixed, DevHead) ELSE TryBoth(fixed, "host_h", "host_f")
  IN OpenAhead(head, c)

cpu_rows(r, rows) ==
  IF ~r.ok \/ rows <= r.cap THEN r
  ELSE LET f == TryAll(r, <<"hid32">>) IN IF f.ok THEN [f EXCEPT !.cap = rows] ELSE f

cpu_open(r, rows) == TryBoth(cpu_rows(r, rows), "one32", "norm32")
-----------------------------------------------------------------------------
\* be.destroy on a context c: the pages and the wait flag go; device buffers
\* are parked unless some are already, or there is no memory for the record.
gpu_destroy(c, r, memory) ==
  LET park == ~c.parked.is /\ memory
      moved == IF park THEN [park_move(r) EXCEPT !.live["parked"] = @ + 1] ELSE r
  IN [ctx |-> [c EXCEPT !.parked = IF park THEN Park(r) ELSE @, !.mapped = 0, !.len = 0, !.no_wait = FALSE],
      mem |-> Release(gpu_free_bufs(moved), Host)]

cpu_destroy(c, r) == [ctx |-> c, mem |-> Release(r, Host)]

destroy(c, r, memory) == IF c.gpu THEN gpu_destroy(c, r, memory) ELSE cpu_destroy(c, r)

\* The prompt into a reset cache.  On the GPU all of the reservation now, or
\* no session.
gpu_prefill_prompt(c, p) ==
  [c EXCEPT !.len = p.rows, !.no_wait = p.no_wait, !.mapped = IF p.rows > p.reserve THEN p.rows ELSE p.reserve]
cpu_prefill_prompt(c, p) == [c EXCEPT !.len = p.rows]
prefill_prompt(c, p) == IF c.gpu THEN gpu_prefill_prompt(c, p) ELSE cpu_prefill_prompt(c, p)

\* A failure, if the bound allows one more; a session that met one only closes.
Failing(bad) == bad => count.fails < MaxFails
Count(bad) == count' = [count EXCEPT !.fails = @ + IF bad THEN 1 ELSE 0]

\* An open ends with the device not bound, with allocation left + 1 failing,
\* with a prompt that cannot be prefilled, or with a session.
vv_stream_open(p, outcome, left, memory) ==
  /\ ~be.open /\ ~ctx.freed
  /\ count.sessions < MaxSessions
  /\ Failing(outcome # "open")
  /\ outcome = "unbound" => ctx.gpu
  /\ LET blank == TryAll(Memory(mem.live, IF outcome = "short" THEN left ELSE Cardinality(Allocs)), <<"sbe">>)
         r == IF outcome = "unbound" THEN [blank EXCEPT !.ok = FALSE]
              ELSE IF ctx.gpu THEN gpu_open(blank, ctx, p.rows) ELSE cpu_open(blank, p.rows)
         c == IF outcome = "unbound" THEN ctx ELSE [ctx EXCEPT !.parked = Unparked]
         gone == destroy(c, r, memory)
     IN /\ r.ok = (outcome \in {"open", "unprompted"})
        /\ IF outcome = "open"
           THEN ctx' = prefill_prompt(c, p) /\ be' = NewSession /\ mem' = [r EXCEPT !.left = 0]
           ELSE ctx' = gone.ctx /\ be' = Closed /\ mem' = Memory(gone.mem.live, 0)
  /\ count' = [sessions |-> count.sessions + 1, fails |-> count.fails + IF outcome = "open" THEN 0 ELSE 1]
  /\ col' = [NoClip EXCEPT !.on = p.clip, !.result = IF outcome = "open" THEN @ ELSE <<"error">>]
  /\ computed' = NoStep
  /\ UNCHANGED dev

Window(i) == <<count.sessions, i>>
Serving == be.open /\ ~be.failed

\* Several ready windows in one go, once the chunks of the last batch have
\* run.  Whatever was encoded before is forgotten first; an event that was
\* never made fails the call after the windows are written.
gpu_encode_ahead(n, bad) ==
  /\ Serving /\ ctx.gpu /\ ctx.ahead /\ be.at = "idle" /\ be.chunk >= be.first + be.n
  /\ be.chunk + n <= MaxChunks
  /\ Failing(bad)
  /\ LET held == "ahead" \in mem.held
         ok == held /\ ~bad /\ \A i \in 1..n : AheadEv[i] \in mem.held
     IN /\ be' = [be EXCEPT !.n = IF ok THEN n ELSE 0, !.first = IF ok THEN be.chunk ELSE @, !.failed = ~ok]
        /\ dev' = [dev EXCEPT !.ahead = IF held THEN [i \in 1..AheadMax |-> IF i > n THEN dev.ahead[i] ELSE IF bad THEN Junk ELSE Window(be.chunk + i - 1)] ELSE @]
  /\ Count(bad)
  /\ UNCHANGED <<ctx, mem, col, computed>>

\* The token of a row: a device head leaves it on the device as well.
HeadIsOnDevice(r, t) == [r EXCEPT !.tok = t, !.tok_dev_id = t]
gpu_head(r, t) == [r EXCEPT !.tok = t, !.tok_dev_id = IF ctx.headDev THEN t ELSE -1]
vv_pipeline_head_argmax(t, on) == IF ctx.headDev THEN t ELSE on
cpu_head(r, t) == [r EXCEPT !.tok = t]

Dies == be' = [be EXCEPT !.failed = TRUE, !.tok_dev_id = -1]
Decoding(r) == be' = [r EXCEPT !.at = "decode", !.steps = 0]
PagesFor(n) == IF n > ctx.mapped THEN n ELSE ctx.mapped

\* A window encoded ahead, or its own trip through the front end.
Features(i) ==
  IF be.n > 0 /\ i >= be.first /\ i < be.first + be.n THEN dev.ahead[i - be.first + 1] ELSE Window(i)

\* Pages for the rows and the chunk end after them, the rows, the head.
gpu_prefill_chunk(t, bad) ==
  /\ Serving /\ ctx.gpu /\ be.at = "idle" /\ be.chunk < MaxChunks
  /\ Failing(bad) /\ Count(bad)
  /\ computed' = [asked |-> Window(be.chunk), read |-> Features(be.chunk)]
  /\ IF bad \/ ChunkRows > mem.cap THEN Dies /\ UNCHANGED <<ctx, dev>>
     ELSE /\ ctx' = [ctx EXCEPT !.len = @ + ChunkRows, !.mapped = PagesFor(ctx.len + ChunkRows + 1)]
          /\ Decoding(gpu_head(be, t))
          /\ dev' = [dev EXCEPT !.tok = vv_pipeline_head_argmax(t, @)]
  /\ UNCHANGED <<mem, col>>

\* Both encoders over the window, into the rows.
cpu_prefill_chunk(t, bad) ==
  /\ Serving /\ ~ctx.gpu /\ be.at = "idle" /\ be.chunk < MaxChunks
  /\ Failing(bad) /\ Count(bad)
  /\ computed' = [asked |-> Window(be.chunk), read |-> Window(be.chunk)]
  /\ IF bad THEN Dies /\ UNCHANGED ctx
     ELSE ctx' = [ctx EXCEPT !.len = @ + ChunkRows] /\ Decoding(cpu_head(be, t))
  /\ UNCHANGED <<mem, dev, col>>

\* The token the argmax left on the device need not travel.
Travels(token) == ctx.embedDev /\ be.tok_dev_id # token

gpu_decode_step(t, bad) ==
  /\ Serving /\ ctx.gpu /\ be.at = "decode" /\ be.steps < MaxSteps
  /\ Failing(bad) /\ Count(bad)
  /\ LET on == IF Travels(be.tok) THEN be.tok ELSE dev.tok
         sent == IF Travels(be.tok) THEN be.tok ELSE be.tok_dev_id
     IN /\ computed' = [asked |-> <<be.tok>>, read |-> IF ctx.embedDev THEN <<on>> ELSE <<be.tok>>]
        /\ IF bad THEN Dies /\ UNCHANGED ctx /\ dev' = [dev EXCEPT !.tok = on]
           ELSE /\ be' = gpu_head([be EXCEPT !.steps = @ + 1, !.tok_dev_id = sent], t)
                /\ dev' = [dev EXCEPT !.tok = vv_pipeline_head_argmax(t, on)]
                /\ ctx' = [ctx EXCEPT !.len = @ + 1, !.mapped = PagesFor(ctx.len + 1)]
  /\ UNCHANGED <<mem, col>>

cpu_decode_step(t, bad) ==
  /\ Serving /\ ~ctx.gpu /\ be.at = "decode" /\ be.steps < MaxSteps
  /\ Failing(bad) /\ Count(bad)
  /\ computed' = [asked |-> <<be.tok>>, read |-> <<be.tok>>]
  /\ IF bad THEN Dies /\ UNCHANGED ctx
     ELSE be' = cpu_head([be EXCEPT !.steps = @ + 1], t) /\ ctx' = [ctx EXCEPT !.len = @ + 1]
  /\ UNCHANGED <<mem, dev, col>>

\* A chunk's text, collected for vv_stream_transcribe and passed on.
collect_event(bad) ==
  /\ Serving /\ be.at = "decode"
  /\ bad => col.on
  /\ Failing(bad)
  /\ be' = [be EXCEPT !.at = "idle", !.chunk = @ + 1]
  /\ col' = IF ~col.on THEN col
            ELSE [col EXCEPT !.sent = @ + 1, !.oom = @ \/ bad,
                             !.texts = IF bad THEN @ ELSE Append(@, Window(be.chunk))]
  /\ Count(bad)
  /\ UNCHANGED <<ctx, mem, dev, computed>>

\* vv_stream_close; a clip is closed when its audio is through, or on an error.
vv_stream_close(memory) ==
  /\ be.open /\ (be.failed \/ be.at = "idle")
  /\ LET gone == destroy(ctx, mem, memory)
     IN ctx' = gone.ctx /\ mem' = Memory(gone.mem.live, 0)
  /\ Failing(~memory) /\ Count(~memory)
  /\ col' = IF ~col.on THEN col ELSE [col EXCEPT !.result = IF be.failed \/ col.oom THEN <<"error">> ELSE <<"texts">> \o col.texts]
  /\ be' = Closed /\ computed' = NoStep
  /\ UNCHANGED dev

\* The context is freed.
vv_stream_ctx_drop_cache ==
  /\ ~be.open /\ ~ctx.freed
  /\ ctx' = [ctx EXCEPT !.parked = Unparked, !.freed = TRUE]
  /\ mem' = gpu_free_bufs(Adopt(Memory(mem.live, 0), ctx.parked))
  /\ UNCHANGED <<be, dev, col, computed, count>>
-----------------------------------------------------------------------------
BackendInit ==
  /\ \E gpu, embedDev, headDev, ahead \in BOOLEAN :
       /\ ~gpu => ~embedDev /\ ~headDev /\ ~ahead
       /\ ctx = [gpu |-> gpu, embedDev |-> embedDev, headDev |-> headDev, ahead |-> ahead, freed |-> FALSE,
                 parked |-> Unparked, len |-> 0, mapped |-> 0, no_wait |-> FALSE]
  /\ be = Closed /\ mem = Memory([x \in Allocs |-> 0], 0)
  /\ dev = [tok |-> -1, ahead |-> [i \in 1..AheadMax |-> Junk]]
  /\ col = NoClip /\ computed = NoStep /\ count = [sessions |-> 0, fails |-> 0]

BackendNext ==
  \/ \E p \in OpenParams, memory \in BOOLEAN :
       \/ \E outcome \in {"unbound", "unprompted", "open"} : vv_stream_open(p, outcome, 0, memory)
       \/ \E left \in 1..Cardinality(Device) : vv_stream_open(p, "short", left, memory)
  \/ \E n \in 2..AheadMax, bad \in BOOLEAN : gpu_encode_ahead(n, bad)
  \/ \E t \in TokenIds, bad \in BOOLEAN :
       \/ gpu_prefill_chunk(t, bad) \/ gpu_decode_step(t, bad)
       \/ cpu_prefill_chunk(t, bad) \/ cpu_decode_step(t, bad)
  \/ \E bad \in BOOLEAN : collect_event(bad)
  \/ \E memory \in BOOLEAN : vv_stream_close(memory)
  \/ vv_stream_ctx_drop_cache

BackendSpec == BackendInit /\ [][BackendNext]_backendVars
-----------------------------------------------------------------------------
ParkedBufs(p) == p.bufs \cup (IF p.is THEN {"parked"} ELSE {})

(* A buffer belongs to the session or is parked, never both and never      *)
(* neither, whatever failed on the way; an idle slot keeps no pages and    *)
(* makes nobody refuse to wait; and a session has pages for what its cache *)
(* holds, and the rows it says it has (gpu_destroy, gpu_open, park_move).  *)
SlotLeftClean ==
  /\ \A x \in Allocs :
       mem.live[x] = (IF x \in mem.held THEN 1 ELSE 0) + (IF x \in ParkedBufs(ctx.parked) THEN 1 ELSE 0)
  /\ ~be.open => ctx.mapped = 0 /\ ~ctx.no_wait
  /\ be.open /\ ctx.gpu => ctx.mapped >= ctx.len /\ (mem.cap > 0) = (Range(Rows) \subseteq mem.held)

(* What the model reads is what it was asked to: the window's own features,*)
(* the token of this step, not what an earlier batch, step or session left;*)
(* and a transcribed clip has the text of every chunk, each once, in order *)
(* (gpu_head, gpu_decode_step, gpu_prefill_chunk, collect_event).          *)
ReadsWhatWasAsked ==
  /\ computed.read = computed.asked
  /\ col.result[1] = "texts" => Tail(col.result) = [i \in 1..col.sent |-> Window(i - 1)]
-----------------------------------------------------------------------------
(* What makes the two inductive: the types, where every buffer is, and what*)
(* the device buffers that may be read hold.                               *)

IsMem(r) ==
  /\ r = [held |-> r.held, cap |-> r.cap, live |-> r.live, ok |-> r.ok, left |-> r.left]
  /\ r.held \subseteq Device \cup Host /\ r.cap \in Nat /\ r.live \in [Allocs -> Int]
IsParked(p) == p = [is |-> p.is, bufs |-> p.bufs, cap |-> p.cap] /\ p.bufs \subseteq Device /\ p.cap \in Nat
IsContext(c) ==
  /\ c = [gpu |-> c.gpu, embedDev |-> c.embedDev, headDev |-> c.headDev, ahead |-> c.ahead, freed |-> c.freed,
          parked |-> c.parked, len |-> c.len, mapped |-> c.mapped, no_wait |-> c.no_wait]
  /\ IsParked(c.parked) /\ c.len \in Nat /\ c.mapped \in Nat
IsSession(b) ==
  /\ b = [open |-> b.open, failed |-> b.failed, tok_dev_id |-> b.tok_dev_id, first |-> b.first, n |-> b.n,
          at |-> b.at, chunk |-> b.chunk, steps |-> b.steps, tok |-> b.tok]
  /\ b.first \in Nat /\ b.n \in Nat /\ b.chunk \in Nat /\ b.steps \in Nat

BackendTypes ==
  /\ IsContext(ctx) /\ IsSession(be) /\ IsMem(mem)
  /\ dev = [tok |-> dev.tok, ahead |-> dev.ahead]
  /\ col = [on |-> col.on, texts |-> col.texts, oom |-> col.oom, sent |-> col.sent, result |-> col.result]
  /\ col.sent \in Nat
  /\ count = [sessions |-> count.sessions, fails |-> count.fails] /\ count.sessions \in Nat

\* Allocations alive that the session does not hold.
Unheld(r, x) == r.live[x] - IF x \in r.held THEN 1 ELSE 0
\* Those are the parked ones.
AllKept(r, p) == \A x \in Allocs : Unheld(r, x) = IF x \in ParkedBufs(p) THEN 1 ELSE 0
\* A session has the rows it says it has.
RowsRight(cap, held) == (cap > 0) = (Range(Rows) \subseteq held)
ParkedRight(p) == RowsRight(p.cap, p.bufs) /\ (~p.is => p = Unparked)

BuffersKept ==
  /\ AllKept(mem, ctx.parked) /\ ParkedRight(ctx.parked)
  /\ ctx.parked.is => ctx.gpu /\ ~be.open
  /\ ~be.open => mem.held = {} /\ ctx.mapped = 0 /\ ~ctx.no_wait
  /\ be.open /\ ctx.gpu => ctx.mapped >= ctx.len /\ RowsRight(mem.cap, mem.held)
  /\ ~ctx.gpu => mem.held \subseteq Host /\ ctx.mapped = 0 /\ ~ctx.no_wait

\* The token said to be on the device is there, and so are the windows that
\* were encoded ahead.
DeviceHolds ==
  /\ be.tok_dev_id \in {-1, dev.tok}
  /\ be.at = "decode" => be.tok \in TokenIds
  /\ be.n <= AheadMax /\ \A i \in 1..be.n : dev.ahead[i] = <<count.sessions, be.first + i - 1>>

Texts(s, n) == [i \in 1..n |-> <<s, i - 1>>]
ClipTold ==
  /\ col.on /\ be.open => col.sent = be.chunk /\ (~col.oom => col.texts = Texts(count.sessions, col.sent))
  /\ \/ col.result \in {<<"none">>, <<"error">>}
     \/ ~be.open /\ col.result = <<"texts">> \o Texts(count.sessions, col.sent)

BackendInv == BackendTypes /\ BuffersKept /\ DeviceHolds /\ ClipTold /\ computed.read = computed.asked
=============================================================================
