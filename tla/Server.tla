------------------------------- MODULE Server -------------------------------
(***************************************************************************)
(* The request handlers of src/server/api.c, which put every request       *)
(* through the admission queue (AdmissionQueue) and then on an engine slot *)
(* (EngineSlots).  A client is the connection thread of one request at a   *)
(* time, except those in Direct: threads of the program that embeds the    *)
(* server and calls the engine it passed to vv_server_run by itself.       *)
(*                                                                         *)
(* Kinds of request: "transcribe" and "sse" are a POST to                  *)
(* /v1/audio/transcriptions without and with stream=true, "chat" is        *)
(* /v1/chat/completions and "ws" the WebSocket /v1/audio/stream.  Requests *)
(* answered without the queue (health, models, metrics, a bad chat body)   *)
(* change nothing and are left out, and so is what the answers say.        *)
(***************************************************************************)
EXTENDS Integers, FiniteSets

CONSTANTS Client,
          Direct,      \* the threads that bypass admission
          Slots,       \* vv_engine_slots(engine)
          Capacity,    \* --queue-size
          MaxCalls     \* bound: requests in one behaviour

ASSUME ServerAssumption ==
    /\ IsFiniteSet(Client) /\ Direct \subseteq Client
    /\ Slots \in Nat \ {0} /\ Capacity \in Nat
    /\ MaxCalls \in Nat

VARIABLES
    active, waiting, next, serving, rejected, qpc, ticket, qexpired, qasleep,
    qcalls,                           \* sv->queue and the threads at it
    busy, n_busy, completed, last_perf, epc, job, slot, patience, ok, perf,
    easleep, ecalls,                  \* sv->engine and the threads in it
    is_streaming,                     \* vv_engine_is_streaming(sv->engine)
    rpc, kind,                        \* per client: where its handler is
    good,                             \* per client: the engine's answer
    n_requests, n_errors,             \* sv's counters, and its clock
    compute_seconds,
    outcome,                          \* history: how the last request ended
    counted                           \* ... and what the counters were told

queue   == <<active, waiting, next, serving, rejected, qpc, ticket, qexpired,
             qasleep, qcalls>>
engine  == <<busy, n_busy, completed, last_perf, epc, job, slot, patience, ok,
             perf, easleep, ecalls>>
stats   == <<n_requests, n_errors, compute_seconds, counted>>
handler == <<rpc, kind, good, outcome>>
vars    == <<queue, engine, stats, handler, is_streaming>>

Q == INSTANCE AdmissionQueue WITH
        pc <- qpc, expired <- qexpired, asleep <- qasleep, calls <- qcalls

E == INSTANCE EngineSlots WITH
        NSlots <- Slots, MaxCalls <- MaxCalls + Cardinality(Direct),
        pc <- epc, asleep <- easleep, calls <- ecalls

Kind == {"transcribe", "sse", "chat", "ws"}

(* "queue": in vv_queue_*; "body": admitted, before the engine; "engine":  *)
(* in vv_engine_*, or between calls on an open stream; "count": about to   *)
(* report to the counters; "close": about to close its stream; "leave":    *)
(* about to leave the queue; "done": a Direct thread that had its turn.    *)
RPC == {"idle", "queue", "body", "engine", "count", "close", "leave", "done"}

TypeOK ==
    /\ Q!TypeOK /\ E!TypeOK
    /\ is_streaming \in BOOLEAN
    /\ rpc \in [Client -> RPC]
    /\ kind \in [Client -> Kind]
    /\ good \in [Client -> BOOLEAN]
    /\ n_requests \in Nat /\ n_errors \in Nat
    /\ compute_seconds \in Nat
    /\ outcome \in [Client -> {"none", "served", "failed"}]
    /\ counted \in [Client -> {"no", "request", "error"}]

Init ==
    /\ Q!Init /\ E!Init
    /\ is_streaming \in BOOLEAN
    /\ rpc = [c \in Client |-> "idle"]
    /\ kind = [c \in Client |-> "transcribe"]
    /\ good = [c \in Client |-> FALSE]
    /\ n_requests = 0 /\ n_errors = 0 /\ compute_seconds = 0
    /\ outcome = [c \in Client |-> "none"]
    /\ counted = [c \in Client |-> "no"]

-----------------------------------------------------------------------------
Goto(c, where) == rpc' = [rpc EXCEPT ![c] = where]

(* route: transcriptions and chats enter the queue or are told 503 at once;*)
(* a live session tries to (on a model that does not stream it is told 400,*)
(* which changes nothing).                                                 *)
Request(c, k) ==
    /\ c \notin Direct
    /\ rpc[c] = "idle"
    /\ k = "ws" => is_streaming
    /\ IF k = "ws" THEN Q!TryEnter(c) ELSE Q!Enter(c)
    /\ Goto(c, CASE qpc'[c] = "in"  -> "body"
                 [] qpc'[c] = "out" -> "idle"
                 [] OTHER           -> "queue")
    /\ kind' = [kind EXCEPT ![c] = k]
    /\ outcome' = [outcome EXCEPT ![c] = "none"]
    /\ counted' = [counted EXCEPT ![c] = "no"]
    /\ good' = [good EXCEPT ![c] = FALSE]
    /\ UNCHANGED <<engine, n_requests, n_errors, compute_seconds,
                   is_streaming>>

(* Inside vv_queue_enter or vv_queue_try_enter.                            *)
InQueue(c) ==
    /\ rpc[c] = "queue"
    /\ \/ Q!Admit(c) \/ Q!WaitOn(c)
       \/ Q!TryAdmit(c) \/ Q!TryReject(c) \/ Q!TryWait(c)
       \/ Q!DeadlinePasses(c) \/ Q!TimerWake(c)
    /\ Goto(c, CASE qpc'[c] = "in"  -> "body"
                 [] qpc'[c] = "out" -> "idle"
                 [] OTHER           -> "queue")
    /\ UNCHANGED <<engine, stats, kind, good, outcome, is_streaming>>

EarlyReturnStays(c) ==                     \* mutant: vv_queue_leave forgotten
    /\ rpc[c] = "body"
    /\ Goto(c, "idle")
    /\ UNCHANGED <<queue, engine, stats, kind, good, outcome, is_streaming>>

(* The handler returns before it asks for a slot: a transcription with a   *)
(* bad method, content type or no file, a chat or session whose client is  *)
(* gone, a session that ends before session.start.                         *)
EarlyReturn(c) ==
    /\ rpc[c] = "body"
    /\ Goto(c, "leave")
    /\ UNCHANGED <<queue, engine, stats, kind, good, outcome, is_streaming>>

Fails(c) == outcome' = [outcome EXCEPT ![c] = "failed"]

(* vv_audio_load_memory fails on the upload.                               *)
DecodeFails(c) ==
    /\ rpc[c] = "body"
    /\ kind[c] \in {"transcribe", "sse"}
    /\ good' = [good EXCEPT ![c] = FALSE]
    /\ Fails(c)
    /\ Goto(c, "count")
    /\ UNCHANGED <<queue, engine, stats, kind, is_streaming>>

UsesStream(c) == kind[c] = "ws" \/ (kind[c] = "sse" /\ is_streaming)

CallEngineOutside(c) ==                    \* mutant: the queue left too soon
    /\ rpc[c] = "body"
    /\ kind[c] = "chat" /\ E!Generate(c)
    /\ Q!Leave(c)
    /\ Goto(c, "engine")
    /\ UNCHANGED <<stats, kind, good, outcome, is_streaming>>

(* The engine call.  stream_slot_wait_ms is never negative, so opening a   *)
(* stream never waits for ever.                                            *)
CallEngine(c) ==
    /\ rpc[c] = "body"
    /\ \/ kind[c] = "chat" /\ E!Generate(c)
       \/ UsesStream(c) /\ \E p \in {"deadline", "expired"} :
                              E!Call(c, "stream", p)
       \/ kind[c] # "chat" /\ ~UsesStream(c) /\ E!Transcribe(c)
    /\ Goto(c, "engine")
    /\ UNCHANGED <<queue, stats, kind, good, outcome, is_streaming>>

(* Waiting for a slot, running, or opening the stream.                     *)
InEngine(c) ==
    /\ rpc[c] = "engine"
    /\ \/ E!Take(c) \/ E!WaitSlot(c)
       \/ E!DeadlinePasses(c) \/ E!TimerWake(c)
       \/ E!Run(c) \/ E!StreamOpened(c)
    /\ UNCHANGED <<queue, stats, handler, is_streaming>>

(* vv_engine_transcribe or vv_engine_generate returns; a chat leaves the   *)
(* queue before it looks at the answer, a transcription after.             *)
EngineReturns(c) ==
    /\ rpc[c] = "engine"
    /\ E!BatchReturn(c)
    /\ good' = [good EXCEPT ![c] = ok[c]]
    /\ outcome' = [outcome EXCEPT ![c] = IF ok[c] THEN "served" ELSE "failed"]
    /\ Goto(c, IF c \in Direct THEN "done"
               ELSE IF kind[c] = "chat" THEN "leave" ELSE "count")
    /\ UNCHANGED <<queue, stats, kind, is_streaming>>

(* No stream: no slot in time, or vv_stream_open failed.  An SSE request   *)
(* counts that, a WebSocket has no session to account for.                 *)
OpenFails(c) ==
    /\ rpc[c] = "engine"
    /\ E!GiveUp(c) \/ E!StreamOpenFails(c)
    /\ good' = [good EXCEPT ![c] = FALSE]
    /\ Fails(c)
    /\ Goto(c, IF kind[c] = "sse" THEN "count" ELSE "leave")
    /\ UNCHANGED <<queue, stats, kind, is_streaming>>

(* The open stream's audio was pushed and finished.  `good` is what the    *)
(* handler reports: a session whose last answer could not be sent is gone. *)
StreamFinished(c) ==
    /\ rpc[c] = "engine"
    /\ E!StreamFinish(c)
    /\ \E b \in (IF kind[c] = "ws" THEN BOOLEAN ELSE {TRUE}) :
          good' = [good EXCEPT ![c] = b]
    /\ outcome' = [outcome EXCEPT ![c] = "served"]
    /\ Goto(c, "count")
    /\ UNCHANGED <<queue, stats, kind, is_streaming>>

(* ... or it ends without: an error, a client that left or, for a session, *)
(* a Close frame, which is reported like a finish.                         *)
StreamEnds(c) ==
    /\ rpc[c] = "engine"
    /\ epc[c] = "live"
    /\ \/ good' = [good EXCEPT ![c] = FALSE] /\ Fails(c)
       \/ /\ kind[c] = "ws"
          /\ good' = [good EXCEPT ![c] = TRUE]
          /\ outcome' = [outcome EXCEPT ![c] = "served"]
    /\ Goto(c, "count")
    /\ UNCHANGED <<queue, engine, stats, kind, is_streaming>>

RunMs == 1000      \* how long a run takes on the wall clock; any value does

(* What is added to compute_seconds: perf.total_ms / 1000.0 and the like,  *)
(* but the milliseconds themselves for a chat.                             *)
ChargedSeconds(k) == IF k = "chat" THEN RunMs ELSE RunMs \div 1000

(* count_request, and the same lines spelled out in handle_transcriptions. *)
Count(c) ==
    /\ rpc[c] = "count"
    /\ \/ /\ good[c]
          /\ n_requests' = n_requests + 1
          /\ compute_seconds' = compute_seconds + ChargedSeconds(kind[c])
          /\ counted' = [counted EXCEPT ![c] = "request"]
          /\ UNCHANGED n_errors
       \/ /\ ~good[c]
          /\ n_errors' = n_errors + 1
          /\ counted' = [counted EXCEPT ![c] = "error"]
          /\ UNCHANGED <<n_requests, compute_seconds>>
    /\ Goto(c, IF epc[c] = "live" THEN "close"
               ELSE IF kind[c] = "chat" THEN "idle" ELSE "leave")
    /\ UNCHANGED <<queue, engine, kind, good, outcome, is_streaming>>

(* vv_engine_stream_close.                                                 *)
CloseStream(c) ==
    /\ rpc[c] = "close"
    /\ E!StreamClose(c)
    /\ Goto(c, "leave")
    /\ UNCHANGED <<queue, stats, kind, good, outcome, is_streaming>>

(* vv_queue_leave: the end of the request, but a chat that was served is   *)
(* counted after it (one that failed is not counted at all).               *)
LeaveQueue(c) ==
    /\ rpc[c] = "leave"
    /\ Q!Leave(c)
    /\ LET served == kind[c] = "chat" /\ outcome[c] = "served"
       IN  Goto(c, IF served THEN "count" ELSE "idle")
    /\ UNCHANGED <<engine, stats, kind, good, outcome, is_streaming>>

(* A condition variable of either wakes a thread nobody signalled.         *)
SpuriousWake(c) ==
    /\ \/ Q!SpuriousWake(c) /\ UNCHANGED engine
       \/ E!SpuriousWake(c) /\ UNCHANGED queue
    /\ UNCHANGED <<stats, handler, is_streaming>>

(* A thread of the embedding program transcribes a clip of its own.        *)
DirectCall(c) ==
    /\ c \in Direct
    /\ rpc[c] = "idle"
    /\ E!Transcribe(c)
    /\ Goto(c, "engine")
    /\ UNCHANGED <<queue, stats, kind, good, outcome, is_streaming>>

-----------------------------------------------------------------------------
Step(c) ==
    \/ \E k \in Kind : Request(c, k)
    \/ InQueue(c)
    \/ EarlyReturn(c) \/ DecodeFails(c) \/ CallEngine(c)
    \/ InEngine(c) \/ EngineReturns(c) \/ OpenFails(c)
    \/ StreamFinished(c) \/ StreamEnds(c)
    \/ Count(c) \/ CloseStream(c) \/ LeaveQueue(c)
    \/ SpuriousWake(c) \/ DirectCall(c)

Resting(c) == rpc[c] \in {"idle", "done"}

(* Every request has been made and answered.                               *)
Done ==
    /\ qcalls = MaxCalls
    /\ \A c \in Client : Resting(c)
    /\ \A c \in Direct : rpc[c] = "done"
    /\ UNCHANGED vars

Next == (\E c \in Client : Step(c)) \/ Done

Spec == Init /\ [][Next]_vars

(* Threads run and time passes; a run ends (its tokens are bounded) and a  *)
(* stream ends: its audio does, or the idle and trickle rules end it.      *)
Fairness ==
    \A c \in Client :
        /\ WF_vars(InQueue(c))
        /\ WF_vars(EarlyReturn(c) \/ DecodeFails(c) \/ CallEngine(c))
        /\ WF_vars(InEngine(c))
        /\ WF_vars(EngineReturns(c) \/ OpenFails(c))
        /\ WF_vars(StreamFinished(c) \/ StreamEnds(c))
        /\ WF_vars(Count(c) \/ CloseStream(c) \/ LeaveQueue(c))

FairSpec == Spec /\ Fairness

-----------------------------------------------------------------------------
(* Slots lent to threads that bypassed admission.                          *)
LentDirect == {c \in Direct : slot[c] # -1}

(* Admission covers the engine: a slot lent to a request belongs to one    *)
(* that is inside the queue, so an admitted request finds a free slot at   *)
(* once, and a session's stream_slot_wait_ms only ever counts in the queue.*)
AdmittedFindSlot ==
    /\ n_busy <= active + Cardinality(LentDirect)
    /\ Direct = {} => \A c \in Client : epc[c] = "acquire" => E!FreeSlots # {}

(* Nothing leaks, whichever way the handlers returned: when no request is  *)
(* under way the queue and the engine are as they were at the start.       *)
NothingLeaks ==
    (\A c \in Client : Resting(c)) =>
        /\ active = 0 /\ waiting = 0 /\ next = serving
        /\ n_busy = 0 /\ \A i \in 0..(Slots - 1) : ~busy[i]

(* The counters were told what became of c's request.                      *)
Accounted(c) ==
    counted[c] = CASE outcome[c] = "none"   -> "no"
                   [] outcome[c] = "served" -> "request"
                   [] outcome[c] = "failed" -> "error"

IsTranscription(c) == c \notin Direct /\ kind[c] \in {"transcribe", "sse"}

(* A transcription that got as far as its audio is counted once, as what it*)
(* was, before it gives up its place.                                      *)
TranscriptionsCounted ==
    \A c \in Client :
        IsTranscription(c) /\ rpc[c] \in {"leave", "idle"} => Accounted(c)

(* Whichever way the handlers interleave and return: admission covers the  *)
(* engine, nothing leaks and the counters tell what happened.              *)
Safety == TypeOK /\ AdmittedFindSlot /\ NothingLeaks /\ TranscriptionsCounted

-----------------------------------------------------------------------------
(* What makes Safety inductive.  Where a handler is tells whether it has a *)
(* place in the queue, and a thread in the engine is in its own call.      *)
Placed(c) ==
    IF c \in Direct
    THEN /\ rpc[c] \in {"idle", "engine", "done"}
         /\ qpc[c] = "out" /\ kind[c] = "transcribe"
         /\ epc[c] # "idle" => rpc[c] = "engine"
    ELSE /\ rpc[c] # "done"
         /\ qpc[c] \in {"line", "try"} <=> rpc[c] = "queue"
         /\ qpc[c] = "in" <=> \/ rpc[c] \in {"body", "engine", "close", "leave"}
                              \/ rpc[c] = "count" /\ kind[c] # "chat"
         /\ epc[c] # "idle" => \/ rpc[c] = "engine"
                               \/ rpc[c] \in {"count", "close"}
                                  /\ epc[c] = "live" /\ kind[c] # "chat"

(* Only the handlers that stream hold a stream, and only those may be      *)
(* refused a slot.                                                         *)
CallsAsAsked(c) ==
    epc[c] # "idle" =>
        /\ job[c] = "stream" => kind[c] \in {"sse", "ws"}
        /\ epc[c] \in {"open", "live"} => job[c] = "stream"
        /\ job[c] # "stream" => patience[c] = "forever"

(* A transcription is not accounted for before its handler says how it     *)
(* ended, and is right after it reported.                                  *)
Reports(c) ==
    IsTranscription(c) =>
        /\ rpc[c] \in {"queue", "body", "engine"} =>
               outcome[c] = "none" /\ counted[c] = "no"
        /\ rpc[c] = "count" =>
               /\ counted[c] = "no"
               /\ outcome[c] = IF good[c] THEN "served" ELSE "failed"
        /\ rpc[c] \in {"idle", "close", "leave"} => Accounted(c)

HandlersInStep == \A c \in Client : Placed(c) /\ CallsAsAsked(c) /\ Reports(c)

(* The queue's and the engine's own invariants, and the handlers between.  *)
IInv == TypeOK /\ Q!IInv /\ E!IInv /\ HandlersInStep

(* Every request is answered, whatever else goes on in the server and the  *)
(* program around it.                                                      *)
RequestsAnswered ==
    \A c \in Client : rpc[c] # "idle" ~> Resting(c)
=============================================================================
