---------------------------- MODULE EngineSlots ----------------------------
(***************************************************************************)
(* The slot pool of src/engine/engine.c: n_slots inference contexts over   *)
(* one set of weights, lent to one caller each.  A client is the thread    *)
(* that calls vv_engine_transcribe, vv_engine_generate or opens a          *)
(* vv_engine_stream.                                                       *)
(*                                                                         *)
(* A step is what runs under one hold of e->lock, or one use of the slot.  *)
(* What an inference run computes is left out, but for the metrics it      *)
(* leaves in the context (last_perf): whose they are.                      *)
(***************************************************************************)
EXTENDS Integers, FiniteSets

CONSTANTS Client,
          NSlots,      \* e->n_slots, what vv_engine_create brought up
          MaxCalls     \* bound: engine calls in one behaviour

ASSUME EngineAssumption ==
    /\ IsFiniteSet(Client)
    /\ NSlots \in Nat \ {0}
    /\ MaxCalls \in Nat

VARIABLES
    busy, n_busy, completed,
    last_perf,       \* per slot: whose requests' metrics are in it
    pc,              \* per client: where its thread is
    job,             \* ... which entry point it called
    slot,            \* ... the slot it was lent, or -1
    patience,        \* ... wait_ms of acquire_slot_wait, as far as it matters
    ok,              \* ... what it will tell release_slot
    perf,            \* ... whose metrics its last batch call handed back
    asleep,          \* the clients blocked on slot_free
    calls

pool  == <<busy, n_busy, completed>>
mine  == <<job, slot, patience, ok>>
vars  == <<pool, last_perf, pc, mine, perf, asleep, calls>>

Slot == 0..(NSlots - 1)

(* "acquire": in acquire_slot_wait; "run": inside vv_inference_*; "ran":   *)
(* returned from it; "open": in vv_stream_open; "live": session open.      *)
PC == {"idle", "acquire", "run", "ran", "open", "live"}

Job == {"none", "transcribe", "generate", "stream"}

Patience == {"forever", "deadline", "expired"}

TypeOK ==
    /\ busy \in [Slot -> BOOLEAN]
    /\ n_busy \in Nat /\ completed \in Nat
    /\ last_perf \in [Slot -> SUBSET Client]
    /\ pc \in [Client -> PC]
    /\ job \in [Client -> Job]
    /\ slot \in [Client -> Slot \cup {-1}]
    /\ patience \in [Client -> Patience]
    /\ ok \in [Client -> BOOLEAN]
    /\ perf \in [Client -> SUBSET Client]
    /\ asleep \in SUBSET Client
    /\ calls \in 0..MaxCalls

Init ==
    /\ busy = [i \in Slot |-> FALSE]
    /\ n_busy = 0 /\ completed = 0
    /\ last_perf = [i \in Slot |-> {}]
    /\ pc = [c \in Client |-> "idle"]
    /\ job = [c \in Client |-> "none"]
    /\ slot = [c \in Client |-> -1]
    /\ patience = [c \in Client |-> "forever"]
    /\ ok = [c \in Client |-> FALSE]
    /\ perf = [c \in Client |-> {}]
    /\ asleep = {}
    /\ calls = 0

-----------------------------------------------------------------------------
Goto(c, where) == pc' = [pc EXCEPT ![c] = where]

Call(c, j, p) ==
    /\ pc[c] = "idle"
    /\ calls < MaxCalls /\ calls' = calls + 1
    /\ job' = [job EXCEPT ![c] = j]
    /\ patience' = [patience EXCEPT ![c] = p]
    /\ Goto(c, "acquire")
    /\ UNCHANGED <<pool, last_perf, slot, ok, perf, asleep>>

(* The audio was resampled and normalised before a slot is asked for.      *)
Transcribe(c) == Call(c, "transcribe", "forever")

Generate(c) == Call(c, "generate", "forever")

(* wait_ms < 0 waits for as long as it takes, wait_ms = 0 not at all.      *)
StreamOpen(c) == \E p \in Patience : Call(c, "stream", p)

Awake(c) == pc[c] = "acquire" /\ c \notin asleep

FreeSlots == {i \in Slot : ~busy[i]}

LowestFree(i) == i \in FreeSlots /\ \A k \in FreeSlots : i <= k

(* The scan of acquire_slot_wait finds a slot.                             *)
Take(c) ==
    /\ Awake(c)
    /\ \E i \in Slot :
         /\ LowestFree(i)
         /\ busy' = [busy EXCEPT ![i] = TRUE]
         /\ slot' = [slot EXCEPT ![c] = i]
    /\ n_busy' = n_busy + 1
    /\ patience' = [patience EXCEPT ![c] = "forever"]
    /\ Goto(c, IF job[c] = "stream" THEN "open" ELSE "run")
    /\ UNCHANGED <<completed, last_perf, job, ok, perf, asleep, calls>>

(* ... or does not, and there is time left.                                *)
WaitSlot(c) ==
    /\ Awake(c)
    /\ FreeSlots = {}
    /\ patience[c] # "expired"
    /\ asleep' = asleep \cup {c}
    /\ UNCHANGED <<pool, last_perf, pc, mine, perf, calls>>

GiveUpEagerly(c) ==                       \* mutant: the clock before the scan
    /\ Awake(c)
    /\ patience[c] = "expired"
    /\ Goto(c, "idle")
    /\ job' = [job EXCEPT ![c] = "none"]
    /\ patience' = [patience EXCEPT ![c] = "forever"]
    /\ UNCHANGED <<pool, last_perf, slot, ok, perf, asleep, calls>>

(* ... or there is none: VV_ERR_BUSY, and nothing to release.              *)
GiveUp(c) ==
    /\ Awake(c)
    /\ FreeSlots = {}
    /\ patience[c] = "expired"
    /\ Goto(c, "idle")
    /\ job' = [job EXCEPT ![c] = "none"]
    /\ patience' = [patience EXCEPT ![c] = "forever"]
    /\ UNCHANGED <<pool, last_perf, slot, ok, perf, asleep, calls>>

DeadlinePasses(c) ==
    /\ pc[c] = "acquire" /\ patience[c] = "deadline"
    /\ patience' = [patience EXCEPT ![c] = "expired"]
    /\ UNCHANGED <<pool, last_perf, pc, job, slot, ok, perf, asleep, calls>>

(* vv_cond_timedwait returns at the deadline.                              *)
TimerWake(c) ==
    /\ c \in asleep /\ patience[c] = "expired"
    /\ asleep' = asleep \ {c}
    /\ UNCHANGED <<pool, last_perf, pc, mine, perf, calls>>

SpuriousWake(c) ==
    /\ c \in asleep
    /\ asleep' = asleep \ {c}
    /\ UNCHANGED <<pool, last_perf, pc, mine, perf, calls>>

RunUncleared(c) ==                        \* mutant: the memset forgotten
    /\ pc[c] = "run"
    /\ \E good \in BOOLEAN :
         /\ ok' = [ok EXCEPT ![c] = good]
         /\ last_perf' = [last_perf EXCEPT ![slot[c]] =
                            IF good THEN @ \cup {c} ELSE @]
    /\ Goto(c, "ran")
    /\ UNCHANGED <<pool, job, slot, patience, perf, asleep, calls>>

(* The inference call returns.  A transcription cleared the metrics before *)
(* it wrote its own; a generation adds three figures, and only when it     *)
(* succeeds.                                                               *)
Run(c) ==
    /\ pc[c] = "run"
    /\ \E good \in BOOLEAN :
         /\ ok' = [ok EXCEPT ![c] = good]
         /\ last_perf' =
              [last_perf EXCEPT ![slot[c]] =
                 IF job[c] = "transcribe" THEN {c}
                 ELSE IF good THEN @ \cup {c} ELSE @]
    /\ Goto(c, "ran")
    /\ UNCHANGED <<pool, job, slot, patience, perf, asleep, calls>>

NoSignal == UNCHANGED asleep              \* mutant: the waiters not told

(* vv_cond_signal(&e->slot_free): one sleeper, if there is one.            *)
Signal ==
    \/ asleep = {} /\ UNCHANGED asleep
    \/ \E d \in asleep : asleep' = asleep \ {d}

(* release_slot, and the call returns.                                     *)
ReleaseSlot(c) ==
    /\ busy' = [busy EXCEPT ![slot[c]] = FALSE]
    /\ n_busy' = n_busy - 1
    /\ completed' = completed + (IF ok[c] THEN 1 ELSE 0)
    /\ Signal
    /\ slot' = [slot EXCEPT ![c] = -1]
    /\ job' = [job EXCEPT ![c] = "none"]
    /\ ok' = [ok EXCEPT ![c] = FALSE]
    /\ Goto(c, "idle")

(* The metrics are copied out before the slot is let go.                   *)
BatchReturn(c) ==
    /\ pc[c] = "ran"
    /\ perf' = [perf EXCEPT ![c] = last_perf[slot[c]]]
    /\ ReleaseSlot(c)
    /\ UNCHANGED <<last_perf, patience, calls>>

(* The rest of vv_engine_stream_open_ex: the metrics cleared, the device   *)
(* bound and the session opened, or the slot given back.                   *)
StreamOpened(c) ==
    /\ pc[c] = "open"
    /\ last_perf' = [last_perf EXCEPT ![slot[c]] = {}]
    /\ Goto(c, "live")
    /\ UNCHANGED <<pool, mine, perf, asleep, calls>>

StreamOpenFails(c) ==
    /\ pc[c] = "open"
    /\ last_perf' = [last_perf EXCEPT ![slot[c]] = {}]
    /\ ReleaseSlot(c)
    /\ UNCHANGED <<patience, perf, calls>>

(* Only a session whose resampler tail, last push and finish all succeeded *)
(* counts as completed.                                                    *)
StreamFinish(c) ==
    /\ pc[c] = "live"
    /\ ok' = [ok EXCEPT ![c] = TRUE]
    /\ UNCHANGED <<pool, last_perf, pc, job, slot, patience, perf, asleep,
                   calls>>

StreamClose(c) ==
    /\ pc[c] = "live"
    /\ ReleaseSlot(c)
    /\ UNCHANGED <<last_perf, patience, perf, calls>>

-----------------------------------------------------------------------------
Step(c) ==
    \/ Transcribe(c) \/ Generate(c) \/ StreamOpen(c)
    \/ Take(c) \/ WaitSlot(c) \/ GiveUp(c)
    \/ DeadlinePasses(c) \/ TimerWake(c) \/ SpuriousWake(c)
    \/ Run(c) \/ BatchReturn(c)
    \/ StreamOpened(c) \/ StreamOpenFails(c) \/ StreamFinish(c)
    \/ StreamClose(c)

(* Every call has been made and has returned.                              *)
Done == calls = MaxCalls /\ (\A c \in Client : pc[c] = "idle") /\ UNCHANGED vars

Next == (\E c \in Client : Step(c)) \/ Done

Spec == Init /\ [][Next]_vars

(* A thread at the mutex gets it, time passes, a run ends (its tokens are  *)
(* bounded) and a session is closed by its owner.                          *)
Fairness ==
    \A c \in Client :
        /\ WF_vars(Take(c) \/ WaitSlot(c) \/ GiveUp(c))
        /\ WF_vars(DeadlinePasses(c))
        /\ WF_vars(TimerWake(c))
        /\ WF_vars(Run(c))
        /\ WF_vars(BatchReturn(c))
        /\ WF_vars(StreamOpened(c) \/ StreamOpenFails(c))
        /\ WF_vars(StreamClose(c))

FairSpec == Spec /\ Fairness

-----------------------------------------------------------------------------
Lent == {c \in Client : slot[c] # -1}

Acquiring == {c \in Client : Awake(c)}

(* A slot runs one request at a time: busy[i] says exactly that some client*)
(* holds slot i, no two hold the same one, and n_busy counts them.         *)
SlotExclusive ==
    /\ \A i \in Slot : busy[i] <=> \E c \in Client : slot[c] = i
    /\ \A c, d \in Lent : slot[c] = slot[d] => c = d
    /\ n_busy = Cardinality(Lent)

(* No slot idles while a caller sleeps for one: with vv_cond_signal waking *)
(* a single thread, timed and untimed waiters mixed, as many callers are   *)
(* awake and about to scan as there are slots to find.                     *)
NoStrandedSlot ==
    asleep # {} => Cardinality(FreeSlots) <= Cardinality(Acquiring)

(* A transcription reports its own metrics (engine.h: "filled with this    *)
(* request's metrics") and nothing of the request that used the slot before*)
(* it or takes it next.                                                    *)
PerfIsOwn ==
    [][\A c \in Client :
          (pc[c] = "ran" /\ job[c] = "transcribe" /\ pc'[c] # "ran")
              => perf'[c] = {c}]_vars

(* What the program counters say of the slots.                             *)
HoldersSane ==
    /\ \A c \in Client : /\ slot[c] = -1 <=> pc[c] \in {"idle", "acquire"}
                         /\ pc[c] = "ran" /\ job[c] = "transcribe"
                                => last_perf[slot[c]] = {c}
    /\ \A c \in asleep : pc[c] = "acquire"

(* The inductive invariant the proofs rest on: a slot has one holder, busy *)
(* and n_busy say which are lent, and no caller sleeps beside a free slot  *)
(* it was not told of (acquire_slot, release_slot).                        *)
IInv == TypeOK /\ SlotExclusive /\ NoStrandedSlot /\ HoldersSane

(* Every caller of acquire_slot gets a slot, and every caller with a       *)
(* deadline gets a slot or VV_ERR_BUSY.                                    *)
AcquireReturns ==
    \A c \in Client :
        /\ (pc[c] = "acquire" /\ patience[c] = "forever")
               ~> pc[c] \in {"run", "open"}
        /\ pc[c] = "acquire" ~> pc[c] # "acquire"
=============================================================================
