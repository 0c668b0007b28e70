--------------------------- MODULE AdmissionQueue ---------------------------
(***************************************************************************)
(* The admission queue of src/server/vv_queue.h.  A client is the HTTP     *)
(* thread of one request.  Transcriptions and chats call vv_queue_enter and*)
(* wait their turn in ticket order; a live session calls                   *)
(* vv_queue_try_enter and gives up at a deadline.                          *)
(*                                                                         *)
(* Everything between taking the mutex and unlocking it (or sleeping on    *)
(* `changed`) is one step.  Time is the fact that a caller's deadline has  *)
(* passed.  vv_cond_wait may wake a thread that nobody signalled.          *)
(***************************************************************************)
EXTENDS Integers, Sequences, FiniteSets

CONSTANTS Client,
          Slots,       \* q->slots, the engine's slots
          Capacity,    \* q->capacity, --queue-size
          MaxCalls     \* bound: calls of either entry in one behaviour

ASSUME AdmissionAssumption ==
    /\ IsFiniteSet(Client)
    /\ Slots \in Nat \ {0}
    /\ Capacity \in Nat
    /\ MaxCalls \in Nat

VARIABLES
    active, waiting,         \* the two counters admission is decided on
    next, serving,           \* the next ticket to give, and to serve
    rejected,
    pc,                      \* per client: where its thread is
    ticket,                  \* its ticket, while in line
    expired,                 \* its deadline has passed
    asleep,                  \* the clients blocked on `changed`
    calls

counters == <<active, waiting, next, serving, rejected>>
vars == <<counters, pc, ticket, expired, asleep, calls>>

(* "line": in vv_queue_enter with a ticket; "try": in vv_queue_try_enter;  *)
(* "in": admitted, until vv_queue_leave.                                   *)
PC == {"out", "line", "try", "in"}

TypeOK ==
    /\ active \in Nat /\ waiting \in Nat
    /\ next \in Nat /\ serving \in Nat /\ rejected \in Nat
    /\ pc \in [Client -> PC]
    /\ ticket \in [Client -> Nat]
    /\ expired \in [Client -> BOOLEAN]
    /\ asleep \in SUBSET Client
    /\ calls \in 0..MaxCalls

Init ==
    /\ active = 0 /\ waiting = 0
    /\ next = 0 /\ serving = 0 /\ rejected = 0
    /\ pc = [c \in Client |-> "out"]
    /\ ticket = [c \in Client |-> 0]
    /\ expired = [c \in Client |-> FALSE]
    /\ asleep = {}
    /\ calls = 0

-----------------------------------------------------------------------------
Full == active + waiting >= Slots + Capacity

Count == calls < MaxCalls /\ calls' = calls + 1

Goto(c, where) == pc' = [pc EXCEPT ![c] = where]

(* vv_cond_broadcast(&q->changed).                                         *)
Broadcast == asleep' = {}

(* vv_queue_enter, as far as its first test of the wait condition: turned  *)
(* away, admitted at once, or asleep with a ticket.                        *)
Enter(c) ==
    /\ pc[c] = "out"
    /\ Count
    /\ \/ /\ Full
          /\ rejected' = rejected + 1
          /\ UNCHANGED <<active, waiting, next, serving, pc, ticket, asleep>>
       \/ /\ ~Full
          /\ next = serving /\ active < Slots
          /\ next' = next + 1 /\ serving' = serving + 1
          /\ active' = active + 1
          /\ Goto(c, "in")
          /\ Broadcast
          /\ UNCHANGED <<waiting, rejected, ticket>>
       \/ /\ ~Full
          /\ next # serving \/ active >= Slots
          /\ next' = next + 1
          /\ waiting' = waiting + 1
          /\ ticket' = [ticket EXCEPT ![c] = next]
          /\ Goto(c, "line")
          /\ asleep' = asleep \cup {c}
          /\ UNCHANGED <<active, serving, rejected>>
    /\ UNCHANGED expired

MyTurn(c) == ticket[c] = serving /\ active < Slots

Awake(c, where) == pc[c] = where /\ c \notin asleep

AdmitQuietly(c) ==                               \* mutant: no broadcast
    /\ Awake(c, "line")
    /\ MyTurn(c)
    /\ waiting' = waiting - 1
    /\ active' = active + 1
    /\ serving' = serving + 1
    /\ Goto(c, "in")
    /\ ticket' = [ticket EXCEPT ![c] = 0]
    /\ UNCHANGED <<asleep, next, rejected, expired, calls>>

(* The wait loop of vv_queue_enter ends.                                   *)
Admit(c) ==
    /\ Awake(c, "line")
    /\ MyTurn(c)
    /\ waiting' = waiting - 1
    /\ active' = active + 1
    /\ serving' = serving + 1
    /\ Goto(c, "in")
    /\ Broadcast
    /\ ticket' = [ticket EXCEPT ![c] = 0]
    /\ UNCHANGED <<next, rejected, expired, calls>>

(* ... or goes round.                                                      *)
WaitOn(c) ==
    /\ Awake(c, "line")
    /\ ~MyTurn(c)
    /\ asleep' = asleep \cup {c}
    /\ UNCHANGED <<counters, pc, ticket, expired, calls>>

(* vv_queue_try_enter up to the mutex; wait_ms <= 0 is a deadline that has *)
(* already passed.                                                         *)
TryEnter(c) ==
    /\ pc[c] = "out"
    /\ Count
    /\ Goto(c, "try")
    /\ \E b \in BOOLEAN : expired' = [expired EXCEPT ![c] = b]
    /\ UNCHANGED <<counters, ticket, asleep>>

FreeSlot == active < Slots                       \* mutant: the line passed by

FreeAndNobodyAhead == waiting = 0 /\ active < Slots

TryAdmit(c) ==
    /\ Awake(c, "try")
    /\ FreeAndNobodyAhead
    /\ active' = active + 1
    /\ Goto(c, "in")
    /\ expired' = [expired EXCEPT ![c] = FALSE]
    /\ UNCHANGED <<waiting, next, serving, rejected, ticket, asleep, calls>>

TryReject(c) ==
    /\ Awake(c, "try")
    /\ ~FreeAndNobodyAhead
    /\ expired[c]
    /\ rejected' = rejected + 1
    /\ Goto(c, "out")
    /\ expired' = [expired EXCEPT ![c] = FALSE]
    /\ UNCHANGED <<active, waiting, next, serving, ticket, asleep, calls>>

TryWait(c) ==
    /\ Awake(c, "try")
    /\ ~FreeAndNobodyAhead
    /\ ~expired[c]
    /\ asleep' = asleep \cup {c}
    /\ UNCHANGED <<counters, pc, ticket, expired, calls>>

LeaveUnheard(c) ==                               \* mutant: nobody is told
    /\ pc[c] = "in"
    /\ active' = active - 1
    /\ Goto(c, "out")
    /\ UNCHANGED <<asleep, waiting, next, serving, rejected, ticket, expired,
                   calls>>

Leave(c) ==
    /\ pc[c] = "in"
    /\ active' = active - 1
    /\ Goto(c, "out")
    /\ Broadcast
    /\ UNCHANGED <<waiting, next, serving, rejected, ticket, expired, calls>>

DeadlinePasses(c) ==
    /\ pc[c] = "try" /\ ~expired[c]
    /\ expired' = [expired EXCEPT ![c] = TRUE]
    /\ UNCHANGED <<counters, pc, ticket, asleep, calls>>

(* vv_cond_timedwait returns at the deadline.                              *)
TimerWake(c) ==
    /\ c \in asleep
    /\ pc[c] = "try" /\ expired[c]
    /\ asleep' = asleep \ {c}
    /\ UNCHANGED <<counters, pc, ticket, expired, calls>>

SpuriousWake(c) ==
    /\ c \in asleep
    /\ asleep' = asleep \ {c}
    /\ UNCHANGED <<counters, pc, ticket, expired, calls>>

-----------------------------------------------------------------------------
Step(c) ==
    \/ Enter(c) \/ Admit(c) \/ WaitOn(c)
    \/ TryEnter(c) \/ TryAdmit(c) \/ TryReject(c) \/ TryWait(c)
    \/ Leave(c)
    \/ DeadlinePasses(c) \/ TimerWake(c) \/ SpuriousWake(c)

(* Every call has been made and every client is out again.                 *)
Done == calls = MaxCalls /\ (\A c \in Client : pc[c] = "out") /\ UNCHANGED vars

Next == (\E c \in Client : Step(c)) \/ Done

Spec == Init /\ [][Next]_vars

(* A thread at the mutex gets it, time passes, and a handler returns: it   *)
(* has a bounded generation, or a session its idle rules end.              *)
Fairness ==
    \A c \in Client :
        /\ WF_vars(Admit(c) \/ WaitOn(c))
        /\ WF_vars(TryAdmit(c) \/ TryReject(c) \/ TryWait(c))
        /\ WF_vars(DeadlinePasses(c))
        /\ WF_vars(TimerWake(c))
        /\ WF_vars(Leave(c))

FairSpec == Spec /\ Fairness

-----------------------------------------------------------------------------
InLine == {c \in Client : pc[c] = "line"}

Inside == {c \in Client : pc[c] = "in"}

(* `active` counts the clients inside and never passes the engine's slots; *)
(* the rest of the admitted fit in the capacity.                           *)
WithinLimits ==
    /\ active = Cardinality(Inside)
    /\ active <= Slots
    /\ active + waiting <= Slots + Capacity

(* The tickets in line are serving .. next - 1, each held by one client:   *)
(* the ticket served next is always somebody's, so the line cannot stall   *)
(* on one that nobody holds.                                               *)
TicketsContiguous ==
    /\ next = serving + waiting
    /\ \A c \in InLine : ticket[c] \in serving..(next - 1)
    /\ \A c, d \in InLine : ticket[c] = ticket[d] => c = d
    /\ \A t \in serving..(next - 1) : \E c \in InLine : ticket[c] = t

(* No wakeup is lost: the client whose turn it is never sleeps on a free   *)
(* slot, nor does a session sleep on one that nobody is in line for.       *)
NoLostWakeup ==
    \A c \in asleep :
        /\ pc[c] = "line" => ~MyTurn(c)
        /\ pc[c] = "try" => ~FreeAndNobodyAhead

OnlyCallersSleep == \A c \in asleep : pc[c] \in {"line", "try"}

(* The inductive invariant the proofs rest on, and the queue's promise:    *)
(* never more inside or in line than allowed, tickets in the order of      *)
(* arrival without a gap, and nobody asleep whose turn it is               *)
(* (vv_queue_enter, vv_queue_try_enter, vv_queue_leave).                   *)
IInv == TypeOK /\ WithinLimits /\ TicketsContiguous /\ NoLostWakeup
               /\ OnlyCallersSleep

(* Everybody in line is admitted, and every session is told yes or no.     *)
CallersAnswered ==
    \A c \in Client : /\ pc[c] = "line" ~> pc[c] = "in"
                      /\ pc[c] = "try" ~> pc[c] \in {"in", "out"}

(* The client whose ticket is t.                                           *)
Holder(t) == CHOOSE c \in Client : pc[c] = "line" /\ ticket[c] = t

(* The queue implements first-come-first-served admission.                 *)
Fifo == INSTANCE FifoAdmission WITH
    line    <- [i \in 1..waiting |-> Holder(serving + i - 1)],
    inside  <- Inside,
    refused <- rejected

FifoSpec == Fifo!Spec
=============================================================================
