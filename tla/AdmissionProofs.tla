-------------------------- MODULE AdmissionProofs --------------------------
(***************************************************************************)
(* Proofs about AdmissionQueue for every number of clients, slots and      *)
(* waiting places.                                                         *)
(***************************************************************************)
EXTENDS AdmissionQueue, FiniteSetTheorems, SequenceTheorems,
        TLAPS

USE AdmissionAssumption

(* A set of clients is finite; how its size changes with one client.       *)
LEMMA ClientSets ==
    ASSUME NEW S \in SUBSET Client, NEW c \in Client
    PROVE  /\ IsFiniteSet(S) /\ Cardinality(S) \in Nat
           /\ c \notin S => Cardinality(S \cup {c}) = Cardinality(S) + 1
           /\ c \in S => Cardinality(S \ {c}) = Cardinality(S) - 1
           /\ c \in S => Cardinality(S) >= 1
<1>1. IsFiniteSet(S) /\ Cardinality(S) \in Nat
  BY FS_Subset, FS_CardinalityType
<1>2. c \notin S => Cardinality(S \cup {c}) = Cardinality(S) + 1
  BY <1>1, FS_AddElement
<1>3. c \in S => Cardinality(S \ {c}) = Cardinality(S) - 1
  BY <1>1, FS_RemoveElement
<1>4. c \in S => Cardinality(S) # 0
  BY <1>1, FS_EmptySet
<1>5. QED
  BY <1>1, <1>2, <1>3, <1>4

(* The queue starts empty.                                                 *)
LEMMA InitIInv == Init => IInv
<1> SUFFICES ASSUME Init PROVE IInv
  OBVIOUS
<1>1. Inside = {} /\ InLine = {}
  BY DEF Init, Inside, InLine
<1>2. WithinLimits
  BY <1>1, FS_EmptySet DEF Init, WithinLimits
<1>3. TicketsContiguous
  BY <1>1 DEF Init, TicketsContiguous
<1>4. TypeOK
  BY DEF Init, TypeOK, PC
<1>5. QED
  BY <1>2, <1>3, <1>4 DEF IInv, Init, NoLostWakeup, OnlyCallersSleep

(* vv_queue_enter keeps the invariant on each of its three ways out.       *)
LEMMA EnterIInv == ASSUME NEW c \in Client, IInv, Enter(c) PROVE IInv'
<1> USE DEF IInv
<1>0. pc[c] = "out" /\ calls' \in 0..MaxCalls /\ UNCHANGED expired
  BY DEF Enter, Count, TypeOK
<1>1. CASE /\ rejected' = rejected + 1
           /\ UNCHANGED <<active, waiting, next, serving, pc, ticket, asleep>>
  BY <1>0, <1>1 DEF TypeOK, WithinLimits, TicketsContiguous, NoLostWakeup,
     OnlyCallersSleep, Inside, InLine, MyTurn, FreeAndNobodyAhead
<1>2. CASE /\ next = serving /\ active < Slots
           /\ next' = next + 1 /\ serving' = serving + 1
           /\ active' = active + 1
           /\ Goto(c, "in")
           /\ Broadcast
           /\ UNCHANGED <<waiting, rejected, ticket>>
  <2>1. Inside' = Inside \cup {c} /\ c \notin Inside /\ InLine' = InLine
    BY <1>0, <1>2 DEF Inside, InLine, Goto, TypeOK
  <2>2. Cardinality(Inside') = Cardinality(Inside) + 1
    BY <2>1, ClientSets DEF Inside
  <2>3. waiting = 0
    BY <1>2 DEF TicketsContiguous, TypeOK
  <2>4. WithinLimits'
    BY <1>2, <2>2, <2>3 DEF WithinLimits, TypeOK
  <2>5. InLine = {}
    BY <1>2 DEF TicketsContiguous, TypeOK, InLine
  <2>6. TicketsContiguous'
    BY <1>2, <2>1, <2>3, <2>5 DEF TicketsContiguous, TypeOK
  <2>7. TypeOK'
    BY <1>0, <1>2 DEF TypeOK, Goto, Broadcast, PC
  <2>8. QED
    BY <1>2, <2>4, <2>6, <2>7 DEF NoLostWakeup, OnlyCallersSleep, Broadcast
<1>3. CASE /\ ~Full
           /\ next # serving \/ active >= Slots
           /\ next' = next + 1
           /\ waiting' = waiting + 1
           /\ ticket' = [ticket EXCEPT ![c] = next]
           /\ Goto(c, "line")
           /\ asleep' = asleep \cup {c}
           /\ UNCHANGED <<active, serving, rejected>>
  <2>1. Inside' = Inside /\ InLine' = InLine \cup {c} /\ c \notin InLine
    BY <1>0, <1>3 DEF Inside, InLine, Goto, TypeOK
  <2>2. WithinLimits'
    BY <1>3, <2>1 DEF WithinLimits, Full, TypeOK
  <2>3. ticket'[c] = next /\ \A d \in InLine : ticket'[d] = ticket[d]
    BY <1>3, <2>1 DEF TypeOK, InLine
  <2>4. TicketsContiguous'
    <3>1. next' = serving' + waiting'
      BY <1>3 DEF TicketsContiguous, TypeOK
    <3>2. \A d \in InLine' : ticket'[d] \in serving'..(next' - 1)
      BY <1>3, <2>1, <2>3 DEF TicketsContiguous, TypeOK
    <3>3. \A d, e \in InLine' : ticket'[d] = ticket'[e] => d = e
      BY <1>3, <2>1, <2>3 DEF TicketsContiguous, TypeOK
    <3>4. \A t \in serving'..(next' - 1) : \E d \in InLine' : ticket'[d] = t
      BY <1>3, <2>1, <2>3 DEF TicketsContiguous, TypeOK
    <3>5. QED
      BY <3>1, <3>2, <3>3, <3>4 DEF TicketsContiguous
  <2>5. TypeOK'
    BY <1>0, <1>3 DEF TypeOK, Goto, PC
  <2>6. NoLostWakeup' /\ OnlyCallersSleep'
    BY <1>0, <1>3 DEF NoLostWakeup, OnlyCallersSleep, MyTurn,
       FreeAndNobodyAhead, Goto, TypeOK
  <2>7. QED
    BY <2>2, <2>4, <2>5, <2>6
<1>4. QED
  BY <1>1, <1>2, <1>3 DEF Enter

(* Serving the head of the line shortens it by its first ticket.           *)
LEMMA AdmitIInv == ASSUME NEW c \in Client, IInv, Admit(c) PROVE IInv'
<1> USE DEF IInv
<1>1. /\ pc[c] = "line" /\ ticket[c] = serving /\ active < Slots
      /\ waiting' = waiting - 1 /\ active' = active + 1
      /\ serving' = serving + 1 /\ asleep' = {}
      /\ pc' = [pc EXCEPT ![c] = "in"]
      /\ ticket' = [ticket EXCEPT ![c] = 0]
      /\ UNCHANGED <<next, rejected, expired, calls>>
  BY DEF Admit, Awake, MyTurn, Goto, Broadcast
<1>2. /\ Inside' = Inside \cup {c} /\ c \notin Inside
      /\ InLine' = InLine \ {c} /\ c \in InLine
  BY <1>1 DEF Inside, InLine, TypeOK
<1>3. waiting >= 1
  BY <1>1, <1>2 DEF TicketsContiguous, TypeOK
<1>4. Cardinality(Inside') = Cardinality(Inside) + 1
  BY <1>2, ClientSets DEF Inside
<1>5. WithinLimits'
  BY <1>1, <1>4 DEF WithinLimits, TypeOK
<1>6. \A d \in InLine' : ticket'[d] = ticket[d] /\ ticket[d] # serving
  BY <1>1, <1>2 DEF TicketsContiguous, InLine, TypeOK
<1>7. TicketsContiguous'
  <2>1. next' = serving' + waiting'
    BY <1>1 DEF TicketsContiguous, TypeOK
  <2>2. \A d \in InLine' : ticket'[d] \in serving'..(next' - 1)
    BY <1>1, <1>2, <1>6 DEF TicketsContiguous, TypeOK
  <2>3. \A d, e \in InLine' : ticket'[d] = ticket'[e] => d = e
    BY <1>2, <1>6 DEF TicketsContiguous
  <2>4. \A t \in serving'..(next' - 1) : \E d \in InLine' : ticket'[d] = t
    BY <1>1, <1>2, <1>6 DEF TicketsContiguous, TypeOK
  <2>5. QED
    BY <2>1, <2>2, <2>3, <2>4 DEF TicketsContiguous
<1>8. TypeOK'
  BY <1>1, <1>3 DEF TypeOK, PC
<1>9. QED
  BY <1>1, <1>5, <1>7, <1>8 DEF NoLostWakeup, OnlyCallersSleep

(* Leaving frees a slot and wakes everybody.                               *)
LEMMA LeaveIInv == ASSUME NEW c \in Client, IInv, Leave(c) PROVE IInv'
<1> USE DEF IInv
<1>1. /\ pc[c] = "in" /\ active' = active - 1 /\ asleep' = {}
      /\ pc' = [pc EXCEPT ![c] = "out"]
      /\ UNCHANGED <<waiting, next, serving, rejected, ticket, expired, calls>>
  BY DEF Leave, Goto, Broadcast
<1>2. Inside' = Inside \ {c} /\ c \in Inside /\ InLine' = InLine
  BY <1>1 DEF Inside, InLine, TypeOK
<1>3. /\ Cardinality(Inside') = Cardinality(Inside) - 1
      /\ Cardinality(Inside) >= 1
  BY <1>2, ClientSets DEF Inside
<1>4. WithinLimits'
  BY <1>1, <1>3 DEF WithinLimits, TypeOK
<1>5. TicketsContiguous'
  BY <1>1, <1>2 DEF TicketsContiguous
<1>6. TypeOK'
  BY <1>1, <1>3 DEF TypeOK, PC, WithinLimits
<1>7. QED
  BY <1>1, <1>4, <1>5, <1>6 DEF NoLostWakeup, OnlyCallersSleep

(* A session takes a slot nobody is in line for.                           *)
LEMMA TryAdmitIInv == ASSUME NEW c \in Client, IInv, TryAdmit(c) PROVE IInv'
<1> USE DEF IInv
<1>1. /\ pc[c] = "try" /\ c \notin asleep /\ waiting = 0 /\ active < Slots
      /\ active' = active + 1
      /\ pc' = [pc EXCEPT ![c] = "in"]
      /\ expired' = [expired EXCEPT ![c] = FALSE]
      /\ UNCHANGED <<waiting, next, serving, rejected, ticket, asleep, calls>>
  BY DEF TryAdmit, Awake, FreeAndNobodyAhead, Goto
<1>2. Inside' = Inside \cup {c} /\ c \notin Inside /\ InLine' = InLine
  BY <1>1 DEF Inside, InLine, TypeOK
<1>3. Cardinality(Inside') = Cardinality(Inside) + 1
  BY <1>2, ClientSets DEF Inside
<1>4. WithinLimits'
  BY <1>1, <1>3 DEF WithinLimits, TypeOK
<1>5. TicketsContiguous'
  BY <1>1, <1>2 DEF TicketsContiguous
<1>6. TypeOK'
  BY <1>1 DEF TypeOK, PC
<1>7. NoLostWakeup' /\ OnlyCallersSleep'
  BY <1>1 DEF NoLostWakeup, OnlyCallersSleep, MyTurn, FreeAndNobodyAhead, TypeOK
<1>8. QED
  BY <1>4, <1>5, <1>6, <1>7

(* The steps of a session that is waiting or refused, the sleeps and the   *)
(* wakes leave the line and the slots alone.                               *)
LEMMA OtherIInv ==
    ASSUME NEW c \in Client, IInv,
           \/ WaitOn(c) \/ TryEnter(c) \/ TryReject(c) \/ TryWait(c)
           \/ DeadlinePasses(c) \/ TimerWake(c) \/ SpuriousWake(c)
    PROVE  IInv'
<1> USE DEF IInv
<1>1. /\ active' = active /\ waiting' = waiting /\ next' = next
      /\ serving' = serving /\ rejected' \in Nat /\ ticket' = ticket
  BY DEF WaitOn, TryEnter, TryReject, TryWait, DeadlinePasses, TimerWake,
     SpuriousWake, counters, TypeOK
<1>2. /\ pc' \in [Client -> PC]
      /\ \A d \in Client : /\ (pc'[d] = "in") <=> (pc[d] = "in")
                           /\ (pc'[d] = "line") <=> (pc[d] = "line")
                           /\ d # c => pc'[d] = pc[d]
  BY DEF WaitOn, TryEnter, TryReject, TryWait, DeadlinePasses, TimerWake,
     SpuriousWake, Goto, Awake, TypeOK, PC
<1>3. Inside' = Inside /\ InLine' = InLine
  BY <1>2 DEF Inside, InLine
<1>4. WithinLimits' /\ TicketsContiguous'
  BY <1>1, <1>3 DEF WithinLimits, TicketsContiguous
<1>5. expired' \in [Client -> BOOLEAN] /\ calls' \in 0..MaxCalls
  <2>1. CASE TryEnter(c)
    <3>1. PICK b \in BOOLEAN : expired' = [expired EXCEPT ![c] = b]
      BY <2>1 DEF TryEnter
    <3>2. expired' \in [Client -> BOOLEAN]
      BY <3>1 DEF TypeOK
    <3>3. QED
      BY <2>1, <3>2 DEF TryEnter, Count, TypeOK
  <2>2. CASE TryReject(c) \/ DeadlinePasses(c)
    BY <2>2 DEF TryReject, DeadlinePasses, TypeOK
  <2>3. CASE WaitOn(c) \/ TryWait(c) \/ TimerWake(c) \/ SpuriousWake(c)
    BY <2>3 DEF WaitOn, TryWait, TimerWake, SpuriousWake, TypeOK
  <2>4. QED
    BY <2>1, <2>2, <2>3
<1>6. asleep' \in SUBSET Client
  BY DEF WaitOn, TryEnter, TryReject, TryWait, DeadlinePasses, TimerWake,
     SpuriousWake, TypeOK
<1>7. \A d \in asleep' :
         /\ pc'[d] \in {"line", "try"}
         /\ \/ d \in asleep
            \/ pc[d] = "line" /\ ~MyTurn(d)
            \/ pc[d] = "try" /\ ~FreeAndNobodyAhead
         /\ pc'[d] = pc[d]
  <2>1. CASE WaitOn(c)
    BY <2>1 DEF WaitOn, Awake, OnlyCallersSleep
  <2>2. CASE TryWait(c)
    BY <2>2 DEF TryWait, Awake, OnlyCallersSleep
  <2>3. CASE TryEnter(c) \/ TryReject(c)
    BY <1>2, <2>3 DEF TryEnter, TryReject, Awake, OnlyCallersSleep, TypeOK
  <2>4. CASE DeadlinePasses(c) \/ TimerWake(c) \/ SpuriousWake(c)
    BY <2>4 DEF DeadlinePasses, TimerWake, SpuriousWake, OnlyCallersSleep
  <2>5. QED
    BY <2>1, <2>2, <2>3, <2>4
<1>8. NoLostWakeup'
  BY <1>1, <1>7 DEF NoLostWakeup, MyTurn, FreeAndNobodyAhead
<1>9. QED
  BY <1>1, <1>2, <1>4, <1>5, <1>6, <1>7, <1>8 DEF TypeOK, OnlyCallersSleep

(* Every step keeps the invariant.                                         *)
LEMMA NextIInv == IInv /\ [Next]_vars => IInv'
<1> SUFFICES ASSUME IInv, [Next]_vars PROVE IInv'
  OBVIOUS
<1>1. CASE UNCHANGED vars
  BY <1>1 DEF vars, counters, IInv, TypeOK, WithinLimits, TicketsContiguous,
     NoLostWakeup, OnlyCallersSleep, Inside, InLine, MyTurn, FreeAndNobodyAhead
<1>2. ASSUME NEW c \in Client, Step(c) PROVE IInv'
  BY <1>2, EnterIInv, AdmitIInv, LeaveIInv, TryAdmitIInv, OtherIInv DEF Step
<1>3. QED
  BY <1>1, <1>2 DEF Next, Done

(* The inductive invariant of the queue holds in every behaviour.          *)
THEOREM Invariance == Spec => []IInv
<1>1. Init => IInv
  BY InitIInv
<1>2. QED
  BY <1>1, NextIInv, PTL DEF Spec

(* The queue's variables keep their types: in particular no counter of     *)
(* vv_queue_t ever goes below zero.                                        *)
THEOREM TypeCorrect == Spec => []TypeOK
BY Invariance, PTL DEF IInv

(* Never more clients inside than slots, nor more in line than capacity.   *)
THEOREM LimitsHold == Spec => []WithinLimits
BY Invariance, PTL DEF IInv

(* The tickets in line are consecutive, and the one served next is held.   *)
THEOREM TicketsAreContiguous == Spec => []TicketsContiguous
BY Invariance, PTL DEF IInv

(* Nobody sleeps on a slot that is theirs to take.                         *)
THEOREM WakeupsAreNotLost == Spec => []NoLostWakeup
BY Invariance, PTL DEF IInv

-----------------------------------------------------------------------------
(* The FIFO the queue implements: its line is read off the tickets.        *)
Line == [i \in 1..waiting |-> Holder(serving + i - 1)]

(* The instance's Cardinality is the one the invariant speaks of.          *)
LEMMA SameCardinality == \A S : Fifo!Cardinality(S) = Cardinality(S)
BY DEF Fifo!Cardinality, Cardinality

(* A ticket that one client alone holds finds that client.                 *)
LEMMA HolderIs ==
    ASSUME NEW p, NEW tk, NEW t, NEW c \in Client,
           p[c] = "line", tk[c] = t,
           \A d \in Client : p[d] = "line" /\ tk[d] = t => d = c
    PROVE  (CHOOSE d \in Client : p[d] = "line" /\ tk[d] = t) = c
OBVIOUS

(* The line is a sequence of clients, as long as `waiting` says, and its   *)
(* i-th client holds the i-th ticket from `serving`.                       *)
LEMMA LineShape ==
    ASSUME IInv
    PROVE  /\ Line \in Seq(Client)
           /\ Len(Line) = waiting
           /\ \A c \in InLine : Holder(ticket[c]) = c
           /\ \A i \in 1..waiting : /\ Line[i] \in InLine
                                    /\ ticket[Line[i]] = serving + i - 1
<1> USE DEF IInv
<1>1. \A c \in InLine : Holder(ticket[c]) = c
  BY HolderIs DEF Holder, TicketsContiguous, InLine
<1>2. ASSUME NEW i \in 1..waiting
      PROVE  Line[i] \in InLine /\ ticket[Line[i]] = serving + i - 1
  <2>1. serving + i - 1 \in serving..(next - 1)
    BY DEF TicketsContiguous, TypeOK
  <2>2. PICK c \in InLine : ticket[c] = serving + i - 1
    BY <2>1 DEF TicketsContiguous
  <2>3. Line[i] = c
    BY <1>1, <2>2 DEF Line
  <2>4. QED
    BY <2>2, <2>3
<1>3. Line \in [1..waiting -> Client]
  BY <1>2 DEF Line, InLine
<1>4. waiting \in Nat
  BY DEF TypeOK
<1>5. QED
  BY <1>1, <1>2, <1>3, <1>4

(* A step that moves nobody in line leaves the line as it is.              *)
LEMMA LineUnchanged ==
    ASSUME IInv, waiting' = waiting, serving' = serving,
           \A d \in Client : /\ (pc'[d] = "line") <=> (pc[d] = "line")
                             /\ pc[d] = "line" => ticket'[d] = ticket[d]
    PROVE  Line' = Line
<1>1. ASSUME NEW i \in 1..waiting
      PROVE  Holder(serving + i - 1)' = Holder(serving + i - 1)
  <2>1. /\ Line[i] \in Client /\ pc[Line[i]] = "line"
        /\ ticket[Line[i]] = serving + i - 1
        /\ Line[i] = Holder(serving + i - 1)
    BY LineShape DEF InLine, Line
  <2>2. \A d \in Client : pc'[d] = "line" /\ ticket'[d] = serving + i - 1
                            => d = Line[i]
    BY <2>1 DEF IInv, TicketsContiguous, InLine
  <2>3. (CHOOSE d \in Client : pc'[d] = "line" /\ ticket'[d] = serving + i - 1)
            = Line[i]
    BY <2>1, <2>2, HolderIs
  <2>4. QED
    BY <2>1, <2>3 DEF Holder
<1>2. QED
  BY <1>1 DEF Line

(* The instance's definitions, in the queue's terms.                       *)
LEMMA FifoTerms ==
    ASSUME IInv
    PROVE  /\ Fifo!Room <=> active < Slots
           /\ Fifo!Full <=> waiting + active >= Slots + Capacity
           /\ \A c : Fifo!InLine(c) => c \in InLine
           /\ Line = << >> <=> waiting = 0
<1>1. Cardinality(Inside) = active
  BY DEF IInv, WithinLimits
<1>2. Fifo!Room <=> active < Slots
  BY <1>1, SameCardinality DEF Fifo!Room
<1>3. Fifo!Full <=> waiting + active >= Slots + Capacity
  BY <1>1, SameCardinality, LineShape DEF Fifo!Full, Line
<1>4. \A c : Fifo!InLine(c) => c \in InLine
  BY LineShape DEF Fifo!InLine, Line
<1>5. Line = << >> <=> waiting = 0
  BY LineShape DEF IInv, TypeOK
<1>6. QED
  BY <1>2, <1>3, <1>4, <1>5

(* A client taking the ticket `next` goes to the end of the line.          *)
LEMMA LineGrows ==
    ASSUME IInv, IInv', NEW c \in Client, c \notin InLine,
           waiting' = waiting + 1, serving' = serving,
           pc'[c] = "line", ticket'[c] = next,
           \A d \in Client : d # c => pc'[d] = pc[d] /\ ticket'[d] = ticket[d]
    PROVE  Line' = Append(Line, c)
<1> USE DEF IInv
<1>1. ASSUME NEW i \in 1..waiting PROVE Line'[i] = Line[i]
  <2>1. /\ Line[i] \in Client /\ pc[Line[i]] = "line"
        /\ ticket[Line[i]] = serving + i - 1
    BY LineShape DEF InLine
  <2>2. pc'[Line[i]] = "line" /\ ticket'[Line[i]] = serving + i - 1
    BY <2>1 DEF InLine
  <2>3. \A d \in Client : pc'[d] = "line" /\ ticket'[d] = serving + i - 1
                            => d = Line[i]
    BY <2>1, <2>2 DEF TicketsContiguous, InLine
  <2>4. (CHOOSE d \in Client : pc'[d] = "line" /\ ticket'[d] = serving + i - 1)
            = Line[i]
    BY <2>1, <2>2, <2>3, HolderIs
  <2>5. i \in 1..waiting'
    BY DEF TypeOK
  <2>6. QED
    BY <2>4, <2>5 DEF Line, Holder
<1>2. Line'[waiting + 1] = c
  <2>1. next = serving + (waiting + 1) - 1
    BY DEF TicketsContiguous, TypeOK
  <2>2. \A d \in Client : pc'[d] = "line" /\ ticket'[d] = next => d = c
    BY DEF TicketsContiguous, InLine
  <2>3. (CHOOSE d \in Client : pc'[d] = "line" /\ ticket'[d] = next) = c
    BY <2>2, HolderIs
  <2>4. waiting + 1 \in 1..waiting'
    BY DEF TypeOK
  <2>5. QED
    BY <2>1, <2>3, <2>4 DEF Line, Holder
<1>3. /\ Line' \in [1..(waiting + 1) -> Client]
      /\ waiting + 1 \in Nat
  <2>1. \A i \in 1..waiting : Line[i] \in Client
    BY LineShape DEF InLine
  <2>2. waiting \in Nat /\ \A i \in 1..(waiting + 1) : i \in 1..waiting \/ i = waiting + 1
    BY DEF TypeOK
  <2>3. \A i \in 1..(waiting + 1) : Line'[i] \in Client
    BY <1>1, <1>2, <2>1, <2>2
  <2>4. Line' = [i \in 1..(waiting + 1) |-> Holder(serving + i - 1)']
    BY DEF Line
  <2>5. QED
    BY <2>2, <2>3, <2>4
<1>4. Line' \in Seq(Client) /\ Len(Line') = waiting + 1
  BY <1>3
<1>5. /\ Append(Line, c) \in Seq(Client)
      /\ Len(Append(Line, c)) = waiting + 1
      /\ \A i \in 1..waiting : Append(Line, c)[i] = Line[i]
      /\ Append(Line, c)[waiting + 1] = c
  <2>1. Line \in Seq(Client) /\ Len(Line) = waiting
    BY LineShape
  <2>2. QED
    BY <2>1, AppendProperties DEF TypeOK
<1>6. \A i \in 1..(waiting + 1) : Line'[i] = Append(Line, c)[i]
  BY <1>1, <1>2, <1>5 DEF TypeOK
<1>7. QED
  BY <1>4, <1>5, <1>6, SeqEqual

(* The client holding `serving` is the head, and the line moves up.        *)
LEMMA LineServed ==
    ASSUME IInv, IInv', NEW c \in InLine, ticket[c] = serving,
           waiting' = waiting - 1, serving' = serving + 1,
           pc'[c] # "line",
           \A d \in Client : d # c => pc'[d] = pc[d] /\ ticket'[d] = ticket[d]
    PROVE  Line # << >> /\ Line[1] = c /\ Line' = Tail(Line)
<1> USE DEF IInv
<1>0. waiting \in Nat /\ waiting >= 1 /\ serving \in Nat
  BY DEF TicketsContiguous, TypeOK
<1>1. Line[1] = c
  <2>1. Line[1] \in InLine /\ ticket[Line[1]] = serving
    BY <1>0, LineShape
  <2>2. QED
    BY <2>1 DEF TicketsContiguous
<1>2. ASSUME NEW i \in 1..(waiting - 1) PROVE Line'[i] = Line[i + 1]
  <2>0. i + 1 \in 1..waiting /\ serving + (i + 1) - 1 = serving + i
    BY <1>0
  <2>1. /\ Line[i + 1] \in Client /\ pc[Line[i + 1]] = "line"
        /\ ticket[Line[i + 1]] = serving + i
    BY <2>0, LineShape DEF InLine
  <2>2. Line[i + 1] # c
    BY <1>0, <2>1
  <2>3. pc'[Line[i + 1]] = "line" /\ ticket'[Line[i + 1]] = serving + i
    BY <2>1, <2>2
  <2>4. \A d \in Client : pc'[d] = "line" /\ ticket'[d] = serving + i
                            => d = Line[i + 1]
    BY <2>1, <2>3 DEF TicketsContiguous, InLine
  <2>5. (CHOOSE d \in Client : pc'[d] = "line" /\ ticket'[d] = serving + i)
            = Line[i + 1]
    BY <2>1, <2>3, <2>4, HolderIs
  <2>6. i \in 1..waiting' /\ serving' + i - 1 = serving + i
    BY <1>0
  <2>7. QED
    BY <2>5, <2>6 DEF Line, Holder
<1>3. Line' \in Seq(Client) /\ Len(Line') = waiting - 1
  <2>1. \A i \in 1..waiting : Line[i] \in Client
    BY LineShape DEF InLine
  <2>2. \A i \in 1..(waiting - 1) : Line'[i] \in Client
    BY <1>0, <1>2, <2>1
  <2>3. Line' = [i \in 1..(waiting - 1) |-> Holder(serving + i - 1)']
    BY DEF Line
  <2>4. Line' \in [1..(waiting - 1) -> Client]
    BY <2>2, <2>3
  <2>5. waiting - 1 \in Nat
    BY <1>0
  <2>6. QED
    BY <2>4, <2>5
<1>4. /\ Line # << >>
      /\ Tail(Line) \in Seq(Client)
      /\ Len(Tail(Line)) = waiting - 1
      /\ \A i \in 1..(waiting - 1) : Tail(Line)[i] = Line[i + 1]
  <2>1. Line \in Seq(Client) /\ Len(Line) = waiting
    BY LineShape
  <2>2. Line # << >>
    BY <1>0, <2>1
  <2>3. QED
    BY <2>1, <2>2, HeadTailProperties
<1>5. Line' = Tail(Line)
  BY <1>2, <1>3, <1>4, SeqEqual
<1>6. QED
  BY <1>1, <1>4, <1>5

(* Each step of the queue is a step of the FIFO, or moves nobody.          *)
LEMMA StepRefines ==
    ASSUME IInv, IInv', NEW c \in Client, Step(c)
    PROVE  [Fifo!Next]_(Fifo!vars)
<1> USE DEF IInv
<1>t. active \in Nat /\ waiting \in Nat /\ Slots \in Nat /\ Capacity \in Nat
  BY DEF TypeOK
<1>r. ASSUME UNCHANGED <<active, waiting, serving, ticket>>, Inside' = Inside,
             rejected' = rejected + 1, ~FreeAndNobodyAhead,
             \A d \in Client : (pc'[d] = "line") <=> (pc[d] = "line")
      PROVE  Fifo!Refuse
  <2>1. Line' = Line
    BY <1>r, LineUnchanged
  <2>2. ~Fifo!Room \/ Line # << >>
    BY <1>r, <1>t, FifoTerms DEF FreeAndNobodyAhead
  <2>3. QED
    BY <1>r, <2>1, <2>2 DEF Fifo!Refuse, Line
<1>w. ASSUME waiting = 0, waiting' = 0, active < Slots, c \notin Inside,
             Inside' = Inside \cup {c}, rejected' = rejected
      PROVE  Fifo!WalkIn(c)
  <2>1. Line = << >> /\ Line' = << >>
    BY <1>w DEF Line
  <2>2. Fifo!Room
    BY <1>w, FifoTerms
  <2>3. QED
    BY <1>w, <2>1, <2>2 DEF Fifo!WalkIn, Line
<1>1. CASE Enter(c)
  <2>0. pc[c] = "out" /\ c \notin Inside /\ c \notin InLine
    BY <1>1 DEF Enter, Inside, InLine
  <2>1. CASE /\ Full
             /\ rejected' = rejected + 1
             /\ UNCHANGED <<active, waiting, next, serving, pc, ticket, asleep>>
    BY <2>1, <1>r, <1>t DEF Full, FreeAndNobodyAhead, Inside, Fifo!Next
  <2>2. CASE /\ next = serving /\ active < Slots
             /\ Goto(c, "in")
             /\ UNCHANGED <<waiting, rejected, ticket>>
    <3>1. waiting = 0 /\ waiting' = 0
      BY <2>2 DEF TicketsContiguous, TypeOK
    <3>2. Inside' = Inside \cup {c}
      BY <2>2 DEF Inside, Goto, TypeOK
    <3>3. QED
      BY <1>w, <2>0, <2>2, <3>1, <3>2 DEF Fifo!Next
  <2>3. CASE /\ ~Full
             /\ next' = next + 1
             /\ waiting' = waiting + 1
             /\ ticket' = [ticket EXCEPT ![c] = next]
             /\ Goto(c, "line")
             /\ UNCHANGED <<active, serving, rejected>>
    <3>1. /\ pc'[c] = "line" /\ ticket'[c] = next
          /\ \A d \in Client : d # c => pc'[d] = pc[d] /\ ticket'[d] = ticket[d]
      BY <2>3 DEF Goto, TypeOK
    <3>2. Line' = Append(Line, c)
      BY <2>0, <2>3, <3>1, LineGrows
    <3>3. Inside' = Inside
      BY <2>0, <3>1 DEF Inside
    <3>4. ~Fifo!Full /\ ~Fifo!InLine(c)
      BY <2>0, <2>3, <1>t, FifoTerms DEF Full
    <3>5. Fifo!Join(c)
      BY <2>0, <2>3, <3>2, <3>3, <3>4 DEF Fifo!Join, Line
    <3>6. QED
      BY <3>5 DEF Fifo!Next
  <2>4. QED
    BY <1>1, <2>1, <2>2, <2>3 DEF Enter
<1>2. CASE Admit(c)
  <2>1. /\ pc[c] = "line" /\ ticket[c] = serving /\ active < Slots
        /\ waiting' = waiting - 1 /\ serving' = serving + 1
        /\ pc' = [pc EXCEPT ![c] = "in"]
        /\ ticket' = [ticket EXCEPT ![c] = 0] /\ rejected' = rejected
    BY <1>2 DEF Admit, Awake, MyTurn, Goto
  <2>2. /\ c \in InLine /\ pc'[c] = "in"
        /\ \A d \in Client : d # c => pc'[d] = pc[d] /\ ticket'[d] = ticket[d]
    BY <2>1 DEF InLine, TypeOK
  <2>3. Line # << >> /\ Line[1] = c /\ Line' = Tail(Line)
    BY <2>1, <2>2, LineServed
  <2>4. Inside' = Inside \cup {c}
    BY <2>2 DEF Inside
  <2>5. Fifo!Room
    BY <2>1, FifoTerms
  <2>6. Fifo!Admit(c)
    BY <2>1, <2>3, <2>4, <2>5 DEF Fifo!Admit, Line
  <2>7. QED
    BY <2>6 DEF Fifo!Next
<1>3. CASE TryAdmit(c)
  <2>1. /\ pc[c] = "try" /\ waiting = 0 /\ waiting' = 0 /\ active < Slots
        /\ pc' = [pc EXCEPT ![c] = "in"] /\ rejected' = rejected
    BY <1>3 DEF TryAdmit, Awake, FreeAndNobodyAhead, Goto
  <2>2. c \notin Inside /\ Inside' = Inside \cup {c}
    BY <2>1 DEF Inside, TypeOK
  <2>3. QED
    BY <1>w, <2>1, <2>2 DEF Fifo!Next
<1>4. CASE TryReject(c)
  <2>1. /\ pc[c] = "try" /\ ~FreeAndNobodyAhead
        /\ pc' = [pc EXCEPT ![c] = "out"] /\ rejected' = rejected + 1
        /\ UNCHANGED <<active, waiting, serving, ticket>>
    BY <1>4 DEF TryReject, Awake, Goto
  <2>2. /\ Inside' = Inside
        /\ \A d \in Client : (pc'[d] = "line") <=> (pc[d] = "line")
    BY <2>1 DEF Inside, TypeOK
  <2>3. QED
    BY <1>r, <2>1, <2>2 DEF Fifo!Next
<1>5. CASE Leave(c)
  <2>1. /\ pc[c] = "in" /\ pc' = [pc EXCEPT ![c] = "out"]
        /\ UNCHANGED <<waiting, serving, rejected, ticket>>
    BY <1>5 DEF Leave, Goto
  <2>2. Line' = Line
    <3>1. \A d \in Client : (pc'[d] = "line") <=> (pc[d] = "line")
      BY <2>1 DEF TypeOK
    <3>2. QED
      BY <2>1, <3>1, LineUnchanged
  <2>3. c \in Inside /\ Inside' = Inside \ {c}
    BY <2>1 DEF Inside, TypeOK
  <2>4. Fifo!Leave(c)
    BY <2>1, <2>2, <2>3 DEF Fifo!Leave, Line
  <2>5. QED
    BY <2>4 DEF Fifo!Next
<1>6. CASE \/ WaitOn(c) \/ TryEnter(c) \/ TryWait(c)
           \/ DeadlinePasses(c) \/ TimerWake(c) \/ SpuriousWake(c)
  <2>1. UNCHANGED <<waiting, serving, rejected, ticket>>
    BY <1>6 DEF WaitOn, TryEnter, TryWait, DeadlinePasses, TimerWake,
       SpuriousWake, counters
  <2>2. \A d \in Client : /\ (pc'[d] = "in") <=> (pc[d] = "in")
                          /\ (pc'[d] = "line") <=> (pc[d] = "line")
    BY <1>6 DEF WaitOn, TryEnter, TryWait, DeadlinePasses, TimerWake,
       SpuriousWake, Goto, TypeOK
  <2>3. Line' = Line /\ Inside' = Inside
    BY <2>1, <2>2, LineUnchanged DEF Inside
  <2>4. QED
    BY <2>1, <2>3 DEF Fifo!vars, Line
<1>7. QED
  BY <1>1, <1>2, <1>3, <1>4, <1>5, <1>6 DEF Step

(* For any number of clients, slots and places, the ticket scheme of       *)
(* vv_queue.h is first-come-first-served admission: sessions never pass a  *)
(* request that waits, and nobody is turned away from a free slot.         *)
THEOREM ImplementsFifo == Spec => FifoSpec
<1>1. Init => Fifo!Init
  <2> SUFFICES ASSUME Init PROVE Fifo!Init
    OBVIOUS
  <2>1. Inside = {} /\ Line = << >>
    BY DEF Init, Inside, Line
  <2>2. QED
    BY <2>1 DEF Init, Fifo!Init, Line
<1>2. IInv /\ IInv' /\ [Next]_vars => [Fifo!Next]_(Fifo!vars)
  <2>1. ASSUME IInv, IInv', NEW c \in Client, Step(c)
        PROVE  [Fifo!Next]_(Fifo!vars)
    BY <2>1, StepRefines
  <2>2. ASSUME UNCHANGED vars PROVE UNCHANGED Fifo!vars
    BY <2>2 DEF vars, counters, Fifo!vars, Inside, Holder
  <2>3. QED
    BY <2>1, <2>2 DEF Next, Done
<1>3. QED
  BY <1>1, <1>2, Invariance, PTL DEF Spec, FifoSpec, Fifo!Spec
=============================================================================
