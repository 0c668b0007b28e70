---------------------------- MODULE ServerProofs ----------------------------
(***************************************************************************)
(* The proof that the request handlers keep Server's Safety, for any number*)
(* of clients, slots and calls.  The handlers' steps at the queue and in   *)
(* the engine are steps of those two components, so what AdmissionProofs   *)
(* and EngineProofs proved of them is used as it stands; what is left is   *)
(* where the handlers are between the two.                                 *)
(***************************************************************************)
EXTENDS Server, FiniteSetTheorems, TLAPS

QP == INSTANCE AdmissionProofs WITH
        pc <- qpc, expired <- qexpired, asleep <- qasleep, calls <- qcalls

EP == INSTANCE EngineProofs WITH
        NSlots <- Slots, MaxCalls <- MaxCalls + Cardinality(Direct),
        pc <- epc, asleep <- easleep, calls <- ecalls

-----------------------------------------------------------------------------
(* The instances' notions are those of Server.                             *)
LEMMA SameFinite ==
    /\ \A S : QP!IsFiniteSet(S) <=> IsFiniteSet(S)
    /\ \A S : EP!IsFiniteSet(S) <=> IsFiniteSet(S)
BY DEF QP!IsFiniteSet, EP!IsFiniteSet, IsFiniteSet

LEMMA SameSize ==
    /\ \A S : QP!Cardinality(S) = Cardinality(S)
    /\ \A S : EP!Cardinality(S) = Cardinality(S)
    /\ \A S : Q!Cardinality(S) = Cardinality(S)
    /\ \A S : E!Cardinality(S) = Cardinality(S)
BY DEF QP!Cardinality, EP!Cardinality, Q!Cardinality, E!Cardinality,
       Cardinality

LEMMA SameQueueInv == (Q!IInv <=> QP!IInv) /\ (Q!IInv' <=> QP!IInv')
BY SameSize, Zenon
DEF Q!IInv, Q!TypeOK, Q!WithinLimits, Q!TicketsContiguous, Q!NoLostWakeup,
    Q!OnlyCallersSleep, Q!PC, Q!InLine, Q!Inside, Q!MyTurn,
    Q!FreeAndNobodyAhead,
    QP!IInv, QP!TypeOK, QP!WithinLimits, QP!TicketsContiguous,
    QP!NoLostWakeup, QP!OnlyCallersSleep, QP!PC, QP!InLine, QP!Inside,
    QP!MyTurn, QP!FreeAndNobodyAhead

LEMMA SameQueueStep == ASSUME NEW c \in Client, Q!Step(c) PROVE QP!Step(c)
BY Zenon
DEF Q!Step, Q!Enter, Q!Admit, Q!WaitOn, Q!TryEnter, Q!TryAdmit, Q!TryReject,
    Q!TryWait, Q!Leave, Q!DeadlinePasses, Q!TimerWake, Q!SpuriousWake, Q!Full,
    Q!Count, Q!Goto, Q!Broadcast, Q!MyTurn, Q!Awake, Q!FreeAndNobodyAhead,
    Q!counters,
    QP!Step, QP!Enter, QP!Admit, QP!WaitOn, QP!TryEnter, QP!TryAdmit,
    QP!TryReject, QP!TryWait, QP!Leave, QP!DeadlinePasses, QP!TimerWake,
    QP!SpuriousWake, QP!Full, QP!Count, QP!Goto, QP!Broadcast, QP!MyTurn,
    QP!Awake, QP!FreeAndNobodyAhead, QP!counters

LEMMA SameEngineInv == (E!IInv <=> EP!IInv) /\ (E!IInv' <=> EP!IInv')
BY SameSize, Zenon
DEF E!IInv, E!TypeOK, E!SlotExclusive, E!NoStrandedSlot, E!HoldersSane,
    E!Slot, E!PC, E!Job, E!Patience, E!Lent, E!FreeSlots, E!Acquiring, E!Awake,
    EP!IInv, EP!TypeOK, EP!SlotExclusive, EP!NoStrandedSlot, EP!HoldersSane,
    EP!Slot, EP!PC, EP!Job, EP!Patience, EP!Lent, EP!FreeSlots, EP!Acquiring,
    EP!Awake

LEMMA SameEngineStep == ASSUME NEW c \in Client, E!Step(c) PROVE EP!Step(c)
BY Zenon
DEF E!Step, E!Transcribe, E!Generate, E!StreamOpen, E!Call, E!Take, E!WaitSlot,
    E!GiveUp, E!DeadlinePasses, E!TimerWake, E!SpuriousWake, E!Run,
    E!BatchReturn, E!StreamOpened, E!StreamOpenFails, E!StreamFinish,
    E!StreamClose, E!Goto, E!Awake, E!FreeSlots, E!LowestFree, E!Signal,
    E!ReleaseSlot, E!Slot, E!Patience, E!pool, E!mine,
    EP!Step, EP!Transcribe, EP!Generate, EP!StreamOpen, EP!Call, EP!Take,
    EP!WaitSlot, EP!GiveUp, EP!DeadlinePasses, EP!TimerWake, EP!SpuriousWake,
    EP!Run, EP!BatchReturn, EP!StreamOpened, EP!StreamOpenFails,
    EP!StreamFinish, EP!StreamClose, EP!Goto, EP!Awake, EP!FreeSlots,
    EP!LowestFree, EP!Signal, EP!ReleaseSlot, EP!Slot, EP!Patience, EP!pool,
    EP!mine

(* What the two components assume of their parameters.                     *)
LEMMA Parameters ==
    /\ QP!IsFiniteSet(Client) /\ EP!IsFiniteSet(Client)
    /\ Slots \in Nat \ {0} /\ Capacity \in Nat /\ MaxCalls \in Nat
    /\ MaxCalls + Cardinality(Direct) \in Nat
<1>1. IsFiniteSet(Direct) /\ Cardinality(Direct) \in Nat
  BY ServerAssumption, FS_Subset, FS_CardinalityType
<1>2. QED
  BY <1>1, SameFinite, ServerAssumption

LEMMA QueueKeeps ==
    ASSUME NEW c \in Client, Q!IInv, Q!Step(c)
    PROVE  Q!IInv'
<1>1. QP!Step(c)
  BY SameQueueStep
<1>2. [QP!Next]_(QP!vars)
  BY <1>1 DEF QP!Next
<1>3. QED
  BY <1>2, SameQueueInv, QP!NextIInv, Parameters

LEMMA QueueRests == Q!IInv /\ UNCHANGED queue => Q!IInv'
BY DEF queue, Q!IInv, Q!TypeOK, Q!WithinLimits, Q!TicketsContiguous,
   Q!NoLostWakeup, Q!OnlyCallersSleep, Q!InLine, Q!Inside, Q!MyTurn,
   Q!FreeAndNobodyAhead

LEMMA EngineKeeps ==
    ASSUME NEW c \in Client, E!IInv, E!Step(c)
    PROVE  E!IInv'
<1>1. EP!Step(c)
  BY SameEngineStep
<1>2. [EP!Next]_(EP!vars)
  BY <1>1 DEF EP!Next
<1>3. QED
  BY <1>2, SameEngineInv, EP!NextIInv, Parameters

LEMMA EngineRests == E!IInv /\ UNCHANGED engine => E!IInv'
BY DEF engine, E!IInv, E!TypeOK, E!SlotExclusive, E!NoStrandedSlot,
   E!HoldersSane, E!Lent, E!FreeSlots, E!Acquiring, E!Awake

-----------------------------------------------------------------------------
(* A handler's step is one of its thread at the queue, or leaves the queue *)
(* alone, and likewise in the engine.                                      *)
LEMMA QueueStep ==
    ASSUME NEW c \in Client, Step(c)
    PROVE  Q!Step(c) \/ UNCHANGED queue
BY DEF Step, Request, InQueue, EarlyReturn, DecodeFails, CallEngine, InEngine,
   EngineReturns, OpenFails, StreamFinished, StreamEnds, Count, CloseStream,
   LeaveQueue, SpuriousWake, DirectCall, Q!Step

LEMMA EngineStep ==
    ASSUME NEW c \in Client, Step(c)
    PROVE  E!Step(c) \/ UNCHANGED engine
BY DEF Step, Request, InQueue, EarlyReturn, DecodeFails, CallEngine, InEngine,
   EngineReturns, OpenFails, StreamFinished, StreamEnds, Count, CloseStream,
   LeaveQueue, SpuriousWake, DirectCall, E!Step, E!StreamOpen, E!Patience

(* What a handler knows of itself, and a thread of another's.              *)
LEMMA QueueMoves ==
    ASSUME NEW c \in Client, Q!TypeOK, Q!Step(c) \/ UNCHANGED queue,
           NEW d \in Client, d # c
    PROVE  qpc'[d] = qpc[d]
BY DEF Q!TypeOK, Q!Step, Q!Enter, Q!Admit, Q!WaitOn, Q!TryEnter, Q!TryAdmit,
   Q!TryReject, Q!TryWait, Q!Leave, Q!DeadlinePasses, Q!TimerWake,
   Q!SpuriousWake, Q!Goto, queue

LEMMA EngineMoves ==
    ASSUME NEW c \in Client, E!TypeOK, E!Step(c) \/ UNCHANGED engine,
           NEW d \in Client, d # c
    PROVE  epc'[d] = epc[d] /\ job'[d] = job[d] /\ patience'[d] = patience[d]
<1> USE DEF E!TypeOK, E!Goto, E!mine
<1>1. CASE E!Transcribe(c) \/ E!Generate(c) \/ E!StreamOpen(c)
  BY <1>1 DEF E!Transcribe, E!Generate, E!StreamOpen, E!Call
<1>2. CASE E!Take(c) \/ E!WaitSlot(c) \/ E!GiveUp(c) \/ E!DeadlinePasses(c)
  BY <1>2 DEF E!Take, E!WaitSlot, E!GiveUp, E!DeadlinePasses
<1>3. CASE E!TimerWake(c) \/ E!SpuriousWake(c) \/ E!Run(c)
  BY <1>3 DEF E!TimerWake, E!SpuriousWake, E!Run
<1>4. CASE E!BatchReturn(c) \/ E!StreamOpenFails(c) \/ E!StreamClose(c)
  BY <1>4 DEF E!BatchReturn, E!StreamOpenFails, E!StreamClose, E!ReleaseSlot
<1>5. CASE E!StreamOpened(c) \/ E!StreamFinish(c)
  BY <1>5 DEF E!StreamOpened, E!StreamFinish
<1>6. CASE UNCHANGED engine
  BY <1>6 DEF engine
<1>7. QED
  BY <1>1, <1>2, <1>3, <1>4, <1>5, <1>6 DEF E!Step

LEMMA HandlerMoves ==
    ASSUME NEW c \in Client, TypeOK, Step(c), NEW d \in Client, d # c
    PROVE  /\ rpc'[d] = rpc[d] /\ kind'[d] = kind[d] /\ good'[d] = good[d]
           /\ outcome'[d] = outcome[d] /\ counted'[d] = counted[d]
<1> USE DEF Goto, Fails, stats, handler
<1>t. /\ rpc \in [Client -> RPC] /\ kind \in [Client -> Kind]
      /\ good \in [Client -> BOOLEAN]
      /\ outcome \in [Client -> {"none", "served", "failed"}]
      /\ counted \in [Client -> {"no", "request", "error"}]
  BY DEF TypeOK
<1>1. CASE \E k \in Kind : Request(c, k)
  BY <1>t, <1>1 DEF Request
<1>2. CASE InQueue(c) \/ EarlyReturn(c) \/ DecodeFails(c) \/ CallEngine(c)
  BY <1>t, <1>2 DEF InQueue, EarlyReturn, DecodeFails, CallEngine
<1>3. CASE InEngine(c) \/ EngineReturns(c) \/ OpenFails(c)
  BY <1>t, <1>3 DEF InEngine, EngineReturns, OpenFails
<1>4. CASE StreamFinished(c) \/ StreamEnds(c)
  BY <1>t, <1>4 DEF StreamFinished, StreamEnds
<1>5. CASE Count(c) \/ CloseStream(c) \/ LeaveQueue(c)
  BY <1>t, <1>5 DEF Count, CloseStream, LeaveQueue
<1>6. CASE SpuriousWake(c) \/ DirectCall(c)
  BY <1>t, <1>6 DEF SpuriousWake, DirectCall
<1>7. QED
  BY <1>1, <1>2, <1>3, <1>4, <1>5, <1>6 DEF Step

(* The handlers of the other clients stay in step.                         *)
LEMMA OthersInStep ==
    ASSUME NEW c \in Client, IInv, Step(c), NEW d \in Client, d # c
    PROVE  Placed(d)' /\ CallsAsAsked(d)' /\ Reports(d)'
<1>1. /\ rpc'[d] = rpc[d] /\ kind'[d] = kind[d] /\ good'[d] = good[d]
      /\ outcome'[d] = outcome[d] /\ counted'[d] = counted[d]
  BY HandlerMoves DEF IInv
<1>2. qpc'[d] = qpc[d]
  BY QueueStep, QueueMoves DEF IInv, TypeOK
<1>3. epc'[d] = epc[d] /\ job'[d] = job[d] /\ patience'[d] = patience[d]
  BY EngineStep, EngineMoves DEF IInv, TypeOK
<1>4. Placed(d) /\ CallsAsAsked(d) /\ Reports(d)
  BY DEF IInv, HandlersInStep
<1>5. Placed(d)'
  BY <1>1, <1>2, <1>3, <1>4 DEF Placed
<1>6. CallsAsAsked(d)'
  BY <1>1, <1>3, <1>4 DEF CallsAsAsked
<1>7. Reports(d)'
  BY <1>1, <1>4 DEF Reports, IsTranscription, Accounted
<1>8. QED
  BY <1>5, <1>6, <1>7

(* The handlers' own variables keep their types.                           *)
LEMMA TypesStay ==
    ASSUME NEW c \in Client, TypeOK, Step(c), Q!TypeOK', E!TypeOK'
    PROVE  TypeOK'
<1> USE DEF Goto, Fails, stats, handler
<1>t. rpc \in [Client -> RPC] /\ kind \in [Client -> Kind]
  BY DEF TypeOK
<1>0. UNCHANGED rpc \/ \E w \in RPC : rpc' = [rpc EXCEPT ![c] = w]
  <2>1. CASE (\E k \in Kind : Request(c, k)) \/ InQueue(c)
    BY <2>1 DEF RPC, Request, InQueue
  <2>2. CASE \/ EarlyReturn(c) \/ DecodeFails(c) \/ CallEngine(c)
             \/ InEngine(c) \/ EngineReturns(c) \/ OpenFails(c)
    BY <2>2 DEF RPC, EarlyReturn, DecodeFails, CallEngine, InEngine,
       EngineReturns, OpenFails
  <2>3. CASE StreamFinished(c) \/ StreamEnds(c) \/ Count(c)
    BY <2>3 DEF RPC, StreamFinished, StreamEnds, Count
  <2>4. CASE \/ CloseStream(c) \/ LeaveQueue(c) \/ SpuriousWake(c)
             \/ DirectCall(c)
    BY <2>4 DEF RPC, CloseStream, LeaveQueue, SpuriousWake, DirectCall
  <2>5. QED
    BY <2>1, <2>2, <2>3, <2>4 DEF Step
<1>1. rpc' \in [Client -> RPC] /\ kind' \in [Client -> Kind]
  <2>1. UNCHANGED kind \/ \E k \in Kind : kind' = [kind EXCEPT ![c] = k]
    BY Zenon DEF Step, Request, InQueue, EarlyReturn, DecodeFails,
     CallEngine, InEngine, EngineReturns, OpenFails, StreamFinished,
     StreamEnds, Count, CloseStream, LeaveQueue, SpuriousWake, DirectCall
  <2>2. QED
    BY <1>t, <1>0, <2>1
<1>2. outcome' \in [Client -> {"none", "served", "failed"}]
  BY DEF TypeOK, Step, Request, InQueue, EarlyReturn, DecodeFails,
     CallEngine, InEngine, EngineReturns, OpenFails, StreamFinished,
     StreamEnds, Count, CloseStream, LeaveQueue, SpuriousWake, DirectCall
<1>3. /\ counted' \in [Client -> {"no", "request", "error"}]
      /\ n_requests' \in Nat /\ n_errors' \in Nat /\ compute_seconds' \in Nat
  <2>t. /\ counted \in [Client -> {"no", "request", "error"}]
        /\ n_requests \in Nat /\ n_errors \in Nat /\ compute_seconds \in Nat
    BY DEF TypeOK
  <2>1. CASE Count(c)
    BY <2>t, <2>1 DEF Count, ChargedSeconds, RunMs
  <2>2. CASE \E k \in Kind : Request(c, k)
    BY <2>t, <2>2 DEF Request
  <2>3. CASE ~Count(c) /\ ~\E k \in Kind : Request(c, k)
    <3>1. UNCHANGED stats
      BY <2>3, Zenon DEF Step, InQueue, EarlyReturn, DecodeFails, CallEngine,
         InEngine, EngineReturns, OpenFails, StreamFinished, StreamEnds,
         CloseStream, LeaveQueue, SpuriousWake, DirectCall
    <3>2. QED
      BY <2>t, <3>1
  <2>4. QED
    BY <2>1, <2>2, <2>3
<1>4. is_streaming' \in BOOLEAN
  BY Zenon DEF TypeOK, Step, Request, InQueue, EarlyReturn, DecodeFails,
     CallEngine, InEngine, EngineReturns, OpenFails, StreamFinished,
     StreamEnds, Count, CloseStream, LeaveQueue, SpuriousWake, DirectCall
<1>5. good' \in [Client -> BOOLEAN]
  <2>1. good \in [Client -> BOOLEAN] /\ ok[c] \in BOOLEAN
    BY DEF TypeOK, E!TypeOK
  <2>2. \/ UNCHANGED good
        \/ \E b \in BOOLEAN : good' = [good EXCEPT ![c] = b]
    BY <2>1, Zenon DEF Step, Request, InQueue, EarlyReturn, DecodeFails,
     CallEngine, InEngine, EngineReturns, OpenFails, StreamFinished,
     StreamEnds, Count, CloseStream, LeaveQueue, SpuriousWake, DirectCall
  <2>3. QED
    BY <2>1, <2>2
<1>6. QED
  BY <1>1, <1>2, <1>3, <1>4, <1>5 DEF TypeOK

-----------------------------------------------------------------------------
(* What the thread itself keeps, action by action.  At the queue, the      *)
(* handler goes on inside, gives up outside or waits.                      *)
LEMMA AtQueueInStep ==
    ASSUME NEW c \in Client, IInv, Q!TypeOK',
           (\E k \in Kind : Request(c, k)) \/ InQueue(c) \/ LeaveQueue(c)
    PROVE  Placed(c)' /\ CallsAsAsked(c)' /\ Reports(c)'
<1>t. /\ rpc \in [Client -> RPC] /\ kind \in [Client -> Kind]
      /\ outcome \in [Client -> {"none", "served", "failed"}]
      /\ counted \in [Client -> {"no", "request", "error"}]
      /\ qpc \in [Client -> Q!PC]
      /\ qpc'[c] \in {"out", "line", "try", "in"}
  BY DEF IInv, TypeOK, Q!TypeOK, Q!PC
<1>i. Placed(c) /\ CallsAsAsked(c) /\ Reports(c)
  BY DEF IInv, HandlersInStep
<1>u. epc' = epc /\ job' = job /\ patience' = patience
  BY DEF Request, InQueue, LeaveQueue, engine
<1>1. CASE \E k \in Kind : Request(c, k)
  <2>1. PICK k \in Kind : Request(c, k)
    BY <1>1
  <2>2. /\ c \notin Direct /\ rpc[c] = "idle"
        /\ rpc'[c] = CASE qpc'[c] = "in"  -> "body"
                       [] qpc'[c] = "out" -> "idle"
                       [] OTHER           -> "queue"
        /\ kind'[c] = k /\ outcome'[c] = "none" /\ counted'[c] = "no"
    BY <1>t, <2>1 DEF Request, Goto
  <2>3. epc'[c] = "idle"
    BY <1>i, <1>u, <2>2 DEF Placed
  <2>4. Placed(c)'
    BY <1>t, <2>2, <2>3 DEF Placed
  <2>5. CallsAsAsked(c)'
    BY <2>3 DEF CallsAsAsked
  <2>6. Reports(c)'
    BY <1>t, <2>2 DEF Reports, Accounted
  <2>7. QED
    BY <2>4, <2>5, <2>6
<1>2. CASE InQueue(c)
  <2>1. /\ rpc[c] = "queue"
        /\ rpc'[c] = CASE qpc'[c] = "in"  -> "body"
                       [] qpc'[c] = "out" -> "idle"
                       [] OTHER           -> "queue"
        /\ UNCHANGED <<kind, good, outcome, counted>>
    BY <1>t, <1>2 DEF InQueue, Goto, stats
  <2>2. c \notin Direct /\ epc'[c] = "idle"
    BY <1>i, <1>u, <2>1 DEF Placed
  <2>3. Placed(c)'
    BY <1>t, <2>1, <2>2 DEF Placed
  <2>4. CallsAsAsked(c)'
    BY <2>2 DEF CallsAsAsked
  <2>5. Reports(c)'
    BY <1>t, <1>i, <2>1 DEF Reports, Accounted, IsTranscription
  <2>6. QED
    BY <2>3, <2>4, <2>5
<1>3. CASE LeaveQueue(c)
  <2>1. /\ rpc[c] = "leave" /\ qpc'[c] = "out"
        /\ rpc'[c] = IF kind[c] = "chat" /\ outcome[c] = "served"
                     THEN "count" ELSE "idle"
        /\ UNCHANGED <<kind, good, outcome, counted>>
    BY <1>t, <1>3 DEF LeaveQueue, Goto, Q!Leave, Q!Goto, stats
  <2>2. c \notin Direct /\ epc'[c] = "idle"
    BY <1>i, <1>u, <2>1 DEF Placed
  <2>3. Placed(c)'
    BY <1>t, <2>1, <2>2 DEF Placed
  <2>4. CallsAsAsked(c)'
    BY <2>2 DEF CallsAsAsked
  <2>5. Reports(c)'
    BY <1>t, <1>i, <2>1 DEF Reports, Accounted, IsTranscription
  <2>6. QED
    BY <2>3, <2>4, <2>5
<1>4. QED
  BY <1>1, <1>2, <1>3

(* Admitted: the handler returns early or calls the engine; a Direct thread*)
(* calls it from where it is.                                              *)
LEMMA BodyInStep ==
    ASSUME NEW c \in Client, IInv,
           EarlyReturn(c) \/ DecodeFails(c) \/ CallEngine(c) \/ DirectCall(c)
    PROVE  Placed(c)' /\ CallsAsAsked(c)' /\ Reports(c)'
<1>t. /\ rpc \in [Client -> RPC] /\ kind \in [Client -> Kind]
      /\ good \in [Client -> BOOLEAN]
      /\ outcome \in [Client -> {"none", "served", "failed"}]
      /\ epc \in [Client -> E!PC] /\ job \in [Client -> E!Job]
      /\ patience \in [Client -> E!Patience]
  BY DEF IInv, TypeOK, E!TypeOK
<1>i. Placed(c) /\ CallsAsAsked(c) /\ Reports(c)
  BY DEF IInv, HandlersInStep
<1>u. qpc' = qpc /\ kind' = kind /\ counted' = counted
  BY DEF EarlyReturn, DecodeFails, CallEngine, DirectCall, queue, stats
<1>1. CASE EarlyReturn(c) \/ DecodeFails(c)
  <2>1. rpc[c] = "body" /\ UNCHANGED <<epc, job, patience>>
    BY <1>1 DEF EarlyReturn, DecodeFails, engine
  <2>2. c \notin Direct /\ epc'[c] = "idle"
    BY <1>i, <2>1 DEF Placed
  <2>3. \/ rpc'[c] = "leave" /\ UNCHANGED outcome
        \/ /\ rpc'[c] = "count" /\ kind[c] \in {"transcribe", "sse"}
           /\ outcome'[c] = "failed" /\ ~good'[c]
    BY <1>t, <1>1 DEF EarlyReturn, DecodeFails, Goto, Fails
  <2>4. Placed(c)'
    BY <1>i, <1>u, <2>1, <2>2, <2>3 DEF Placed
  <2>5. CallsAsAsked(c)'
    BY <2>2 DEF CallsAsAsked
  <2>6. Reports(c)'
    BY <1>i, <1>u, <2>1, <2>3 DEF Reports, Accounted, IsTranscription
  <2>7. QED
    BY <2>4, <2>5, <2>6
<1>2. CASE CallEngine(c) \/ DirectCall(c)
  <2>1. /\ rpc[c] \in {"body", "idle"} /\ rpc'[c] = "engine"
        /\ rpc[c] = "idle" => c \in Direct
        /\ epc'[c] = "acquire"
        /\ UNCHANGED <<good, outcome>>
    BY <1>t, <1>2 DEF CallEngine, DirectCall, Goto, E!Generate, E!Transcribe,
       E!Call, E!Goto
  <2>2. Placed(c)'
    BY <1>i, <1>u, <2>1 DEF Placed
  <2>3. CallsAsAsked(c)'
    <3>1. CASE \E q \in {"deadline", "expired"} : E!Call(c, "stream", q)
      <4>1. UsesStream(c)
        BY <1>2, <3>1, <1>t DEF CallEngine, DirectCall, E!Generate,
           E!Transcribe, E!Call
      <4>2. job'[c] = "stream"
        BY <3>1, <1>t DEF E!Call
      <4>3. QED
        BY <4>1, <4>2, <1>u DEF CallsAsAsked, UsesStream
    <3>2. CASE E!Generate(c) \/ E!Transcribe(c)
      <4>1. job'[c] # "stream" /\ patience'[c] = "forever"
        BY <3>2, <1>t DEF E!Generate, E!Transcribe, E!Call
      <4>2. QED
        BY <4>1, <2>1 DEF CallsAsAsked
    <3>3. QED
      BY <1>2, <3>1, <3>2 DEF CallEngine, DirectCall
  <2>4. Reports(c)'
    BY <1>i, <1>u, <2>1 DEF Reports, IsTranscription
  <2>5. QED
    BY <2>2, <2>3, <2>4
<1>3. QED
  BY <1>1, <1>2

(* In the engine, waiting for a slot or using it; and a spurious wakeup.   *)
LEMMA EngineInStep ==
    ASSUME NEW c \in Client, IInv, InEngine(c) \/ SpuriousWake(c)
    PROVE  Placed(c)' /\ CallsAsAsked(c)' /\ Reports(c)'
<1>t. /\ rpc \in [Client -> RPC] /\ kind \in [Client -> Kind]
      /\ good \in [Client -> BOOLEAN]
      /\ outcome \in [Client -> {"none", "served", "failed"}]
      /\ counted \in [Client -> {"no", "request", "error"}]
      /\ epc \in [Client -> E!PC] /\ job \in [Client -> E!Job]
      /\ patience \in [Client -> E!Patience] /\ ok \in [Client -> BOOLEAN]
  BY DEF IInv, TypeOK, E!TypeOK
<1>i. Placed(c) /\ CallsAsAsked(c) /\ Reports(c)
  BY DEF IInv, HandlersInStep
<1>u. UNCHANGED <<rpc, kind, good, outcome, counted>> /\ qpc' = qpc
  BY DEF InEngine, SpuriousWake, handler, stats, queue, Q!SpuriousWake
<1>1. Reports(c)'
  BY <1>i, <1>u DEF Reports, IsTranscription, Accounted
<1>2. CASE UNCHANGED <<epc, job, patience>>
  <2>1. Placed(c)'
    BY <1>i, <1>u, <1>2 DEF Placed
  <2>2. CallsAsAsked(c)'
    BY <1>i, <1>u, <1>2 DEF CallsAsAsked
  <2>3. QED
    BY <1>1, <2>1, <2>2
<1>3. CASE /\ rpc[c] = "engine" /\ job' = job
           /\ \/ E!Take(c) \/ E!DeadlinePasses(c) \/ E!Run(c)
              \/ E!StreamOpened(c)
  <2>1. Placed(c)'
    BY <1>i, <1>u, <1>3 DEF Placed
  <2>2. CASE E!Take(c)
    <3>1. /\ epc[c] = "acquire" /\ patience'[c] = "forever"
          /\ epc'[c] = IF job[c] = "stream" THEN "open" ELSE "run"
      BY <1>t, <2>2 DEF E!Take, E!Awake, E!Goto
    <3>2. QED
      BY <1>i, <1>u, <1>1, <1>3, <2>1, <3>1 DEF CallsAsAsked
  <2>3. CASE E!DeadlinePasses(c)
    <3>1. epc[c] = "acquire" /\ epc' = epc /\ patience[c] = "deadline"
      BY <2>3 DEF E!DeadlinePasses
    <3>2. QED
      BY <1>i, <1>u, <1>1, <1>3, <2>1, <3>1 DEF CallsAsAsked
  <2>4. CASE E!Run(c) \/ E!StreamOpened(c)
    <3>1. /\ patience' = patience
          /\ \/ epc[c] = "run" /\ epc'[c] = "ran"
             \/ epc[c] = "open" /\ epc'[c] = "live"
      BY <1>t, <2>4 DEF E!Run, E!StreamOpened, E!Goto, E!mine
    <3>2. QED
      BY <1>i, <1>u, <1>1, <1>3, <2>1, <3>1 DEF CallsAsAsked
  <2>5. QED
    BY <1>3, <2>2, <2>3, <2>4
<1>4. QED
  BY <1>2, <1>3 DEF InEngine, SpuriousWake, engine, E!SpuriousWake,
     E!TimerWake, E!WaitSlot, E!Take, E!DeadlinePasses, E!Run, E!StreamOpened,
     E!mine

(* The engine call is over: a run returns, or there was no stream.         *)
LEMMA ReturnInStep ==
    ASSUME NEW c \in Client, IInv, EngineReturns(c) \/ OpenFails(c)
    PROVE  Placed(c)' /\ CallsAsAsked(c)' /\ Reports(c)'
<1>t. /\ rpc \in [Client -> RPC] /\ kind \in [Client -> Kind]
      /\ good \in [Client -> BOOLEAN]
      /\ outcome \in [Client -> {"none", "served", "failed"}]
      /\ counted \in [Client -> {"no", "request", "error"}]
      /\ epc \in [Client -> E!PC] /\ job \in [Client -> E!Job]
      /\ patience \in [Client -> E!Patience] /\ ok \in [Client -> BOOLEAN]
  BY DEF IInv, TypeOK, E!TypeOK
<1>i. Placed(c) /\ CallsAsAsked(c) /\ Reports(c)
  BY DEF IInv, HandlersInStep
<1>u. qpc' = qpc /\ kind' = kind /\ counted' = counted
  BY DEF EngineReturns, OpenFails, queue, stats
<1>1. rpc[c] = "engine" /\ epc'[c] = "idle"
  BY <1>t DEF EngineReturns, OpenFails, E!BatchReturn, E!StreamOpenFails,
     E!ReleaseSlot, E!GiveUp, E!Goto
<1>2. CallsAsAsked(c)'
  BY <1>1 DEF CallsAsAsked
<1>3. CASE EngineReturns(c)
  <2>1. /\ rpc'[c] = IF c \in Direct THEN "done"
                     ELSE IF kind[c] = "chat" THEN "leave" ELSE "count"
        /\ good'[c] = ok[c]
        /\ outcome'[c] = IF ok[c] THEN "served" ELSE "failed"
    BY <1>t, <1>3 DEF EngineReturns, Goto
  <2>2. Placed(c)'
    BY <1>i, <1>u, <1>1, <2>1 DEF Placed
  <2>3. Reports(c)'
    BY <1>i, <1>u, <1>1, <2>1 DEF Reports, IsTranscription
  <2>4. QED
    BY <1>2, <2>2, <2>3
<1>4. CASE OpenFails(c)
  <2>1. /\ rpc'[c] = IF kind[c] = "sse" THEN "count" ELSE "leave"
        /\ ~good'[c] /\ outcome'[c] = "failed"
    BY <1>t, <1>4 DEF OpenFails, Goto, Fails
  <2>2. \/ epc[c] = "acquire" /\ patience[c] = "expired"
        \/ epc[c] = "open"
    BY <1>4 DEF OpenFails, E!GiveUp, E!Awake, E!StreamOpenFails
  <2>3. kind[c] \in {"sse", "ws"}
    BY <1>i, <2>2 DEF CallsAsAsked
  <2>4. c \notin Direct
    BY <1>i, <2>3 DEF Placed
  <2>5. Placed(c)'
    BY <1>i, <1>u, <1>1, <2>1, <2>3, <2>4 DEF Placed
  <2>6. Reports(c)'
    BY <1>i, <1>u, <1>1, <2>1, <2>3 DEF Reports, IsTranscription
  <2>7. QED
    BY <1>2, <2>5, <2>6
<1>5. QED
  BY <1>3, <1>4

(* A stream is finished or ends, is reported and closed.                   *)
LEMMA StreamInStep ==
    ASSUME NEW c \in Client, IInv,
           StreamFinished(c) \/ StreamEnds(c) \/ CloseStream(c)
    PROVE  Placed(c)' /\ CallsAsAsked(c)' /\ Reports(c)'
<1>t. /\ rpc \in [Client -> RPC] /\ kind \in [Client -> Kind]
      /\ good \in [Client -> BOOLEAN]
      /\ outcome \in [Client -> {"none", "served", "failed"}]
      /\ counted \in [Client -> {"no", "request", "error"}]
      /\ epc \in [Client -> E!PC] /\ job \in [Client -> E!Job]
      /\ patience \in [Client -> E!Patience] /\ ok \in [Client -> BOOLEAN]
  BY DEF IInv, TypeOK, E!TypeOK
<1>i. Placed(c) /\ CallsAsAsked(c) /\ Reports(c)
  BY DEF IInv, HandlersInStep
<1>u. qpc' = qpc /\ kind' = kind /\ counted' = counted
  BY DEF StreamFinished, StreamEnds, CloseStream, queue, stats
<1>0. epc[c] = "live"
  BY DEF StreamFinished, StreamEnds, CloseStream, E!StreamFinish, E!StreamClose
<1>1. kind[c] \in {"sse", "ws"}
  BY <1>i, <1>0 DEF CallsAsAsked
<1>2. c \notin Direct
  BY <1>i, <1>1 DEF Placed
<1>3. CASE StreamFinished(c) \/ StreamEnds(c)
  <2>1. UNCHANGED <<epc, job, patience>>
    BY <1>3 DEF StreamFinished, StreamEnds, E!StreamFinish, engine
  <2>2. rpc[c] = "engine" /\ rpc'[c] = "count"
    BY <1>t, <1>3 DEF StreamFinished, StreamEnds, Goto
  <2>3. kind[c] = "sse" => \/ good'[c] /\ outcome'[c] = "served"
                           \/ ~good'[c] /\ outcome'[c] = "failed"
    <3>1. CASE StreamFinished(c)
      BY <1>t, <3>1 DEF StreamFinished
    <3>2. CASE StreamEnds(c)
      BY <1>t, <3>2 DEF StreamEnds, Fails
    <3>3. QED
      BY <1>3, <3>1, <3>2
  <2>4. Placed(c)'
    BY <1>i, <1>u, <1>0, <1>1, <1>2, <2>1, <2>2 DEF Placed
  <2>5. CallsAsAsked(c)'
    BY <1>i, <1>u, <2>1 DEF CallsAsAsked
  <2>6. Reports(c)'
    BY <1>i, <1>u, <1>1, <2>2, <2>3 DEF Reports, IsTranscription
  <2>7. QED
    BY <2>4, <2>5, <2>6
<1>4. CASE CloseStream(c)
  <2>1. /\ rpc[c] = "close" /\ rpc'[c] = "leave" /\ epc'[c] = "idle"
        /\ UNCHANGED <<good, outcome>>
    BY <1>t, <1>4 DEF CloseStream, Goto, E!StreamClose, E!ReleaseSlot, E!Goto
  <2>2. Placed(c)'
    BY <1>i, <1>u, <1>2, <2>1 DEF Placed
  <2>3. CallsAsAsked(c)'
    BY <2>1 DEF CallsAsAsked
  <2>4. Reports(c)'
    BY <1>i, <1>u, <2>1 DEF Reports, IsTranscription, Accounted
  <2>5. QED
    BY <2>2, <2>3, <2>4
<1>5. QED
  BY <1>3, <1>4

(* The counters are told.                                                  *)
LEMMA CountInStep ==
    ASSUME NEW c \in Client, IInv, Count(c)
    PROVE  Placed(c)' /\ CallsAsAsked(c)' /\ Reports(c)'
<1>t. /\ rpc \in [Client -> RPC] /\ kind \in [Client -> Kind]
      /\ good \in [Client -> BOOLEAN]
      /\ outcome \in [Client -> {"none", "served", "failed"}]
      /\ counted \in [Client -> {"no", "request", "error"}]
      /\ epc \in [Client -> E!PC] /\ job \in [Client -> E!Job]
      /\ patience \in [Client -> E!Patience] /\ ok \in [Client -> BOOLEAN]
  BY DEF IInv, TypeOK, E!TypeOK
<1>i. Placed(c) /\ CallsAsAsked(c) /\ Reports(c)
  BY DEF IInv, HandlersInStep
<1>u. UNCHANGED <<qpc, epc, job, patience, kind, good, outcome>>
  BY DEF Count, queue, engine
<1>1. /\ rpc[c] = "count"
      /\ rpc'[c] = IF epc[c] = "live" THEN "close"
                   ELSE IF kind[c] = "chat" THEN "idle" ELSE "leave"
  BY <1>t DEF Count, Goto
<1>2. \/ good[c] /\ counted'[c] = "request"
      \/ ~good[c] /\ counted'[c] = "error"
  BY <1>t DEF Count
<1>3. Placed(c)'
  BY <1>i, <1>u, <1>1 DEF Placed
<1>4. CallsAsAsked(c)'
  BY <1>i, <1>u DEF CallsAsAsked
<1>5. Reports(c)'
  BY <1>i, <1>u, <1>1, <1>2 DEF Reports, IsTranscription, Accounted
<1>6. QED
  BY <1>3, <1>4, <1>5

-----------------------------------------------------------------------------
LEMMA InitInv == Init => IInv
<1> SUFFICES ASSUME Init PROVE IInv
  OBVIOUS
<1>1. Q!IInv
  <2>1. QP!Init
    BY DEF Init, Q!Init, QP!Init
  <2>2. QED
    BY <2>1, QP!InitIInv, Parameters, SameQueueInv
<1>2. E!IInv
  <2>1. EP!Init
    BY DEF Init, E!Init, EP!Init, E!Slot, EP!Slot
  <2>2. QED
    BY <2>1, EP!InitIInv, Parameters, SameEngineInv
<1>3. is_streaming \in BOOLEAN /\ good \in [Client -> BOOLEAN]
  BY Zenon DEF Init
<1>4. TypeOK
  BY <1>1, <1>2, <1>3 DEF Init, TypeOK, RPC, Kind, Q!IInv, E!IInv
<1>5. HandlersInStep
  BY DEF Init, Q!Init, E!Init, HandlersInStep, Placed, CallsAsAsked, Reports,
     Accounted
<1>6. QED
  BY <1>1, <1>2, <1>4, <1>5 DEF IInv

LEMMA StepInv == ASSUME NEW c \in Client, IInv, Step(c) PROVE IInv'
<1>1. Q!IInv'
  BY QueueStep, QueueKeeps, QueueRests DEF IInv
<1>2. E!IInv'
  BY EngineStep, EngineKeeps, EngineRests DEF IInv
<1>3. TypeOK'
  BY <1>1, <1>2, TypesStay DEF IInv, Q!IInv, E!IInv
<1>4. Q!TypeOK'
  BY <1>1 DEF Q!IInv
<1>5. Placed(c)' /\ CallsAsAsked(c)' /\ Reports(c)'
  BY <1>4, AtQueueInStep, BodyInStep, EngineInStep, ReturnInStep,
     StreamInStep, CountInStep DEF Step
<1>6. HandlersInStep'
  BY <1>5, OthersInStep DEF HandlersInStep
<1>7. QED
  BY <1>1, <1>2, <1>3, <1>6 DEF IInv

LEMMA NextInv == IInv /\ [Next]_vars => IInv'
<1> SUFFICES ASSUME IInv, [Next]_vars PROVE IInv'
  OBVIOUS
<1>1. ASSUME NEW c \in Client, Step(c) PROVE IInv'
  BY <1>1, StepInv
<1>2. CASE UNCHANGED vars
  <2>1. UNCHANGED <<queue, engine, stats, handler, is_streaming>>
    BY <1>2 DEF vars
  <2>2. Q!IInv' /\ E!IInv'
    BY <2>1, QueueRests, EngineRests DEF IInv
  <2>3. TypeOK'
    BY <2>1, <2>2, Zenon DEF IInv, TypeOK, Q!IInv, E!IInv, stats, handler
  <2>4. UNCHANGED <<qpc, epc, job, patience>>
    BY <2>1 DEF queue, engine
  <2>5. UNCHANGED <<rpc, kind, good, outcome, counted>>
    BY <2>1 DEF stats, handler
  <2>6. ASSUME NEW c \in Client
        PROVE  Placed(c)' /\ CallsAsAsked(c)' /\ Reports(c)'
    <3>1. Placed(c) /\ CallsAsAsked(c) /\ Reports(c)
      BY DEF IInv, HandlersInStep
    <3>2. Placed(c)' /\ CallsAsAsked(c)'
      BY <2>4, <2>5, <3>1 DEF Placed, CallsAsAsked
    <3>3. Reports(c)'
      BY <2>5, <3>1 DEF Reports, IsTranscription, Accounted
    <3>4. QED
      BY <3>2, <3>3
  <2>7. QED
    BY <2>2, <2>3, <2>6 DEF IInv, HandlersInStep
<1>3. QED
  BY <1>1, <1>2 DEF Next, Done

-----------------------------------------------------------------------------
(* A request that holds a slot is inside the queue, one that waits for a   *)
(* slot too, and a handler at rest has nothing.                            *)
LEMMA WhoHoldsWhat ==
    ASSUME IInv, NEW c \in Client
    PROVE  /\ c \in E!Lent /\ c \notin Direct => c \in Q!Inside
           /\ epc[c] = "acquire" => c \notin E!Lent
           /\ epc[c] = "acquire" /\ c \notin Direct => c \in Q!Inside
           /\ Resting(c) => /\ c \notin E!Lent
                            /\ c \notin Q!Inside /\ c \notin Q!InLine
<1>1. Placed(c)
  BY DEF IInv, HandlersInStep
<1>2. slot[c] = -1 <=> epc[c] \in {"idle", "acquire"}
  BY DEF IInv, E!IInv, E!HoldersSane
<1>3. QED
  BY <1>1, <1>2 DEF Placed, Resting, E!Lent, Q!Inside, Q!InLine

LEMMA Sizes ==
    \A S \in SUBSET Client : IsFiniteSet(S) /\ Cardinality(S) \in Nat
BY ServerAssumption, FS_Subset, FS_CardinalityType

(* The counts the two components keep, in Server's terms.                  *)
LEMMA Counts ==
    ASSUME IInv
    PROVE  /\ active = Cardinality(Q!Inside) /\ active <= Slots
           /\ n_busy = Cardinality(E!Lent)
           /\ active \in Nat /\ n_busy \in Nat /\ waiting \in Nat
           /\ next \in Nat /\ serving \in Nat
BY SameSize DEF IInv, TypeOK, Q!IInv, Q!TypeOK, Q!WithinLimits, E!IInv,
   E!TypeOK, E!SlotExclusive

LEMMA LentIsCovered == IInv => n_busy <= active + Cardinality(LentDirect)
<1> SUFFICES ASSUME IInv PROVE n_busy <= active + Cardinality(LentDirect)
  OBVIOUS
<1>1. E!Lent \subseteq Q!Inside \cup LentDirect
  BY WhoHoldsWhat DEF E!Lent, LentDirect
<1>2. /\ Q!Inside \in SUBSET Client /\ LentDirect \in SUBSET Client
      /\ Q!Inside \cup LentDirect \in SUBSET Client
      /\ Q!Inside \cap LentDirect \in SUBSET Client
  BY ServerAssumption DEF Q!Inside, LentDirect
<1>3. Cardinality(E!Lent) <= Cardinality(Q!Inside \cup LentDirect)
  BY <1>1, <1>2, Sizes, FS_Subset
<1>4. Cardinality(Q!Inside \cup LentDirect)
        = Cardinality(Q!Inside) + Cardinality(LentDirect)
            - Cardinality(Q!Inside \cap LentDirect)
  BY <1>2, Sizes, FS_Union
<1>5. /\ Cardinality(Q!Inside) \in Nat /\ Cardinality(LentDirect) \in Nat
      /\ Cardinality(Q!Inside \cap LentDirect) \in Nat
  BY <1>2, Sizes
<1>6. QED
  BY <1>3, <1>4, <1>5, Counts

(* With every slot busy there are as many holders as slots.                *)
LEMMA AllLent ==
    ASSUME IInv, E!FreeSlots = {}
    PROVE  Slots <= Cardinality(E!Lent)
<1>1. \A i \in E!Slot : \E c \in E!Lent : slot[c] = i
  <2>1. ASSUME NEW i \in E!Slot PROVE \E c \in E!Lent : slot[c] = i
    <3>1. busy[i]
      BY <2>1 DEF E!FreeSlots
    <3>2. PICK c \in Client : slot[c] = i
      BY <3>1 DEF IInv, E!IInv, E!SlotExclusive
    <3>3. i # -1
      BY <2>1, ServerAssumption DEF E!Slot
    <3>4. QED
      BY <3>2, <3>3 DEF E!Lent
  <2>2. QED
    BY <2>1
<1> DEFINE holder == [i \in E!Slot |-> CHOOSE c \in E!Lent : slot[c] = i]
<1>2. \A i \in E!Slot : holder[i] \in E!Lent /\ slot[holder[i]] = i
  BY <1>1
<1>3. holder \in [E!Slot -> E!Lent]
  BY <1>2
<1> HIDE DEF holder
<1>4. holder \in Injection(E!Slot, E!Lent)
  BY <1>2, <1>3 DEF Injection, IsInjective
<1>5. IsFiniteSet(E!Lent)
  BY Sizes DEF E!Lent
<1>6. Cardinality(E!Slot) <= Cardinality(E!Lent)
  BY <1>4, <1>5, FS_Injection
<1>7. Cardinality(E!Slot) = Slots
  BY FS_Interval, ServerAssumption DEF E!Slot
<1>8. QED
  BY <1>6, <1>7

LEMMA SlotAtOnce ==
    ASSUME IInv, Direct = {}, NEW c \in Client, epc[c] = "acquire"
    PROVE  E!FreeSlots # {}
<1> SUFFICES ASSUME E!FreeSlots = {} PROVE FALSE
  OBVIOUS
<1>1. E!Lent \subseteq Q!Inside \ {c} /\ c \in Q!Inside
  BY WhoHoldsWhat DEF E!Lent
<1>2. /\ IsFiniteSet(Q!Inside) /\ IsFiniteSet(Q!Inside \ {c})
      /\ Cardinality(Q!Inside) \in Nat /\ Cardinality(Q!Inside \ {c}) \in Nat
  BY Sizes DEF Q!Inside
<1>3. Cardinality(E!Lent) <= Cardinality(Q!Inside \ {c})
  BY <1>1, <1>2, FS_Subset
<1>4. Cardinality(Q!Inside \ {c}) = Cardinality(Q!Inside) - 1
  BY <1>1, <1>2, FS_RemoveElement
<1>5. Cardinality(E!Lent) \in Nat /\ Slots \in Nat
  BY Sizes, ServerAssumption DEF E!Lent
<1>6. QED
  BY <1>2, <1>3, <1>4, <1>5, AllLent, Counts

LEMMA RestIsClean == IInv => NothingLeaks
<1> SUFFICES ASSUME IInv, \A c \in Client : Resting(c)
             PROVE  /\ active = 0 /\ waiting = 0 /\ next = serving
                    /\ n_busy = 0 /\ \A i \in 0..(Slots - 1) : ~busy[i]
  BY DEF NothingLeaks
<1>1. E!Lent = {} /\ Q!Inside = {} /\ Q!InLine = {}
  BY WhoHoldsWhat DEF E!Lent, Q!Inside, Q!InLine
<1>2. active = 0 /\ n_busy = 0
  BY <1>1, Counts, FS_EmptySet
<1>3. next = serving + waiting /\ serving..(next - 1) = {}
  BY <1>1 DEF IInv, Q!IInv, Q!TicketsContiguous
<1>4. waiting = 0 /\ next = serving
  BY <1>3, Counts
<1>5. ASSUME NEW i \in 0..(Slots - 1), busy[i] PROVE FALSE
  <2>1. PICK c \in Client : slot[c] = i
    BY <1>5 DEF IInv, E!IInv, E!SlotExclusive, E!Slot
  <2>2. slot[c] # -1
    BY <2>1, ServerAssumption
  <2>3. QED
    BY <2>2, <1>1 DEF E!Lent
<1>6. QED
  BY <1>2, <1>4, <1>5

(* The queue's and the engine's invariants hold in the server, and the     *)
(* handlers of api.c stay in step with both.                               *)
THEOREM Invariance == Spec => []IInv
BY InitInv, NextInv, PTL DEF Spec

(* For any clients, slots and capacity: an admitted request finds a free   *)
(* slot at once unless threads outside the queue took it, nothing is left  *)
(* behind when the handlers rest, and every transcription is counted as    *)
(* what it was (handle_transcriptions, handle_chat, handle_stream).        *)
THEOREM HandlersAreSafe == Spec => []Safety
<1>1. IInv => Safety
  <2> SUFFICES ASSUME IInv PROVE Safety
    OBVIOUS
  <2>1. AdmittedFindSlot
    BY LentIsCovered, SlotAtOnce DEF AdmittedFindSlot
  <2>2. TranscriptionsCounted
    BY DEF IInv, HandlersInStep, TranscriptionsCounted, Reports
  <2>3. QED
    BY <2>1, <2>2, RestIsClean DEF Safety, IInv
<1>2. QED
  BY <1>1, Invariance, PTL
=============================================================================
