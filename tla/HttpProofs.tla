----------------------------- MODULE HttpProofs -----------------------------
(***************************************************************************)
(* Proofs about HttpServer for every number of connections, of stops and   *)
(* every limit.                                                            *)
(***************************************************************************)
EXTENDS HttpServer, FiniteSetTheorems, TLAPS

USE HttpAssumption

(* The connection threads that exist.                                      *)
Running == {c \in Conn : conn[c] = "run"}

(* The flags of the state, the part of the invariant that only they are    *)
(* about, and the part that is about the connections.                      *)
Flags ==
    /\ handle \in BOOLEAN /\ http \in BOOLEAN
    /\ svLive \in BOOLEAN /\ sLive \in BOOLEAN
    /\ running \in BOOLEAN /\ asleep \in BOOLEAN
    /\ touched \in BOOLEAN /\ foreign \in BOOLEAN

Allocated ==
    /\ asleep => pc = "drain"
    /\ pc \in {"loop", "accept", "accepted", "spawn", "drain", "close"} =>
           sLive /\ svLive
    /\ pc = "bind" => svLive

Counted ==
    /\ pc \in {"start", "bind", "loop", "accept", "accepted", "spawn", "drain",
               "close", "free", "clear", "returned"}
    /\ nConns \in 0..MaxConns
    /\ conn \in [Conn -> {"none", "run"}]
    /\ nConns = Cardinality(Running) + (IF pc = "spawn" THEN 1 ELSE 0)
    /\ pc \in {"start", "bind", "close", "free", "clear", "returned"} => nConns = 0

Owners ==
    /\ listenFd \in {"listen", "none"} \cup Conn
    /\ stop \in [Stopper -> {"ready", "http", "flag", "shut", "wake", "done"}]

(* These parts make up the invariant: a connection that is counted is      *)
(* counted while both objects are allocated.                               *)
LEMMA Parts == IInv <=> Flags /\ Allocated /\ Counted /\ Owners
<1>1. IInv => Flags /\ Allocated /\ Counted /\ Owners
  BY DEF IInv, Safety, TypeOK, ConnsOutlived, Phases, Flags, Allocated, Counted,
         Owners, Running
<1>2. ASSUME Flags, Allocated, Counted, Owners PROVE IInv
  <2>1. nConns > 0 => sLive /\ svLive
    BY <1>2 DEF Allocated, Counted
  <2>2. QED
    BY <1>2, <2>1 DEF IInv, Safety, TypeOK, ConnsOutlived, Phases, Flags, Allocated,
       Counted, Owners, Running
<1>3. QED
  BY <1>1, <1>2

(* There are finitely many of them.                                        *)
LEMMA RunningFinite ==
    /\ IsFiniteSet(Running) /\ Cardinality(Running) \in Nat
    /\ \A c \in Conn : conn[c] = "run" => Cardinality(Running) > 0
<1>1. IsFiniteSet(Running) /\ Cardinality(Running) \in Nat
  <2>1. Running \subseteq Conn
    BY DEF Running
  <2>2. QED
    BY <2>1, FS_Subset, FS_CardinalityType
<1>2. ASSUME NEW c \in Conn, conn[c] = "run"
      PROVE  Cardinality(Running) > 0
  <2>1. Running # {}
    BY <1>2 DEF Running
  <2>2. Cardinality(Running) # 0
    BY <1>1, <2>1, FS_EmptySet
  <2>3. QED
    BY <1>1, <2>2
<1>3. QED
  BY <1>1, <1>2

(* A thread that starts is one more, a thread that ends one less.          *)
LEMMA RunningStep ==
    ASSUME Counted, NEW c \in Conn
    PROVE  /\ conn[c] = "none" /\ conn' = [conn EXCEPT ![c] = "run"] =>
                Cardinality(Running') = Cardinality(Running) + 1
           /\ conn[c] = "run" /\ conn' = [conn EXCEPT ![c] = "none"] =>
                Cardinality(Running') = Cardinality(Running) - 1
<1>1. ASSUME conn[c] = "none", conn' = [conn EXCEPT ![c] = "run"]
      PROVE  Cardinality(Running') = Cardinality(Running) + 1
  <2>1. Running' = Running \cup {c} /\ c \notin Running
    BY <1>1 DEF Counted, Running
  <2>2. QED
    BY <2>1, RunningFinite, FS_AddElement
<1>2. ASSUME conn[c] = "run", conn' = [conn EXCEPT ![c] = "none"]
      PROVE  Cardinality(Running') = Cardinality(Running) - 1
  <2>1. Running' = Running \ {c} /\ c \in Running
    BY <1>2 DEF Counted, Running
  <2>2. QED
    BY <2>1, RunningFinite, FS_RemoveElement
<1>3. QED
  BY <1>1, <1>2

(* The flags start as flags, and every step leaves them flags.             *)
LEMMA FlagsStay == (Init => Flags) /\ (Flags /\ Next => Flags')
<1> USE DEF Flags
<1>1. Init => Flags
  BY Zenon DEF Init
<1>2. ASSUME Flags, Serving \/ Accept \/ AcceptFails \/ Spurious
      PROVE  Flags'
  BY <1>2, ZenonT(40)
  DEF Serving, Publish, Bind, Loop, Accept, AcceptFails, Count, Spawn, Drain,
      Spurious, CloseListen, Free, ClearHandle, memory, sockets, history
<1>3. ASSUME Flags, NEW c \in Conn, OpenFd(c) \/ CloseFd(c) \/ ConnDone(c)
      PROVE  Flags'
  BY <1>3, Zenon DEF OpenFd, CloseFd, ConnDone, memory, sockets, history
<1>4. ASSUME Flags, NEW t \in Stopper, StopCalled(t) \/ Stopping(t)
      PROVE  Flags'
  BY <1>4, Zenon
  DEF StopCalled, Stopping, StopReadsHttp, StopClearsRunning, StopClosesSocket,
      StopBroadcasts, Touch, memory, sockets, history
<1>5. QED
  BY <1>1, <1>2, <1>3, <1>4 DEF Next

(* Both objects are allocated from the bind to the end of the wait for the *)
(* connections, which is the only place where the serving thread sleeps.   *)
LEMMA AllocatedStays == (Init => Allocated) /\ (Flags /\ Allocated /\ Next => Allocated')
<1> USE DEF Flags, Allocated
<1>1. Init => Allocated
  BY Zenon DEF Init
<1>2. ASSUME Flags, Allocated, Next PROVE Allocated'
  <2> USE <1>2
  <2>1. CASE Publish \/ Free \/ ClearHandle
    <3>1. pc' = "bind" => svLive'
      BY <2>1, Zenon DEF Publish, Free, ClearHandle
    <3>2. QED
      BY <2>1, <3>1 DEF Publish, Free, ClearHandle
  <2>2. CASE Bind
    <3>1. svLive' = svLive /\ asleep' = asleep /\ pc = "bind" /\ pc' \in {"loop", "free"}
      BY <2>2 DEF Bind
    <3>2. pc' = "loop" => sLive'
      BY <2>2, Zenon DEF Bind
    <3>3. QED
      BY <3>1, <3>2
  <2>3. CASE Loop \/ Accept \/ AcceptFails \/ Count \/ Spawn
    BY <2>3 DEF Loop, Accept, AcceptFails, Count, Spawn, memory
  <2>4. CASE Drain
    <3>1. pc = "drain" /\ ~asleep /\ sLive' = sLive /\ svLive' = svLive
          /\ \/ pc' = "drain"
             \/ pc' = "close" /\ asleep' = asleep
      BY <2>4 DEF Drain, memory
    <3>2. QED
      BY <3>1
  <2>5. CASE CloseListen
    <3>1. pc' = "free" /\ asleep' = asleep /\ ~asleep
      BY <2>5 DEF CloseListen
    <3>2. QED
      BY <3>1
  <2>6. CASE Spurious \/ \E c \in Conn : OpenFd(c) \/ CloseFd(c) \/ ConnDone(c)
    <3>1. pc' = pc /\ sLive' = sLive /\ svLive' = svLive
      BY <2>6 DEF Spurious, OpenFd, CloseFd, ConnDone, memory
    <3>2. asleep' => asleep
      BY <2>6, Zenon DEF Spurious, OpenFd, CloseFd, ConnDone
    <3>3. QED
      BY <3>1, <3>2
  <2>7. CASE \E t \in Stopper : StopCalled(t) \/ Stopping(t)
    <3>1. pc' = pc /\ sLive' = sLive /\ svLive' = svLive
      BY <2>7 DEF StopCalled, Stopping, StopReadsHttp, StopClearsRunning,
                  StopClosesSocket, StopBroadcasts, memory
    <3>2. asleep' => asleep
      BY <2>7, Zenon DEF StopCalled, Stopping, StopReadsHttp, StopClearsRunning,
                  StopClosesSocket, StopBroadcasts
    <3>3. QED
      BY <3>1, <3>2
  <2>8. QED
    BY <2>1, <2>2, <2>3, <2>4, <2>5, <2>6, <2>7 DEF Next, Serving
<1>3. QED
  BY <1>1, <1>2

(* The number of the listening socket always has an owner of the right     *)
(* kind, and every stop is at one of its steps.                            *)
LEMMA OwnersStay == (Init => Owners) /\ (Owners /\ Next => Owners')
<1> USE DEF Owners
<1>1. Init => Owners
  BY DEF Init
<1>2. ASSUME Owners, Serving \/ Accept \/ AcceptFails \/ Spurious
      PROVE  Owners'
  BY <1>2
  DEF Serving, Publish, Bind, Loop, Accept, AcceptFails, Count, Spawn, Drain,
      Spurious, CloseListen, Free, ClearHandle, memory, sockets
<1>3. ASSUME Owners, NEW c \in Conn, OpenFd(c) \/ CloseFd(c) \/ ConnDone(c)
      PROVE  Owners'
  BY <1>3 DEF OpenFd, CloseFd, ConnDone, sockets
<1>4. ASSUME Owners, NEW t \in Stopper, StopCalled(t) \/ Stopping(t)
      PROVE  Owners'
  BY <1>4
  DEF StopCalled, Stopping, StopReadsHttp, StopClearsRunning, StopClosesSocket,
      StopBroadcasts, Touch, At, sockets
<1>5. QED
  BY <1>1, <1>2, <1>3, <1>4 DEF Next

(* n_conns goes up before a thread is started, down when none could be or  *)
(* when one ends, and is zero once the wait for the connections is over.   *)
LEMMA CountedStays == Flags /\ Allocated /\ Counted /\ Next => Counted'
<1> SUFFICES ASSUME Flags, Allocated, Counted, Next PROVE Counted'
  OBVIOUS
<1>1. ASSUME conn' = conn PROVE Running' = Running
  BY <1>1 DEF Running
<1>2. CASE \/ Publish \/ Bind \/ Loop \/ Drain \/ CloseListen \/ Free \/ ClearHandle
           \/ Accept \/ AcceptFails \/ Spurious
  <2>1. /\ conn' = conn /\ nConns' = nConns
        /\ pc' \in {"loop", "accept", "accepted", "drain"} => pc # "spawn"
    BY <1>2
    DEF Publish, Bind, Loop, Accept, AcceptFails, Drain, Spurious, CloseListen, Free,
        ClearHandle
  <2>2. /\ pc # "spawn" /\ pc' # "spawn"
        /\ pc' \in {"bind", "loop", "accept", "accepted", "drain", "close", "free",
                    "clear", "returned"}
        /\ pc' \in {"bind", "free", "clear", "returned"} =>
               pc \in {"start", "bind", "close", "free", "clear"}
        /\ pc' = "close" => nConns = 0
    <3>1. CASE Spurious
      BY <3>1 DEF Spurious, Allocated
    <3>2. CASE Drain
      BY <3>2 DEF Drain, Counted
    <3>3. CASE \/ Publish \/ Bind \/ Loop \/ CloseListen \/ Free \/ ClearHandle
               \/ Accept \/ AcceptFails
      BY <3>3 DEF Publish, Bind, Loop, Accept, AcceptFails, CloseListen, Free,
                  ClearHandle
    <3>4. QED
      BY <1>2, <3>1, <3>2, <3>3
  <2>3. QED
    BY <1>1, <2>1, <2>2 DEF Counted
<1>3. CASE Count
  BY <1>1, <1>3, RunningFinite DEF Count, Counted
<1>4. CASE Spawn
  <2>1. CASE \E c \in Conn : conn[c] = "none" /\ conn' = [conn EXCEPT ![c] = "run"]
    <3>1. PICK c \in Conn : conn[c] = "none" /\ conn' = [conn EXCEPT ![c] = "run"]
      BY <2>1
    <3>2. Cardinality(Running') = Cardinality(Running) + 1
      BY <3>1, RunningStep
    <3>3. nConns' = nConns
      BY <1>4, <3>1 DEF Spawn, Counted
    <3>4. QED
      BY <1>4, <3>1, <3>2, <3>3, RunningFinite DEF Spawn, Counted
  <2>2. CASE nConns' = nConns - 1 /\ UNCHANGED conn
    BY <1>1, <1>4, <2>2, RunningFinite DEF Spawn, Counted
  <2>3. QED
    BY <1>4, <2>1, <2>2 DEF Spawn
<1>5. ASSUME NEW c \in Conn, ConnDone(c) PROVE Counted'
  <2>1. Cardinality(Running') = Cardinality(Running) - 1
    BY <1>5, RunningStep DEF ConnDone
  <2>2. Cardinality(Running) > 0
    BY <1>5, RunningFinite DEF ConnDone
  <2>3. QED
    BY <1>5, <2>1, <2>2, RunningFinite DEF ConnDone, Counted
<1>6. CASE \/ \E c \in Conn : OpenFd(c) \/ CloseFd(c)
           \/ \E t \in Stopper : StopCalled(t) \/ Stopping(t)
  <2>1. pc' = pc /\ nConns' = nConns /\ conn' = conn
    BY <1>6
    DEF OpenFd, CloseFd, StopCalled, Stopping, StopReadsHttp, StopClearsRunning,
        StopClosesSocket, StopBroadcasts
  <2>2. QED
    BY <1>1, <2>1 DEF Counted
<1>7. QED
  BY <1>2, <1>3, <1>4, <1>5, <1>6 DEF Next, Serving

(* A server that has not started has no connection.                        *)
LEMMA InitInv == Init => IInv
<1> SUFFICES ASSUME Init PROVE IInv
  OBVIOUS
<1>1. Running = {}
  BY DEF Init, Running
<1>2. Cardinality(Running) = 0
  BY <1>1, FS_EmptySet
<1>3. Counted
  BY <1>2 DEF Init, Counted
<1>4. QED
  BY <1>3, FlagsStay, AllocatedStays, OwnersStay, Parts

(* Every step preserves the invariant.                                     *)
LEMMA NextInv == IInv /\ [Next]_vars => IInv'
<1> SUFFICES ASSUME IInv, [Next]_vars PROVE IInv'
  OBVIOUS
<1>1. CASE UNCHANGED vars
  BY <1>1 DEF IInv, Safety, TypeOK, ConnsOutlived, Phases, vars, sockets, memory, history
<1>2. CASE Next
  <2>1. (Flags /\ Allocated /\ Counted /\ Owners)'
    BY <1>2, FlagsStay, AllocatedStays, OwnersStay, CountedStays, Parts
  <2>2. QED
    BY <2>1, Parts, PTL
<1>3. QED
  BY <1>1, <1>2

(* For any limit on connections, any number of connection threads and of   *)
(* stops: n_conns counts the threads that exist, never exceeds the limit,  *)
(* and neither s nor sv is freed while one of them runs (vv_http_serve,    *)
(* conn_thread, vv_server_stop).                                           *)
THEOREM HttpSafe == Spec => []Safety
<1>1. Spec => []IInv
  BY InitInv, NextInv, PTL DEF Spec
<1>2. IInv => Safety
  BY DEF IInv
<1>3. QED
  BY <1>1, <1>2, PTL

-----------------------------------------------------------------------------
(* One stop *)

(* Until its only stop has closed it, the number belongs to the listening  *)
(* socket for as long as s exists.                                         *)
OwnSocket ==
    /\ sLive => /\ listenFd = "listen" \/ \E t \in Stopper : stop[t] \in {"wake", "done"}
                /\ pc \notin {"start", "bind"}
    /\ ~foreign

(* A server that is stopped once closes its listening socket and never a   *)
(* descriptor that has taken its number: what StopIsSafe says of           *)
(* descriptors needs a second stop to go wrong (vv_http_stop).             *)
THEOREM OneStopClosesOwn ==
    ASSUME \A t, u \in Stopper : t = u
    PROVE  Spec => []~foreign
<1>1. Init => OwnSocket
  BY Zenon DEF Init, OwnSocket
<1>2. IInv /\ OwnSocket /\ [Next]_vars => OwnSocket'
  <2> SUFFICES ASSUME IInv, OwnSocket, [Next]_vars PROVE OwnSocket'
    OBVIOUS
  <2> USE DEF OwnSocket
  <2>1. CASE UNCHANGED vars
    BY <2>1, Zenon DEF vars, memory, sockets, history
  <2>2. CASE Serving \/ Accept \/ AcceptFails \/ Spurious
    <3>1. stop' = stop /\ foreign' = foreign
      BY <2>2 DEF Serving, Publish, Bind, Loop, Accept, AcceptFails, Count, Spawn, Drain,
        Spurious, CloseListen, Free, ClearHandle, history
    <3>2. CASE Bind
      BY <3>1, <3>2 DEF Bind, sockets
    <3>3. CASE CloseListen
      <4>1. ~sLive'
        BY <3>3, Zenon DEF CloseListen
      <4>2. QED
        BY <3>1, <4>1
    <3>4. CASE ~Bind /\ ~CloseListen
      <4>1. sLive' = sLive /\ listenFd' = listenFd
        BY <2>2, <3>4 DEF Serving, Publish, Loop, Accept, AcceptFails, Count, Spawn,
          Drain, Spurious, Free, ClearHandle, memory, sockets
      <4>2. CASE Publish
        BY <3>1, <4>1, <4>2 DEF Publish
      <4>3. CASE ~Publish
        <5>1. pc' \notin {"start", "bind"} \/ pc' = pc
          BY <2>2, <3>4, <4>3 DEF Serving, Loop, Accept, AcceptFails, Count, Spawn,
            Drain, Spurious, Free, ClearHandle
        <5>2. QED
          BY <3>1, <4>1, <5>1
      <4>4. QED
        BY <4>2, <4>3
    <3>5. QED
      BY <3>2, <3>3, <3>4
  <2>3. ASSUME NEW c \in Conn, OpenFd(c) \/ CloseFd(c) \/ ConnDone(c)
        PROVE  OwnSocket'
    <3>1. CASE OpenFd(c)
      BY <3>1, Zenon DEF OpenFd, memory, history
    <3>2. CASE CloseFd(c)
      <4>1. c # "listen"
        OBVIOUS
      <4>2. QED
        BY <3>2, <4>1, Zenon DEF CloseFd, memory, history
    <3>3. CASE ConnDone(c)
      BY <3>3, Zenon DEF ConnDone, memory, sockets, history
    <3>4. QED
      BY <2>3, <3>1, <3>2, <3>3
  <2>4. ASSUME NEW t \in Stopper, StopCalled(t) \/ Stopping(t)
        PROVE  OwnSocket'
    <3>1. sLive' = sLive /\ pc' = pc
      BY <2>4 DEF StopCalled, Stopping, StopReadsHttp, StopClearsRunning,
                  StopClosesSocket, StopBroadcasts, memory
    <3>2. CASE sLive
      <4>1. CASE stop[t] = "shut"
        <5>1. listenFd = "listen" /\ listenFd \notin Conn
          BY <3>2, <4>1
        <5>2. StopClosesSocket(t)
          BY <2>4, <4>1 DEF StopCalled, Stopping, StopReadsHttp, StopClearsRunning,
                            StopBroadcasts
        <5>3. stop'[t] = "wake" /\ ~foreign'
          BY <3>2, <5>1, <5>2 DEF StopClosesSocket, Touch, At, IInv, Safety, TypeOK
        <5>4. QED
          BY <3>1, <3>2, <5>3
      <4>2. CASE stop[t] # "shut"
        <5>1. listenFd' = listenFd /\ foreign' = foreign
          BY <2>4, <4>2 DEF StopCalled, Stopping, StopReadsHttp, StopClearsRunning,
               StopClosesSocket, StopBroadcasts, sockets, history
        <5>2. stop[t] \in {"wake", "done"} => stop'[t] = "done"
          BY <2>4 DEF StopCalled, Stopping, StopReadsHttp, StopClearsRunning,
               StopClosesSocket, StopBroadcasts, Touch, At, IInv, Safety, TypeOK
        <5>3. QED
          BY <3>1, <3>2, <5>1, <5>2
      <4>3. QED
        BY <4>1, <4>2
    <3>3. CASE ~sLive
      <4>1. ~foreign'
        BY <2>4, <3>3, Zenon DEF StopCalled, Stopping, StopReadsHttp, StopClearsRunning,
             StopClosesSocket, StopBroadcasts, history
      <4>2. QED
        BY <3>1, <3>3, <4>1
    <3>4. QED
      BY <3>2, <3>3
  <2>5. QED
    BY <2>1, <2>2, <2>3, <2>4 DEF Next
<1>3. Spec => []IInv
  BY InitInv, NextInv, PTL DEF Spec
<1>4. OwnSocket => ~foreign
  BY DEF OwnSocket
<1>5. QED
  BY <1>1, <1>2, <1>3, <1>4, PTL DEF Spec
=============================================================================
