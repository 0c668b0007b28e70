----------------------------- MODULE HttpServer -----------------------------
(***************************************************************************)
(* The life of the HTTP server: vv_server_run around vv_http_serve, one    *)
(* thread per connection, and vv_server_stop, which the command line calls *)
(* from its signal handler and which any thread may call                   *)
(* (src/server/http.c, src/server/api.c, cli/cmd_serve.c).                 *)
(*                                                                         *)
(* sv is the vv_server_t, s the vv_http_t.  A stop runs without the lock,  *)
(* so each of its accesses is a step; touching an object after it was freed*)
(* is recorded and ends the stop.  What a connection sends and what its    *)
(* handler does are left out (see Server), except that a handler may open a*)
(* descriptor, and the system gives it the lowest number that is free.     *)
(***************************************************************************)
EXTENDS Naturals, FiniteSets

CONSTANTS Conn,       \* connection threads that can exist at once
          Stopper,    \* calls of vv_server_stop
          MaxConns    \* s->max_conns

ASSUME HttpAssumption ==
    /\ IsFiniteSet(Conn) /\ IsFiniteSet(Stopper)
    /\ MaxConns \in Nat \ {0}
    /\ Conn \cap {"listen", "none"} = {}

VARIABLES
    pc,         \* the thread inside vv_server_run
    handle,     \* *handle points to sv
    http,       \* sv->http points to s
    svLive, sLive,          \* allocated, and not yet freed
    running,    \* s->running
    listenFd,   \* who owns the number s->listen_fd: "listen", "none", a handler
    nConns,     \* s->n_conns
    asleep,     \* the serving thread waits on conn_done
    conn,       \* per connection thread: "none" or "run"
    stop,       \* per stop: where it is
    touched,    \* history: a stop used an object after it was freed
    foreign     \* history: a stop closed a handler's descriptor

memory == <<handle, http, svLive, sLive>>
sockets == <<running, listenFd>>
history == <<touched, foreign>>
vars == <<pc, memory, sockets, nConns, asleep, conn, stop, history>>

TypeOK ==
    /\ pc \in {"start", "bind", "loop", "accept", "accepted", "spawn", "drain",
               "close", "free", "clear", "returned"}
    /\ handle \in BOOLEAN /\ http \in BOOLEAN
    /\ svLive \in BOOLEAN /\ sLive \in BOOLEAN
    /\ running \in BOOLEAN
    /\ listenFd \in {"listen", "none"} \cup Conn
    /\ nConns \in 0..MaxConns
    /\ asleep \in BOOLEAN
    /\ conn \in [Conn -> {"none", "run"}]
    /\ stop \in [Stopper -> {"ready", "http", "flag", "shut", "wake", "done"}]
    /\ touched \in BOOLEAN /\ foreign \in BOOLEAN

Init ==
    /\ pc = "start"
    /\ handle = FALSE /\ http = FALSE /\ svLive = FALSE /\ sLive = FALSE
    /\ running = FALSE /\ listenFd = "none"
    /\ nConns = 0 /\ asleep = FALSE
    /\ conn = [c \in Conn |-> "none"]
    /\ stop = [t \in Stopper |-> "ready"]
    /\ touched = FALSE /\ foreign = FALSE

-----------------------------------------------------------------------------
(* The serving thread *)

(* vv_server_run, up to publishing the handle.                             *)
Publish ==
    /\ pc = "start"
    /\ pc' = "bind"
    /\ handle' = TRUE /\ svLive' = TRUE
    /\ UNCHANGED <<http, sLive, sockets, nConns, asleep, conn, stop, history>>

(* vv_http_serve: bind and listen, and only then *out; or an error return. *)
Bind ==
    /\ pc = "bind"
    /\ \/ /\ pc' = "loop"
          /\ sLive' = TRUE /\ http' = TRUE
          /\ running' = TRUE /\ listenFd' = "listen"
       \/ pc' = "free" /\ UNCHANGED <<sLive, http, sockets>>
    /\ UNCHANGED <<handle, svLive, nConns, asleep, conn, stop, history>>

Loop ==
    /\ pc = "loop"
    /\ pc' = IF running THEN "accept" ELSE "drain"
    /\ UNCHANGED <<memory, sockets, nConns, asleep, conn, stop, history>>

(* accept blocks while the socket listens and nobody connects; it may fail *)
(* at any time, and fails at once on a closed descriptor.                  *)
Accept ==
    /\ pc = "accept" /\ listenFd = "listen"
    /\ pc' = "accepted"
    /\ UNCHANGED <<memory, sockets, nConns, asleep, conn, stop, history>>

AcceptFails ==
    /\ pc = "accept"
    /\ pc' = IF running THEN "loop" ELSE "drain"
    /\ UNCHANGED <<memory, sockets, nConns, asleep, conn, stop, history>>

(* Under the lock: one more connection, or a 503.                          *)
Count ==
    /\ pc = "accepted"
    /\ IF nConns >= MaxConns \/ ~running
       THEN pc' = "loop" /\ UNCHANGED nConns
       ELSE pc' = "spawn" /\ nConns' = nConns + 1
    /\ UNCHANGED <<memory, sockets, asleep, conn, stop, history>>

Spawn ==
    /\ pc = "spawn"
    /\ \/ /\ \E c \in Conn : /\ conn[c] = "none"
                             /\ conn' = [conn EXCEPT ![c] = "run"]
          /\ UNCHANGED nConns
       \/ nConns' = nConns - 1 /\ UNCHANGED conn
    /\ pc' = "loop"
    /\ UNCHANGED <<memory, sockets, asleep, stop, history>>

(* mutant: one wake-up is taken for the end of all connections.            *)
DrainOnce ==
    /\ pc = "drain" /\ ~asleep
    /\ IF nConns > 0 THEN asleep' = TRUE ELSE UNCHANGED asleep
    /\ pc' = "close"
    /\ UNCHANGED <<memory, sockets, nConns, conn, stop, history>>

(* The wait for the connections in flight.                                 *)
Drain ==
    /\ pc = "drain" /\ ~asleep
    /\ IF nConns > 0 THEN asleep' = TRUE /\ UNCHANGED pc
                     ELSE pc' = "close" /\ UNCHANGED asleep
    /\ UNCHANGED <<memory, sockets, nConns, conn, stop, history>>

(* vv_cond_wait may return by itself.                                      *)
Spurious ==
    /\ asleep
    /\ asleep' = FALSE
    /\ UNCHANGED <<pc, memory, sockets, nConns, conn, stop, history>>

CloseListen ==
    /\ pc = "close" /\ ~asleep
    /\ pc' = "free"
    /\ listenFd' = "none"
    /\ sLive' = FALSE
    /\ UNCHANGED <<handle, http, svLive, running, nConns, asleep, conn, stop,
                   history>>

Free ==
    /\ pc = "free"
    /\ pc' = "clear"
    /\ svLive' = FALSE
    /\ UNCHANGED <<handle, http, sLive, sockets, nConns, asleep, conn, stop,
                   history>>

ClearHandle ==
    /\ pc = "clear"
    /\ pc' = "returned"
    /\ handle' = FALSE
    /\ UNCHANGED <<http, svLive, sLive, sockets, nConns, asleep, conn, stop,
                   history>>

-----------------------------------------------------------------------------
(* A connection thread *)

(* The handler opens a pipe or a file and gets the number s->listen_fd.    *)
OpenFd(c) ==
    /\ conn[c] = "run" /\ listenFd = "none"
    /\ listenFd' = c
    /\ UNCHANGED <<pc, memory, running, nConns, asleep, conn, stop, history>>

CloseFd(c) ==
    /\ listenFd = c
    /\ listenFd' = "none"
    /\ UNCHANGED <<pc, memory, running, nConns, asleep, conn, stop, history>>

(* mutant: the last connection to end signals nobody.                      *)
ConnDoneSilent(c) ==
    /\ conn[c] = "run" /\ listenFd # c
    /\ conn' = [conn EXCEPT ![c] = "none"]
    /\ nConns' = nConns - 1
    /\ asleep' = (asleep /\ nConns = 1)
    /\ UNCHANGED <<pc, memory, sockets, stop, history>>

(* The end of conn_thread: uncounted and signalled under the lock.         *)
ConnDone(c) ==
    /\ conn[c] = "run" /\ listenFd # c
    /\ conn' = [conn EXCEPT ![c] = "none"]
    /\ nConns' = nConns - 1
    /\ asleep' = FALSE
    /\ UNCHANGED <<pc, memory, sockets, stop, history>>

-----------------------------------------------------------------------------
(* vv_server_stop *)

At(t, where) == stop' = [stop EXCEPT ![t] = where]

(* An access to an object that may be gone.                                *)
Touch(t, live, next) ==
    IF live THEN At(t, next) /\ UNCHANGED touched
            ELSE At(t, "done") /\ touched' = TRUE

StopCalled(t) ==
    /\ stop[t] = "ready"
    /\ At(t, IF handle THEN "http" ELSE "done")
    /\ UNCHANGED <<pc, memory, sockets, nConns, asleep, conn, history>>

StopReadsHttp(t) ==
    /\ stop[t] = "http"
    /\ Touch(t, svLive, IF http THEN "flag" ELSE "done")
    /\ UNCHANGED <<pc, memory, sockets, nConns, asleep, conn, foreign>>

StopClearsRunning(t) ==
    /\ stop[t] = "flag"
    /\ Touch(t, sLive, "shut")
    /\ running' = IF sLive THEN FALSE ELSE running
    /\ UNCHANGED <<pc, memory, listenFd, nConns, asleep, conn, foreign>>

(* shutdown and close, of whatever has the number now.                     *)
StopClosesSocket(t) ==
    /\ stop[t] = "shut"
    /\ Touch(t, sLive, "wake")
    /\ listenFd' = IF sLive THEN "none" ELSE listenFd
    /\ foreign' = (foreign \/ (sLive /\ listenFd \in Conn))
    /\ UNCHANGED <<pc, memory, running, nConns, asleep, conn>>

StopBroadcasts(t) ==
    /\ stop[t] = "wake"
    /\ Touch(t, sLive, "done")
    /\ asleep' = IF sLive THEN FALSE ELSE asleep
    /\ UNCHANGED <<pc, memory, sockets, nConns, conn, foreign>>

-----------------------------------------------------------------------------
Serving ==
    \/ Publish \/ Bind \/ Loop \/ Count \/ Spawn \/ Drain
    \/ CloseListen \/ Free \/ ClearHandle
    \/ listenFd # "listen" /\ AcceptFails

Stopping(t) ==
    \/ StopReadsHttp(t) \/ StopClearsRunning(t) \/ StopClosesSocket(t)
    \/ StopBroadcasts(t)

Next ==
    \/ Serving \/ Accept \/ AcceptFails \/ Spurious
    \/ \E c \in Conn : OpenFd(c) \/ CloseFd(c) \/ ConnDone(c)
    \/ \E t \in Stopper : StopCalled(t) \/ Stopping(t)

Spec == Init /\ [][Next]_vars

(* The serving thread is scheduled, a stop under way goes on, and handlers *)
(* return: sockets have timeouts, and Server shows that requests are       *)
(* answered.                                                               *)
FairSpec ==
    /\ Spec
    /\ WF_vars(Serving)
    /\ \A t \in Stopper : WF_vars(Stopping(t))
    /\ \A c \in Conn : WF_vars(CloseFd(c)) /\ SF_vars(ConnDone(c))

-----------------------------------------------------------------------------
(* Properties *)

(* "Let in-flight requests finish before the handler's state goes away":   *)
(* no connection thread outlives s or sv, and n_conns is the number of     *)
(* those threads, across refused connections, threads that could not be    *)
(* started and stops at any moment (vv_http_serve, conn_thread).           *)
ConnsOutlived ==
    /\ nConns = Cardinality({c \in Conn : conn[c] = "run"})
                 + (IF pc = "spawn" THEN 1 ELSE 0)
    /\ nConns > 0 => sLive /\ svLive

(* The above, with the types it rests on: a refused connection and a       *)
(* thread that could not be started leave no descriptor open and no count  *)
(* behind (vv_http_serve).                                                 *)
Safety == TypeOK /\ ConnsOutlived

(* Where the serving thread is when it sleeps, when a connection may be    *)
(* counted, and while both objects are allocated: what makes Safety        *)
(* inductive (vv_http_serve, vv_server_run).                               *)
Phases ==
    /\ asleep => pc = "drain"
    /\ pc \in {"start", "bind", "close", "free", "clear", "returned"} => nConns = 0
    /\ pc \in {"loop", "accept", "accepted", "spawn", "drain", "close"} =>
           sLive /\ svLive
    /\ pc = "bind" => svLive

IInv == Safety /\ Phases

(* A stop that found the server listening ends it: the accept loop leaves, *)
(* the wait for the connections ends and vv_server_run returns.            *)
StopReturns == (\E t \in Stopper : stop[t] = "shut") ~> (pc = "returned")

(* "Ask a running server to stop; safe from a signal handler" (server.h):  *)
(* a stop uses neither sv nor s after they were freed, and the descriptor  *)
(* it closes is the listening socket, not one that has taken its number.   *)
StopIsSafe == ~touched /\ ~foreign
=============================================================================
