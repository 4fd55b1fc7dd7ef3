----------------------------- MODULE SrsServer -----------------------------
(***************************************************************************)
(* The connection manager: SrsServer, its SrsListener thread and the       *)
(* SrsConnection threads (src/base/app_server.cpp, app_listener.cpp,       *)
(* app_conn.cpp), from the moment run_master() enters SrsServer::cycle()   *)
(* to the end of the process.                                              *)
(*                                                                         *)
(* The listener accepts a client, puts its connection in conns and sleeps  *)
(* in conn->start() until the connection's thread has its id; the          *)
(* connection's thread serves it, and removes and frees it from            *)
(* on_thread_stop().  The main thread replaces the listener when listen is *)
(* reloaded and, in a build with SRS_AUTO_GPERF_MC, tears the listener,    *)
(* the signal manager and the statistics down under the connections still  *)
(* alive, then sleeps for them to end.                                     *)
(*                                                                         *)
(* An action is the code between two blocking calls of State Threads, and  *)
(* the handshake of SrsThread is as in module SrsThread.  do_cycle() of a  *)
(* connection is a virtual function: the model lets it block (the state    *)
(* serving), which SrsBaseConn's, with its reads commented out, does not.  *)
(* on_reload_listen() is called from the main cycle by the owner of the    *)
(* configuration, which is external, as in module SrsFastLog.              *)
(***************************************************************************)
EXTENDS Integers, FiniteSets

CONSTANTS
    Conns,          \* connection objects; an object may be allocated again
    None,           \* no connection
    MaxConnections, \* max_connections of the configuration
    StackLimits,    \* how many thread stacks State Threads may be able to map
    Backlog         \* bound: clients waiting in the kernel (512 in the code)

ASSUME NoneAssumption == None \notin Conns
ASSUME ServerAssumption ==
    MaxConnections \in Nat /\ StackLimits \subseteq Nat /\ Backlog \in Nat

VARIABLES
    conns,          \* SrsServer::conns
    conn,           \* what exists of each connection, and where its thread is
    can_run,        \* can_run of its SrsThread
    listener,       \* where the listener's thread is
    lloop,          \* loop of the listener's SrsThread
    lintr,          \* an interrupt of the listener's thread is pending
    starting,       \* the connection whose start() the listener is inside
    backlog,        \* clients connected and not accepted
    gmc,            \* the build has SRS_AUTO_GPERF_MC; never changes
    stacks,         \* how many thread stacks there are; never changes
    main,           \* where the main thread is
    gmc_stop,       \* signal_gmc_stop
    kbps,           \* the pointer kbps is not NULL
    crashed         \* the process has used the NULL pointer kbps

connVars == <<conns, conn, can_run>>
listenerVars == <<listener, lloop, lintr, starting, backlog>>
build == <<gmc, stacks>>
mainVars == <<build, main, gmc_stop, kbps, crashed>>
vars == <<connVars, listenerVars, mainVars>>

\* unstarted: the object is in conns, st_thread_create has failed.
ConnState == {"none", "unstarted", "ready", "wait_run", "serving"}
Threaded == {"ready", "wait_run", "serving"}
\* new: not running yet.  Without a thread: dead, the thread has ended; none, listen()
\* has failed; deaf, it has failed after ::listen(), and the socket is left open.
ListenerState == {"new", "accept", "starting", "sleep", "dead", "none", "deaf"}
Threadless == {"dead", "none", "deaf"}
\* run: do_cycle(); the two steps of a reload of listen that wait; the three steps
\* of destroy() that do; and the exit.
MainState == {"run", "reload_join", "reload_start", "join_listener", "join_signal", "drain",
              "exited"}

\* The stacks in use beside the connections': idle, listener and signal thread.
SystemThreads == 3
Threads == SystemThreads + Cardinality({c \in Conns : conn[c] \in Threaded})

Up == main # "exited"

\* The listening socket is open.
Listening == (main = "run" /\ listener # "none") \/ main = "reload_start"

\* The signal thread is alive.
SignalsRead == main \in {"run", "reload_join", "reload_start", "join_listener"}

-----------------------------------------------------------------------------
Init ==
    /\ conns = {}
    /\ conn = [c \in Conns |-> "none"]
    /\ can_run = [c \in Conns |-> FALSE]
    /\ listener = "accept" /\ lloop = TRUE /\ lintr = FALSE
    /\ starting = None
    /\ backlog = 0
    /\ gmc \in BOOLEAN /\ stacks \in StackLimits
    /\ main = "run" /\ gmc_stop = FALSE /\ kbps = TRUE /\ crashed = FALSE

\* Mutant of ClientConnect: listen() does not bound its queue.
ClientConnect_NoBacklog ==
    /\ Listening /\ backlog <= Backlog
    /\ backlog' = backlog + 1
    /\ UNCHANGED <<connVars, listener, lloop, lintr, starting, mainVars>>

\* The kernel completes a connection on the listening socket, which destroy() and
\* listen_base() close first of all.
ClientConnect ==
    /\ Listening /\ backlog < Backlog
    /\ backlog' = backlog + 1
    /\ UNCHANGED <<connVars, listener, lloop, lintr, starting, mainVars>>

\* cycle() of the listener has returned: thread_cycle sleeps, or leaves.
ListenerCycleDone == listener' = IF lloop THEN "sleep" ELSE "dead"

\* st_accept returns a client; an interrupt would make it return NULL instead.
ClientReady == Up /\ listener = "accept" /\ ~lintr /\ backlog > 0

\* accept_client at the limit: the client is closed.
AcceptDrop ==
    /\ ClientReady
    /\ Cardinality(conns) >= MaxConnections
    /\ backlog' = backlog - 1
    /\ ListenerCycleDone
    /\ UNCHANGED <<connVars, lloop, lintr, starting, mainVars>>

\* accept_client below the limit: the connection is enqueued, then started; its
\* thread cannot have its id yet, so start() sleeps.
AcceptStart(c) ==
    /\ ClientReady
    /\ Cardinality(conns) < MaxConnections
    /\ conn[c] = "none" /\ Threads < stacks
    /\ backlog' = backlog - 1
    /\ conns' = conns \cup {c}
    /\ conn' = [conn EXCEPT ![c] = "ready"]
    /\ can_run' = [can_run EXCEPT ![c] = FALSE]
    /\ starting' = c
    /\ listener' = "starting"
    /\ UNCHANGED <<lloop, lintr, mainVars>>

\* Mutant of AcceptUnstarted: the limit is not looked at.
AcceptUnstarted_OneMore(c) ==
    /\ ClientReady
    /\ conn[c] = "none" /\ Threads >= stacks
    /\ backlog' = backlog - 1
    /\ conns' = conns \cup {c}
    /\ conn' = [conn EXCEPT ![c] = "unstarted"]
    /\ can_run' = [can_run EXCEPT ![c] = FALSE]
    /\ ListenerCycleDone
    /\ UNCHANGED <<lloop, lintr, starting, mainVars>>

\* AcceptStart when no stack is left: start() fails after the enqueue, and
\* accept_client returns its error without taking the connection back.
AcceptUnstarted(c) ==
    /\ ClientReady
    /\ Cardinality(conns) < MaxConnections
    /\ conn[c] = "none" /\ Threads >= stacks
    /\ backlog' = backlog - 1
    /\ conns' = conns \cup {c}
    /\ conn' = [conn EXCEPT ![c] = "unstarted"]
    /\ can_run' = [can_run EXCEPT ![c] = FALSE]
    /\ ListenerCycleDone
    /\ UNCHANGED <<lloop, lintr, starting, mainVars>>

Accept == AcceptDrop \/ \E c \in Conns : AcceptStart(c) \/ AcceptUnstarted(c)

\* st_accept fails: the client has given up, or no descriptor is left.  The
\* listener ignores the error.
AcceptError ==
    /\ ClientReady
    /\ backlog' \in {backlog - 1, backlog}
    /\ ListenerCycleDone
    /\ UNCHANGED <<connVars, lloop, lintr, starting, mainVars>>

\* st_accept returns NULL because the thread is interrupted.
ListenerInterrupted ==
    /\ Up /\ listener = "accept" /\ lintr
    /\ lintr' = FALSE
    /\ ListenerCycleDone
    /\ UNCHANGED <<connVars, lloop, starting, backlog, mainVars>>

\* conn->start() finds the id, lets the thread run and returns.  Its st_usleep
\* has swallowed an interrupt of the listener, if there was one.
StartReturn ==
    /\ Up /\ listener = "starting" /\ conn[starting] # "ready"
    /\ can_run' = [can_run EXCEPT ![starting] = TRUE]
    /\ starting' = None
    /\ lintr' = FALSE
    /\ ListenerCycleDone
    /\ UNCHANGED <<conns, conn, lloop, backlog, mainVars>>

\* The listener's sleep between two cycles ends.
ListenerWake ==
    /\ Up /\ listener = "sleep"
    /\ listener' = IF lloop THEN "accept" ELSE "dead"
    /\ lintr' = FALSE
    /\ UNCHANGED <<connVars, lloop, starting, backlog, mainVars>>

\* Mutants of ConnBegin: the thread does not wait for can_run; the thread takes
\* its id after that wait.
ConnBegin_NoWait(c) ==
    /\ Up /\ conn[c] = "ready"
    /\ conn' = [conn EXCEPT ![c] = "serving"]
    /\ UNCHANGED <<conns, can_run, listenerVars, mainVars>>
ConnBegin_IdLast(c) ==
    /\ Up /\ conn[c] = "ready" /\ can_run[c]
    /\ conn' = [conn EXCEPT ![c] = "serving"]
    /\ UNCHANGED <<conns, can_run, listenerVars, mainVars>>

\* The connection's thread takes its id and, as long as start() has not
\* returned, waits for can_run.
ConnBegin(c) ==
    /\ Up /\ conn[c] = "ready"
    /\ conn' = [conn EXCEPT ![c] = IF can_run[c] THEN "serving" ELSE "wait_run"]
    /\ UNCHANGED <<conns, can_run, listenerVars, mainVars>>

ConnRun(c) ==
    /\ Up /\ conn[c] = "wait_run" /\ can_run[c]
    /\ conn' = [conn EXCEPT ![c] = "serving"]
    /\ UNCHANGED <<conns, can_run, listenerVars, mainVars>>

\* Mutants of ConnRemove: the connection is freed and stays listed; its thread
\* ends without calling on_thread_stop().
ConnRemove_StaysListed(c) ==
    /\ Up /\ conn[c] = "serving" /\ kbps
    /\ conn' = [conn EXCEPT ![c] = "none"]
    /\ UNCHANGED <<conns, can_run, listenerVars, mainVars>>
ConnRemove_NoCallback(c) ==
    /\ Up /\ conn[c] = "serving"
    /\ conn' = [conn EXCEPT ![c] = "unstarted"]
    /\ UNCHANGED <<conns, can_run, listenerVars, mainVars>>

\* do_cycle returns, the thread leaves its loop and remove() erases the
\* connection, adds its bytes to kbps and frees it.  (It ignores a connection
\* that is not listed, which ManagerExact excludes.)
ConnRemove(c) ==
    /\ Up /\ conn[c] = "serving" /\ kbps
    /\ conns' = conns \ {c}
    /\ conn' = [conn EXCEPT ![c] = "none"]
    /\ UNCHANGED <<can_run, listenerVars, mainVars>>

\* The same after destroy() has freed kbps: add_delta writes through NULL.
ConnRemoveCrash(c) ==
    /\ Up /\ conn[c] = "serving" /\ ~kbps
    /\ conns' = conns \ {c}
    /\ crashed' = TRUE /\ main' = "exited"
    /\ UNCHANGED <<conn, can_run, listenerVars, build, gmc_stop, kbps>>

-----------------------------------------------------------------------------
\* on_signal of SIGINT or SIGUSR2: the process exits, or in a gmc build is asked to.
StopSignal ==
    /\ SignalsRead
    /\ IF gmc THEN gmc_stop' = TRUE /\ UNCHANGED main
              ELSE main' = "exited" /\ UNCHANGED gmc_stop
    /\ UNCHANGED <<connVars, listenerVars, build, kbps, crashed>>

\* on_signal of SIGTERM, as long as the signal thread lives.
TermSignal ==
    /\ SignalsRead
    /\ main' = "exited"
    /\ UNCHANGED <<connVars, listenerVars, build, gmc_stop, kbps, crashed>>

\* Mutant of BeginReload: the listener's thread is not told to leave its loop.
BeginReload_InterruptOnly ==
    /\ main = "run" /\ ~gmc_stop
    /\ main' = "reload_join"
    /\ backlog' = 0 /\ lintr' = TRUE
    /\ UNCHANGED <<connVars, listener, lloop, starting, build, gmc_stop, kbps, crashed>>

\* on_reload_listen(), called from do_cycle, which looks at signal_gmc_stop before:
\* listen_base() closes the listener it has as destroy() does, and waits for it.
BeginReload ==
    /\ main = "run" /\ ~gmc_stop
    /\ main' = "reload_join"
    /\ backlog' = 0
    /\ lloop' = FALSE /\ lintr' = TRUE
    /\ UNCHANGED <<connVars, listener, starting, build, gmc_stop, kbps, crashed>>

\* The old thread has ended; a new listener listens, and its start() sleeps until
\* the new thread, which has the stack of the old one, has its id.
ReloadListen ==
    /\ main = "reload_join" /\ listener \in Threadless
    /\ main' = "reload_start"
    /\ listener' = "new" /\ lloop' = TRUE /\ lintr' = FALSE
    /\ UNCHANGED <<connVars, starting, backlog, build, gmc_stop, kbps, crashed>>

\* Or its listen() fails and the server goes on with a listener that has no thread:
\* at bind() for one; or after ::listen(), when st_netfd_open_socket() or the start of
\* the thread fails, which leaves clients a socket to connect to that nobody accepts.
ReloadFails ==
    /\ main = "reload_join" /\ listener \in Threadless
    /\ main' = "run"
    /\ listener' \in {"none", "deaf"} /\ lloop' = FALSE /\ lintr' = FALSE
    /\ UNCHANGED <<connVars, starting, backlog, build, gmc_stop, kbps, crashed>>

\* start() returns; the new thread wakes up from its wait for can_run.
ReloadStarted ==
    /\ main = "reload_start"
    /\ main' = "run"
    /\ listener' = "sleep"
    /\ UNCHANGED <<connVars, lloop, lintr, starting, backlog, build, gmc_stop, kbps, crashed>>

\* Mutant of BeginDestroy: the listener's thread is interrupted only.
BeginDestroy_InterruptOnly ==
    /\ gmc /\ main = "run" /\ gmc_stop
    /\ main' = "join_listener"
    /\ lintr' = TRUE
    /\ UNCHANGED <<connVars, listener, lloop, starting, backlog, build, gmc_stop, kbps,
                   crashed>>

\* do_cycle sees the flag; destroy() closes the listening socket, clears the loop
\* of the listener's thread, interrupts it and joins it.
BeginDestroy ==
    /\ gmc /\ main = "run" /\ gmc_stop
    /\ main' = "join_listener"
    /\ backlog' = 0
    /\ lloop' = FALSE /\ lintr' = TRUE
    /\ UNCHANGED <<connVars, listener, starting, build, gmc_stop, kbps, crashed>>

\* The listener, if it had a thread, is joined and freed; destroy() goes on to free the
\* signal manager, which interrupts and joins the signal thread.  (The join of stop(),
\* which module SrsThread lets fail, succeeds here: the main thread alone joins, and
\* nothing interrupts it.)
ListenerJoined ==
    /\ main = "join_listener" /\ listener \in Threadless
    /\ main' = "join_signal"
    /\ UNCHANGED <<connVars, listenerVars, build, gmc_stop, kbps, crashed>>

\* The signal thread ends; destroy() frees kbps and cycle() starts to sleep.
SignalJoined ==
    /\ main = "join_signal"
    /\ main' = "drain" /\ kbps' = FALSE
    /\ UNCHANGED <<connVars, listenerVars, build, gmc_stop, crashed>>

\* The interrupted read leaves signo as it was: on_signal may take SIGTERM in it.
SignalGarbage ==
    /\ main = "join_signal"
    /\ main' = "exited"
    /\ UNCHANGED <<connVars, listenerVars, build, gmc_stop, kbps, crashed>>

\* The sleep "for system st-threads to cleanup" ends, and main() returns.
DrainEnd ==
    /\ main = "drain"
    /\ main' = "exited"
    /\ UNCHANGED <<connVars, listenerVars, build, gmc_stop, kbps, crashed>>

ListenerNext ==
    AcceptDrop \/ AcceptError \/ ListenerInterrupted \/ StartReturn \/ ListenerWake

ReloadNext == BeginReload \/ ReloadListen \/ ReloadFails \/ ReloadStarted

MainNext ==
    StopSignal \/ TermSignal \/ ReloadNext \/ BeginDestroy \/ ListenerJoined
    \/ SignalJoined \/ SignalGarbage \/ DrainEnd

Next ==
    \/ ClientConnect \/ ListenerNext \/ MainNext
    \/ \E c \in Conns :
          \/ AcceptStart(c) \/ AcceptUnstarted(c)
          \/ ConnBegin(c) \/ ConnRun(c) \/ ConnRemove(c) \/ ConnRemoveCrash(c)

Spec == Init /\ [][Next]_vars

\* Runnable threads run and timers fire (State Threads is round robin); do_cycle
\* ends, its reads and writes having a time limit; and st_accept does not fail
\* for ever, hence SF.  Clients and signals need not come.
Fairness ==
    /\ SF_vars(Accept)
    /\ WF_vars(ListenerInterrupted) /\ WF_vars(StartReturn) /\ WF_vars(ListenerWake)
    /\ \A c \in Conns :
          /\ WF_vars(ConnBegin(c)) /\ WF_vars(ConnRun(c))
          /\ WF_vars(ConnRemove(c) \/ ConnRemoveCrash(c))
    /\ WF_vars(ReloadListen \/ ReloadFails) /\ WF_vars(ReloadStarted)
    /\ WF_vars(BeginDestroy) /\ WF_vars(ListenerJoined)
    /\ WF_vars(SignalJoined \/ SignalGarbage) /\ WF_vars(DrainEnd)

FairSpec == Spec /\ Fairness

-----------------------------------------------------------------------------
\* Every variable keeps its type.
TypeOK ==
    /\ conns \subseteq Conns
    /\ conn \in [Conns -> ConnState]
    /\ can_run \in [Conns -> BOOLEAN]
    /\ listener \in ListenerState
    /\ lloop \in BOOLEAN /\ lintr \in BOOLEAN
    /\ starting \in Conns \cup {None}
    /\ backlog \in 0..Backlog
    /\ main \in MainState
    /\ stacks \in StackLimits /\ gmc \in BOOLEAN
    /\ gmc_stop \in BOOLEAN /\ kbps \in BOOLEAN /\ crashed \in BOOLEAN

\* conns lists exactly the connections that exist, as long as the process runs:
\* none is freed and still listed, none is forgotten.
ManagerExact ==
    ~crashed => \A c \in Conns : c \in conns <=> conn[c] # "none"

\* The connection whose start() the listener is inside has not been served, let
\* alone freed: the fields start() polls exist.
StartNotDangling ==
    listener = "starting" =>
        starting \in conns /\ conn[starting] \in {"ready", "wait_run"}

\* The bound that accept_client checks holds of the managed connections.
ConnBound == Cardinality(conns) <= MaxConnections

\* Every managed connection has a thread that will remove it: what the comment
\* "directly enqueue, the cycle thread will remove the client" says.
ManagedHasThread == \A c \in conns : conn[c] \in Threaded

\* The same if State Threads can map a stack for every connection and for the
\* server's own threads: a reloaded listener does not take one of theirs.
EnoughStacks == SystemThreads + MaxConnections <= stacks
StacksSuffice == EnoughStacks => ManagedHasThread

\* No connection is removed after the statistics are freed: what destroy() and
\* cycle() rely on when they leave the connections alive and sleep "a long time
\* for system st-threads to cleanup".
NoCrash == ~crashed

\* Once the main thread has closed the listening socket, to end or to reload, no
\* connection is admitted, not even by a listener that was inside conn->start()
\* when it was interrupted.
NoAdmitAfterClose ==
    [][main # "run" => conns' \subseteq conns]_vars

\* A full queue of waiting clients is not left full by a listener that has its thread:
\* it always comes back from start() and from an error to accept, a reloaded one too.
\* A reload whose listen() fails after ::listen() breaks the promise, until the next
\* reload: its socket stays open with no thread to accept from it.
QueueDrains == backlog = Backlog ~> (backlog < Backlog \/ ~Up \/ listener = "deaf")

\* The teardown of a gmc build ends the process, even when it is asked for while
\* the listener is being reloaded: no join waits for ever.
DestroyEnds == gmc_stop ~> ~Up

Pool == INSTANCE ConnPool WITH
    pool <- conns,
    abandoned <- {c \in Conns : conn[c] = "unstarted"},
    phase <- IF main = "exited" THEN "halted"
             ELSE IF main \in {"run", "reload_join", "reload_start"} THEN "open"
             ELSE "closed"

\* The manager is a ConnPool: bounded, closed for good, and every connection that
\* has been given its thread leaves it.
ImplementsPool == Pool!FairSpec
=============================================================================
