--------------------------- MODULE SrsServerProofs -------------------------
(***************************************************************************)
(* For any number of connections, stacks and waiting clients: the books of *)
(* the connection manager are exact, start() never works on a connection   *)
(* that is served or freed, max_connections is not exceeded, and every     *)
(* step of SrsServer is a step of ConnPool or leaves the pool alone.       *)
(***************************************************************************)
EXTENDS SrsServer, FiniteSetTheorems, TLAPS

\* The queue of clients is empty while the main thread has closed the listening
\* socket, as long as the process runs; a reloaded listener does not accept before
\* the main thread goes on; and a crash ends the process.
Teardown ==
    /\ main \in {"reload_join", "join_listener", "join_signal", "drain"} => backlog = 0
    /\ main = "reload_start" => listener = "new"
    /\ crashed => main = "exited"

\* The connection that the listener starts exists and waits for the listener.
StartHolds ==
    listener = "starting" =>
        /\ starting \in Conns /\ starting \in conns
        /\ conn[starting] \in {"ready", "wait_run"}
        /\ ~can_run[starting]

Bounded == IsFiniteSet(conns) /\ Cardinality(conns) <= MaxConnections

\* What every step of the manager preserves.  ManagerExact needs Teardown (nothing
\* moves after a crash); StartNotDangling needs can_run of StartHolds; the step to
\* ConnPool needs ManagerExact, to know an admitted connection new, and Teardown,
\* to know nobody is admitted after the close.
IInv == TypeOK /\ Teardown /\ ManagerExact /\ StartHolds /\ Bounded

-----------------------------------------------------------------------------
LEMMA InitInv == Init => IInv
<1> SUFFICES ASSUME Init PROVE IInv
  OBVIOUS
<1>1. TypeOK
  <2>1. gmc \in BOOLEAN /\ stacks \in StackLimits /\ conns \subseteq Conns /\ starting = None
    BY DEF Init
  <2>3. lloop \in BOOLEAN /\ lintr \in BOOLEAN /\ gmc_stop \in BOOLEAN
        /\ kbps \in BOOLEAN /\ crashed \in BOOLEAN
    BY DEF Init
  <2>4. backlog \in 0..Backlog /\ listener \in ListenerState /\ main \in MainState
    BY ServerAssumption DEF Init, ListenerState, MainState
  <2>2. conn \in [Conns -> ConnState] /\ can_run \in [Conns -> BOOLEAN]
    BY DEF Init, ConnState
  <2> QED
    BY <2>1, <2>2, <2>3, <2>4 DEF TypeOK
<1>2. Teardown /\ ManagerExact /\ StartHolds
  BY DEF Init, Teardown, ManagerExact, StartHolds
<1>3. Bounded
  BY FS_EmptySet, ServerAssumption DEF Init, Bounded
<1> QED
  BY <1>1, <1>2, <1>3 DEF IInv

\* Every step keeps the type invariant.
LEMMA NextType == TypeOK /\ [Next]_vars => TypeOK'
<1> SUFFICES ASSUME TypeOK, [Next]_vars PROVE TypeOK'
  OBVIOUS
<1> USE ServerAssumption DEF TypeOK, ConnState, ListenerState, MainState, ClientReady,
        ListenerCycleDone, connVars, listenerVars, mainVars, build
<1>1. CASE ClientConnect
  BY <1>1 DEF ClientConnect
<1>2. CASE AcceptDrop
  BY <1>2 DEF AcceptDrop
<1>3. ASSUME NEW c \in Conns, AcceptStart(c) PROVE TypeOK'
  BY <1>3 DEF AcceptStart
<1>4. ASSUME NEW c \in Conns, AcceptUnstarted(c) PROVE TypeOK'
  BY <1>4 DEF AcceptUnstarted
<1>5. CASE AcceptError
  BY <1>5 DEF AcceptError
<1>6. CASE ListenerInterrupted
  BY <1>6 DEF ListenerInterrupted
<1>7. CASE StartReturn
  BY <1>7 DEF StartReturn
<1>8. CASE ListenerWake
  BY <1>8 DEF ListenerWake
<1>9. ASSUME NEW c \in Conns, ConnBegin(c) \/ ConnRun(c) \/ ConnRemove(c)
      PROVE  TypeOK'
  BY <1>9 DEF ConnBegin, ConnRun, ConnRemove
<1>10. ASSUME NEW c \in Conns, ConnRemoveCrash(c) PROVE TypeOK'
  BY <1>10 DEF ConnRemoveCrash
<1>11. CASE StopSignal
  <2>1. main' \in MainState /\ gmc_stop' \in BOOLEAN
    BY <1>11 DEF StopSignal
  <2> QED
    BY <1>11, <2>1 DEF StopSignal
<1>12. CASE TermSignal \/ ListenerJoined
  BY <1>12 DEF TermSignal, ListenerJoined
<1>13. CASE BeginDestroy
  <2>1. backlog' \in 0..Backlog /\ main' \in MainState
    BY <1>13 DEF BeginDestroy
  <2>2. lloop' \in BOOLEAN /\ lintr' \in BOOLEAN
    BY <1>13 DEF BeginDestroy
  <2> QED
    BY <1>13, <2>1, <2>2 DEF BeginDestroy
<1>14. CASE SignalJoined \/ SignalGarbage \/ DrainEnd
  BY <1>14 DEF SignalJoined, SignalGarbage, DrainEnd
<1>15. CASE BeginReload
  <2>1. backlog' \in 0..Backlog /\ main' \in MainState
    BY <1>15 DEF BeginReload
  <2>2. lloop' \in BOOLEAN /\ lintr' \in BOOLEAN
    BY <1>15 DEF BeginReload
  <2> QED
    BY <1>15, <2>1, <2>2 DEF BeginReload
<1>16. CASE ReloadListen \/ ReloadFails
  <2>1. listener' \in ListenerState /\ main' \in MainState
    BY <1>16 DEF ReloadListen, ReloadFails
  <2>2. lloop' \in BOOLEAN /\ lintr' \in BOOLEAN
    BY <1>16 DEF ReloadListen, ReloadFails
  <2> QED
    BY <1>16, <2>1, <2>2 DEF ReloadListen, ReloadFails
<1>17. CASE ReloadStarted
  BY <1>17 DEF ReloadStarted
<1>18. CASE UNCHANGED vars
  BY <1>18 DEF vars
<1> HIDE DEF TypeOK
<1> QED
  BY <1>1, <1>2, <1>3, <1>4, <1>5, <1>6, <1>7, <1>8, <1>9, <1>10, <1>11, <1>12, <1>13, <1>14,
     <1>15, <1>16, <1>17, <1>18
  DEF Next, ListenerNext, MainNext, ReloadNext

-----------------------------------------------------------------------------
\* The queue stays empty after the close, and nothing follows a crash.
LEMMA NextTeardown == IInv /\ [Next]_vars => Teardown'
<1> SUFFICES ASSUME IInv, [Next]_vars PROVE Teardown'
  OBVIOUS
<1> USE DEF IInv, Teardown, ClientReady, Up
<1>1. CASE ClientConnect
  BY <1>1 DEF ClientConnect, Listening, mainVars
<1>2. CASE AcceptDrop \/ AcceptError
  BY <1>2 DEF AcceptDrop, AcceptError, mainVars, TypeOK, MainState
<1>3. ASSUME NEW c \in Conns, AcceptStart(c) \/ AcceptUnstarted(c)
      PROVE  Teardown'
  BY <1>3 DEF AcceptStart, AcceptUnstarted, mainVars, TypeOK, MainState
<1>4. CASE ListenerInterrupted \/ StartReturn \/ ListenerWake
  BY <1>4 DEF ListenerInterrupted, StartReturn, ListenerWake, mainVars
<1>5. ASSUME NEW c \in Conns, ConnBegin(c) \/ ConnRun(c) \/ ConnRemove(c)
      PROVE  Teardown'
  BY <1>5 DEF ConnBegin, ConnRun, ConnRemove, listenerVars, mainVars
<1>6. ASSUME NEW c \in Conns, ConnRemoveCrash(c) PROVE Teardown'
  BY <1>6 DEF ConnRemoveCrash
<1>7. CASE StopSignal
  <2>1. CASE gmc
    BY <1>7, <2>1 DEF StopSignal, listenerVars
  <2>2. CASE ~gmc
    BY <1>7, <2>2 DEF StopSignal
  <2> QED
    BY <2>1, <2>2
<1>8. CASE TermSignal \/ ListenerJoined
  BY <1>8 DEF TermSignal, ListenerJoined, listenerVars
<1>9. CASE BeginDestroy
  BY <1>9 DEF BeginDestroy
<1>10. CASE SignalJoined \/ SignalGarbage \/ DrainEnd
  BY <1>10 DEF SignalJoined, SignalGarbage, DrainEnd, listenerVars
<1>11. CASE ReloadNext
  BY <1>11 DEF ReloadNext, BeginReload, ReloadListen, ReloadFails, ReloadStarted
<1>12. CASE UNCHANGED vars
  BY <1>12 DEF vars, listenerVars, mainVars
<1> HIDE DEF IInv, Teardown
<1> QED
  BY <1>1, <1>2, <1>3, <1>4, <1>5, <1>6, <1>7, <1>8, <1>9, <1>10, <1>11, <1>12
  DEF Next, ListenerNext, MainNext

\* The steps that touch no connection and enter no start().
Elsewhere ==
    \/ ClientConnect \/ AcceptDrop \/ AcceptError \/ ListenerInterrupted \/ ListenerWake
    \/ MainNext \/ UNCHANGED vars

LEMMA ElsewhereKeeps ==
  ASSUME Elsewhere
  PROVE  /\ UNCHANGED <<conns, conn, can_run, crashed>>
         /\ listener' = "starting" => listener = "starting"
         /\ UNCHANGED <<starting, stacks>>
<1> USE DEF connVars, listenerVars, mainVars, build
<1>1. CASE ClientConnect
  BY <1>1 DEF ClientConnect
<1>2. CASE AcceptDrop \/ AcceptError \/ ListenerInterrupted
  BY <1>2 DEF AcceptDrop, AcceptError, ListenerInterrupted, ListenerCycleDone
<1>3. CASE ListenerWake
  BY <1>3 DEF ListenerWake
<1>4. CASE MainNext
  <2>1. CASE ReloadNext
    BY <2>1 DEF ReloadNext, BeginReload, ReloadListen, ReloadFails, ReloadStarted
  <2>2. CASE StopSignal \/ TermSignal \/ BeginDestroy \/ ListenerJoined
    BY <2>2 DEF StopSignal, TermSignal, BeginDestroy, ListenerJoined
  <2>3. CASE SignalJoined \/ SignalGarbage \/ DrainEnd
    BY <2>3 DEF SignalJoined, SignalGarbage, DrainEnd
  <2> QED
    BY <1>4, <2>1, <2>2, <2>3 DEF MainNext
<1>5. CASE UNCHANGED vars
  BY <1>5 DEF vars
<1> QED
  BY <1>1, <1>2, <1>3, <1>4, <1>5 DEF Elsewhere

\* The steps that do.
LEMMA NextCases ==
  ASSUME [Next]_vars
  PROVE  \/ Elsewhere \/ StartReturn
         \/ \E c \in Conns :
               \/ AcceptStart(c) \/ AcceptUnstarted(c) \/ ConnBegin(c) \/ ConnRun(c)
               \/ ConnRemove(c) \/ ConnRemoveCrash(c)
  BY DEF Next, ListenerNext, Elsewhere

\* conns goes on listing exactly the connections that exist.
LEMMA NextManager == IInv /\ [Next]_vars => ManagerExact'
<1> SUFFICES ASSUME IInv, [Next]_vars PROVE ManagerExact'
  OBVIOUS
<1> USE DEF IInv, ManagerExact
<1>1. CASE Elsewhere
  BY <1>1, ElsewhereKeeps
<1>2. CASE StartReturn
  BY <1>2 DEF StartReturn, mainVars
<1>3. ASSUME NEW c \in Conns, AcceptStart(c) \/ AcceptUnstarted(c)
      PROVE  ManagerExact'
  BY <1>3 DEF AcceptStart, AcceptUnstarted, mainVars, TypeOK
<1>4. ASSUME NEW c \in Conns, ConnBegin(c) \/ ConnRun(c)
      PROVE  ManagerExact'
  BY <1>4 DEF ConnBegin, ConnRun, mainVars, TypeOK
<1>5. ASSUME NEW c \in Conns, ConnRemove(c) PROVE ManagerExact'
  BY <1>5 DEF ConnRemove, mainVars, TypeOK
<1>6. ASSUME NEW c \in Conns, ConnRemoveCrash(c) PROVE ManagerExact'
  BY <1>6 DEF ConnRemoveCrash
<1> HIDE DEF IInv, ManagerExact
<1> QED
  BY <1>1, <1>2, <1>3, <1>4, <1>5, <1>6, NextCases

\* The connection inside start() goes on waiting for the listener.
LEMMA NextStart == IInv /\ [Next]_vars => StartHolds'
<1> SUFFICES ASSUME IInv, [Next]_vars PROVE StartHolds'
  OBVIOUS
<1> USE DEF IInv, StartHolds
<1>1. CASE Elsewhere
  BY <1>1, ElsewhereKeeps
<1>2. CASE StartReturn
  BY <1>2 DEF StartReturn, ListenerCycleDone
<1>3. ASSUME NEW c \in Conns, AcceptStart(c) PROVE StartHolds'
  BY <1>3 DEF AcceptStart, TypeOK
<1>4. ASSUME NEW c \in Conns, AcceptUnstarted(c) PROVE StartHolds'
  BY <1>4 DEF AcceptUnstarted, ListenerCycleDone
<1>5. ASSUME NEW c \in Conns, ConnBegin(c) PROVE StartHolds'
  BY <1>5 DEF ConnBegin, listenerVars, TypeOK
<1>6. ASSUME NEW c \in Conns, ConnRun(c) PROVE StartHolds'
  BY <1>6 DEF ConnRun, listenerVars, TypeOK
<1>7. ASSUME NEW c \in Conns, ConnRemove(c) \/ ConnRemoveCrash(c)
      PROVE  StartHolds'
  BY <1>7 DEF ConnRemove, ConnRemoveCrash, listenerVars, TypeOK
<1> HIDE DEF IInv, StartHolds
<1> QED
  BY <1>1, <1>2, <1>3, <1>4, <1>5, <1>6, <1>7, NextCases

\* A connection more or less: the bound that accept_client checks is enough.
LEMMA NextBounded == IInv /\ [Next]_vars => Bounded'
<1> SUFFICES ASSUME IInv, [Next]_vars PROVE Bounded'
  OBVIOUS
<1>0. IsFiniteSet(conns) /\ Cardinality(conns) <= MaxConnections
  BY DEF IInv, Bounded
<1>1. CASE Elsewhere
  BY <1>0, <1>1, ElsewhereKeeps DEF Bounded
<1>2. CASE StartReturn
  BY <1>0, <1>2 DEF StartReturn, Bounded
<1>3. ASSUME NEW c \in Conns, AcceptStart(c) \/ AcceptUnstarted(c)
      PROVE  Bounded'
  <2>1. conns' = conns \cup {c} /\ Cardinality(conns) < MaxConnections
    BY <1>3 DEF AcceptStart, AcceptUnstarted
  <2>2. /\ IsFiniteSet(conns \cup {c}) /\ Cardinality(conns) \in Nat
        /\ Cardinality(conns \cup {c}) \in {Cardinality(conns), Cardinality(conns) + 1}
    BY <1>0, FS_AddElement, FS_CardinalityType
  <2> QED
    BY <2>1, <2>2, ServerAssumption DEF Bounded
<1>4. ASSUME NEW c \in Conns, ConnBegin(c) \/ ConnRun(c)
      PROVE  Bounded'
  BY <1>0, <1>4 DEF ConnBegin, ConnRun, Bounded
<1>5. ASSUME NEW c \in Conns, ConnRemove(c) \/ ConnRemoveCrash(c)
      PROVE  Bounded'
  <2>1. conns' = conns \ {c}
    BY <1>5 DEF ConnRemove, ConnRemoveCrash
  <2>2. conns \ {c} \subseteq conns
    OBVIOUS
  <2>3. /\ IsFiniteSet(conns \ {c})
        /\ Cardinality(conns \ {c}) <= Cardinality(conns)
        /\ Cardinality(conns) \in Nat /\ Cardinality(conns \ {c}) \in Nat
    BY <1>0, <2>2, FS_Subset, FS_CardinalityType
  <2> QED
    BY <1>0, <2>1, <2>3, ServerAssumption DEF Bounded
<1> QED
  BY <1>1, <1>2, <1>3, <1>4, <1>5, NextCases

LEMMA Inductive == IInv /\ [Next]_vars => IInv'
  BY NextType, NextTeardown, NextManager, NextStart, NextBounded DEF IInv

\* The strengthened invariant holds throughout.
LEMMA InvAlways == Spec => []IInv
  BY InitInv, Inductive, PTL DEF Spec

\* The type invariant, for any number of connections and stacks.
THEOREM TypeCorrect == Spec => []TypeOK
  BY InvAlways, PTL DEF IInv

\* conns lists exactly the connections that exist (accept_client, remove).
THEOREM ManagerExactAlways == Spec => []ManagerExact
  BY InvAlways, PTL DEF IInv

\* start() polls a connection that exists and is not yet served.
THEOREM StartNotDanglingAlways == Spec => []StartNotDangling
<1>1. IInv => StartNotDangling
  BY DEF IInv, StartHolds, StartNotDangling
<1> QED
  BY <1>1, InvAlways, PTL

\* max_connections bounds the connections the server manages, those without a
\* thread included.
THEOREM ConnBoundAlways == Spec => [](Cardinality(conns) <= MaxConnections)
<1>1. IInv => Cardinality(conns) <= MaxConnections
  BY DEF IInv, Bounded
<1> QED
  BY <1>1, InvAlways, PTL

-----------------------------------------------------------------------------
\* With enough stacks the creation of a thread does not fail below the limit.
LEMMA NeverUnstarted ==
  ASSUME EnoughStacks, IInv, NEW c \in Conns
  PROVE  ~AcceptUnstarted(c)
<1> SUFFICES ASSUME AcceptUnstarted(c) PROVE FALSE
  OBVIOUS
<1> DEFINE T == {d \in Conns : conn[d] \in Threaded}
<1>1. main # "exited" /\ ~crashed
  BY DEF AcceptUnstarted, ClientReady, Up, IInv, Teardown
<1>2. T \subseteq conns
  BY <1>1 DEF IInv, ManagerExact, Threaded
<1>3. IsFiniteSet(conns)
  BY DEF IInv, Bounded
<1>4. Cardinality(T) <= Cardinality(conns) /\ Cardinality(T) \in Nat
  BY <1>2, <1>3, FS_Subset, FS_CardinalityType
<1>5. Cardinality(conns) \in Nat
  BY <1>3, FS_CardinalityType
<1>6. Cardinality(conns) < MaxConnections /\ SystemThreads + Cardinality(T) >= stacks
  BY DEF AcceptUnstarted, Threads
<1>7. stacks \in Nat
  BY ServerAssumption DEF IInv, TypeOK
<1> HIDE DEF T
<1> QED
  BY <1>4, <1>5, <1>6, <1>7, ServerAssumption DEF EnoughStacks, SystemThreads

\* With a stack for every connection, each managed connection has the thread that
\* will remove it: then the comment of accept_client is right to "directly enqueue".
THEOREM StacksSufficeAlways == Spec => []StacksSuffice
<1>1. Init => StacksSuffice
  BY DEF Init, StacksSuffice, ManagedHasThread
<1>2. IInv /\ StacksSuffice /\ [Next]_vars => StacksSuffice'
  <2> SUFFICES ASSUME IInv, StacksSuffice, [Next]_vars, EnoughStacks'
               PROVE  ManagedHasThread'
    BY DEF StacksSuffice
  <2>1. stacks' = stacks
    <3>1. CASE Elsewhere
      BY <3>1, ElsewhereKeeps
    <3>2. CASE StartReturn
      BY <3>2 DEF StartReturn, mainVars, build
    <3>3. ASSUME NEW c \in Conns, AcceptStart(c) \/ AcceptUnstarted(c) PROVE stacks' = stacks
      BY <3>3 DEF AcceptStart, AcceptUnstarted, mainVars, build
    <3>4. ASSUME NEW c \in Conns,
                 ConnBegin(c) \/ ConnRun(c) \/ ConnRemove(c) \/ ConnRemoveCrash(c)
          PROVE  stacks' = stacks
      BY <3>4 DEF ConnBegin, ConnRun, ConnRemove, ConnRemoveCrash, mainVars, build
    <3> QED
      BY <3>1, <3>2, <3>3, <3>4, NextCases
  <2>2. EnoughStacks /\ ManagedHasThread
    BY <2>1 DEF EnoughStacks, StacksSuffice
  <2> USE DEF ManagedHasThread, Threaded
  <2>3. CASE Elsewhere
    BY <2>2, <2>3, ElsewhereKeeps
  <2>4. CASE StartReturn
    BY <2>2, <2>4 DEF StartReturn
  <2>5. ASSUME NEW c \in Conns, AcceptStart(c) PROVE ManagedHasThread'
    BY <2>2, <2>5 DEF AcceptStart, IInv, TypeOK
  <2>6. ASSUME NEW c \in Conns, ConnBegin(c) \/ ConnRun(c)
        PROVE  ManagedHasThread'
    BY <2>2, <2>6 DEF ConnBegin, ConnRun, IInv, TypeOK
  <2>7. ASSUME NEW c \in Conns, ConnRemove(c) \/ ConnRemoveCrash(c)
        PROVE  ManagedHasThread'
    BY <2>2, <2>7 DEF ConnRemove, ConnRemoveCrash, IInv, TypeOK
  <2> HIDE DEF ManagedHasThread
  <2> QED
    BY <2>2, <2>3, <2>4, <2>5, <2>6, <2>7, NextCases, NeverUnstarted
<1> QED
  BY <1>1, <1>2, InvAlways, PTL DEF Spec

\* Closing the listening socket is final for the listener that had it: whatever it
\* was doing when it was interrupted, accept_client adds no connection for it, and
\* none before a reload has ended.
THEOREM NoAdmitAfterCloseAlways == Spec => NoAdmitAfterClose
<1>1. IInv /\ [Next]_vars => [main # "run" => conns' \subseteq conns]_vars
  <2> SUFFICES ASSUME IInv, [Next]_vars, main # "run" PROVE conns' \subseteq conns
    OBVIOUS
  <2>1. CASE Elsewhere
    BY <2>1, ElsewhereKeeps
  <2>2. CASE StartReturn
    BY <2>2 DEF StartReturn
  <2>3. ASSUME NEW c \in Conns, AcceptStart(c) \/ AcceptUnstarted(c) PROVE FALSE
    <3>1. backlog > 0 /\ main # "exited" /\ listener = "accept"
      BY <2>3 DEF AcceptStart, AcceptUnstarted, ClientReady, Up
    <3> QED
      BY <3>1 DEF IInv, Teardown, TypeOK, MainState
  <2>4. ASSUME NEW c \in Conns,
               ConnBegin(c) \/ ConnRun(c) \/ ConnRemove(c) \/ ConnRemoveCrash(c)
        PROVE  conns' \subseteq conns
    BY <2>4 DEF ConnBegin, ConnRun, ConnRemove, ConnRemoveCrash
  <2> QED
    BY <2>1, <2>2, <2>3, <2>4, NextCases
<1> QED
  BY <1>1, InvAlways, PTL DEF Spec, NoAdmitAfterClose

-----------------------------------------------------------------------------
\* The safety under the liveness of the server: nobody waits for what cannot come.
\* A listener that the main thread joins is told to leave its loop, and its interrupt
\* is pending if it blocks in accept.
JoinAnswered ==
    main \in {"reload_join", "join_listener"} =>
        /\ ~lloop /\ listener # "new"
        /\ listener = "accept" => lintr

\* While the main thread cycles, the listener, if it has a thread, is in its loop and
\* no interrupt of an earlier close is left to make it drop a client.
ListenerServes ==
    /\ main = "run" =>
          /\ ~lintr
          /\ listener \notin {"none", "deaf"} => lloop /\ listener \notin {"new", "dead"}
    /\ main = "reload_start" => lloop /\ ~lintr

\* A connection that polls can_run has it, or the listener is inside its start().
ConnAwaited ==
    \A c \in Conns : conn[c] \in {"ready", "wait_run"} =>
        can_run[c] \/ (listener = "starting" /\ starting = c)

\* Every step of the listener and of the main thread keeps the first two.
LEMMA NextAnswered ==
  IInv /\ JoinAnswered /\ ListenerServes /\ [Next]_vars => (JoinAnswered /\ ListenerServes)'
<1> DEFINE Answered == JoinAnswered /\ ListenerServes
<1> SUFFICES ASSUME IInv, Answered, [Next]_vars PROVE Answered'
  OBVIOUS
<1>0. main \in MainState /\ (main = "reload_start" => listener = "new")
  BY DEF IInv, TypeOK, Teardown
<1> USE DEF JoinAnswered, ListenerServes, ClientReady, ListenerCycleDone, MainState
<1>1. CASE ClientConnect
  BY <1>1 DEF ClientConnect, mainVars
<1>2. CASE AcceptDrop \/ AcceptError
  BY <1>0, <1>2 DEF AcceptDrop, AcceptError, mainVars
<1>3. ASSUME NEW c \in Conns, AcceptStart(c) PROVE Answered'
  BY <1>0, <1>3 DEF AcceptStart, mainVars
<1>4. ASSUME NEW c \in Conns, AcceptUnstarted(c) PROVE Answered'
  BY <1>0, <1>4 DEF AcceptUnstarted, mainVars
<1>5. CASE ListenerInterrupted \/ StartReturn \/ ListenerWake
  BY <1>0, <1>5 DEF ListenerInterrupted, StartReturn, ListenerWake, mainVars
<1>6. ASSUME NEW c \in Conns, ConnBegin(c) \/ ConnRun(c) \/ ConnRemove(c)
      PROVE  Answered'
  BY <1>6 DEF ConnBegin, ConnRun, ConnRemove, listenerVars, mainVars
<1>7. ASSUME NEW c \in Conns, ConnRemoveCrash(c) PROVE Answered'
  BY <1>7 DEF ConnRemoveCrash
<1>8. CASE StopSignal
  BY <1>8 DEF StopSignal, listenerVars
<1>9. CASE TermSignal \/ ListenerJoined
  BY <1>9 DEF TermSignal, ListenerJoined
<1>10. CASE BeginDestroy \/ BeginReload
  BY <1>10 DEF BeginDestroy, BeginReload
<1>11. CASE SignalJoined \/ SignalGarbage \/ DrainEnd
  BY <1>11 DEF SignalJoined, SignalGarbage, DrainEnd
<1>12. CASE ReloadListen \/ ReloadFails \/ ReloadStarted
  BY <1>12 DEF ReloadListen, ReloadFails, ReloadStarted
<1>13. CASE UNCHANGED vars
  BY <1>13 DEF vars, listenerVars, mainVars
<1> HIDE DEF JoinAnswered, ListenerServes
<1> QED
  BY <1>1, <1>2, <1>3, <1>4, <1>5, <1>6, <1>7, <1>8, <1>9, <1>10, <1>11, <1>12, <1>13
  DEF Next, ListenerNext, MainNext, ReloadNext

\* The listener leaves start() only by letting the thread run, a close included.
LEMMA NextConnAwaited == IInv /\ ConnAwaited /\ [Next]_vars => ConnAwaited'
<1> SUFFICES ASSUME IInv, ConnAwaited, [Next]_vars PROVE ConnAwaited'
  OBVIOUS
<1> USE DEF IInv, TypeOK, ConnAwaited
<1>1. CASE Elsewhere
  <2>1. /\ UNCHANGED <<conn, can_run, starting>>
    BY <1>1, ElsewhereKeeps
  <2>2. listener = "starting" => listener' = "starting"
    <3> USE DEF listenerVars
    <3>1. CASE ClientConnect \/ UNCHANGED vars
      BY <3>1 DEF ClientConnect, vars
    <3>2. CASE AcceptDrop \/ AcceptError \/ ListenerInterrupted \/ ListenerWake
      BY <3>2 DEF AcceptDrop, AcceptError, ListenerInterrupted, ListenerWake, ClientReady
    <3>3. CASE ReloadNext
      BY <3>3 DEF ReloadNext, BeginReload, ReloadListen, ReloadFails, ReloadStarted, Teardown,
                  Threadless
    <3>4. CASE MainNext /\ ~ReloadNext
      BY <3>4 DEF MainNext, StopSignal, TermSignal, BeginDestroy, ListenerJoined,
                  SignalJoined, SignalGarbage, DrainEnd, Threadless
    <3> QED
      BY <1>1, <3>1, <3>2, <3>3, <3>4 DEF Elsewhere
  <2> QED
    BY <2>1, <2>2
<1>2. CASE StartReturn
  BY <1>2 DEF StartReturn, StartHolds
<1>3. ASSUME NEW c \in Conns, AcceptStart(c) PROVE ConnAwaited'
  BY <1>3 DEF AcceptStart, ClientReady
<1>4. ASSUME NEW c \in Conns, AcceptUnstarted(c) PROVE ConnAwaited'
  BY <1>4 DEF AcceptUnstarted, ClientReady
<1>5. ASSUME NEW c \in Conns, ConnBegin(c) \/ ConnRun(c) \/ ConnRemove(c)
      PROVE  ConnAwaited'
  BY <1>5 DEF ConnBegin, ConnRun, ConnRemove, listenerVars
<1>6. ASSUME NEW c \in Conns, ConnRemoveCrash(c) PROVE ConnAwaited'
  BY <1>6 DEF ConnRemoveCrash, listenerVars
<1> HIDE DEF IInv, ConnAwaited
<1> QED
  BY <1>1, <1>2, <1>3, <1>4, <1>5, <1>6, NextCases

\* No join of the listener waits on an accept that nothing interrupts, no listener is
\* left outside its loop after a reload, and no connection polls a can_run that nobody
\* will set, wherever in start(), accept or its sleep the listener was stopped.
THEOREM WaitsAnswered == Spec => [](JoinAnswered /\ ListenerServes /\ ConnAwaited)
<1>1. Init => JoinAnswered /\ ListenerServes
  BY DEF Init, JoinAnswered, ListenerServes
<1>2. Init => ConnAwaited
  BY DEF Init, ConnAwaited
<1> QED
  BY <1>1, <1>2, NextAnswered, NextConnAwaited, InvAlways, PTL DEF Spec

-----------------------------------------------------------------------------
\* Only the teardown frees the statistics, and only a build with SRS_AUTO_GPERF_MC
\* has one; without them a connection that ends crashes the process.
TeardownOnly ==
    /\ gmc_stop \/ main \in {"join_listener", "join_signal", "drain"} => gmc
    /\ ~kbps => gmc /\ main \in {"drain", "exited"}
    /\ crashed => ~kbps

LEMMA NextTeardownOnly == TeardownOnly /\ [Next]_vars => TeardownOnly'
<1> SUFFICES ASSUME TeardownOnly, [Next]_vars PROVE TeardownOnly'
  OBVIOUS
<1> USE DEF TeardownOnly, mainVars, build
<1>1. CASE ClientConnect \/ AcceptDrop \/ AcceptError
  BY <1>1 DEF ClientConnect, AcceptDrop, AcceptError
<1>2. CASE ListenerInterrupted \/ StartReturn \/ ListenerWake
  BY <1>2 DEF ListenerInterrupted, StartReturn, ListenerWake
<1>3. ASSUME NEW c \in Conns, AcceptStart(c) \/ AcceptUnstarted(c) PROVE TeardownOnly'
  BY <1>3 DEF AcceptStart, AcceptUnstarted
<1>4. ASSUME NEW c \in Conns, ConnBegin(c) \/ ConnRun(c) \/ ConnRemove(c)
      PROVE  TeardownOnly'
  BY <1>4 DEF ConnBegin, ConnRun, ConnRemove
<1>5. ASSUME NEW c \in Conns, ConnRemoveCrash(c) PROVE TeardownOnly'
  BY <1>5 DEF ConnRemoveCrash
<1>6. CASE StopSignal \/ TermSignal
  BY <1>6 DEF StopSignal, TermSignal
<1>7. CASE ReloadNext
  BY <1>7 DEF ReloadNext, BeginReload, ReloadListen, ReloadFails, ReloadStarted
<1>8. CASE BeginDestroy \/ ListenerJoined
  BY <1>8 DEF BeginDestroy, ListenerJoined
<1>9. CASE SignalJoined \/ SignalGarbage \/ DrainEnd
  BY <1>9 DEF SignalJoined, SignalGarbage, DrainEnd
<1>10. CASE UNCHANGED vars
  BY <1>10 DEF vars
<1> QED
  BY <1>1, <1>2, <1>3, <1>4, <1>5, <1>6, <1>7, <1>8, <1>9, <1>10
  DEF Next, ListenerNext, MainNext

\* The crash that the run server_teardown finds needs the teardown of a gmc build: in
\* any other, and before its drain, each connection that ends finds the statistics.
THEOREM CrashOnlyInTeardown == Spec => [](crashed => gmc /\ ~kbps)
<1>1. Init => TeardownOnly
  BY DEF Init, TeardownOnly
<1>2. TeardownOnly => (crashed => gmc /\ ~kbps)
  BY DEF TeardownOnly
<1> QED
  BY <1>1, <1>2, NextTeardownOnly, PTL DEF Spec

-----------------------------------------------------------------------------
\* A step of the server is a step of ConnPool or leaves the pool alone.
LEMMA StepRefines == IInv /\ [Next]_vars => [Pool!Next]_Pool!vars
<1> SUFFICES ASSUME IInv, [Next]_vars PROVE [Pool!Next]_Pool!vars
  OBVIOUS
<1> DEFINE Unstarted == {c \in Conns : conn[c] = "unstarted"}
<1> USE DEF Pool!Next, Pool!vars, Pool!Enter, Pool!Admit, Pool!Abandon, Pool!Release,
        Pool!Close, Pool!Halt, Up
<1>1. CASE Elsewhere
  <2> DEFINE Open == {"run", "reload_join", "reload_start"}
             Moves == \/ main' = main \/ (main \in Open /\ main' \in Open)
                      \/ main # "exited" /\ main' = "exited"
                      \/ main = "run" /\ main' = "join_listener"
                      \/ /\ main \in {"join_listener", "join_signal"}
                         /\ main' \in {"join_signal", "drain"}
  <2>1. conns' = conns /\ conn' = conn
    BY <1>1, ElsewhereKeeps
  <2>2. CASE main' = main \/ (main \in Open /\ main' \in Open)
    BY <2>1, <2>2
  <2>3. CASE main # "exited" /\ main' = "exited"
    BY <2>1, <2>3
  <2>4. CASE main = "run" /\ main' = "join_listener"
    BY <2>1, <2>4
  <2>5. CASE main \in {"join_listener", "join_signal"} /\ main' \in {"join_signal", "drain"}
    BY <2>1, <2>5
  <2>6. ASSUME UNCHANGED vars \/ ClientConnect PROVE Moves
    BY <2>6 DEF ClientConnect, mainVars, vars
  <2>7. ASSUME AcceptDrop \/ AcceptError \/ ListenerInterrupted \/ ListenerWake PROVE Moves
    BY <2>7 DEF AcceptDrop, AcceptError, ListenerInterrupted, ListenerWake, mainVars
  <2>8. ASSUME StopSignal \/ TermSignal PROVE Moves
    BY <2>8 DEF StopSignal, TermSignal, SignalsRead
  <2>9. ASSUME SignalGarbage \/ DrainEnd PROVE Moves
    BY <2>9 DEF SignalGarbage, DrainEnd
  <2>10. ASSUME ReloadNext PROVE Moves
    BY <2>10 DEF ReloadNext, BeginReload, ReloadListen, ReloadFails, ReloadStarted
  <2>11. ASSUME BeginDestroy \/ ListenerJoined \/ SignalJoined PROVE Moves
    BY <2>11 DEF BeginDestroy, ListenerJoined, SignalJoined
  <2>12. Moves
    BY <1>1, <2>6, <2>7, <2>8, <2>9, <2>10, <2>11 DEF Elsewhere, MainNext
  <2> QED
    BY <2>2, <2>3, <2>4, <2>5, <2>12
<1>2. CASE StartReturn
  BY <1>2 DEF StartReturn, mainVars
<1>3. ASSUME NEW c \in Conns, AcceptStart(c) \/ AcceptUnstarted(c)
      PROVE  Pool!Admit(c) \/ Pool!Abandon(c)
  <2>1. backlog > 0 /\ main # "exited" /\ listener = "accept"
    BY <1>3 DEF AcceptStart, AcceptUnstarted, ClientReady
  <2>2. main = "run"
    BY <2>1 DEF IInv, Teardown, TypeOK, MainState
  <2>3. c \notin conns
    BY <1>3, <2>2 DEF AcceptStart, AcceptUnstarted, IInv, Teardown, ManagerExact
  <2>4. /\ Cardinality(conns) < MaxConnections
        /\ conns' = conns \cup {c} /\ UNCHANGED main
    BY <1>3 DEF AcceptStart, AcceptUnstarted, mainVars
  <2>5. Pool!Cardinality(conns) = Cardinality(conns)
    BY DEF Pool!Cardinality, Cardinality
  <2>6. Pool!Enter(c)
    BY <2>2, <2>3, <2>4, <2>5
  <2>7. ASSUME AcceptStart(c) PROVE Unstarted' = Unstarted
    BY <2>7 DEF AcceptStart, IInv, TypeOK
  <2>8. ASSUME AcceptUnstarted(c) PROVE Unstarted' = Unstarted \cup {c}
    BY <2>8 DEF AcceptUnstarted, IInv, TypeOK
  <2> QED
    BY <1>3, <2>6, <2>7, <2>8
<1>4. ASSUME NEW c \in Conns, ConnBegin(c) \/ ConnRun(c)
      PROVE  UNCHANGED Pool!vars
  <2>1. Unstarted' = Unstarted
    BY <1>4 DEF ConnBegin, ConnRun, IInv, TypeOK
  <2> QED
    BY <1>4, <2>1 DEF ConnBegin, ConnRun, mainVars
<1>5. ASSUME NEW c \in Conns, ConnRemove(c) PROVE Pool!Release(c)
  <2>1. c \in conns \ Unstarted
    BY <1>5 DEF ConnRemove, IInv, Teardown, ManagerExact
  <2>2. Unstarted' = Unstarted
    BY <1>5 DEF ConnRemove, IInv, TypeOK
  <2> QED
    BY <1>5, <2>1, <2>2 DEF ConnRemove, mainVars
<1>6. ASSUME NEW c \in Conns, ConnRemoveCrash(c) PROVE Pool!Halt
  BY <1>6 DEF ConnRemoveCrash
<1> QED
  BY <1>1, <1>2, <1>3, <1>4, <1>5, <1>6, NextCases

\* SrsServer implements the safety part of ConnPool: a bounded pool that admits
\* while it is open, and nobody after destroy() has closed the listening socket.
THEOREM RefinesPool == Spec => Pool!Spec
<1>1. Init => Pool!Init
  <2>1. Init => {c \in Conns : conn[c] = "unstarted"} = {}
    BY DEF Init
  <2> QED
    BY <2>1 DEF Init, Pool!Init
<1> QED
  BY <1>1, StepRefines, InvAlways, PTL DEF Spec, Pool!Spec
=============================================================================
