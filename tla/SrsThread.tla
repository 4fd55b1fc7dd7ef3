----------------------------- MODULE SrsThread -----------------------------
(***************************************************************************)
(* The start/run/stop protocol of SrsThread (src/base/app_thread.cpp), the *)
(* wrapper every thread of the server is created through, and of the id    *)
(* that SrsThreadContext gives to each of them.                            *)
(*                                                                         *)
(* A thread object t is used by an owner (caller[t]: inside start(), or    *)
(* inside stop()) and by the State-Threads thread it creates (pc[t]).      *)
(* State Threads are cooperative: control moves only inside st_usleep,     *)
(* st_accept, st_read, st_thread_join and at a thread's end, so one action *)
(* is the code between two such calls.  A pending st_thread_interrupt      *)
(* makes the next, or the current, blocking call return at once and is     *)
(* cleared by it (intr[t]).                                                *)
(*                                                                         *)
(* Joinable threads are the listener's and the signal manager's: they      *)
(* never leave their loop themselves and their owner stops them.  The      *)
(* others belong to connections: their handler clears the loop at the end  *)
(* of its first cycle(), and on_thread_stop() deletes the connection, the  *)
(* SrsThread object included.                                              *)
(*                                                                         *)
(* The program starts each SrsThread once.                                 *)
(***************************************************************************)
EXTENDS Integers

CONSTANTS
    Threads,        \* the SrsThread objects
    Joinable,       \* those created with joinable = true
    FirstId,        \* the first id of generate_id(): 100 in the code
    MaxInt          \* the largest int; ids wrap to the smallest one after it

ASSUME JoinableAssumption == Joinable \subseteq Threads
ASSUME IdAssumption == FirstId \in Nat /\ MaxInt \in Nat /\ FirstId <= MaxInt

VARIABLES
    alive,          \* the object is not deleted
    tid,            \* the pointer tid is not NULL
    loop,           \* the field loop
    can_run,        \* the field can_run
    cid,            \* the field _cid
    caller,         \* the owner: idle, or blocked in start() or in stop()
    pc,             \* where the thread itself is
    intr,           \* an interrupt of the thread is pending
    own,            \* SrsThreadContext::cache of the thread: the id it logs with,
                    \* 0 before its first generate_id()
    next_id,        \* the static counter of generate_id()
    unjoined        \* history: a join of the thread has failed, in stop()

object == <<alive, tid, loop, can_run, cid>>
vars == <<object, caller, pc, intr, own, next_id, unjoined>>

CallerState == {"idle", "starting", "joining"}

\* none: not created; ready: created, not run yet; wait_run: polling can_run;
\* cycle: blocked in handler->cycle(); busy: cycle() got its event and sleeps in
\* a start() of its own (the listener starting a connection); sleep: between two
\* cycles; dead: has ended, a zombie until joined when it is joinable.
ThreadState == {"none", "ready", "wait_run", "cycle", "busy", "sleep", "dead"}
Running == {"ready", "wait_run", "cycle", "busy", "sleep"}

Ids == (-(MaxInt + 1)) .. MaxInt

-----------------------------------------------------------------------------
Init ==
    /\ alive = [t \in Threads |-> TRUE]
    /\ tid = [t \in Threads |-> FALSE]
    /\ loop = [t \in Threads |-> FALSE]
    /\ can_run = [t \in Threads |-> FALSE]
    /\ cid = [t \in Threads |-> -1]
    /\ caller = [t \in Threads |-> "idle"]
    /\ pc = [t \in Threads |-> "none"]
    /\ intr = [t \in Threads |-> FALSE]
    /\ own = [t \in Threads |-> 0]
    /\ next_id = FirstId
    /\ unjoined = [t \in Threads |-> FALSE]

\* Mutant of Succ: the counter is not an int.
Succ_Unbounded(n) == n + 1

\* id++ on a 32-bit int.
Succ(n) == IF n = MaxInt THEN -(MaxInt + 1) ELSE n + 1

\* The thread ends.  For a connection, on_thread_stop() has removed and deleted
\* the object: ~SrsThread calls stop(), which clears loop, interrupts the
\* running thread, fails to join it (it is not joinable) and clears tid.
Leave(t) ==
    /\ pc' = [pc EXCEPT ![t] = "dead"]
    /\ IF t \in Joinable
       THEN UNCHANGED <<alive, tid, loop>>
       ELSE /\ alive' = [alive EXCEPT ![t] = FALSE]
            /\ tid' = [tid EXCEPT ![t] = FALSE]
            /\ loop' = [loop EXCEPT ![t] = FALSE]

\* generate_id() has been called up to the id `next' - 1, and t logs with `id'.
LogsWith(t, id, next) ==
    /\ own' = [own EXCEPT ![t] = id]
    /\ next_id' = next

\* Mutant of LoopOrLeave: the second id is looked at and not taken.
LoopOrLeave_SameId(t, id, next) ==
    IF loop[t]
    THEN /\ pc' = [pc EXCEPT ![t] = "cycle"]
         /\ IF t \in Joinable THEN LogsWith(t, id, next) ELSE LogsWith(t, next, next)
         /\ UNCHANGED <<alive, tid, loop>>
    ELSE Leave(t) /\ LogsWith(t, id, next)

\* The loop test of thread_cycle by a thread with the given id, then cycle() up to
\* its blocking call: SrsConnection::cycle() takes a second id before it serves.
LoopOrLeave(t, id, next) ==
    IF loop[t]
    THEN /\ pc' = [pc EXCEPT ![t] = "cycle"]
         /\ IF t \in Joinable THEN LogsWith(t, id, next) ELSE LogsWith(t, next, Succ(next))
         /\ UNCHANGED <<alive, tid, loop>>
    ELSE Leave(t) /\ LogsWith(t, id, next)

\* Mutant of AwaitRun: the thread does not wait for can_run.
AwaitRun_NoWait(t, id, next) == LoopOrLeave(t, id, next)

\* The wait for can_run of thread_cycle, entered or tried again.
AwaitRun(t, id, next) ==
    IF ~can_run[t] /\ loop[t]
    THEN /\ pc' = [pc EXCEPT ![t] = "wait_run"]
         /\ LogsWith(t, id, next)
         /\ UNCHANGED <<alive, tid, loop>>
    ELSE LoopOrLeave(t, id, next)

\* cycle() has returned: leave, or sleep before the next cycle.
CycleDone(t) ==
    IF loop[t]
    THEN pc' = [pc EXCEPT ![t] = "sleep"] /\ UNCHANGED <<alive, tid, loop>>
    ELSE Leave(t)

-----------------------------------------------------------------------------
\* start(): creates the thread and waits for its id.  When tid is set, or when
\* st_thread_create fails, the call changes nothing.
Start(t) ==
    /\ alive[t] /\ caller[t] = "idle"
    /\ ~tid[t] /\ pc[t] = "none"
    /\ tid' = [tid EXCEPT ![t] = TRUE]
    /\ loop' = [loop EXCEPT ![t] = TRUE]
    /\ pc' = [pc EXCEPT ![t] = "ready"]
    /\ caller' = [caller EXCEPT ![t] = "starting"]
    /\ UNCHANGED <<alive, can_run, cid, intr, own, next_id, unjoined>>

\* Mutant of StartReturn: start() does not wait for the id.
StartReturn_NoWait(t) ==
    /\ caller[t] = "starting"
    /\ can_run' = [can_run EXCEPT ![t] = TRUE]
    /\ caller' = [caller EXCEPT ![t] = "idle"]
    /\ UNCHANGED <<alive, tid, loop, cid, pc, intr, own, next_id, unjoined>>

\* A 10 ms sleep of start() ends and the wait is over: the thread may run.
StartReturn(t) ==
    /\ caller[t] = "starting"
    /\ ~(cid[t] < 0 /\ loop[t])
    /\ can_run' = [can_run EXCEPT ![t] = TRUE]
    /\ caller' = [caller EXCEPT ![t] = "idle"]
    /\ UNCHANGED <<alive, tid, loop, cid, pc, intr, own, next_id, unjoined>>

\* Mutant of Begin: the id is to be published after the wait for can_run.
Begin_WaitFirst(t) ==
    /\ pc[t] = "ready"
    /\ AwaitRun(t, next_id, Succ(next_id))
    /\ UNCHANGED <<can_run, cid, caller, intr, unjoined>>

\* The new thread runs for the first time: it takes an id and publishes it.
Begin(t) ==
    /\ pc[t] = "ready"
    /\ cid' = [cid EXCEPT ![t] = next_id]
    /\ AwaitRun(t, next_id, Succ(next_id))
    /\ UNCHANGED <<can_run, caller, intr, unjoined>>

\* A 10 ms sleep of the wait for can_run ends.
WaitRunReturn(t) ==
    /\ pc[t] = "wait_run"
    /\ AwaitRun(t, own[t], next_id)
    /\ intr' = [intr EXCEPT ![t] = FALSE]
    /\ UNCHANGED <<can_run, cid, caller, unjoined>>

\* cycle() of the listener or of the signal manager gets an event and handles it
\* without blocking.
CycleEvent(t) ==
    /\ t \in Joinable /\ pc[t] = "cycle"
    /\ CycleDone(t)
    /\ UNCHANGED <<can_run, cid, caller, intr, own, next_id, unjoined>>

\* The listener's cycle() gets a client and sleeps in conn->start().
CycleBlocks(t) ==
    /\ t \in Joinable /\ pc[t] = "cycle"
    /\ pc' = [pc EXCEPT ![t] = "busy"]
    /\ UNCHANGED <<object, caller, intr, own, next_id, unjoined>>

\* That start() is over.  Its st_usleep has swallowed an interrupt, if any.
BusyReturn(t) ==
    /\ pc[t] = "busy"
    /\ CycleDone(t)
    /\ intr' = [intr EXCEPT ![t] = FALSE]
    /\ UNCHANGED <<can_run, cid, caller, own, next_id, unjoined>>

\* An interrupt makes st_accept or st_read return -1, and cycle() return.
CycleInterrupted(t) ==
    /\ t \in Joinable /\ pc[t] = "cycle" /\ intr[t]
    /\ CycleDone(t)
    /\ intr' = [intr EXCEPT ![t] = FALSE]
    /\ UNCHANGED <<can_run, cid, caller, own, next_id, unjoined>>

\* Mutant of ConnCycle: the handler does not call stop_loop().
ConnCycle_NoStopLoop(t) ==
    /\ t \notin Joinable /\ pc[t] = "cycle"
    /\ CycleDone(t)
    /\ UNCHANGED <<can_run, cid, caller, intr, own, next_id, unjoined>>

\* do_cycle() has served the client: SrsConnection::cycle() clears the loop, and the
\* thread leaves and deletes the connection.
ConnCycle(t) ==
    /\ t \notin Joinable /\ pc[t] = "cycle"
    /\ Leave(t)
    /\ UNCHANGED <<can_run, cid, caller, intr, own, next_id, unjoined>>

\* The sleep between two cycles ends, by its timer or by an interrupt.
SleepReturn(t) ==
    /\ pc[t] = "sleep"
    /\ LoopOrLeave(t, own[t], next_id)
    /\ intr' = [intr EXCEPT ![t] = FALSE]
    /\ UNCHANGED <<can_run, cid, caller, unjoined>>

\* Mutant of Stop: the thread is interrupted, its loop is not cleared.
Stop_KeepLoop(t) ==
    /\ t \in Joinable
    /\ alive[t] /\ caller[t] = "idle" /\ tid[t]
    /\ intr' = [intr EXCEPT ![t] = TRUE]
    /\ caller' = [caller EXCEPT ![t] = "joining"]
    /\ UNCHANGED <<object, pc, own, next_id, unjoined>>

\* stop() by the owner: clears the loop, interrupts the thread, joins it.  Only
\* joinable threads are stopped by another thread.
Stop(t) ==
    /\ t \in Joinable
    /\ alive[t] /\ caller[t] = "idle" /\ tid[t]
    /\ loop' = [loop EXCEPT ![t] = FALSE]
    /\ intr' = [intr EXCEPT ![t] = TRUE]
    /\ caller' = [caller EXCEPT ![t] = "joining"]
    /\ UNCHANGED <<alive, tid, can_run, cid, pc, own, next_id, unjoined>>

\* st_thread_join returns 0: tid is forgotten; _cid and can_run keep their values.
JoinReturn(t) ==
    /\ caller[t] = "joining" /\ pc[t] = "dead"
    /\ tid' = [tid EXCEPT ![t] = FALSE]
    /\ caller' = [caller EXCEPT ![t] = "idle"]
    /\ UNCHANGED <<alive, loop, can_run, cid, pc, intr, own, next_id, unjoined>>

\* st_thread_join returns an error, whatever the thread is doing: stop() warns and
\* forgets tid all the same.
JoinFails(t) ==
    /\ caller[t] = "joining"
    /\ tid' = [tid EXCEPT ![t] = FALSE]
    /\ caller' = [caller EXCEPT ![t] = "idle"]
    /\ unjoined' = [unjoined EXCEPT ![t] = TRUE]
    /\ UNCHANGED <<alive, loop, can_run, cid, pc, intr, own, next_id>>

\* The owner deletes a joinable object it has stopped, or never started.
Delete(t) ==
    /\ t \in Joinable
    /\ alive[t] /\ caller[t] = "idle" /\ ~tid[t]
    /\ alive' = [alive EXCEPT ![t] = FALSE]
    /\ UNCHANGED <<tid, loop, can_run, cid, caller, pc, intr, own, next_id, unjoined>>

\* A thread whose join failed may still run in an object that is deleted: the loop
\* and can_run it goes on reading are whatever the freed memory holds.
Reuse(t) ==
    /\ ~alive[t] /\ pc[t] \in Running
    /\ \E b, c \in BOOLEAN :
          /\ loop' = [loop EXCEPT ![t] = b]
          /\ can_run' = [can_run EXCEPT ![t] = c]
    /\ UNCHANGED <<alive, tid, cid, caller, pc, intr, own, next_id, unjoined>>

Next ==
    \E t \in Threads :
        \/ Start(t) \/ StartReturn(t) \/ Begin(t) \/ WaitRunReturn(t)
        \/ CycleEvent(t) \/ CycleBlocks(t) \/ BusyReturn(t)
        \/ CycleInterrupted(t) \/ ConnCycle(t) \/ SleepReturn(t)
        \/ Stop(t) \/ JoinReturn(t) \/ JoinFails(t) \/ Delete(t) \/ Reuse(t)

Spec == Init /\ [][Next]_vars

\* State Threads schedules its run queue round robin and fires every timer, so a
\* runnable thread runs.  Clients and signals (CycleEvent, CycleBlocks), the owner's
\* calls (Start, Stop, Delete) and a failure of the join need never come.
Fairness ==
    \A t \in Threads :
        /\ WF_vars(StartReturn(t)) /\ WF_vars(Begin(t))
        /\ WF_vars(WaitRunReturn(t)) /\ WF_vars(BusyReturn(t))
        /\ WF_vars(CycleInterrupted(t)) /\ WF_vars(ConnCycle(t))
        /\ WF_vars(SleepReturn(t)) /\ WF_vars(JoinReturn(t))

FairSpec == Spec /\ Fairness

-----------------------------------------------------------------------------
\* Every field keeps its type; an id stays an int.
TypeOK ==
    /\ alive \in [Threads -> BOOLEAN]
    /\ tid \in [Threads -> BOOLEAN]
    /\ loop \in [Threads -> BOOLEAN]
    /\ can_run \in [Threads -> BOOLEAN]
    /\ cid \in [Threads -> Ids]
    /\ caller \in [Threads -> CallerState]
    /\ pc \in [Threads -> ThreadState]
    /\ intr \in [Threads -> BOOLEAN]
    /\ own \in [Threads -> Ids]
    /\ next_id \in Ids
    /\ unjoined \in [Threads -> BOOLEAN]

\* No code runs in a deleted object: when a connection's thread deletes the
\* SrsThread, its creator is no longer inside start() polling _cid and loop (the
\* crash app_thread.cpp:42 is about), and no thread is left inside thread_cycle.
\* The exception is the one the TODO at app_thread.cpp:99 admits: a thread whose
\* join failed is not waited for.
NoDanglingFrame ==
    \A t \in Threads :
        ~alive[t] => /\ caller[t] = "idle"
                     /\ unjoined[t] \/ pc[t] \notin Running

\* Once stop() has been called the thread takes at most two more steps: it ends, or
\* the event it already had takes it into a nested start(), and then it ends.  It
\* runs no further cycle() and sleeps no more between two (SrsThread::stop), also
\* when the join fails and stop() returns before it has ended, as long as the object
\* is not deleted.
NoCycleAfterStop ==
    [][\A t \in Threads :
          /\ caller[t] = "joining" \/ (unjoined[t] /\ alive[t])
          /\ pc'[t] # pc[t]
          => pc'[t] = "dead" \/ (pc[t] = "cycle" /\ pc'[t] = "busy")]_vars

\* When start() has returned and the thread still runs, cid() is the id that the
\* thread itself logs with: the creator may print it as the thread's, as the listener
\* does (app_listener.cpp:91).  A connection keeps the promise only until it is
\* served: cycle() then takes a second id, and _cid stays the first (app_conn.cpp:35).
CidReady ==
    \A t \in Threads :
        /\ tid[t] /\ caller[t] = "idle" /\ pc[t] \in Running
        /\ t \in Joinable \/ pc[t] = "wait_run"
        => cid[t] = own[t]

\* The thread has taken its first id.
HasId(t) == pc[t] \notin {"none", "ready"}

\* Until the counter wraps, no two threads log with one id, whether it is the first
\* of a thread or the second of a connection, and those that have ended included: the
\* id of a line names one client (SrsThreadContext::generate_id).
IdsApart ==
    FirstId <= next_id => \A t \in Threads : HasId(t) =>
        /\ FirstId <= own[t] /\ own[t] < next_id
        /\ \A u \in Threads \ {t} : HasId(u) => own[u] # own[t]

\* Every call of start() returns: the new thread gets to publish its id.
StartReturns ==
    \A t \in Threads : caller[t] = "starting" ~> caller[t] # "starting"

\* Every call of stop() returns, wherever its interrupt is taken: in accept or
\* read, in the sleep between two cycles, or swallowed in the wait for can_run
\* and in a nested start().
StopReturns ==
    \A t \in Threads : caller[t] = "joining" ~> caller[t] = "idle"

\* A connection's thread reaps itself: once started, it ends and is deleted.
ConnReaped ==
    \A t \in Threads \ Joinable : pc[t] = "ready" ~> ~alive[t]
=============================================================================
