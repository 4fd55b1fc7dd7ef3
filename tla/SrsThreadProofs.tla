-------------------------- MODULE SrsThreadProofs --------------------------
(***************************************************************************)
(* The type invariant of SrsThread and its safety invariants,              *)
(* for any number of threads and ids, wrapped ids and failing joins        *)
(* included; then the safety under the liveness of start and stop, and the *)
(* ids.                                                                    *)
(***************************************************************************)
EXTENDS SrsThread, TLAPS

\* A connection's object (a thread that is not joinable) lives one start only:
\* it is fresh, or its thread is in the loop and owns the object, or both have
\* ended.  Its creator is inside start() only before the handler's first cycle.
ConnLife(t) ==
    t \notin Joinable =>
        /\ alive[t] /\ ~tid[t] =>
              ~can_run[t] /\ cid[t] < 0 /\ caller[t] = "idle"
        /\ pc[t] \in Running => loop[t] /\ alive[t] /\ tid[t]
        /\ caller[t] = "starting" =>
              ~can_run[t] /\ pc[t] \in {"ready", "wait_run"}
        /\ caller[t] # "joining" /\ ~unjoined[t]

\* An owner inside start() or stop() holds the object.
OwnerHolds(t) ==
    caller[t] # "idle" => alive[t] /\ tid[t]

\* A deleted object has no thread, and a forgotten thread has ended, unless its join
\* has failed.
Ended(t) ==
    /\ ~alive[t] => ~tid[t]
    /\ ~tid[t] => unjoined[t] \/ pc[t] \notin Running

\* The strengthening of NoDanglingFrame that every step preserves.
IInv ==
    /\ TypeOK
    /\ \A t \in Threads : ConnLife(t) /\ OwnerHolds(t) /\ Ended(t)

-----------------------------------------------------------------------------
\* The successor of an id is an id, at the wrap as well.
LEMMA SuccType == \A n \in Ids : Succ(n) \in Ids
  BY IdAssumption DEF Ids, Succ

\* The type invariant holds initially.
LEMMA InitType == Init => TypeOK
  BY IdAssumption DEF Init, TypeOK, CallerState, ThreadState, Ids

\* The wait for can_run and the loop test keep the types of what they change.
LEMMA AwaitRunType ==
  ASSUME TypeOK, NEW t \in Threads, NEW id \in Ids, NEW n \in Ids,
         AwaitRun(t, id, n) \/ LoopOrLeave(t, id, n)
  PROVE  /\ alive' \in [Threads -> BOOLEAN] /\ tid' \in [Threads -> BOOLEAN]
         /\ loop' \in [Threads -> BOOLEAN] /\ pc' \in [Threads -> ThreadState]
         /\ own' \in [Threads -> Ids] /\ next_id' \in Ids
<1> USE DEF TypeOK, ThreadState
<1>1. CASE LoopOrLeave(t, id, n)
  <2>1. Succ(n) \in Ids
    BY SuccType
  <2>2. CASE loop[t]
    BY <1>1, <2>1, <2>2 DEF LoopOrLeave, LogsWith
  <2>3. CASE ~loop[t]
    BY <1>1, <2>3 DEF LoopOrLeave, LogsWith, Leave
  <2> QED
    BY <2>2, <2>3
<1>2. CASE AwaitRun(t, id, n)
  BY <1>1, <1>2 DEF AwaitRun, LogsWith
<1> QED
  BY <1>1, <1>2

\* Every step keeps the type invariant.
LEMMA NextType == TypeOK /\ [Next]_vars => TypeOK'
<1> SUFFICES ASSUME TypeOK, [Next]_vars
             PROVE  TypeOK'
  OBVIOUS
<1> USE DEF TypeOK, CallerState, ThreadState
<1>1. ASSUME NEW t \in Threads, Start(t)
      PROVE  TypeOK'
  BY <1>1 DEF Start
<1>2. ASSUME NEW t \in Threads, StartReturn(t)
      PROVE  TypeOK'
  BY <1>2 DEF StartReturn
<1>3. ASSUME NEW t \in Threads, Begin(t)
      PROVE  TypeOK'
  BY <1>3, SuccType, AwaitRunType DEF Begin
<1>4. ASSUME NEW t \in Threads, WaitRunReturn(t)
      PROVE  TypeOK'
  BY <1>4, AwaitRunType DEF WaitRunReturn
<1>5. ASSUME NEW t \in Threads, CycleEvent(t) \/ CycleInterrupted(t) \/ BusyReturn(t)
      PROVE  TypeOK'
  BY <1>5 DEF CycleEvent, CycleInterrupted, BusyReturn, CycleDone, Leave
<1>6. ASSUME NEW t \in Threads, CycleBlocks(t)
      PROVE  TypeOK'
  BY <1>6 DEF CycleBlocks, object
<1>7. ASSUME NEW t \in Threads, ConnCycle(t)
      PROVE  TypeOK'
  BY <1>7, SuccType DEF ConnCycle, Leave
<1>8. ASSUME NEW t \in Threads, SleepReturn(t)
      PROVE  TypeOK'
  BY <1>8, AwaitRunType DEF SleepReturn
<1>9. ASSUME NEW t \in Threads, Stop(t) \/ JoinReturn(t) \/ JoinFails(t) \/ Delete(t) \/ Reuse(t)
      PROVE  TypeOK'
  BY <1>9 DEF Stop, JoinReturn, JoinFails, Delete, Reuse
<1>10. CASE UNCHANGED vars
  BY <1>10 DEF vars, object
<1> QED
  BY <1>1, <1>2, <1>3, <1>4, <1>5, <1>6, <1>7, <1>8, <1>9, <1>10 DEF Next

\* Every field keeps its type, and an id stays an int, for every number of threads.
THEOREM TypeCorrect == Spec => []TypeOK
  BY InitType, NextType, PTL DEF Spec

-----------------------------------------------------------------------------
\* A thread other than t is untouched when t's own step leaves the loop.
LEMMA LeaveOthers ==
  ASSUME TypeOK, NEW t \in Threads, NEW u \in Threads, u # t, Leave(t)
  PROVE  pc'[u] = pc[u] /\ alive'[u] = alive[u] /\ tid'[u] = tid[u] /\ loop'[u] = loop[u]
  BY DEF Leave, TypeOK

\* Leaving the loop keeps the three parts, when no creator of a connection is
\* inside start() and the owner's state and can_run stay as they are.
LEMMA LeaveKeeps ==
  ASSUME IInv, NEW t \in Threads, Leave(t), UNCHANGED <<caller, can_run, unjoined>>,
         \A u \in Threads : u # t => cid'[u] = cid[u],
         t \notin Joinable => caller[t] = "idle"
  PROVE  \A u \in Threads : (ConnLife(u) /\ OwnerHolds(u) /\ Ended(u))'
<1> TAKE u \in Threads
<1>1. CASE u = t
  <2>1. CASE t \in Joinable
    BY <1>1, <2>1 DEF IInv, TypeOK, Leave, ConnLife, OwnerHolds, Ended, Running
  <2>2. CASE t \notin Joinable
    BY <1>1, <2>2 DEF IInv, TypeOK, Leave, ConnLife, OwnerHolds, Ended, Running
  <2> QED
    BY <2>1, <2>2
<1>2. CASE u # t
  <2>1. ConnLife(u) /\ OwnerHolds(u) /\ Ended(u)
    BY DEF IInv
  <2> QED
    BY <1>2, <2>1, LeaveOthers DEF IInv, ConnLife, OwnerHolds, Ended
<1> QED
  BY <1>1, <1>2

\* Moving to a place inside the loop keeps them as well.
LEMMA MoveKeeps ==
  ASSUME IInv, NEW t \in Threads, NEW p \in Running,
         pc[t] \in Running, pc' = [pc EXCEPT ![t] = p],
         UNCHANGED <<alive, tid, loop, caller, can_run, unjoined>>,
         \A u \in Threads : u # t => cid'[u] = cid[u],
         caller[t] = "starting" /\ t \notin Joinable => p = "wait_run"
  PROVE  \A u \in Threads : (ConnLife(u) /\ OwnerHolds(u) /\ Ended(u))'
<1> TAKE u \in Threads
<1>0. ConnLife(u) /\ OwnerHolds(u) /\ Ended(u)
  BY DEF IInv
<1>1. CASE u = t
  BY <1>0, <1>1 DEF IInv, TypeOK, ConnLife, OwnerHolds, Ended
<1>2. CASE u # t
  BY <1>0, <1>2 DEF IInv, TypeOK, ConnLife, OwnerHolds, Ended
<1> QED
  BY <1>1, <1>2

\* The loop test, taken by a running thread.
LEMMA LoopOrLeaveKeeps ==
  ASSUME IInv, NEW t \in Threads, NEW id, NEW n, LoopOrLeave(t, id, n), pc[t] \in Running,
         UNCHANGED <<caller, can_run, unjoined>>,
         \A u \in Threads : u # t => cid'[u] = cid[u],
         t \notin Joinable => caller[t] # "starting"
  PROVE  \A u \in Threads : (ConnLife(u) /\ OwnerHolds(u) /\ Ended(u))'
<1>1. CASE loop[t]
  BY <1>1, MoveKeeps DEF LoopOrLeave, Running
<1>2. CASE ~loop[t]
  <2>1. t \notin Joinable => caller[t] = "idle"
    BY DEF IInv, TypeOK, CallerState, ConnLife
  <2> QED
    BY <1>2, <2>1, LeaveKeeps DEF LoopOrLeave
<1> QED
  BY <1>1, <1>2

\* The wait for can_run: a connection whose creator is inside start() waits.
LEMMA AwaitRunKeeps ==
  ASSUME IInv, NEW t \in Threads, NEW id, NEW n, AwaitRun(t, id, n), pc[t] \in Running,
         UNCHANGED <<caller, can_run, unjoined>>,
         \A u \in Threads : u # t => cid'[u] = cid[u]
  PROVE  \A u \in Threads : (ConnLife(u) /\ OwnerHolds(u) /\ Ended(u))'
<1>1. CASE ~can_run[t] /\ loop[t]
  BY <1>1, MoveKeeps DEF AwaitRun, Running
<1>2. CASE ~(~can_run[t] /\ loop[t])
  <2>1. t \notin Joinable => caller[t] # "starting"
    BY <1>2 DEF IInv, ConnLife
  <2> QED
    BY <1>2, <2>1, LoopOrLeaveKeeps DEF AwaitRun
<1> QED
  BY <1>1, <1>2

\* cycle() of a joinable thread has returned.
LEMMA CycleDoneKeeps ==
  ASSUME IInv, NEW t \in Threads, CycleDone(t), pc[t] \in {"cycle", "busy"},
         UNCHANGED <<caller, can_run, cid, unjoined>>
  PROVE  \A u \in Threads : (ConnLife(u) /\ OwnerHolds(u) /\ Ended(u))'
<1>1. t \notin Joinable => caller[t] = "idle"
  BY DEF IInv, TypeOK, CallerState, ConnLife
<1>2. CASE loop[t]
  BY <1>1, <1>2, MoveKeeps DEF CycleDone, Running
<1>3. CASE ~loop[t]
  BY <1>1, <1>3, LeaveKeeps DEF CycleDone
<1> QED
  BY <1>2, <1>3

\* The strengthened invariant is inductive.
LEMMA Inductive ==
  /\ Init => IInv
  /\ IInv /\ [Next]_vars => IInv'
<1>1. Init => IInv
  <2>1. ASSUME Init, NEW t \in Threads
        PROVE  ConnLife(t) /\ OwnerHolds(t) /\ Ended(t)
    <3>1. /\ alive[t] /\ ~tid[t] /\ ~can_run[t] /\ cid[t] < 0
          /\ caller[t] = "idle" /\ pc[t] = "none" /\ ~unjoined[t]
      BY <2>1 DEF Init
    <3> QED
      BY <3>1 DEF ConnLife, OwnerHolds, Ended, Running
  <2> QED
    BY <2>1, InitType DEF IInv
<1>2. ASSUME IInv, [Next]_vars
      PROVE  IInv'
  <2> DEFINE Parts == \A u \in Threads : ConnLife(u) /\ OwnerHolds(u) /\ Ended(u)
  <2> SUFFICES Parts'
    BY <1>2, NextType DEF IInv
  <2>1. ASSUME NEW t \in Threads, Start(t)
        PROVE  Parts'
    <3> SUFFICES ASSUME NEW u \in Threads
                 PROVE  (ConnLife(u) /\ OwnerHolds(u) /\ Ended(u))'
      OBVIOUS
    <3>1. ConnLife(u) /\ OwnerHolds(u) /\ Ended(u)
      BY <1>2 DEF IInv
    <3>2. CASE u = t
      BY <1>2, <2>1, <3>1, <3>2 DEF IInv, TypeOK, Start, ConnLife, OwnerHolds, Ended, Running
    <3>3. CASE u # t
      BY <1>2, <2>1, <3>1, <3>3 DEF IInv, TypeOK, Start, ConnLife, OwnerHolds, Ended
    <3> QED
      BY <3>2, <3>3
  <2>2. ASSUME NEW t \in Threads, StartReturn(t)
        PROVE  Parts'
    <3> SUFFICES ASSUME NEW u \in Threads
                 PROVE  (ConnLife(u) /\ OwnerHolds(u) /\ Ended(u))'
      OBVIOUS
    <3>1. ConnLife(u) /\ OwnerHolds(u) /\ Ended(u)
      BY <1>2 DEF IInv
    <3>2. CASE u = t
      BY <1>2, <2>2, <3>1, <3>2 DEF IInv, TypeOK, StartReturn, ConnLife, OwnerHolds, Ended, Running
    <3>3. CASE u # t
      BY <1>2, <2>2, <3>1, <3>3 DEF IInv, TypeOK, StartReturn, ConnLife, OwnerHolds, Ended
    <3> QED
      BY <3>2, <3>3
  <2>3. ASSUME NEW t \in Threads, Begin(t)
        PROVE  Parts'
    <3>1. pc[t] \in Running /\ UNCHANGED <<caller, can_run, unjoined>> /\ AwaitRun(t, next_id, Succ(next_id))
      BY <2>3 DEF Begin, Running
    <3>2. \A u \in Threads : u # t => cid'[u] = cid[u]
      BY <1>2, <2>3 DEF IInv, TypeOK, Begin
    <3> QED
      BY <1>2, <3>1, <3>2, AwaitRunKeeps
  <2>4. ASSUME NEW t \in Threads, WaitRunReturn(t)
        PROVE  Parts'
    <3>1. pc[t] \in Running /\ UNCHANGED <<caller, can_run, cid, unjoined>> /\ AwaitRun(t, own[t], next_id)
      BY <2>4 DEF WaitRunReturn, Running
    <3> QED
      BY <1>2, <3>1, AwaitRunKeeps
  <2>5. ASSUME NEW t \in Threads, CycleEvent(t) \/ CycleInterrupted(t) \/ BusyReturn(t)
        PROVE  Parts'
    <3>1. /\ CycleDone(t) /\ pc[t] \in {"cycle", "busy"}
          /\ UNCHANGED <<caller, can_run, cid, unjoined>>
      BY <2>5 DEF CycleEvent, CycleInterrupted, BusyReturn
    <3> QED
      BY <1>2, <3>1, CycleDoneKeeps
  <2>6. ASSUME NEW t \in Threads, CycleBlocks(t)
        PROVE  Parts'
    <3>1. /\ t \in Joinable /\ pc[t] \in Running /\ pc' = [pc EXCEPT ![t] = "busy"]
          /\ UNCHANGED <<alive, tid, loop, caller, can_run, cid, unjoined>>
      BY <2>6 DEF CycleBlocks, object, Running
    <3> QED
      BY <1>2, <3>1, MoveKeeps DEF Running
  <2>7. ASSUME NEW t \in Threads, ConnCycle(t)
        PROVE  Parts'
    <3>1. /\ Leave(t) /\ pc[t] = "cycle" /\ t \notin Joinable
          /\ UNCHANGED <<caller, can_run, cid, unjoined>>
      BY <2>7 DEF ConnCycle
    <3>2. caller[t] = "idle"
      BY <1>2, <3>1 DEF IInv, TypeOK, CallerState, ConnLife
    <3> QED
      BY <1>2, <3>1, <3>2, LeaveKeeps
  <2>8. ASSUME NEW t \in Threads, SleepReturn(t)
        PROVE  Parts'
    <3>1. /\ LoopOrLeave(t, own[t], next_id) /\ pc[t] = "sleep"
          /\ UNCHANGED <<caller, can_run, cid, unjoined>>
      BY <2>8 DEF SleepReturn
    <3>2. t \notin Joinable => caller[t] # "starting"
      BY <1>2, <3>1 DEF IInv, ConnLife
    <3> QED
      BY <1>2, <3>1, <3>2, LoopOrLeaveKeeps DEF Running
  <2>9. ASSUME NEW t \in Threads, Stop(t) \/ JoinReturn(t) \/ JoinFails(t) \/ Delete(t) \/ Reuse(t)
        PROVE  Parts'
    <3> SUFFICES ASSUME NEW u \in Threads
                 PROVE  (ConnLife(u) /\ OwnerHolds(u) /\ Ended(u))'
      OBVIOUS
    <3>1. ConnLife(u) /\ OwnerHolds(u) /\ Ended(u)
      BY <1>2 DEF IInv
    <3>2. ConnLife(t)
      BY <1>2 DEF IInv
    <3>3. CASE Stop(t)
      BY <1>2, <3>1, <3>3 DEF IInv, TypeOK, Stop, ConnLife, OwnerHolds, Ended
    <3>4. CASE JoinReturn(t)
      BY <1>2, <3>1, <3>2, <3>4 DEF IInv, TypeOK, JoinReturn, ConnLife, OwnerHolds, Ended, Running
    <3>5. CASE JoinFails(t)
      BY <1>2, <3>1, <3>2, <3>5 DEF IInv, TypeOK, JoinFails, ConnLife, OwnerHolds, Ended
    <3>6. CASE Delete(t)
      BY <1>2, <3>1, <3>6 DEF IInv, TypeOK, Delete, ConnLife, OwnerHolds, Ended
    <3>7. CASE Reuse(t)
      BY <1>2, <3>1, <3>2, <3>7 DEF IInv, TypeOK, Reuse, ConnLife, OwnerHolds, Ended
    <3> QED
      BY <2>9, <3>3, <3>4, <3>5, <3>6, <3>7
  <2>10. CASE UNCHANGED vars
    BY <1>2, <2>10 DEF IInv, vars, object, ConnLife, OwnerHolds, Ended
  <2> QED
    BY <1>2, <2>1, <2>2, <2>3, <2>4, <2>5, <2>6, <2>7, <2>8, <2>9, <2>10 DEF Next
<1> QED
  BY <1>1, <1>2

\* No code ever runs in a deleted SrsThread, for any number of connections and
\* joinable threads whose join does not fail: the wait for can_run is enough.
THEOREM NoDanglingFrameAlways == Spec => []NoDanglingFrame
<1>1. IInv => NoDanglingFrame
  BY DEF IInv, TypeOK, OwnerHolds, Ended, NoDanglingFrame
<1> QED
  BY <1>1, Inductive, PTL DEF Spec

-----------------------------------------------------------------------------
\* Until the thread has begun its creator is inside start(), for _cid is still
\* negative; from then on _cid is the id it took, and still logs with unless it is a
\* connection that is being served.
FirstRun(t) ==
    /\ pc[t] = "none" => cid[t] < 0
    /\ pc[t] = "ready" => cid[t] < 0 /\ loop[t] /\ caller[t] = "starting"
    /\ pc[t] \in Running \ {"ready"} /\ (t \in Joinable \/ pc[t] = "wait_run")
          => cid[t] = own[t]

\* Every step keeps it: the steps of the owner, of the thread, and those that leave
\* the thread alone.
LEMMA NextFirstRun ==
  ASSUME IInv, [Next]_vars, NEW u \in Threads, FirstRun(u)
  PROVE  FirstRun(u)'
<1> USE DEF IInv, TypeOK, OwnerHolds, FirstRun, Running
<1>1. ASSUME NEW t \in Threads, Start(t)
      PROVE  FirstRun(u)'
  BY <1>1 DEF Start
<1>2. ASSUME NEW t \in Threads, StartReturn(t)
      PROVE  FirstRun(u)'
  BY <1>2 DEF StartReturn
<1>3. ASSUME NEW t \in Threads, Begin(t)
      PROVE  FirstRun(u)'
  BY <1>3 DEF Begin, AwaitRun, LoopOrLeave, LogsWith, Leave
<1>4. ASSUME NEW t \in Threads, WaitRunReturn(t)
      PROVE  FirstRun(u)'
  BY <1>4 DEF WaitRunReturn, AwaitRun, LoopOrLeave, LogsWith, Leave
<1>5. ASSUME NEW t \in Threads, CycleEvent(t) \/ CycleInterrupted(t) \/ BusyReturn(t)
      PROVE  FirstRun(u)'
  BY <1>5 DEF CycleEvent, CycleInterrupted, BusyReturn, CycleDone, Leave
<1>6. ASSUME NEW t \in Threads, CycleBlocks(t)
      PROVE  FirstRun(u)'
  BY <1>6 DEF CycleBlocks, object
<1>7. ASSUME NEW t \in Threads, ConnCycle(t)
      PROVE  FirstRun(u)'
  BY <1>7 DEF ConnCycle, Leave
<1>8. ASSUME NEW t \in Threads, SleepReturn(t)
      PROVE  FirstRun(u)'
  BY <1>8 DEF SleepReturn, LoopOrLeave, LogsWith, Leave
<1>9. ASSUME NEW t \in Threads, Stop(t) \/ JoinReturn(t) \/ JoinFails(t) \/ Delete(t) \/ Reuse(t)
      PROVE  FirstRun(u)'
  BY <1>9 DEF Stop, JoinReturn, JoinFails, Delete, Reuse
<1>10. CASE UNCHANGED vars
  BY <1>10 DEF vars, object
<1> QED
  BY <1>1, <1>2, <1>3, <1>4, <1>5, <1>6, <1>7, <1>8, <1>9, <1>10 DEF Next

\* The two invariants hold together.
LEMMA FirstRunAlways == Spec => [](IInv /\ \A t \in Threads : FirstRun(t))
<1> DEFINE Inv == \A t \in Threads : FirstRun(t)
<1>1. ASSUME Init, NEW t \in Threads PROVE FirstRun(t)
  <2>1. cid[t] = -1 /\ pc[t] = "none"
    BY <1>1 DEF Init
  <2> QED
    BY <2>1 DEF FirstRun, Running
<1>2. Init => Inv
  BY <1>1
<1>3. IInv /\ Inv /\ [Next]_vars => Inv'
  BY NextFirstRun
<1> QED
  BY <1>2, <1>3, Inductive, PTL DEF Spec

\* start() returns when the new thread has published its id, and not before: what
\* cid() gives then is the id the thread logs with, for a connection until it is
\* served, wrapped ids included.
THEOREM CidReadyAlways == Spec => []CidReady
<1>1. IInv /\ (\A t \in Threads : FirstRun(t)) => CidReady
  BY DEF IInv, TypeOK, FirstRun, CidReady
<1> QED
  BY <1>1, FirstRunAlways, PTL

-----------------------------------------------------------------------------
\* The safety under the liveness of the protocol: nobody waits for what cannot come.
\* A thread that polls can_run has it, or is told to leave, or its creator is still
\* inside start() and will set it; a thread that is being joined, or whose join failed,
\* is told to leave its loop, and if it blocks in accept or read the interrupt is still
\* pending.  Neither has a thread to start.
Awaited(t) ==
    /\ alive[t] /\ pc[t] \in {"ready", "wait_run"} =>
          can_run[t] \/ ~loop[t] \/ caller[t] = "starting"
    /\ caller[t] = "joining" \/ (unjoined[t] /\ alive[t]) =>
          ~loop[t] /\ (pc[t] = "cycle" => intr[t])
    /\ tid[t] \/ unjoined[t] => pc[t] # "none"

\* Every step keeps it, whichever thread it is of.
LEMMA NextAwaited ==
  ASSUME IInv, [Next]_vars, NEW u \in Threads, Awaited(u)
  PROVE  Awaited(u)'
<1> USE DEF IInv, TypeOK, OwnerHolds, Awaited
<1>1. ASSUME NEW t \in Threads, Start(t)
      PROVE  Awaited(u)'
  BY <1>1 DEF Start
<1>2. ASSUME NEW t \in Threads, StartReturn(t)
      PROVE  Awaited(u)'
  BY <1>2 DEF StartReturn
<1>3. ASSUME NEW t \in Threads, Begin(t)
      PROVE  Awaited(u)'
  BY <1>3 DEF Begin, AwaitRun, LoopOrLeave, LogsWith, Leave
<1>4. ASSUME NEW t \in Threads, WaitRunReturn(t)
      PROVE  Awaited(u)'
  BY <1>4 DEF WaitRunReturn, AwaitRun, LoopOrLeave, LogsWith, Leave
<1>5. ASSUME NEW t \in Threads, CycleEvent(t) \/ CycleInterrupted(t) \/ BusyReturn(t)
      PROVE  Awaited(u)'
  BY <1>5 DEF CycleEvent, CycleInterrupted, BusyReturn, CycleDone, Leave
<1>6. ASSUME NEW t \in Threads, CycleBlocks(t)
      PROVE  Awaited(u)'
  BY <1>6 DEF CycleBlocks, object
<1>7. ASSUME NEW t \in Threads, ConnCycle(t)
      PROVE  Awaited(u)'
  BY <1>7 DEF ConnCycle, Leave
<1>8. ASSUME NEW t \in Threads, SleepReturn(t)
      PROVE  Awaited(u)'
  BY <1>8 DEF SleepReturn, LoopOrLeave, LogsWith, Leave
<1>9. ASSUME NEW t \in Threads, Stop(t) \/ JoinReturn(t) \/ JoinFails(t) \/ Delete(t) \/ Reuse(t)
      PROVE  Awaited(u)'
  BY <1>9 DEF Stop, JoinReturn, JoinFails, Delete, Reuse
<1>10. CASE UNCHANGED vars
  BY <1>10 DEF vars, object
<1> QED
  BY <1>1, <1>2, <1>3, <1>4, <1>5, <1>6, <1>7, <1>8, <1>9, <1>10 DEF Next

\* No thread polls a can_run that nobody will set, and a stopped thread never blocks
\* without the interrupt that ends it, wherever stop() found it (app_thread.cpp,
\* start, stop and thread_cycle).
THEOREM WaitsAnswered == Spec => [](\A t \in Threads : Awaited(t))
<1> DEFINE Inv == \A t \in Threads : Awaited(t)
<1>1. ASSUME Init, NEW t \in Threads PROVE Awaited(t)
  <2>1. pc[t] = "none" /\ caller[t] = "idle" /\ ~tid[t] /\ ~unjoined[t]
    BY <1>1 DEF Init
  <2> QED
    BY <2>1 DEF Awaited
<1>2. Init => Inv
  BY <1>1
<1>3. IInv /\ Inv /\ [Next]_vars => Inv'
  BY NextAwaited
<1> QED
  BY <1>2, <1>3, Inductive, PTL DEF Spec

\* stop() waits for at most the event in hand, never for a whole cycle(), and the
\* thread of a join that failed goes no further.
THEOREM NoCycleAfterStopAlways == Spec => NoCycleAfterStop
<1> DEFINE Ends(t) ==
      /\ caller[t] = "joining" \/ (unjoined[t] /\ alive[t])
      /\ pc'[t] # pc[t]
      => pc'[t] = "dead" \/ (pc[t] = "cycle" /\ pc'[t] = "busy")
<1>1. ASSUME TypeOK, Next, NEW u \in Threads, Awaited(u),
             caller[u] = "joining" \/ (unjoined[u] /\ alive[u])
      PROVE  Ends(u)
  <2> USE <1>1 DEF TypeOK, Awaited
  <2>1. PICK t \in Threads :
          \/ Start(t) \/ StartReturn(t) \/ Begin(t) \/ WaitRunReturn(t)
          \/ CycleEvent(t) \/ CycleBlocks(t) \/ BusyReturn(t)
          \/ CycleInterrupted(t) \/ ConnCycle(t) \/ SleepReturn(t)
          \/ Stop(t) \/ JoinReturn(t) \/ JoinFails(t) \/ Delete(t) \/ Reuse(t)
    BY DEF Next
  <2>2. CASE Start(t)
    BY <2>2 DEF Start
  <2>3. CASE StartReturn(t) \/ Stop(t) \/ JoinReturn(t) \/ JoinFails(t) \/ Delete(t) \/ Reuse(t)
    BY <2>3 DEF StartReturn, Stop, JoinReturn, JoinFails, Delete, Reuse
  <2>4. CASE Begin(t) \/ WaitRunReturn(t) \/ SleepReturn(t)
    BY <2>4 DEF Begin, WaitRunReturn, SleepReturn, AwaitRun, LoopOrLeave, LogsWith, Leave
  <2>5. CASE CycleEvent(t) \/ CycleInterrupted(t) \/ BusyReturn(t)
    BY <2>5 DEF CycleEvent, CycleInterrupted, BusyReturn, CycleDone, Leave
  <2>6. CASE CycleBlocks(t) \/ ConnCycle(t)
    BY <2>6 DEF CycleBlocks, ConnCycle, Leave
  <2> QED
    BY <2>1, <2>2, <2>3, <2>4, <2>5, <2>6
<1>2. TypeOK /\ (\A t \in Threads : Awaited(t)) /\ [Next]_vars
        => [\A t \in Threads : Ends(t)]_vars
  BY <1>1
<1> QED
  BY <1>2, WaitsAnswered, TypeCorrect, PTL DEF Spec, NoCycleAfterStop

\* A start() that waits for an id waits for a thread that has yet to publish it.
Handshake(t) ==
    caller[t] = "starting" => pc[t] = "ready" \/ cid[t] >= 0 \/ ~loop[t]

\* Every step keeps it while the ids have not wrapped to negative ones.
LEMMA NextHandshake ==
  ASSUME IInv, FirstId <= next_id, [Next]_vars, NEW u \in Threads,
         Awaited(u), Handshake(u)
  PROVE  Handshake(u)'
<1> USE IdAssumption DEF IInv, TypeOK, OwnerHolds, Handshake, Ids
<1>1. ASSUME NEW t \in Threads, Start(t)
      PROVE  Handshake(u)'
  BY <1>1 DEF Start
<1>2. ASSUME NEW t \in Threads, StartReturn(t)
      PROVE  Handshake(u)'
  BY <1>2 DEF StartReturn
<1>3. ASSUME NEW t \in Threads, Begin(t)
      PROVE  Handshake(u)'
  BY <1>3 DEF Begin, AwaitRun, LoopOrLeave, LogsWith, Leave
<1>4. ASSUME NEW t \in Threads, WaitRunReturn(t) \/ SleepReturn(t)
      PROVE  Handshake(u)'
  BY <1>4 DEF WaitRunReturn, SleepReturn, AwaitRun, LoopOrLeave, LogsWith, Leave
<1>5. ASSUME NEW t \in Threads, CycleEvent(t) \/ CycleInterrupted(t) \/ BusyReturn(t)
      PROVE  Handshake(u)'
  BY <1>5 DEF CycleEvent, CycleInterrupted, BusyReturn, CycleDone, Leave
<1>6. ASSUME NEW t \in Threads, CycleBlocks(t)
      PROVE  Handshake(u)'
  BY <1>6 DEF CycleBlocks, object
<1>7. ASSUME NEW t \in Threads, ConnCycle(t)
      PROVE  Handshake(u)'
  BY <1>7 DEF ConnCycle, Leave
<1>8. ASSUME NEW t \in Threads, Stop(t) \/ JoinReturn(t) \/ JoinFails(t) \/ Delete(t) \/ Reuse(t)
      PROVE  Handshake(u)'
  BY <1>8 DEF Stop, JoinReturn, JoinFails, Delete, Reuse
<1>9. CASE UNCHANGED vars
  BY <1>9 DEF vars, object
<1> QED
  BY <1>1, <1>2, <1>3, <1>4, <1>5, <1>6, <1>7, <1>8, <1>9 DEF Next

\* No start() polls a _cid that stays negative, unless generate_id() has wrapped: the
\* only way for start() to wait for ever is the overflow of the id.
THEOREM StartAnswered ==
  Spec /\ [](FirstId <= next_id) => [](\A t \in Threads : Handshake(t))
<1> DEFINE Inv == \A t \in Threads : Handshake(t)
<1>1. ASSUME Init, NEW t \in Threads PROVE Handshake(t)
  <2>1. caller[t] = "idle"
    BY <1>1 DEF Init
  <2> QED
    BY <2>1 DEF Handshake
<1>2. Init => Inv
  BY <1>1
<1>3. IInv /\ (\A t \in Threads : Awaited(t)) /\ FirstId <= next_id /\ Inv /\ [Next]_vars
        => Inv'
  BY NextHandshake
<1> QED
  BY <1>2, <1>3, Inductive, WaitsAnswered, PTL DEF Spec

-----------------------------------------------------------------------------
\* While it does not wrap the counter only grows.
LEMMA SuccGrows ==
  ASSUME NEW n \in Ids, FirstId <= n, FirstId <= Succ(n)
  PROVE  Succ(n) = n + 1
  BY IdAssumption DEF Ids, Succ

\* A step takes the next id for its thread, or moves a thread that has one, or starts
\* a thread that will take one.
LEMMA IdSteps ==
  ASSUME IInv, Next, \A t \in Threads : FirstRun(t)
  PROVE  \E t \in Threads :
           /\ \A u \in Threads \ {t} : own'[u] = own[u] /\ pc'[u] = pc[u]
           /\ \/ own'[t] = next_id /\ next_id' = Succ(next_id)
              \/ /\ next_id' = next_id
                 /\ ~HasId(t)' \/ (HasId(t) /\ own'[t] = own[t])
<1> USE DEF IInv, TypeOK, HasId
<1>1. PICK t \in Threads :
        \/ Start(t) \/ StartReturn(t) \/ Begin(t) \/ WaitRunReturn(t)
        \/ CycleEvent(t) \/ CycleBlocks(t) \/ BusyReturn(t)
        \/ CycleInterrupted(t) \/ ConnCycle(t) \/ SleepReturn(t)
        \/ Stop(t) \/ JoinReturn(t) \/ JoinFails(t) \/ Delete(t) \/ Reuse(t)
  BY DEF Next
<1>2. CASE Start(t)
  BY <1>2 DEF Start
<1>3. CASE Begin(t)
  BY <1>3 DEF Begin, AwaitRun, LoopOrLeave, LogsWith, Leave, FirstRun, ConnLife
<1>4. CASE WaitRunReturn(t) \/ SleepReturn(t)
  BY <1>4 DEF WaitRunReturn, SleepReturn, AwaitRun, LoopOrLeave, LogsWith, Leave
<1>5. CASE CycleEvent(t) \/ CycleInterrupted(t) \/ BusyReturn(t) \/ CycleBlocks(t) \/ ConnCycle(t)
  BY <1>5 DEF CycleEvent, CycleInterrupted, BusyReturn, CycleBlocks, ConnCycle, CycleDone, Leave
<1>6. CASE StartReturn(t) \/ Stop(t) \/ JoinReturn(t) \/ JoinFails(t) \/ Delete(t) \/ Reuse(t)
  BY <1>6 DEF StartReturn, Stop, JoinReturn, JoinFails, Delete, Reuse
<1> QED
  BY <1>1, <1>2, <1>3, <1>4, <1>5, <1>6

LEMMA NextIdsApart ==
  ASSUME IInv, \A t \in Threads : FirstRun(t),
         FirstId <= next_id, FirstId <= next_id', IdsApart, [Next]_vars
  PROVE  IdsApart'
<1>1. CASE Next
  <2>1. PICK t \in Threads :
           /\ \A u \in Threads \ {t} : own'[u] = own[u] /\ pc'[u] = pc[u]
           /\ \/ own'[t] = next_id /\ next_id' = Succ(next_id)
              \/ /\ next_id' = next_id
                 /\ ~HasId(t)' \/ (HasId(t) /\ own'[t] = own[t])
    BY <1>1, IdSteps
  <2>2. next_id \in Int /\ FirstId \in Int /\ \A u \in Threads : own[u] \in Int
    BY IdAssumption DEF IInv, TypeOK, Ids
  <2>3. CASE own'[t] = next_id /\ next_id' = Succ(next_id)
    <3>1. next_id' = next_id + 1
      BY <2>3, SuccGrows DEF IInv, TypeOK
    <3> QED
      BY <2>1, <2>2, <2>3, <3>1 DEF IdsApart, HasId
  <2>4. CASE next_id' = next_id /\ (~HasId(t)' \/ (HasId(t) /\ own'[t] = own[t]))
    BY <2>1, <2>4 DEF IdsApart, HasId
  <2> QED
    BY <2>1, <2>3, <2>4
<1>2. CASE UNCHANGED vars
  BY <1>2 DEF vars, IdsApart, HasId
<1> QED
  BY <1>1, <1>2

\* Until generate_id() wraps no two threads log with one id, those that have ended
\* included: the id in a line of the log names one client.
THEOREM IdsApartAlways ==
  Spec /\ [](FirstId <= next_id) => []IdsApart
<1>1. Init => IdsApart
  BY DEF Init, IdsApart, HasId
<1>2. /\ IInv /\ \A t \in Threads : FirstRun(t)
      /\ FirstId <= next_id /\ (FirstId <= next_id)' /\ IdsApart /\ [Next]_vars
      => IdsApart'
  BY NextIdsApart
<1> QED
  BY <1>1, <1>2, FirstRunAlways, PTL DEF Spec
=============================================================================
