------------------------- MODULE SrsStartupProofs --------------------------
(***************************************************************************)
(* The pid file, for any number of launches, with any configuration files, *)
(* on any number of inodes.                                                *)
(***************************************************************************)
EXTENDS SrsStartup, TLAPS

\* The processes of a launch, which no other launch has.
Own(l) == {First(l), Daemon(l)}
Processes ==
    \A l \in Launches : pid[l] \in Own(l) \cup {None} /\ (Alive(l) => pid[l] \in Own(l))

\* Where a launch serves, and where it has the pid file open.
Stages ==
    \A l \in Launches :
        /\ pc[l] = "run" => l \in serving
        /\ pc[l] \in {"off", "fork", "listen", "close", "drain", "dead"} => l \notin serving
        /\ pc[l] \in {"off", "fork", "open", "drain", "dead"} => fd[l] = None

\* Whoever holds the pid file has its lock.
Locked == \A l \in Launches : Holds(l) => lock[fd[l]] = pid[l]

\* The file that is open is the one the path names, until the script deletes that.
Named ==
    \A l \in Launches : fd[l] # None =>
        PidFile(l) \in Paths /\ (PidFile(l) \notin cleaned => path[PidFile(l)] = fd[l])

\* What a path names has been created.
PathsUsed == \A p \in Paths : path[p] # None => path[p] \in used

\* Nobody else writes the pid file once it is written.
Written ==
    \A l \in Launches : pc[l] \in {"listen", "run", "close"} /\ fd[l] # None => content[fd[l]] = pid[l]

\* What the steps have found of the configuration by now.
Configured ==
    \A l \in Launches :
        /\ Alive(l) => Load(conf[l]) = "success"
        /\ pc[l] \in {"lock", "truncate", "write", "listen", "run", "close", "drain"} =>
              PidFile(l) # ""
        /\ l \in serving => PidFile(l) # ""
        /\ l \in stopped => PidFile(l) \in Paths

\* The inductive invariant.
IInv == TypeOK /\ Processes /\ Stages /\ Locked /\ Named /\ Written /\ Configured /\ PathsUsed

-----------------------------------------------------------------------------
\* The processes of a launch.
LEMMA OwnPids ==
  ASSUME NEW l \in Launches
  PROVE  /\ First(l) \in Pids /\ Daemon(l) \in Pids /\ Own(l) \subseteq Pids
         /\ First(l) \in Own(l) /\ Daemon(l) \in Own(l)
  BY DEF First, Daemon, Pids, Own

\* Two launches have no process in common, and None is no process.
LEMMA OwnDistinct ==
  ASSUME NEW l \in Launches, NEW m \in Launches, NEW p \in Own(l)
  PROVE  p # None /\ (p \in Own(m) => l = m)
<1>1. p \in Pids
  BY OwnPids
<1>2. p # None
  BY <1>1, NoneAssumption DEF Pids
<1>3. p \in Own(m) => l = m
  BY DEF Own, First, Daemon
<1> QED
  BY <1>2, <1>3

\* The port of a launch is one of Ports; its pid file, if it has one, of Paths.
LEMMA ConfOf ==
  ASSUME TypeOK, NEW l \in Launches
  PROVE  conf[l] \in Files /\ GetListen(conf[l]) \in Ports /\ (PidFile(l) # "" => PidFile(l) \in Paths)
  BY DEF TypeOK, Ports, Paths, PidFile

LEMMA InitIInv == Init => IInv
<1> SUFFICES ASSUME Init PROVE IInv
  OBVIOUS
<1>1. TypeOK
  BY DEF Init, TypeOK, Steps, Alive
<1>2. Processes /\ Stages /\ Locked /\ Named /\ Written /\ Configured /\ PathsUsed
  BY DEF Init, PathsUsed, Processes, Stages, Locked, Holds, Named, Written, Configured, Alive
<1> QED
  BY <1>1, <1>2 DEF IInv

\* Two launches do not hold one inode.
LEMMA HoldersDistinct ==
  ASSUME IInv, NEW l \in Launches, NEW m \in Launches, Holds(l), Holds(m), fd[l] = fd[m]
  PROVE  l = m
<1>1. lock[fd[l]] = pid[l] /\ lock[fd[m]] = pid[m]
  BY DEF IInv, Locked
<1>2. pid[l] \in Own(l) /\ pid[m] \in Own(m)
  BY DEF IInv, Processes, Holds, Alive
<1> QED
  BY <1>1, <1>2, OwnDistinct

LEMMA LaunchStep ==
  ASSUME IInv, NEW l \in Launches, Launch(l)
  PROVE  IInv'
<1> USE DEF IInv, Launch, Advance, Follows, launchVars, fileVars, scriptVars, Alive, Holds
<1>1. TypeOK'
  BY ConfOf, OwnPids DEF TypeOK, Steps, Stages, Processes, Configured
<1>2. Processes'
  BY OwnPids DEF TypeOK, Processes
<1>3. Stages'
  BY DEF TypeOK, Stages
<1>4. Locked'
  BY DEF TypeOK, Stages, Locked
<1>5. Named'
  BY ConfOf DEF TypeOK, Stages, Named, PidFile
<1>6. Written'
  BY HoldersDistinct DEF TypeOK, Stages, Written
<1>7. Configured'
  BY ConfOf DEF TypeOK, Stages, Configured, PidFile, Named
<1>8. PathsUsed'
  BY DEF TypeOK, PathsUsed
<1> QED
  BY <1>1, <1>2, <1>3, <1>4, <1>5, <1>6, <1>7, <1>8

LEMMA ForkStep ==
  ASSUME IInv, NEW l \in Launches, Fork(l)
  PROVE  IInv'
<1> USE DEF IInv, Fork, Advance, Follows, launchVars, fileVars, scriptVars, Alive, Holds, ReleaseAll
<1>1. TypeOK'
  <2>1. pid' \in [Launches -> Pids \cup {None}]
    BY OwnPids DEF TypeOK
  <2>2. lock' \in [Inodes -> Pids \cup {None}]
    BY DEF TypeOK
  <2>3. port' \in [Ports -> Pids \cup {None}]
    BY DEF TypeOK
  <2>4. pc' \in [Launches -> Steps] /\ serving' \subseteq {m \in Launches : Alive(m)'}
    BY DEF TypeOK, Steps
  <2>5. \A m \in Launches : pc'[m] \in {"lock", "truncate", "write"} => fd'[m] \in used'
    BY DEF TypeOK
  <2> QED
    BY <2>1, <2>2, <2>3, <2>4, <2>5 DEF TypeOK
<1>2. Processes'
  BY OwnPids DEF TypeOK, Processes
<1>3. Stages'
  BY DEF TypeOK, Stages
<1>4. Locked'
  <2> SUFFICES ASSUME NEW m \in Launches, Holds(m)'
               PROVE  lock'[fd'[m]] = pid'[m]
    BY DEF Locked
  <2>1. m # l /\ Holds(m) /\ fd'[m] = fd[m] /\ pid'[m] = pid[m]
    BY DEF TypeOK
  <2>2. lock[fd[m]] = pid[m] /\ pid[m] \in Own(m) /\ pid[l] \in Own(l) /\ fd[m] \in Inodes
    BY <2>1 DEF Locked, Processes, TypeOK
  <2>3. pid[m] # pid[l]
    BY <2>1, <2>2, OwnDistinct
  <2> QED
    BY <2>1, <2>2, <2>3 DEF TypeOK
<1>5. Named'
  BY ConfOf DEF TypeOK, Stages, Named, PidFile
<1>6. Written'
  BY HoldersDistinct DEF TypeOK, Stages, Written
<1>7. Configured'
  BY ConfOf DEF TypeOK, Stages, Configured, PidFile, Named
<1>8. PathsUsed'
  BY DEF TypeOK, PathsUsed
<1> QED
  BY <1>1, <1>2, <1>3, <1>4, <1>5, <1>6, <1>7, <1>8

LEMMA OpenStep ==
  ASSUME IInv, NEW l \in Launches, Open(l)
  PROVE  IInv'
<1> USE DEF IInv, Open, Advance, Follows, launchVars, fileVars, scriptVars, Alive, Holds
<1>a. PidFile(l) \in Paths /\ fd'[l] \in used' /\ fd'[l] \in Inodes
      /\ path'[PidFile(l)] = fd'[l] /\ \A p \in Paths \ {PidFile(l)} : path'[p] = path[p]
  <2>1. PidFile(l) \in Paths
    BY ConfOf
  <2>2. CASE path[PidFile(l)] # None
    BY <2>1, <2>2 DEF TypeOK, PathsUsed
  <2>3. CASE path[PidFile(l)] = None
    BY <2>1, <2>3 DEF TypeOK
  <2> QED
    BY <2>2, <2>3
<1>b. used \subseteq used' /\ used' \subseteq Inodes /\ path' \in [Paths -> Inodes \cup {None}]
  <2>1. CASE path[PidFile(l)] # None
    BY <2>1 DEF TypeOK
  <2>2. CASE path[PidFile(l)] = None
    <3>1. PICK i \in Inodes \ used : path' = [path EXCEPT ![PidFile(l)] = i] /\ used' = used \cup {i}
      BY <2>2
    <3>2. used \subseteq used' /\ used' \subseteq Inodes
      BY <3>1 DEF TypeOK
    <3>3. path' \in [Paths -> Inodes \cup {None}]
      BY <3>1 DEF TypeOK
    <3> QED
      BY <3>2, <3>3
  <2> QED
    BY <2>1, <2>2
<1>1. TypeOK'
  <2>1. fd' \in [Launches -> Inodes \cup {None}]
    BY <1>a DEF TypeOK
  <2>2. \A m \in Launches : pc'[m] \in {"lock", "truncate", "write"} => fd'[m] \in used'
    BY <1>a, <1>b DEF TypeOK
  <2>3. pc' \in [Launches -> Steps] /\ serving' \subseteq {m \in Launches : Alive(m)'}
    BY DEF TypeOK, Steps
  <2> QED
    BY <1>b, <2>1, <2>2, <2>3 DEF TypeOK
<1>2. Processes'
  BY OwnPids DEF TypeOK, Processes
<1>3. Stages'
  BY DEF TypeOK, Stages
<1>4. Locked'
  BY DEF TypeOK, Stages, Locked
<1>5. Named'
  <2> SUFFICES ASSUME NEW m \in Launches, fd'[m] # None
               PROVE  PidFile(m) \in Paths /\ (PidFile(m) \notin cleaned => path'[PidFile(m)] = fd'[m])
    BY DEF Named, PidFile
  <2>1. CASE m = l
    BY <1>a, <2>1
  <2>2. CASE m # l
    <3>1. fd'[m] = fd[m] /\ fd[m] # None
      BY <2>2 DEF TypeOK
    <3>2. PidFile(m) \in Paths /\ (PidFile(m) \notin cleaned => path[PidFile(m)] = fd[m])
      BY <3>1 DEF Named
    <3>3. PidFile(m) = PidFile(l) /\ path[PidFile(l)] # None => path' = path
      BY DEF TypeOK
    <3> QED
      BY <1>a, <3>1, <3>2, <3>3
  <2> QED
    BY <2>1, <2>2
<1>6. Written'
  BY HoldersDistinct DEF TypeOK, Stages, Written
<1>7. Configured'
  BY ConfOf DEF TypeOK, Stages, Configured, PidFile, Named
<1>8. PathsUsed'
  BY DEF TypeOK, PathsUsed
<1> QED
  BY <1>1, <1>2, <1>3, <1>4, <1>5, <1>6, <1>7, <1>8

LEMMA LockStep ==
  ASSUME IInv, NEW l \in Launches, Lock(l)
  PROVE  IInv'
<1> USE DEF IInv, Lock, Advance, Follows, launchVars, fileVars, scriptVars, Alive, Holds
<1>1. TypeOK'
  BY ConfOf, OwnPids DEF TypeOK, Steps, Stages, Processes, Configured
<1>2. Processes'
  BY OwnPids DEF TypeOK, Processes
<1>3. Stages'
  BY DEF TypeOK, Stages
<1>4. Locked'
  <2> SUFFICES ASSUME NEW m \in Launches, Holds(m)'
               PROVE  lock'[fd'[m]] = pid'[m]
    BY DEF Locked
  <2>1. CASE m = l
    BY <2>1 DEF TypeOK
  <2>2. CASE m # l
    <3>1. Holds(m) /\ fd'[m] = fd[m] /\ pid'[m] = pid[m]
      BY <2>2 DEF TypeOK
    <3>2. lock[fd[m]] = pid[m] /\ pid[m] \in Own(m) /\ pid[l] \in Own(l)
      BY <3>1 DEF Locked, Processes
    <3>3. fd[m] # fd[l]
      BY <2>2, <3>2, OwnDistinct DEF TypeOK
    <3> QED
      BY <3>1, <3>2, <3>3 DEF TypeOK
  <2> QED
    BY <2>1, <2>2
<1>5. Named'
  BY ConfOf DEF TypeOK, Stages, Named, PidFile
<1>6. Written'
  BY HoldersDistinct DEF TypeOK, Stages, Written
<1>7. Configured'
  BY ConfOf DEF TypeOK, Stages, Configured, PidFile, Named
<1>8. PathsUsed'
  BY DEF TypeOK, PathsUsed
<1> QED
  BY <1>1, <1>2, <1>3, <1>4, <1>5, <1>6, <1>7, <1>8

LEMMA TruncateStep ==
  ASSUME IInv, NEW l \in Launches, Truncate(l)
  PROVE  IInv'
<1> USE DEF IInv, Truncate, Advance, Follows, launchVars, fileVars, scriptVars, Alive, Holds
<1>1. TypeOK'
  BY ConfOf, OwnPids DEF TypeOK, Steps, Stages, Processes, Configured
<1>2. Processes'
  BY OwnPids DEF TypeOK, Processes
<1>3. Stages'
  BY DEF TypeOK, Stages
<1>4. Locked'
  BY DEF TypeOK, Stages, Locked
<1>5. Named'
  BY ConfOf DEF TypeOK, Stages, Named, PidFile
<1>6. Written'
  BY HoldersDistinct DEF TypeOK, Stages, Written
<1>7. Configured'
  BY ConfOf DEF TypeOK, Stages, Configured, PidFile, Named
<1>8. PathsUsed'
  BY DEF TypeOK, PathsUsed
<1> QED
  BY <1>1, <1>2, <1>3, <1>4, <1>5, <1>6, <1>7, <1>8

LEMMA WriteStep ==
  ASSUME IInv, NEW l \in Launches, Write(l)
  PROVE  IInv'
<1> USE DEF IInv, Write, Advance, Follows, launchVars, fileVars, scriptVars, Alive, Holds
<1>1. TypeOK'
  BY ConfOf, OwnPids DEF TypeOK, Steps, Stages, Processes, Configured
<1>2. Processes'
  BY OwnPids DEF TypeOK, Processes
<1>3. Stages'
  BY DEF TypeOK, Stages
<1>4. Locked'
  BY DEF TypeOK, Stages, Locked
<1>5. Named'
  BY ConfOf DEF TypeOK, Stages, Named, PidFile
<1>6. Written'
  BY HoldersDistinct DEF TypeOK, Stages, Written
<1>7. Configured'
  BY ConfOf DEF TypeOK, Stages, Configured, PidFile, Named
<1>8. PathsUsed'
  BY DEF TypeOK, PathsUsed
<1> QED
  BY <1>1, <1>2, <1>3, <1>4, <1>5, <1>6, <1>7, <1>8

LEMMA ListenStep ==
  ASSUME IInv, NEW l \in Launches, Listen(l)
  PROVE  IInv'
<1> USE DEF IInv, Listen, Advance, Follows, launchVars, fileVars, scriptVars, Alive, Holds
<1>1. TypeOK'
  BY ConfOf, OwnPids DEF TypeOK, Steps, Stages, Processes, Configured
<1>2. Processes'
  BY OwnPids DEF TypeOK, Processes
<1>3. Stages'
  BY DEF TypeOK, Stages
<1>4. Locked'
  BY DEF TypeOK, Stages, Locked
<1>5. Named'
  BY ConfOf DEF TypeOK, Stages, Named, PidFile
<1>6. Written'
  BY HoldersDistinct DEF TypeOK, Stages, Written
<1>7. Configured'
  BY ConfOf DEF TypeOK, Stages, Configured, PidFile, Named
<1>8. PathsUsed'
  BY DEF TypeOK, PathsUsed
<1> QED
  BY <1>1, <1>2, <1>3, <1>4, <1>5, <1>6, <1>7, <1>8

LEMMA ReloadPidStep ==
  ASSUME IInv, NEW l \in Launches, ReloadPid(l)
  PROVE  IInv'
<1> USE DEF IInv, ReloadPid, Advance, Follows, launchVars, fileVars, scriptVars, Alive, Holds
<1>1. TypeOK'
  BY ConfOf, OwnPids DEF TypeOK, Steps, Stages, Processes, Configured
<1>2. Processes'
  BY OwnPids DEF TypeOK, Processes
<1>3. Stages'
  BY DEF TypeOK, Stages
<1>4. Locked'
  <2> SUFFICES ASSUME NEW m \in Launches, Holds(m)'
               PROVE  lock'[fd'[m]] = pid'[m]
    BY DEF Locked
  <2>1. m # l /\ Holds(m) /\ fd'[m] = fd[m] /\ pid'[m] = pid[m]
    BY DEF TypeOK
  <2>2. lock[fd[m]] = pid[m] /\ (fd[l] # None => fd[m] # fd[l])
    BY <2>1, HoldersDistinct DEF Locked
  <2> QED
    BY <2>1, <2>2 DEF TypeOK
<1>5. Named'
  BY ConfOf DEF TypeOK, Stages, Named, PidFile
<1>6. Written'
  BY HoldersDistinct DEF TypeOK, Stages, Written
<1>7. Configured'
  BY ConfOf DEF TypeOK, Stages, Configured, PidFile, Named
<1>8. PathsUsed'
  BY DEF TypeOK, PathsUsed
<1> QED
  BY <1>1, <1>2, <1>3, <1>4, <1>5, <1>6, <1>7, <1>8

LEMMA ReloadFailsStep ==
  ASSUME IInv, NEW l \in Launches, ReloadFails(l)
  PROVE  IInv'
<1> USE DEF IInv, ReloadFails, Advance, Follows, launchVars, fileVars, scriptVars, Alive, Holds
<1>1. TypeOK'
  BY ConfOf, OwnPids DEF TypeOK, Steps, Stages, Processes, Configured
<1>2. Processes'
  BY OwnPids DEF TypeOK, Processes
<1>3. Stages'
  BY DEF TypeOK, Stages
<1>4. Locked'
  BY DEF TypeOK, Stages, Locked
<1>5. Named'
  BY ConfOf DEF TypeOK, Stages, Named, PidFile
<1>6. Written'
  BY HoldersDistinct DEF TypeOK, Stages, Written
<1>7. Configured'
  BY ConfOf DEF TypeOK, Stages, Configured, PidFile, Named
<1>8. PathsUsed'
  BY DEF TypeOK, PathsUsed
<1> QED
  BY <1>1, <1>2, <1>3, <1>4, <1>5, <1>6, <1>7, <1>8

LEMMA BeginDestroyStep ==
  ASSUME IInv, NEW l \in Launches, BeginDestroy(l)
  PROVE  IInv'
<1> USE DEF IInv, BeginDestroy, Advance, Follows, launchVars, fileVars, scriptVars, Alive, Holds
<1>1. TypeOK'
  BY ConfOf, OwnPids DEF TypeOK, Steps, Stages, Processes, Configured
<1>2. Processes'
  BY OwnPids DEF TypeOK, Processes
<1>3. Stages'
  BY DEF TypeOK, Stages
<1>4. Locked'
  BY DEF TypeOK, Stages, Locked
<1>5. Named'
  BY ConfOf DEF TypeOK, Stages, Named, PidFile
<1>6. Written'
  BY HoldersDistinct DEF TypeOK, Stages, Written
<1>7. Configured'
  BY ConfOf DEF TypeOK, Stages, Configured, PidFile, Named
<1>8. PathsUsed'
  BY DEF TypeOK, PathsUsed
<1> QED
  BY <1>1, <1>2, <1>3, <1>4, <1>5, <1>6, <1>7, <1>8

LEMMA DestroyPidStep ==
  ASSUME IInv, NEW l \in Launches, DestroyPid(l)
  PROVE  IInv'
<1> USE DEF IInv, DestroyPid, Advance, Follows, launchVars, fileVars, scriptVars, Alive, Holds
<1>1. TypeOK'
  BY ConfOf, OwnPids DEF TypeOK, Steps, Stages, Processes, Configured
<1>2. Processes'
  BY OwnPids DEF TypeOK, Processes
<1>3. Stages'
  BY DEF TypeOK, Stages
<1>4. Locked'
  <2> SUFFICES ASSUME NEW m \in Launches, Holds(m)'
               PROVE  lock'[fd'[m]] = pid'[m]
    BY DEF Locked
  <2>1. m # l /\ Holds(m) /\ fd'[m] = fd[m] /\ pid'[m] = pid[m]
    BY DEF TypeOK
  <2>2. lock[fd[m]] = pid[m] /\ (fd[l] # None => fd[m] # fd[l])
    BY <2>1, HoldersDistinct DEF Locked
  <2> QED
    BY <2>1, <2>2 DEF TypeOK
<1>5. Named'
  BY ConfOf DEF TypeOK, Stages, Named, PidFile
<1>6. Written'
  BY HoldersDistinct DEF TypeOK, Stages, Written
<1>7. Configured'
  BY ConfOf DEF TypeOK, Stages, Configured, PidFile, Named
<1>8. PathsUsed'
  BY DEF TypeOK, PathsUsed
<1> QED
  BY <1>1, <1>2, <1>3, <1>4, <1>5, <1>6, <1>7, <1>8

LEMMA DieStep ==
  ASSUME IInv, NEW l \in Launches, Die(l)
  PROVE  IInv'
<1> USE DEF IInv, Die, Advance, Follows, launchVars, fileVars, scriptVars, Alive, Holds, ReleaseAll
<1>1. TypeOK'
  BY ConfOf, OwnPids DEF TypeOK, Steps, Stages, Processes, Configured
<1>2. Processes'
  BY OwnPids DEF TypeOK, Processes
<1>3. Stages'
  BY DEF TypeOK, Stages
<1>4. Locked'
  <2> SUFFICES ASSUME NEW m \in Launches, Holds(m)'
               PROVE  lock'[fd'[m]] = pid'[m]
    BY DEF Locked
  <2>1. m # l /\ Holds(m) /\ fd'[m] = fd[m] /\ pid'[m] = pid[m]
    BY DEF TypeOK
  <2>2. lock[fd[m]] = pid[m] /\ pid[m] \in Own(m) /\ pid[l] \in Own(l) /\ fd[m] \in Inodes
    BY <2>1 DEF Locked, Processes, TypeOK
  <2>3. pid[m] # pid[l]
    BY <2>1, <2>2, OwnDistinct
  <2> QED
    BY <2>1, <2>2, <2>3 DEF TypeOK
<1>5. Named'
  BY ConfOf DEF TypeOK, Stages, Named, PidFile
<1>6. Written'
  BY HoldersDistinct DEF TypeOK, Stages, Written
<1>7. Configured'
  BY ConfOf DEF TypeOK, Stages, Configured, PidFile, Named
<1>8. PathsUsed'
  BY DEF TypeOK, PathsUsed
<1> QED
  BY <1>1, <1>2, <1>3, <1>4, <1>5, <1>6, <1>7, <1>8

LEMMA CleanupStep ==
  ASSUME IInv, NEW l \in Launches, Cleanup(l)
  PROVE  IInv'
<1> USE DEF IInv, Cleanup, Advance, Follows, launchVars, fileVars, scriptVars, Alive, Holds
<1>1. TypeOK'
  BY ConfOf, OwnPids DEF TypeOK, Steps, Stages, Processes, Configured
<1>2. Processes'
  BY OwnPids DEF TypeOK, Processes
<1>3. Stages'
  BY DEF TypeOK, Stages
<1>4. Locked'
  BY HoldersDistinct DEF TypeOK, Stages, Locked, Processes
<1>5. Named'
  BY ConfOf DEF TypeOK, Stages, Named, PidFile
<1>6. Written'
  BY HoldersDistinct DEF TypeOK, Stages, Written
<1>7. Configured'
  BY ConfOf DEF TypeOK, Stages, Configured, PidFile, Named
<1>8. PathsUsed'
  BY DEF TypeOK, PathsUsed
<1> QED
  BY <1>1, <1>2, <1>3, <1>4, <1>5, <1>6, <1>7, <1>8

LEMMA NextIInv == IInv /\ [Next]_vars => IInv'
<1> SUFFICES ASSUME IInv, [Next]_vars PROVE IInv'
  OBVIOUS
<1>1. CASE Next
  BY <1>1, LaunchStep, ForkStep, OpenStep, LockStep, TruncateStep, WriteStep, ListenStep,
     ReloadPidStep, ReloadFailsStep, BeginDestroyStep, DestroyPidStep, DieStep,
     CleanupStep DEF Next
<1>2. CASE UNCHANGED vars
  BY <1>2 DEF vars, launchVars, fileVars, scriptVars, IInv, TypeOK, Processes, Stages, Locked,
     Holds, Alive, Named, Written, Configured, PathsUsed, PidFile
<1> QED
  BY <1>1, <1>2

THEOREM IInvAlways == Spec => []IInv
  BY InitIInv, NextIInv, PTL DEF Spec

-----------------------------------------------------------------------------
\* Every variable keeps its type, and a launch past open() has the pid file open.
THEOREM TypeCorrect == Spec => []TypeOK
<1>1. IInv => TypeOK
  BY DEF IInv
<1> QED
  BY <1>1, IInvAlways, PTL

\* acquire_pid_file and on_reload_pid: however many launches race for a pid file, at
\* most one is past the lock, until the script deletes the file.
THEOREM LockExclusiveAlways == Spec => []LockExclusive
<1>1. ASSUME IInv, NEW l \in Launches, NEW m \in Launches, Holds(l), Holds(m),
             PidFile(l) = PidFile(m), PidFile(l) \notin cleaned
      PROVE  l = m
  <2>1. fd[l] = path[PidFile(l)] /\ fd[m] = path[PidFile(m)]
    BY <1>1 DEF IInv, Named, Holds
  <2> QED
    BY <1>1, <2>1, HoldersDistinct
<1>2. IInv => LockExclusive
  BY <1>1 DEF LockExclusive
<1> QED
  BY <1>2, IInvAlways, PTL

\* The pid that the init.d script reads is the one of the server that has the pid
\* file, until the script deletes the file.
THEOREM PidFileNamesAlways == Spec => []PidFileNamesServerUncleaned
<1>1. ASSUME IInv, NEW l \in Launches, pc[l] \in {"run", "close"}, fd[l] # None,
             PidFile(l) \notin cleaned
      PROVE  PidFileNames(l)
  <2>1. path[PidFile(l)] = fd[l] /\ content[fd[l]] = pid[l] /\ lock[fd[l]] = pid[l]
    BY <1>1 DEF IInv, Named, Written, Locked, Holds
  <2> QED
    BY <1>1, <2>1 DEF PidFileNames
<1>2. IInv => PidFileNamesServerUncleaned
  BY <1>1 DEF PidFileNamesServerUncleaned
<1> QED
  BY <1>2, IInvAlways, PTL
=============================================================================
