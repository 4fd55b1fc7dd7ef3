----------------------------- MODULE SrsStartup ----------------------------
(***************************************************************************)
(* The startup workflow of src/main.cpp, run by several launches of the    *)
(* program on one machine, each with a configuration file of its own       *)
(* choice, and the pid file of SrsServer::acquire_pid_file and             *)
(* on_reload_pid (src/base/app_server.cpp).                                *)
(*                                                                         *)
(* A launch goes on one system call of importance at a time; the launches  *)
(* interleave, any step may fail, any launch may be killed at any point,   *)
(* and the kernel then drops its locks and its socket.  A pid file is an   *)
(* inode that a path names: the program opens or creates it and never      *)
(* deletes it.  The init.d script may do what the remark at                *)
(* app_server.h:15 asks: delete the pid file of a stopped service.         *)
(* on_reload_pid is called by the owner of the configuration, which this   *)
(* program does not have: it is external.                                  *)
(***************************************************************************)
EXTENDS ConfigInfo

CONSTANTS
    Launches,       \* the times the program is started
    Files,          \* the configuration files they may be given
    Inodes,         \* bound: the inodes the paths may name in turn
    None            \* no launch, no process, no inode

ASSUME NoneAssumption ==
    None \notin Launches /\ None \notin Inodes /\ None \notin Launches \X {"first", "daemon"}
ASSUME FilesAssumption == \A f \in Files : IsFile(f)

VARIABLES
    pc,             \* the next step of each launch
    conf,           \* its configuration file
    serving,        \* the launches that have come as far as cycle()
    pid,            \* the process that takes the step
    fd,             \* the inode behind the fd of acquire_pid_file, and then pid_fd
    path,           \* the inode that the path of a pid file names
    used,           \* inodes that have been created
    content,        \* the process whose pid an inode holds
    lock,           \* the process that holds the write lock of an inode
    port,           \* the process that listens on a port
    stopped,        \* launches that have served and whose pid file is not cleaned up
    cleaned         \* history: the pid files that the script has deleted

launchVars == <<pc, conf, serving, pid>>
fileVars == <<path, used, content, lock>>
scriptVars == <<stopped, cleaned>>
vars == <<launchVars, fd, fileVars, port, scriptVars>>

\* close: destroy() waits for the listener's thread; drain: for the connections.
Steps == {"off", "fork", "open", "lock", "truncate", "write", "listen", "run", "close",
          "drain", "dead"}

PidFile(l) == GetPidFile(conf[l])
Paths == {GetPidFile(f) : f \in Files} \ {""}
Ports == {GetListen(f) : f \in Files}

\* The process that was started, and the grandson that goes on as the daemon.
First(l) == <<l, "first">>
Daemon(l) == <<l, "daemon">>
Pids == Launches \X {"first", "daemon"}

Alive(l) == pc[l] \notin {"off", "dead"}
MaxThreads == 32756

\* Mutant of Follows: the file is truncated as it is opened.
Follows_TruncateFirst(l, s) ==
    CASE s = "fork" -> "open" [] s = "open" -> "truncate" [] s = "truncate" -> "lock"
      [] s = "lock" -> "write"
      [] s = "write" -> IF l \in serving THEN "run" ELSE "listen"
      [] s = "listen" -> "run"

\* run() and run_master(), with acquire_pid_file unfolded; a server that reloads its
\* pid file goes back to serving.
Follows(l, s) ==
    CASE s = "fork" -> "open" [] s = "open" -> "lock" [] s = "lock" -> "truncate"
      [] s = "truncate" -> "write"
      [] s = "write" -> IF l \in serving THEN "run" ELSE "listen"
      [] s = "listen" -> "run"

-----------------------------------------------------------------------------
Init ==
    /\ pc = [l \in Launches |-> "off"]
    /\ conf \in [Launches -> Files]
    /\ serving = {}
    /\ pid = [l \in Launches |-> None]
    /\ fd = [l \in Launches |-> None]
    /\ path = [p \in Paths |-> None] /\ used = {}
    /\ content = [i \in Inodes |-> None]
    /\ lock = [i \in Inodes |-> None]
    /\ port = [n \in Ports |-> None]
    /\ stopped = {} /\ cleaned = {}

\* Moves launch l past step s of the workflow.
Advance(l, s) == pc[l] = s /\ pc' = [pc EXCEPT ![l] = Follows(l, s)]

\* What the kernel does when process p ends.
ReleaseAll(p) ==
    /\ lock' = [i \in Inodes |-> IF lock[i] = p THEN None ELSE lock[i]]
    /\ port' = [n \in Ports |-> IF port[n] = p THEN None ELSE port[n]]

\* main(): the configuration is read, the log and the server are initialised.
Launch(l) ==
    /\ pc[l] = "off"
    /\ pc' = [pc EXCEPT ![l] = IF Load(conf[l]) = "success" THEN "fork" ELSE "dead"]
    /\ pid' = [pid EXCEPT ![l] = First(l)]
    /\ UNCHANGED <<conf, serving, fd, fileVars, port, scriptVars>>

\* run(): without daemon the process goes on itself; with it, it forks twice, the
\* two parents exit and the son, another process, goes on.
Fork(l) ==
    /\ Advance(l, "fork")
    /\ IF GetDaemon(conf[l])
       THEN pid' = [pid EXCEPT ![l] = Daemon(l)] /\ ReleaseAll(pid[l])
       ELSE UNCHANGED <<pid, lock, port>>
    /\ UNCHANGED <<conf, serving, fd, path, used, content, scriptVars>>

\* Mutant of Open: without O_CREAT, and without a look at the result.
Open_NoCreate(l) ==
    /\ Advance(l, "open")
    /\ PidFile(l) # ""
    /\ fd' = [fd EXCEPT ![l] = path[PidFile(l)]]
    /\ UNCHANGED <<conf, serving, pid, fileVars, port, scriptVars>>

\* open(O_WRONLY | O_CREAT), which fails for an empty path.
Open(l) ==
    /\ Advance(l, "open")
    /\ PidFile(l) # ""
    /\ LET p == PidFile(l)
       IN  IF path[p] # None
           THEN fd' = [fd EXCEPT ![l] = path[p]] /\ UNCHANGED <<path, used>>
           ELSE \E i \in Inodes \ used :
                   /\ path' = [path EXCEPT ![p] = i]
                   /\ used' = used \cup {i}
                   /\ fd' = [fd EXCEPT ![l] = i]
    /\ UNCHANGED <<conf, serving, pid, content, lock, port, scriptVars>>

\* fcntl(F_SETLK): when another process holds the lock, "srs is already running"
\* and acquire_pid_file returns an error.
Lock(l) ==
    /\ Advance(l, "lock")
    /\ lock[fd[l]] \in {None, pid[l]}
    /\ lock' = [lock EXCEPT ![fd[l]] = pid[l]]
    /\ UNCHANGED <<conf, serving, pid, fd, path, used, content, port, scriptVars>>

Truncate(l) ==
    /\ Advance(l, "truncate")
    /\ content' = [content EXCEPT ![fd[l]] = None]
    /\ UNCHANGED <<conf, serving, pid, fd, path, used, lock, port, scriptVars>>

\* write() of getpid(), then FD_CLOEXEC and pid_fd.
Write(l) ==
    /\ Advance(l, "write")
    /\ content' = [content EXCEPT ![fd[l]] = pid[l]]
    /\ UNCHANGED <<conf, serving, pid, fd, path, used, lock, port, scriptVars>>

\* initialize_st, which State Threads' stacks let have no more threads; then listen(),
\* register_signal() and cycle().  bind() fails when another process listens; for port
\* 0 it takes any free one.
Listen(l) ==
    /\ Advance(l, "listen")
    /\ GetMaxConnections(conf[l]) <= MaxThreads
    /\ LET n == GetListen(conf[l])
       IN  IF n = 0 THEN UNCHANGED port
           ELSE port[n] = None /\ port' = [port EXCEPT ![n] = pid[l]]
    /\ serving' = serving \cup {l}
    /\ UNCHANGED <<conf, pid, fd, fileVars, scriptVars>>

-----------------------------------------------------------------------------
\* on_reload_pid(): close(pid_fd), which drops the lock, then acquire_pid_file().
ReloadPid(l) ==
    /\ pc[l] = "run"
    /\ pc' = [pc EXCEPT ![l] = "open"]
    /\ fd' = [fd EXCEPT ![l] = None]
    /\ lock' = IF fd[l] = None THEN lock ELSE [lock EXCEPT ![fd[l]] = None]
    /\ UNCHANGED <<conf, serving, pid, path, used, content, port, scriptVars>>

\* Mutant of ReloadFails: pid_fd is what open has given.
ReloadFails_KeepsFd(l) ==
    /\ l \in serving /\ pc[l] \in {"open", "lock", "truncate", "write"}
    /\ pc' = [pc EXCEPT ![l] = "run"]
    /\ UNCHANGED <<conf, serving, pid, fd, fileVars, port, scriptVars>>

\* acquire_pid_file() fails: the server goes on without a pid_fd; the file stays open,
\* and locked if it was.
ReloadFails(l) ==
    /\ l \in serving /\ pc[l] \in {"open", "lock", "truncate", "write"}
    /\ pc' = [pc EXCEPT ![l] = "run"]
    /\ fd' = [fd EXCEPT ![l] = None]
    /\ UNCHANGED <<conf, serving, pid, fileVars, port, scriptVars>>

\* A gmc build is asked to stop: cycle() calls destroy(), which closes the listening
\* socket and then waits for the listener's thread.
BeginDestroy(l) ==
    /\ pc[l] = "run"
    /\ pc' = [pc EXCEPT ![l] = "close"]
    /\ serving' = serving \ {l}
    /\ port' = [n \in Ports |-> IF port[n] = pid[l] THEN None ELSE port[n]]
    /\ UNCHANGED <<conf, pid, fd, fileVars, scriptVars>>

\* destroy() closes pid_fd, and cycle() sleeps while connections are still served.
DestroyPid(l) ==
    /\ pc[l] = "close"
    /\ pc' = [pc EXCEPT ![l] = "drain"]
    /\ fd' = [fd EXCEPT ![l] = None]
    /\ lock' = IF fd[l] = None THEN lock ELSE [lock EXCEPT ![fd[l]] = None]
    /\ UNCHANGED <<conf, serving, pid, path, used, content, port, scriptVars>>

\* A step of the workflow fails and main() returns, a signal ends the process, or
\* it crashes: the descriptors are closed, the pid file stays as it is.
Die(l) ==
    /\ Alive(l)
    /\ pc' = [pc EXCEPT ![l] = "dead"]
    /\ fd' = [fd EXCEPT ![l] = None]
    /\ ReleaseAll(pid[l])
    /\ serving' = serving \ {l}
    /\ stopped' = IF l \in serving \/ pc[l] \in {"close", "drain"} THEN stopped \cup {l}
                  ELSE stopped
    /\ UNCHANGED <<conf, pid, path, used, content, cleaned>>

\* The init.d script, after it has stopped a service.
Cleanup(l) ==
    /\ l \in stopped
    /\ path' = [path EXCEPT ![PidFile(l)] = None]
    /\ stopped' = stopped \ {l}
    /\ cleaned' = cleaned \cup {PidFile(l)}
    /\ UNCHANGED <<launchVars, fd, used, content, lock, port>>

Next ==
    \E l \in Launches :
        \/ Launch(l) \/ Fork(l) \/ Open(l) \/ Lock(l) \/ Truncate(l)
        \/ Write(l) \/ Listen(l) \/ ReloadPid(l) \/ ReloadFails(l)
        \/ BeginDestroy(l) \/ DestroyPid(l) \/ Die(l) \/ Cleanup(l)

Spec == Init /\ [][Next]_vars

-----------------------------------------------------------------------------
\* Every variable keeps its type; a launch in progress is a process, and from the
\* lock on it has the pid file open.
TypeOK ==
    /\ pc \in [Launches -> Steps] /\ conf \in [Launches -> Files]
    /\ \A l \in Launches : pc[l] \in {"lock", "truncate", "write"} => fd[l] \in used
    /\ serving \subseteq {l \in Launches : Alive(l)}
    /\ pid \in [Launches -> Pids \cup {None}]
    /\ fd \in [Launches -> Inodes \cup {None}]
    /\ path \in [Paths -> Inodes \cup {None}]
    /\ used \subseteq Inodes
    /\ content \in [Inodes -> Pids \cup {None}]
    /\ lock \in [Inodes -> Pids \cup {None}]
    /\ port \in [Ports -> Pids \cup {None}]
    /\ stopped \subseteq Launches /\ cleaned \subseteq Paths

\* The launches that hold the pid file: those past acquiring the lock, but for servers
\* whose reload has failed.
Holds(l) == pc[l] \in {"truncate", "write", "listen", "run", "close"} /\ fd[l] # None

\* At most one launch holds a pid file: two programs never write it at the same time,
\* nor go on to listen.  (As long as the script has not deleted one that is open.)
LockExclusive ==
    \A l, m \in Launches :
        Holds(l) /\ Holds(m) /\ PidFile(l) = PidFile(m) /\ PidFile(l) \notin cleaned => l = m

\* While a server runs that has not lost its pid file at a reload, the file at its
\* path is locked by it and holds its pid: pid_fd does "lock the file write when
\* server is running".
PidFileNames(l) ==
    LET i == path[PidFile(l)] IN i # None /\ lock[i] = pid[l] /\ content[i] = pid[l]
PidFileNamesServer ==
    \A l \in Launches : pc[l] \in {"run", "close"} /\ fd[l] # None => PidFileNames(l)

\* The same as long as the script has not deleted the pid file.
PidFileNamesServerUncleaned ==
    \A l \in Launches :
        pc[l] \in {"run", "close"} /\ fd[l] # None /\ PidFile(l) \notin cleaned => PidFileNames(l)
=============================================================================
