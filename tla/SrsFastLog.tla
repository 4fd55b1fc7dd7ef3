----------------------------- MODULE SrsFastLog ----------------------------
(***************************************************************************)
(* The log (src/base/app_log.cpp) in the table of file descriptors it      *)
(* shares with the server: the pid file, the signal pipe, the listener and *)
(* the clients.  SrsFastLog opens its file at the first line and keeps the *)
(* number; whoever closes a number it no longer owns closes the log, and   *)
(* a number the log keeps too long becomes a client's.                     *)
(*                                                                         *)
(* The on_reload handlers are called by the owner of the configuration,    *)
(* which this program does not have: it is external, changes one item of   *)
(* the configuration before it calls the item's handler, and calls one     *)
(* handler at a time.                                                      *)
(***************************************************************************)
EXTENDS ConfigInfo, Sequences, FiniteSets

CONSTANTS
    LogMax,         \* LOG_MAX_SIZE: the size of log_data
    Files,          \* the configuration files there may be
    MaxPart,        \* bound: the length of a header, of a message, of a strerror()
    MaxClients,     \* bound: the clients connected at a time
    Descriptors     \* bound: the descriptors of the process are 0..Descriptors

ASSUME LogAssumption ==
    /\ LogMax \in Nat /\ LogMax > 2
    /\ MaxPart \in Nat /\ Descriptors \in Nat
    /\ \A f \in Files : IsFile(f)

VARIABLES
    table,          \* what every descriptor of the process refers to
    fd,             \* SrsFastLog::fd
    tank,           \* log_to_file_tank
    level,          \* _level
    log_file,       \* the configuration's log_file
    pid_fd,         \* SrsServer::pid_fd
    listen_fd,      \* SrsListener::fd
    clients,        \* the descriptors that connections own
    phase,          \* how far the main thread is
    target,         \* history: what the last line was written to
    stale           \* history: the log was left with a number it does not own

logVars == <<fd, tank, level, log_file>>
serverVars == <<pid_fd, listen_fd, clients, phase>>
vars == <<table, logVars, serverVars, target, stale>>

Trace == 3
Error == 5
Disabled == 6

\* srs_get_log_level
LogLevel(text) ==
    CASE text = "verbose" -> 1 [] text = "info" -> 2 [] text = "trace" -> Trace
      [] text = "warn" -> 4 [] text = "error" -> Error
      [] OTHER -> Disabled

\* What the files may say.
Tanks == {GetLogTankFile(f) : f \in Files}
Levels == {LogLevel(GetLogLevel(f)) : f \in Files}
Names == {GetLogFileName(f) : f \in Files}
LogFiles == Names \ {""}
Lines == Levels \ {Disabled}

Closed == "closed"
NoFd == -1

\* A log file is told from the other things that a descriptor refers to.
ASSUME NamesAssumption ==
    LogFiles \cap {"std", "pid", "epoll", "listen", "pipe", "client", Closed, "none"} = {}

\* What startup opens: the pid file, epoll, the listener, the signal pipe.
StartupFiles == <<"pid", "epoll", "listen", "pipe", "pipe">>
\* After startup: the server runs; ~SrsListener waits for its thread, in destroy() or
\* in on_reload_listen(); a new listener follows, which may fail to listen.
Running == Len(StartupFiles) + 1
Joining == Running + 1
Drain == Running + 2
Rejoining == Running + 3
Relisten == Running + 4
Unserved == Running + 5

Free(t) == {f \in DOMAIN t : t[f] = Closed}
Lowest(t) == CHOOSE f \in Free(t) : \A g \in Free(t) : f <= g
\* open(2), socket(2), accept(2): the lowest number; close(2): no one is asked.
Opened(t, file) == [t EXCEPT ![Lowest(t)] = file]
CloseFd(t, f) == IF f \in DOMAIN t THEN [t EXCEPT ![f] = Closed] ELSE t

\* Mutants of OpenLogFile: a failed open leaves -errno; the number is only
\* replaced by an open that succeeds.
OpenLogFile_Errno(t, f, name) ==
    IF name = "" THEN {<<t, f>>}
    ELSE {<<t, NoFd - 1>>} \cup (IF Free(t) = {} THEN {} ELSE {<<Opened(t, name), Lowest(t)>>})
OpenLogFile_KeepsNumber(t, f, name) ==
    IF name = "" THEN {<<t, f>>}
    ELSE {<<t, f>>} \cup (IF Free(t) = {} THEN {} ELSE {<<Opened(t, name), Lowest(t)>>})

\* open_log_file(): the table and the number it may leave; without a name it does
\* nothing, and open(2) may fail.
OpenLogFile(t, f, name) ==
    IF name = "" THEN {<<t, f>>}
    ELSE {<<t, NoFd>>} \cup (IF Free(t) = {} THEN {} ELSE {<<Opened(t, name), Lowest(t)>>})

-----------------------------------------------------------------------------
Least(a, b) == IF a < b THEN a ELSE b
Most(a, b) == IF a > b THEN a ELSE b

\* snprintf(log_data + at, LogMax - at, ...) of n characters: the bytes of log_data
\* touched.  Past the end of log_data the room is negative, which is no limit.
Touched(at, n) == IF at < LogMax THEN Least(at + n + 1, LogMax)
                  ELSE IF at = LogMax THEN 0 ELSE at + n + 1

\* A line whose message begins at `at' and whose tail is put at `room' at the latest.
LineIn(l, h, at, n, e, room) ==
    LET size == at + n
        reason == l = Error /\ e > 0
        kept == Least(room, IF reason THEN size + e ELSE size)
    IN  [touched |-> Most(Most(Touched(0, h), Touched(at, n)),
                          Most(IF reason THEN Touched(size, e) ELSE 0, kept + 1)),
         size |-> kept + 1,
         overlong |-> reason /\ size > LogMax]

\* Mutant of LineOf: the tail has no room kept.
LineOf_NoTailRoom(l, h, n, e) == LineIn(l, h, Least(LogMax - 1, h), n, e, LogMax)

\* A line of level l: generate_header (h), the message (n), for an error with an
\* errno the strerror (e is its length with the parentheses, 0 without errno), and
\* the tail of write_log.
LineOf(l, h, n, e) == LineIn(l, h, Least(LogMax - 1, h), n, e, LogMax - 2)

\* write_log(): to the console, or to the file, opened if it never was; number 0
\* is not written to.
WriteLog(t) ==
    IF ~tank THEN table' = t /\ UNCHANGED <<fd, target>>
    ELSE \E r \in IF fd < 0 THEN OpenLogFile(t, fd, log_file) ELSE {<<t, fd>>} :
             /\ table' = r[1] /\ fd' = r[2]
             /\ target' = IF r[2] > 0 THEN r[1][r[2]] ELSE "none"

-----------------------------------------------------------------------------
\* SrsFastLog::initialize has read the configuration; the process may have been
\* started without a standard input.
Init ==
    /\ table \in {[f \in 0..Descriptors |-> IF f \in std THEN "std" ELSE Closed] :
                     std \in {0..2, 1..2}}
    /\ fd = NoFd
    /\ \E f \in Files : /\ tank = GetLogTankFile(f)
                       /\ level = LogLevel(GetLogLevel(f))
                       /\ log_file = GetLogFileName(f)
    /\ pid_fd = NoFd /\ listen_fd = NoFd /\ clients = {} /\ phase = 1
    /\ target = "none" /\ stale = FALSE

\* verbose(), info(), trace(), warn(), error(): whoever logs, at any time.
Log(l) ==
    /\ level <= l
    /\ WriteLog(table)
    /\ UNCHANGED <<tank, level, log_file, serverVars, stale>>

\* A line of level l is written while the table becomes t.
LogAfter(t, l) ==
    IF level <= l THEN WriteLog(t) ELSE table' = t /\ UNCHANGED <<fd, target>>

\* Startup opens its next file; listen() ends with a trace.
Startup ==
    /\ phase < Running /\ Free(table) # {}
    /\ LET t == Opened(table, StartupFiles[phase])
           file == StartupFiles[phase]
       IN  /\ listen_fd' = IF file = "listen" THEN Lowest(table) ELSE listen_fd
           /\ pid_fd' = IF file = "pid" THEN Lowest(table) ELSE pid_fd
           /\ IF file = "listen" THEN LogAfter(t, Trace)
              ELSE table' = t /\ UNCHANGED <<fd, target>>
    /\ phase' = phase + 1
    /\ UNCHANGED <<tank, level, log_file, clients, stale>>

\* The listener accepts a client.
Accept ==
    /\ phase = Running /\ Cardinality(clients) < MaxClients /\ Free(table) # {}
    /\ table' = Opened(table, "client")
    /\ clients' = clients \cup {Lowest(table)}
    /\ UNCHANGED <<logVars, pid_fd, listen_fd, phase, target, stale>>

\* The client's connection is freed; srs_close_stfd closes the number twice, and
\* nothing runs between the two.
Disconnect(f) ==
    /\ f \in clients
    /\ table' = CloseFd(table, f)
    /\ clients' = clients \ {f}
    /\ UNCHANGED <<logVars, pid_fd, listen_fd, phase, target, stale>>

\* ~SrsListener: srs_close_stfd(stfd), then stop() waits for the thread: for
\* destroy(), or for on_reload_listen().
CloseListener ==
    /\ phase = Running
    /\ table' = CloseFd(table, listen_fd)
    /\ phase' \in {Joining, Rejoining}
    /\ UNCHANGED <<logVars, pid_fd, listen_fd, clients, target, stale>>

\* The thread is joined: close(fd) once more, whatever the number is by now.  After
\* it destroy() closes the pid file.
CloseListenerAgain ==
    /\ phase \in {Joining, Rejoining}
    /\ stale' = (stale \/ fd = listen_fd)
    /\ LET t == CloseFd(table, listen_fd)
       IN  IF phase = Joining /\ pid_fd > 0
           THEN table' = CloseFd(t, pid_fd) /\ pid_fd' = NoFd
           ELSE table' = t /\ UNCHANGED pid_fd
    /\ phase' = IF phase = Joining THEN Drain ELSE Relisten
    /\ UNCHANGED <<logVars, listen_fd, clients, target>>

\* on_reload_listen() goes on: the new listener's listen(), which may fail, with a
\* socket or without one, and says so.
ListenAgain ==
    /\ phase = Relisten
    /\ \/ /\ Free(table) # {}
          /\ listen_fd' = Lowest(table)
          /\ \/ phase' = Running /\ LogAfter(Opened(table, "listen"), Trace)
             \/ phase' = Unserved /\ LogAfter(Opened(table, "listen"), Error)
       \/ /\ listen_fd' = NoFd
          /\ phase' = Unserved /\ LogAfter(table, Error)
    /\ UNCHANGED <<tank, level, log_file, pid_fd, clients, stale>>

\* The next on_reload_listen() frees a listener that has no thread and no stfd.
FreeUnserved ==
    /\ phase = Unserved
    /\ table' = CloseFd(table, listen_fd)
    /\ phase' = Relisten
    /\ UNCHANGED <<logVars, pid_fd, listen_fd, clients, target, stale>>

-----------------------------------------------------------------------------
\* Close the file and open it under its name of now; without a name the closed
\* number stays.
Reopen(name) ==
    /\ stale' = (stale \/ (fd > 0 /\ name = ""))
    /\ \E r \in OpenLogFile(IF fd > 0 THEN CloseFd(table, fd) ELSE table, fd, name) :
           table' = r[1] /\ fd' = r[2]

\* Mutant of ReloadLogTank: the file that is open is kept.
ReloadLogTank_Keeps(to_file) ==
    /\ tank' = to_file
    /\ UNCHANGED <<table, fd, level, log_file, serverVars, target, stale>>

\* on_reload_log_tank(): reopen when the tank turns to the file.
ReloadLogTank(to_file) ==
    /\ tank' = to_file
    /\ IF ~tank /\ to_file THEN Reopen(log_file) ELSE UNCHANGED <<table, fd, stale>>
    /\ UNCHANGED <<level, log_file, serverVars, target>>

\* on_reload_log_level()
ReloadLogLevel(l) ==
    /\ level' = l
    /\ UNCHANGED <<table, fd, tank, log_file, serverVars, target, stale>>

\* Mutant of ReloadLogFile: the old file is not closed.
ReloadLogFile_NoClose(name) ==
    /\ log_file' = name
    /\ IF tank
       THEN /\ stale' = (stale \/ (fd > 0 /\ name = ""))
            /\ \E r \in OpenLogFile(table, fd, name) : table' = r[1] /\ fd' = r[2]
       ELSE UNCHANGED <<table, fd, stale>>
    /\ UNCHANGED <<tank, level, serverVars, target>>

\* on_reload_log_file(): reopen when the tank is the file.
ReloadLogFile(name) ==
    /\ log_file' = name
    /\ IF tank THEN Reopen(name) ELSE UNCHANGED <<table, fd, stale>>
    /\ UNCHANGED <<tank, level, serverVars, target>>

\* One handler at a time is called, and none in destroy().  Bound: none is once `stale'.
MayReload == ~stale /\ phase \notin {Joining, Rejoining, Relisten}

Next ==
    \/ \E l \in Lines : Log(l)
    \/ Startup \/ Accept
    \/ CloseListener \/ CloseListenerAgain \/ ListenAgain \/ FreeUnserved
    \/ \E f \in 0..Descriptors : Disconnect(f)
    \/ MayReload /\ \E b \in Tanks : ReloadLogTank(b)
    \/ \E l \in Levels : ReloadLogLevel(l)
    \/ MayReload /\ \E name \in Names : ReloadLogFile(name)

Spec == Init /\ [][Next]_vars

-----------------------------------------------------------------------------
Kinds == LogFiles \cup {"std", "pid", "epoll", "listen", "pipe", "client"}

\* Every variable keeps its type.
TypeOK ==
    /\ table \in [0..Descriptors -> Kinds \cup {Closed}]
    /\ fd \in NoFd..Descriptors
    /\ pid_fd \in NoFd..Descriptors /\ listen_fd \in NoFd..Descriptors
    /\ tank \in Tanks /\ level \in Levels /\ log_file \in Names
    /\ clients \subseteq 0..Descriptors /\ phase \in 1..Unserved
    /\ target \in Kinds \cup {Closed, "none"} /\ stale \in BOOLEAN

\* A line for the file reaches the configured log file and nothing else, no client and
\* no pid file, across lazy opens, reloads, failed opens and clients that come and go:
\* "log to file if specified srs_log_file".  The code keeps that but for the line whose
\* open fails, and for every line once the log's number is 0: write_log() writes to
\* numbers above 0 and opens the file only below.  Left out are the two places of
\* `stale': a reload to an empty name, and a log first opened while the listener is
\* torn down.
Delivered ==
    \/ target' = log_file
    \/ target' = "none" /\ (log_file = "" \/ fd' \in {NoFd, 0})
LinesReachLog ==
    [][tank /\ ~stale /\ ((\E l \in Lines : Log(l)) \/ target' # target) => Delivered]_vars

\* While the tank is the file, the number the log keeps is open on the configured
\* log file.
LogFileCurrent == ~stale /\ tank /\ fd > 0 => table[fd] = log_file

\* Closing the log, and reopening it, never closes a client's connection or makes
\* two of one number.
ClientsKept == ~stale => \A f \in clients : table[f] = "client"

\* Reloads leak no descriptor (but the number 0, which is taken for closed).
OneLogFile == Cardinality({f \in 1..Descriptors : table[f] \in LogFiles}) <= 1

\* The levels whose lines stay inside log_data and leave room for the tail and for the
\* end of the string, whatever their parts: but an error that is already overlong when
\* its strerror() is appended (error(), generate_header(), write_log()).
FittingLines ==
    {l \in Lines : \A h, n, e \in 0..MaxPart :
        LET line == LineOf(l, h, n, e)
        IN  /\ line.size < LogMax
            /\ ~line.overlong => line.touched <= LogMax}

\* Every line that is written fits.
LineFits == \A l \in Lines : level <= l => l \in FittingLines
=============================================================================
