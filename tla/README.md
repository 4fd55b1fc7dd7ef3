# A TLA+ model of srslog

srslog is the core of a network server in C++: the thread wrapper, listener,
connection manager, signal handling, statistics, log and start-up of SRS, cut down
to a skeleton into which a protocol is plugged (`src/src/conns`). All of it runs on
State Threads: one process, one kernel thread, cooperative threads that give up
control only in a blocking call. That makes its bugs rare and hard to test. They sit
where control does move: `st_usleep`, `st_accept`, `st_read`, `st_thread_join`, the
end of a thread, a signal handler, and system calls of other processes.

This directory models that core, checks it with TLC and proves part of it with TLAPS.

## The system

| component | state it keeps | operations | what makes it correct |
|---|---|---|---|
| `SrsThread`, `SrsThreadContext` | `tid`, `loop`, `can_run`, `_cid`, the id counter | `start`, `stop`, `stop_loop`, `thread_cycle`, destructor | nobody runs in a deleted object; `start` and `stop` return; a stopped thread runs no further cycle; an id is one thread's |
| `SrsConnection` | its socket and its thread | `start`, `cycle`, `on_thread_stop`, `stop` | it reaps itself, once, after `start` is over |
| `SrsServer` (manager) | `conns`, `listeners`, `kbps`, two signal flags | `accept_client`, `remove`, `cycle`, `do_cycle`, `destroy`, `on_reload_listen`, `on_reload_pid` | exact books, the bound, no admission after the close, a teardown that ends |
| `SrsListener` | the listening socket, its thread | `listen`, `cycle`, destructor | goes on accepting whatever fails; ends when told to |
| `SrsSignalManager` | the pipe, the handlers, its thread | `start`, `sig_catcher`, `cycle`, destructor | no signal lost or invented; a request to stop stops |
| start-up and pid file | the pid file and its record lock, the port | `main`, `run`, `run_master`, `acquire_pid_file`, `initialize_st` | one server past the lock of a pid file at a time, which the file names |
| `SrsKbps`, `SrsKbpsSlice` | per direction: base, last, total, delta, samples | `set_io`, `sample`, `add_delta`, deltas, rates | each byte once, totals never fall |
| `SrsStSocket` | byte counts, time limits | `read`, `read_fully`, `write`, `writev` | exact counts, a timeout told from a lost client, no call without an end |
| cached time | `_srs_system_time_us_cache` | `srs_update_system_time_ms` | tolerates a clock that is set |
| `SrsFastLog` | `fd`, tank, level, `log_data` | five levels, three reloads, `write_log`, `open_log_file` | lines reach the log file only, and fit their buffer |
| `ConfigInfo`, JSON | the map of items | `load_configfile`, `parse_and_check`, getters | defaults; a bad file is refused before anything is taken |
| reload handlers | none | empty defaults, overridden by `SrsFastLog` and `SrsServer` | what the overrides keep |
| `SrsBaseConn`, `SrsBaseServer`, `SrsChargeProtocal` | none of their own | forwarding of the time limits; the calls of `do_cycle` are commented out | the limits reach the socket, each in its direction |

How they meet: `SrsListener::cycle` calls `SrsServer::accept_client`, which lists a new
`SrsConnection` and blocks in its `start()`; the connection's thread calls back
`SrsServer::remove` and is freed there. `sig_catcher` writes to a pipe that
`SrsSignalManager::cycle` reads, which calls `SrsServer::on_signal`, which sets a flag
for `do_cycle` in the main thread. `destroy` stops the listener and the signal manager
from the main thread. `remove` reads the deltas of the connection into the server's
`SrsKbps`. `SrsBaseConn::do_cycle` sets its limits through `SrsBaseServer` and
`SrsChargeProtocal` down to `SrsStSocket`, and `SrsConnection::cycle` classes the error it
returns. `run_master` and the log take their settings from `ConfigInfo`. Everybody logs, and
the log shares the descriptors of the process.

The hard behaviours are listed, each at its line and with the properties that cover it,
under `hazards` in `PROJECT.json`.

## The modules

| module | models | lines up with the code so |
|---|---|---|
| `SrsThread` | one joinable thread and connection threads | an action is the code between two blocking calls; `caller[t]` is the owner's position (in `start` or in `stop`), `pc[t]` the thread's; `intr[t]` is a pending `st_thread_interrupt`, taken by the next blocking call; a connection takes its second id as it enters `cycle` (`LoopOrLeave`) and leaves when `do_cycle` is over (`ConnCycle`); `JoinFails` is the join whose error `stop` only warns about |
| `SrsServer` | listener, connections, main thread | `listener`, `conn[c]` and `main` are positions of the three kinds of thread; `accept_client` is `AcceptDrop`, `AcceptStart`, `AcceptUnstarted`; `remove` is `ConnRemove`, and `ConnRemoveCrash` once `kbps` is NULL; `on_reload_listen` is `BeginReload` and what waits in it, and `ReloadFails` leaves no listener or a "deaf" one, whose socket is open and whose thread is missing; `destroy` is `BeginDestroy`, `ListenerJoined`, `SignalJoined` |
| `ConnPool` | what the manager promises | a bounded pool, closed for good; `SrsServer` maps `conns` to it and `main` to its phase |
| `SrsSignalManager` | handlers, pipe, signal thread, flags | `Catch` is `sig_catcher`, at any moment; `ReadSignal` and `ReadInterrupted` are `cycle`; `MainCycle` a turn of `do_cycle` |
| `ConfigInfo` | the configuration file and what is read of it | operators: `Load` is `load_configfile` and `parse_and_check` with their outcomes, `Get...` the getters with their defaults |
| `SrsStartup` (over `ConfigInfo`) | several launches on one machine, each with its file | `Follows` is the order of `run_master` with `acquire_pid_file` unfolded; a launch takes one system call per step and may die between any two; `ReloadPid` and `ReloadFails` are `on_reload_pid`, `BeginDestroy` and `DestroyPid` what `destroy` gives up on either side of its wait for the listener |
| `SrsStSocket` | one client's connection: `cycle`, `do_cycle`, the socket, the kernel, the client | `Call` begins a method, `Receive`, `ReceiveEnd`, `Transmit`, `FailReset` and `TimeOut` are what happens inside State Threads, `Return` is the rest of the method: `Code` its tests, `Count` its statistics |
| `SrsKbps` | sockets' counts, `SrsKbps` of connections and server, the clock | functions from a slice to the slice that `set_io`, `sample`, `get_recv_bytes_delta` leave; `ResampleKbps` and `Remove` apply them in the order of the code |
| `SrsFastLog` (over `ConfigInfo`) | the log in the table of descriptors | `table[f]` is what number `f` refers to, so a stale number shows; `LineOf` gives the bytes of `log_data` a line touches; `CloseListener` ... `FreeUnserved` are the listener's descriptor through `destroy` and `on_reload_listen` |

`MC*` modules give the constants for TLC; `*Proofs` modules hold the theorems. A
definition named `X_Word` next to `X` is `X` with a bug put in; each property of a
passing run is violated with one of them.

Left abstract on purpose: message texts and formatting (only their lengths), addresses,
socket options, the contents of what is read and written. `SRS_AUTO_GPERF_MC` is a
variable (`gmc`) that never changes, so that both builds are explored.

Points that need a word:

* **`do_cycle` of a connection** is virtual. `SrsServer` lets it block and end. `SrsStSocket`
  keeps the two calls of `SrsBaseConn::do_cycle` that are compiled, the time limits, and lets it
  read and write as it likes where its calls are commented out, stopping at the first error
  that is not a timeout.
* **`SrsKbps` of a connection.** No connection in the repository owns one: the deltas of
  `SrsBaseConn` are the constant 0. The connections of the model do, and call its constructor,
  `set_io` and `sample` in any order, of which the first scenario of `app_kbps.h:95` is one; so
  `SrsKbps` is more general than today's callers.
  `resample_kbps(NULL)` has no caller in the repository; it is a legal call.
* **Reloads.** The handlers exist; no owner of the configuration in the repository calls them. The
  caller is external: it changes one item, calls its handler, one handler at a time, from the
  main thread. `on_reload_listen` frees a listener, which waits for its thread; meanwhile anything
  may happen but another handler.
* **`errno`** belongs to the one kernel thread. A call of State Threads that does not set it leaves
  whatever the last thread left, so `Return` is given any `errno` there.
* **The end of a join.** `stop` may find that `st_thread_join` fails (the TODO at
  `app_thread.cpp:99`). `SrsThread` has that failure at any time, and lets the owner free the
  object under a thread that still runs, which then reads anything (`Reuse`). In `SrsServer`
  and `SrsSignalManager` the joins succeed: the main thread is the only one that joins a listener or
  the signal thread, joins it once, and is not interrupted, so State Threads has no reason to refuse.
* **One start.** An `SrsThread` is started once; nothing in the repository starts one again after `stop`.
* **One slice.** A `SrsKbps` keeps two slices that all operations treat alike. `get_recv_kbps`
  divides by the age of `os` and `get_send_kbps` by that of `is` (`app_kbps.cpp:133,143`);
  `set_io` gives both the same start.

## The runs

| run | instance | what it asks |
|---|---|---|
| `thread` | a joinable thread whose join may fail, two connection threads, ids that do not wrap | no use of a deleted object, no cycle after `stop`, ids that name one thread; `start`, `stop` return, connections reap themselves |
| `thread_overflow` | ids wrap after 3 | **violated**: `start` returns |
| `server` | 3 connection objects, limit 2, the 5 stacks needed or one fewer, queue of 2 | books, no dangling `start`, a thread for each connection if the stacks suffice, the close is final, the queue drains, the teardown ends, across reloads of the listener; refinement of `ConnPool` with its liveness |
| `server_threads` | limit 3 with 4 stacks, as `initialize_st` admits | **violated**: every connection has a thread |
| `server_teardown` | limit 2, stacks to spare | **violated**: no crash in a gmc teardown |
| `signal` | a pipe of 2, 3 signals at any time | order, no loss, exit and teardown only on request, every request ends the process, SIGHUP reaches the flag |
| `signal_garbage` | a pipe of 2, 2 signals | **violated**: `on_signal` is called for caught signals only |
| `startup` | 3 launches, 3 inodes, 8 files: plain, daemon, another pid file, none, no port, too many connections, an item that is no string, unreadable | one past the lock, the pid file names it until the script deletes one or a teardown gives it up |
| `startup_cleanup` | the same as `startup` | **violated**: the pid file names the server, with the script |
| `socket` | calls of 0, 1 or 3 bytes, 3 of them, 3 bytes from the client, a send buffer of 2 | exact statistics, timeouts and lost clients told apart, every call ends |
| `kbps` | 2 connections, 2 sockets each, a byte per socket, clock 1..3, a rate is an int of 5 bits (16 overflows it) | exact totals, each byte once, rates, monotone totals |
| `log` | 3 configuration files (2 log files and none), 1 client, descriptors 0..9, `log_data` of 3 bytes | lines reach the configured file and fit, no descriptor is lost |

Bounds, and why they are enough. Two connections and a listener are the most that a
handshake involves; a third object lets one be reused while others live. A limit of 2
with a third client reaches the drop, the queue and the last stack; with one stack too few
the leak of a connection and all that follows it are in the same run. Ids up to `MaxInt` = 5
are the one of the joinable thread and the two of each connection; 3 make the counter wrap. The pipe of 2 with 3
signals fills and overflows it. Three launches give a running server, its successor and
a rival; three inodes let the script delete a pid file and two more be created. A call of 3
bytes against a buffer of 2 and a client that sends up to 3 is moved in one, two or three parts
and left at any of them; 3 calls are a failure, its retry and one more. Sockets are independent
of each other in `SrsKbps`, and sums of two show a byte counted twice; the clock of 3 readings
goes forward past a window and back. With descriptors 0..9 the start-up, the log, and a client fit
with and without a standard input, and none is left for the next open. Lengths up to 2 in a
buffer of 3 reach every side of each `min` in `write_log`; the theorem covers the rest.
`MaxSignals`, `MaxWire`, `MaxClock`, `Backlog`, `MaxClients`, `Descriptors`,
`Inodes`, `MaxBytes`, `MaxCalls` are the bounds; each is named in its module. `Files` of
`SrsStartup` and `SrsFastLog` holds one file for every way the steps treat an item differently.
`SrsFastLog` explores no reload once `stale` holds.

`CHECK_DEADLOCK FALSE` stands where the process may end or a thread may block for ever
by design (no client or signal need come). `SrsKbps` and `SrsFastLog` check deadlock.

Fairness. State Threads are scheduled round robin and timers fire: a thread that can go
on does (weak fairness of each continuation: `StartReturn`, `ConnBegin`, `ListenerWake`,
...). In `SrsStSocket` a thread whose descriptor is ready goes on (`Move`) and a limit that is over is
noticed (`TimeOut`); that no call waits for ever (`CallEnds`) is then checked, and it is what
justifies in `SrsServer` that `cycle` of a connection ends. `st_accept` may fail again and again but
not for ever while clients wait (strong fairness of `Accept`). The main thread's steps of the
teardown and of a reload, and the signal thread's reads, are weakly fair. No client, signal,
reload, failure or death is fair: none need happen.

## What the checks show that the documents do not say

Five promises of comments do not hold; each has a run that ends in a violation and an
entry under `findings`: an id counter that wraps blocks `start` for ever; a connection
whose thread cannot be created stays in `conns` for ever, and `initialize_st` admits
limits at which that happens; a gmc teardown uses `kbps` after it is freed; the signal
thread hands on an uninitialised signal number when it is interrupted; and the script that
app_server.h asks to delete the pid file can delete that of a server that runs.

Further cases are left out of a property by name, at the definition: a rate whose
bits no longer fit an `int`, which a clock that is set back can produce from a total of
256 MB (`RatesSane`); a log that keeps a closed number (`stale`: a reload to an empty file name,
and a log first opened while the listener is torn down); an overlong error message whose `strerror`
is appended past the end of `log_data` (`overlong`); the bytes of a socket that were not sampled
before `set_io` replaced it, which no total counts (`CountedOnce` is a bound from above); the bytes
that a call moved before it failed, which the statistics miss (`failed`); a call of size 0, whose
result 0 is taken for a lost client (`EndTold`); the id of a connection that is being served, which
is no longer the one `cid()` gives (`CidReady`); a thread that runs on in a deleted object after its
join failed (`unjoined` in `NoDanglingFrame`); a listener whose socket listens and whose thread could
not be created, so that nobody empties its queue (`deaf` in `QueueDrains`); a log that is opened
with the number 0, which drops every line, although `app_log.h:85` says "log to file if specified
srs_log_file" (`Delivered`); and a server whose reload of the pid file failed, which goes on
without one (`fd[l] # None` in `PidFileNamesServer`).

## The proofs

Theorems hold for every value of the constants that the named `ASSUME`s of the modules
admit. tlapm checks them to the last leaf.

* `SrsThreadProofs`: `TypeOK`, `NoDanglingFrame`, `CidReady`, `NoCycleAfterStop` and `IdsApart`.
  `NoDanglingFrame` is not inductive. The invariant adds the life of a connection's object
  (`ConnLife`: it is fresh, or its running thread owns it; its creator is in `start` only while
  `can_run` is false), that an owner inside `start` or `stop` holds the object, and that a forgotten
  thread has ended, unless its join failed. The handshake of `app_thread.cpp:42` is what makes `ConnLife` hold.
  `WaitsAnswered`, `StartAnswered` and `NoCycleAfterStop` are the safety under the liveness of
  `start` and `stop`: who waits waits for a step that is still to come. `StartAnswered` and
  the theorem of `IdsApart` have the hypothesis that the id has not wrapped
  (`FirstId <= next_id` always); the run `thread_overflow` shows what happens when it does.
* `SrsServerProofs`: `TypeOK`, `ManagerExact`, `StartNotDangling`, the bound of `max_connections`,
  `StacksSuffice`, `NoAdmitAfterClose`, and that every step of `SrsServer` is a step of `ConnPool` or
  leaves it alone (`RefinesPool`). The invariant adds `Teardown` (no client waits after the close,
  nothing follows a crash), and `can_run` to the connection being started. `StacksSuffice` has the
  hypothesis `EnoughStacks`: the run `server_threads` shows that it is needed.
  `WaitsAnswered` says of each join, accept and wait for `can_run` what its end needs;
  `CrashOnlyInTeardown`, that the crash of `server_teardown` takes a gmc build whose teardown has
  freed the statistics.
* `ConnPoolProofs`: the abstract pool keeps its bound.
* `SrsSignalManagerProofs`: `TypeOK`, `CaughtInOrder`, `EndRequested`. The invariant adds that a
  handler is installed only over an open pipe, that only the teardown interrupts the thread, and that
  the flag for the main thread was set by a request that was caught (`StopRequested`).
  `RequestsActed` is the converse: no call of `on_signal` is forgotten. `JoinAnswered`: the teardown
  joins a thread that has started and is interrupted. `OneStray` bounds what the run
  `signal_garbage` finds: at most the last call has a number that no signal brought.
* `SrsStartupProofs`: `TypeOK`, `LockExclusive`, `PidFileNamesServerUncleaned`. The argument: a process belongs to one launch (`Processes`); who is past the lock has
  the lock of the inode behind its descriptor (`Locked`), which has one owner; and two launches that
  opened one path have one inode, because the path names what each has open until the script deletes
  it (`Named`). `Written` and `Configured` carry the content and the configuration through the steps
  that cannot change them.
* `SrsStSocketProofs`: `TypeOK`, `StatisticsExact`, `EndTold`, for calls of any size. The invariant adds
  that a call in progress has something left to move (`Pending`) and that a loss is only told when the
  client has left (`LossTold`); `CodeTold` is the lemma about the tests of the four methods.
  `CallAnswered`: a call in progress has its limit, and waits or finds the kernel ready.
* `SrsFastLogProofs`: a line of any lengths ends inside a `log_data` of any size greater
  than 2, the overlong error apart (`LineOfFits`, `LineFitsAlways`); and `TypeOK`, `LinesReachLog`,
  `LogFileCurrent`, `ClientsKept`, `OneLogFile`. None of these four is inductive: each holds because
  all owners of descriptors keep theirs. The invariant says what each number refers to: the log's,
  the clients', the pid file's, and the listener's, which between its two closes is free or the
  log's (`ListenerOwns`), the place where `stale` begins.
* `SrsKbpsProofs`: `TypeOK`, `ServerTotalExact`, `CountedOnce`, `RatesSane`, `TotalsMonotone`, for any
  number of connections, any finite set of sockets (`KbpsAssumption`) and any clock. The totals are
  sums over sets, so the module first proves that such a sum exists and how a summand that is added,
  taken away or changed alters it. These lemmas are inductions over finite sets; as no theorem with
  an operator parameter can be used, the predicate is a set, and what is refuted is a smallest
  counterexample (`SubsetInduction`, `ElementInduction`). `CountedOnce` is not inductive: a connection may
  get an io back that it has counted before. The invariant says of every slice that it is in order
  (`InOrder`: `base` is not past `last`, and what it handed over and what its samples recorded are
  no more than its total) and of a connection's that what it saved, with what its present io has
  counted since it was set, is no more than what all its sockets have counted (`Backed`).

Only model-checked: liveness (`StartReturns`, `StopReturns`, `ConnReaped`, `QueueDrains`,
`DestroyEnds`, `RequestEnds`, `HupReported`, `CallEnds`, the liveness of `ConnPool`), which the prover
does not reach; the theorems named above prove the safety it rests on, the runs that with
the fairness assumed the awaited step is taken. Every invariant and action property that a passing
run checks is proved. `ConfigInfo` is operators over files, exercised by the runs of `SrsStartup` and
`SrsFastLog`; nothing is proved of it beyond what those theorems use.

## Not modelled

* Abstract interfaces without state, error codes and macros, apart from what the modules take of them.
* Handlers of vhosts and HTTP in `SrsServer`: their bodies need macros that no build here sets. rusage
  and the other statistics that `SRS_AUTO_STAT` would compile in.
* `srs_get_peer_ip` and the list of local addresses, used for log lines; the startup time, which is
  written and never read; `is_never_timeout` and the getters of limits, which return what is stored.
* The deltas of `SrsBaseConn`, the constant 0.
* The order in which the kernel closes the descriptors of a process that ends: `Die` is one step.
* In `SrsStartup`, that one server has a port is the kernel's doing (`bind`), and what becomes of a
  refused configuration is the guards of `Launch`, `Open` and `Listen`: both are in the model, and no
  property restates them. A `pid_fd` with the number 0, which `on_reload_pid` and `destroy` take for
  none, is left out there; the table of `SrsFastLog` has it.
* The failures of `pipe` and of `pthread->start` inside `SrsSignalManager::start`: `run_master` returns
  the error and the process ends. The path of `SrsBaseConn::do_cycle` for a NULL `proxy`, which its
  constructor rules out.
* A reload of the pid file in `SrsFastLog`. It would take a number among the others; during
  `on_reload_listen`, whose second `close` it could suffer, it cannot come, as one handler at a time is
  called.
* A signal that comes after the manager is freed (`CatchDangling`) writes to whatever the freed memory
  says. The model loses it; no promise of the code covers it.
* State Threads, cJSON and the kernel: the modules state what the code relies on and mark it external.

## What could follow

The modules were written in the order `SrsThread`, `SrsServer` over `ConnPool`, `SrsSignalManager`,
`SrsStartup`, `SrsKbps`, `SrsFastLog`, `SrsStSocket`, `ConfigInfo`: the threads first because
everything else stands on them. What is left, by what it would add:

1. An owner of the configuration, once the repository has one: which handlers it calls, in which
   order, and from which thread.
2. `do_cycle` of the sample protocol, when its reads and writes are compiled in.
