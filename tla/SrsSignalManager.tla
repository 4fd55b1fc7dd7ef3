-------------------------- MODULE SrsSignalManager -------------------------
(***************************************************************************)
(* From a Unix signal to on_signal(): SrsSignalManager                     *)
(* (src/base/app_signal_manager.cpp), the flags of SrsServer::on_signal    *)
(* and what SrsServer::cycle() does about them (src/base/app_server.cpp).  *)
(*                                                                         *)
(* sig_catcher is asynchronous: it runs between any two steps of the one   *)
(* process and writes the signal number to a pipe.  A State Thread reads   *)
(* the pipe and calls on_signal(), which sets a flag for the main thread   *)
(* or exits.  The thread is started, stopped and interrupted as in module  *)
(* SrsThread.                                                              *)
(***************************************************************************)
EXTENDS Integers, Sequences

CONSTANTS
    PipeCap,        \* how many ints the pipe holds
    MaxSignals      \* bound: the signals sent to the process

ASSUME SignalAssumption ==
    PipeCap \in Nat \ {0} /\ MaxSignals \in Nat

VARIABLES
    piped,          \* sig_pipe is open
    installed,      \* how many handlers of InstallOrder are installed
    pending,        \* signals the kernel has not delivered; a set, they coalesce
    pipe,           \* what sig_pipe holds
    thread,         \* where the signal thread is
    intr,           \* an interrupt of the signal thread is pending
    gmc,            \* the build has SRS_AUTO_GPERF_MC; never changes
    reload,         \* signal_reload
    gmc_stop,       \* signal_gmc_stop
    main,           \* where the main thread is
    manager,        \* the object that SrsSignalManager::instance points to exists
    proc,           \* up, or how the process has ended, or wedged
    caught,         \* history: the signals sig_catcher has written
    calls,          \* history: the signo of every call of on_signal()
    sent            \* how many signals were sent (for the bound)

threadVars == <<thread, intr>>
flagVars == <<gmc, reload, gmc_stop>>
setupVars == <<piped, installed>>
history == <<caught, calls, sent>>
vars == <<setupVars, pending, pipe, threadVars, flagVars, main, manager, proc, history>>

InstallOrder == <<"HUP", "TERM", "INT", "USR2">>
Signals == {"HUP", "TERM", "INT", "USR2"}
Installed == {InstallOrder[i] : i \in 1..installed}

ThreadState == {"none", "ready", "wait_run", "read", "sleep", "dead"}
\* startup: before start() is over with its handlers; starting: inside
\* pthread->start(); run: do_cycle(); closing: destroy() joins the listener;
\* joining: ~SrsSignalManager joins the thread; drain: the last sleep.
MainState == {"startup", "starting", "run", "closing", "joining", "drain"}

Up == proc = "up"
Ended == proc \in {"killed", "exit", "quit"}

-----------------------------------------------------------------------------
Init ==
    /\ piped = FALSE /\ installed = 0
    /\ pending = {} /\ pipe = <<>>
    /\ thread = "none" /\ intr = FALSE
    /\ gmc \in BOOLEAN /\ reload = FALSE /\ gmc_stop = FALSE
    /\ main = "startup" /\ manager = TRUE /\ proc = "up"
    /\ caught = <<>> /\ calls = <<>> /\ sent = 0

\* Someone sends a signal.
Send(s) ==
    /\ Up /\ sent < MaxSignals
    /\ pending' = pending \cup {s}
    /\ sent' = sent + 1
    /\ UNCHANGED <<setupVars, pipe, threadVars, flagVars, main, manager, proc,
                   caught, calls>>

\* A signal with no handler yet has its default action: it ends the process.
DefaultAction(s) ==
    /\ Up /\ s \in pending \ Installed
    /\ proc' = "killed"
    /\ UNCHANGED <<setupVars, pending, pipe, threadVars, flagVars, main, manager,
                   history>>

\* Mutant of Catch: the handler writes without regard to the room in the pipe.
Catch_Unbounded(s) ==
    /\ Up /\ s \in pending \cap Installed
    /\ manager
    /\ pending' = pending \ {s}
    /\ pipe' = Append(pipe, s)
    /\ caught' = Append(caught, s)
    /\ UNCHANGED <<setupVars, threadVars, flagVars, main, manager, proc, calls, sent>>

\* sig_catcher interrupts the process wherever it is and writes to the pipe.
Catch(s) ==
    /\ Up /\ s \in pending \cap Installed
    /\ manager /\ Len(pipe) < PipeCap
    /\ pending' = pending \ {s}
    /\ pipe' = IF piped THEN Append(pipe, s) ELSE pipe
    /\ caught' = Append(caught, s)
    /\ UNCHANGED <<setupVars, threadVars, flagVars, main, manager, proc, calls, sent>>

\* The pipe is full: the write end is blocking, and the only reader is a thread
\* of this very process.
CatchFull(s) ==
    /\ Up /\ s \in pending \cap Installed
    /\ manager /\ Len(pipe) = PipeCap
    /\ proc' = "wedged"
    /\ UNCHANGED <<setupVars, pending, pipe, threadVars, flagVars, main, manager,
                   history>>

\* After ~SrsSignalManager the handlers stay installed and instance dangles: the
\* signal number is written to whatever the freed memory says, and is lost.
CatchDangling(s) ==
    /\ Up /\ s \in pending \cap Installed
    /\ ~manager
    /\ pending' = pending \ {s}
    /\ UNCHANGED <<setupVars, pipe, threadVars, flagVars, main, manager, proc,
                   caught, calls, sent>>

-----------------------------------------------------------------------------
\* start(): the pipe, then the handlers one by one, then the thread.
CreatePipe ==
    /\ Up /\ main = "startup" /\ ~piped
    /\ piped' = TRUE
    /\ UNCHANGED <<installed, pending, pipe, threadVars, flagVars, main, manager,
                   proc, history>>

\* Mutant of InstallHandler: a handler may be installed before the pipe exists.
InstallHandler_NoPipe ==
    /\ Up /\ main = "startup"
    /\ installed < Len(InstallOrder)
    /\ installed' = installed + 1
    /\ UNCHANGED <<piped, pending, pipe, threadVars, flagVars, main, manager, proc,
                   history>>

InstallHandler ==
    /\ Up /\ main = "startup" /\ piped
    /\ installed < Len(InstallOrder)
    /\ installed' = installed + 1
    /\ UNCHANGED <<piped, pending, pipe, threadVars, flagVars, main, manager, proc,
                   history>>

StartThread ==
    /\ Up /\ main = "startup" /\ installed = Len(InstallOrder)
    /\ main' = "starting" /\ thread' = "ready"
    /\ UNCHANGED <<setupVars, pending, pipe, intr, flagVars, manager, proc, history>>

\* pthread->start() has the thread's id; the thread may run, and main cycles.
StartReturn ==
    /\ Up /\ main = "starting" /\ thread # "ready"
    /\ main' = "run"
    /\ UNCHANGED <<setupVars, pending, pipe, threadVars, flagVars, manager, proc,
                   history>>

ThreadBegin ==
    /\ Up /\ thread = "ready"
    /\ thread' = "wait_run"
    /\ UNCHANGED <<setupVars, pending, pipe, intr, flagVars, main, manager, proc,
                   history>>

ThreadRun ==
    /\ Up /\ thread = "wait_run" /\ main # "starting"
    /\ thread' = "read"
    /\ UNCHANGED <<setupVars, pending, pipe, intr, flagVars, main, manager, proc,
                   history>>

\* Mutants of OnSignal: the branch of SIGNAL_RELOAD falls through to the branch of
\* SIGINT; SIGNAL_RELOAD is ignored.
OnSignal_ReloadStops(signo) ==
    /\ UNCHANGED gmc
    /\ reload' = (reload \/ signo = "HUP")
    /\ gmc_stop' = (gmc_stop \/ (gmc /\ signo \in {"INT", "USR2", "HUP"}))
    /\ proc' = IF signo = "TERM" \/ (~gmc /\ signo \in {"INT", "USR2"})
               THEN "exit" ELSE proc
OnSignal_ReloadIgnored(signo) ==
    /\ UNCHANGED gmc
    /\ gmc_stop' = (gmc_stop \/ (gmc /\ signo \in {"INT", "USR2"}))
    /\ proc' = IF signo = "TERM" \/ (~gmc /\ signo \in {"INT", "USR2"})
               THEN "exit" ELSE proc
    /\ UNCHANGED reload

\* SrsServer::on_signal.
OnSignal(signo) ==
    /\ UNCHANGED gmc
    /\ reload' = (reload \/ signo = "HUP")
    /\ gmc_stop' = (gmc_stop \/ (gmc /\ signo \in {"INT", "USR2"}))
    /\ proc' = IF signo = "TERM" \/ (~gmc /\ signo \in {"INT", "USR2"})
               THEN "exit" ELSE proc

\* cycle() reads the next signal and processes it.
ReadSignal ==
    /\ Up /\ thread = "read" /\ ~intr
    /\ pipe # <<>>
    /\ pipe' = Tail(pipe)
    /\ calls' = Append(calls, Head(pipe))
    /\ OnSignal(Head(pipe))
    /\ thread' = "sleep"
    /\ UNCHANGED <<setupVars, pending, intr, main, manager, caught, sent>>

\* The read is interrupted; its result is not looked at, and on_signal gets the
\* uninitialised signo.  The loop is over, the thread ends.
ReadInterrupted ==
    /\ Up /\ thread = "read" /\ intr
    /\ \E signo \in Signals \cup {"other"} :
          OnSignal(signo) /\ calls' = Append(calls, signo)
    /\ intr' = FALSE
    /\ thread' = "dead"
    /\ UNCHANGED <<setupVars, pending, pipe, main, manager, caught, sent>>

\* The thread's sleep between two cycles ends; stop() has cleared its loop or not.
ThreadWake ==
    /\ Up /\ thread = "sleep"
    /\ thread' = IF main = "joining" THEN "dead" ELSE "read"
    /\ intr' = FALSE
    /\ UNCHANGED <<setupVars, pending, pipe, flagVars, main, manager, proc, history>>

\* One turn of do_cycle(): in a gmc build it leaves for destroy() when asked to;
\* signal_reload is reset.
MainCycle ==
    /\ Up /\ main = "run"
    /\ IF gmc /\ gmc_stop
       THEN main' = "closing" /\ UNCHANGED reload
       ELSE reload' = FALSE /\ UNCHANGED main
    /\ UNCHANGED <<setupVars, pending, pipe, threadVars, gmc, gmc_stop, manager, proc,
                   history>>

\* Mutant of StopThread: the thread is joined without being interrupted.
StopThread_NoInterrupt ==
    /\ Up /\ main = "closing"
    /\ main' = "joining"
    /\ UNCHANGED <<setupVars, pending, pipe, threadVars, flagVars, manager, proc, history>>

\* The listeners are closed; ~SrsSignalManager stops the thread.
StopThread ==
    /\ Up /\ main = "closing"
    /\ main' = "joining" /\ intr' = TRUE
    /\ UNCHANGED <<setupVars, pending, pipe, thread, flagVars, manager, proc, history>>

\* The thread is joined, by the main thread alone and without an interrupt, so the join
\* succeeds; the pipe is closed, the manager freed.
FreeManager ==
    /\ Up /\ main = "joining" /\ thread = "dead"
    /\ main' = "drain" /\ manager' = FALSE
    /\ UNCHANGED <<setupVars, pending, pipe, threadVars, flagVars, proc, history>>

\* The last sleep is over and main() returns.
Quit ==
    /\ Up /\ main = "drain"
    /\ proc' = "quit"
    /\ UNCHANGED <<setupVars, pending, pipe, threadVars, flagVars, main, manager,
                   history>>

Deliver(s) == DefaultAction(s) \/ Catch(s) \/ CatchFull(s) \/ CatchDangling(s)

Startup == CreatePipe \/ InstallHandler \/ StartThread \/ StartReturn
Thread == ThreadBegin \/ ThreadRun \/ ReadSignal \/ ReadInterrupted \/ ThreadWake
Main == MainCycle \/ StopThread \/ FreeManager \/ Quit

Next ==
    \/ CreatePipe \/ InstallHandler \/ StartThread \/ StartReturn
    \/ ThreadBegin \/ ThreadRun \/ ReadSignal \/ ReadInterrupted \/ ThreadWake
    \/ MainCycle \/ StopThread \/ FreeManager \/ Quit
    \/ \E s \in Signals :
          Send(s) \/ DefaultAction(s) \/ Catch(s) \/ CatchFull(s) \/ CatchDangling(s)

Spec == Init /\ [][Next]_vars

\* The kernel delivers what is pending, start() runs on, the threads are
\* scheduled and their sleeps end.
FairSpec ==
    /\ Spec
    /\ WF_vars(Startup) /\ WF_vars(Thread) /\ WF_vars(Main)
    /\ \A s \in Signals : WF_vars(Deliver(s))

-----------------------------------------------------------------------------
\* Every variable keeps its type.
TypeOK ==
    /\ piped \in BOOLEAN /\ installed \in 0..Len(InstallOrder)
    /\ pending \subseteq Signals
    /\ pipe \in Seq(Signals) /\ Len(pipe) <= PipeCap
    /\ thread \in ThreadState /\ intr \in BOOLEAN
    /\ gmc \in BOOLEAN /\ reload \in BOOLEAN /\ gmc_stop \in BOOLEAN
    /\ main \in MainState /\ manager \in BOOLEAN
    /\ proc \in {"up", "killed", "exit", "quit", "wedged"}
    /\ caught \in Seq(Signals) /\ calls \in Seq(Signals \cup {"other"})
    /\ sent \in 0..MaxSignals

\* No caught signal is lost, doubled or reordered between the handler and
\* on_signal(): what was caught is what on_signal() was called with, then what the
\* pipe holds.  (Until the teardown ends the thread.)
CaughtInOrder == thread # "dead" => caught = calls \o pipe

\* on_signal() is called for signals that were caught, in their order, and for
\* nothing else: "whatever, we will got the signo like the orignal handler".
SignoGenuine == \E n \in 0..Len(caught) : calls = SubSeq(caught, 1, n)

\* The program ends only at the request of a caught signal: before the teardown exit()
\* is called for SIGTERM, and without gmc for SIGINT and SIGUSR2; destroy() begins only
\* after a SIGINT or a SIGUSR2.
Caught(signos) == \E i \in 1..Len(caught) : caught[i] \in signos
EndRequested ==
    /\ proc = "exit" /\ main # "joining" =>
          Caught({"TERM"} \cup IF gmc THEN {} ELSE {"INT", "USR2"})
    /\ main \in {"closing", "joining", "drain"} => Caught({"INT", "USR2"})

\* A request to stop ends the process, at whatever moment of its life it comes;
\* only more unread signals than the pipe holds can wedge it.
RequestEnds ==
    \A s \in {"TERM", "INT", "USR2"} : s \in pending ~> (Ended \/ proc = "wedged")

\* A SIGHUP caught before the teardown sets signal_reload, or the process ends or is wedged.
HupReported == (\E i \in 1..Len(pipe) : pipe[i] = "HUP") ~> (reload \/ ~Up)
=============================================================================
