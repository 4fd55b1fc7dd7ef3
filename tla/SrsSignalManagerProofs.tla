---------------------- MODULE SrsSignalManagerProofs -----------------------
(***************************************************************************)
(* Signals are neither lost nor reordered on their way to on_signal(), and *)
(* only a request ends the process, for any capacity of the pipe and any   *)
(* number of signals.                                                      *)
(***************************************************************************)
EXTENDS SrsSignalManager, SequenceTheorems, TLAPS

\* Handlers are installed when there is a pipe.
Piped == installed > 0 => piped

\* The thread is interrupted, and ends, only when ~SrsSignalManager joins it.
Teardown ==
    /\ intr \/ thread = "dead" => main \in {"joining", "drain"}
    /\ main = "drain" => thread = "dead"

\* The flag for destroy() is set by a request, before the thread's last read.
StopRequested ==
    gmc_stop /\ main \in {"startup", "starting", "run", "closing"} => Caught({"INT", "USR2"})

\* The inductive invariant.
IInv == TypeOK /\ CaughtInOrder /\ EndRequested /\ Piped /\ Teardown /\ StopRequested

-----------------------------------------------------------------------------
LEMMA InstallOrderLen == Len(InstallOrder) = 4
  BY DEF InstallOrder

LEMMA InitIInv == Init => IInv
<1> SUFFICES ASSUME Init PROVE IInv
  OBVIOUS
<1>1. TypeOK
  <2>1. pipe \in Seq(Signals) /\ Len(pipe) <= PipeCap /\ caught \in Seq(Signals)
        /\ calls \in Seq(Signals \cup {"other"})
    BY EmptySeq, SignalAssumption DEF Init
  <2>2. installed \in 0..Len(InstallOrder) /\ sent \in 0..MaxSignals
    BY InstallOrderLen, SignalAssumption DEF Init
  <2> QED
    BY <2>1, <2>2 DEF Init, TypeOK, ThreadState, MainState
<1>2. CaughtInOrder /\ EndRequested /\ Piped /\ Teardown /\ StopRequested
  BY DEF Init, CaughtInOrder, EndRequested, Piped, Teardown, StopRequested
<1> QED
  BY <1>1, <1>2 DEF IInv

\* What on_signal() may be called with.
Numbers == Signals \cup {"other"}

LEMMA AppendConcat ==
  \A a, b \in Seq(Numbers) : \A e \in Numbers : Append(a \o b, e) = a \o Append(b, e)
  OBVIOUS

\* What has been caught stays caught.
LEMMA CaughtAppend ==
  ASSUME TypeOK, NEW s \in Signals, caught' = Append(caught, s), NEW signos
  PROVE  Caught(signos) => Caught(signos)'
<1>1. caught \in Seq(Signals)
  BY DEF TypeOK
<1>2. ASSUME NEW i \in 1..Len(caught), caught[i] \in signos
      PROVE  i \in 1..Len(caught') /\ caught'[i] \in signos
  BY <1>1, <1>2, AppendProperties
<1> QED
  BY <1>2 DEF Caught

\* The head of the pipe has been caught.
LEMMA HeadCaught ==
  ASSUME TypeOK, CaughtInOrder, thread = "read", pipe # <<>>, NEW signos, Head(pipe) \in signos
  PROVE  Caught(signos)
<1>1. calls \in Seq(Signals \cup {"other"}) /\ pipe \in Seq(Signals \cup {"other"})
      /\ caught = calls \o pipe
  BY DEF TypeOK, CaughtInOrder
<1>2. Len(pipe) > 0 /\ Head(pipe) = pipe[1]
  BY <1>1
<1>3. Len(caught) = Len(calls) + Len(pipe) /\ caught[Len(calls) + 1] = pipe[1]
  BY <1>1, <1>2, ConcatProperties
<1>4. Len(calls) + 1 \in 1..Len(caught)
  BY <1>1, <1>2, <1>3
<1> QED
  BY <1>2, <1>3, <1>4 DEF Caught

\* Signals come: Send, and the four ways they are delivered.
LEMMA SignalStep ==
  ASSUME IInv, NEW s \in Signals, Send(s) \/ DefaultAction(s) \/ CatchFull(s) \/ CatchDangling(s)
  PROVE  IInv'
<1> USE DEF IInv, Send, DefaultAction, CatchFull, CatchDangling, setupVars, threadVars, flagVars,
        history, Up
<1>1. TypeOK'
  BY SignalAssumption DEF TypeOK
<1>2. CaughtInOrder' /\ Piped' /\ Teardown'
  BY DEF CaughtInOrder, Piped, Teardown
<1>3. caught' = caught /\ gmc' = gmc /\ gmc_stop' = gmc_stop /\ main' = main
      /\ (proc' = "exit" => proc = "exit")
  OBVIOUS
<1>4. StopRequested' /\ EndRequested'
  BY <1>3 DEF StopRequested, EndRequested, Caught
<1> QED
  BY <1>1, <1>2, <1>4

LEMMA CatchStep ==
  ASSUME IInv, NEW s \in Signals, Catch(s)
  PROVE  IInv'
<1> USE DEF IInv, Catch, setupVars, threadVars, flagVars
<1>1. piped
  BY InstallOrderLen DEF Installed, Piped, TypeOK
<1>2. pipe' = Append(pipe, s) /\ caught' = Append(caught, s)
  BY <1>1
<1>3. TypeOK'
  <2>1. pipe' \in Seq(Signals) /\ Len(pipe') <= PipeCap
    BY <1>2, AppendProperties, SignalAssumption DEF TypeOK
  <2>2. caught' \in Seq(Signals)
    BY <1>2 DEF TypeOK
  <2> QED
    BY <2>1, <2>2 DEF TypeOK
<1>4. CaughtInOrder'
  <2>1. ASSUME caught = calls \o pipe PROVE Append(caught, s) = calls \o Append(pipe, s)
    <3>1. calls \in Seq(Numbers) /\ pipe \in Seq(Numbers) /\ s \in Numbers
      BY DEF TypeOK, Numbers
    <3>2. Append(calls \o pipe, s) = calls \o Append(pipe, s)
      BY <3>1, AppendConcat
    <3> QED
      BY <2>1, <3>2
  <2> QED
    BY <1>2, <2>1 DEF CaughtInOrder
<1>5. EndRequested' /\ StopRequested'
  <2>1. \A signos \in SUBSET Signals : Caught(signos) => Caught(signos)'
    BY <1>2, CaughtAppend
  <2>2. Caught({"INT", "USR2"}) => Caught({"INT", "USR2"})'
    BY <2>1 DEF Signals
  <2> QED
    BY <2>2 DEF EndRequested, StopRequested, Up
<1>6. Piped' /\ Teardown'
  BY DEF Piped, Teardown
<1> QED
  BY <1>3, <1>4, <1>5, <1>6

LEMMA StartupStep ==
  ASSUME IInv, Startup \/ ThreadBegin \/ ThreadRun
  PROVE  IInv'
<1> USE DEF IInv, Startup, CreatePipe, InstallHandler, StartThread, StartReturn, ThreadBegin,
        ThreadRun, setupVars, threadVars, flagVars, history, Up
<1>1. TypeOK'
  <2>1. installed' \in 0..Len(InstallOrder)
    BY InstallOrderLen DEF TypeOK
  <2> QED
    BY <2>1 DEF TypeOK, ThreadState, MainState
<1>2. CaughtInOrder'
  <2>1. calls' = calls /\ pipe' = pipe /\ caught' = caught /\ (thread' # "dead" => thread # "dead")
    BY DEF Teardown
  <2> QED
    BY <2>1 DEF CaughtInOrder
<1>3. Piped'
  BY InstallOrderLen DEF Piped, TypeOK
<1>4. Teardown'
  BY DEF Teardown
<1>5. caught' = caught /\ gmc' = gmc /\ gmc_stop' = gmc_stop /\ proc' = proc
  OBVIOUS
<1>6. StopRequested' /\ EndRequested'
  BY <1>5 DEF StopRequested, EndRequested, Caught
<1> QED
  BY <1>1, <1>2, <1>3, <1>4, <1>6

LEMMA ReadSignalStep ==
  ASSUME IInv, ReadSignal
  PROVE  IInv'
<1> USE DEF IInv, ReadSignal, setupVars, Up
<1>1. Head(pipe) \in Signals /\ Tail(pipe) \in Seq(Signals) /\ Len(Tail(pipe)) < Len(pipe)
  BY HeadTailProperties DEF TypeOK
<1>2. TypeOK'
  <2>1. calls' \in Seq(Signals \cup {"other"})
    BY <1>1 DEF TypeOK
  <2>2. pipe' \in Seq(Signals) /\ Len(pipe') <= PipeCap
    BY <1>1, SignalAssumption DEF TypeOK
  <2>3. reload' \in BOOLEAN /\ gmc_stop' \in BOOLEAN /\ proc' \in {"up", "exit"} /\ gmc' \in BOOLEAN
    BY DEF TypeOK, OnSignal
  <2> QED
    BY <2>1, <2>2, <2>3 DEF TypeOK, ThreadState
<1>3. CaughtInOrder'
  <2>1. caught = calls \o pipe
    BY DEF CaughtInOrder
  <2>2. calls \in Seq(Signals \cup {"other"}) /\ pipe \in Seq(Signals \cup {"other"})
    BY DEF TypeOK
  <2>3. calls \o pipe = Append(calls, Head(pipe)) \o Tail(pipe)
    BY <2>2
  <2> QED
    BY <2>1, <2>3 DEF CaughtInOrder
<1>4. caught' = caught /\ main' = main /\ gmc' = gmc
  BY DEF OnSignal
<1>5. Head(pipe) \in {"INT", "USR2"} => Caught({"INT", "USR2"})
  BY HeadCaught
<1>6. StopRequested'
  BY <1>4, <1>5 DEF StopRequested, OnSignal, Caught, TypeOK
<1>7. EndRequested'
  <2>1. ASSUME proc' = "exit"
        PROVE  Caught({"TERM"} \cup IF gmc THEN {} ELSE {"INT", "USR2"})
    <3>1. Head(pipe) \in {"TERM"} \cup IF gmc THEN {} ELSE {"INT", "USR2"}
      BY <2>1 DEF OnSignal
    <3> QED
      BY <3>1, HeadCaught
  <2> QED
    BY <1>4, <2>1 DEF EndRequested, Caught
<1>8. Piped' /\ Teardown'
  BY <1>4 DEF Piped, Teardown
<1> QED
  BY <1>2, <1>3, <1>6, <1>7, <1>8

LEMMA ReadInterruptedStep ==
  ASSUME IInv, ReadInterrupted
  PROVE  IInv'
<1> USE DEF IInv, ReadInterrupted, setupVars, Up
<1>1. PICK signo \in Signals \cup {"other"} : OnSignal(signo) /\ calls' = Append(calls, signo)
  OBVIOUS
<1>2. main = "joining" /\ main' = main /\ caught' = caught /\ gmc' = gmc
  BY <1>1 DEF Teardown, OnSignal
<1>3. TypeOK'
  <2>1. calls' \in Seq(Signals \cup {"other"})
    BY <1>1 DEF TypeOK
  <2>2. reload' \in BOOLEAN /\ gmc_stop' \in BOOLEAN /\ proc' \in {"up", "exit"} /\ gmc' \in BOOLEAN
    BY <1>1 DEF TypeOK, OnSignal
  <2> QED
    BY <2>1, <2>2 DEF TypeOK, ThreadState
<1>4. CaughtInOrder' /\ Piped' /\ Teardown' /\ StopRequested'
  BY <1>2 DEF CaughtInOrder, Piped, Teardown, StopRequested
<1>5. EndRequested'
  BY <1>2 DEF EndRequested, Caught
<1> QED
  BY <1>3, <1>4, <1>5

LEMMA MainStep ==
  ASSUME IInv, ThreadWake \/ Main
  PROVE  IInv'
<1> USE DEF IInv, ThreadWake, Main, MainCycle, StopThread, FreeManager, Quit, setupVars, threadVars,
        flagVars, history, Up
<1>1. TypeOK'
  BY DEF TypeOK, ThreadState, MainState
<1>2. CaughtInOrder' /\ Piped' /\ Teardown'
  BY DEF CaughtInOrder, Piped, Teardown
<1>3. caught' = caught /\ gmc' = gmc
  OBVIOUS
<1>4. StopRequested' /\ EndRequested'
  BY <1>3 DEF StopRequested, EndRequested, Caught
<1> QED
  BY <1>1, <1>2, <1>4

LEMMA NextIInv == IInv /\ [Next]_vars => IInv'
<1> SUFFICES ASSUME IInv, [Next]_vars PROVE IInv'
  OBVIOUS
<1>1. CASE Next
  BY <1>1, SignalStep, CatchStep, StartupStep, ReadSignalStep, ReadInterruptedStep, MainStep
     DEF Next, Startup, Main
<1>2. CASE UNCHANGED vars
  BY <1>2 DEF vars, setupVars, threadVars, flagVars, history, IInv, TypeOK, CaughtInOrder,
     EndRequested, Caught, Piped, Teardown, StopRequested
<1> QED
  BY <1>1, <1>2

THEOREM IInvAlways == Spec => []IInv
  BY InitIInv, NextIInv, PTL DEF Spec

-----------------------------------------------------------------------------
\* Every variable keeps its type, the pipe its capacity.
THEOREM TypeCorrect == Spec => []TypeOK
<1>1. IInv => TypeOK
  BY DEF IInv
<1> QED
  BY <1>1, IInvAlways, PTL

\* sig_catcher, the pipe and cycle(): no caught signal is lost, doubled or reordered
\* until the teardown ends the thread.
THEOREM CaughtInOrderAlways == Spec => []CaughtInOrder
<1>1. IInv => CaughtInOrder
  BY DEF IInv
<1> QED
  BY <1>1, IInvAlways, PTL

\* on_signal() and do_cycle(): the process exits, or is torn down, only when a signal
\* that asks for it has been caught; the signo that an interrupted read leaves comes
\* into it only when the teardown has begun.
THEOREM EndRequestedAlways == Spec => []EndRequested
<1>1. IInv => EndRequested
  BY DEF IInv
<1> QED
  BY <1>1, IInvAlways, PTL

-----------------------------------------------------------------------------
\* The join of ~SrsSignalManager is answered: destroy() was asked for by on_signal(),
\* so the thread is past its start; if it blocks in read, its interrupt is pending.
JoinAnswered ==
    /\ main = "startup" => thread = "none"
    /\ main \in {"closing", "joining", "drain"} => gmc_stop
    /\ gmc_stop => thread \in {"read", "sleep", "dead"}
    /\ main = "joining" /\ thread = "read" => intr

\* A request that on_signal() was called with has ended the process, or in a gmc build
\* its flag is set for good: the main thread cannot miss it.
RequestsActed ==
    \A i \in 1..Len(calls) :
        /\ calls[i] = "TERM" => ~Up
        /\ calls[i] \in {"INT", "USR2"} => IF gmc THEN gmc_stop ELSE ~Up

\* The first n calls of on_signal() were made with the first n signals caught.
Genuine(n) == n <= Len(caught) /\ \A i \in 1..n : calls[i] = caught[i]

\* All calls are genuine as long as the thread lives, and all but the last after it.
OneStray ==
    /\ thread # "dead" => Genuine(Len(calls))
    /\ Genuine(Len(calls) - 1)

\* A step that calls on_signal() is a step of the reading thread and adds one call; of
\* the others only sig_catcher changes the histories.
LEMMA CallSteps ==
  ASSUME IInv, [Next]_vars
  PROVE  \/ UNCHANGED <<calls, caught>>
         \/ \E s \in Signals : Catch(s)
         \/ /\ thread = "read" /\ caught' = caught
            /\ \E signo \in Numbers : OnSignal(signo) /\ calls' = Append(calls, signo)
<1>1. CASE ReadSignal
  <2>1. Head(pipe) \in Numbers
    BY <1>1, HeadTailProperties DEF ReadSignal, IInv, TypeOK, Numbers
  <2> QED
    BY <1>1, <2>1 DEF ReadSignal
<1>2. CASE ReadInterrupted
  BY <1>2 DEF ReadInterrupted, Numbers
<1>3. CASE \E s \in Signals : Send(s) \/ DefaultAction(s) \/ CatchFull(s) \/ CatchDangling(s)
  BY <1>3 DEF Send, DefaultAction, CatchFull, CatchDangling, history
<1>4. CASE Startup \/ ThreadBegin \/ ThreadRun \/ ThreadWake \/ Main
  BY <1>4 DEF Startup, CreatePipe, InstallHandler, StartThread, StartReturn, ThreadBegin, ThreadRun,
     ThreadWake, Main, MainCycle, StopThread, FreeManager, Quit, history
<1>5. CASE UNCHANGED vars
  BY <1>5 DEF vars, history
<1> QED
  BY <1>1, <1>2, <1>3, <1>4, <1>5 DEF Next, Startup, Main

\* The flags that a call has set stay set, and an ended process does not come back.
LEMMA FlagsStay ==
  ASSUME [Next]_vars
  PROVE  gmc' = gmc /\ (gmc_stop => gmc_stop') /\ (~Up => ~Up')
<1> USE DEF flagVars, Up
<1>1. CASE ReadSignal \/ ReadInterrupted
  BY <1>1 DEF ReadSignal, ReadInterrupted, OnSignal
<1>2. CASE \E s \in Signals : Send(s) \/ DefaultAction(s) \/ Catch(s) \/ CatchFull(s) \/ CatchDangling(s)
  BY <1>2 DEF Send, DefaultAction, Catch, CatchFull, CatchDangling
<1>3. CASE Startup \/ ThreadBegin \/ ThreadRun \/ ThreadWake \/ Main
  BY <1>3 DEF Startup, CreatePipe, InstallHandler, StartThread, StartReturn, ThreadBegin, ThreadRun,
     ThreadWake, Main, MainCycle, StopThread, FreeManager, Quit
<1>4. CASE UNCHANGED vars
  BY <1>4 DEF vars
<1> QED
  BY <1>1, <1>2, <1>3, <1>4 DEF Next, Startup, Main

LEMMA NextJoinAnswered == IInv /\ JoinAnswered /\ [Next]_vars => JoinAnswered'
<1> SUFFICES ASSUME IInv, JoinAnswered, [Next]_vars PROVE JoinAnswered'
  OBVIOUS
<1> USE DEF JoinAnswered, threadVars, flagVars
<1>1. CASE ReadSignal \/ ReadInterrupted
  BY <1>1 DEF ReadSignal, ReadInterrupted, OnSignal
<1>2. CASE \E s \in Signals : Send(s) \/ DefaultAction(s) \/ Catch(s) \/ CatchFull(s) \/ CatchDangling(s)
  BY <1>2 DEF Send, DefaultAction, Catch, CatchFull, CatchDangling
<1>3. CASE Startup \/ ThreadBegin \/ ThreadRun
  BY <1>3 DEF Startup, CreatePipe, InstallHandler, StartThread, StartReturn, ThreadBegin, ThreadRun,
     IInv, TypeOK
<1>4. CASE ThreadWake \/ Main
  BY <1>4 DEF ThreadWake, Main, MainCycle, StopThread, FreeManager, Quit, IInv, TypeOK
<1>5. CASE UNCHANGED vars
  BY <1>5 DEF vars
<1> QED
  BY <1>1, <1>2, <1>3, <1>4, <1>5 DEF Next, Startup, Main

\* The destructor never joins a thread that blocks in read and is not interrupted, nor
\* one that has not started (SrsSignalManager, destroy).
THEOREM JoinAnsweredAlways == Spec => []JoinAnswered
<1>1. Init => JoinAnswered
  BY DEF Init, JoinAnswered
<1> QED
  BY <1>1, NextJoinAnswered, IInvAlways, PTL DEF Spec

LEMMA NextRequestsActed == IInv /\ RequestsActed /\ [Next]_vars => RequestsActed'
<1> SUFFICES ASSUME IInv, RequestsActed, [Next]_vars PROVE RequestsActed'
  OBVIOUS
<1>1. CASE UNCHANGED calls
  BY <1>1, FlagsStay DEF RequestsActed
<1>2. ASSUME NEW s \in Signals, Catch(s) PROVE UNCHANGED calls
  BY <1>2 DEF Catch
<1>3. ASSUME NEW signo \in Numbers, OnSignal(signo), calls' = Append(calls, signo)
      PROVE  RequestsActed'
  <2>1. calls \in Seq(Numbers)
    BY DEF IInv, TypeOK, Numbers
  <2>2. ASSUME NEW i \in 1..Len(calls')
        PROVE  (i \in 1..Len(calls) /\ calls'[i] = calls[i]) \/ calls'[i] = signo
    BY <1>3, <2>1
  <2>3. /\ signo = "TERM" => ~Up'
        /\ signo \in {"INT", "USR2"} => IF gmc' THEN gmc_stop' ELSE ~Up'
    BY <1>3 DEF OnSignal, Up
  <2> QED
    BY <2>2, <2>3, FlagsStay DEF RequestsActed
<1> QED
  BY <1>1, <1>2, <1>3, CallSteps

\* No request is forgotten between on_signal() and the main thread, whatever signals
\* come before and after it (SrsServer::on_signal): the other half of EndRequested.
THEOREM RequestsActedAlways == Spec => []RequestsActed
<1>1. Init => RequestsActed
  BY EmptySeq DEF Init, RequestsActed
<1> QED
  BY <1>1, NextRequestsActed, IInvAlways, PTL DEF Spec

\* As long as nothing is lost, what on_signal() was called with is what was caught.
LEMMA GenuineCalls ==
  ASSUME IInv, thread # "dead"
  PROVE  Genuine(Len(calls))
<1>1. caught = calls \o pipe /\ calls \in Seq(Numbers) /\ pipe \in Seq(Numbers)
  BY DEF IInv, TypeOK, CaughtInOrder, Numbers
<1>2. Len(calls) <= Len(caught)
  BY <1>1
<1>3. \A i \in 1..Len(calls) : calls[i] = caught[i]
  BY <1>1
<1> QED
  BY <1>2, <1>3 DEF Genuine

LEMMA NextStray == IInv /\ Genuine(Len(calls) - 1) /\ [Next]_vars => Genuine(Len(calls) - 1)'
<1> SUFFICES ASSUME IInv, Genuine(Len(calls) - 1), [Next]_vars PROVE Genuine(Len(calls) - 1)'
  OBVIOUS
<1>1. calls \in Seq(Numbers) /\ caught \in Seq(Signals) /\ Len(calls) \in Nat /\ Len(caught) \in Nat
  BY DEF IInv, TypeOK, Numbers
<1>2. CASE UNCHANGED <<calls, caught>>
  BY <1>2 DEF Genuine
<1>3. ASSUME NEW s \in Signals, Catch(s) PROVE Genuine(Len(calls) - 1)'
  <2>1. calls' = calls /\ caught' = Append(caught, s)
    BY <1>3 DEF Catch
  <2>2. Len(caught') = Len(caught) + 1 /\ \A i \in 1..Len(caught) : caught'[i] = caught[i]
    BY <1>1, <2>1
  <2> QED
    BY <1>1, <2>1, <2>2 DEF Genuine
<1>4. ASSUME NEW signo \in Numbers, calls' = Append(calls, signo), caught' = caught, thread = "read"
      PROVE  Genuine(Len(calls) - 1)'
  <2>1. Genuine(Len(calls))
    BY <1>4, GenuineCalls
  <2>2. Len(calls') - 1 = Len(calls) /\ \A i \in 1..Len(calls) : calls'[i] = calls[i]
    BY <1>1, <1>4
  <2> QED
    BY <1>4, <2>1, <2>2 DEF Genuine
<1> QED
  BY <1>2, <1>3, <1>4, CallSteps

\* What the run signal_garbage finds is the worst there is: on_signal() is called at most
\* once with a number that no signal brought, in the read that the teardown interrupts.
THEOREM OneStrayAlways == Spec => []OneStray
<1>1. Init => Genuine(Len(calls) - 1)
  BY EmptySeq DEF Init, Genuine
<1>2. IInv /\ Genuine(Len(calls) - 1) => OneStray
  BY GenuineCalls DEF OneStray
<1> QED
  BY <1>1, <1>2, NextStray, IInvAlways, PTL DEF Spec
=============================================================================
