------------------------- MODULE SrsStSocketProofs -------------------------
(***************************************************************************)
(* The types, the statistics and the codes of SrsStSocket, for calls of    *)
(* any size, any send buffer and any number of bytes and calls.            *)
(***************************************************************************)
EXTENDS SrsStSocket, TLAPS

LossCodes == {"READ", "READ_FULLY", "WRITE"}

\* A pending call still has something to move, and only do_cycle makes calls.
Pending ==
    /\ put - drained <= SendBuffer
    /\ call.op = "none" => call = NoCall
    /\ call.op # "none" => phase = "cycle" /\ (call.size > 0 => call.done < call.size)

\* A call that fails without a timeout says that the client is gone, or had size 0;
\* cycle() has a result only at the end.
LossTold ==
    /\ last.ret # "CLOSED"
    /\ last.ret \in LossCodes => peer # "open" \/ last.size = 0
    /\ phase # "ended" => result = "SUCCESS"

\* The inductive invariant.
IInv == TypeOK /\ StatisticsExact /\ EndTold /\ Pending /\ LossTold

\* The bytes that a call takes are no more than there are, or than it wants.
LEMMA LeastProperty ==
  ASSUME NEW a \in Int, NEW b \in Int
  PROVE  Least(a, b) \in {a, b} /\ Least(a, b) <= a /\ Least(a, b) <= b
  BY DEF Least

\* The client has received more: less is kept for it.
LEMMA LessKept ==
  ASSUME NEW a \in Nat, NEW b \in Nat, NEW c \in Nat, NEW n \in Nat, a - b <= n, b <= c
  PROVE  a - c <= n
  OBVIOUS

\* The invariant holds at first.
LEMMA InitIInv == Init => IInv
  BY SocketAssumption
  DEF Init, IInv, TypeOK, StatisticsExact, EndTold, Pending, LossTold, NewSocket, NoCall, Moving,
      Never, Limit, Codes, Reads, Writes, LossCodes

\* What the method makes of the result of State Threads: a success counts, a failure
\* has a code, and only a failed wait is a timeout.
LEMMA CodeTold ==
  ASSUME NEW op \in Reads \cup Writes, NEW size \in Nat, NEW nb \in Int, NEW errno \in Errnos
  PROVE  /\ Code(op, size, nb, errno) \in Codes \ {"CLOSED"}
         /\ Code(op, size, nb, errno) = "TIMEOUT" <=>
               Failed(op, size, nb) /\ nb < 0 /\ errno = "ETIME"
         /\ Code(op, size, nb, errno) \in LossCodes => Failed(op, size, nb)
<1>1. CASE op = "read"
  BY <1>1 DEF Failed, Code, Codes, Reads, Writes, LossCodes
<1>2. CASE op = "read_fully"
  BY <1>2 DEF Failed, Code, Codes, Reads, Writes, LossCodes
<1>3. CASE op \in Writes
  <2>1. op # "read" /\ op # "read_fully"
    BY <1>3 DEF Writes
  <2> QED
    BY <1>3, <2>1 DEF Failed, Code, Codes, LossCodes
<1>4. op = "read" \/ op = "read_fully" \/ op \in Writes
  BY DEF Reads
<1> QED
  BY <1>1, <1>2, <1>3, <1>4

\* The types of a pending call.
LEMMA PendingType ==
  ASSUME TypeOK, call.op # "none"
  PROVE  /\ call.op \in Reads \cup Writes
         /\ call.size \in Sizes \cup {0} /\ call.size \in Nat
         /\ call.done \in Nat /\ call.waits \in BOOLEAN
<1>1. call \in [op : {"none"} \cup Reads \cup Writes, size : Sizes \cup {0}, done : Nat,
                waits : BOOLEAN]
  BY DEF TypeOK
<1>2. /\ call.op \in {"none"} \cup Reads \cup Writes /\ call.size \in Sizes \cup {0}
      /\ call.done \in Nat /\ call.waits \in BOOLEAN
  BY <1>1
<1>3. call.size \in Nat
  <2>1. CASE call.size \in Sizes
    BY <2>1, SocketAssumption
  <2>2. CASE call.size = 0
    BY <2>2
  <2> QED
    BY <1>2, <2>1, <2>2
<1>4. call.op \in Reads \cup Writes
  BY <1>2, Zenon
<1> QED
  BY <1>2, <1>3, <1>4, Zenon

\* A call of State Threads returns what it has moved: it is counted, as done or as failed.
LEMMA ReturnStep ==
  ASSUME IInv, call.op # "none",
         NEW done \in Nat, NEW errno \in Errnos, Return(done, done, errno, FALSE),
         UNCHANGED <<peer, sent, drained>>,
         taken' \in 0..sent, put' \in Nat, drained <= put', put' - drained <= SendBuffer,
         call.op \in Reads => taken' = taken + (done - call.done) /\ put' = put,
         call.op \notin Reads => put' = put + (done - call.done) /\ taken' = taken,
         Failed(call.op, call.size, done) => peer # "open" \/ call.size = 0
  PROVE  IInv'
<1> DEFINE f == Failed(call.op, call.size, done)
           c == Code(call.op, call.size, done, errno)
<1> TypeOK /\ StatisticsExact /\ EndTold /\ Pending /\ LossTold
  BY DEF IInv
<1>1. /\ call.op \in Reads \cup Writes
      /\ call.size \in Nat /\ call.size \in Sizes \cup {0} /\ call.done \in Nat
  BY PendingType, SocketAssumption
<1>2. /\ c \in Codes \ {"CLOSED"}
      /\ c = "TIMEOUT" => done < 0
      /\ c \in LossCodes => f
  BY <1>1, CodeTold
<1>3. c # "TIMEOUT"
  BY <1>2
<1>4. /\ call' = NoCall /\ calls' = calls /\ phase' = phase /\ result' = result
      /\ last' = [op |-> call.op, size |-> call.size, ret |-> c, timed |-> FALSE]
      /\ skt' = Count(call.op, call.size, done)
      /\ failed' = IF ~f THEN failed
                   ELSE IF call.op \in Reads THEN [failed EXCEPT !.recv = @ + done]
                                             ELSE [failed EXCEPT !.send = @ + done]
  BY DEF Return
<1>6. /\ skt \in [recv_timeout : {Never, Limit}, send_timeout : {Never, Limit},
                  recv_bytes : Nat, send_bytes : Nat]
      /\ failed \in [recv : Nat, send : Nat]
      /\ taken \in Nat /\ put \in Nat /\ sent \in Nat /\ drained \in Nat
  BY DEF TypeOK
<1>7. CASE f
  <2>1. skt' = skt
    BY <1>4, <1>7 DEF Count
  <2>2. failed' \in [recv : Nat, send : Nat]
    BY <1>4, <1>6, <1>7
  <2>3. TypeOK'
    BY <1>1, <1>2, <1>4, <1>6, <2>1, <2>2 DEF TypeOK, NoCall, Reads, Writes, Codes
  <2>4. StatisticsExact'
    <3>1. CASE call.op \in Reads
      BY <1>1, <1>4, <1>6, <1>7, <2>1, <3>1 DEF StatisticsExact, Moving, NoCall, Reads, Writes
    <3>2. CASE call.op \notin Reads
      BY <1>1, <1>4, <1>6, <1>7, <2>1, <3>2 DEF StatisticsExact, Moving, NoCall, Reads, Writes
    <3> QED
      BY <3>1, <3>2
  <2>5. LossTold' /\ EndTold'
    BY <1>2, <1>3, <1>4, <1>7 DEF LossTold, EndTold, Pending, LossCodes, TypeOK
  <2>6. Pending'
    BY <1>4 DEF Pending, NoCall
  <2> QED
    BY <2>3, <2>4, <2>5, <2>6 DEF IInv
<1>8. CASE ~f
  <2>2. skt' = IF call.op \in Reads THEN [skt EXCEPT !.recv_bytes = @ + done]
                                    ELSE [skt EXCEPT !.send_bytes = @ + done]
    BY <1>4, <1>8 DEF Count
  <2>3. skt' \in [recv_timeout : {Never, Limit}, send_timeout : {Never, Limit},
                  recv_bytes : Nat, send_bytes : Nat]
    BY <1>6, <2>2
  <2>4. TypeOK'
    BY <1>1, <1>2, <1>4, <1>6, <1>8, <2>3 DEF TypeOK, NoCall, Reads, Writes, Codes
  <2>5. StatisticsExact'
    <3>1. CASE call.op \in Reads
      BY <1>1, <1>4, <1>6, <1>8, <2>2, <3>1 DEF StatisticsExact, Moving, NoCall, Reads, Writes
    <3>2. CASE call.op \notin Reads
      BY <1>1, <1>4, <1>6, <1>8, <2>2, <3>2 DEF StatisticsExact, Moving, NoCall, Reads, Writes
    <3> QED
      BY <3>1, <3>2
  <2>6. LossTold' /\ EndTold'
    BY <1>2, <1>3, <1>4, <1>8 DEF LossTold, EndTold, Pending, LossCodes, TypeOK
  <2>7. Pending'
    BY <1>4 DEF Pending, NoCall
  <2> QED
    BY <2>4, <2>5, <2>6, <2>7 DEF IInv
<1> QED
  BY <1>7, <1>8

\* A call of State Threads fails: what it has moved counts as failed.
LEMMA ReturnFailedStep ==
  ASSUME IInv, call.op # "none", UNCHANGED <<peer, sent, drained, taken, put>>,
         (Return(-1, call.done, "other", FALSE) /\ peer = "reset")
           \/ Return(-1, call.done, "ETIME", TRUE)
  PROVE  IInv'
<1> TypeOK /\ StatisticsExact /\ EndTold /\ Pending /\ LossTold
  BY DEF IInv
<1>1. /\ call.op \in Reads \cup Writes
      /\ call.size \in Nat /\ call.size \in Sizes \cup {0} /\ call.done \in Nat
  BY PendingType, SocketAssumption
<1>2. Failed(call.op, call.size, -1)
  BY <1>1 DEF Failed
<1>3. /\ call' = NoCall /\ calls' = calls /\ phase' = phase /\ result' = result
      /\ last'.op = call.op /\ last'.size = call.size
      /\ last' \in [op : {"none"} \cup Reads \cup Writes, size : Sizes \cup {0}, ret : Codes,
                    timed : BOOLEAN]
      /\ last'.ret = "TIMEOUT" <=> last'.timed
      /\ last'.ret # "CLOSED" /\ (last'.ret \in LossCodes => peer # "open")
      /\ skt' = skt
      /\ failed' = IF call.op \in Reads THEN [failed EXCEPT !.recv = @ + call.done]
                                         ELSE [failed EXCEPT !.send = @ + call.done]
  <2>1. CASE Return(-1, call.done, "other", FALSE) /\ peer = "reset"
    <3>1. /\ Code(call.op, call.size, -1, "other") \in Codes \ {"CLOSED", "TIMEOUT"}
      BY <1>1, CodeTold DEF Errnos
    <3> QED
      BY <1>1, <1>2, <2>1, <3>1 DEF Return, Count
  <2>2. CASE Return(-1, call.done, "ETIME", TRUE)
    <3>1. Code(call.op, call.size, -1, "ETIME") = "TIMEOUT"
      BY <1>1, <1>2, CodeTold DEF Errnos
    <3> QED
      BY <1>1, <1>2, <2>2, <3>1 DEF Return, Count, Codes, LossCodes
  <2> QED
    BY <2>1, <2>2
<1>4. /\ failed \in [recv : Nat, send : Nat]
      /\ failed' \in [recv : Nat, send : Nat]
  BY <1>1, <1>3 DEF TypeOK
<1>5. TypeOK'
  BY <1>1, <1>3, <1>4 DEF TypeOK, NoCall
<1>6. StatisticsExact'
  <2>1. CASE call.op \in Reads
    BY <1>1, <1>3, <1>4, <2>1 DEF TypeOK, StatisticsExact, Moving, NoCall, Reads, Writes
  <2>2. CASE call.op \notin Reads
    BY <1>1, <1>3, <1>4, <2>2 DEF TypeOK, StatisticsExact, Moving, NoCall, Reads, Writes
  <2> QED
    BY <2>1, <2>2
<1>7. LossTold' /\ EndTold' /\ Pending'
  BY <1>3 DEF LossTold, EndTold, Pending, NoCall
<1> QED
  BY <1>5, <1>6, <1>7 DEF IInv

\* Part of a call's bytes are moved.
LEMMA GoOnStep ==
  ASSUME IInv, call.op # "none", NEW done \in Nat, GoOn(done),
         done < call.size,
         UNCHANGED <<peer, sent, drained>>,
         taken' \in 0..sent, put' \in Nat, drained <= put', put' - drained <= SendBuffer,
         call.op \in Reads => taken' = taken + (done - call.done) /\ put' = put,
         call.op \notin Reads => put' = put + (done - call.done) /\ taken' = taken
  PROVE  IInv'
<1>1. /\ call' = [call EXCEPT !.done = done, !.waits = TRUE]
      /\ UNCHANGED <<skt, last, failed, calls, phase, result>>
  BY DEF GoOn
<1>2. call'.op = call.op /\ call'.size = call.size /\ call'.done = done
  BY <1>1 DEF IInv, TypeOK
<1>3. TypeOK'
  <2>1. call' \in [op : {"none"} \cup Reads \cup Writes, size : Sizes \cup {0}, done : Nat,
                   waits : BOOLEAN]
    BY <1>1 DEF IInv, TypeOK
  <2>2. call'.done <= call'.size
    BY <1>2, PendingType, SocketAssumption DEF IInv
  <2> QED
    BY <1>1, <2>1, <2>2 DEF IInv, TypeOK
<1>4. StatisticsExact'
  BY <1>1, <1>2 DEF IInv, TypeOK, StatisticsExact, Moving, Reads, Writes
<1>5. EndTold' /\ LossTold' /\ Pending'
  BY <1>1, <1>2 DEF IInv, EndTold, LossTold, Pending
<1> QED
  BY <1>3, <1>4, <1>5 DEF IInv

\* The bytes of a call, and of the kernel, in the terms of the actions.
LEMMA PendingFacts ==
  ASSUME IInv
  PROVE  /\ Available \in Nat /\ Room \in Nat
         /\ sent \in Nat /\ taken \in Nat /\ put \in Nat /\ drained \in Nat
         /\ SendBuffer \in Nat /\ taken <= sent /\ drained <= put
  BY SocketAssumption DEF IInv, TypeOK, Pending, Available, Room

LEMMA ReceiveStep == IInv /\ Receive => IInv'
<1> SUFFICES ASSUME IInv, Receive
             PROVE  IInv'
  OBVIOUS
<1> DEFINE n == Least(Available, call.size - call.done)
           done == call.done + n
<1>1. /\ call.op \in Reads /\ call.op # "none"
      /\ call.size > 0 /\ Available > 0 /\ taken' = taken + n
      /\ UNCHANGED <<peer, sent, drained, put>>
  BY DEF Receive, peerVars, Reads
<1>2. call.size \in Nat /\ call.done \in Nat /\ call.done < call.size
  BY <1>1, PendingType DEF IInv, Pending
<1>3. n \in Nat /\ n > 0 /\ n <= Available /\ n <= call.size - call.done
  BY <1>1, <1>2, PendingFacts, LeastProperty
<1>4. /\ taken' \in 0..sent /\ put' \in Nat /\ drained <= put' /\ put' - drained <= SendBuffer
  BY <1>1, <1>3, PendingFacts DEF Available, IInv, Pending
<1>5. done \in Nat /\ done > 0 /\ done <= call.size /\ taken' = taken + (done - call.done)
  BY <1>1, <1>2, <1>3, PendingFacts
<1>6. CASE call.op = "read" \/ done = call.size
  <2>1. PICK e \in Errnos : Return(done, done, e, FALSE)
    BY <1>6 DEF Receive
  <2>2. ~Failed(call.op, call.size, done)
    BY <1>1, <1>2, <1>5, <1>6 DEF Failed, Reads
  <2> HIDE DEF n, done
  <2> QED
    BY <1>1, <1>4, <1>5, <2>1, <2>2, ReturnStep
<1>7. CASE ~(call.op = "read" \/ done = call.size)
  <2>1. GoOn(done) /\ done < call.size
    BY <1>2, <1>5, <1>7 DEF Receive
  <2> HIDE DEF n, done
  <2> QED
    BY <1>1, <1>4, <1>5, <2>1, GoOnStep
<1> QED
  BY <1>6, <1>7

LEMMA ReceiveEndStep == IInv /\ ReceiveEnd => IInv'
<1> SUFFICES ASSUME IInv, ReceiveEnd
             PROVE  IInv'
  OBVIOUS
<1>1. /\ call.op \in Reads /\ call.op # "none"
      /\ call.size = 0 \/ peer = "shut"
      /\ UNCHANGED <<peer, sent, drained, taken, put>>
  BY DEF ReceiveEnd, peerVars, Reads
<1>2. PICK e \in Errnos : Return(call.done, call.done, e, FALSE)
  BY DEF ReceiveEnd
<1>3. call.done \in Nat
  BY <1>1, PendingType DEF IInv
<1>4. /\ taken' \in 0..sent /\ put' \in Nat /\ drained <= put' /\ put' - drained <= SendBuffer
      /\ taken' = taken + (call.done - call.done)
  BY <1>1, <1>3, PendingFacts DEF IInv, Pending
<1> QED
  BY <1>1, <1>2, <1>3, <1>4, ReturnStep

LEMMA TransmitStep == IInv /\ Transmit => IInv'
<1> SUFFICES ASSUME IInv, Transmit
             PROVE  IInv'
  OBVIOUS
<1> DEFINE n == Least(Room, call.size - call.done)
           done == call.done + n
<1>1. /\ call.op \in Writes /\ call.op \notin Reads /\ call.op # "none"
      /\ call.size = 0 \/ Room > 0
      /\ put' = put + n
      /\ UNCHANGED <<peer, sent, drained, taken>>
  BY DEF Transmit, peerVars, Writes, Reads
<1>2. /\ call.size \in Nat /\ call.done \in Nat /\ call.done <= call.size
      /\ call.size > 0 => call.done < call.size
  BY <1>1, PendingType DEF IInv, Pending, TypeOK
<1>3. n \in Nat /\ n <= Room /\ n <= call.size - call.done /\ (call.size > 0 => n > 0)
  BY <1>1, <1>2, PendingFacts, LeastProperty
<1>4. /\ taken' \in 0..sent /\ put' \in Nat /\ drained <= put' /\ put' - drained <= SendBuffer
  BY <1>1, <1>3, PendingFacts DEF Room, IInv, Pending
<1>5. /\ done \in Nat /\ done <= call.size /\ put' = put + (done - call.done)
      /\ call.size > 0 => done > 0
  BY <1>1, <1>2, <1>3, PendingFacts
<1>6. CASE done = call.size
  <2>1. PICK e \in Errnos : Return(done, done, e, FALSE)
    BY <1>6 DEF Transmit
  <2>2. Failed(call.op, call.size, done) => call.size = 0
    BY <1>1, <1>2, <1>5, <1>6 DEF Failed, Reads
  <2> HIDE DEF n, done
  <2> QED
    BY <1>1, <1>4, <1>5, <2>1, <2>2, ReturnStep
<1>7. CASE done # call.size
  <2>1. GoOn(done) /\ done < call.size
    BY <1>2, <1>5, <1>7 DEF Transmit
  <2> HIDE DEF n, done
  <2> QED
    BY <1>1, <1>4, <1>5, <2>1, GoOnStep
<1> QED
  BY <1>6, <1>7

LEMMA FailStep == IInv /\ (FailReset \/ TimeOut) => IInv'
<1> SUFFICES ASSUME IInv, FailReset \/ TimeOut
             PROVE  IInv'
  OBVIOUS
<1>1. Pending
  BY DEF IInv
<1>2. call.waits => call.op # "none"
  BY <1>1 DEF Pending, NoCall
<1>3. call.op # "none" /\ UNCHANGED <<peer, sent, drained, taken, put>>
  BY <1>2 DEF FailReset, TimeOut, peerVars
<1>4. \/ Return(-1, call.done, "other", FALSE) /\ peer = "reset"
      \/ Return(-1, call.done, "ETIME", TRUE)
  BY DEF FailReset, TimeOut
<1> QED
  BY <1>3, <1>4, ReturnFailedStep

LEMMA CallStep ==
  ASSUME IInv, NEW op \in Reads \cup Writes, NEW size \in Sizes, Call(op, size)
  PROVE  IInv'
<1>1. PICK waits \in BOOLEAN :
        call' = [op |-> op, size |-> size, done |-> 0, waits |-> waits]
  BY DEF Call
<1>2. /\ phase = "cycle" /\ call = NoCall /\ calls' = calls + 1
      /\ UNCHANGED <<peer, sent, drained, taken, put, skt, last, phase, result, failed>>
  BY DEF Call, peerVars
<1>3. /\ size \in Nat /\ op # "none"
      /\ call' \in [op : {"none"} \cup Reads \cup Writes, size : Sizes \cup {0}, done : Nat,
                   waits : BOOLEAN]
      /\ call'.op = op /\ call'.size = size /\ call'.done = 0
  BY <1>1, SocketAssumption DEF Reads, Writes
<1>4. TypeOK'
  BY <1>2, <1>3 DEF IInv, TypeOK
<1>5. StatisticsExact'
  BY <1>2, <1>3 DEF IInv, TypeOK, StatisticsExact, Moving, NoCall, Reads, Writes
<1>6. EndTold' /\ LossTold' /\ Pending'
  BY <1>2, <1>3 DEF IInv, EndTold, LossTold, Pending
<1> QED
  BY <1>4, <1>5, <1>6 DEF IInv

LEMMA DoCycleStep == IInv /\ DoCycle => IInv'
<1> SUFFICES ASSUME IInv, DoCycle
             PROVE  IInv'
  OBVIOUS
<1>1. /\ phase = "start" /\ phase' = "cycle"
      /\ skt' = [[skt EXCEPT !.recv_timeout = Limit] EXCEPT !.send_timeout = Limit]
      /\ UNCHANGED <<peer, sent, drained, taken, put, call, last, calls, result, failed>>
  BY DEF DoCycle, peerVars, ProxySetRecv, ProxySetSend, ProtocolSetRecv, ProtocolSetSend,
         SetRecvTimeout, SetSendTimeout
<1>2. /\ skt' \in [recv_timeout : {Never, Limit}, send_timeout : {Never, Limit},
                   recv_bytes : Nat, send_bytes : Nat]
      /\ skt'.recv_bytes = skt.recv_bytes /\ skt'.send_bytes = skt.send_bytes
  BY <1>1 DEF IInv, TypeOK
<1>3. TypeOK'
  BY <1>1, <1>2 DEF IInv, TypeOK
<1>4. StatisticsExact'
  BY <1>1, <1>2 DEF IInv, StatisticsExact, Moving
<1>5. EndTold' /\ LossTold' /\ Pending'
  BY <1>1 DEF IInv, EndTold, LossTold, Pending
<1> QED
  BY <1>3, <1>4, <1>5 DEF IInv

LEMMA CycleEndStep == IInv /\ CycleEnd => IInv'
<1> SUFFICES ASSUME IInv, CycleEnd
             PROVE  IInv'
  OBVIOUS
<1>1. /\ call = NoCall /\ phase' = "ended"
      /\ result' = IF last.ret \in LossCodes THEN "CLOSED" ELSE last.ret
      /\ UNCHANGED <<peer, sent, drained, taken, put, skt, call, last, calls, failed>>
  BY DEF CycleEnd, GracefullyClosed, LossCodes, peerVars
<1>2. last.ret \in Codes
  BY DEF IInv, TypeOK
<1>3. result' \in Codes
  BY <1>1, <1>2 DEF Codes
<1>4. TypeOK'
  BY <1>1, <1>3 DEF IInv, TypeOK
<1>5. StatisticsExact'
  BY <1>1 DEF IInv, StatisticsExact, Moving
<1>6. EndTold' /\ LossTold' /\ Pending'
  BY <1>1 DEF IInv, EndTold, LossTold, Pending, NoCall
<1> QED
  BY <1>4, <1>5, <1>6 DEF IInv

LEMMA PeerStep == IInv /\ (PeerSend \/ PeerReceive \/ PeerLeave) => IInv'
<1> SUFFICES ASSUME IInv, PeerSend \/ PeerReceive \/ PeerLeave
             PROVE  IInv'
  OBVIOUS
<1>1. /\ UNCHANGED <<taken, put, skt, call, last, calls, phase, result, failed>>
      /\ peer' \in {"open", "shut", "reset"} /\ (peer # "open" => peer' # "open")
      /\ sent' \in Nat /\ sent <= sent'
      /\ drained' \in 0..put /\ drained <= drained'
  BY DEF PeerSend, PeerReceive, PeerLeave, IInv, TypeOK
<1>2. TypeOK'
  BY <1>1 DEF IInv, TypeOK
<1>3. StatisticsExact'
  BY <1>1 DEF IInv, StatisticsExact, Moving
<1>4. put' - drained' <= SendBuffer
  <2>1. /\ put \in Nat /\ drained \in Nat /\ drained' \in Nat /\ SendBuffer \in Nat
        /\ put' \in Nat /\ put' = put /\ drained <= drained'
    BY <1>1, PendingFacts DEF IInv, TypeOK
  <2>2. put - drained <= SendBuffer
    BY DEF IInv, Pending
  <2>3. put - drained' <= SendBuffer
    BY <2>1, <2>2, LessKept
  <2> QED
    BY <2>1, <2>3
<1>5. EndTold' /\ LossTold' /\ Pending'
  BY <1>1, <1>4 DEF IInv, EndTold, LossTold, Pending
<1> QED
  BY <1>2, <1>3, <1>5 DEF IInv

LEMMA StutterStep == IInv /\ UNCHANGED vars => IInv'
<1> SUFFICES ASSUME IInv, UNCHANGED vars
             PROVE  IInv'
  OBVIOUS
<1> UNCHANGED <<peer, sent, drained, taken, put, skt, call, last, calls, phase, result, failed>>
  BY DEF vars, peerVars
<1> QED
  BY DEF IInv, TypeOK, StatisticsExact, EndTold, LossTold, Pending, Moving

LEMMA NextIInv == IInv /\ [Next]_vars => IInv'
<1> SUFFICES ASSUME IInv, [Next]_vars
             PROVE  IInv'
  OBVIOUS
<1>1. CASE DoCycle \/ CycleEnd
  BY <1>1, DoCycleStep, CycleEndStep
<1>2. CASE Move
  BY <1>2, ReceiveStep, ReceiveEndStep, TransmitStep, FailStep DEF Move
<1>3. CASE TimeOut
  BY <1>3, FailStep
<1>4. CASE \E op \in Reads \cup Writes, size \in Sizes : Call(op, size)
  BY <1>4, CallStep
<1>5. CASE PeerSend \/ PeerReceive \/ PeerLeave
  BY <1>5, PeerStep
<1>6. CASE UNCHANGED vars
  BY <1>6, StutterStep
<1> QED
  BY <1>1, <1>2, <1>3, <1>4, <1>5, <1>6 DEF Next

THEOREM IInvAlways == Spec => []IInv
  BY InitIInv, NextIInv, PTL DEF Spec

\* The types, and that no call moves more than it was asked for.
THEOREM TypeCorrect == Spec => []TypeOK
  BY IInvAlways, PTL DEF IInv

\* get_recv_bytes() and get_send_bytes() are the bytes that have passed, but for those
\* of calls that failed half-way.
THEOREM StatisticsExactAlways == Spec => []StatisticsExact
  BY IInvAlways, PTL DEF IInv

\* A timeout is reported for a wait that has timed out, and for no other failure;
\* "client disconnect peer" for a client that has left.
THEOREM EndToldAlways == Spec => []EndTold
  BY IInvAlways, PTL DEF IInv

-----------------------------------------------------------------------------
\* The safety under CallEnds: a call in progress never waits without a limit, in its own
\* direction as in the other, and if it does not wait the kernel is ready for it.
CallAnswered ==
    /\ phase # "start" => skt.recv_timeout = Limit /\ skt.send_timeout = Limit
    /\ call.op # "none" => call.waits \/ Ready(call.op, call.size)

\* What the client does makes no call unready.
LEMMA PeerKeepsReady ==
  ASSUME IInv, PeerSend \/ PeerReceive \/ PeerLeave, NEW op, NEW size, Ready(op, size)
  PROVE  Ready(op, size)'
<1> USE DEF PeerSend, PeerReceive, PeerLeave, Available, Room
<1>1. peer = "reset" => peer' = "reset"
  OBVIOUS
<1>2. peer = "shut" => peer' \in {"shut", "reset"}
  OBVIOUS
<1>3. Available > 0 => Available' > 0
  BY DEF IInv, TypeOK
<1>4. Room > 0 => Room' > 0
  BY SocketAssumption DEF IInv, TypeOK
<1> HIDE DEF PeerSend, PeerReceive, PeerLeave, Available, Room
<1> QED
  BY <1>1, <1>2, <1>3, <1>4 DEF Ready

\* The limits that do_cycle has set outlive every call, and a call that goes on waits.
LEMMA NextCallAnswered == IInv /\ CallAnswered /\ [Next]_vars => CallAnswered'
<1> SUFFICES ASSUME IInv, CallAnswered, [Next]_vars PROVE CallAnswered'
  OBVIOUS
<1> USE DEF CallAnswered
<1>1. CASE DoCycle
  <2>1. /\ skt'.recv_timeout = Limit /\ skt'.send_timeout = Limit
        /\ call' = call /\ call.op = "none"
    BY <1>1 DEF DoCycle, ProxySetSend, ProxySetRecv, ProtocolSetSend, ProtocolSetRecv,
                SetSendTimeout, SetRecvTimeout, IInv, TypeOK, Pending
  <2> QED
    BY <2>1
<1>2. CASE Move \/ TimeOut
  <2>1. ASSUME NEW nb, NEW done, NEW errno, NEW timed, Return(nb, done, errno, timed)
        PROVE  CallAnswered'
    <3>1. /\ skt'.recv_timeout = skt.recv_timeout /\ skt'.send_timeout = skt.send_timeout
          /\ call' = NoCall /\ phase' = phase
      BY <2>1 DEF Return, Count, IInv, TypeOK
    <3> QED
      BY <3>1 DEF NoCall
  <2>2. ASSUME NEW done, GoOn(done) PROVE CallAnswered'
    BY <2>2 DEF GoOn, IInv, TypeOK
  <2>3. \/ \E nb, done, errno, timed : Return(nb, done, errno, timed)
        \/ \E done : GoOn(done)
    BY <1>2 DEF Move, Receive, ReceiveEnd, Transmit, FailReset, TimeOut
  <2> QED
    BY <2>1, <2>2, <2>3
<1>3. ASSUME NEW op \in Reads \cup Writes, NEW size \in Sizes, Call(op, size)
      PROVE  CallAnswered'
  <2>1. PICK waits \in BOOLEAN :
          /\ waits <=> ~Ready(op, size)
          /\ call' = [op |-> op, size |-> size, done |-> 0, waits |-> waits]
    BY <1>3 DEF Call
  <2>2. skt' = skt /\ phase' = phase /\ phase = "cycle" /\ UNCHANGED <<peerVars, taken, put>>
    BY <1>3 DEF Call
  <2>3. call'.waits \/ Ready(op, size)
    BY <2>1
  <2>4. call'.op = op /\ call'.size = size
    BY <2>1
  <2> QED
    BY <2>2, <2>3, <2>4 DEF Ready, Available, Room, peerVars
<1>4. CASE PeerSend \/ PeerReceive \/ PeerLeave
  <2>1. skt' = skt /\ phase' = phase /\ call' = call
    BY <1>4 DEF PeerSend, PeerReceive, PeerLeave
  <2>2. Ready(call.op, call.size) => Ready(call.op, call.size)'
    BY <1>4, <2>1, PeerKeepsReady DEF Ready, Available, Room
  <2> QED
    BY <2>1, <2>2
<1>5. CASE CycleEnd
  BY <1>5 DEF CycleEnd, IInv, Pending, NoCall
<1>6. CASE UNCHANGED vars
  BY <1>6 DEF vars, peerVars, Ready, Available, Room
<1> QED
  BY <1>1, <1>2, <1>3, <1>4, <1>5, <1>6 DEF Next

\* No call is ever made on a socket without a limit, and none sleeps while the kernel
\* has what it wants and nothing else to wake it: the timer or the descriptor ends it.
THEOREM CallAnsweredAlways == Spec => []CallAnswered
<1>1. Init => CallAnswered
  BY DEF Init, CallAnswered, NoCall
<1> QED
  BY <1>1, NextCallAnswered, IInvAlways, PTL DEF Spec
=============================================================================
