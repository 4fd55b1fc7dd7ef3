---------------------------- MODULE SrsStSocket ----------------------------
(***************************************************************************)
(* One client, from SrsConnection::cycle (src/base/app_conn.cpp) down to   *)
(* SrsStSocket (src/base/app_st_socket.cpp): do_cycle() sets the limits of *)
(* time through SrsBaseServer and SrsChargeProtocal, reads and writes, and *)
(* cycle() tells from the error it returns why the client is gone.         *)
(*                                                                         *)
(* What State Threads and the kernel do is external: st_read returns what  *)
(* there is, st_read_fully, st_write and st_writev go on until all is      *)
(* moved, and each of their waits has the whole limit.  A wait may end in  *)
(* ETIME although data has come meanwhile.  errno is the kernel thread's,  *)
(* shared by all threads: after a call that does not set it it may be      *)
(* anything.  Nobody interrupts the thread of a connection: only its own   *)
(* SrsThread would, as it is freed.                                        *)
(*                                                                         *)
(* The calls of SrsBaseConn::do_cycle are commented out; the model's       *)
(* do_cycle makes any, returns at an error, and may retry after a timeout. *)
(***************************************************************************)
EXTENDS Integers

CONSTANTS
    Sizes,          \* the sizes a call may be given
    SendBuffer,     \* the bytes the kernel keeps for a client that does not read
    MaxBytes,       \* bound: the bytes the client sends
    MaxCalls        \* bound: the calls of do_cycle

ASSUME SocketAssumption ==
    /\ Sizes \subseteq Nat /\ SendBuffer \in Nat /\ MaxBytes \in Nat /\ MaxCalls \in Nat

VARIABLES
    peer,           \* the client's end: open, shut (it sends no more) or reset
    sent,           \* the bytes the client has sent
    taken,          \* the bytes that calls have taken from the kernel
    put,            \* the bytes that calls have given to the kernel
    drained,        \* the bytes of them the client has received
    skt,            \* the fields of SrsStSocket
    call,           \* the call do_cycle is inside; op "none" between two calls
    last,           \* the last call: its op and size, its result, if its wait timed out
    calls,          \* the number of calls made
    phase,          \* of SrsConnection::cycle
    result,         \* what cycle() takes the result of do_cycle for
    failed          \* history: the bytes moved by calls that failed

peerVars == <<peer, sent, drained>>
vars == <<peerVars, taken, put, skt, call, last, calls, phase, result, failed>>

Reads == {"read", "read_fully"}
Writes == {"write", "writev"}
Codes == {"SUCCESS", "TIMEOUT", "READ", "READ_FULLY", "WRITE", "CLOSED"}
Never == -1     \* ST_UTIME_NO_TIMEOUT
Limit == 30     \* SRS_CONSTS_ACCOUNT_RECV_TIMEOUT_US and _SEND_, in seconds
NoCall == [op |-> "none", size |-> 0, done |-> 0, waits |-> FALSE]

Least(a, b) == IF a < b THEN a ELSE b

-----------------------------------------------------------------------------
\* The constructor: until a limit is set a call waits for ever.
NewSocket ==
    [recv_timeout |-> Never, send_timeout |-> Never, recv_bytes |-> 0, send_bytes |-> 0]

Init ==
    /\ peer = "open" /\ sent = 0 /\ taken = 0 /\ put = 0 /\ drained = 0
    /\ skt = NewSocket
    /\ call = NoCall /\ calls = 0
    /\ last = [op |-> "none", size |-> 0, ret |-> "SUCCESS", timed |-> FALSE]
    /\ phase = "start" /\ result = "SUCCESS"
    /\ failed = [recv |-> 0, send |-> 0]

\* set_recv_timeout and set_send_timeout of SrsStSocket.
SetRecvTimeout(s, t) == [s EXCEPT !.recv_timeout = t]
SetSendTimeout(s, t) == [s EXCEPT !.send_timeout = t]

\* Mutant of ProtocolSetSend: the wrong method of the socket.
ProtocolSetSend_Recv(s, t) == SetRecvTimeout(s, t)

\* SrsChargeProtocal forwards to the socket, SrsBaseServer to SrsChargeProtocal.
ProtocolSetRecv(s, t) == SetRecvTimeout(s, t)
ProtocolSetSend(s, t) == SetSendTimeout(s, t)
ProxySetRecv(s, t) == ProtocolSetRecv(s, t)
ProxySetSend(s, t) == ProtocolSetSend(s, t)

\* do_cycle() of SrsBaseConn.
DoCycle ==
    /\ phase = "start"
    /\ phase' = "cycle"
    /\ skt' = ProxySetSend(ProxySetRecv(skt, Limit), Limit)
    /\ UNCHANGED <<peerVars, taken, put, call, last, calls, result, failed>>

-----------------------------------------------------------------------------
\* What a call of this op finds in the kernel.
Available == sent - taken
Room == SendBuffer - (put - drained)
Ready(op, size) ==
    \/ size = 0 \/ peer = "reset"
    \/ op \in Reads /\ (Available > 0 \/ peer = "shut")
    \/ op \in Writes /\ Room > 0

\* do_cycle calls read, read_fully, write or writev: for the first time, after a
\* success, or once more after a timeout.  The system call is tried first; the
\* thread waits when it would block.
Call(op, size) ==
    /\ phase = "cycle" /\ call = NoCall /\ calls < MaxCalls
    /\ last.ret \in {"SUCCESS", "TIMEOUT"}
    /\ calls' = calls + 1
    /\ \E waits \in BOOLEAN :
          /\ waits <=> ~Ready(op, size)
          /\ call' = [op |-> op, size |-> size, done |-> 0, waits |-> waits]
    /\ UNCHANGED <<peerVars, taken, put, skt, last, phase, result, failed>>

\* The test each of the four methods makes of what st_read, st_read_fully, st_write
\* or st_writev returns.
Failed(op, size, nb) ==
    IF op = "read_fully" THEN nb # size ELSE nb <= 0

\* Mutant of Code: errno is looked at whatever has been returned.
Code_AnyErrno(op, size, nb, errno) ==
    IF ~Failed(op, size, nb) THEN "SUCCESS"
    ELSE IF errno = "ETIME" THEN "TIMEOUT"
    ELSE CASE op = "read" -> "READ"
           [] op = "read_fully" -> "READ_FULLY"
           [] op \in Writes -> "WRITE"

\* The code that the method returns.
Code(op, size, nb, errno) ==
    IF ~Failed(op, size, nb) THEN "SUCCESS"
    ELSE IF nb < 0 /\ errno = "ETIME" THEN "TIMEOUT"
    ELSE CASE op = "read" -> "READ"
           [] op = "read_fully" -> "READ_FULLY"
           [] op \in Writes -> "WRITE"

\* Mutant of Count: the bytes are counted before the result is looked at.
Count_First(op, size, nb) ==
    IF op \in Reads THEN [skt EXCEPT !.recv_bytes = @ + nb]
                    ELSE [skt EXCEPT !.send_bytes = @ + nb]

\* The statistics, which a failed call leaves alone.
Count(op, size, nb) ==
    IF Failed(op, size, nb) THEN skt
    ELSE IF op \in Reads THEN [skt EXCEPT !.recv_bytes = @ + nb]
                         ELSE [skt EXCEPT !.send_bytes = @ + nb]

\* The call of State Threads returns nb, having moved the bytes `done'; `timed' says
\* that it is because the limit is over.
Return(nb, done, errno, timed) ==
    /\ skt' = Count(call.op, call.size, nb)
    /\ last' = [op |-> call.op, size |-> call.size,
                ret |-> Code(call.op, call.size, nb, errno),
                timed |-> timed]
    /\ failed' = IF ~Failed(call.op, call.size, nb) THEN failed
                 ELSE IF call.op \in Reads THEN [failed EXCEPT !.recv = @ + done]
                                           ELSE [failed EXCEPT !.send = @ + done]
    /\ call' = NoCall
    /\ UNCHANGED <<calls, phase, result>>

\* Part of the call's bytes are moved: the call goes on to wait for the next.
GoOn(done) ==
    /\ call' = [call EXCEPT !.done = done, !.waits = TRUE]
    /\ UNCHANGED <<skt, last, failed, calls, phase, result>>

\* What a call that sets no errno leaves there is another thread's.
Errnos == {"ETIME", "other"}

\* read(2) finds data.
Receive ==
    /\ call.op \in Reads /\ call.size > 0 /\ Available > 0
    /\ LET n == Least(Available, call.size - call.done)
           done == call.done + n
       IN  /\ taken' = taken + n
           /\ IF call.op = "read" \/ done = call.size
              THEN \E e \in Errnos : Return(done, done, e, FALSE)
              ELSE GoOn(done)
    /\ UNCHANGED <<peerVars, put>>

\* read(2) finds the end of the stream, or is asked for nothing: st_read_fully
\* returns what it has.
ReceiveEnd ==
    /\ call.op \in Reads /\ (call.size = 0 \/ (Available = 0 /\ peer = "shut"))
    /\ \E e \in Errnos : Return(call.done, call.done, e, FALSE)
    /\ UNCHANGED <<peerVars, taken, put>>

\* write(2) finds room, or is asked for nothing.
Transmit ==
    /\ call.op \in Writes /\ peer # "reset" /\ (call.size = 0 \/ Room > 0)
    /\ LET n == Least(Room, call.size - call.done)
           done == call.done + n
       IN  /\ put' = put + n
           /\ IF done = call.size
              THEN \E e \in Errnos : Return(done, done, e, FALSE)
              ELSE GoOn(done)
    /\ UNCHANGED <<peerVars, taken>>

\* read(2) or write(2) fails: the client has reset the connection, and what had come
\* from it may be lost.
FailReset ==
    /\ call.op # "none" /\ peer = "reset"
    /\ Return(-1, call.done, "other", FALSE)
    /\ UNCHANGED <<peerVars, taken, put>>

\* The limit of this wait is over.
TimeOut ==
    /\ call.waits
    /\ (IF call.op \in Reads THEN skt.recv_timeout ELSE skt.send_timeout) # Never
    /\ Return(-1, call.done, "ETIME", TRUE)
    /\ UNCHANGED <<peerVars, taken, put>>

\* srs_is_client_gracefully_close
GracefullyClosed(ret) == ret \in {"READ", "READ_FULLY", "WRITE"}

\* do_cycle returns its last result, and it must return an error that is not a
\* timeout; cycle() tells what the client's end was.
CycleEnd ==
    /\ phase = "cycle" /\ call = NoCall
    /\ phase' = "ended"
    /\ result' = IF GracefullyClosed(last.ret) THEN "CLOSED" ELSE last.ret
    /\ UNCHANGED <<peerVars, taken, put, skt, call, last, calls, failed>>

-----------------------------------------------------------------------------
\* The client sends a byte, receives one, ends its stream, or resets.
PeerSend ==
    /\ peer = "open" /\ sent < MaxBytes
    /\ sent' = sent + 1
    /\ UNCHANGED <<peer, drained, taken, put, skt, call, last, calls, phase, result, failed>>

PeerReceive ==
    /\ peer # "reset" /\ drained < put
    /\ drained' = drained + 1
    /\ UNCHANGED <<peer, sent, taken, put, skt, call, last, calls, phase, result, failed>>

PeerLeave ==
    /\ \/ peer = "open" /\ peer' = "shut"
       \/ peer \in {"open", "shut"} /\ peer' = "reset"
    /\ UNCHANGED <<sent, drained, taken, put, skt, call, last, calls, phase, result, failed>>

Move == Receive \/ ReceiveEnd \/ Transmit \/ FailReset

Next ==
    \/ DoCycle \/ Move \/ TimeOut \/ CycleEnd
    \/ \E op \in Reads \cup Writes, size \in Sizes : Call(op, size)
    \/ PeerSend \/ PeerReceive \/ PeerLeave

Spec == Init /\ [][Next]_vars

\* A thread whose descriptor is ready is woken up, and timers fire.  The client
\* need do nothing, and do_cycle need not end.
FairSpec == Spec /\ WF_vars(Move) /\ WF_vars(TimeOut)

-----------------------------------------------------------------------------
\* Every variable keeps its type, and no call moves more than it was asked for.
TypeOK ==
    /\ peer \in {"open", "shut", "reset"}
    /\ sent \in Nat /\ taken \in 0..sent
    /\ put \in Nat /\ drained \in 0..put
    /\ skt \in [recv_timeout : {Never, Limit}, send_timeout : {Never, Limit},
                recv_bytes : Nat, send_bytes : Nat]
    /\ call \in [op : {"none"} \cup Reads \cup Writes, size : Sizes \cup {0}, done : Nat,
                 waits : BOOLEAN]
    /\ call.done <= call.size
    /\ last \in [op : {"none"} \cup Reads \cup Writes, size : Sizes \cup {0}, ret : Codes,
                 timed : BOOLEAN]
    /\ calls \in Nat /\ phase \in {"start", "cycle", "ended"} /\ result \in Codes
    /\ failed \in [recv : Nat, send : Nat]

\* The statistics of the socket are the bytes that have passed, but for those of a
\* call that has not returned and of the calls that failed half-way.
Moving(ops) == IF call.op \in ops THEN call.done ELSE 0
StatisticsExact ==
    /\ skt.recv_bytes + failed.recv + Moving(Reads) = taken
    /\ skt.send_bytes + failed.send + Moving(Writes) = put

\* do_cycle and cycle() are told the truth.  A timeout is reported exactly when the wait
\* has timed out, whatever other threads leave in errno: do_cycle may then retry.
\* "client disconnect peer" is said of a client that has left; or when a call was given
\* no bytes, whose result 0 read, write and writev take for an error.
EndTold ==
    /\ last.ret = "TIMEOUT" <=> last.timed
    /\ result = "CLOSED" => peer # "open" \/ last.size = 0

\* No call waits for ever for a client that is silent, or does not read: do_cycle
\* has given both directions a limit, which it says closes the connection.
CallEnds == call.op # "none" ~> call.op = "none"
=============================================================================
