------------------------------ MODULE SrsKbps ------------------------------
(***************************************************************************)
(* The statistics of bytes: SrsStSocket counts what it moves               *)
(* (src/base/app_st_socket.cpp), the SrsKbps of a connection samples the   *)
(* count of its io, the SrsKbps of the server adds up the deltas of the    *)
(* connections (src/base/app_kbps.cpp, SrsServer::resample_kbps), and both *)
(* derive rates from the cached system time (src/base/app_utility.cpp).    *)
(*                                                                         *)
(* A SrsKbps has two slices, `is' and `os', that every operation treats    *)
(* alike; the module keeps one.  SrsBaseConn has no SrsKbps of its own:    *)
(* its deltas are 0.  The connections here hold one, as the first usage    *)
(* scenario of app_kbps.h asks of a connection.                            *)
(***************************************************************************)
EXTENDS Integers, FiniteSets, Functions

CONSTANTS
    Conns,          \* the connections
    Sessions,       \* the ios (sockets) of one connection, one after the other
    Windows,        \* the lengths of the samples: 30s, 1m, 5m, 60m
    RateLimit,      \* 2^31: a rate is an int, what it is computed from an int64_t
    MaxWire,        \* bound: bytes that pass through one socket
    MaxClock        \* bound: the last reading of the clock

Server == "server"

ASSUME KbpsAssumption ==
    /\ IsFiniteSet(Sessions) /\ Server \notin Conns
    /\ Windows \subseteq Nat \ {0} /\ RateLimit \in Nat \ {0}
    /\ MaxWire \in Nat /\ MaxClock \in Nat \ {0}

VARIABLES
    clock,          \* _srs_system_time_us_cache, in the unit of the windows
    kbps,           \* the SrsKbps of every connection that lives, and the server's
    wire,           \* bytes a socket has moved
    count,          \* what the socket says it has moved
    freed           \* history: the total bytes of the connections removed

vars == <<clock, kbps, wire, count, freed>>

NoIo == <<>>
Ios == Conns \X Sessions
IosOf(c) == {c} \X Sessions
Live == DOMAIN kbps \ {Server}

\* SrsKbpsSlice and SrsKbpsSample as their constructors leave them.
NewSlice ==
    [io |-> NoIo, bytes |-> 0, base |-> 0, last |-> 0, delta |-> 0, starttime |-> 0,
     samples |-> [w \in Windows |-> [bytes |-> 0, time |-> 0, kbps |-> 0]]]

\* get_total_bytes()
Total(k) == k.bytes + k.last - k.base

\* The conversion to int; and kbits of so many bytes in so long a time, in C.
ToInt(n) == ((n + RateLimit) % (2 * RateLimit)) - RateLimit
Quotient(n, d) == IF d > 0 THEN n \div d ELSE -(n \div (-d))
Kbits(bytes, time) == ToInt(Quotient(bytes * 8, time))

\* Mutant of SampleWindow: the clock is trusted to have advanced.
SampleWindow_AnyTime(w, x, total) ==
    IF x.time <= 0 THEN [bytes |-> total, time |-> clock, kbps |-> 0]
    ELSE IF clock - x.time > w \/ clock < x.time
    THEN [bytes |-> total, time |-> clock,
          kbps |-> Kbits(total - x.bytes, clock - x.time)]
    ELSE x

\* One sample: started by the first call, then renewed once its window has passed.
SampleWindow(w, x, total) ==
    IF x.time <= 0 THEN [bytes |-> total, time |-> clock, kbps |-> 0]
    ELSE IF clock - x.time > w
    THEN [bytes |-> total, time |-> clock,
          kbps |-> Kbits(total - x.bytes, clock - x.time)]
    ELSE x

\* SrsKbpsSlice::sample()
SampleSlice(k) ==
    [k EXCEPT !.samples =
        [w \in Windows |-> SampleWindow(w, k.samples[w], Total(k))]]

\* SrsKbps::sample(): the io, if there is one, is asked for its count first.
Sampled(k) ==
    SampleSlice(IF k.io = NoIo THEN k ELSE [k EXCEPT !.last = count[k.io]])

\* Mutants of WithIo: the base of the new io is left at 0; the bytes of the old
\* io are not saved.
WithIo_NoBase(k, io) ==
    SampleSlice([k EXCEPT
        !.starttime = IF @ = 0 THEN clock ELSE @,
        !.bytes = IF k.io = NoIo THEN @ ELSE @ + k.last - k.base,
        !.io = io,
        !.last = IF io = NoIo THEN 0 ELSE count[io],
        !.base = 0])
WithIo_NoSave(k, io) ==
    SampleSlice([k EXCEPT
        !.starttime = IF @ = 0 THEN clock ELSE @,
        !.io = io,
        !.last = IF io = NoIo THEN 0 ELSE count[io],
        !.base = IF io = NoIo THEN 0 ELSE count[io]])

\* SrsKbps::set_io(): the bytes of the old io are saved as of its last sample, the
\* new io counts from where it is.
WithIo(k, io) ==
    SampleSlice([k EXCEPT
        !.starttime = IF @ = 0 THEN clock ELSE @,
        !.bytes = IF k.io = NoIo THEN @ ELSE @ + k.last - k.base,
        !.io = io,
        !.last = IF io = NoIo THEN 0 ELSE count[io],
        !.base = IF io = NoIo THEN 0 ELSE count[io]])

\* get_recv_bytes_delta(): its value, and the slice it leaves.
Delta(k) == Total(k) - k.delta
DeltaTaken(k) == [k EXCEPT !.delta = Total(k)]

\* get_recv_kbps(): 0 until the clock is past the start time.
AverageKbps(k) ==
    IF clock - k.starttime <= 0 THEN 0 ELSE Kbits(Total(k), clock - k.starttime)

-----------------------------------------------------------------------------
\* SrsServer::initialize: the time is ensured, the server's kbps has no io.
Init ==
    /\ clock = 1
    /\ wire = [s \in Ios |-> 0] /\ count = [s \in Ios |-> 0]
    /\ kbps = [k \in {Server} |-> WithIo(NewSlice, NoIo)]
    /\ freed = 0

\* The cached time follows the clock of the system, wherever that has been set.
UpdateSystemTime ==
    /\ clock' \in 1..MaxClock
    /\ UNCHANGED <<kbps, wire, count, freed>>

\* Mutant of Transfer: the result is added before it is looked at; -1 is an error.
Transfer_NoCheck(s, n) ==
    /\ wire[s] + n <= MaxWire
    /\ \/ wire' = [wire EXCEPT ![s] = @ + n] /\ count' = [count EXCEPT ![s] = @ + n]
       \/ UNCHANGED wire /\ count' = [count EXCEPT ![s] = @ - 1]
    /\ UNCHANGED <<clock, kbps, freed>>

\* A read or a write that succeeds is counted.
Transfer(s, n) ==
    /\ wire[s] + n <= MaxWire
    /\ wire' = [wire EXCEPT ![s] = @ + n]
    /\ count' = [count EXCEPT ![s] = @ + n]
    /\ UNCHANGED <<clock, kbps, freed>>

\* A read_fully that gets less than it asked for has taken the bytes and fails.
TransferPart(s, n) ==
    /\ wire[s] + n <= MaxWire
    /\ wire' = [wire EXCEPT ![s] = @ + n]
    /\ UNCHANGED <<clock, kbps, count, freed>>

\* A connection is accepted and starts its first session.
Connect(c, s) ==
    /\ c \notin Live
    /\ \A t \in IosOf(c) : wire[t] = 0    \* its sockets are new
    /\ kbps' = [k \in DOMAIN kbps \cup {c} |->
                   IF k = c THEN WithIo(NewSlice, s) ELSE kbps[k]]
    /\ UNCHANGED <<clock, wire, count, freed>>

\* It starts a new session, or continues without an io.
SetIo(c, s) ==
    /\ c \in Live
    /\ kbps' = [kbps EXCEPT ![c] = WithIo(@, s)]
    /\ UNCHANGED <<clock, wire, count, freed>>

\* It samples its own rates.
Sample(c) ==
    /\ c \in Live
    /\ kbps' = [kbps EXCEPT ![c] = Sampled(@)]
    /\ UNCHANGED <<clock, wire, count, freed>>

\* Mutant of ResampleKbps: the server's delta is taken before the connection is sampled.
ResampleKbps_Early(S) ==
    LET fresh == [c \in S |-> Sampled(kbps[c])]
    IN  [k \in DOMAIN kbps |->
            CASE k = Server ->
                     Sampled([kbps[Server] EXCEPT
                         !.last = @ + SumFunction([c \in S |-> Delta(kbps[c])])])
              [] k \in S -> DeltaTaken(fresh[k])
              [] OTHER -> kbps[k]]

\* SrsServer::resample_kbps over the connections S: each is sampled and its delta
\* added to the server's kbps, which is sampled in the end.
ResampleKbps(S) ==
    LET fresh == [c \in S |-> Sampled(kbps[c])]
    IN  [k \in DOMAIN kbps |->
            CASE k = Server ->
                     Sampled([kbps[Server] EXCEPT
                         !.last = @ + SumFunction([c \in S |-> Delta(fresh[c])])])
              [] k \in S -> DeltaTaken(fresh[k])
              [] OTHER -> kbps[k]]

\* resample_kbps(NULL)
ResampleAll ==
    /\ kbps' = ResampleKbps(Live)
    /\ UNCHANGED <<clock, wire, count, freed>>

\* SrsServer::remove: the connection is resampled and freed.
Remove(c) ==
    /\ c \in Live
    /\ LET after == ResampleKbps({c})
       IN  /\ kbps' = [k \in DOMAIN kbps \ {c} |-> after[k]]
           /\ freed' = freed + Total(after[c])
    /\ UNCHANGED <<clock, wire, count>>

Next ==
    \/ UpdateSystemTime \/ ResampleAll
    \/ \E c \in Conns :
          \/ Sample(c) \/ Remove(c)
          \/ \E s \in IosOf(c) : Connect(c, s) \/ SetIo(c, s)
          \/ SetIo(c, NoIo)
    \/ \E s \in Ios, n \in 1..MaxWire : Transfer(s, n) \/ TransferPart(s, n)

Spec == Init /\ [][Next]_vars

-----------------------------------------------------------------------------
Slice ==
    [io : Ios \cup {NoIo}, bytes : Nat, base : Nat, last : Nat, delta : Nat,
     starttime : Nat,
     samples : [Windows -> [bytes : Nat, time : Nat, kbps : (-RateLimit)..(RateLimit - 1)]]]

\* Every variable keeps its type; in particular no byte count is negative.
TypeOK ==
    /\ clock \in 1..MaxClock
    /\ Server \in DOMAIN kbps /\ DOMAIN kbps \subseteq Conns \cup {Server}
    /\ \A k \in DOMAIN kbps : kbps[k] \in Slice
    /\ wire \in [Ios -> 0..MaxWire] /\ count \in [Ios -> 0..MaxWire]
    /\ freed \in Nat

\* The server's total is exactly what the connections handed over: the totals of
\* those removed and the deltas taken of those that live, each byte once
\* (add_delta, get_recv_bytes_delta, SrsServer::remove).
ServerTotalExact ==
    Total(kbps[Server]) = freed + SumFunction([c \in Live |-> kbps[c].delta])

\* A connection never reports a byte that did not pass through one of its sockets,
\* nor one twice, whatever ios it was given in whatever order (set_io); and it has
\* handed over to the server no more than it has.
CountedOnce ==
    \A c \in Live :
        /\ Total(kbps[c]) <= SumFunctionOnSet(wire, IosOf(c))
        /\ kbps[c].delta <= Total(kbps[c])

\* No rate is negative, although the cached time may jump back between two samples,
\* until the bits of a total no longer fit the int that the rate is converted to: at
\* 256 MB with a 32 bit int (SrsKbpsSlice::sample, get_recv_kbps).
RatesSane ==
    \A k \in DOMAIN kbps : Total(kbps[k]) * 8 < RateLimit =>
        /\ AverageKbps(kbps[k]) >= 0
        /\ \A w \in Windows : kbps[k].samples[w].kbps >= 0

\* Bytes are never taken back: no total decreases while its object lives, across
\* samples, new sessions and sessions without an io (set_io, sample).
TotalsMonotone ==
    [][\A k \in DOMAIN kbps \cap DOMAIN kbps' :
           Total(kbps'[k]) >= Total(kbps[k])]_vars
=============================================================================
