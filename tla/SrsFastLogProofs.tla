-------------------------- MODULE SrsFastLogProofs -------------------------
(***************************************************************************)
(* The arithmetic of a log line, for a buffer and parts of any size; and   *)
(* the log among the other owners of descriptors, for a table of any size, *)
(* any number of clients and any configuration files.                      *)
(***************************************************************************)
EXTENDS SrsFastLog, FiniteSetTheorems, WellFoundedInduction, TLAPS

\* What snprintf touches ends inside log_data when it starts inside or at its end.
LEMMA TouchedFits ==
  ASSUME NEW at \in Nat, NEW n \in Nat, at <= LogMax
  PROVE  Touched(at, n) \in Nat /\ Touched(at, n) <= LogMax
  BY LogAssumption DEF Touched, Least

\* The message of a line starts before the end of log_data, whatever its header.
LEMMA HeaderLimited ==
  ASSUME NEW h \in Nat
  PROVE  Least(LogMax - 1, h) \in 0..(LogMax - 1)
  BY LogAssumption DEF Least

\* Every line that write_log gets is shorter than log_data; and unless it is an
\* error longer than log_data before its strerror() is appended, nothing outside
\* log_data is touched: LineFits, for parts of any length.
THEOREM LineOfFits ==
  ASSUME NEW l \in Lines, NEW h \in Nat, NEW n \in Nat, NEW e \in Nat
  PROVE  /\ LineOf(l, h, n, e).size < LogMax
         /\ ~LineOf(l, h, n, e).overlong => LineOf(l, h, n, e).touched <= LogMax
<1> DEFINE at == Least(LogMax - 1, h)
           size == at + n
           reason == l = Error /\ e > 0
           kept == Least(LogMax - 2, IF reason THEN size + e ELSE size)
           tail == Most(IF reason THEN Touched(size, e) ELSE 0, kept + 1)
<1>1. at \in Nat /\ at <= LogMax
  BY HeaderLimited, LogAssumption
<1>2. size \in Nat
  BY <1>1
<1>3. kept \in Int /\ kept <= LogMax - 2
  BY <1>2, LogAssumption DEF Least
<1>4. LineOf(l, h, n, e) =
        [touched |-> Most(Most(Touched(0, h), Touched(at, n)), tail),
         size |-> kept + 1, overlong |-> reason /\ size > LogMax]
  BY DEF LineOf, LineIn
<1>5. LineOf(l, h, n, e).size < LogMax
  BY <1>3, <1>4, LogAssumption
<1>6. ASSUME ~LineOf(l, h, n, e).overlong
      PROVE  LineOf(l, h, n, e).touched <= LogMax
  <2>1. Touched(0, h) \in Nat /\ Touched(0, h) <= LogMax
    BY TouchedFits, LogAssumption
  <2>2. Touched(at, n) \in Nat /\ Touched(at, n) <= LogMax
    BY <1>1, TouchedFits
  <2>3. reason => Touched(size, e) \in Nat /\ Touched(size, e) <= LogMax
    <3>1. LineOf(l, h, n, e).overlong = (reason /\ size > LogMax)
      BY Zenon DEF LineOf, LineIn
    <3>2. ~(reason /\ size > LogMax)
      BY <1>6, <3>1, Zenon
    <3>3. reason => size <= LogMax
      BY <1>2, <3>2, LogAssumption
    <3> QED
      BY <1>2, <3>3, TouchedFits
  <2>4. tail \in Int /\ tail <= LogMax
    BY <1>3, <2>3, LogAssumption DEF Most
  <2> QED
    BY <1>4, <2>1, <2>2, <2>4, LogAssumption DEF Most
<1> QED
  BY <1>5, <1>6

\* LineFits in every reachable state, for any LOG_MAX_SIZE above 2.
THEOREM LineFitsAlways == Spec => []LineFits
<1>1. LineFits
  <2> SUFFICES ASSUME NEW l \in Lines,
                      NEW h \in 0..MaxPart, NEW n \in 0..MaxPart, NEW e \in 0..MaxPart
               PROVE  /\ LineOf(l, h, n, e).size < LogMax
                      /\ ~LineOf(l, h, n, e).overlong =>
                            LineOf(l, h, n, e).touched <= LogMax
    BY DEF LineFits, FittingLines
  <2>1. h \in Nat /\ n \in Nat /\ e \in Nat
    BY LogAssumption
  <2> QED
    BY <2>1, LineOfFits
<1> QED
  BY <1>1, PTL

-----------------------------------------------------------------------------
Fds == 0..Descriptors
Numbers == NoFd..Descriptors
Tables == [Fds -> Kinds \cup {Closed}]

\* What the log owns in table t when f is its number: a log file, the configured one
\* while the tank is the file.
Logged(t, f) == f >= 0 => t[f] \in LogFiles
Current(t, f, to_file, name) == to_file /\ f > 0 => t[f] = name

\* Only the log's number is a log file's (but 0, which is taken for closed).
Alone(t, f) == \A g \in Fds : g > 0 /\ t[g] \in LogFiles => g = f

\* What the others own.
ClientsOwn(t, cs) == \A c \in cs : t[c] = "client"
PidOwns(t, p) == p >= 0 => t[p] = "pid"
\* The listener's number is its own while it listens; while its destructor waits, the
\* number is free or the log's.
ListenerOwns(t, f, ph, l) ==
    /\ ph \in 4..Running => l >= 0 /\ t[l] = "listen"
    /\ ph = Unserved /\ l >= 0 => t[l] = "listen"
    /\ ph \in {Joining, Rejoining} => l >= 0 /\ (t[l] = Closed \/ f = l)

Owned ==
    /\ Logged(table, fd) /\ Current(table, fd, tank, log_file)
    /\ ClientsOwn(table, clients) /\ PidOwns(table, pid_fd)
    /\ ListenerOwns(table, fd, phase, listen_fd)
    /\ target \in LogFiles \cup {"none"}

\* The types, in the sets above.
Typed ==
    /\ table \in Tables
    /\ fd \in Numbers /\ pid_fd \in Numbers /\ listen_fd \in Numbers
    /\ tank \in Tanks /\ level \in Levels /\ log_file \in Names
    /\ clients \subseteq Fds /\ phase \in 1..Unserved
    /\ target \in Kinds \cup {Closed, "none"} /\ stale \in BOOLEAN

\* The inductive invariant.  When stale, the log has a number, which it never gives up.
IInv ==
    /\ Typed
    /\ Alone(table, fd)
    /\ stale => fd >= 0
    /\ ~stale => Owned

\* A number that a variable keeps is a descriptor, or none.
LEMMA NumberOrNone ==
  /\ \A x \in Numbers : /\ x \in Int /\ (x >= 0 <=> x \in Fds)
                         /\ (x < 0 <=> x = NoFd) /\ (x > 0 <=> x \in Fds /\ x # 0)
  /\ Fds \subseteq Numbers /\ NoFd \in Numbers /\ ~(NoFd >= 0) /\ NoFd \notin Fds
  BY LogAssumption DEF Numbers, Fds, NoFd

\* The positions of the main thread are numbers.
LEMMA Phases ==
  /\ Running = 6 /\ Joining = 7 /\ Drain = 8 /\ Rejoining = 9 /\ Relisten = 10 /\ Unserved = 11
  /\ \A p \in 1..5 : StartupFiles[p] \in {"pid", "epoll", "listen", "pipe"}
  /\ StartupFiles[3] = "listen" /\ \A p \in 1..5 : StartupFiles[p] = "listen" => p = 3
  BY DEF Running, Joining, Drain, Rejoining, Relisten, Unserved, StartupFiles

LEMMA Distinct ==
  /\ LogFiles \subseteq Kinds /\ Closed \notin Kinds /\ "none" \notin LogFiles
  /\ \A k \in {"std", "pid", "epoll", "listen", "pipe", "client"} : k \in Kinds /\ k \notin LogFiles
  BY NamesAssumption DEF Kinds, Closed

LEMMA SmallestOf ==
  ASSUME NEW S \in SUBSET Nat, S # {}
  PROVE  \E n \in S : \A m \in S : n <= m
<1>1. PICK n \in S : \A m \in S : ~(<<m, n>> \in OpToRel(<, Nat))
  BY NatLessThanWellFounded, WFMin
<1>2. \A m \in S : ~(m < n)
  BY <1>1 DEF OpToRel
<1> QED
  BY <1>2

\* A table with a free number has a lowest one.
LEMMA LowestFree ==
  ASSUME NEW t \in Tables, Free(t) # {}
  PROVE  Lowest(t) \in Fds /\ t[Lowest(t)] = Closed
<1>1. Free(t) \subseteq Fds /\ Free(t) \subseteq Nat
  BY LogAssumption DEF Free, Tables, Fds
<1>3. \E n \in Free(t) : \A m \in Free(t) : n <= m
  BY <1>1, SmallestOf
<1>4. Lowest(t) \in Free(t)
  BY <1>3 DEF Lowest
<1> QED
  BY <1>1, <1>4 DEF Free

\* What open(2), socket(2) or accept(2) gives was free.
LEMMA OpenedTable ==
  ASSUME NEW t \in Tables, Free(t) # {}, NEW k \in Kinds
  PROVE  /\ Opened(t, k) \in Tables /\ Opened(t, k)[Lowest(t)] = k
         /\ \A g \in Fds : g # Lowest(t) => Opened(t, k)[g] = t[g]
  BY LowestFree DEF Opened, Tables

\* close(2) frees the number, and no other.
LEMMA ClosedTable ==
  ASSUME NEW t \in Tables, NEW f \in Numbers
  PROVE  /\ CloseFd(t, f) \in Tables
         /\ f >= 0 => CloseFd(t, f)[f] = Closed
         /\ \A g \in Fds : g # f => CloseFd(t, f)[g] = t[g]
  BY NumberOrNone DEF CloseFd, Tables

\* open_log_file() takes table t and number f to t2 and f2: it changes nothing but the
\* number it gives, which was free.
Opens(t, f, name, t2, f2) ==
    /\ t2 \in Tables /\ f2 \in Numbers
    /\ name = "" => t2 = t /\ f2 = f
    /\ name # "" /\ f2 >= 0 => t[f2] = Closed /\ t2[f2] = name /\ name \in LogFiles
    /\ \A g \in Fds : g # f2 => t2[g] = t[g]

LEMMA OpenLogFileKeeps ==
  ASSUME NEW t \in Tables, NEW f \in Numbers, NEW name \in Names,
         NEW r \in OpenLogFile(t, f, name)
  PROVE  Opens(t, f, name, r[1], r[2])
<1>1. CASE name = ""
  <2>1. r = <<t, f>>
    BY <1>1 DEF OpenLogFile
  <2>2. r[1] = t /\ r[2] = f
    BY <2>1
  <2> QED
    BY <1>1, <2>2 DEF Opens
<1>2. CASE name # "" /\ r = <<t, NoFd>>
  <2>1. r[1] = t /\ r[2] = NoFd
    BY <1>2
  <2> QED
    BY <1>2, <2>1, NumberOrNone DEF Opens
<1>3. CASE name # "" /\ Free(t) # {} /\ r = <<Opened(t, name), Lowest(t)>>
  <2>1. name \in LogFiles /\ name \in Kinds
    BY <1>3, Distinct DEF LogFiles
  <2>2. r[1] = Opened(t, name) /\ r[2] = Lowest(t)
    BY <1>3
  <2>3. Lowest(t) \in Fds /\ t[Lowest(t)] = Closed
    BY <1>3, LowestFree
  <2> QED
    BY <1>3, <2>1, <2>2, <2>3, OpenedTable, NumberOrNone DEF Opens
<1>4. name # "" => \/ r = <<t, NoFd>>
                   \/ Free(t) # {} /\ r = <<Opened(t, name), Lowest(t)>>
  BY DEF OpenLogFile
<1> QED
  BY <1>1, <1>2, <1>3, <1>4

\* The log may be opened while t becomes the table: a number that it has is kept, one
\* that it gets was free, and no one else loses his.
Written(t) ==
    /\ table' \in Tables /\ fd' \in Numbers
    /\ target' \in Kinds \cup {Closed, "none"}
    /\ Alone(table', fd')
    /\ fd >= 0 => fd' = fd /\ table' = t
    /\ \A g \in Fds : t[g] # Closed => table'[g] = t[g]
    /\ \A g \in Fds : t[g] = Closed => table'[g] = Closed \/ g = fd'
    /\ Logged(t, fd) => Logged(table', fd')
    /\ Current(t, fd, tank, log_file) => Current(table', fd', tank, log_file)
    /\ Logged(t, fd) /\ target \in LogFiles \cup {"none"} =>
          target' \in LogFiles \cup {"none"}

\* write_log()
LEMMA WriteLogKeeps ==
  ASSUME NEW t \in Tables, Typed, Alone(t, fd), WriteLog(t)
  PROVE  Written(t)
<1>0. /\ fd \in Numbers /\ fd \in Int /\ log_file \in Names
      /\ target \in Kinds \cup {Closed, "none"}
  BY NumberOrNone DEF Typed
<1>1. CASE ~tank
  <2>1. table' = t /\ fd' = fd /\ target' = target
    BY <1>1 DEF WriteLog
  <2> QED
    BY <1>0, <1>1, <2>1 DEF Written
<1>2. CASE tank /\ fd >= 0
  <2>1. table' = t /\ fd' = fd /\ target' = IF fd > 0 THEN t[fd] ELSE "none"
    BY <1>0, <1>2 DEF WriteLog
  <2>2. fd \in Fds
    BY <1>0, <1>2, NumberOrNone
  <2>3. t[fd] \in Kinds \cup {Closed}
    BY <2>2 DEF Tables
  <2>4. target' \in Kinds \cup {Closed, "none"}
    BY <2>1, <2>3
  <2>5. Logged(t, fd) => target' \in LogFiles \cup {"none"}
    BY <1>2, <2>1 DEF Logged
  <2> QED
    BY <1>0, <1>2, <2>1, <2>4, <2>5 DEF Written
<1>3. CASE tank /\ fd < 0
  <2>1. PICK r \in OpenLogFile(t, fd, log_file) :
            table' = r[1] /\ fd' = r[2] /\ target' = IF r[2] > 0 THEN r[1][r[2]] ELSE "none"
    BY <1>3 DEF WriteLog
  <2>2. /\ table' \in Tables /\ fd' \in Numbers
        /\ log_file = "" => table' = t /\ fd' = fd
        /\ log_file # "" /\ fd' >= 0 =>
              t[fd'] = Closed /\ table'[fd'] = log_file /\ log_file \in LogFiles
        /\ \A g \in Fds : g # fd' => table'[g] = t[g]
    <3>1. Opens(t, fd, log_file, r[1], r[2])
      BY <1>0, OpenLogFileKeeps
    <3>2. Opens(t, fd, log_file, table', fd')
      BY <2>1, <3>1
    <3> QED
      BY <3>2 DEF Opens
  <2>3. target' = IF fd' > 0 THEN table'[fd'] ELSE "none"
    BY <2>1
  <2>4. fd' >= 0 => log_file # "" /\ fd' \in Fds
    BY <1>0, <1>3, <2>2, NumberOrNone
  <2>5. target' \in LogFiles \cup {"none"} /\ target' \in Kinds \cup {Closed, "none"}
    BY <2>2, <2>3, <2>4, Distinct, NumberOrNone
  <2>6. Alone(table', fd')
    BY <1>0, <1>3, <2>2, <2>4, NumberOrNone DEF Alone
  <2>7. Logged(table', fd') /\ Current(table', fd', tank, log_file)
    BY <2>2, <2>4, NumberOrNone DEF Logged, Current
  <2>8. fd' >= 0 => t[fd'] = Closed
    BY <2>2, <2>4
  <2> QED
    BY <1>0, <1>3, <2>2, <2>5, <2>6, <2>7, <2>8, NumberOrNone DEF Written
<1> QED
  BY <1>0, <1>1, <1>2, <1>3

LEMMA LogAfterKeeps ==
  ASSUME NEW t \in Tables, Typed, Alone(t, fd), NEW l, LogAfter(t, l)
  PROVE  Written(t)
<1>1. CASE WriteLog(t)
  BY <1>1, WriteLogKeeps
<1>2. CASE table' = t /\ fd' = fd /\ target' = target
  BY <1>2 DEF Written, Typed
<1> QED
  BY <1>1, <1>2 DEF LogAfter

\* Whoever owns an open number of t still does when the log was opened.
LEMMA OwnersKept ==
  ASSUME NEW t, Written(t), NEW cs \in SUBSET Fds, NEW p \in Numbers, NEW l \in Numbers,
         NEW ph, fd \in Numbers
  PROVE  /\ ClientsOwn(t, cs) => ClientsOwn(table', cs)
         /\ PidOwns(t, p) => PidOwns(table', p)
         /\ ListenerOwns(t, fd, ph, l) => ListenerOwns(table', fd', ph, l)
<1> "client" # Closed /\ "pid" # Closed /\ "listen" # Closed
  BY DEF Closed
<1>1. ClientsOwn(t, cs) => ClientsOwn(table', cs)
  BY DEF ClientsOwn, Written
<1>2. PidOwns(t, p) => PidOwns(table', p)
  BY NumberOrNone DEF PidOwns, Written
<1>3. l >= 0 /\ t[l] = "listen" => table'[l] = "listen"
  BY NumberOrNone DEF Written
<1>4. l >= 0 /\ (t[l] = Closed \/ fd = l) => table'[l] = Closed \/ fd' = l
  BY NumberOrNone DEF Written
<1>5. ListenerOwns(t, fd, ph, l) => ListenerOwns(table', fd', ph, l)
  BY <1>3, <1>4 DEF ListenerOwns
<1> QED
  BY <1>1, <1>2, <1>5

\* A line is written.
LEMMA LogStep ==
  ASSUME IInv, NEW l \in Lines, Log(l)
  PROVE  IInv'
<1> Typed /\ Alone(table, fd) /\ (stale => fd >= 0) /\ (~stale => Owned)
  BY DEF IInv
<1>1. Written(table)
  BY WriteLogKeeps DEF Log, Typed
<1>2. UNCHANGED <<tank, level, log_file, pid_fd, listen_fd, clients, phase, stale>>
  BY DEF Log, serverVars
<1>3. Typed'
  BY <1>1, <1>2 DEF Typed, Written
<1>4. Alone(table, fd)' /\ (stale => fd >= 0)'
  BY <1>1, <1>2 DEF Written
<1>5. ~stale => Owned'
  BY <1>1, <1>2, OwnersKept DEF Owned, Written, Typed
<1> QED
  BY <1>2, <1>3, <1>4, <1>5 DEF IInv

\* A number is opened for someone else than the log: the log and the other owners keep
\* theirs.
LEMMA OpenedKeeps ==
  ASSUME Typed, Free(table) # {}, NEW k \in Kinds \ LogFiles
  PROVE  /\ Opened(table, k) \in Tables
         /\ Lowest(table) \in Fds /\ Lowest(table) \in Numbers /\ Lowest(table) >= 0
         /\ Opened(table, k)[Lowest(table)] = k
         /\ Alone(table, fd) => Alone(Opened(table, k), fd)
         /\ Owned => /\ Logged(Opened(table, k), fd)
                     /\ Current(Opened(table, k), fd, tank, log_file)
                     /\ ClientsOwn(Opened(table, k), clients)
                     /\ PidOwns(Opened(table, k), pid_fd)
                     /\ phase \in 4..Running => ListenerOwns(Opened(table, k), fd, phase, listen_fd)
<1> DEFINE t == Opened(table, k)
<1>1. t \in Tables /\ t[Lowest(table)] = k /\ \A g \in Fds : g # Lowest(table) => t[g] = table[g]
  BY OpenedTable DEF Typed
<1>2. Lowest(table) \in Fds /\ table[Lowest(table)] = Closed /\ Closed \notin LogFiles
  BY LowestFree, Distinct DEF Typed
<1>3. \A g \in Fds : table[g] # Closed => t[g] = table[g]
  BY <1>1, <1>2
<1> HIDE DEF t
<1>4. Alone(table, fd) => Alone(t, fd)
  BY <1>1 DEF Alone
<1>5. ASSUME Owned
      PROVE  /\ Logged(t, fd) /\ Current(t, fd, tank, log_file)
             /\ ClientsOwn(t, clients) /\ PidOwns(t, pid_fd)
             /\ phase \in 4..Running => ListenerOwns(t, fd, phase, listen_fd)
  <2> "client" # Closed /\ "pid" # Closed /\ "listen" # Closed
    BY DEF Closed
  <2>1. Logged(t, fd) /\ (fd >= 0 => t[fd] = table[fd])
    BY <1>2, <1>3, <1>5, NumberOrNone DEF Owned, Logged, Typed
  <2>2. Current(t, fd, tank, log_file)
    BY <1>5, <2>1, NumberOrNone DEF Owned, Current, Typed
  <2>3. ClientsOwn(t, clients)
    BY <1>3, <1>5 DEF Owned, ClientsOwn, Typed
  <2>4. PidOwns(t, pid_fd)
    BY <1>3, <1>5, NumberOrNone DEF Owned, PidOwns, Typed
  <2>5. ASSUME phase \in 4..Running
        PROVE  ListenerOwns(t, fd, phase, listen_fd)
    BY <1>3, <1>5, <2>5, NumberOrNone, Phases DEF Owned, ListenerOwns, Typed
  <2> QED
    BY <2>1, <2>2, <2>3, <2>4, <2>5
<1> QED
  BY <1>1, <1>2, <1>4, <1>5, NumberOrNone DEF t

\* Startup opens its next file.
LEMMA StartupStep ==
  ASSUME IInv, Startup
  PROVE  IInv'
<1> DEFINE k == StartupFiles[phase]
           t == Opened(table, k)
<1> Typed /\ Alone(table, fd) /\ (stale => fd >= 0) /\ (~stale => Owned)
  BY DEF IInv
<1>1. phase \in 1..5 /\ phase' = phase + 1 /\ phase' \in 1..Unserved
  BY Phases DEF Startup, Typed
<1>2. k \in Kinds \ LogFiles
  BY <1>1, Phases, Distinct
<1>3. /\ t \in Tables /\ Lowest(table) \in Numbers /\ Lowest(table) >= 0
      /\ t[Lowest(table)] = k /\ Alone(t, fd)
      /\ Owned => /\ Logged(t, fd) /\ Current(t, fd, tank, log_file)
                  /\ ClientsOwn(t, clients) /\ PidOwns(t, pid_fd)
                  /\ phase \in 4..Running => ListenerOwns(t, fd, phase, listen_fd)
  BY <1>2, OpenedKeeps DEF Startup
<1>4. UNCHANGED <<tank, level, log_file, clients, stale>>
  BY DEF Startup
<1>5. /\ listen_fd' = IF k = "listen" THEN Lowest(table) ELSE listen_fd
      /\ pid_fd' = IF k = "pid" THEN Lowest(table) ELSE pid_fd
  BY DEF Startup
<1>6. Written(t)
  <2>1. CASE k = "listen"
    BY <1>3, <2>1, LogAfterKeeps DEF Startup
  <2>2. CASE k # "listen"
    <3>1. table' = t /\ fd' = fd /\ target' = target
      BY <2>2 DEF Startup
    <3> QED
      BY <1>3, <3>1 DEF Written, Typed
  <2> QED
    BY <2>1, <2>2
<1> HIDE DEF t
<1>7. Typed'
  BY <1>1, <1>3, <1>4, <1>5, <1>6 DEF Typed, Written
<1>8. Alone(table, fd)' /\ (stale => fd >= 0)'
  BY <1>4, <1>6 DEF Written
<1>9. ASSUME ~stale
      PROVE  Owned'
  <2>1. PidOwns(t, pid_fd')
    BY <1>3, <1>5, <1>9 DEF PidOwns
  <2>2. ListenerOwns(t, fd, phase', listen_fd')
    <3>1. CASE phase = 3
      BY <1>1, <1>3, <1>5, <3>1, Phases DEF ListenerOwns
    <3>2. CASE phase \in 4..5
      <4>1. listen_fd' = listen_fd /\ ListenerOwns(t, fd, phase, listen_fd)
        BY <1>3, <1>5, <1>9, <3>2, Phases
      <4> QED
        BY <1>1, <3>2, <4>1, Phases DEF ListenerOwns
    <3>3. CASE phase \in 1..2
      BY <1>1, <3>3, Phases DEF ListenerOwns
    <3> QED
      BY <1>1, <3>1, <3>2, <3>3
  <2>3. pid_fd' \in Numbers /\ listen_fd' \in Numbers /\ clients \subseteq Fds /\ fd \in Numbers
    BY <1>7 DEF Typed
  <2>4. /\ ClientsOwn(table', clients) /\ PidOwns(table', pid_fd')
        /\ ListenerOwns(table', fd', phase', listen_fd')
    BY <1>3, <1>6, <1>9, <2>1, <2>2, <2>3, OwnersKept
  <2> QED
    BY <1>3, <1>4, <1>6, <1>9, <2>4 DEF Owned, Written
<1> QED
  BY <1>4, <1>7, <1>8, <1>9 DEF IInv

\* The listener accepts a client.
LEMMA AcceptStep ==
  ASSUME IInv, Accept
  PROVE  IInv'
<1> DEFINE t == Opened(table, "client")
<1> Typed /\ Alone(table, fd) /\ (stale => fd >= 0) /\ (~stale => Owned)
  BY DEF IInv
<1>1. /\ t \in Tables /\ Lowest(table) \in Fds
      /\ t[Lowest(table)] = "client" /\ Alone(t, fd)
      /\ Owned => /\ Logged(t, fd) /\ Current(t, fd, tank, log_file)
                  /\ ClientsOwn(t, clients) /\ PidOwns(t, pid_fd)
                  /\ phase \in 4..Running => ListenerOwns(t, fd, phase, listen_fd)
  BY OpenedKeeps, Distinct DEF Accept
<1>2. /\ table' = t /\ clients' = clients \cup {Lowest(table)} /\ phase = Running
      /\ UNCHANGED <<fd, tank, level, log_file, pid_fd, listen_fd, phase, target, stale>>
  BY DEF Accept, logVars
<1> HIDE DEF t
<1>3. Typed'
  BY <1>1, <1>2 DEF Typed
<1>4. ~stale => Owned'
  BY <1>1, <1>2, Phases DEF Owned, ClientsOwn
<1> QED
  BY <1>1, <1>2, <1>3, <1>4 DEF IInv

\* A number of someone else than the log is closed: the log keeps its own, and so does
\* every other owner of another number.
LEMMA ClosedKeeps ==
  ASSUME Typed, NEW f \in Numbers
  PROVE  /\ CloseFd(table, f) \in Tables
         /\ f >= 0 => CloseFd(table, f)[f] = Closed
         /\ \A g \in Fds : g # f => CloseFd(table, f)[g] = table[g]
         /\ \A g \in Fds : table[g] = Closed => CloseFd(table, f)[g] = Closed
         /\ Alone(table, fd) => Alone(CloseFd(table, f), fd)
         /\ Logged(table, fd) /\ Current(table, fd, tank, log_file) /\ (f # fd \/ fd < 0) =>
               /\ Logged(CloseFd(table, f), fd)
               /\ Current(CloseFd(table, f), fd, tank, log_file)
<1> DEFINE t == CloseFd(table, f)
<1>1. /\ t \in Tables
      /\ f >= 0 => t[f] = Closed
      /\ \A g \in Fds : g # f => t[g] = table[g]
  BY ClosedTable DEF Typed
<1>2. Closed \notin LogFiles
  BY Distinct
<1> HIDE DEF t
<1>3. \A g \in Fds : t[g] = table[g] \/ t[g] = Closed
  BY <1>1, NumberOrNone
<1>4. Alone(table, fd) => Alone(t, fd)
  BY <1>2, <1>3 DEF Alone
<1>5. ASSUME Logged(table, fd), Current(table, fd, tank, log_file), f # fd \/ fd < 0
      PROVE  Logged(t, fd) /\ Current(t, fd, tank, log_file)
  <2>1. fd >= 0 => t[fd] = table[fd]
    BY <1>1, <1>5, NumberOrNone DEF Typed
  <2> QED
    BY <1>5, <2>1, NumberOrNone DEF Logged, Current, Typed
<1> QED
  BY <1>1, <1>3, <1>4, <1>5 DEF t

\* A client's connection is freed.
LEMMA DisconnectStep ==
  ASSUME IInv, NEW f, Disconnect(f)
  PROVE  IInv'
<1> DEFINE t == CloseFd(table, f)
<1> Typed /\ Alone(table, fd) /\ (stale => fd >= 0) /\ (~stale => Owned)
  BY DEF IInv
<1>1. f \in clients /\ f \in Fds /\ f \in Numbers
  BY NumberOrNone DEF Disconnect, Typed
<1>2. /\ table' = t /\ clients' = clients \ {f}
      /\ UNCHANGED <<fd, tank, level, log_file, pid_fd, listen_fd, phase, target, stale>>
  BY DEF Disconnect, logVars
<1>3. /\ t \in Tables
      /\ \A g \in Fds : g # f => t[g] = table[g]
      /\ \A g \in Fds : table[g] = Closed => t[g] = Closed
      /\ Alone(t, fd)
      /\ Logged(table, fd) /\ Current(table, fd, tank, log_file) /\ (f # fd \/ fd < 0) =>
            Logged(t, fd) /\ Current(t, fd, tank, log_file)
  BY <1>1, ClosedKeeps
<1> HIDE DEF t
<1>4. Typed'
  BY <1>2, <1>3 DEF Typed
<1>5. ASSUME ~stale
      PROVE  Owned'
  <2>1. table[f] = "client"
    BY <1>1, <1>5 DEF Owned, ClientsOwn
  <2>2. f # fd \/ fd < 0
    BY <1>1, <1>5, <2>1, Distinct, NumberOrNone DEF Owned, Logged, Typed
  <2>3. ClientsOwn(t, clients')
    BY <1>2, <1>3, <1>5 DEF Owned, ClientsOwn, Typed
  <2>4. PidOwns(t, pid_fd)
    BY <1>3, <1>5, <2>1, NumberOrNone DEF Owned, PidOwns, Typed
  <2>5. ListenerOwns(t, fd, phase, listen_fd)
    BY <1>3, <1>5, <2>1, NumberOrNone DEF Owned, ListenerOwns, Typed
  <2> QED
    BY <1>2, <1>3, <1>5, <2>2, <2>3, <2>4, <2>5 DEF Owned
<1> QED
  BY <1>2, <1>3, <1>4, <1>5 DEF IInv

\* ~SrsListener begins, or frees a listener that never listened.
LEMMA CloseListenerStep ==
  ASSUME IInv, CloseListener \/ FreeUnserved
  PROVE  IInv'
<1> DEFINE t == CloseFd(table, listen_fd)
<1> Typed /\ Alone(table, fd) /\ (stale => fd >= 0) /\ (~stale => Owned)
  BY DEF IInv
<1>1. /\ table' = t
      /\ UNCHANGED <<fd, tank, level, log_file, pid_fd, listen_fd, clients, target, stale>>
      /\ \/ phase = Running /\ phase' \in {Joining, Rejoining}
         \/ phase = Unserved /\ phase' = Relisten
  BY DEF CloseListener, FreeUnserved, logVars
<1>2. /\ t \in Tables
      /\ listen_fd >= 0 => t[listen_fd] = Closed
      /\ \A g \in Fds : g # listen_fd => t[g] = table[g]
      /\ Alone(t, fd)
      /\ Logged(table, fd) /\ Current(table, fd, tank, log_file) /\ (listen_fd # fd \/ fd < 0) =>
            Logged(t, fd) /\ Current(t, fd, tank, log_file)
  BY ClosedKeeps DEF Typed
<1> HIDE DEF t
<1>3. Typed'
  BY <1>1, <1>2, Phases DEF Typed
<1>4. ASSUME ~stale
      PROVE  Owned'
  <2>1. /\ phase = Running => listen_fd >= 0
        /\ listen_fd >= 0 => table[listen_fd] = "listen"
    BY <1>1, <1>4, Phases DEF Owned, ListenerOwns
  <2>2. listen_fd # fd \/ fd < 0
    BY <1>4, <2>1, Distinct, NumberOrNone DEF Owned, Logged, Typed
  <2>3. ClientsOwn(t, clients)
    BY <1>2, <1>4, <2>1, NumberOrNone DEF Owned, ClientsOwn, Typed
  <2>4. PidOwns(t, pid_fd)
    BY <1>2, <1>4, <2>1, NumberOrNone DEF Owned, PidOwns, Typed
  <2>5. ListenerOwns(t, fd, phase', listen_fd)
    BY <1>1, <1>2, <2>1, Phases DEF ListenerOwns
  <2> QED
    BY <1>1, <1>2, <1>4, <2>2, <2>3, <2>4, <2>5 DEF Owned
<1> QED
  BY <1>1, <1>2, <1>3, <1>4 DEF IInv

\* ~SrsListener ends: unless the number is the log's by now, no one has it.
LEMMA CloseListenerAgainStep ==
  ASSUME IInv, CloseListenerAgain
  PROVE  IInv'
<1> DEFINE t == CloseFd(table, listen_fd)
           shut == phase = Joining /\ pid_fd > 0
<1> Typed /\ Alone(table, fd) /\ (stale => fd >= 0) /\ (~stale => Owned)
  BY DEF IInv
<1>1. /\ stale' = (stale \/ fd = listen_fd)
      /\ phase \in {Joining, Rejoining} /\ phase' \in {Drain, Relisten}
      /\ IF shut THEN table' = CloseFd(t, pid_fd) /\ pid_fd' = NoFd
                 ELSE table' = t /\ pid_fd' = pid_fd
      /\ UNCHANGED <<fd, tank, level, log_file, listen_fd, clients, target>>
  BY DEF CloseListenerAgain, logVars
<1>2. /\ t \in Tables
      /\ listen_fd >= 0 => t[listen_fd] = Closed
      /\ \A g \in Fds : g # listen_fd => t[g] = table[g]
      /\ Alone(t, fd)
      /\ Logged(table, fd) /\ Current(table, fd, tank, log_file) /\ (listen_fd # fd \/ fd < 0) =>
            Logged(t, fd) /\ Current(t, fd, tank, log_file)
  BY ClosedKeeps DEF Typed
<1>3. /\ CloseFd(t, pid_fd) \in Tables
      /\ \A g \in Fds : g # pid_fd => CloseFd(t, pid_fd)[g] = t[g]
      /\ pid_fd >= 0 => CloseFd(t, pid_fd)[pid_fd] = Closed
  BY <1>2, ClosedTable DEF Typed
<1> HIDE DEF t
<1>4. Typed'
  BY <1>1, <1>2, <1>3, Phases, NumberOrNone DEF Typed
<1>5. Alone(table, fd)'
  <2>1. CASE shut
    <3>1. \A g \in Fds : table'[g] \in LogFiles => t[g] = table'[g]
      BY <1>1, <1>3, <2>1, Distinct, NumberOrNone DEF Typed
    <3> QED
      BY <1>1, <1>2, <3>1 DEF Alone
  <2>2. CASE ~shut
    BY <1>1, <1>2, <2>2
  <2> QED
    BY <2>1, <2>2
<1>6. (stale => fd >= 0)'
  BY <1>1, Phases DEF Owned, ListenerOwns
<1>7. ASSUME ~stale'
      PROVE  Owned'
  <2>1. ~stale /\ fd # listen_fd /\ listen_fd >= 0 /\ table[listen_fd] = Closed
    BY <1>1, <1>7, Phases DEF Owned, ListenerOwns
  <2>2. \A g \in Fds : t[g] = table[g]
    BY <1>2, <2>1
  <2>3. pid_fd >= 0 => table[pid_fd] = "pid"
    BY <2>1 DEF Owned, PidOwns
  <2>4. \A g \in Fds : table[g] # "pid" => table'[g] = table[g]
    BY <1>1, <1>3, <2>2, <2>3, NumberOrNone DEF Typed
  <2>5. Logged(table', fd) /\ (fd >= 0 => table'[fd] = table[fd])
    BY <2>1, <2>4, Distinct, NumberOrNone DEF Owned, Logged, Typed
  <2>6. Current(table', fd, tank, log_file)
    BY <2>1, <2>5, NumberOrNone DEF Owned, Current, Typed
  <2>7. ClientsOwn(table', clients)
    BY <2>1, <2>4 DEF Owned, ClientsOwn, Typed
  <2>8. PidOwns(table', pid_fd')
    <3>1. CASE shut
      BY <1>1, <3>1, NumberOrNone DEF PidOwns
    <3>2. CASE ~shut
      BY <1>1, <2>2, <2>3, <3>2, NumberOrNone DEF PidOwns, Typed
    <3> QED
      BY <3>1, <3>2
  <2>9. ListenerOwns(table', fd, phase', listen_fd)
    BY <1>1, Phases DEF ListenerOwns
  <2> QED
    BY <1>1, <2>1, <2>5, <2>6, <2>7, <2>8, <2>9 DEF Owned
<1> QED
  BY <1>4, <1>5, <1>6, <1>7 DEF IInv

\* on_reload_listen() listens again, or fails to.
LEMMA ListenAgainStep ==
  ASSUME IInv, ListenAgain
  PROVE  IInv'
<1> Typed /\ Alone(table, fd) /\ (stale => fd >= 0) /\ (~stale => Owned)
  BY DEF IInv
<1>1. /\ UNCHANGED <<tank, level, log_file, pid_fd, clients, stale>>
      /\ phase = Relisten /\ phase' \in {Running, Unserved}
  BY DEF ListenAgain
<1>2. \/ /\ Free(table) # {} /\ listen_fd' = Lowest(table)
         /\ \E l : LogAfter(Opened(table, "listen"), l)
      \/ listen_fd' = NoFd /\ phase' = Unserved /\ LogAfter(table, Error)
  BY DEF ListenAgain
<1>3. \E t \in Tables :
         /\ Written(t) /\ listen_fd' \in Numbers
         /\ ~stale => /\ Logged(t, fd) /\ Current(t, fd, tank, log_file)
                      /\ ClientsOwn(t, clients) /\ PidOwns(t, pid_fd)
                      /\ ListenerOwns(t, fd, phase', listen_fd')
  <2>1. CASE /\ Free(table) # {} /\ listen_fd' = Lowest(table)
             /\ \E l : LogAfter(Opened(table, "listen"), l)
    <3> DEFINE t == Opened(table, "listen")
    <3>1. /\ t \in Tables /\ Lowest(table) \in Numbers /\ Lowest(table) >= 0
          /\ t[Lowest(table)] = "listen" /\ Alone(t, fd)
          /\ Owned => /\ Logged(t, fd) /\ Current(t, fd, tank, log_file)
                      /\ ClientsOwn(t, clients) /\ PidOwns(t, pid_fd)
      BY <2>1, OpenedKeeps, Distinct
    <3>2. Written(t)
      BY <2>1, <3>1, LogAfterKeeps
    <3> HIDE DEF t
    <3>3. ListenerOwns(t, fd, phase', listen_fd')
      BY <1>1, <2>1, <3>1, Phases DEF ListenerOwns
    <3> QED
      BY <2>1, <3>1, <3>2, <3>3
  <2>2. CASE listen_fd' = NoFd /\ phase' = Unserved /\ LogAfter(table, Error)
    <3>1. Written(table) /\ table \in Tables
      BY <2>2, LogAfterKeeps DEF Typed
    <3>2. ListenerOwns(table, fd, phase', listen_fd')
      BY <2>2, Phases, NumberOrNone DEF ListenerOwns
    <3> QED
      BY <2>2, <3>1, <3>2, NumberOrNone DEF Owned
  <2> QED
    BY <1>2, <2>1, <2>2
<1>4. PICK t \in Tables :
         /\ Written(t) /\ listen_fd' \in Numbers
         /\ ~stale => /\ Logged(t, fd) /\ Current(t, fd, tank, log_file)
                      /\ ClientsOwn(t, clients) /\ PidOwns(t, pid_fd)
                      /\ ListenerOwns(t, fd, phase', listen_fd')
  BY <1>3
<1>5. Typed'
  BY <1>1, <1>4, Phases DEF Typed, Written
<1>6. Alone(table, fd)' /\ (stale => fd >= 0)'
  BY <1>1, <1>4 DEF Written
<1>7. ASSUME ~stale
      PROVE  Owned'
  <2>1. /\ ClientsOwn(table', clients) /\ PidOwns(table', pid_fd)
        /\ ListenerOwns(table', fd', phase', listen_fd')
    BY <1>4, <1>7, OwnersKept DEF Typed
  <2> QED
    BY <1>1, <1>4, <1>7, <2>1 DEF Owned, Written
<1> QED
  BY <1>1, <1>5, <1>6, <1>7 DEF IInv

-----------------------------------------------------------------------------
\* A handler reopens the log: no number but the log's changes hands.
LEMMA ReopenKeeps ==
  ASSUME IInv, ~stale, NEW name \in Names, Reopen(name)
  PROVE  /\ table' \in Tables /\ fd' \in Numbers /\ stale' \in BOOLEAN
         /\ Alone(table', fd')
         /\ stale' => fd' >= 0
         /\ ~stale' =>
               /\ Logged(table', fd') /\ (fd' > 0 => table'[fd'] = name)
               /\ \A g \in Fds : table[g] \in {"client", "pid", "listen"} => table'[g] = table[g]
<1> DEFINE t == IF fd > 0 THEN CloseFd(table, fd) ELSE table
<1> Typed /\ Alone(table, fd) /\ Owned
  BY DEF IInv
<1>1. /\ stale' = (fd > 0 /\ name = "")
      /\ \E r \in OpenLogFile(t, fd, name) : table' = r[1] /\ fd' = r[2]
  BY DEF Reopen
<1>2. /\ t \in Tables
      /\ fd > 0 => t[fd] = Closed
      /\ fd <= 0 => t = table
      /\ \A g \in Fds : g # fd => t[g] = table[g]
  BY ClosedTable, NumberOrNone DEF Typed
<1> HIDE DEF t
<1>3. Opens(t, fd, name, table', fd')
  <2>1. PICK r \in OpenLogFile(t, fd, name) : table' = r[1] /\ fd' = r[2]
    BY <1>1
  <2>2. Opens(t, fd, name, r[1], r[2])
    BY <1>2, OpenLogFileKeeps DEF Typed
  <2> QED
    BY <2>1, <2>2
<1>4. \A g \in Fds : g > 0 => t[g] \notin LogFiles
  BY <1>2, Distinct, NumberOrNone DEF Alone, Typed
<1>5. Alone(table', fd')
  BY <1>3, <1>4 DEF Opens, Alone
<1>6. stale' => fd' >= 0
  BY <1>1, <1>3, NumberOrNone DEF Opens, Typed
<1>7. ASSUME ~stale'
      PROVE  Logged(table', fd') /\ (fd' > 0 => table'[fd'] = name)
  <2>1. CASE name = ""
    <3>1. ~(fd > 0) /\ fd \in Int
      BY <1>1, <1>7, <2>1, NumberOrNone DEF Typed
    <3>2. t = table
      BY <1>2, <3>1
    <3>3. table' = t /\ fd' = fd
      BY <1>3, <2>1, Zenon DEF Opens
    <3> QED
      BY <3>1, <3>2, <3>3 DEF Owned
  <2>2. CASE name # ""
    BY <1>3, <2>2, NumberOrNone DEF Opens, Logged
  <2> QED
    BY <2>1, <2>2
<1>8. ASSUME ~stale', NEW g \in Fds, table[g] \in {"client", "pid", "listen"}
      PROVE  table'[g] = table[g]
  <2>1. g # fd
    BY <1>8, Distinct, NumberOrNone DEF Owned, Logged
  <2>2. t[g] = table[g] /\ t[g] # Closed
    BY <1>2, <1>8, <2>1 DEF Closed
  <2>3. g # fd' \/ name = ""
    BY <1>3, <2>2, NumberOrNone DEF Opens
  <2>4. g # fd'
    BY <1>3, <2>1, <2>3 DEF Opens
  <2> QED
    BY <1>3, <2>2, <2>4 DEF Opens
<1> QED
  BY <1>1, <1>3, <1>5, <1>6, <1>7, <1>8 DEF Opens

\* The handlers of the log's items.
LEMMA ReloadStep ==
  ASSUME IInv,
         \/ MayReload /\ \E b \in Tanks : ReloadLogTank(b)
         \/ \E l \in Levels : ReloadLogLevel(l)
         \/ MayReload /\ \E name \in Names : ReloadLogFile(name)
  PROVE  IInv'
<1> Typed /\ Alone(table, fd) /\ (stale => fd >= 0) /\ (~stale => Owned)
  BY DEF IInv
<1>1. ASSUME UNCHANGED <<table, fd, stale, target>>, UNCHANGED serverVars,
             tank' \in Tanks, level' \in Levels, log_file' \in Names,
             \/ ~tank'
             \/ tank' = tank /\ log_file' = log_file
      PROVE  IInv'
  <2>1. Typed'
    BY <1>1 DEF Typed, serverVars
  <2>2. ~stale => Owned'
    <3>1. UNCHANGED <<table, fd, target, pid_fd, listen_fd, clients, phase>>
      BY <1>1 DEF serverVars
    <3>2. ~stale => Current(table, fd, tank', log_file')
      BY <1>1 DEF Owned, Current
    <3> QED
      BY <3>1, <3>2 DEF Owned
  <2> QED
    BY <1>1, <2>1, <2>2 DEF IInv
<1>2. ASSUME MayReload, NEW name \in Names, Reopen(name), UNCHANGED serverVars,
             tank' \in Tanks, level' \in Levels, log_file' = name, UNCHANGED target
      PROVE  IInv'
  <2>1. ~stale /\ phase \notin {Joining, Rejoining, Relisten}
    BY <1>2 DEF MayReload
  <2>2. UNCHANGED <<pid_fd, listen_fd, clients, phase, target>>
    BY <1>2 DEF serverVars
  <2>3. /\ table' \in Tables /\ fd' \in Numbers /\ stale' \in BOOLEAN
        /\ Alone(table', fd')
        /\ stale' => fd' >= 0
        /\ ~stale' =>
              /\ Logged(table', fd') /\ (fd' > 0 => table'[fd'] = name)
              /\ \A g \in Fds : table[g] \in {"client", "pid", "listen"} => table'[g] = table[g]
    BY <1>2, <2>1, ReopenKeeps
  <2>4. Typed'
    BY <1>2, <2>2, <2>3 DEF Typed
  <2>5. ASSUME ~stale'
        PROVE  Owned'
    <3>1. Current(table', fd', tank', log_file')
      BY <1>2, <2>3, <2>5 DEF Current
    <3>2. ClientsOwn(table', clients)
      BY <2>1, <2>3, <2>5 DEF Owned, ClientsOwn, Typed
    <3>3. PidOwns(table', pid_fd)
      BY <2>1, <2>3, <2>5, NumberOrNone DEF Owned, PidOwns, Typed
    <3>4. ListenerOwns(table', fd', phase, listen_fd)
      BY <2>1, <2>3, <2>5, NumberOrNone DEF Owned, ListenerOwns, Typed
    <3> QED
      BY <2>1, <2>2, <2>3, <2>5, <3>1, <3>2, <3>3, <3>4 DEF Owned
  <2> QED
    BY <2>3, <2>4, <2>5 DEF IInv
<1>3. ASSUME MayReload, NEW b \in Tanks, ReloadLogTank(b)
      PROVE  IInv'
  <2>1. /\ tank' = b /\ level' \in Levels /\ log_file' = log_file /\ log_file \in Names
        /\ UNCHANGED serverVars /\ UNCHANGED target
    BY <1>3 DEF ReloadLogTank, Typed
  <2>2. CASE ~tank /\ b
    <3>1. Reopen(log_file)
      BY <1>3, <2>2 DEF ReloadLogTank
    <3> QED
      BY <1>2, <1>3, <2>1, <3>1
  <2>3. CASE ~(~tank /\ b)
    <3>1. UNCHANGED <<table, fd, stale>>
      BY <1>3, <2>3 DEF ReloadLogTank
    <3>2. ~tank' \/ tank' = tank
      BY <2>1, <2>3 DEF Tanks, Typed, GetLogTankFile
    <3> QED
      BY <1>1, <2>1, <3>1, <3>2
  <2> QED
    BY <2>2, <2>3
<1>4. ASSUME NEW l \in Levels, ReloadLogLevel(l)
      PROVE  IInv'
  BY <1>1, <1>4 DEF ReloadLogLevel, Typed
<1>5. ASSUME MayReload, NEW name \in Names, ReloadLogFile(name)
      PROVE  IInv'
  <2>1. /\ tank' = tank /\ tank \in Tanks /\ level' \in Levels /\ log_file' = name
        /\ UNCHANGED serverVars /\ UNCHANGED target
    BY <1>5 DEF ReloadLogFile, Typed
  <2>2. CASE tank
    <3>1. Reopen(name)
      BY <1>5, <2>2 DEF ReloadLogFile
    <3> QED
      BY <1>2, <1>5, <2>1, <3>1
  <2>3. CASE ~tank
    <3>1. UNCHANGED <<table, fd, stale>>
      BY <1>5, <2>3 DEF ReloadLogFile
    <3> QED
      BY <1>1, <1>5, <2>1, <2>3, <3>1
  <2> QED
    BY <2>2, <2>3
<1> QED
  BY <1>3, <1>4, <1>5

-----------------------------------------------------------------------------
LEMMA InitIInv == Init => IInv
<1> SUFFICES ASSUME Init PROVE IInv
  OBVIOUS
<1>1. PICK std \in {0..2, 1..2} : table = [f \in 0..Descriptors |-> IF f \in std THEN "std" ELSE Closed]
  BY DEF Init
<1>2. \A f \in Fds : table[f] \in {"std", Closed}
  BY <1>1 DEF Fds
<1>3. table \in Tables
  BY <1>1, Distinct DEF Tables, Fds
<1>4. tank \in Tanks /\ level \in Levels /\ log_file \in Names
  BY DEF Init, Tanks, Levels, Names
<1>5. phase = 1 /\ phase \in 1..Unserved
  BY Phases DEF Init
<1>6. Typed
  BY <1>3, <1>4, <1>5, NumberOrNone DEF Init, Typed
<1>7. Alone(table, fd)
  BY <1>2, Distinct DEF Alone
<1>8. Owned
  <2>1. fd = NoFd /\ pid_fd = NoFd /\ clients = {} /\ target = "none" /\ ~(NoFd >= 0) /\ ~(NoFd > 0)
    BY NumberOrNone DEF Init, NoFd
  <2> QED
    BY <1>5, <2>1, Phases DEF Owned, Logged, Current, ClientsOwn, PidOwns, ListenerOwns
<1> QED
  BY <1>6, <1>7, <1>8 DEF IInv, Init

LEMMA NextIInv == IInv /\ [Next]_vars => IInv'
<1> SUFFICES ASSUME IInv, [Next]_vars PROVE IInv'
  OBVIOUS
<1>1. ASSUME NEW l \in Lines, Log(l) PROVE IInv'
  BY <1>1, LogStep
<1>2. CASE Startup
  BY <1>2, StartupStep
<1>3. CASE Accept
  BY <1>3, AcceptStep
<1>4. CASE CloseListener \/ FreeUnserved
  BY <1>4, CloseListenerStep
<1>5. CASE CloseListenerAgain
  BY <1>5, CloseListenerAgainStep
<1>6. CASE ListenAgain
  BY <1>6, ListenAgainStep
<1>7. ASSUME NEW f \in 0..Descriptors, Disconnect(f) PROVE IInv'
  BY <1>7, DisconnectStep
<1>8. CASE \/ MayReload /\ \E b \in Tanks : ReloadLogTank(b)
           \/ \E l \in Levels : ReloadLogLevel(l)
           \/ MayReload /\ \E name \in Names : ReloadLogFile(name)
  BY <1>8, ReloadStep
<1>9. CASE UNCHANGED vars
  BY <1>9 DEF vars, logVars, serverVars, IInv, Typed, Owned
<1> QED
  BY <1>1, <1>2, <1>3, <1>4, <1>5, <1>6, <1>7, <1>8, <1>9 DEF Next

THEOREM IInvAlways == Spec => []IInv
  BY InitIInv, NextIInv, PTL DEF Spec

\* Every variable keeps its type, whatever the files and the size of the table.
THEOREM TypeCorrect == Spec => []TypeOK
<1>1. IInv => TypeOK
  BY DEF IInv, Typed, TypeOK, Tables, Fds, Numbers
<1> QED
  BY <1>1, IInvAlways, PTL

\* A step that may change the target leaves the settings, and writes to the number it
\* leaves the log with.
LEMMA WrittenTo ==
  ASSUME Typed, Next, (\E l \in Lines : Log(l)) \/ target' # target, tank
  PROVE  /\ target' = IF fd' > 0 THEN table'[fd'] ELSE "none"
         /\ tank' = tank /\ log_file' = log_file /\ stale' = stale
<1> DEFINE ToNumber == target' = IF fd' > 0 THEN table'[fd'] ELSE "none"
<1>1. ASSUME NEW t, WriteLog(t) PROVE ToNumber
  BY <1>1 DEF WriteLog
<1>2. ASSUME NEW l \in Lines, Log(l)
      PROVE  ToNumber /\ tank' = tank /\ log_file' = log_file /\ stale' = stale
  BY <1>1, <1>2 DEF Log
<1>3. ASSUME NEW t, NEW l, LogAfter(t, l), target' # target PROVE ToNumber
  BY <1>1, <1>3 DEF LogAfter
<1>4. ASSUME Startup, target' # target
      PROVE  ToNumber /\ tank' = tank /\ log_file' = log_file /\ stale' = stale
  BY <1>3, <1>4 DEF Startup
<1>5. ASSUME ListenAgain, target' # target
      PROVE  ToNumber /\ tank' = tank /\ log_file' = log_file /\ stale' = stale
  BY <1>3, <1>5 DEF ListenAgain
<1>6. ASSUME target' # target
      PROVE  Startup \/ ListenAgain \/ \E l \in Lines : Log(l)
  BY <1>6 DEF Next, Accept, CloseListener, CloseListenerAgain, FreeUnserved, Disconnect,
     ReloadLogTank, ReloadLogLevel, ReloadLogFile
<1> QED
  BY <1>2, <1>4, <1>5, <1>6

\* Every line goes where it should: the descriptor that the log holds is the configured
\* file's, while clients take and free numbers, the listener is replaced, and files are
\* reopened or cannot be (but for the two places of `stale').
THEOREM LinesReachLogAlways == Spec => LinesReachLog
<1> DEFINE Line == tank /\ ~stale /\ ((\E l \in Lines : Log(l)) \/ target' # target)
<1>1. ASSUME IInv, IInv', [Next]_vars PROVE [Line => Delivered]_vars
  <2> SUFFICES ASSUME Next, Line PROVE Delivered
    BY <1>1 DEF vars
  <2>1. /\ target' = IF fd' > 0 THEN table'[fd'] ELSE "none"
        /\ tank' = tank /\ log_file' = log_file /\ stale' = stale
    BY <1>1, WrittenTo DEF IInv
  <2>2. fd' > 0 => table'[fd'] = log_file
    BY <1>1, <2>1 DEF IInv, Owned, Current
  <2>3. fd' > 0 \/ fd' \in {NoFd, 0}
    BY <1>1, LogAssumption DEF IInv, Typed, Numbers, NoFd
  <2> QED
    BY <2>1, <2>2, <2>3 DEF Delivered
<1> QED
  BY <1>1, IInvAlways, PTL DEF Spec, LinesReachLog

\* The open log file is the configured one.
THEOREM LogFileCurrentAlways == Spec => []LogFileCurrent
<1>1. IInv => LogFileCurrent
  BY DEF IInv, Owned, Current, LogFileCurrent
<1> QED
  BY <1>1, IInvAlways, PTL

\* Every client's number refers to the client.
THEOREM ClientsKeptAlways == Spec => []ClientsKept
<1>1. IInv => ClientsKept
  BY DEF IInv, Owned, ClientsOwn, ClientsKept
<1> QED
  BY <1>1, IInvAlways, PTL

\* However often the log is reloaded, one descriptor is a log file's.
THEOREM OneLogFileAlways == Spec => []OneLogFile
<1>1. ASSUME IInv PROVE OneLogFile
  <2> DEFINE S == {f \in 1..Descriptors : table[f] \in LogFiles}
  <2>1. S \subseteq {fd}
    BY <1>1, LogAssumption DEF IInv, Alone, Fds
  <2>2. IsFiniteSet({fd}) /\ Cardinality({fd}) = 1
    BY FS_Singleton
  <2>3. IsFiniteSet(S) /\ Cardinality(S) <= Cardinality({fd})
    BY <2>1, <2>2, FS_Subset
  <2> QED
    BY <2>2, <2>3 DEF OneLogFile
<1> QED
  BY <1>1, IInvAlways, PTL
=============================================================================
