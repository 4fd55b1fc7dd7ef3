----------------------------- MODULE ConnPool ------------------------------
(***************************************************************************)
(* What the connection manager of the server promises: a pool of at most   *)
(* MaxConnections connections that admits clients while it is open, that   *)
(* every connection leaves, but those admitted with no thread to serve     *)
(* them, and that admits nobody once it is closed.                         *)
(* SrsServer implements it.                                                *)
(***************************************************************************)
EXTENDS Naturals, FiniteSets

CONSTANTS
    Conns,          \* the connection objects
    MaxConnections  \* the size of the pool: max_connections of the configuration

VARIABLES
    pool,           \* the connections admitted and not released
    abandoned,      \* those admitted without a thread: nobody releases them
    phase           \* open, closed, or halted: the process has ended

vars == <<pool, abandoned, phase>>

Init == pool = {} /\ abandoned = {} /\ phase = "open"

Enter(c) ==
    /\ phase = "open" /\ c \notin pool
    /\ Cardinality(pool) < MaxConnections
    /\ pool' = pool \cup {c}
    /\ UNCHANGED phase

Admit(c) == Enter(c) /\ UNCHANGED abandoned

Abandon(c) == Enter(c) /\ abandoned' = abandoned \cup {c}

Release(c) ==
    /\ phase # "halted" /\ c \in pool \ abandoned
    /\ pool' = pool \ {c}
    /\ UNCHANGED <<abandoned, phase>>

Close ==
    /\ phase = "open" /\ phase' = "closed"
    /\ UNCHANGED <<pool, abandoned>>

\* The process ends, at any time, perhaps in the middle of a release.
Halt ==
    /\ phase # "halted" /\ phase' = "halted"
    /\ pool' \in SUBSET pool
    /\ UNCHANGED abandoned

Next == Close \/ Halt \/ \E c \in Conns : Admit(c) \/ Abandon(c) \/ Release(c)

Spec == Init /\ [][Next]_vars

FairSpec == Spec /\ \A c \in Conns : WF_vars(Release(c))

-----------------------------------------------------------------------------
\* The pool never holds more than MaxConnections connections.
PoolBound ==
    /\ pool \subseteq Conns
    /\ IsFiniteSet(pool)
    /\ Cardinality(pool) <= MaxConnections
=============================================================================
