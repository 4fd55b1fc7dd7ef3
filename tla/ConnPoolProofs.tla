--------------------------- MODULE ConnPoolProofs --------------------------
(***************************************************************************)
(* The pool keeps its bound, for any number of connections.                *)
(***************************************************************************)
EXTENDS ConnPool, FiniteSetTheorems, TLAPS

\* A pool of at most MaxConnections never holds more: admitting is guarded by the
\* size, releasing and halting only shrink it.
THEOREM PoolBoundAlways ==
  ASSUME MaxConnections \in Nat PROVE Spec => []PoolBound
<1>1. Init => PoolBound
  BY FS_EmptySet DEF Init, PoolBound
<1>2. PoolBound /\ [Next]_vars => PoolBound'
  <2> SUFFICES ASSUME PoolBound, [Next]_vars PROVE PoolBound'
    OBVIOUS
  <2>0. IsFiniteSet(pool) /\ Cardinality(pool) <= MaxConnections /\ pool \subseteq Conns
    BY DEF PoolBound
  <2>1. ASSUME NEW c \in Conns, Admit(c) \/ Abandon(c) PROVE PoolBound'
    <3>1. pool' = pool \cup {c} /\ Cardinality(pool) < MaxConnections
      BY <2>1 DEF Admit, Abandon, Enter
    <3>2. /\ IsFiniteSet(pool \cup {c}) /\ Cardinality(pool) \in Nat
          /\ Cardinality(pool \cup {c}) \in {Cardinality(pool), Cardinality(pool) + 1}
      BY <2>0, FS_AddElement, FS_CardinalityType
    <3> QED
      BY <2>0, <3>1, <3>2 DEF PoolBound
  <2>2. ASSUME pool' \subseteq pool PROVE PoolBound'
    <3>1. /\ IsFiniteSet(pool') /\ Cardinality(pool') <= Cardinality(pool)
          /\ Cardinality(pool) \in Nat /\ Cardinality(pool') \in Nat
      BY <2>0, <2>2, FS_Subset, FS_CardinalityType
    <3> QED
      BY <2>0, <2>2, <3>1 DEF PoolBound
  <2>3. ASSUME NEW c \in Conns, Release(c) PROVE pool' \subseteq pool
    BY <2>3 DEF Release
  <2>4. CASE Close \/ Halt \/ UNCHANGED vars
    <3>1. pool' \subseteq pool
      BY <2>4 DEF Close, Halt, vars
    <3> QED
      BY <2>2, <3>1
  <2> QED
    BY <2>1, <2>2, <2>3, <2>4 DEF Next
<1> QED
  BY <1>1, <1>2, PTL DEF Spec
=============================================================================
