--------------------------- MODULE SrsKbpsProofs ---------------------------
(***************************************************************************)
(* Theorems about the statistics of bytes.  First the lemmas about sums    *)
(* over finite sets that the invariants rest on; then what the operations  *)
(* of a slice do to it; then the inductive invariant, an action at a time. *)
(***************************************************************************)
EXTENDS SrsKbps, FiniteSetTheorems, WellFoundedInduction, TLAPS

\* A set of numbers that is not empty has a smallest one.
LEMMA SmallestOf ==
  ASSUME NEW S \in SUBSET Nat, S # {}
  PROVE  \E n \in S : \A m \in S : n <= m
<1>1. PICK n \in S : \A m \in S : ~(<<m, n>> \in OpToRel(<, Nat))
  BY NatLessThanWellFounded, WFMin
<1>2. \A m \in S : ~(m < n)
  BY <1>1 DEF OpToRel
<1> QED
  BY <1>2

\* Induction over the subsets of a finite set, the predicate being the set of those
\* that satisfy it.
LEMMA SubsetInduction ==
  ASSUME NEW S, IsFiniteSet(S), NEW G,
         \A T \in SUBSET S :
            (\A U \in SUBSET T : U # T => U \in G) => T \in G
  PROVE  SUBSET S \subseteq G
<1> SUFFICES ASSUME NEW B \in SUBSET S, B \notin G
             PROVE  FALSE
  OBVIOUS
<1> DEFINE Bad == {T \in SUBSET S : T \notin G}
           Sizes == {n \in Nat : \E T \in Bad : n = Cardinality(T)}
<1>1. \A T \in SUBSET S : IsFiniteSet(T) /\ Cardinality(T) \in Nat
  BY FS_Subset, FS_CardinalityType
<1>2. Sizes # {} /\ Sizes \in SUBSET Nat
  BY <1>1
<1>3. PICK n \in Sizes : \A m \in Sizes : n <= m
  BY <1>2, SmallestOf
<1>4. PICK T \in Bad : n = Cardinality(T)
  OBVIOUS
<1>5. PICK U \in SUBSET T : U # T /\ U \notin G
  OBVIOUS
<1>6. U \in Bad /\ Cardinality(U) \in Nat
  BY <1>1, <1>5
<1>7. Cardinality(U) \in Sizes
  BY <1>6
<1>8. Cardinality(U) <= n /\ Cardinality(U) # n
  BY <1>1, <1>4, <1>5, FS_Subset
<1> QED
  BY <1>1, <1>3, <1>4, <1>6, <1>7, <1>8

\* Induction that adds one element at a time.
LEMMA ElementInduction ==
  ASSUME NEW S, IsFiniteSet(S), NEW G, {} \in G,
         \A T \in SUBSET S : \A x \in T : T \ {x} \in G => T \in G
  PROVE  S \in G
<1>1. ASSUME NEW T \in SUBSET S, \A U \in SUBSET T : U # T => U \in G
      PROVE  T \in G
  <2>1. CASE T = {}
    BY <2>1
  <2>2. CASE T # {}
    <3>1. PICK x \in T : TRUE
      BY <2>2
    <3>2. T \ {x} \in SUBSET T /\ T \ {x} # T
      OBVIOUS
    <3> QED
      BY <1>1, <3>2
  <2> QED
    BY <2>1, <2>2
<1>2. SUBSET S \subseteq G
  BY <1>1, SubsetInduction
<1> QED
  BY <1>2

-----------------------------------------------------------------------------
\* The community modules define a sum over S by a recursive function on the subsets
\* of S; its equation:
One(s) == CHOOSE x \in s : TRUE
Body(f, g, s) == IF s = {} THEN 0 ELSE f[One(s)] + g[s \ {One(s)}]
SumsOf(f, S, g) == g = [s \in SUBSET S |-> Body(f, g, s)]

\* The element taken out belongs to the set.
LEMMA OneIn ==
  ASSUME NEW s, s # {}
  PROVE  One(s) \in s
  BY DEF One

\* Some function satisfies the equation when S is finite.
LEMMA SumsExist ==
  ASSUME NEW f, NEW S, IsFiniteSet(S)
  PROVE  \E g : SumsOf(f, S, g)
<1> DEFINE Upto(g, n) == \A s \in SUBSET S : Cardinality(s) <= n => g[s] = Body(f, g, s)
           Bad == {n \in Nat : ~\E g : Upto(g, n)}
<1>1. \A s \in SUBSET S : IsFiniteSet(s) /\ Cardinality(s) \in Nat /\ Cardinality(s) <= Cardinality(S)
  BY FS_Subset, FS_CardinalityType
<1>2. ASSUME NEW n \in Nat, n \in Bad, \A m \in Bad : n <= m
      PROVE  FALSE
  <2>1. PICK h : n > 0 => Upto(h, n - 1)
    <3>1. CASE n = 0
      BY <3>1
    <3>2. CASE n > 0
      <4>1. n - 1 \in Nat /\ n - 1 \notin Bad
        BY <1>2, <3>2
      <4> QED
        BY <4>1
    <3> QED
      BY <3>1, <3>2
  <2> DEFINE g == [s \in SUBSET S |-> Body(f, h, s)]
  <2>2. ASSUME NEW s \in SUBSET S, Cardinality(s) <= n
        PROVE  g[s] = Body(f, g, s)
    <3>1. CASE s = {}
      BY <3>1 DEF Body
    <3>2. CASE s # {}
      <4> DEFINE t == s \ {One(s)}
      <4>1. One(s) \in s /\ t \in SUBSET S
        BY <3>2, OneIn
      <4>2. Cardinality(t) = Cardinality(s) - 1 /\ Cardinality(s) > 0
        BY <1>1, <3>2, <4>1, FS_RemoveElement, FS_EmptySet
      <4>3. Upto(h, n - 1) /\ Cardinality(t) <= n - 1
        BY <1>1, <2>1, <2>2, <4>2
      <4>4. h[t] = Body(f, h, t)
        BY <4>1, <4>3
      <4>5. g[t] = h[t]
        BY <4>1, <4>4
      <4>6. g[s] = f[One(s)] + h[t]
        BY <3>2 DEF Body
      <4>7. Body(f, g, s) = f[One(s)] + g[t]
        BY <3>2 DEF Body
      <4> QED
        BY <4>5, <4>6, <4>7
    <3> QED
      BY <3>1, <3>2
  <2>3. Upto(g, n)
    BY <2>2
  <2> QED
    BY <1>2, <2>3
<1>3. Bad = {}
  BY <1>2, SmallestOf
<1>4. Cardinality(S) \in Nat
  BY FS_CardinalityType
<1>5. PICK h : Upto(h, Cardinality(S))
  BY <1>3, <1>4
<1> DEFINE g == [s \in SUBSET S |-> h[s]]
<1>6. ASSUME NEW s \in SUBSET S
      PROVE  h[s] = Body(f, g, s)
  <2>1. h[s] = Body(f, h, s)
    BY <1>1, <1>5
  <2>2. s \ {One(s)} \in SUBSET S
    OBVIOUS
  <2> QED
    BY <2>1, <2>2 DEF Body
<1>7. SumsOf(f, S, g)
  BY <1>6 DEF SumsOf
<1> QED
  BY <1>7

\* No other does, and the sum over every subset of S is its value there.
LEMMA SumIs ==
  ASSUME NEW f, NEW S, IsFiniteSet(S), NEW g, SumsOf(f, S, g)
  PROVE  \A T \in SUBSET S : SumFunctionOnSet(f, T) = g[T]
<1> SUFFICES ASSUME NEW T \in SUBSET S
             PROVE  SumFunctionOnSet(f, T) = g[T]
  OBVIOUS
<1> DEFINE h == CHOOSE i : SumsOf(f, T, i)
<1>1. IsFiniteSet(T)
  BY FS_Subset
<1>2. SumsOf(f, T, h)
  BY <1>1, SumsExist
<1>3. SumFunctionOnSet(f, T) = h[T]
  BY DEF SumFunctionOnSet, FoldFunctionOnSet, MapThenFoldSet, SumsOf, Body, One
<1> DEFINE G == {U \in SUBSET T : h[U] = g[U]}
<1> HIDE DEF h
<1>4. ASSUME NEW U \in SUBSET T, \A V \in SUBSET U : V # U => V \in G
      PROVE  U \in G
  <2>1. h[U] = Body(f, h, U) /\ g[U] = Body(f, g, U)
    BY <1>2 DEF SumsOf
  <2>2. U # {} => U \ {One(U)} \in SUBSET U /\ U \ {One(U)} # U
    BY OneIn
  <2>3. Body(f, h, U) = Body(f, g, U)
    BY <1>4, <2>2 DEF Body
  <2> QED
    BY <2>1, <2>3
<1> HIDE DEF G
<1>5. SUBSET T \subseteq G
  BY <1>1, <1>4, SubsetInduction
<1>6. T \in G
  BY <1>5
<1> QED
  BY <1>3, <1>6 DEF G

\* The sum over no element is 0; over a set that has some, it takes one out.
LEMMA SumEquation ==
  ASSUME NEW f, NEW S, IsFiniteSet(S)
  PROVE  /\ SumFunctionOnSet(f, {}) = 0
         /\ S # {} => SumFunctionOnSet(f, S) = f[One(S)] + SumFunctionOnSet(f, S \ {One(S)})
<1>1. PICK g : SumsOf(f, S, g)
  BY SumsExist
<1>2. \A T \in SUBSET S : SumFunctionOnSet(f, T) = g[T]
  BY <1>1, SumIs
<1>4. \A T \in SUBSET S : g[T] = Body(f, g, T)
  BY <1>1 DEF SumsOf
<1>3. {} \in SUBSET S /\ S \in SUBSET S /\ S \ {One(S)} \in SUBSET S
  OBVIOUS
<1> QED
  BY <1>2, <1>3, <1>4 DEF Body

\* No element sums to 0.
LEMMA SumEmpty ==
  ASSUME NEW f
  PROVE  SumFunctionOnSet(f, {}) = 0
<1>1. IsFiniteSet({})
  BY FS_EmptySet
<1> QED
  BY <1>1, SumEquation

\* A sum of integers is an integer, one of natural numbers a natural number, and it
\* is the sum of the rest and whichever element is taken out.
LEMMA SumInt ==
  ASSUME NEW f, NEW S, IsFiniteSet(S), \A x \in S : f[x] \in Int
  PROVE  SumFunctionOnSet(f, S) \in Int
<1> DEFINE G == {T \in SUBSET S : SumFunctionOnSet(f, T) \in Int}
<1>1. ASSUME NEW T \in SUBSET S, \A U \in SUBSET T : U # T => U \in G
      PROVE  T \in G
  <2>1. IsFiniteSet(T)
    BY FS_Subset
  <2>2. CASE T = {}
    BY <2>1, <2>2, SumEquation
  <2>3. CASE T # {}
    <3>1. One(T) \in T /\ T \ {One(T)} \in G
      BY <1>1, <2>3, OneIn
    <3> QED
      BY <2>1, <2>3, <3>1, SumEquation
  <2> QED
    BY <2>2, <2>3
<1> HIDE DEF G
<1>2. SUBSET S \subseteq G
  BY <1>1, SubsetInduction
<1>3. S \in G
  BY <1>2
<1> QED
  BY <1>3 DEF G

LEMMA SumRemove ==
  ASSUME NEW f, NEW S, IsFiniteSet(S), \A x \in S : f[x] \in Int, NEW y \in S
  PROVE  SumFunctionOnSet(f, S) = f[y] + SumFunctionOnSet(f, S \ {y})
<1> DEFINE Sum(T) == SumFunctionOnSet(f, T)
           G == {T \in SUBSET S : \A z \in T : Sum(T) = f[z] + Sum(T \ {z})}
<1>1. ASSUME NEW T \in SUBSET S, \A U \in SUBSET T : U # T => U \in G
      PROVE  T \in G
  <2> SUFFICES ASSUME NEW z \in T
               PROVE  Sum(T) = f[z] + Sum(T \ {z})
    OBVIOUS
  <2> DEFINE x == One(T)
  <2>1. IsFiniteSet(T) /\ x \in T
    BY FS_Subset, OneIn
  <2>2. Sum(T) = f[x] + Sum(T \ {x})
    BY <2>1, SumEquation
  <2>3. CASE x = z
    BY <2>2, <2>3
  <2>4. CASE x # z
    <3>1. T \ {x} \in G /\ T \ {z} \in G /\ z \in T \ {x} /\ x \in T \ {z}
      BY <1>1, <2>1, <2>4
    <3>2. Sum(T \ {x}) = f[z] + Sum((T \ {x}) \ {z}) /\ Sum(T \ {z}) = f[x] + Sum((T \ {z}) \ {x})
      BY <3>1
    <3>3. (T \ {x}) \ {z} = (T \ {z}) \ {x}
      OBVIOUS
    <3>4. Sum((T \ {z}) \ {x}) \in Int
      <4>1. IsFiniteSet((T \ {z}) \ {x})
        BY <2>1, FS_Subset
      <4> QED
        BY <4>1, SumInt
    <3>5. f[x] \in Int /\ f[z] \in Int
      BY <2>1
    <3>6. Sum((T \ {x}) \ {z}) = Sum((T \ {z}) \ {x})
      BY <3>3
    <3> HIDE DEF x, Sum
    <3> QED
      BY <2>2, <3>2, <3>4, <3>5, <3>6
  <2> QED
    BY <2>3, <2>4
<1> HIDE DEF G
<1>2. SUBSET S \subseteq G
  BY <1>1, SubsetInduction
<1>3. S \in G
  BY <1>2
<1> QED
  BY <1>3 DEF G

\* Sums of functions that agree on the set are equal.
LEMMA SumSame ==
  ASSUME NEW f, NEW g, NEW S, IsFiniteSet(S), \A x \in S : f[x] = g[x]
  PROVE  SumFunctionOnSet(f, S) = SumFunctionOnSet(g, S)
<1> DEFINE G == {T \in SUBSET S : SumFunctionOnSet(f, T) = SumFunctionOnSet(g, T)}
<1>1. ASSUME NEW T \in SUBSET S, \A U \in SUBSET T : U # T => U \in G
      PROVE  T \in G
  <2>1. IsFiniteSet(T)
    BY FS_Subset
  <2>2. CASE T = {}
    BY <2>1, <2>2, SumEquation
  <2>3. CASE T # {}
    <3>1. One(T) \in T /\ T \ {One(T)} \in G
      BY <1>1, <2>3, OneIn
    <3> QED
      BY <2>1, <2>3, <3>1, SumEquation
  <2> QED
    BY <2>2, <2>3
<1> HIDE DEF G
<1>2. SUBSET S \subseteq G
  BY <1>1, SubsetInduction
<1>3. S \in G
  BY <1>2
<1> QED
  BY <1>3 DEF G

\* Changing one value changes the sum by as much.
LEMMA SumChange ==
  ASSUME NEW f, NEW g, NEW S, IsFiniteSet(S), NEW y \in S,
         \A x \in S : f[x] \in Int /\ g[x] \in Int,
         \A x \in S : x # y => f[x] = g[x]
  PROVE  SumFunctionOnSet(g, S) = SumFunctionOnSet(f, S) - f[y] + g[y]
<1>1. SumFunctionOnSet(f, S) = f[y] + SumFunctionOnSet(f, S \ {y})
  BY SumRemove
<1>2. SumFunctionOnSet(g, S) = g[y] + SumFunctionOnSet(g, S \ {y})
  BY SumRemove
<1>3. IsFiniteSet(S \ {y})
  BY FS_RemoveElement
<1>4. SumFunctionOnSet(f, S \ {y}) = SumFunctionOnSet(g, S \ {y})
  BY <1>3, SumSame
<1>5. SumFunctionOnSet(f, S \ {y}) \in Int
  BY <1>3, SumInt
<1> QED
  BY <1>1, <1>2, <1>4, <1>5

\* A sum of natural numbers is a natural number.
LEMMA SumNat ==
  ASSUME NEW f, NEW S, IsFiniteSet(S), \A x \in S : f[x] \in Nat
  PROVE  SumFunctionOnSet(f, S) \in Nat
<1> DEFINE G == {T \in SUBSET S : SumFunctionOnSet(f, T) \in Nat}
<1>1. {} \in G
  BY SumEmpty
<1>2. ASSUME NEW T \in SUBSET S, NEW x \in T, T \ {x} \in G
      PROVE  T \in G
  <2>1. IsFiniteSet(T)
    BY FS_Subset
  <2>2. SumFunctionOnSet(f, T) = f[x] + SumFunctionOnSet(f, T \ {x})
    BY <2>1, SumRemove
  <2> QED
    BY <1>2, <2>2
<1> HIDE DEF G
<1>3. S \in G
  BY <1>1, <1>2, ElementInduction
<1> QED
  BY <1>3 DEF G

\* Greater values have a greater sum.
LEMMA SumMonotone ==
  ASSUME NEW f, NEW g, NEW S, IsFiniteSet(S),
         \A x \in S : f[x] \in Int /\ g[x] \in Int /\ f[x] <= g[x]
  PROVE  SumFunctionOnSet(f, S) <= SumFunctionOnSet(g, S)
<1> DEFINE G == {T \in SUBSET S : SumFunctionOnSet(f, T) <= SumFunctionOnSet(g, T)}
<1>1. {} \in G
  BY SumEmpty
<1>2. ASSUME NEW T \in SUBSET S, NEW x \in T, T \ {x} \in G
      PROVE  T \in G
  <2>1. IsFiniteSet(T) /\ IsFiniteSet(T \ {x})
    BY FS_Subset
  <2>2. SumFunctionOnSet(f, T) = f[x] + SumFunctionOnSet(f, T \ {x})
    BY <2>1, SumRemove
  <2>3. SumFunctionOnSet(g, T) = g[x] + SumFunctionOnSet(g, T \ {x})
    BY <2>1, SumRemove
  <2>4. SumFunctionOnSet(f, T \ {x}) \in Int /\ SumFunctionOnSet(g, T \ {x}) \in Int
    BY <2>1, SumInt
  <2>5. f[x] \in Int /\ g[x] \in Int /\ f[x] <= g[x]
    OBVIOUS
  <2>6. SumFunctionOnSet(f, T) <= SumFunctionOnSet(g, T)
    BY <1>2, <2>2, <2>3, <2>4, <2>5
  <2> QED
    BY <2>6
<1> HIDE DEF G
<1>3. S \in G
  BY <1>1, <1>2, ElementInduction
<1> QED
  BY <1>3 DEF G

\* The sum of sums is the sum of both.
LEMMA SumPlus ==
  ASSUME NEW f, NEW g, NEW h, NEW S, IsFiniteSet(S),
         \A x \in S : f[x] \in Int /\ g[x] \in Int /\ h[x] = f[x] + g[x]
  PROVE  SumFunctionOnSet(h, S) = SumFunctionOnSet(f, S) + SumFunctionOnSet(g, S)
<1> DEFINE G == {T \in SUBSET S : SumFunctionOnSet(h, T)
                                     = SumFunctionOnSet(f, T) + SumFunctionOnSet(g, T)}
<1>1. {} \in G
  BY SumEmpty
<1>2. ASSUME NEW T \in SUBSET S, NEW x \in T, T \ {x} \in G
      PROVE  T \in G
  <2>1. IsFiniteSet(T) /\ IsFiniteSet(T \ {x})
    BY FS_Subset
  <2>2. SumFunctionOnSet(f, T) = f[x] + SumFunctionOnSet(f, T \ {x})
    BY <2>1, SumRemove
  <2>3. SumFunctionOnSet(g, T) = g[x] + SumFunctionOnSet(g, T \ {x})
    BY <2>1, SumRemove
  <2>4. SumFunctionOnSet(h, T) = h[x] + SumFunctionOnSet(h, T \ {x})
    BY <2>1, SumRemove
  <2>5. SumFunctionOnSet(f, T \ {x}) \in Int /\ SumFunctionOnSet(g, T \ {x}) \in Int
    BY <2>1, SumInt
  <2>6. f[x] \in Int /\ g[x] \in Int /\ h[x] = f[x] + g[x]
    OBVIOUS
  <2>7. SumFunctionOnSet(h, T) = SumFunctionOnSet(f, T) + SumFunctionOnSet(g, T)
    BY <1>2, <2>2, <2>3, <2>4, <2>5, <2>6
  <2> QED
    BY <2>7
<1> HIDE DEF G
<1>3. S \in G
  BY <1>1, <1>2, ElementInduction
<1> QED
  BY <1>3 DEF G

\* No value outside T: the sum over S is that over T.
LEMMA SumSubset ==
  ASSUME NEW f, NEW S, IsFiniteSet(S), NEW T \in SUBSET S,
         \A x \in S : f[x] \in Int, \A x \in S \ T : f[x] = 0
  PROVE  SumFunctionOnSet(f, S) = SumFunctionOnSet(f, T)
<1> DEFINE G == {U \in SUBSET S : SumFunctionOnSet(f, U) = SumFunctionOnSet(f, U \cap T)}
<1>1. {} \in G
  <2>1. {} \cap T = {}
    OBVIOUS
  <2> QED
    BY <2>1
<1>2. ASSUME NEW U \in SUBSET S, NEW x \in U, U \ {x} \in G
      PROVE  U \in G
  <2>1. IsFiniteSet(U) /\ IsFiniteSet(U \cap T) /\ IsFiniteSet(U \ {x})
    BY FS_Subset
  <2>2. SumFunctionOnSet(f, U) = f[x] + SumFunctionOnSet(f, U \ {x})
    BY <2>1, SumRemove
  <2>3. SumFunctionOnSet(f, U \ {x}) = SumFunctionOnSet(f, (U \ {x}) \cap T)
    BY <1>2
  <2>4. CASE x \in T
    <3>1. SumFunctionOnSet(f, U \cap T) = f[x] + SumFunctionOnSet(f, (U \cap T) \ {x})
      BY <2>1, <2>4, SumRemove
    <3>2. (U \cap T) \ {x} = (U \ {x}) \cap T
      OBVIOUS
    <3> QED
      BY <2>2, <2>3, <3>1, <3>2
  <2>5. CASE x \notin T
    <3>1. U \cap T = (U \ {x}) \cap T /\ f[x] = 0
      BY <2>5
    <3>2. SumFunctionOnSet(f, U \ {x}) \in Int
      BY <2>1, SumInt
    <3>3. SumFunctionOnSet(f, U) = SumFunctionOnSet(f, U \ {x})
      BY <2>2, <3>1, <3>2
    <3>4. SumFunctionOnSet(f, U) = SumFunctionOnSet(f, U \cap T)
      BY <2>3, <3>1, <3>3
    <3> QED
      BY <3>4
  <2> QED
    BY <2>4, <2>5
<1> HIDE DEF G
<1>3. S \in G
  BY <1>1, <1>2, ElementInduction
<1>4. S \cap T = T
  OBVIOUS
<1> QED
  BY <1>3, <1>4 DEF G

-----------------------------------------------------------------------------
\* The numbers: a quotient of natural numbers is no greater than what is divided; the
\* conversion to int keeps what fits, and gives an int in any case.
LEMMA QuotientBound ==
  ASSUME NEW n \in Nat, NEW d \in Nat \ {0}
  PROVE  Quotient(n, d) \in 0..n
<1>1. Quotient(n, d) = n \div d
  BY DEF Quotient
<1>2. n \div d \in Nat /\ n \div d <= n
  OBVIOUS
<1> QED
  BY <1>1, <1>2

\* The conversion to int is the identity on what fits.
LEMMA ToIntType ==
  ASSUME NEW n \in Int
  PROVE  /\ ToInt(n) \in (-RateLimit)..(RateLimit - 1)
         /\ n \in 0..(RateLimit - 1) => ToInt(n) = n
<1> DEFINE m == 2 * RateLimit
<1>1. m \in Nat /\ m > 0 /\ RateLimit \in Nat
  BY KbpsAssumption
<1>2. (n + RateLimit) % m \in 0..(m - 1)
  BY <1>1
<1>3. ASSUME n \in 0..(RateLimit - 1)
      PROVE  (n + RateLimit) % m = n + RateLimit
  <2>1. n + RateLimit \in 0..(m - 1)
    BY <1>1, <1>3
  <2> HIDE DEF m
  <2> QED
    BY <1>1, <2>1
<1> QED
  BY <1>1, <1>2, <1>3 DEF ToInt

\* A rate is an int, and not negative as long as its bits fit one.
LEMMA KbitsType ==
  ASSUME NEW bytes \in Nat, NEW time \in Nat \ {0}
  PROVE  /\ Kbits(bytes, time) \in (-RateLimit)..(RateLimit - 1)
         /\ bytes * 8 < RateLimit => Kbits(bytes, time) >= 0
<1>1. bytes * 8 \in Nat /\ RateLimit \in Nat
  BY KbpsAssumption
<1>2. Quotient(bytes * 8, time) \in 0..(bytes * 8)
  BY <1>1, QuotientBound
<1>3. Kbits(bytes, time) \in (-RateLimit)..(RateLimit - 1)
  BY <1>1, <1>2, ToIntType DEF Kbits
<1>4. bytes * 8 < RateLimit => Quotient(bytes * 8, time) \in 0..(RateLimit - 1)
  BY <1>1, <1>2
<1> QED
  BY <1>1, <1>2, <1>3, <1>4, ToIntType DEF Kbits

-----------------------------------------------------------------------------
\* A slice in order: what it counted since its io was set, what it handed over and
\* what its samples recorded are no more than its total; and the rates of the
\* samples are sane while that total is small.
InOrder(k) ==
    /\ k \in Slice
    /\ k.base <= k.last /\ k.delta <= Total(k)
    /\ \A w \in Windows :
          /\ k.samples[w].bytes <= Total(k)
          /\ Total(k) * 8 < RateLimit => k.samples[w].kbps >= 0

\* Two slices that differ in their samples only.
SameBytes(k, n) ==
    /\ n.io = k.io /\ n.bytes = k.bytes /\ n.base = k.base
    /\ n.last = k.last /\ n.delta = k.delta

\* The total of a slice in order is a natural number.
LEMMA TotalType ==
  ASSUME NEW k, InOrder(k)
  PROVE  Total(k) \in Nat /\ Total(k) >= k.bytes
  BY DEF InOrder, Slice, Total

\* The total depends on the bytes alone.
LEMMA SameTotal ==
  ASSUME NEW k, NEW n, SameBytes(k, n)
  PROVE  Total(n) = Total(k)
  BY DEF SameBytes, Total

\* A renewed sample is one, records no more than the total and has a sane rate.
LEMMA WindowInOrder ==
  ASSUME clock \in 1..MaxClock, NEW w \in Windows, NEW total \in Nat,
         NEW x \in [bytes : Nat, time : Nat, kbps : (-RateLimit)..(RateLimit - 1)],
         x.bytes <= total, total * 8 < RateLimit => x.kbps >= 0
  PROVE  /\ SampleWindow(w, x, total)
                 \in [bytes : Nat, time : Nat, kbps : (-RateLimit)..(RateLimit - 1)]
         /\ SampleWindow(w, x, total).bytes <= total
         /\ total * 8 < RateLimit => SampleWindow(w, x, total).kbps >= 0
<1> DEFINE y == SampleWindow(w, x, total)
<1>1. w \in Nat /\ RateLimit \in Nat \ {0} /\ clock \in Nat /\ 0 \in (-RateLimit)..(RateLimit - 1)
  BY KbpsAssumption
<1>2. CASE x.time <= 0
  <2>1. y = [bytes |-> total, time |-> clock, kbps |-> 0]
    BY <1>2 DEF SampleWindow
  <2> QED
    BY <1>1, <2>1
<1>3. CASE x.time > 0 /\ clock - x.time > w
  <2> DEFINE r == Kbits(total - x.bytes, clock - x.time)
  <2>1. y = [bytes |-> total, time |-> clock, kbps |-> r]
    BY <1>1, <1>3 DEF SampleWindow
  <2>2. total - x.bytes \in Nat /\ clock - x.time \in Nat \ {0}
    BY <1>1, <1>3
  <2>3. r \in (-RateLimit)..(RateLimit - 1)
    BY <2>2, KbitsType
  <2>4. total * 8 < RateLimit => (total - x.bytes) * 8 < RateLimit
    BY <1>1
  <2>5. total * 8 < RateLimit => r >= 0
    BY <2>2, <2>4, KbitsType
  <2> HIDE DEF r
  <2> QED
    BY <1>1, <2>1, <2>3, <2>5
<1>4. CASE ~(x.time <= 0) /\ ~(clock - x.time > w)
  BY <1>4 DEF SampleWindow
<1>5. x.time \in Nat
  OBVIOUS
<1> QED
  BY <1>2, <1>3, <1>4, <1>5

\* Sampling a slice keeps it in order and counts nothing.
LEMMA SampleSliceInOrder ==
  ASSUME clock \in 1..MaxClock, NEW k, InOrder(k)
  PROVE  InOrder(SampleSlice(k)) /\ SameBytes(k, SampleSlice(k))
<1> DEFINE n == SampleSlice(k)
<1>1. k \in Slice /\ Total(k) \in Nat
  BY TotalType DEF InOrder
<1>2. SameBytes(k, n) /\ n.starttime = k.starttime
      /\ DOMAIN n = DOMAIN k
  BY <1>1 DEF SampleSlice, SameBytes, Slice
<1>3. n.samples = [w \in Windows |-> SampleWindow(w, k.samples[w], Total(k))]
  BY <1>1 DEF SampleSlice, Slice
<1>4. ASSUME NEW w \in Windows
      PROVE  /\ n.samples[w] \in [bytes : Nat, time : Nat, kbps : (-RateLimit)..(RateLimit - 1)]
             /\ n.samples[w].bytes <= Total(k)
             /\ Total(k) * 8 < RateLimit => n.samples[w].kbps >= 0
  <2>1. k.samples[w] \in [bytes : Nat, time : Nat, kbps : (-RateLimit)..(RateLimit - 1)]
    BY <1>1 DEF Slice
  <2>2. k.samples[w].bytes <= Total(k) /\ (Total(k) * 8 < RateLimit => k.samples[w].kbps >= 0)
    BY DEF InOrder
  <2> QED
    BY <1>1, <1>3, <2>1, <2>2, WindowInOrder
<1>5. n.samples \in [Windows -> [bytes : Nat, time : Nat, kbps : (-RateLimit)..(RateLimit - 1)]]
  BY <1>3, <1>4
<1>6. n \in Slice
  BY <1>1, <1>5 DEF SampleSlice, Slice
<1>7. Total(n) = Total(k)
  BY <1>2, SameTotal
<1>8. n.base <= n.last /\ n.delta <= Total(n)
  BY <1>2, <1>7 DEF SameBytes, InOrder
<1> QED
  BY <1>2, <1>4, <1>6, <1>7, <1>8 DEF InOrder

\* So does raising its last count, which raises the total.
LEMMA RaiseInOrder ==
  ASSUME NEW k, InOrder(k), NEW m \in Nat, k.last <= m
  PROVE  /\ InOrder([k EXCEPT !.last = m])
         /\ Total([k EXCEPT !.last = m]) = Total(k) + m - k.last
<1> DEFINE n == [k EXCEPT !.last = m]
<1>1. k \in Slice /\ Total(k) \in Nat
  BY TotalType DEF InOrder
<1>2. n \in Slice /\ n.base = k.base /\ n.bytes = k.bytes /\ n.last = m
      /\ n.delta = k.delta /\ n.samples = k.samples
  BY <1>1 DEF Slice
<1>3. k.bytes \in Nat /\ k.base \in Nat /\ k.last \in Nat /\ k.delta \in Nat
  BY <1>1 DEF Slice
<1>4. Total(n) = Total(k) + m - k.last
  BY <1>2, <1>3 DEF Total
<1>5. Total(n) \in Nat /\ Total(k) <= Total(n)
  BY <1>1, <1>3, <1>4
<1>6. RateLimit \in Nat
  BY KbpsAssumption
<1>7. ASSUME NEW w \in Windows
      PROVE  /\ n.samples[w].bytes <= Total(n)
             /\ Total(n) * 8 < RateLimit => n.samples[w].kbps >= 0
  <2>1. k.samples[w] \in [bytes : Nat, time : Nat, kbps : (-RateLimit)..(RateLimit - 1)]
    BY <1>1 DEF Slice
  <2>2. k.samples[w].bytes <= Total(k) /\ (Total(k) * 8 < RateLimit => k.samples[w].kbps >= 0)
    BY DEF InOrder
  <2>3. k.samples[w].bytes \in Nat
    BY <2>1
  <2> HIDE DEF n
  <2> QED
    BY <1>1, <1>2, <1>5, <1>6, <2>2, <2>3
<1>8. n.base <= n.last
  BY <1>2, <1>3 DEF InOrder
<1>9. n.delta <= Total(n)
  BY <1>1, <1>2, <1>3, <1>5 DEF InOrder
<1> QED
  BY <1>2, <1>4, <1>7, <1>8, <1>9 DEF InOrder

\* sample(): the slice stays in order; what changes besides the samples is the last
\* count, which is raised to that of the io.
LEMMA SampledInOrder ==
  ASSUME clock \in 1..MaxClock, NEW k, InOrder(k),
         k.io # NoIo => count[k.io] \in Nat /\ k.last <= count[k.io]
  PROVE  /\ InOrder(Sampled(k))
         /\ SameBytes(IF k.io = NoIo THEN k ELSE [k EXCEPT !.last = count[k.io]], Sampled(k))
         /\ Total(Sampled(k)) >= Total(k)
<1>0. k \in Slice /\ Total(k) \in Nat
  BY TotalType DEF InOrder
<1>1. CASE k.io = NoIo
  <2>1. Sampled(k) = SampleSlice(k)
    BY <1>1 DEF Sampled
  <2> QED
    BY <1>0, <1>1, <2>1, SampleSliceInOrder, SameTotal
<1>2. CASE k.io # NoIo
  <2> DEFINE m == count[k.io]
             n == [k EXCEPT !.last = m]
  <2>1. m \in Nat /\ k.last <= m
    BY <1>2
  <2>2. InOrder(n) /\ Total(n) = Total(k) + m - k.last
    BY <2>1, RaiseInOrder
  <2>3. Sampled(k) = SampleSlice(n)
    BY <1>2 DEF Sampled
  <2>4. InOrder(Sampled(k)) /\ SameBytes(n, Sampled(k))
    BY <2>2, <2>3, SampleSliceInOrder
  <2>5. Total(Sampled(k)) = Total(n)
    BY <2>4, SameTotal
  <2>6. k.last \in Nat
    BY <1>0 DEF Slice
  <2> QED
    BY <1>0, <1>2, <2>1, <2>2, <2>4, <2>5, <2>6
<1> QED
  BY <1>1, <1>2

\* set_io(): the slice stays in order, and its total stays what it was.
LEMMA WithIoInOrder ==
  ASSUME clock \in 1..MaxClock, NEW k, InOrder(k), k.io = NoIo => k.base = 0 /\ k.last = 0,
         NEW io \in Ios \cup {NoIo}, io # NoIo => count[io] \in Nat
  PROVE  /\ InOrder(WithIo(k, io))
         /\ Total(WithIo(k, io)) = Total(k)
         /\ WithIo(k, io).io = io /\ WithIo(k, io).bytes = Total(k)
         /\ WithIo(k, io).delta = k.delta
         /\ WithIo(k, io).last = WithIo(k, io).base
         /\ WithIo(k, io).base = IF io = NoIo THEN 0 ELSE count[io]
<1> DEFINE b == IF io = NoIo THEN 0 ELSE count[io]
           n == [k EXCEPT !.starttime = IF @ = 0 THEN clock ELSE @,
                          !.bytes = IF k.io = NoIo THEN @ ELSE @ + k.last - k.base,
                          !.io = io, !.last = b, !.base = b]
<1>1. k \in Slice /\ Total(k) \in Nat /\ b \in Nat /\ clock \in Nat
  BY TotalType DEF InOrder
<1>2. k.bytes \in Nat /\ k.base \in Nat /\ k.last \in Nat /\ k.delta \in Nat
  BY <1>1 DEF Slice
<1>3. WithIo(k, io) = SampleSlice(n)
  BY DEF WithIo
<1>4. (IF k.io = NoIo THEN k.bytes ELSE k.bytes + k.last - k.base) = Total(k)
  BY <1>2 DEF Total
<1>5. n = [k EXCEPT !.starttime = IF @ = 0 THEN clock ELSE @, !.bytes = Total(k),
                    !.io = io, !.last = b, !.base = b]
  BY <1>1, <1>4 DEF Slice
<1> HIDE DEF n, b
<1>6. n \in Slice /\ n.io = io /\ n.bytes = Total(k) /\ n.last = b /\ n.base = b
      /\ n.delta = k.delta /\ n.samples = k.samples
  BY <1>1, <1>5 DEF Slice
<1>7. Total(n) = Total(k)
  BY <1>1, <1>6 DEF Total
<1>8. InOrder(n)
  BY <1>1, <1>6, <1>7 DEF InOrder
<1>9. InOrder(SampleSlice(n)) /\ SameBytes(n, SampleSlice(n))
  BY <1>8, SampleSliceInOrder
<1>10. Total(SampleSlice(n)) = Total(k)
  BY <1>7, <1>9, SameTotal
<1> QED
  BY <1>3, <1>6, <1>9, <1>10 DEF SameBytes, b

\* get_recv_bytes_delta(): the slice stays in order, having handed over its total.
LEMMA DeltaTakenInOrder ==
  ASSUME NEW k, InOrder(k)
  PROVE  /\ InOrder(DeltaTaken(k)) /\ Total(DeltaTaken(k)) = Total(k)
         /\ DeltaTaken(k).io = k.io /\ DeltaTaken(k).bytes = k.bytes
         /\ DeltaTaken(k).base = k.base /\ DeltaTaken(k).last = k.last
         /\ DeltaTaken(k).delta = Total(k)
<1> DEFINE n == DeltaTaken(k)
<1>1. k \in Slice /\ Total(k) \in Nat
  BY TotalType DEF InOrder
<1>2. n \in Slice /\ n.io = k.io /\ n.bytes = k.bytes /\ n.base = k.base
      /\ n.last = k.last /\ n.delta = Total(k) /\ n.samples = k.samples
  BY <1>1 DEF DeltaTaken, Slice
<1>3. Total(n) = Total(k)
  BY <1>2 DEF Total
<1> HIDE DEF n
<1>4. InOrder(n)
  BY <1>1, <1>2, <1>3 DEF InOrder
<1> QED
  BY <1>2, <1>3, <1>4 DEF n

\* The slice of a constructor is in order.
LEMMA NewSliceInOrder ==
  /\ InOrder(NewSlice) /\ Total(NewSlice) = 0 /\ NewSlice.delta = 0
  /\ NewSlice.io = NoIo /\ NewSlice.base = 0 /\ NewSlice.last = 0
<1>1. RateLimit \in Nat \ {0} /\ 0 \in (-RateLimit)..(RateLimit - 1)
  BY KbpsAssumption
<1>2. NewSlice \in Slice
  BY <1>1 DEF NewSlice, Slice
<1>3. Total(NewSlice) = 0
  BY DEF NewSlice, Total
<1> QED
  BY <1>1, <1>2, <1>3 DEF NewSlice, InOrder

-----------------------------------------------------------------------------
\* What the io of a slice counted since it was set.
Since(k) == IF k.io = NoIo THEN 0 ELSE count[k.io] - k.base

\* The bytes of connection c are backed by its sockets: what it saved, with what its io
\* counts, is no more than all its sockets counted; so an io that comes back is not
\* counted from its beginning again.
Backed(c, k) ==
    /\ k.io \in IosOf(c) \cup {NoIo}
    /\ k.io = NoIo => k.base = 0 /\ k.last = 0
    /\ k.io # NoIo => k.last <= count[k.io]
    /\ k.bytes + Since(k) <= SumFunctionOnSet(count, IosOf(c))

Variables ==
    /\ clock \in 1..MaxClock
    /\ wire \in [Ios -> 0..MaxWire] /\ count \in [Ios -> 0..MaxWire]
    /\ freed \in Nat
Objects ==
    /\ Server \in DOMAIN kbps /\ DOMAIN kbps \subseteq Conns \cup {Server}
    /\ IsFiniteSet(Live)

\* The inductive invariant.
IInv ==
    /\ Variables /\ Objects
    /\ \A s \in Ios : count[s] <= wire[s]
    /\ \A k \in DOMAIN kbps : InOrder(kbps[k])
    /\ kbps[Server].io = NoIo
    /\ \A c \in Live : Backed(c, kbps[c])
    /\ ServerTotalExact

\* The sockets of a connection are finitely many, each a socket, none of them NoIo.
LEMMA IosOfFinite ==
  ASSUME NEW c
  PROVE  /\ IsFiniteSet(IosOf(c)) /\ (c \in Conns => IosOf(c) \subseteq Ios)
         /\ NoIo \notin IosOf(c)
<1>1. IsFiniteSet({c}) /\ IsFiniteSet(Sessions)
  BY FS_Singleton, KbpsAssumption
<1>2. IsFiniteSet(IosOf(c))
  BY <1>1, FS_Product DEF IosOf
<1> QED
  BY <1>2 DEF IosOf, Ios, NoIo

\* What the sockets of a connection count is a natural number.
LEMMA CountSum ==
  ASSUME Variables, NEW c \in Conns
  PROVE  SumFunctionOnSet(count, IosOf(c)) \in Nat
<1>1. IsFiniteSet(IosOf(c)) /\ IosOf(c) \subseteq Ios
  BY IosOfFinite
<1>2. \A s \in IosOf(c) : count[s] \in Nat
  BY <1>1, KbpsAssumption DEF Variables
<1> QED
  BY <1>1, <1>2, SumNat

\* A connection reports no more than its sockets counted.
LEMMA TotalBacked ==
  ASSUME Variables, NEW c \in Conns, NEW k, InOrder(k), Backed(c, k)
  PROVE  Total(k) <= SumFunctionOnSet(count, IosOf(c))
<1>1. k.bytes \in Nat /\ k.base \in Nat /\ k.last \in Nat
  BY DEF InOrder, Slice
<1>2. SumFunctionOnSet(count, IosOf(c)) \in Nat
  BY CountSum
<1>3. CASE k.io = NoIo
  BY <1>1, <1>2, <1>3 DEF Backed, Since, Total
<1>4. CASE k.io # NoIo
  <2>1. k.io \in Ios
    BY <1>4, IosOfFinite DEF Backed
  <2>2. count[k.io] \in Nat
    BY <2>1, KbpsAssumption DEF Variables
  <2>3. k.last <= count[k.io] /\ k.bytes + (count[k.io] - k.base) <= SumFunctionOnSet(count, IosOf(c))
    BY <1>4 DEF Backed, Since
  <2> QED
    BY <1>1, <1>2, <2>2, <2>3 DEF Total
<1> QED
  BY <1>3, <1>4

\* A connection that samples stays backed.
LEMMA SampledBacked ==
  ASSUME Variables, NEW c \in Conns, NEW k, InOrder(k), Backed(c, k)
  PROVE  /\ InOrder(Sampled(k)) /\ Backed(c, Sampled(k))
         /\ Total(Sampled(k)) >= Total(k) /\ Sampled(k).delta = k.delta
<1>1. k.io # NoIo => k.io \in Ios
  BY IosOfFinite DEF Backed
<1>2. k.io # NoIo => count[k.io] \in Nat /\ k.last <= count[k.io]
  BY <1>1, KbpsAssumption DEF Variables, Backed
<1> DEFINE m == IF k.io = NoIo THEN k ELSE [k EXCEPT !.last = count[k.io]]
<1>3. InOrder(Sampled(k)) /\ SameBytes(m, Sampled(k)) /\ Total(Sampled(k)) >= Total(k)
  BY <1>2, SampledInOrder DEF Variables
<1>4. /\ m.io = k.io /\ m.bytes = k.bytes /\ m.base = k.base /\ m.delta = k.delta
      /\ m.last = IF k.io = NoIo THEN k.last ELSE count[k.io]
  BY DEF InOrder, Slice
<1> HIDE DEF m
<1> DEFINE n == Sampled(k)
<1>5. /\ n.io = k.io /\ n.bytes = k.bytes /\ n.base = k.base /\ n.delta = k.delta
      /\ n.last = IF k.io = NoIo THEN k.last ELSE count[k.io]
  BY <1>3, <1>4 DEF SameBytes
<1> HIDE DEF n
<1>6. Backed(c, n)
  BY <1>2, <1>5 DEF Backed, Since
<1> QED
  BY <1>3, <1>5, <1>6 DEF n

\* A connection that is given an io stays backed.
LEMMA WithIoBacked ==
  ASSUME Variables, NEW c \in Conns, NEW k, InOrder(k), Backed(c, k),
         NEW s \in IosOf(c) \cup {NoIo}
  PROVE  /\ InOrder(WithIo(k, s)) /\ Backed(c, WithIo(k, s))
         /\ Total(WithIo(k, s)) = Total(k) /\ WithIo(k, s).delta = k.delta
<1> DEFINE n == WithIo(k, s)
           b == IF s = NoIo THEN 0 ELSE count[s]
<1>1. s \in Ios \cup {NoIo}
  BY IosOfFinite
<1>2. s # NoIo => count[s] \in Nat
  BY <1>1, KbpsAssumption DEF Variables
<1>3. /\ InOrder(n) /\ Total(n) = Total(k) /\ n.io = s /\ n.bytes = Total(k)
      /\ n.delta = k.delta /\ n.last = n.base /\ n.base = b
  BY <1>1, <1>2, WithIoInOrder DEF Variables, Backed
<1>4. Total(k) \in Nat /\ Total(k) <= SumFunctionOnSet(count, IosOf(c))
  BY TotalType, TotalBacked
<1> HIDE DEF n
<1>5. Since(n) = 0
  BY <1>2, <1>3 DEF Since
<1>6. Backed(c, n)
  BY <1>2, <1>3, <1>4, <1>5 DEF Backed
<1> QED
  BY <1>3, <1>6 DEF n

\* A connection that hands over its delta stays backed.
LEMMA DeltaTakenBacked ==
  ASSUME Variables, NEW c \in Conns, NEW k, InOrder(k), Backed(c, k)
  PROVE  Backed(c, DeltaTaken(k))
  BY DeltaTakenInOrder DEF Backed, Since

\* A new connection is backed.
LEMMA NewBacked ==
  ASSUME Variables, NEW c \in Conns
  PROVE  InOrder(NewSlice) /\ Backed(c, NewSlice)
<1>1. SumFunctionOnSet(count, IosOf(c)) \in Nat
  BY CountSum
<1>2. NewSlice.bytes = 0 /\ NewSlice.io = NoIo
  BY DEF NewSlice
<1> QED
  BY <1>1, <1>2, NewSliceInOrder DEF Backed, Since

\* What the server's total is made of.
Deltas(n) == SumFunctionOnSet([c \in DOMAIN n \ {Server} |-> n[c].delta], DOMAIN n \ {Server})
LEMMA ExactIs ==
  /\ ServerTotalExact <=> (Total(kbps[Server]) = freed + Deltas(kbps))
  BY DEF ServerTotalExact, SumFunction, Deltas, Live

\* resample_kbps() over S leaves the rest alone, every connection of S in order and
\* without a delta, and the server with what they handed over.
LEMMA Resampled ==
  ASSUME IInv, NEW S \in SUBSET Live
  PROVE  LET n == ResampleKbps(S)
         IN  /\ DOMAIN n = DOMAIN kbps
             /\ \A k \in DOMAIN n : InOrder(n[k]) /\ Total(n[k]) >= Total(kbps[k])
             /\ n[Server].io = NoIo
             /\ \A c \in Live : Backed(c, n[c])
             /\ \A c \in S : n[c].delta = Total(n[c])
             /\ Total(n[Server]) = freed + Deltas(n)
<1> DEFINE n == ResampleKbps(S)
           fresh == [c \in S |-> Sampled(kbps[c])]
           d == [c \in S |-> Delta(fresh[c])]
           sum == SumFunction(d)
           up == [kbps[Server] EXCEPT !.last = @ + sum]
<1>1. Variables /\ Objects /\ Live \subseteq Conns /\ Server \notin S /\ Server \notin Live
      /\ S \subseteq DOMAIN kbps /\ Live \subseteq DOMAIN kbps
  BY DEF IInv, Objects, Live
<1>2. DOMAIN n = DOMAIN kbps
  BY DEF ResampleKbps
<1>3. n[Server] = Sampled(up)
  BY <1>1 DEF ResampleKbps, Objects
<1>4. \A c \in S : n[c] = DeltaTaken(fresh[c])
  BY <1>1 DEF ResampleKbps
<1>5. \A c \in Live \ S : n[c] = kbps[c]
  BY <1>1 DEF ResampleKbps
<1>6. \A c \in S : /\ InOrder(fresh[c]) /\ Backed(c, fresh[c])
                   /\ Total(fresh[c]) >= Total(kbps[c]) /\ fresh[c].delta = kbps[c].delta
                   /\ Total(fresh[c]) \in Nat /\ kbps[c].delta \in Nat
                   /\ kbps[c].delta <= Total(kbps[c]) /\ Total(kbps[c]) \in Nat
  <2> TAKE c \in S
  <2>1. InOrder(kbps[c]) /\ Backed(c, kbps[c]) /\ c \in Conns
    BY <1>1 DEF IInv
  <2>2. InOrder(fresh[c]) /\ Backed(c, fresh[c])
        /\ Total(fresh[c]) >= Total(kbps[c]) /\ fresh[c].delta = kbps[c].delta
    BY <1>1, <2>1, SampledBacked
  <2>3. Total(fresh[c]) \in Nat /\ Total(kbps[c]) \in Nat
    BY <2>1, <2>2, TotalType
  <2>4. kbps[c].delta \in Nat /\ kbps[c].delta <= Total(kbps[c])
    BY <2>1 DEF InOrder, Slice
  <2> QED
    BY <2>2, <2>3, <2>4
<1>7. \A c \in S : d[c] = Total(fresh[c]) - kbps[c].delta /\ d[c] \in Nat
  BY <1>6 DEF Delta
<1>8. \A c \in S : /\ InOrder(n[c]) /\ Total(n[c]) >= Total(kbps[c]) /\ Backed(c, n[c])
                   /\ n[c].delta = Total(n[c]) /\ n[c].delta = kbps[c].delta + d[c]
  <2> TAKE c \in S
  <2>1. n[c] = DeltaTaken(fresh[c]) /\ c \in Conns
    BY <1>1, <1>4
  <2>2. InOrder(n[c]) /\ Total(n[c]) = Total(fresh[c]) /\ n[c].delta = Total(fresh[c])
    BY <1>6, <2>1, DeltaTakenInOrder
  <2>3. Backed(c, n[c])
    BY <1>1, <1>6, <2>1, DeltaTakenBacked
  <2>4. Total(fresh[c]) >= Total(kbps[c]) /\ Total(fresh[c]) = kbps[c].delta + d[c]
    BY <1>6, <1>7
  <2> HIDE DEF n, fresh, d
  <2> QED
    BY <2>2, <2>3, <2>4
<1>9. IsFiniteSet(Live) /\ IsFiniteSet(S)
  BY <1>1, FS_Subset DEF Objects
<1>10. sum = SumFunctionOnSet(d, S) /\ sum \in Nat
  <2>1. sum = SumFunctionOnSet(d, S)
    BY DEF SumFunction
  <2> HIDE DEF d
  <2>2. SumFunctionOnSet(d, S) \in Nat
    BY <1>7, <1>9, SumNat
  <2> QED
    BY <2>1, <2>2
<1>11. InOrder(n[Server]) /\ Total(n[Server]) = Total(kbps[Server]) + sum /\ n[Server].io = NoIo
  <2> DEFINE m == kbps[Server].last + sum
  <2>1. InOrder(kbps[Server]) /\ kbps[Server].io = NoIo
    BY <1>1 DEF IInv, Objects
  <2>2. kbps[Server] \in Slice /\ kbps[Server].last \in Nat /\ Total(kbps[Server]) \in Nat
    BY <2>1, TotalType DEF InOrder, Slice
  <2> HIDE DEF sum
  <2>3. m \in Nat /\ kbps[Server].last <= m
    BY <1>10, <2>2
  <2>4. up = [kbps[Server] EXCEPT !.last = m]
    OBVIOUS
  <2>5. InOrder(up) /\ Total(up) = Total(kbps[Server]) + m - kbps[Server].last
    BY <2>1, <2>3, <2>4, RaiseInOrder
  <2>6. up.io = NoIo
    BY <2>1, <2>2, <2>4 DEF Slice
  <2> HIDE DEF up
  <2>7. Sampled(up) = SampleSlice(up)
    BY <2>6 DEF Sampled
  <2>8. InOrder(Sampled(up)) /\ SameBytes(up, Sampled(up))
    BY <1>1, <2>5, <2>7, SampleSliceInOrder DEF Variables
  <2>9. Total(Sampled(up)) = Total(up) /\ Sampled(up).io = NoIo
    BY <2>6, <2>8, SameTotal DEF SameBytes
  <2> QED
    BY <1>3, <1>10, <2>2, <2>5, <2>8, <2>9
<1>12. Deltas(n) = Deltas(kbps) + sum
  <2> DEFINE e == [c \in Live |-> IF c \in S THEN d[c] ELSE 0]
             f == [c \in Live |-> kbps[c].delta]
             g == [c \in Live |-> n[c].delta]
  <2>1. Deltas(n) = SumFunctionOnSet(g, Live) /\ Deltas(kbps) = SumFunctionOnSet(f, Live)
    BY <1>2 DEF Deltas, Live
  <2>2. \A c \in Live : kbps[c].delta \in Nat
    BY <1>1 DEF IInv, InOrder, Slice
  <2> HIDE DEF n, d
  <2>3. \A c \in Live : f[c] \in Int /\ e[c] \in Int /\ g[c] = f[c] + e[c]
    BY <1>5, <1>7, <1>8, <2>2
  <2>4. \A c \in Live \ S : e[c] = 0
    OBVIOUS
  <2>5. \A c \in S : d[c] = e[c]
    OBVIOUS
  <2> HIDE DEF e, f, g
  <2>6. SumFunctionOnSet(g, Live) = SumFunctionOnSet(f, Live) + SumFunctionOnSet(e, Live)
    BY <1>9, <2>3, SumPlus
  <2>7. SumFunctionOnSet(e, Live) = SumFunctionOnSet(e, S)
    BY <1>9, <2>3, <2>4, SumSubset
  <2>8. SumFunctionOnSet(d, S) = SumFunctionOnSet(e, S)
    BY <1>9, <2>5, SumSame
  <2> QED
    BY <1>10, <2>1, <2>6, <2>7, <2>8
<1>13. Total(kbps[Server]) = freed + Deltas(kbps) /\ freed \in Nat
  BY <1>1, ExactIs DEF IInv, Variables
<1>14. Deltas(kbps) \in Int
  <2> DEFINE f == [c \in Live |-> kbps[c].delta]
  <2>1. Deltas(kbps) = SumFunctionOnSet(f, Live)
    BY DEF Deltas, Live
  <2>2. \A c \in Live : f[c] \in Int
    BY <1>1 DEF IInv, InOrder, Slice
  <2> HIDE DEF f
  <2> QED
    BY <1>9, <2>1, <2>2, SumInt
<1> HIDE DEF n, sum
<1>15. Total(n[Server]) = freed + Deltas(n) /\ Total(n[Server]) >= Total(kbps[Server])
  BY <1>10, <1>11, <1>12, <1>13, <1>14
<1>16. \A c \in Live \ S : InOrder(n[c]) /\ Backed(c, n[c]) /\ Total(n[c]) >= Total(kbps[c])
  <2> TAKE c \in Live \ S
  <2>1. n[c] = kbps[c] /\ InOrder(kbps[c]) /\ Backed(c, kbps[c])
    BY <1>1, <1>5 DEF IInv
  <2>2. Total(kbps[c]) \in Nat
    BY <2>1, TotalType
  <2> QED
    BY <2>1, <2>2
<1>17. \A k \in DOMAIN n : k = Server \/ k \in S \/ k \in Live \ S
  BY <1>2 DEF Live
<1>18. \A k \in DOMAIN n : InOrder(n[k]) /\ Total(n[k]) >= Total(kbps[k])
  BY <1>8, <1>11, <1>15, <1>16, <1>17
<1>19. \A c \in Live : Backed(c, n[c])
  BY <1>8, <1>16
<1>20. \A c \in S : n[c].delta = Total(n[c])
  BY <1>8
<1> QED
  BY <1>2, <1>11, <1>15, <1>18, <1>19, <1>20 DEF n

-----------------------------------------------------------------------------
\* The invariant holds of the initial state: the server's kbps without an io.
LEMMA InitInv == Init => IInv
<1> SUFFICES ASSUME Init
             PROVE  IInv
  OBVIOUS
<1> DEFINE k == WithIo(NewSlice, NoIo)
<1>1. Variables
  BY KbpsAssumption DEF Init, Variables
<1>2. DOMAIN kbps = {Server} /\ kbps[Server] = k /\ freed = 0
  BY DEF Init
<1>3. Live = {}
  BY <1>2 DEF Live
<1>4. Objects
  BY <1>2, <1>3, FS_EmptySet DEF Objects
<1>5. \A s \in Ios : count[s] <= wire[s]
  BY DEF Init
<1>6. InOrder(k) /\ Total(k) = 0 /\ k.io = NoIo
  BY <1>1, NewSliceInOrder, WithIoInOrder DEF Variables
<1> HIDE DEF k
<1>7. Deltas(kbps) = 0
  BY <1>2, SumEmpty DEF Deltas
<1>8. ServerTotalExact
  BY <1>2, <1>6, <1>7, ExactIs
<1> QED
  BY <1>1, <1>2, <1>3, <1>4, <1>5, <1>6, <1>8 DEF IInv

\* The sums of the deltas that a step leaves as they are.
LEMMA DeltasSame ==
  ASSUME Objects, NEW n, DOMAIN n = DOMAIN kbps,
         \A c \in Live : n[c].delta = kbps[c].delta
  PROVE  Deltas(n) = Deltas(kbps)
<1>1. [c \in Live |-> n[c].delta] = [c \in Live |-> kbps[c].delta]
  OBVIOUS
<1> QED
  BY <1>1 DEF Deltas, Live

\* The part of the invariant that is about the statistics alone.
Statistics ==
    /\ Objects
    /\ \A k \in DOMAIN kbps : InOrder(kbps[k])
    /\ kbps[Server].io = NoIo
    /\ \A c \in Live : Backed(c, kbps[c])
    /\ Total(kbps[Server]) = freed + Deltas(kbps)

\* A step that leaves the sockets alone keeps the invariant if it keeps that part.
LEMMA StatisticsInv ==
  ASSUME IInv, Statistics', freed' \in Nat, UNCHANGED <<clock, wire, count>>
  PROVE  IInv'
<1>1. Variables'
  BY DEF IInv, Variables
<1>2. (\A s \in Ios : count[s] <= wire[s])'
  BY DEF IInv
<1>3. ServerTotalExact'
  BY DEF Statistics, ServerTotalExact, SumFunction, Deltas, Live
<1> QED
  BY <1>1, <1>2, <1>3 DEF IInv, Statistics

\* What the bytes are backed by does not change with the sockets.
LEMMA BackedSame ==
  ASSUME UNCHANGED count, NEW c, NEW k
  PROVE  Backed(c, k) = Backed(c, k)'
  BY DEF Backed, Since

\* The time changes: nothing else depends on it.
LEMMA TimeInv ==
  ASSUME IInv, UpdateSystemTime
  PROVE  IInv'
<1>1. Variables'
  BY DEF IInv, Variables, UpdateSystemTime
<1>2. UNCHANGED <<kbps, wire, count, freed>>
  BY DEF UpdateSystemTime
<1> QED
  BY <1>1, <1>2 DEF IInv, Objects, Live, Backed, Since, ServerTotalExact

\* A socket moves bytes, and counts all of them or none.
LEMMA MoveInv ==
  ASSUME IInv, NEW s \in Ios, NEW n \in Nat, NEW m \in {0, n}, wire[s] + n <= MaxWire,
         wire' = [wire EXCEPT ![s] = @ + n], count' = [count EXCEPT ![s] = @ + m],
         UNCHANGED <<clock, kbps, freed>>
  PROVE  IInv'
<1>1. Variables /\ MaxWire \in Nat /\ m \in Nat /\ m <= n
  BY KbpsAssumption DEF IInv
<1>2. wire[s] \in Nat /\ count[s] \in Nat /\ count[s] <= wire[s]
  BY <1>1 DEF IInv, Variables
<1>3. wire' \in [Ios -> 0..MaxWire] /\ count' \in [Ios -> 0..MaxWire]
  BY <1>1, <1>2 DEF Variables
<1>4. Variables'
  BY <1>1, <1>3 DEF Variables
<1>5. (\A t \in Ios : count[t] <= wire[t])'
  <2> SUFFICES ASSUME NEW t \in Ios
               PROVE  count'[t] <= wire'[t]
    OBVIOUS
  <2>1. count[t] \in Nat /\ wire[t] \in Nat /\ count[t] <= wire[t]
    BY <1>1 DEF IInv, Variables
  <2>2. CASE t = s
    BY <1>1, <1>2, <2>2 DEF Variables
  <2>3. CASE t # s
    BY <1>1, <2>1, <2>3 DEF Variables
  <2> QED
    BY <2>2, <2>3
<1>6. Live' = Live /\ Live \subseteq Conns /\ Live \subseteq DOMAIN kbps
  BY DEF IInv, Objects, Live
<1>7. ASSUME NEW c \in Live
      PROVE  Backed(c, kbps[c])'
  <2> DEFINE k == kbps[c]
             before == SumFunctionOnSet(count, IosOf(c))
             after == SumFunctionOnSet(count', IosOf(c))
  <2>1. c \in Conns /\ InOrder(k) /\ Backed(c, k)
    BY <1>6 DEF IInv
  <2>2. k.bytes \in Nat /\ k.base \in Nat /\ k.last \in Nat
    BY <2>1 DEF InOrder, Slice
  <2>3. IsFiniteSet(IosOf(c)) /\ IosOf(c) \subseteq Ios /\ NoIo \notin IosOf(c)
    BY <2>1, IosOfFinite
  <2>4. \A t \in IosOf(c) : count[t] \in Int /\ count'[t] \in Int
    BY <1>1, <1>3, <2>3 DEF Variables
  <2>5. \A t \in IosOf(c) : t # s => count[t] = count'[t]
    BY <1>1, <2>3 DEF Variables
  <2>6. before \in Int
    BY <2>3, <2>4, SumInt
  <2>7. count'[s] = count[s] + m
    BY <1>1 DEF Variables
  <2>8. after = before + (IF s \in IosOf(c) THEN m ELSE 0)
    <3>1. CASE s \in IosOf(c)
      <4>1. after = before - count[s] + count'[s]
        <5> DEFINE f == count
                   g == count'
                   S == IosOf(c)
        <5>1. IsFiniteSet(S) /\ s \in S /\ \A t \in S : f[t] \in Int /\ g[t] \in Int
          BY <2>3, <2>4, <3>1
        <5>2. \A t \in S : t # s => f[t] = g[t]
          BY <2>5
        <5> HIDE DEF f, g, S
        <5>3. SumFunctionOnSet(g, S) = SumFunctionOnSet(f, S) - f[s] + g[s]
          BY <5>1, <5>2, SumChange
        <5> QED
          BY <5>3 DEF f, g, S
      <4> HIDE DEF before, after
      <4> QED
        BY <1>1, <1>2, <2>6, <2>7, <3>1, <4>1
    <3>2. CASE s \notin IosOf(c)
      <4>1. after = before
        BY <2>3, <2>5, <3>2, SumSame
      <4> HIDE DEF before, after
      <4> QED
        BY <2>6, <3>2, <4>1
    <3> QED
      BY <3>1, <3>2
  <2>9. k' = k
    OBVIOUS
  <2>10. /\ k.io \in IosOf(c) \cup {NoIo}
         /\ k.io = NoIo => k.base = 0 /\ k.last = 0
         /\ k.io # NoIo => k.last <= count[k.io]
         /\ k.bytes + Since(k) <= before
    BY <2>1 DEF Backed
  <2> HIDE DEF before, after, k
  <2>11. CASE k.io = NoIo
    <3>1. k.bytes <= before /\ before <= after
      BY <1>1, <2>2, <2>6, <2>8, <2>10, <2>11 DEF Since
    <3>2. k.bytes <= after
      BY <1>1, <2>2, <2>6, <2>8, <3>1
    <3> QED
      BY <2>2, <2>9, <2>10, <2>11, <3>2 DEF Backed, Since, after, k
  <2>12. CASE k.io # NoIo
    <3>1. k.io \in IosOf(c) /\ count[k.io] \in Nat /\ count'[k.io] \in Nat
      BY <1>1, <1>3, <2>3, <2>10, <2>12 DEF Variables
    <3>2. count'[k.io] = count[k.io] + (IF k.io = s THEN m ELSE 0)
      BY <2>5, <2>7, <3>1
    <3>3. k.last <= count'[k.io] /\ k.bytes + (count'[k.io] - k.base) <= after
      BY <1>1, <2>2, <2>6, <2>8, <2>10, <2>12, <3>1, <3>2 DEF Since
    <3> QED
      BY <2>9, <2>10, <2>12, <3>3 DEF Backed, Since, after, k
  <2> QED
    BY <2>11, <2>12
<1>8. ServerTotalExact'
  BY DEF IInv, ServerTotalExact, Live
<1>9. Objects'
  BY DEF IInv, Objects, Live
<1>10. (\A k \in DOMAIN kbps : InOrder(kbps[k]))' /\ (kbps[Server].io = NoIo)'
  BY DEF IInv
<1>11. (\A c \in Live : Backed(c, kbps[c]))'
  BY <1>6, <1>7
<1> QED
  BY <1>4, <1>5, <1>8, <1>9, <1>10, <1>11 DEF IInv

\* A read or a write that succeeds; one that fails half way.
LEMMA TransferInv ==
  ASSUME IInv, NEW s \in Ios, NEW n \in 1..MaxWire, Transfer(s, n)
  PROVE  IInv'
<1>1. n \in Nat /\ n \in {0, n}
  BY KbpsAssumption
<1> QED
  BY <1>1, MoveInv DEF Transfer

\* The bytes of a partial read are not counted.
LEMMA TransferPartInv ==
  ASSUME IInv, NEW s \in Ios, NEW n \in 1..MaxWire, TransferPart(s, n)
  PROVE  IInv'
<1>1. n \in Nat /\ 0 \in {0, n}
  BY KbpsAssumption
<1>2. count' = [count EXCEPT ![s] = @ + 0]
  BY DEF IInv, Variables, TransferPart
<1> QED
  BY <1>1, <1>2, MoveInv DEF TransferPart

\* One connection changes its slice, and hands nothing over.
LEMMA OneChanges ==
  ASSUME IInv, NEW c \in Live, NEW k, kbps' = [kbps EXCEPT ![c] = k],
         InOrder(k), Backed(c, k), k.delta = kbps[c].delta,
         UNCHANGED <<clock, wire, count, freed>>
  PROVE  IInv'
<1>1. c \in DOMAIN kbps /\ c # Server /\ Objects
  BY DEF IInv, Objects, Live
<1>2. DOMAIN kbps' = DOMAIN kbps /\ Live' = Live /\ Live \subseteq DOMAIN kbps
  BY DEF Live
<1>3. \A x \in DOMAIN kbps : kbps'[x] = IF x = c THEN k ELSE kbps[x]
  BY <1>1
<1>4. Objects'
  BY <1>1, <1>2 DEF Objects
<1>5. kbps'[Server] = kbps[Server]
  BY <1>1, <1>3 DEF Objects
<1>6. Deltas(kbps') = Deltas(kbps)
  BY <1>1, <1>2, <1>3, DeltasSame
<1>7. Total(kbps[Server]) = freed + Deltas(kbps)
  BY ExactIs DEF IInv
<1>8. \A x \in DOMAIN kbps' : InOrder(kbps'[x])
  BY <1>2, <1>3 DEF IInv
<1>9. \A x \in Live : Backed(x, kbps'[x])
  BY <1>2, <1>3 DEF IInv
<1>10. \A x \in Live : Backed(x, kbps[x])'
  BY <1>9 DEF Backed, Since
<1>11. Statistics'
  BY <1>2, <1>4, <1>5, <1>6, <1>7, <1>8, <1>10 DEF Statistics, IInv, Deltas
<1> QED
  BY <1>11, StatisticsInv DEF IInv, Variables

\* A connection samples.
LEMMA SampleInv ==
  ASSUME IInv, NEW c \in Conns, Sample(c)
  PROVE  IInv'
<1>1. c \in Live /\ c \in DOMAIN kbps
  BY DEF Sample, Live
<1>2. InOrder(kbps[c]) /\ Backed(c, kbps[c]) /\ Variables
  BY <1>1 DEF IInv
<1>3. InOrder(Sampled(kbps[c])) /\ Backed(c, Sampled(kbps[c]))
      /\ Sampled(kbps[c]).delta = kbps[c].delta
  BY <1>2, SampledBacked
<1>4. kbps' = [kbps EXCEPT ![c] = Sampled(kbps[c])]
  BY DEF Sample
<1> QED
  BY <1>1, <1>3, <1>4, OneChanges DEF Sample

\* A connection is given another io, or none.
LEMMA SetIoInv ==
  ASSUME IInv, NEW c \in Conns, NEW s \in IosOf(c) \cup {NoIo}, SetIo(c, s)
  PROVE  IInv'
<1>1. c \in Live /\ c \in DOMAIN kbps
  BY DEF SetIo, Live
<1>2. InOrder(kbps[c]) /\ Backed(c, kbps[c]) /\ Variables
  BY <1>1 DEF IInv
<1>3. InOrder(WithIo(kbps[c], s)) /\ Backed(c, WithIo(kbps[c], s))
      /\ WithIo(kbps[c], s).delta = kbps[c].delta
  BY <1>2, WithIoBacked
<1>4. kbps' = [kbps EXCEPT ![c] = WithIo(kbps[c], s)]
  BY DEF SetIo
<1> QED
  BY <1>1, <1>3, <1>4, OneChanges DEF SetIo

\* A connection is accepted: it has handed over nothing.
LEMMA ConnectInv ==
  ASSUME IInv, NEW c \in Conns, NEW s \in IosOf(c), Connect(c, s)
  PROVE  IInv'
<1> DEFINE k == WithIo(NewSlice, s)
<1>1. c \notin Live /\ c # Server /\ c \notin DOMAIN kbps /\ Objects /\ Variables
  BY KbpsAssumption DEF IInv, Live, Connect
<1>2. kbps' = [x \in DOMAIN kbps \cup {c} |-> IF x = c THEN k ELSE kbps[x]]
      /\ UNCHANGED <<clock, wire, count, freed>>
  BY DEF Connect
<1>3. InOrder(k) /\ Backed(c, k) /\ k.delta = 0
  BY <1>1, NewBacked, NewSliceInOrder, WithIoBacked
<1> HIDE DEF k
<1>4. DOMAIN kbps' = DOMAIN kbps \cup {c} /\ Live' = Live \cup {c} /\ Live' \ {c} = Live
      /\ Live \subseteq DOMAIN kbps
  BY <1>1, <1>2 DEF Live
<1>5. \A x \in DOMAIN kbps : kbps'[x] = kbps[x]
  BY <1>1, <1>2
<1>6. kbps'[c] = k
  BY <1>2
<1>7. Objects'
  BY <1>1, <1>4, FS_AddElement DEF Objects
<1>8. Deltas(kbps') = Deltas(kbps)
  <2> DEFINE f == [x \in Live |-> kbps[x].delta]
             g == [x \in Live' |-> kbps'[x].delta]
  <2>1. Deltas(kbps) = SumFunctionOnSet(f, Live) /\ Deltas(kbps') = SumFunctionOnSet(g, Live')
    BY DEF Deltas, Live
  <2>2. \A x \in Live : f[x] \in Nat /\ f[x] = g[x]
    BY <1>4, <1>5 DEF IInv, InOrder, Slice
  <2>3. g[c] = 0 /\ c \in Live'
    BY <1>3, <1>4, <1>6
  <2>4. IsFiniteSet(Live) /\ IsFiniteSet(Live')
    BY <1>1, <1>7 DEF Objects
  <2> HIDE DEF f, g
  <2>5. \A x \in Live' : g[x] \in Int
    BY <1>4, <2>2, <2>3
  <2>6. SumFunctionOnSet(g, Live') = g[c] + SumFunctionOnSet(g, Live' \ {c})
    BY <2>3, <2>4, <2>5, SumRemove
  <2>7. SumFunctionOnSet(f, Live) = SumFunctionOnSet(g, Live)
    BY <2>2, <2>4, SumSame
  <2>8. SumFunctionOnSet(f, Live) \in Nat
    BY <2>2, <2>4, SumNat
  <2>9. SumFunctionOnSet(g, Live' \ {c}) = SumFunctionOnSet(g, Live)
    BY <1>4
  <2> QED
    BY <2>1, <2>3, <2>6, <2>7, <2>8, <2>9
<1>9. Total(kbps[Server]) = freed + Deltas(kbps)
  BY ExactIs DEF IInv
<1>10. kbps'[Server] = kbps[Server]
  BY <1>1, <1>5 DEF Objects
<1>11. \A x \in DOMAIN kbps' : InOrder(kbps'[x])
  BY <1>3, <1>4, <1>5, <1>6 DEF IInv
<1>12. \A x \in Live' : Backed(x, kbps'[x])
  BY <1>3, <1>4, <1>5, <1>6 DEF IInv
<1>13. (\A x \in Live : Backed(x, kbps[x]))'
  BY <1>2, <1>12 DEF Backed, Since
<1>14. Statistics'
  BY <1>2, <1>7, <1>8, <1>9, <1>10, <1>11, <1>13 DEF Statistics, IInv, Deltas
<1> QED
  BY <1>2, <1>14, StatisticsInv DEF IInv, Variables

\* All connections are resampled.
LEMMA ResampleAllInv ==
  ASSUME IInv, ResampleAll
  PROVE  IInv'
<1> DEFINE n == ResampleKbps(Live)
<1>1. kbps' = n /\ UNCHANGED <<clock, wire, count, freed>>
  BY DEF ResampleAll
<1>2. /\ DOMAIN n = DOMAIN kbps
      /\ \A k \in DOMAIN n : InOrder(n[k])
      /\ n[Server].io = NoIo
      /\ \A c \in Live : Backed(c, n[c])
      /\ Total(n[Server]) = freed + Deltas(n)
  BY Resampled
<1> HIDE DEF n
<1>3. Live' = Live
  BY <1>1, <1>2 DEF Live
<1>4. Objects'
  BY <1>1, <1>2, <1>3 DEF IInv, Objects
<1>5. (\A c \in Live : Backed(c, kbps[c]))'
  BY <1>1, <1>2, <1>3 DEF Backed, Since
<1>6. Statistics'
  BY <1>1, <1>2, <1>4, <1>5 DEF Statistics, Deltas
<1> QED
  BY <1>1, <1>6, StatisticsInv DEF IInv, Variables

\* A connection is resampled and freed: all it had is the server's.
LEMMA RemoveInv ==
  ASSUME IInv, NEW c \in Conns, Remove(c)
  PROVE  IInv'
<1> DEFINE n == ResampleKbps({c})
<1>1. /\ c \in Live /\ kbps' = [k \in DOMAIN kbps \ {c} |-> n[k]]
      /\ freed' = freed + Total(n[c]) /\ UNCHANGED <<clock, wire, count>>
  BY DEF Remove
<1>2. /\ DOMAIN n = DOMAIN kbps
      /\ \A k \in DOMAIN n : InOrder(n[k])
      /\ n[Server].io = NoIo
      /\ \A x \in Live : Backed(x, n[x])
      /\ n[c].delta = Total(n[c])
      /\ Total(n[Server]) = freed + Deltas(n)
  BY <1>1, Resampled
<1> HIDE DEF n
<1>3. c \in DOMAIN n /\ c # Server /\ Server \in DOMAIN n /\ Objects /\ Live \subseteq DOMAIN n
  BY <1>1, <1>2 DEF IInv, Objects, Live
<1>4. DOMAIN kbps' = DOMAIN kbps \ {c} /\ Live' = Live \ {c}
  BY <1>1 DEF Live
<1>5. \A k \in DOMAIN kbps' : kbps'[k] = n[k]
  BY <1>1
<1>6. Objects'
  BY <1>3, <1>4, FS_RemoveElement DEF Objects
<1>7. Total(n[c]) \in Nat /\ freed \in Nat
  BY <1>2, <1>3, TotalType DEF IInv, Variables
<1>8. Deltas(n) = Total(n[c]) + Deltas(kbps') /\ Deltas(kbps') \in Int
  <2> DEFINE f == [x \in Live |-> n[x].delta]
             g == [x \in Live' |-> kbps'[x].delta]
  <2>1. Deltas(n) = SumFunctionOnSet(f, Live) /\ Deltas(kbps') = SumFunctionOnSet(g, Live')
    BY <1>2 DEF Deltas, Live
  <2>2. \A x \in Live : f[x] \in Int
    BY <1>2, <1>3 DEF InOrder, Slice
  <2>3. \A x \in Live' : f[x] = g[x]
    BY <1>4, <1>5 DEF Live
  <2>4. IsFiniteSet(Live) /\ IsFiniteSet(Live')
    BY <1>3, <1>6 DEF Objects
  <2>5. f[c] = Total(n[c])
    BY <1>1, <1>2
  <2> HIDE DEF f, g
  <2>6. SumFunctionOnSet(f, Live) = f[c] + SumFunctionOnSet(f, Live \ {c})
    BY <1>1, <2>2, <2>4, SumRemove
  <2>7. SumFunctionOnSet(f, Live') = SumFunctionOnSet(g, Live')
    BY <2>3, <2>4, SumSame
  <2>8. SumFunctionOnSet(f, Live') \in Int
    BY <1>4, <2>2, <2>4, SumInt
  <2> QED
    BY <1>4, <2>1, <2>5, <2>6, <2>7, <2>8
<1>9. Total(n[Server]) = freed' + Deltas(kbps')
  BY <1>1, <1>2, <1>7, <1>8
<1>10. kbps'[Server] = n[Server]
  BY <1>2, <1>3, <1>4, <1>5
<1>11. \A k \in DOMAIN kbps' : InOrder(kbps'[k])
  BY <1>2, <1>4, <1>5
<1>12. \A x \in Live' : Backed(x, kbps'[x])
  BY <1>2, <1>4, <1>5 DEF Live
<1>16. UNCHANGED count
  BY <1>1
<1>13. (\A x \in Live : Backed(x, kbps[x]))'
  BY <1>12, <1>16 DEF Backed, Since
<1>14. Statistics'
  BY <1>2, <1>6, <1>9, <1>10, <1>11, <1>13 DEF Statistics, Deltas
<1>15. freed' \in Nat
  BY <1>1, <1>7
<1> QED
  BY <1>1, <1>14, <1>15, StatisticsInv

\* Every step keeps the invariant.
LEMMA NextInv == IInv /\ [Next]_vars => IInv'
<1> SUFFICES ASSUME IInv, [Next]_vars
             PROVE  IInv'
  OBVIOUS
<1>1. CASE UpdateSystemTime
  BY <1>1, TimeInv
<1>2. CASE ResampleAll
  BY <1>2, ResampleAllInv
<1>3. ASSUME NEW c \in Conns, Sample(c)
      PROVE  IInv'
  BY <1>3, SampleInv
<1>4. ASSUME NEW c \in Conns, Remove(c)
      PROVE  IInv'
  BY <1>4, RemoveInv
<1>5. ASSUME NEW c \in Conns, NEW s \in IosOf(c), Connect(c, s)
      PROVE  IInv'
  BY <1>5, ConnectInv
<1>6. ASSUME NEW c \in Conns, NEW s \in IosOf(c) \cup {NoIo}, SetIo(c, s)
      PROVE  IInv'
  BY <1>6, SetIoInv
<1>7. ASSUME NEW s \in Ios, NEW n \in 1..MaxWire, Transfer(s, n)
      PROVE  IInv'
  BY <1>7, TransferInv
<1>8. ASSUME NEW s \in Ios, NEW n \in 1..MaxWire, TransferPart(s, n)
      PROVE  IInv'
  BY <1>8, TransferPartInv
<1>9. CASE UNCHANGED vars
  BY <1>9 DEF vars, IInv, Variables, Objects, Live, Backed, Since, ServerTotalExact
<1> QED
  BY <1>1, <1>2, <1>3, <1>4, <1>5, <1>6, <1>7, <1>8, <1>9 DEF Next

-----------------------------------------------------------------------------
\* What the invariant says of a state.
LEMMA InvType == IInv => TypeOK
<1> SUFFICES ASSUME IInv
             PROVE  TypeOK
  OBVIOUS
<1>1. Variables /\ Objects /\ \A k \in DOMAIN kbps : kbps[k] \in Slice
  BY DEF IInv, InOrder
<1> QED
  BY <1>1 DEF TypeOK, Variables, Objects

\* The bytes of a connection that lives passed through its sockets, and it handed over
\* no more than it has.
LEMMA InvCounted == IInv => CountedOnce
<1> SUFFICES ASSUME IInv, NEW c \in Live
             PROVE  /\ Total(kbps[c]) <= SumFunctionOnSet(wire, IosOf(c))
                    /\ kbps[c].delta <= Total(kbps[c])
  BY DEF CountedOnce
<1>1. c \in Conns /\ c \in DOMAIN kbps /\ Variables
  BY DEF IInv, Objects, Live
<1>2. InOrder(kbps[c]) /\ Backed(c, kbps[c])
  BY <1>1 DEF IInv
<1>3. Total(kbps[c]) <= SumFunctionOnSet(count, IosOf(c)) /\ Total(kbps[c]) \in Nat
  BY <1>1, <1>2, TotalBacked, TotalType
<1>4. IsFiniteSet(IosOf(c)) /\ IosOf(c) \subseteq Ios
  BY <1>1, IosOfFinite
<1>5. \A s \in IosOf(c) : count[s] \in Int /\ wire[s] \in Int /\ count[s] <= wire[s]
  BY <1>1, <1>4 DEF IInv, Variables
<1>6. SumFunctionOnSet(count, IosOf(c)) <= SumFunctionOnSet(wire, IosOf(c))
  BY <1>4, <1>5, SumMonotone
<1>7. SumFunctionOnSet(count, IosOf(c)) \in Int /\ SumFunctionOnSet(wire, IosOf(c)) \in Int
  BY <1>4, <1>5, SumInt
<1>8. kbps[c].delta <= Total(kbps[c])
  BY <1>2 DEF InOrder
<1> QED
  BY <1>3, <1>6, <1>7, <1>8

\* A slice in order has sane rates, the average one included.
LEMMA InvRates == IInv => RatesSane
<1> SUFFICES ASSUME IInv, NEW k \in DOMAIN kbps, Total(kbps[k]) * 8 < RateLimit
             PROVE  /\ AverageKbps(kbps[k]) >= 0
                    /\ \A w \in Windows : kbps[k].samples[w].kbps >= 0
  BY DEF RatesSane
<1> DEFINE n == kbps[k]
<1>1. InOrder(n) /\ n.starttime \in Nat /\ clock \in Nat /\ Total(n) \in Nat
  BY TotalType DEF IInv, Variables, InOrder, Slice
<1>2. CASE clock - n.starttime <= 0
  BY <1>1, <1>2 DEF AverageKbps, InOrder
<1>3. CASE ~(clock - n.starttime <= 0)
  <2>1. clock - n.starttime \in Nat \ {0}
    BY <1>1, <1>3
  <2>2. Kbits(Total(n), clock - n.starttime) >= 0
    BY <1>1, <2>1, KbitsType
  <2> QED
    BY <1>1, <1>3, <2>2 DEF AverageKbps, InOrder
<1> QED
  BY <1>2, <1>3

\* No step takes back a byte from an object that lives on.
LEMMA NextMonotone ==
  ASSUME IInv, Next, NEW k \in DOMAIN kbps \cap DOMAIN kbps'
  PROVE  Total(kbps'[k]) >= Total(kbps[k])
<1>1. InOrder(kbps[k]) /\ Total(kbps[k]) \in Nat /\ Variables
  BY TotalType DEF IInv
<1>2. k \in Live => k \in Conns /\ Backed(k, kbps[k])
  BY DEF IInv, Objects, Live
<1>3. CASE UNCHANGED kbps
  BY <1>1, <1>3
<1>4. CASE ResampleAll
  BY <1>4, Resampled DEF ResampleAll
<1>5. ASSUME NEW c \in Conns, Sample(c)
      PROVE  Total(kbps'[k]) >= Total(kbps[k])
  <2>1. kbps'[k] = IF k = c THEN Sampled(kbps[c]) ELSE kbps[k]
    BY <1>5 DEF Sample
  <2>2. k = c => Total(Sampled(kbps[c])) >= Total(kbps[c])
    BY <1>1, <1>2, <1>5, SampledBacked DEF Sample
  <2> QED
    BY <1>1, <2>1, <2>2
<1>6. ASSUME NEW c \in Conns, Remove(c)
      PROVE  Total(kbps'[k]) >= Total(kbps[k])
  <2>1. {c} \in SUBSET Live
    BY <1>6 DEF Remove
  <2>2. kbps'[k] = ResampleKbps({c})[k]
    BY <1>6 DEF Remove
  <2> QED
    BY <2>1, <2>2, Resampled
<1>7. ASSUME NEW c \in Conns, NEW s \in IosOf(c), Connect(c, s)
      PROVE  Total(kbps'[k]) >= Total(kbps[k])
  <2>1. c # k
    BY <1>7, KbpsAssumption DEF Connect, Live
  <2>2. kbps'[k] = kbps[k]
    BY <1>7, <2>1 DEF Connect
  <2> QED
    BY <1>1, <2>2
<1>8. ASSUME NEW c \in Conns, NEW s \in IosOf(c) \cup {NoIo}, SetIo(c, s)
      PROVE  Total(kbps'[k]) >= Total(kbps[k])
  <2>1. kbps'[k] = IF k = c THEN WithIo(kbps[c], s) ELSE kbps[k]
    BY <1>8 DEF SetIo
  <2>2. k = c => Total(WithIo(kbps[c], s)) = Total(kbps[c])
    BY <1>1, <1>2, <1>8, WithIoBacked DEF SetIo
  <2> QED
    BY <1>1, <2>1, <2>2
<1> QED
  BY <1>3, <1>4, <1>5, <1>6, <1>7, <1>8
     DEF Next, UpdateSystemTime, Transfer, TransferPart

-----------------------------------------------------------------------------
\* The invariant holds of every state: no slice, whatever its sessions, samples and
\* resamplings, is out of order (app_kbps.cpp).
THEOREM IInvAlways == Spec => []IInv
<1>1. Init => IInv
  BY InitInv
<1>2. IInv /\ [Next]_vars => IInv'
  BY NextInv
<1> QED
  BY <1>1, <1>2, PTL DEF Spec

\* Every variable keeps its type; no byte count is negative.
THEOREM TypeCorrect == Spec => []TypeOK
BY IInvAlways, InvType, PTL

\* The server's total is what the connections handed over, each byte once, for any
\* number of connections (SrsServer::resample_kbps, SrsServer::remove).
THEOREM ServerTotalAlways == Spec => []ServerTotalExact
<1>1. IInv => ServerTotalExact
  BY DEF IInv
<1> QED
  BY <1>1, IInvAlways, PTL

\* A connection never reports a byte that did not pass through one of its sockets, nor
\* one twice (SrsKbps::set_io), and hands over no more than it has.
THEOREM CountedOnceAlways == Spec => []CountedOnce
BY IInvAlways, InvCounted, PTL

\* No rate is negative before the bits of a total no longer fit an int
\* (SrsKbpsSlice::sample, SrsKbps::get_recv_kbps).
THEOREM RatesSaneAlways == Spec => []RatesSane
BY IInvAlways, InvRates, PTL

\* No total decreases while its object lives (SrsKbps::set_io, SrsKbps::sample).
THEOREM TotalsMonotoneAlways == Spec => TotalsMonotone
<1>1. IInv /\ [Next]_vars
        => [\A k \in DOMAIN kbps \cap DOMAIN kbps' :
               Total(kbps'[k]) >= Total(kbps[k])]_vars
  BY NextMonotone
<1> QED
  BY <1>1, IInvAlways, PTL DEF Spec, TotalsMonotone
=============================================================================
