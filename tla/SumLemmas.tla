------------------------------ MODULE SumLemmas -------------------------------
(***************************************************************************)
(* Sums of a function over a finite set, as MapThenSumSet computes them:   *)
(* it takes some element, adds its value and goes on with the others.      *)
(* That this defines a number, and that the order of the elements does not *)
(* matter, is proved from the least element of a set of naturals and a     *)
(* minimal set among subsets of a finite set.                              *)
(***************************************************************************)
EXTENDS Integers, FiniteSets, FiniteSetsExt, FiniteSetTheorems, WellFoundedInduction, TLAPS

SumOf(f, S) == MapThenSumSet(LAMBDA x : f[x], S)

\* The element that is taken first, and the recursion over the subsets of S.
Taken(s) == CHOOSE x \in s : TRUE
Rest(s)  == s \ {Taken(s)}
Adds(f, S, it) == it = [s \in SUBSET S |-> IF s = {} THEN 0 ELSE f[Taken(s)] + it[Rest(s)]]

-----------------------------------------------------------------------------
LEMMA LeastNatural ==
  ASSUME NEW T \in SUBSET Nat, T # {}
  PROVE  \E n \in T : \A m \in T : n <= m
<1>1. PICK n \in T : \A m \in T : ~(<<m, n>> \in OpToRel(<, Nat))
  BY NatLessThanWellFounded, WFMin
<1>2. \A m \in T : ~(m < n)
  BY <1>1 DEF OpToRel
<1> QED  BY <1>2

LEMMA MinimalSubset ==
  ASSUME NEW S, IsFiniteSet(S), NEW T \in SUBSET (SUBSET S), T # {}
  PROVE  \E s \in T : \A t \in T : t \subseteq s => t = s
<1>1. IsWellFoundedOn(StrictSubsetOrdering(S), SUBSET S)
  BY FS_StrictSubsetOrderingWellFounded, FS_FiniteSubsetsOfFinite
<1>2. PICK s \in T : \A t \in T : ~(<<t, s>> \in StrictSubsetOrdering(S))
  BY <1>1, WFMin
<1> QED  BY <1>2 DEF StrictSubsetOrdering

LEMMA RestSmaller ==
  ASSUME NEW s, s # {}
  PROVE  Taken(s) \in s /\ Rest(s) \subseteq s /\ Rest(s) # s
BY DEF Taken, Rest

-----------------------------------------------------------------------------
\* The recursion has a solution: on sets of at most n elements for every n.
LEMMA SumExists ==
  ASSUME NEW S, IsFiniteSet(S), NEW f, \A x \in S : f[x] \in Nat
  PROVE  \E it \in [SUBSET S -> Nat] : Adds(f, S, it)
<1> DEFINE Value(it, s) == IF s = {} THEN 0 ELSE f[Taken(s)] + it[Rest(s)]
           Upto(n) == {it \in [SUBSET S -> Nat] :
                         \A s \in SUBSET S : Cardinality(s) <= n => it[s] = Value(it, s)}
<1>1. \A s \in SUBSET S : IsFiniteSet(s) /\ Cardinality(s) \in Nat
  BY FS_Subset, FS_CardinalityType
<1>2. \A s \in SUBSET S : s # {} => Rest(s) \in SUBSET S /\ Cardinality(Rest(s)) = Cardinality(s) - 1
  BY <1>1, RestSmaller, FS_RemoveElement DEF Rest
<1>3. ASSUME NEW it \in [SUBSET S -> Nat], NEW s \in SUBSET S PROVE Value(it, s) \in Nat
  <2>1. s # {} => f[Taken(s)] \in Nat /\ it[Rest(s)] \in Nat
    BY RestSmaller, <1>2
  <2> QED  BY <2>1
<1>4. Upto(0) # {}
  <2> DEFINE zero == [s \in SUBSET S |-> 0]
  <2>1. \A s \in SUBSET S : Cardinality(s) <= 0 => s = {}
    BY <1>1, FS_EmptySet
  <2>2. zero \in Upto(0)
    BY <2>1
  <2> QED  BY <2>2
<1>5. ASSUME NEW n \in Nat, Upto(n) # {} PROVE Upto(n + 1) # {}
  <2>1. PICK it \in [SUBSET S -> Nat] : \A s \in SUBSET S : Cardinality(s) <= n => it[s] = Value(it, s)
    BY <1>5
  <2> DEFINE next == [s \in SUBSET S |-> Value(it, s)]
  <2>2. next \in [SUBSET S -> Nat]
    BY <1>3
  <2>3. ASSUME NEW s \in SUBSET S, Cardinality(s) <= n + 1 PROVE next[s] = Value(next, s)
    <3>1. CASE s = {}
      BY <3>1
    <3>2. CASE s # {}
      <4>1. Rest(s) \in SUBSET S /\ Cardinality(Rest(s)) <= n
        BY <1>1, <1>2, <2>3, <3>2
      <4>2. next[Rest(s)] = it[Rest(s)]
        BY <2>1, <4>1
      <4> QED  BY <3>2, <4>2
    <3> QED  BY <3>1, <3>2
  <2>4. next \in Upto(n + 1)
    BY <2>2, <2>3
  <2> QED  BY <2>4
<1>6. Upto(Cardinality(S)) # {}
  <2> DEFINE Missing == {n \in Nat : Upto(n) = {}}
  <2> HIDE DEF Upto
  <2>1. SUFFICES ASSUME Missing # {} PROVE FALSE
    BY <1>1
  <2>2. PICK n \in Missing : \A m \in Missing : n <= m
    BY <2>1, LeastNatural
  <2>3. n # 0 /\ n \in Nat
    BY <1>4, <2>2
  <2>4. n - 1 \in Nat /\ n - 1 \notin Missing
    BY <2>2, <2>3
  <2>5. Upto(n - 1) # {}
    BY <2>4
  <2>6. Upto((n - 1) + 1) # {}
    BY <2>4, <2>5, <1>5
  <2> QED  BY <2>2, <2>3, <2>6
<1>7. PICK it \in [SUBSET S -> Nat] :
        \A s \in SUBSET S : Cardinality(s) <= Cardinality(S) => it[s] = Value(it, s)
  BY <1>6
<1>8. \A s \in SUBSET S : it[s] = Value(it, s)
  BY <1>7, FS_Subset, FS_CardinalityType
<1>9. it = [s \in SUBSET S |-> Value(it, s)]
  BY <1>7, <1>8
<1> QED  BY <1>9 DEF Adds

\* It has one, also when it is computed over a smaller set.
LEMMA SumUnique ==
  ASSUME NEW S, IsFiniteSet(S), NEW R \in SUBSET S, NEW f,
         NEW a, NEW b, Adds(f, S, a), Adds(f, R, b)
  PROVE  a[R] = b[R]
<1> DEFINE Differ == {s \in SUBSET R : a[s] # b[s]}
<1>1. SUFFICES ASSUME Differ # {} PROVE FALSE
  OBVIOUS
<1>2. IsFiniteSet(R)
  BY FS_Subset
<1>3. PICK s \in Differ : \A t \in Differ : t \subseteq s => t = s
  <2>1. Differ \in SUBSET (SUBSET R)
    OBVIOUS
  <2> HIDE DEF Differ
  <2> QED  BY <1>1, <1>2, <2>1, MinimalSubset
<1>4. s # {} => a[Rest(s)] = b[Rest(s)]
  BY <1>3, RestSmaller
<1> QED  BY <1>3, <1>4 DEF Adds

LEMMA SumIs ==
  ASSUME NEW S, IsFiniteSet(S), NEW f, \A x \in S : f[x] \in Nat,
         NEW it, Adds(f, S, it)
  PROVE  SumOf(f, S) = it[S] /\ it[S] \in Nat
<1>1. SumOf(f, S) = (CHOOSE any : Adds(f, S, any))[S]
  BY DEF SumOf, MapThenSumSet, MapThenFoldSet, Taken, Rest, Adds
<1>2. Adds(f, S, CHOOSE any : Adds(f, S, any))
  OBVIOUS
<1>3. PICK typed \in [SUBSET S -> Nat] : Adds(f, S, typed)
  BY SumExists
<1> QED  BY <1>1, <1>2, <1>3, SumUnique

-----------------------------------------------------------------------------
LEMMA SumNat ==
  ASSUME NEW S, IsFiniteSet(S), NEW f, \A x \in S : f[x] \in Nat
  PROVE  SumOf(f, S) \in Nat
BY SumExists, SumIs

LEMMA SumEmpty == ASSUME NEW f PROVE SumOf(f, {}) = 0
<1>1. PICK it : Adds(f, {}, it)
  BY SumExists, FS_EmptySet
<1>2. SumOf(f, {}) = it[{}]
  BY <1>1, SumIs, FS_EmptySet
<1> QED  BY <1>1, <1>2 DEF Adds

LEMMA SumTaken ==
  ASSUME NEW S, IsFiniteSet(S), NEW f, \A x \in S : f[x] \in Nat, S # {}
  PROVE  SumOf(f, S) = f[Taken(S)] + SumOf(f, Rest(S))
<1>1. IsFiniteSet(Rest(S)) /\ Rest(S) \in SUBSET S
  BY RestSmaller, FS_Subset
<1>2. PICK a : Adds(f, S, a)
  BY SumExists
<1>3. PICK b : Adds(f, Rest(S), b)
  BY <1>1, SumExists
<1>4. SumOf(f, S) = a[S] /\ SumOf(f, Rest(S)) = b[Rest(S)]
  BY <1>1, <1>2, <1>3, SumIs
<1>5. a[Rest(S)] = b[Rest(S)]
  BY <1>1, <1>2, <1>3, SumUnique
<1> QED  BY <1>2, <1>4, <1>5 DEF Adds

\* Any element may be taken first.
LEMMA SumRemove ==
  ASSUME NEW S, IsFiniteSet(S), NEW f, \A x \in S : f[x] \in Nat, NEW x \in S
  PROVE  SumOf(f, S) = f[x] + SumOf(f, S \ {x})
<1> DEFINE Wrong == {s \in SUBSET S : \E y \in s : SumOf(f, s) # f[y] + SumOf(f, s \ {y})}
<1>1. SUFFICES ASSUME Wrong # {} PROVE FALSE
  OBVIOUS
<1>2. PICK s \in Wrong : \A t \in Wrong : t \subseteq s => t = s
  <2>1. Wrong \in SUBSET (SUBSET S)
    OBVIOUS
  <2> HIDE DEF Wrong
  <2> QED  BY <1>1, <2>1, MinimalSubset
<1>3. PICK y \in s : SumOf(f, s) # f[y] + SumOf(f, s \ {y})
  BY <1>2
<1>4. \A t \in SUBSET S : IsFiniteSet(t) /\ SumOf(f, t) \in Nat
  BY FS_Subset, SumNat
<1>5. SumOf(f, s) = f[Taken(s)] + SumOf(f, s \ {Taken(s)})
  BY <1>3, <1>4, SumTaken DEF Rest
<1>6. Taken(s) \in s /\ Taken(s) # y
  BY <1>3, <1>5, RestSmaller
<1> DEFINE z == Taken(s)
<1> HIDE DEF z
<1>7. z \in s /\ z # y /\ SumOf(f, s) = f[z] + SumOf(f, s \ {z})
  BY <1>5, <1>6 DEF z
<1>8. SumOf(f, s \ {z}) = f[y] + SumOf(f, (s \ {z}) \ {y})
  BY <1>2, <1>3, <1>7
<1>9. SumOf(f, s \ {y}) = f[z] + SumOf(f, (s \ {y}) \ {z})
  BY <1>2, <1>3, <1>7
<1>10. (s \ {z}) \ {y} = (s \ {y}) \ {z}
  OBVIOUS
<1>11. /\ f[y] \in Nat /\ f[z] \in Nat
       /\ SumOf(f, (s \ {y}) \ {z}) \in Nat
  BY <1>3, <1>4, <1>7
<1> QED  BY <1>3, <1>7, <1>8, <1>9, <1>10, <1>11

LEMMA SumAdd ==
  ASSUME NEW S, IsFiniteSet(S), NEW f, NEW x, x \notin S,
         \A y \in S \cup {x} : f[y] \in Nat
  PROVE  SumOf(f, S \cup {x}) = f[x] + SumOf(f, S)
<1>1. IsFiniteSet(S \cup {x}) /\ (S \cup {x}) \ {x} = S
  BY FS_AddElement
<1> QED  BY <1>1, SumRemove

LEMMA SumSubset ==
  ASSUME NEW S, IsFiniteSet(S), NEW f, \A x \in S : f[x] \in Nat, NEW R \in SUBSET S
  PROVE  SumOf(f, R) <= SumOf(f, S)
<1> DEFINE Wrong == {s \in SUBSET S : \E r \in SUBSET s : ~(SumOf(f, r) <= SumOf(f, s))}
<1>1. SUFFICES ASSUME Wrong # {} PROVE FALSE
  OBVIOUS
<1>2. PICK s \in Wrong : \A t \in Wrong : t \subseteq s => t = s
  <2>1. Wrong \in SUBSET (SUBSET S)
    OBVIOUS
  <2> HIDE DEF Wrong
  <2> QED  BY <1>1, <2>1, MinimalSubset
<1>3. PICK r \in SUBSET s : ~(SumOf(f, r) <= SumOf(f, s))
  BY <1>2
<1>4. \A t \in SUBSET S : IsFiniteSet(t) /\ SumOf(f, t) \in Nat
  BY FS_Subset, SumNat
<1>5. r # s
  BY <1>3, <1>4
<1>6. PICK x \in s : x \notin r
  BY <1>5
<1>7. SumOf(f, r) <= SumOf(f, s \ {x})
  BY <1>2, <1>6
<1>8. SumOf(f, s) = f[x] + SumOf(f, s \ {x})
  BY <1>4, SumRemove
<1> QED  BY <1>3, <1>4, <1>7, <1>8

\* A sum depends on the values at the elements only.
LEMMA SumSame ==
  ASSUME NEW S, IsFiniteSet(S), NEW f, NEW g, \A x \in S : f[x] \in Nat /\ g[x] = f[x]
  PROVE  SumOf(f, S) = SumOf(g, S)
<1> DEFINE Wrong == {s \in SUBSET S : SumOf(f, s) # SumOf(g, s)}
<1>1. SUFFICES ASSUME Wrong # {} PROVE FALSE
  OBVIOUS
<1>2. PICK s \in Wrong : \A t \in Wrong : t \subseteq s => t = s
  <2>1. Wrong \in SUBSET (SUBSET S)
    OBVIOUS
  <2> HIDE DEF Wrong
  <2> QED  BY <1>1, <2>1, MinimalSubset
<1>3. s # {}
  BY <1>2, SumEmpty
<1>4. SumOf(f, s \ {Taken(s)}) = SumOf(g, s \ {Taken(s)}) /\ Taken(s) \in s
  BY <1>2, <1>3, RestSmaller DEF Rest
<1>5. IsFiniteSet(s)
  BY FS_Subset
<1> QED  BY <1>2, <1>3, <1>4, <1>5, SumTaken DEF Rest

LEMMA SumZero ==
  ASSUME NEW S, IsFiniteSet(S), NEW f, \A x \in S : f[x] = 0
  PROVE  SumOf(f, S) = 0
<1> DEFINE Wrong == {s \in SUBSET S : SumOf(f, s) # 0}
<1>1. SUFFICES ASSUME Wrong # {} PROVE FALSE
  OBVIOUS
<1>2. PICK s \in Wrong : \A t \in Wrong : t \subseteq s => t = s
  <2>1. Wrong \in SUBSET (SUBSET S)
    OBVIOUS
  <2> HIDE DEF Wrong
  <2> QED  BY <1>1, <2>1, MinimalSubset
<1>3. s # {} /\ IsFiniteSet(s)
  BY <1>2, SumEmpty, FS_Subset
<1>4. SumOf(f, Rest(s)) = 0 /\ Taken(s) \in s
  BY <1>2, <1>3, RestSmaller
<1> QED  BY <1>2, <1>3, <1>4, SumTaken
=============================================================================
