----------------------------- MODULE FiniteSums -----------------------------
(***************************************************************************)
(* Sums over finite sets, as MapThenSumSet computes them, and induction.   *)
(* A sum is a recursive function over the subsets of its set, so that it   *)
(* has to be shown that there is such a function, and that the elements    *)
(* may be taken in any order.                                              *)
(*                                                                         *)
(* Induction is over the members of a set, and not for a predicate: a set  *)
(* of numbers that holds 0 and, with each number, the next one, holds them *)
(* all.                                                                    *)
(***************************************************************************)
EXTENDS Integers, FiniteSetsExt, FiniteSetTheorems, WellFoundedInduction, TLAPS

\* The sum of f over S.
Sum(f, S) == MapThenSumSet(LAMBDA x : f[x], S)

-----------------------------------------------------------------------------
(* Induction *)

LEMMA Induction ==
    ASSUME NEW P \in SUBSET Nat, 0 \in P, \A n \in P : n + 1 \in P
    PROVE  P = Nat
  <1> SUFFICES ASSUME Nat \ P # {} PROVE FALSE
    OBVIOUS
  <1>1. PICK k \in Nat \ P : \A j \in Nat \ P : ~(<<j, k>> \in OpToRel(<, Nat))
    BY NatLessThanWellFounded, WFMin, Nat \ P \subseteq Nat
  <1>2. k - 1 \in Nat
    OBVIOUS
  <1>3. <<k - 1, k>> \in OpToRel(<, Nat)
    BY <1>2 DEF OpToRel
  <1>4. k - 1 \in P
    BY <1>1, <1>2, <1>3
  <1> QED BY <1>2, <1>4

-----------------------------------------------------------------------------
(* The recursive function *)

Pick(s) == CHOOSE x \in s : TRUE

\* One unfolding of the sum of s, where g gives the sums of smaller sets.
Unfold(f, g, s) == IF s = {} THEN 0 ELSE f[Pick(s)] + g[s \ {Pick(s)}]

Iterates(f, g, S) == g = [s \in SUBSET S |-> Unfold(f, g, s)]

LEMMA SumIsIterate == \A f, S : Sum(f, S) = (CHOOSE g : Iterates(f, g, S))[S]
  BY DEF Sum, MapThenSumSet, MapThenFoldSet, Iterates, Unfold, Pick

LEMMA PickIsMember == \A s : s # {} => Pick(s) \in s
  BY DEF Pick

\* Taking one element out makes a set smaller.
LEMMA OneLess ==
    ASSUME NEW S, IsFiniteSet(S), NEW x \in S
    PROVE  /\ IsFiniteSet(S \ {x}) /\ Cardinality(S \ {x}) = Cardinality(S) - 1
           /\ Cardinality(S) \in Nat \ {0} /\ Cardinality(S \ {x}) \in Nat
  BY FS_RemoveElement, FS_CardinalityType, FS_EmptySet

\* It does so for the subsets with no more than n elements.
UnfoldsUpTo(f, g, S, n) ==
    /\ g = [s \in SUBSET S |-> g[s]]
    /\ \A s \in SUBSET S : Cardinality(s) <= n => g[s] = Unfold(f, g, s)

\* There are functions that unfold on the subsets up to any size, ...
LEMMA IteratesUpTo ==
    ASSUME NEW f, NEW S, IsFiniteSet(S)
    PROVE  \A n \in Nat : \E g : UnfoldsUpTo(f, g, S, n)
  <1> DEFINE Good(g, n) == UnfoldsUpTo(f, g, S, n)
             P == {n \in Nat : \E g : Good(g, n)}
  <1> USE DEF UnfoldsUpTo
  <1>1. \A s \in SUBSET S : IsFiniteSet(s) /\ Cardinality(s) \in Nat
    BY FS_Subset, FS_CardinalityType
  <1>2. 0 \in P
    <2> DEFINE g == [s \in SUBSET S |-> 0]
    <2>1. \A s \in SUBSET S : Cardinality(s) <= 0 => s = {}
      BY <1>1, FS_EmptySet
    <2>2. Good(g, 0)
      BY <2>1 DEF Unfold
    <2> QED BY <2>2
  <1>3. ASSUME NEW n \in P PROVE n + 1 \in P
    <2>1. PICK g : Good(g, n)
      BY <1>3
    <2> DEFINE h == [s \in SUBSET S |-> Unfold(f, g, s)]
    <2>2. ASSUME NEW s \in SUBSET S, Cardinality(s) <= n + 1
          PROVE  h[s] = Unfold(f, h, s)
      <3>1. CASE s = {}
        BY <3>1 DEF Unfold
      <3>2. CASE s # {}
        <4> DEFINE t == s \ {Pick(s)}
        <4>1. Pick(s) \in s /\ t \in SUBSET S
          BY <3>2, PickIsMember
        <4>2. Cardinality(t) <= n
          BY <1>1, <2>2, <4>1, OneLess
        <4>3. h[t] = g[t]
          BY <2>1, <4>1, <4>2
        <4>4. h[s] = f[Pick(s)] + g[t]
          BY <3>2 DEF Unfold
        <4> QED BY <3>2, <4>3, <4>4 DEF Unfold
      <3> QED BY <3>1, <3>2
    <2>3. h = [s \in SUBSET S |-> h[s]]
      OBVIOUS
    <2> HIDE DEF h
    <2>4. Good(h, n + 1)
      BY <2>2, <2>3
    <2> HIDE DEF Good
    <2> QED BY <2>4
  <1> HIDE DEF Good
  <1>4. P = Nat
    <2> HIDE DEF P
    <2>1. P \in SUBSET Nat
      BY DEF P
    <2> QED BY <1>2, <1>3, <2>1, Induction
  <1> QED BY <1>4 DEF Good

\* ... and so one that unfolds on all of them.
LEMMA IterateExists ==
    ASSUME NEW f, NEW S, IsFiniteSet(S)
    PROVE  \E g : Iterates(f, g, S)
  <1>1. Cardinality(S) \in Nat
    BY FS_CardinalityType
  <1>2. PICK g : UnfoldsUpTo(f, g, S, Cardinality(S))
    BY <1>1, IteratesUpTo
  <1>3. \A s \in SUBSET S : g[s] = Unfold(f, g, s)
    BY <1>2, FS_Subset DEF UnfoldsUpTo
  <1>4. g = [s \in SUBSET S |-> g[s]]
    BY <1>2 DEF UnfoldsUpTo
  <1> QED BY <1>3, <1>4 DEF Iterates

\* Two such functions agree where both are defined.
LEMMA IteratesAgree ==
    ASSUME NEW f, NEW S, NEW T \in SUBSET S, IsFiniteSet(S),
           NEW g, NEW h, Iterates(f, g, S), Iterates(f, h, T)
    PROVE  \A s \in SUBSET T : g[s] = h[s]
  <1> DEFINE P == {n \in Nat : \A s \in SUBSET T : Cardinality(s) <= n => g[s] = h[s]}
  <1>1. \A s \in SUBSET T : /\ IsFiniteSet(s) /\ Cardinality(s) \in Nat
                            /\ g[s] = Unfold(f, g, s) /\ h[s] = Unfold(f, h, s)
    BY FS_Subset, FS_CardinalityType DEF Iterates
  <1>2. 0 \in P
    <2>1. \A s \in SUBSET T : Cardinality(s) <= 0 => s = {}
      BY <1>1, FS_EmptySet
    <2> QED BY <1>1, <2>1 DEF Unfold
  <1>3. ASSUME NEW n \in P PROVE n + 1 \in P
    <2>1. ASSUME NEW s \in SUBSET T, Cardinality(s) <= n + 1
          PROVE  g[s] = h[s]
      <3>1. CASE s = {}
        BY <1>1, <3>1 DEF Unfold
      <3>2. CASE s # {}
        <4> DEFINE t == s \ {Pick(s)}
        <4>1. Pick(s) \in s /\ t \in SUBSET T
          BY <3>2, PickIsMember
        <4>2. Cardinality(t) <= n
          BY <1>1, <2>1, <4>1, OneLess
        <4>3. h[t] = g[t]
          BY <4>1, <4>2
        <4> QED BY <1>1, <3>2, <4>3 DEF Unfold
      <3> QED BY <3>1, <3>2
    <2> QED BY <2>1
  <1>4. P = Nat
    <2>1. P \in SUBSET Nat
      OBVIOUS
    <2> HIDE DEF P
    <2> QED BY <1>2, <1>3, <2>1, Induction
  <1> QED BY <1>1, <1>4

-----------------------------------------------------------------------------
(* Sums *)

LEMMA SumOfNone == \A f : Sum(f, {}) = 0
  <1> SUFFICES ASSUME NEW f PROVE Sum(f, {}) = 0
    OBVIOUS
  <1> DEFINE g == CHOOSE h : Iterates(f, h, {})
  <1>1. Iterates(f, g, {})
    BY IterateExists, FS_EmptySet
  <1>2. g[{}] = 0
    BY <1>1 DEF Iterates, Unfold
  <1> QED BY <1>2, SumIsIterate

LEMMA SumUnfolds ==
    ASSUME NEW f, NEW S, IsFiniteSet(S), S # {}
    PROVE  Sum(f, S) = f[Pick(S)] + Sum(f, S \ {Pick(S)})
  <1> DEFINE T == S \ {Pick(S)}
             g == CHOOSE i : Iterates(f, i, S)
             h == CHOOSE i : Iterates(f, i, T)
  <1>1. T \in SUBSET S /\ IsFiniteSet(T)
    BY FS_Subset
  <1>2. Iterates(f, g, S)
    BY IterateExists
  <1>3. Iterates(f, h, T)
    BY <1>1, IterateExists
  <1> HIDE DEF g, h
  <1>4. g[T] = h[T]
    BY <1>1, <1>2, <1>3, IteratesAgree
  <1>5. g[S] = f[Pick(S)] + g[T]
    BY <1>2 DEF Iterates, Unfold
  <1> QED BY <1>4, <1>5, SumIsIterate DEF g, h

\* A sum is in every set that holds 0, its terms, and the sum of any two members.
LEMMA SumIsMember ==
    ASSUME NEW f, NEW S, IsFiniteSet(S),
           NEW N, 0 \in N, \A m, n \in N : m + n \in N, \A x \in S : f[x] \in N
    PROVE  Sum(f, S) \in N
  <1> DEFINE P == {n \in Nat : \A s \in SUBSET S : Cardinality(s) = n => Sum(f, s) \in N}
  <1>1. \A s \in SUBSET S : IsFiniteSet(s) /\ Cardinality(s) \in Nat
    BY FS_Subset, FS_CardinalityType
  <1>2. 0 \in P
    BY <1>1, SumOfNone, FS_EmptySet
  <1>3. ASSUME NEW n \in P PROVE n + 1 \in P
    <2>1. ASSUME NEW s \in SUBSET S, Cardinality(s) = n + 1
          PROVE  Sum(f, s) \in N
      <3>1. s # {}
        BY <2>1, FS_EmptySet
      <3> DEFINE t == s \ {Pick(s)}
      <3>2. Pick(s) \in s /\ t \in SUBSET S
        BY <3>1, PickIsMember
      <3>3. Cardinality(t) = n
        BY <1>1, <2>1, <3>2, OneLess
      <3>4. Sum(f, t) \in N /\ f[Pick(s)] \in N
        BY <3>2, <3>3
      <3>5. Sum(f, s) = f[Pick(s)] + Sum(f, t)
        BY <1>1, <3>1, SumUnfolds
      <3> QED BY <3>4, <3>5
    <2> QED BY <2>1
  <1>4. P = Nat
    <2>1. P \in SUBSET Nat
      OBVIOUS
    <2> HIDE DEF P
    <2> QED BY <1>2, <1>3, <2>1, Induction
  <1> QED BY <1>1, <1>4

\* The sum of integers is an integer, that of naturals a natural, and zeros add
\* up to zero.
LEMMA SumType ==
    ASSUME NEW f, NEW S, IsFiniteSet(S), NEW N, N \in {Nat, Int, {0}}, \A x \in S : f[x] \in N
    PROVE  Sum(f, S) \in N
  <1>1. 0 \in N /\ \A m, n \in N : m + n \in N
    OBVIOUS
  <1> QED BY <1>1, SumIsMember

\* Any element may be taken out first, ...
LEMMA SumWithout ==
    ASSUME NEW f, NEW S, IsFiniteSet(S), \A y \in S : f[y] \in Int, NEW x \in S
    PROVE  Sum(f, S) = f[x] + Sum(f, S \ {x})
  <1> DEFINE P == {n \in Nat : \A s \in SUBSET S : Cardinality(s) = n =>
                      \A y \in s : Sum(f, s) = f[y] + Sum(f, s \ {y})}
  <1>1. \A s \in SUBSET S : IsFiniteSet(s) /\ Cardinality(s) \in Nat /\ Sum(f, s) \in Int
    BY FS_Subset, FS_CardinalityType, SumType
  <1>2. 0 \in P
    BY <1>1, FS_EmptySet
  <1>3. ASSUME NEW n \in P PROVE n + 1 \in P
    <2>1. ASSUME NEW s \in SUBSET S, Cardinality(s) = n + 1, NEW y \in s
          PROVE  Sum(f, s) = f[y] + Sum(f, s \ {y})
      <3> DEFINE z == Pick(s)
                 t == s \ {z}
                 u == s \ {y}
      <3>1. z \in s /\ Sum(f, s) = f[z] + Sum(f, t)
        BY <1>1, PickIsMember, SumUnfolds
      <3>2. Cardinality(t) = n /\ Cardinality(u) = n
        BY <1>1, <2>1, <3>1, OneLess
      <3>3. CASE y = z
        BY <3>1, <3>3
      <3>4. CASE y # z
        <4>1. Sum(f, t) = f[y] + Sum(f, t \ {y})
          BY <3>2, <3>4
        <4>2. Sum(f, u) = f[z] + Sum(f, u \ {z})
          BY <3>1, <3>2, <3>4
        <4>3. t \ {y} = u \ {z}
          OBVIOUS
        <4>4. Sum(f, t \ {y}) \in Int /\ f[y] \in Int /\ f[z] \in Int
          BY <1>1, <3>1
        <4> HIDE DEF t, u, z
        <4> QED BY <3>1, <4>1, <4>2, <4>3, <4>4 DEF u
      <3> QED BY <3>3, <3>4
    <2> QED BY <2>1
  <1>4. P = Nat
    <2>1. P \in SUBSET Nat
      OBVIOUS
    <2> HIDE DEF P
    <2> QED BY <1>2, <1>3, <2>1, Induction
  <1> QED BY <1>1, <1>4

\* ... or added last.
LEMMA SumWith ==
    ASSUME NEW f, NEW S, IsFiniteSet(S), NEW x, x \notin S, \A y \in S \cup {x} : f[y] \in Int
    PROVE  Sum(f, S \cup {x}) = f[x] + Sum(f, S)
  <1>1. IsFiniteSet(S \cup {x}) /\ (S \cup {x}) \ {x} = S
    BY FS_AddElement
  <1> QED BY <1>1, SumWithout

\* When every element is above a mean, so is the sum: of integers above b/a
\* each, with a the common denominator.
LEMMA SumAboveMean ==
    ASSUME NEW f, NEW S, IsFiniteSet(S), S # {}, NEW a \in Int, NEW b \in Int,
           \A x \in S : f[x] \in Int /\ f[x] * a > b
    PROVE  Sum(f, S) * a > Cardinality(S) * b
  <1> DEFINE P == {n \in Nat : \A s \in SUBSET S : s # {} /\ Cardinality(s) <= n =>
                      Sum(f, s) * a > Cardinality(s) * b}
  <1>1. \A s \in SUBSET S : IsFiniteSet(s) /\ Cardinality(s) \in Nat /\ Sum(f, s) \in Int
    BY FS_Subset, FS_CardinalityType, SumType
  <1>2. 0 \in P
    BY <1>1, FS_EmptySet
  <1>3. ASSUME NEW n \in P PROVE n + 1 \in P
    <2>1. ASSUME NEW s \in SUBSET S, s # {}, Cardinality(s) <= n + 1
          PROVE  Sum(f, s) * a > Cardinality(s) * b
      <3> DEFINE t == s \ {Pick(s)}
      <3>1. Pick(s) \in s /\ Sum(f, s) = f[Pick(s)] + Sum(f, t)
        BY <1>1, <2>1, PickIsMember, SumUnfolds
      <3>2. Cardinality(t) = Cardinality(s) - 1 /\ t \in SUBSET S
        BY <1>1, <3>1, OneLess
      <3>3. /\ f[Pick(s)] \in Int /\ f[Pick(s)] * a > b
            /\ Sum(f, t) \in Int /\ Cardinality(t) \in Nat
        BY <1>1, <3>1, <3>2
      <3>4. Sum(f, t) * a >= Cardinality(t) * b
        <4>1. CASE t = {}
          <5>1. Sum(f, t) = 0 /\ Cardinality(t) = 0
            BY <4>1, SumOfNone, FS_EmptySet
          <5>2. 0 * a = 0 /\ 0 * b = 0
            OBVIOUS
          <5> HIDE DEF t
          <5> QED BY <5>1, <5>2
        <4>2. CASE t # {}
          <5>1. Cardinality(t) <= n
            BY <1>1, <2>1, <3>2
          <5>2. Sum(f, t) * a > Cardinality(t) * b
            BY <3>2, <4>2, <5>1
          <5> QED BY <3>3, <5>2
        <4> QED BY <4>1, <4>2
      <3> DEFINE v == f[Pick(s)]
                 w == Sum(f, t)
                 m == Cardinality(t)
      <3>5. Sum(f, s) = v + w /\ Cardinality(s) = m + 1
        BY <1>1, <3>1, <3>2, <3>3
      <3>6. v \in Int /\ w \in Int /\ m \in Nat /\ v * a > b /\ w * a >= m * b
        BY <3>3, <3>4
      <3> HIDE DEF v, w, m
      <3>7. (v + w) * a = v * a + w * a /\ (m + 1) * b = m * b + b
        BY <3>6
      <3>8. v * a \in Int /\ w * a \in Int /\ m * b \in Int
        BY <3>6
      <3> QED BY <3>5, <3>6, <3>7, <3>8
    <2> QED BY <2>1
  <1>4. P = Nat
    <2>1. P \in SUBSET Nat
      OBVIOUS
    <2> HIDE DEF P
    <2> QED BY <1>2, <1>3, <2>1, Induction
  <1> QED BY <1>1, <1>4
=============================================================================
