-------------------------------- MODULE Sums --------------------------------
(***************************************************************************)
(* What a sum over a finite set is: the facts about SumFunctionOnSet of    *)
(* the community modules that the proofs of Orders and ReadModel rest on.  *)
(*                                                                         *)
(* SumFunctionOnSet is defined by a recursion over the subsets of a set,   *)
(* which takes the elements in the order CHOOSE picks them.  The lemmas    *)
(* show that the recursion is well defined, and then that the order does   *)
(* not matter.  Induction is by a smallest counterexample (WFMin).         *)
(***************************************************************************)
EXTENDS Integers, Functions, FiniteSets, FiniteSetTheorems, TLAPS

\* Induction over the subsets of a finite set: Good holds what is to be shown.
LEMMA SubsetInduction ==
  ASSUME NEW S, IsFiniteSet(S), NEW Good,
         \A T \in SUBSET S : (\A U \in SUBSET T : U # T => U \in Good) => T \in Good
  PROVE  \A T \in SUBSET S : T \in Good
<1> DEFINE Bad == {T \in SUBSET S : T \notin Good}
<1> SUFFICES ASSUME Bad # {} PROVE FALSE
  OBVIOUS
<1>1. IsWellFoundedOn(StrictSubsetOrdering(S), SUBSET S)
  <2>1. IsWellFoundedOn(StrictSubsetOrdering(S), FiniteSubsetsOf(S))
    BY FS_StrictSubsetOrderingWellFounded
  <2>2. FiniteSubsetsOf(S) = SUBSET S
    BY FS_FiniteSubsetsOfFinite
  <2> QED
    BY <2>1, <2>2
<1>2. PICK T \in Bad : \A U \in Bad : <<U, T>> \notin StrictSubsetOrdering(S)
  <2>1. Bad \subseteq SUBSET S
    OBVIOUS
  <2> HIDE DEF Bad
  <2>2. \E T \in Bad : \A U \in Bad : ~(<<U, T>> \in StrictSubsetOrdering(S))
    BY <1>1, <2>1, WFMin
  <2> QED
    BY <2>2
<1>3. \A U \in SUBSET T : U # T => U \in Good
  BY <1>2 DEF StrictSubsetOrdering
<1> QED
  BY <1>2, <1>3

-----------------------------------------------------------------------------
(* The recursion *)

First(s) == CHOOSE x \in s : TRUE

\* The function a sum over S is computed with.
Iterates(g, f, S) ==
  g = [s \in SUBSET S |-> IF s = {} THEN 0 ELSE f[First(s)] + g[s \ {First(s)}]]

Sum(f, S) == (CHOOSE g : Iterates(g, f, S))[S]

LEMMA SumIsIteration ==
  ASSUME NEW f, NEW S
  PROVE  SumFunctionOnSet(f, S) = Sum(f, S)
BY DEF SumFunctionOnSet, FoldFunctionOnSet, MapThenFoldSet, Sum, Iterates, First

\* Two of them agree wherever both are defined.
LEMMA IterationUnique ==
  ASSUME NEW f, NEW A, NEW B, NEW g, NEW h, Iterates(g, f, A), Iterates(h, f, B),
         NEW S, IsFiniteSet(S), S \subseteq A, S \subseteq B
  PROVE  g[S] = h[S]
<1> DEFINE Good == {T \in SUBSET S : g[T] = h[T]}
<1>1. ASSUME NEW T \in SUBSET S, \A U \in SUBSET T : U # T => U \in Good
      PROVE  T \in Good
  <2>1. CASE T = {}
    BY <2>1 DEF Iterates
  <2>2. CASE T # {}
    <3>1. First(T) \in T
      BY <2>2 DEF First
    <3>2. T \ {First(T)} \in Good
      BY <1>1, <3>1
    <3>3. /\ g[T] = f[First(T)] + g[T \ {First(T)}]
          /\ h[T] = f[First(T)] + h[T \ {First(T)}]
      BY <2>2 DEF Iterates
    <3> QED
      BY <3>2, <3>3
  <2> QED
    BY <2>1, <2>2
<1> HIDE DEF Good
<1>2. S \in Good
  BY <1>1, SubsetInduction
<1> QED
  BY <1>2 DEF Good

\* There is one for every finite set.
LEMMA IterationExists ==
  ASSUME NEW f, NEW S, IsFiniteSet(S)
  PROVE  \E g : Iterates(g, f, S)
<1> DEFINE Good == {T \in SUBSET S : \E g : Iterates(g, f, T)}
<1>1. ASSUME NEW T \in SUBSET S, \A U \in SUBSET T : U # T => U \in Good
      PROVE  T \in Good
  <2> DEFINE By(U) == CHOOSE g : Iterates(g, f, U)
             G == [s \in SUBSET T |-> IF s = {} THEN 0
                                      ELSE f[First(s)] + By(s \ {First(s)})[s \ {First(s)}]]
  <2>1. ASSUME NEW U \in SUBSET T, U # T PROVE Iterates(By(U), f, U)
    BY <1>1, <2>1
  <2>2. ASSUME NEW s \in SUBSET T, s # {}
        PROVE  G[s \ {First(s)}] = By(s \ {First(s)})[s \ {First(s)}]
    <3> DEFINE u == s \ {First(s)}
    <3>1. First(s) \in s
      BY <2>2 DEF First
    <3>2. u \in SUBSET T /\ u # T /\ Iterates(By(u), f, u)
      BY <2>1, <3>1
    <3>3. CASE u = {}
      BY <3>2, <3>3 DEF Iterates
    <3>4. CASE u # {}
      <4> DEFINE v == u \ {First(u)}
      <4>1. First(u) \in u
        BY <3>4 DEF First
      <4>2. v \in SUBSET T /\ v # T /\ Iterates(By(v), f, v)
        BY <2>1, <3>2, <4>1
      <4>3. IsFiniteSet(v)
        BY <3>2, FS_Subset
      <4>4. By(u)[v] = By(v)[v]
        <5> HIDE DEF By, u, v
        <5> QED BY <3>2, <4>2, <4>3, IterationUnique DEF v
      <4>5. By(u)[u] = f[First(u)] + By(u)[v]
        <5> HIDE DEF By
        <5> QED BY <3>2, <3>4 DEF Iterates
      <4>6. G[u] = f[First(u)] + By(v)[v]
        BY <3>2, <3>4
      <4> QED
        BY <4>4, <4>5, <4>6
    <3> QED
      BY <3>3, <3>4
  <2>3. Iterates(G, f, T)
    <3> HIDE DEF By
    <3> QED BY <2>2 DEF Iterates
  <2> QED
    BY <2>3
<1> HIDE DEF Good
<1>2. S \in Good
  BY <1>1, SubsetInduction
<1> QED
  BY <1>2 DEF Good

-----------------------------------------------------------------------------
(* Sums *)

LEMMA SumEmpty ==
  ASSUME NEW f
  PROVE  SumFunctionOnSet(f, {}) = 0
<1>1. IsFiniteSet({})
  BY FS_EmptySet
<1>2. Iterates(CHOOSE g : Iterates(g, f, {}), f, {})
  BY <1>1, IterationExists
<1>3. Sum(f, {}) = 0
  BY <1>2 DEF Sum, Iterates
<1> QED
  BY <1>3, SumIsIteration

LEMMA SumFirst ==
  ASSUME NEW f, NEW S, IsFiniteSet(S), S # {}
  PROVE  /\ First(S) \in S
         /\ SumFunctionOnSet(f, S) = f[First(S)] + SumFunctionOnSet(f, S \ {First(S)})
<1> DEFINE T == S \ {First(S)}
           g == CHOOSE g : Iterates(g, f, S)
           h == CHOOSE h : Iterates(h, f, T)
<1>1. First(S) \in S
  BY DEF First
<1>2. IsFiniteSet(T)
  BY FS_Subset
<1>3. Iterates(g, f, S) /\ Iterates(h, f, T)
  BY <1>2, IterationExists
<1>4. g[T] = h[T]
  <2> HIDE DEF g, h
  <2> QED BY <1>2, <1>3, IterationUnique
<1>5. g[S] = f[First(S)] + g[T]
  <2> HIDE DEF g
  <2> QED BY <1>3 DEF Iterates
<1>6. Sum(f, S) = f[First(S)] + Sum(f, T)
  BY <1>4, <1>5 DEF Sum
<1> QED
  BY <1>1, <1>6, SumIsIteration

\* The recursion's choice of an element does not matter, and the sum of integers
\* is an integer.
LEMMA SumRemove ==
  ASSUME NEW f, NEW S, IsFiniteSet(S), \A x \in S : f[x] \in Int
  PROVE  /\ SumFunctionOnSet(f, S) \in Int
         /\ \A x \in S : SumFunctionOnSet(f, S) = f[x] + SumFunctionOnSet(f, S \ {x})
<1> DEFINE Splits(T) ==
             /\ SumFunctionOnSet(f, T) \in Int
             /\ \A x \in T : SumFunctionOnSet(f, T) = f[x] + SumFunctionOnSet(f, T \ {x})
           Good == {T \in SUBSET S : Splits(T)}
<1>1. ASSUME NEW T \in SUBSET S, \A U \in SUBSET T : U # T => U \in Good
      PROVE  T \in Good
  <2>1. CASE T = {}
    BY <2>1, SumEmpty
  <2>2. CASE T # {}
    <3> DEFINE y == First(T)
    <3>0. \A U \in SUBSET T : IsFiniteSet(U)
      BY FS_Subset
    <3>1. y \in T /\ SumFunctionOnSet(f, T) = f[y] + SumFunctionOnSet(f, T \ {y})
      BY <2>2, <3>0, SumFirst
    <3> HIDE DEF y
    <3>2. T \ {y} \in Good
      BY <1>1, <3>1
    <3>3. SumFunctionOnSet(f, T) \in Int
      BY <3>1, <3>2
    <3>4. ASSUME NEW x \in T
          PROVE  SumFunctionOnSet(f, T) = f[x] + SumFunctionOnSet(f, T \ {x})
      <4>1. CASE x = y
        BY <3>1, <4>1
      <4>2. CASE x # y
        <5>1. SumFunctionOnSet(f, T \ {y}) = f[x] + SumFunctionOnSet(f, (T \ {y}) \ {x})
          BY <3>2, <4>2
        <5>2. T \ {x} \in Good
          BY <1>1
        <5>3. SumFunctionOnSet(f, T \ {x}) = f[y] + SumFunctionOnSet(f, (T \ {x}) \ {y})
          BY <3>1, <4>2, <5>2
        <5>4. (T \ {x}) \ {y} = (T \ {y}) \ {x}
          OBVIOUS
        <5>5. (T \ {y}) \ {x} \in Good
          BY <1>1, <3>1
        <5>6. /\ SumFunctionOnSet(f, (T \ {y}) \ {x}) \in Int
              /\ f[x] \in Int /\ f[y] \in Int
          BY <3>1, <5>5
        <5>7. SumFunctionOnSet(f, T) = f[y] + (f[x] + SumFunctionOnSet(f, (T \ {y}) \ {x}))
          BY <3>1, <5>1
        <5>8. SumFunctionOnSet(f, T \ {x}) = f[y] + SumFunctionOnSet(f, (T \ {y}) \ {x})
          BY <5>3, <5>4
        <5> HIDE DEF Good, Splits
        <5> QED
          BY <5>6, <5>7, <5>8
      <4> QED
        BY <4>1, <4>2
    <3> QED
      BY <3>3, <3>4
  <2> QED
    BY <2>1, <2>2
<1> HIDE DEF Good
<1>2. S \in Good
  BY <1>1, SubsetInduction
<1> QED
  BY <1>2 DEF Good

\* One more element.
LEMMA SumAdd ==
  ASSUME NEW f, NEW S, IsFiniteSet(S), NEW x, x \notin S,
         \A y \in S \cup {x} : f[y] \in Int
  PROVE  SumFunctionOnSet(f, S \cup {x}) = f[x] + SumFunctionOnSet(f, S)
<1>1. IsFiniteSet(S \cup {x})
  BY FS_AddElement
<1>2. (S \cup {x}) \ {x} = S
  OBVIOUS
<1> QED
  BY <1>1, <1>2, SumRemove

\* What f is outside the set does not matter, and larger summands make a larger
\* sum.
LEMMA SumMonotonic ==
  ASSUME NEW f, NEW g, NEW S, IsFiniteSet(S),
         \A x \in S : f[x] \in Int /\ g[x] \in Int /\ f[x] <= g[x]
  PROVE  SumFunctionOnSet(f, S) <= SumFunctionOnSet(g, S)
<1> DEFINE Good == {T \in SUBSET S : SumFunctionOnSet(f, T) <= SumFunctionOnSet(g, T)}
<1>1. ASSUME NEW T \in SUBSET S, \A U \in SUBSET T : U # T => U \in Good
      PROVE  T \in Good
  <2>1. CASE T = {}
    BY <2>1, SumEmpty
  <2>2. CASE T # {}
    <3>1. PICK x \in T : TRUE
      BY <2>2
    <3>2. IsFiniteSet(T) /\ IsFiniteSet(T \ {x})
      BY FS_Subset
    <3>3. T \ {x} \in Good
      BY <1>1
    <3>4. /\ SumFunctionOnSet(f, T) = f[x] + SumFunctionOnSet(f, T \ {x})
          /\ SumFunctionOnSet(f, T \ {x}) \in Int
      BY <3>2, SumRemove
    <3>5. /\ SumFunctionOnSet(g, T) = g[x] + SumFunctionOnSet(g, T \ {x})
          /\ SumFunctionOnSet(g, T \ {x}) \in Int
      BY <3>2, SumRemove
    <3> QED
      BY <3>3, <3>4, <3>5
  <2> QED
    BY <2>1, <2>2
<1> HIDE DEF Good
<1>2. S \in Good
  BY <1>1, SubsetInduction
<1> QED
  BY <1>2 DEF Good

LEMMA SumSame ==
  ASSUME NEW f, NEW g, NEW S, IsFiniteSet(S), \A x \in S : f[x] \in Int /\ f[x] = g[x]
  PROVE  SumFunctionOnSet(f, S) = SumFunctionOnSet(g, S)
<1>1. SumFunctionOnSet(f, S) \in Int /\ SumFunctionOnSet(g, S) \in Int
  BY SumRemove
<1>2. SumFunctionOnSet(f, S) <= SumFunctionOnSet(g, S)
  BY SumMonotonic
<1>3. SumFunctionOnSet(g, S) <= SumFunctionOnSet(f, S)
  BY SumMonotonic
<1> QED
  BY <1>1, <1>2, <1>3

\* A sum of natural numbers is one, and no summand exceeds it.
LEMMA SumNat ==
  ASSUME NEW f, NEW S, IsFiniteSet(S), \A x \in S : f[x] \in Nat
  PROVE  /\ SumFunctionOnSet(f, S) \in Nat
         /\ \A x \in S : f[x] <= SumFunctionOnSet(f, S)
<1> DEFINE Good == {T \in SUBSET S : SumFunctionOnSet(f, T) \in Nat}
<1>1. ASSUME NEW T \in SUBSET S, \A U \in SUBSET T : U # T => U \in Good
      PROVE  T \in Good
  <2>1. CASE T = {}
    BY <2>1, SumEmpty
  <2>2. CASE T # {}
    <3>1. PICK x \in T : TRUE
      BY <2>2
    <3>2. IsFiniteSet(T)
      BY FS_Subset
    <3>3. T \ {x} \in Good
      BY <1>1
    <3>4. SumFunctionOnSet(f, T) = f[x] + SumFunctionOnSet(f, T \ {x})
      BY <3>2, SumRemove
    <3> QED
      BY <3>3, <3>4
  <2> QED
    BY <2>1, <2>2
<1>2. \A T \in SUBSET S : T \in Good
  <2> HIDE DEF Good
  <2> QED BY <1>1, SubsetInduction
<1>3. \A x \in S : f[x] \in Nat /\ S \ {x} \in Good
  BY <1>2
<1>4. \A x \in S : SumFunctionOnSet(f, S) = f[x] + SumFunctionOnSet(f, S \ {x})
  BY SumRemove
<1>5. S \in Good
  BY <1>2
<1>6. ASSUME NEW x \in S PROVE f[x] <= SumFunctionOnSet(f, S)
  <2>1. f[x] \in Nat /\ SumFunctionOnSet(f, S \ {x}) \in Nat
    BY <1>3
  <2>2. SumFunctionOnSet(f, S) = f[x] + SumFunctionOnSet(f, S \ {x})
    BY <1>4
  <2> HIDE DEF Good
  <2> QED
    BY <2>1, <2>2
<1> QED
  BY <1>5, <1>6

LEMMA SumZero ==
  ASSUME NEW f, NEW S, IsFiniteSet(S), \A x \in S : f[x] = 0
  PROVE  SumFunctionOnSet(f, S) = 0
<1> DEFINE Good == {T \in SUBSET S : SumFunctionOnSet(f, T) = 0}
<1>1. ASSUME NEW T \in SUBSET S, \A U \in SUBSET T : U # T => U \in Good
      PROVE  T \in Good
  <2>1. CASE T = {}
    BY <2>1, SumEmpty
  <2>2. CASE T # {}
    <3>1. PICK x \in T : TRUE
      BY <2>2
    <3>2. IsFiniteSet(T) /\ T \ {x} \in Good
      BY <1>1, FS_Subset
    <3>3. SumFunctionOnSet(f, T) = f[x] + SumFunctionOnSet(f, T \ {x})
      BY <3>2, SumRemove
    <3> QED
      BY <3>2, <3>3
  <2> QED
    BY <2>1, <2>2
<1>2. \A T \in SUBSET S : T \in Good
  <2> HIDE DEF Good
  <2> QED BY <1>1, SubsetInduction
<1> QED
  BY <1>2

\* One summand changes.
LEMMA SumChange ==
  ASSUME NEW f, NEW g, NEW S, IsFiniteSet(S), NEW x \in S,
         \A y \in S : f[y] \in Int /\ g[y] \in Int,
         \A y \in S : y # x => g[y] = f[y]
  PROVE  SumFunctionOnSet(g, S) = SumFunctionOnSet(f, S) + (g[x] - f[x])
<1> DEFINE R == S \ {x}
<1>1. IsFiniteSet(R)
  BY FS_RemoveElement
<1>2. /\ SumFunctionOnSet(f, S) = f[x] + SumFunctionOnSet(f, R)
      /\ SumFunctionOnSet(g, S) = g[x] + SumFunctionOnSet(g, R)
  BY SumRemove
<1>3. /\ SumFunctionOnSet(f, R) = SumFunctionOnSet(g, R)
      /\ SumFunctionOnSet(f, R) \in Int
  BY <1>1, SumSame, SumRemove
<1>4. f[x] \in Int /\ g[x] \in Int
  OBVIOUS
<1> HIDE DEF R
<1> QED
  BY <1>2, <1>3, <1>4
=============================================================================
