---------------------------- MODULE SumTheorems ----------------------------
(***************************************************************************)
(* What SumFunctionOnSet(f, S), the sum of f[x] over the x in S, is for a  *)
(* finite set S.  The library defines it by a recursive function on the    *)
(* subsets of S that takes their elements in an order of CHOOSE's.  The    *)
(* induction is over sets of subsets, so that no operator is a parameter:  *)
(* a set of subsets of S that has T whenever it has every proper subset of *)
(* T has all of them.                                                      *)
(***************************************************************************)
EXTENDS Integers, Functions, FiniteSetTheorems, WellFoundedInduction, TLAPS

(* Induction over the subsets of a finite set.                             *)
LEMMA SubsetInduction ==
  ASSUME NEW S, IsFiniteSet(S), NEW P,
         \A T \in SUBSET S : (\A U \in SUBSET T : U # T => U \in P) => T \in P
  PROVE  \A T \in SUBSET S : T \in P
  <1> DEFINE Missing == {T \in SUBSET S : T \notin P}
  <1>1. SUFFICES ASSUME Missing # {} PROVE FALSE
    OBVIOUS
  <1>2. IsWellFoundedOn(StrictSubsetOrdering(S), SUBSET S)
    BY FS_StrictSubsetOrderingWellFounded, FS_FiniteSubsetsOfFinite
  <1>3. PICK T \in Missing : \A U \in Missing : ~(<<U, T>> \in StrictSubsetOrdering(S))
    <2>1. Missing \subseteq SUBSET S
      OBVIOUS
    <2> HIDE DEF Missing
    <2> QED BY <1>1, <1>2, <2>1, WFMin
  <1>4. ASSUME NEW U \in SUBSET T, U # T, U \notin P PROVE FALSE
    <2>1. U \in Missing
      BY <1>4
    <2>2. <<U, T>> \in StrictSubsetOrdering(S)
      BY <1>4 DEF StrictSubsetOrdering
    <2> QED BY <1>3, <2>1, <2>2
  <1> QED BY <1>3, <1>4

-----------------------------------------------------------------------------
(* The element the library takes from a set first, and its recursion.      *)
Pick(s) == CHOOSE x \in s : TRUE
Sums(f, S, g) ==
  g = [s \in SUBSET S |-> IF s = {} THEN 0 ELSE f[Pick(s)] + g[s \ {Pick(s)}]]

(* What is taken first is an element.                                      *)
LEMMA PickIsMember ==
  ASSUME NEW s, s # {}
  PROVE  Pick(s) \in s
  BY DEF Pick

(* The recursion at one set.                                               *)
LEMMA SumsAt ==
  ASSUME NEW f, NEW S, NEW g, Sums(f, S, g), NEW s \in SUBSET S
  PROVE  g[s] = IF s = {} THEN 0 ELSE f[Pick(s)] + g[s \ {Pick(s)}]
  BY DEF Sums

(* Two solutions agree where both are defined.                             *)
LEMMA SumsAgree ==
  ASSUME NEW f, NEW S, IsFiniteSet(S), NEW T \in SUBSET S, NEW g, NEW h,
         Sums(f, S, g), Sums(f, T, h)
  PROVE  \A s \in SUBSET T : g[s] = h[s]
  <1> DEFINE P == {s \in SUBSET T : g[s] = h[s]}
  <1>1. IsFiniteSet(T)
    BY FS_Subset
  <1>2. ASSUME NEW s \in SUBSET T, \A u \in SUBSET s : u # s => u \in P
        PROVE  s \in P
    <2>1. g[s] = (IF s = {} THEN 0 ELSE f[Pick(s)] + g[s \ {Pick(s)}])
      BY SumsAt
    <2>2. h[s] = (IF s = {} THEN 0 ELSE f[Pick(s)] + h[s \ {Pick(s)}])
      BY SumsAt
    <2>3. CASE s = {}
      BY <2>1, <2>2, <2>3
    <2>4. CASE s # {}
      <3>1. Pick(s) \in s
        BY <2>4, PickIsMember
      <3>2. s \ {Pick(s)} \in SUBSET s /\ s \ {Pick(s)} # s
        BY <3>1
      <3>3. g[s \ {Pick(s)}] = h[s \ {Pick(s)}]
        BY <1>2, <3>2
      <3> QED BY <2>1, <2>2, <2>4, <3>3
    <2> QED BY <2>3, <2>4
  <1>3. \A s \in SUBSET T : s \in P
    <2> HIDE DEF P
    <2> QED BY <1>1, <1>2, SubsetInduction
  <1> QED BY <1>3

(* Every finite set has a solution.                                        *)
LEMMA SumsExist ==
  ASSUME NEW f, NEW S, IsFiniteSet(S)
  PROVE  \E g : Sums(f, S, g)
  <1> DEFINE P == {T \in SUBSET S : \E g : Sums(f, T, g)}
             One(T) == CHOOSE g : Sums(f, T, g)
  <1>1. ASSUME NEW T \in SUBSET S, \A U \in SUBSET T : U # T => U \in P
        PROVE  T \in P
    <2> DEFINE G == [s \in SUBSET T |-> IF s = {} THEN 0
                       ELSE f[Pick(s)] + One(s \ {Pick(s)})[s \ {Pick(s)}]]
               H == [s \in SUBSET T |-> IF s = {} THEN 0
                       ELSE f[Pick(s)] + G[s \ {Pick(s)}]]
    <2>1. ASSUME NEW U \in SUBSET T, U # T
          PROVE  One(U)[U] = G[U]
      <3>1. Sums(f, U, One(U))
        BY <1>1, <2>1
      <3>2. One(U)[U] = (IF U = {} THEN 0 ELSE f[Pick(U)] + One(U)[U \ {Pick(U)}])
        <4> DEFINE o == One(U)
        <4> HIDE DEF o
        <4>1. Sums(f, U, o) => o[U] = (IF U = {} THEN 0 ELSE f[Pick(U)] + o[U \ {Pick(U)}])
          BY SumsAt
        <4> QED BY <3>1, <4>1 DEF o
      <3>3. CASE U = {}
        BY <3>2, <3>3
      <3>4. CASE U # {}
        <4> DEFINE W == U \ {Pick(U)}
        <4>1. W \in SUBSET U /\ W \in SUBSET T /\ W # T
          BY <3>4, PickIsMember
        <4>2. Sums(f, W, One(W))
          BY <1>1, <4>1
        <4>3. IsFiniteSet(U)
          BY FS_Subset
        <4>4. One(U)[W] = One(W)[W]
          <5> DEFINE o == One(U)
                     w == One(W)
          <5>1. Sums(f, U, o) /\ Sums(f, W, w)
            BY <3>1, <4>2
          <5> HIDE DEF o, w, W
          <5>2. \A s \in SUBSET W : o[s] = w[s]
            BY <4>1, <4>3, <5>1, SumsAgree
          <5>3. o[W] = w[W]
            BY <5>2
          <5> QED BY <5>3 DEF o, w
        <4>5. G[U] = f[Pick(U)] + One(W)[W]
          BY <3>4
        <4> HIDE DEF One, G
        <4> QED BY <3>2, <3>4, <4>4, <4>5
      <3> QED BY <3>3, <3>4
    <2>2. ASSUME NEW s \in SUBSET T PROVE G[s] = H[s]
      <3>1. CASE s = {}
        BY <3>1
      <3>2. CASE s # {}
        <4> DEFINE W == s \ {Pick(s)}
        <4>1. W \in SUBSET T /\ W # T
          BY <3>2, PickIsMember
        <4>2. One(W)[W] = G[W]
          BY <2>1, <4>1
        <4>3. G[s] = f[Pick(s)] + One(W)[W]
          BY <3>2
        <4> HIDE DEF One, G
        <4>4. H[s] = f[Pick(s)] + G[W]
          BY <3>2
        <4> QED BY <4>2, <4>3, <4>4
      <3> QED BY <3>1, <3>2
    <2>3. G = H
      BY <2>2
    <2> HIDE DEF G
    <2>4. Sums(f, T, G)
      BY <2>3 DEF Sums
    <2> QED BY <2>4
  <1>2. \A T \in SUBSET S : T \in P
    <2> HIDE DEF P
    <2> QED BY <1>1, SubsetInduction
  <1> QED BY <1>2

-----------------------------------------------------------------------------
(* SumFunctionOnSet is the last value of a solution.                       *)
LEMMA SumIsSums ==
  ASSUME NEW f, NEW S, IsFiniteSet(S)
  PROVE  \E g : Sums(f, S, g) /\ SumFunctionOnSet(f, S) = g[S]
  <1> DEFINE iter == CHOOSE g : Sums(f, S, g)
  <1>1. Sums(f, S, iter)
    BY SumsExist
  <1>2. SumFunctionOnSet(f, S) = iter[S]
    BY DEF SumFunctionOnSet, FoldFunctionOnSet, MapThenFoldSet, Sums, Pick
  <1> HIDE DEF iter
  <1> QED BY <1>1, <1>2

(* The empty sum.                                                          *)
LEMMA SumOfNothing ==
  ASSUME NEW f
  PROVE  SumFunctionOnSet(f, {}) = 0
  <1>1. PICK g : Sums(f, {}, g) /\ SumFunctionOnSet(f, {}) = g[{}]
    BY SumIsSums, FS_EmptySet
  <1> QED BY <1>1, SumsAt

(* One step of the recursion.                                              *)
LEMMA SumUnfolds ==
  ASSUME NEW f, NEW S, IsFiniteSet(S), S # {}
  PROVE  SumFunctionOnSet(f, S) = f[Pick(S)] + SumFunctionOnSet(f, S \ {Pick(S)})
  <1> DEFINE T == S \ {Pick(S)}
  <1>1. T \in SUBSET S /\ IsFiniteSet(T)
    BY FS_Subset
  <1>2. PICK g : Sums(f, S, g) /\ SumFunctionOnSet(f, S) = g[S]
    BY SumIsSums
  <1>3. PICK h : Sums(f, T, h) /\ SumFunctionOnSet(f, T) = h[T]
    BY <1>1, SumIsSums
  <1>4. g[T] = h[T]
    <2> HIDE DEF T
    <2>1. \A s \in SUBSET T : g[s] = h[s]
      BY <1>1, <1>2, <1>3, SumsAgree
    <2> QED BY <2>1
  <1>5. g[S] = f[Pick(S)] + g[T]
    BY <1>2, SumsAt
  <1> HIDE DEF T
  <1> QED BY <1>2, <1>3, <1>4, <1>5 DEF T

(* A sum of integers is an integer.                                        *)
LEMMA SumIsInt ==
  ASSUME NEW f, NEW S, IsFiniteSet(S), \A x \in S : f[x] \in Int
  PROVE  SumFunctionOnSet(f, S) \in Int
  <1> DEFINE P == {T \in SUBSET S : SumFunctionOnSet(f, T) \in Int}
  <1>1. ASSUME NEW T \in SUBSET S, \A U \in SUBSET T : U # T => U \in P
        PROVE  T \in P
    <2>1. CASE T = {}
      BY <2>1, SumOfNothing
    <2>2. CASE T # {}
      <3>1. Pick(T) \in T /\ T \ {Pick(T)} \in P
        BY <1>1, <2>2, PickIsMember
      <3>2. f[Pick(T)] \in Int /\ SumFunctionOnSet(f, T \ {Pick(T)}) \in Int
        BY <3>1
      <3>3. SumFunctionOnSet(f, T) = f[Pick(T)] + SumFunctionOnSet(f, T \ {Pick(T)})
        BY <2>2, FS_Subset, SumUnfolds
      <3> QED BY <3>2, <3>3
    <2> QED BY <2>1, <2>2
  <1>2. \A T \in SUBSET S : T \in P
    <2> HIDE DEF P
    <2> QED BY <1>1, SubsetInduction
  <1> QED BY <1>2

(* Any element can be taken out of a sum.                                  *)
LEMMA SumTakesOut ==
  ASSUME NEW f, NEW S, IsFiniteSet(S), \A x \in S : f[x] \in Int, NEW x \in S
  PROVE  SumFunctionOnSet(f, S) = f[x] + SumFunctionOnSet(f, S \ {x})
  <1> DEFINE Sum(T) == SumFunctionOnSet(f, T)
             P == {T \in SUBSET S : \A y \in T : Sum(T) = f[y] + Sum(T \ {y})}
  <1>1. ASSUME NEW T \in SUBSET S, \A U \in SUBSET T : U # T => U \in P
        PROVE  T \in P
    <2> SUFFICES ASSUME NEW y \in T PROVE Sum(T) = f[y] + Sum(T \ {y})
      OBVIOUS
    <2> DEFINE z == Pick(T)
               Both == (T \ {z}) \ {y}
    <2>1. IsFiniteSet(T) /\ z \in T
      BY FS_Subset, PickIsMember
    <2>2. Sum(T) = f[z] + Sum(T \ {z})
      BY <2>1, SumUnfolds
    <2>3. CASE z = y
      BY <2>2, <2>3
    <2>4. CASE z # y
      <3>1. T \ {z} \in P /\ T \ {y} \in P
        BY <1>1, <2>1
      <3>2. Sum(T \ {z}) = f[y] + Sum(Both)
        BY <2>4, <3>1
      <3>3. Sum(T \ {y}) = f[z] + Sum((T \ {y}) \ {z})
        BY <2>1, <2>4, <3>1
      <3>4. Sum((T \ {y}) \ {z}) = Sum(Both)
        <4>1. (T \ {y}) \ {z} = Both
          OBVIOUS
        <4> QED BY <4>1
      <3>5. f[y] \in Int /\ f[z] \in Int
        BY <2>1
      <3>6. Sum(Both) \in Int
        <4>1. Both \in SUBSET S
          OBVIOUS
        <4>2. IsFiniteSet(Both) /\ \A x_1 \in Both : f[x_1] \in Int
          BY <4>1, FS_Subset
        <4> HIDE DEF Both
        <4> QED BY <4>2, SumIsInt
      <3> HIDE DEF Sum, Both, z
      <3>7. Sum(T) = f[z] + (f[y] + Sum(Both)) /\ Sum(T \ {y}) = f[z] + Sum(Both)
        BY <2>2, <3>2, <3>3, <3>4
      <3> QED BY <3>5, <3>6, <3>7
    <2> QED BY <2>3, <2>4
  <1>2. \A T \in SUBSET S : T \in P
    <2> HIDE DEF P
    <2> QED BY <1>1, SubsetInduction
  <1> QED BY <1>2

(* Functions that agree on the set have the same sum over it.              *)
LEMMA SumDependsOnSet ==
  ASSUME NEW f, NEW g, NEW S, IsFiniteSet(S), \A x \in S : f[x] = g[x]
  PROVE  SumFunctionOnSet(f, S) = SumFunctionOnSet(g, S)
  <1> DEFINE P == {T \in SUBSET S : SumFunctionOnSet(f, T) = SumFunctionOnSet(g, T)}
  <1>1. ASSUME NEW T \in SUBSET S, \A U \in SUBSET T : U # T => U \in P
        PROVE  T \in P
    <2>1. CASE T = {}
      BY <2>1, SumOfNothing
    <2>2. CASE T # {}
      <3>1. Pick(T) \in T /\ T \ {Pick(T)} \in P /\ IsFiniteSet(T)
        BY <1>1, <2>2, PickIsMember, FS_Subset
      <3>2. SumFunctionOnSet(f, T) = f[Pick(T)] + SumFunctionOnSet(f, T \ {Pick(T)})
        BY <2>2, <3>1, SumUnfolds
      <3>3. SumFunctionOnSet(g, T) = g[Pick(T)] + SumFunctionOnSet(g, T \ {Pick(T)})
        BY <2>2, <3>1, SumUnfolds
      <3> QED BY <3>1, <3>2, <3>3
    <2> QED BY <2>1, <2>2
  <1>2. \A T \in SUBSET S : T \in P
    <2> HIDE DEF P
    <2> QED BY <1>1, SubsetInduction
  <1> QED BY <1>2

(* A sum takes in one more term.                                           *)
LEMMA SumTakesIn ==
  ASSUME NEW f, NEW S, IsFiniteSet(S), NEW x, x \notin S,
         \A y \in S \cup {x} : f[y] \in Int
  PROVE  SumFunctionOnSet(f, S \cup {x}) = SumFunctionOnSet(f, S) + f[x]
  <1> DEFINE T == S \cup {x}
  <1>1. IsFiniteSet(T) /\ x \in T /\ T \ {x} = S
    BY FS_AddElement
  <1>2. SumFunctionOnSet(f, S) \in Int /\ f[x] \in Int
    BY SumIsInt
  <1>3. \A y \in T : f[y] \in Int
    OBVIOUS
  <1> HIDE DEF T
  <1>4. SumFunctionOnSet(f, T) = f[x] + SumFunctionOnSet(f, S)
    BY <1>1, <1>3, SumTakesOut
  <1> QED BY <1>2, <1>4 DEF T

-----------------------------------------------------------------------------
(* A part of a sum of naturals is no more than the whole: the other terms  *)
(* are added one by one.                                                   *)
LEMMA SumOfPart ==
  ASSUME NEW f, NEW S, IsFiniteSet(S), NEW T \in SUBSET S, \A x \in S : f[x] \in Nat
  PROVE  SumFunctionOnSet(f, T) <= SumFunctionOnSet(f, S)
  <1> DEFINE Sum(U) == SumFunctionOnSet(f, U)
             P == {U \in SUBSET (S \ T) : Sum(T) <= Sum(T \cup U)}
  <1>1. ASSUME NEW U \in SUBSET (S \ T), \A V \in SUBSET U : V # U => V \in P
        PROVE  U \in P
    <2>1. CASE U = {}
      <3>1. T \cup U = T /\ IsFiniteSet(T) /\ \A x \in T : f[x] \in Int
        BY <2>1, FS_Subset
      <3>2. Sum(T) \in Int
        BY <3>1, SumIsInt
      <3>3. Sum(T \cup U) = Sum(T)
        BY <3>1
      <3> HIDE DEF Sum
      <3>4. Sum(T) <= Sum(T \cup U)
        BY <3>2, <3>3
      <3> QED BY <3>4
    <2>2. CASE U # {}
      <3> DEFINE z == Pick(U)
                 V == T \cup (U \ {z})
      <3>1. z \in U /\ U \ {z} \in P
        BY <1>1, <2>2, PickIsMember
      <3>2. /\ V \in SUBSET S /\ IsFiniteSet(V) /\ z \notin V /\ T \cup U = V \cup {z}
            /\ T \in SUBSET S /\ IsFiniteSet(T)
        BY <3>1, FS_Subset
      <3>3. /\ \A y \in V \cup {z} : f[y] \in Int
            /\ \A y \in V : f[y] \in Int
            /\ \A y \in T : f[y] \in Int
            /\ f[z] \in Nat
        BY <3>1
      <3>4. Sum(T) <= Sum(V)
        BY <3>1
      <3> HIDE DEF z, V
      <3>5. Sum(V \cup {z}) = Sum(V) + f[z]
        BY <3>2, <3>3, SumTakesIn
      <3>6. Sum(V) \in Int /\ Sum(T) \in Int
        BY <3>2, <3>3, SumIsInt
      <3> HIDE DEF Sum
      <3>7. Sum(T) <= Sum(T \cup U)
        BY <3>2, <3>3, <3>4, <3>5, <3>6
      <3> QED BY <3>7
    <2> QED BY <2>1, <2>2
  <1>2. IsFiniteSet(S \ T)
    BY FS_Subset
  <1>3. \A U \in SUBSET (S \ T) : U \in P
    <2> DEFINE R == S \ T
    <2>1. /\ IsFiniteSet(R)
          /\ \A U \in SUBSET R : (\A V \in SUBSET U : V # U => V \in P) => U \in P
      BY <1>1, <1>2
    <2> HIDE DEF P, R
    <2>2. \A U \in SUBSET R : U \in P
      BY <2>1, SubsetInduction
    <2> QED BY <2>2 DEF R
  <1>4. T \cup (S \ T) = S /\ S \ T \in P
    BY <1>3
  <1>5. Sum(T) <= Sum(T \cup (S \ T))
    BY <1>4
  <1> HIDE DEF Sum
  <1>6. Sum(T) <= Sum(S)
    BY <1>4, <1>5
  <1> QED BY <1>6 DEF Sum

(* A sum of naturals is a natural.                                         *)
LEMMA SumIsNat ==
  ASSUME NEW f, NEW S, IsFiniteSet(S), \A x \in S : f[x] \in Nat
  PROVE  SumFunctionOnSet(f, S) \in Nat
  <1>1. SumFunctionOnSet(f, {}) <= SumFunctionOnSet(f, S)
    BY SumOfPart
  <1>2. SumFunctionOnSet(f, S) \in Int
    BY SumIsInt
  <1> QED BY <1>1, <1>2, SumOfNothing

(* Terms that are zero sum up to zero.                                     *)
LEMMA SumOfZeros ==
  ASSUME NEW f, NEW S, IsFiniteSet(S), \A x \in S : f[x] = 0
  PROVE  SumFunctionOnSet(f, S) = 0
  <1> DEFINE P == {T \in SUBSET S : SumFunctionOnSet(f, T) = 0}
  <1>1. ASSUME NEW T \in SUBSET S, \A U \in SUBSET T : U # T => U \in P
        PROVE  T \in P
    <2>1. CASE T = {}
      BY <2>1, SumOfNothing
    <2>2. CASE T # {}
      <3>1. Pick(T) \in T /\ T \ {Pick(T)} \in P /\ IsFiniteSet(T)
        BY <1>1, <2>2, PickIsMember, FS_Subset
      <3>2. SumFunctionOnSet(f, T) = f[Pick(T)] + SumFunctionOnSet(f, T \ {Pick(T)})
        BY <2>2, <3>1, SumUnfolds
      <3>3. f[Pick(T)] = 0 /\ SumFunctionOnSet(f, T \ {Pick(T)}) = 0
        BY <3>1
      <3> QED BY <3>2, <3>3
    <2> QED BY <2>1, <2>2
  <1>2. \A T \in SUBSET S : T \in P
    <2> HIDE DEF P
    <2> QED BY <1>1, SubsetInduction
  <1> QED BY <1>2

(* A sum with one term that is not zero is that term.                      *)
LEMMA SumOfOne ==
  ASSUME NEW f, NEW S, IsFiniteSet(S), NEW x \in S, f[x] \in Int,
         \A y \in S \ {x} : f[y] = 0
  PROVE  SumFunctionOnSet(f, S) = f[x]
  <1>1. IsFiniteSet(S \ {x}) /\ \A y \in S : f[y] \in Int
    BY FS_Subset
  <1>2. SumFunctionOnSet(f, S \ {x}) = 0
    BY <1>1, SumOfZeros
  <1>3. SumFunctionOnSet(f, S) = f[x] + SumFunctionOnSet(f, S \ {x})
    BY <1>1, SumTakesOut
  <1> QED BY <1>2, <1>3
=============================================================================
