----------------------------- MODULE FiniteSums -----------------------------
(***************************************************************************)
(* Sums over finite sets, for the byte counts of the memory tiers and of   *)
(* the key-value caches.  MapThenSumSet of FiniteSetsExt is defined by a   *)
(* recursive function on the subsets of its argument; the lemmas below     *)
(* show that this function exists and what it computes.                    *)
(*                                                                         *)
(* The library's induction rules take a predicate, which the provers       *)
(* cannot instantiate.  Its well-foundedness theorems are first order, so  *)
(* the two inductions used here are derived from them, with the set of the *)
(* values for which the claim holds in the place of the predicate.         *)
(***************************************************************************)
EXTENDS Integers, FiniteSetsExt, FiniteSetTheorems, NaturalsInduction,
        WellFoundedInduction, TLAPS

\* The sum of f[x] over the elements x of S.
SumOver(f, S) == MapThenSumSet(LAMBDA x : f[x], S)

\* The element MapThenSumSet takes first, and the function it defines.
Pick(S) == CHOOSE x \in S : TRUE

SumsUp(g, f, S) ==
  g = [s \in SUBSET S |-> IF s = {} THEN 0 ELSE f[Pick(s)] + g[s \ {Pick(s)}]]

\* A set P that holds the empty set, and every subset of U all of whose
\* one-smaller subsets it holds, holds every subset of the finite set U.
LEMMA SubsetInduction ==
  ASSUME NEW U, IsFiniteSet(U), NEW P,
         {} \in P,
         \A S \in SUBSET U : S # {} /\ (\A x \in S : S \ {x} \in P) => S \in P
  PROVE  \A S \in SUBSET U : S \in P
  <1> DEFINE Bad == {S \in FiniteSubsetsOf(U) : S \notin P}
  <1>1. SUFFICES ASSUME Bad # {} PROVE FALSE
    <2>1. ASSUME NEW S \in SUBSET U, S \notin P PROVE FALSE
      <3>1. IsFiniteSet(S)
        BY FS_Subset
      <3>2. S \in FiniteSubsetsOf(U)
        BY <3>1 DEF FiniteSubsetsOf
      <3> QED
        BY <1>1, <2>1, <3>2
    <2> QED
      BY <2>1
  <1>2. PICK S \in Bad : \A T \in Bad : <<T, S>> \notin StrictSubsetOrdering(U)
    <2>1. IsWellFoundedOn(StrictSubsetOrdering(U), FiniteSubsetsOf(U))
      BY FS_StrictSubsetOrderingWellFounded
    <2>2. Bad \subseteq FiniteSubsetsOf(U)
      OBVIOUS
    <2> HIDE DEF Bad
    <2> QED
      BY <1>1, <2>1, <2>2, WFMin
  <1>3. S \in SUBSET U /\ IsFiniteSet(S)
    BY DEF FiniteSubsetsOf
  <1>4. \A x \in S : S \ {x} \in P
    <2> SUFFICES ASSUME NEW x \in S, S \ {x} \notin P PROVE FALSE
      OBVIOUS
    <2>1. IsFiniteSet(S \ {x})
      BY <1>3, FS_RemoveElement
    <2>2. S \ {x} \in Bad
      BY <1>3, <2>1 DEF FiniteSubsetsOf
    <2>3. <<S \ {x}, S>> \in StrictSubsetOrdering(U)
      BY <1>3, <2>1 DEF StrictSubsetOrdering
    <2> QED
      BY <1>2, <2>2, <2>3
  <1> QED
    BY <1>2, <1>3, <1>4

\* Induction on the naturals, with a set for the predicate.
LEMMA NatSetInduction ==
  ASSUME NEW P, 0 \in P, \A n \in Nat : n \in P => n + 1 \in P
  PROVE  \A n \in Nat : n \in P
  <1> DEFINE Bad == {n \in Nat : n \notin P}
  <1>1. SUFFICES ASSUME Bad # {} PROVE FALSE
    OBVIOUS
  <1>2. PICK n \in Bad : \A m \in Bad : <<m, n>> \notin OpToRel(<, Nat)
    <2>1. Bad \subseteq Nat
      OBVIOUS
    <2> HIDE DEF Bad
    <2> QED
      BY <1>1, <2>1, NatLessThanWellFounded, WFMin
  <1>3. n \in Nat /\ n # 0
    OBVIOUS
  <1>4. n - 1 \in Bad
    BY <1>3
  <1>5. <<n - 1, n>> \in OpToRel(<, Nat)
    BY <1>3 DEF OpToRel
  <1> QED
    BY <1>2, <1>4, <1>5

\* A set of naturals that is not empty has a least element.
LEMMA LeastNat ==
  ASSUME NEW S, S \subseteq Nat, S # {}
  PROVE  \E n \in S : \A m \in S : n <= m
  <1>1. PICK n \in S : \A m \in S : <<m, n>> \notin OpToRel(<, Nat)
    BY NatLessThanWellFounded, WFMin
  <1>2. \A m \in S : ~(m < n)
    BY <1>1 DEF OpToRel
  <1> QED
    BY <1>2

\* The recursive function of the sum exists, by induction on the size of the
\* subsets it is defined for.
LEMMA SumExists ==
  ASSUME NEW U, IsFiniteSet(U), NEW f
  PROVE  \E g : SumsUp(g, f, U)
  <1> DEFINE Small(n) == {s \in SUBSET U : Cardinality(s) <= n}
             Value(g, s) == IF s = {} THEN 0 ELSE f[Pick(s)] + g[s \ {Pick(s)}]
             Upto(n) == \E g : g = [s \in Small(n) |-> Value(g, s)]
             P == {n \in Nat : Upto(n)}
  <1>0. \A s \in SUBSET U : IsFiniteSet(s) /\ Cardinality(s) \in Nat
    BY FS_Subset, FS_CardinalityType
  <1>1. \A s \in SUBSET U : s # {} =>
          /\ Pick(s) \in s /\ s \ {Pick(s)} \in SUBSET U
          /\ Cardinality(s \ {Pick(s)}) = Cardinality(s) - 1
    BY <1>0, FS_RemoveElement DEF Pick
  <1>2. 0 \in P
    <2> DEFINE g == [s \in Small(0) |-> 0]
    <2>1. \A s \in Small(0) : s = {}
      BY <1>0, FS_EmptySet
    <2>2. g = [s \in Small(0) |-> Value(g, s)]
      BY <2>1
    <2> QED
      BY <2>2
  <1>3. \A n \in Nat : n \in P => n + 1 \in P
    <2>0. SUFFICES ASSUME NEW n \in Nat, Upto(n) PROVE Upto(n + 1)
      <3> HIDE DEF Upto
      <3> QED OBVIOUS
    <2>1. PICK g : g = [s \in Small(n) |-> Value(g, s)]
      BY <2>0
    <2> DEFINE h == [s \in Small(n + 1) |-> Value(g, s)]
    <2>2. Small(n) \subseteq Small(n + 1)
      BY <1>0
    <2>3. \A s \in Small(n) : h[s] = g[s]
      <3> SUFFICES ASSUME NEW s \in Small(n) PROVE h[s] = g[s]
        OBVIOUS
      <3>1. g[s] = Value(g, s)
        <4> HIDE DEF Value, Small
        <4> QED BY <2>1
      <3>2. h[s] = Value(g, s)
        BY <2>2
      <3> QED BY <3>1, <3>2
    <2>4. \A s \in Small(n + 1) : s # {} => s \ {Pick(s)} \in Small(n)
      BY <1>0, <1>1
    <2>5. \A s \in Small(n + 1) : Value(g, s) = Value(h, s)
      <3> HIDE DEF h
      <3> QED BY <2>3, <2>4
    <2>6. h = [s \in Small(n + 1) |-> Value(h, s)]
      <3> HIDE DEF Value
      <3> QED BY <2>5
    <2> QED
      BY <2>6
  <1>4. Upto(Cardinality(U))
    <2> HIDE DEF Upto
    <2>1. \A n \in Nat : n \in P
      <3> HIDE DEF P
      <3> QED BY <1>2, <1>3, NatSetInduction
    <2> QED
      BY <1>0, <2>1
  <1>5. Small(Cardinality(U)) = SUBSET U
    BY FS_Subset, <1>0
  <1> QED
    BY <1>4, <1>5 DEF SumsUp

\* Two such functions agree where both are defined.
LEMMA SumsAgree ==
  ASSUME NEW f, NEW A, NEW B, IsFiniteSet(A), A \subseteq B, NEW g, NEW h,
         SumsUp(g, f, A), SumsUp(h, f, B)
  PROVE  \A s \in SUBSET A : g[s] = h[s]
  <1> DEFINE P == {s \in SUBSET A : g[s] = h[s]}
  <1>1. \A s \in SUBSET A : g[s] = IF s = {} THEN 0 ELSE f[Pick(s)] + g[s \ {Pick(s)}]
    BY DEF SumsUp
  <1>2. \A s \in SUBSET A : h[s] = IF s = {} THEN 0 ELSE f[Pick(s)] + h[s \ {Pick(s)}]
    BY DEF SumsUp
  <1>3. {} \in P
    BY <1>1, <1>2
  <1>4. ASSUME NEW s \in SUBSET A, s # {}, \A x \in s : s \ {x} \in P PROVE s \in P
    <2>1. Pick(s) \in s
      BY <1>4 DEF Pick
    <2> QED
      BY <1>1, <1>2, <1>4, <2>1
  <1>5. \A s \in SUBSET A : s \in P
    <2> HIDE DEF P
    <2> QED BY <1>3, <1>4, SubsetInduction
  <1> QED
    BY <1>5

\* SumOver is the value at S of a function chosen for S.
LEMMA SumIsLast ==
  ASSUME NEW f, NEW S
  PROVE  SumOver(f, S) = (CHOOSE g : SumsUp(g, f, S))[S]
  BY DEF SumOver, MapThenSumSet, MapThenFoldSet, SumsUp, Pick

\* The function for S gives the sums over all subsets of S.
LEMMA SumRestricts ==
  ASSUME NEW f, NEW S, IsFiniteSet(S), NEW T \in SUBSET S, NEW g, SumsUp(g, f, S)
  PROVE  SumOver(f, T) = g[T]
  <1>1. IsFiniteSet(T)
    BY FS_Subset
  <1>2. PICK h : SumsUp(h, f, T)
    BY <1>1, SumExists
  <1> DEFINE k == CHOOSE x : SumsUp(x, f, T)
  <1>3. SumsUp(k, f, T)
    BY <1>2
  <1>4. k[T] = g[T]
    <2> HIDE DEF k
    <2> QED BY <1>1, <1>3, SumsAgree
  <1> QED
    BY <1>4, SumIsLast

\* An empty sum is zero.
THEOREM SumEmpty == ASSUME NEW f PROVE SumOver(f, {}) = 0
  <1>1. IsFiniteSet({})
    BY FS_EmptySet
  <1>2. PICK g : SumsUp(g, f, {})
    BY <1>1, SumExists
  <1>3. SumOver(f, {}) = g[{}]
    BY <1>1, <1>2, SumRestricts
  <1> QED
    BY <1>2, <1>3 DEF SumsUp

\* A sum is the picked element and the sum over the rest.
LEMMA SumUnfolds ==
  ASSUME NEW f, NEW S, IsFiniteSet(S), S # {}
  PROVE  /\ Pick(S) \in S
         /\ SumOver(f, S) = f[Pick(S)] + SumOver(f, S \ {Pick(S)})
  <1>1. PICK g : SumsUp(g, f, S)
    BY SumExists
  <1>2. SumOver(f, S) = g[S] /\ SumOver(f, S \ {Pick(S)}) = g[S \ {Pick(S)}]
    BY <1>1, SumRestricts
  <1>3. g[S] = f[Pick(S)] + g[S \ {Pick(S)}]
    BY <1>1 DEF SumsUp
  <1> QED
    BY <1>2, <1>3 DEF Pick

\* A sum of integers is an integer, a sum of naturals a natural.
THEOREM SumType ==
  ASSUME NEW f, NEW S, IsFiniteSet(S)
  PROVE  /\ (\A x \in S : f[x] \in Int) => SumOver(f, S) \in Int
         /\ (\A x \in S : f[x] \in Nat) => SumOver(f, S) \in Nat
  <1>1. ASSUME NEW N, N \in {Nat, Int}, \A x \in S : f[x] \in N
        PROVE  SumOver(f, S) \in N
    <2> DEFINE P == {T \in SUBSET S : SumOver(f, T) \in N}
    <2>1. {} \in P
      BY <1>1, SumEmpty
    <2>2. ASSUME NEW T \in SUBSET S, T # {}, \A x \in T : T \ {x} \in P PROVE T \in P
      <3>1. IsFiniteSet(T)
        BY FS_Subset
      <3>2. Pick(T) \in T /\ SumOver(f, T) = f[Pick(T)] + SumOver(f, T \ {Pick(T)})
        BY <2>2, <3>1, SumUnfolds
      <3> QED
        BY <1>1, <2>2, <3>2
    <2>3. \A T \in SUBSET S : T \in P
      <3> HIDE DEF P
      <3> QED BY <2>1, <2>2, SubsetInduction
    <2> QED
      BY <2>3
  <1> QED
    BY <1>1

\* Any element may be taken first: the sum does not depend on the order of
\* the picks.
THEOREM SumRemove ==
  ASSUME NEW f, NEW S, IsFiniteSet(S), \A x \in S : f[x] \in Int, NEW x \in S
  PROVE  SumOver(f, S) = f[x] + SumOver(f, S \ {x})
  <1> DEFINE P == {T \in SUBSET S : \A y \in T : SumOver(f, T) = f[y] + SumOver(f, T \ {y})}
  <1>1. {} \in P
    OBVIOUS
  <1>2. ASSUME NEW T \in SUBSET S, T # {}, \A y \in T : T \ {y} \in P PROVE T \in P
    <2>1. IsFiniteSet(T) /\ \A R \in SUBSET S : IsFiniteSet(R) /\ SumOver(f, R) \in Int
      BY FS_Subset, SumType
    <2> DEFINE p == Pick(T)
    <2>2. p \in T /\ SumOver(f, T) = f[p] + SumOver(f, T \ {p})
      BY <1>2, <2>1, SumUnfolds
    <2> SUFFICES ASSUME NEW y \in T, y # p PROVE SumOver(f, T) = f[y] + SumOver(f, T \ {y})
      BY <2>2
    <2> HIDE DEF p
    <2>3. SumOver(f, T \ {p}) = f[y] + SumOver(f, (T \ {p}) \ {y})
      BY <1>2, <2>2
    <2>4. SumOver(f, T \ {y}) = f[p] + SumOver(f, (T \ {y}) \ {p})
      BY <1>2, <2>2
    <2>5. SumOver(f, (T \ {p}) \ {y}) = SumOver(f, (T \ {y}) \ {p})
      <3>1. (T \ {p}) \ {y} = (T \ {y}) \ {p}
        OBVIOUS
      <3> QED
        BY <3>1, Zenon
    <2>6. SumOver(f, (T \ {y}) \ {p}) \in Int /\ f[p] \in Int /\ f[y] \in Int
      BY <2>1, <2>2
    <2> QED
      BY <2>2, <2>3, <2>4, <2>5, <2>6
  <1>3. \A T \in SUBSET S : T \in P
    <2> HIDE DEF P
    <2> QED BY <1>1, <1>2, SubsetInduction
  <1> QED
    BY <1>3

\* Adding an element adds its value.
THEOREM SumAdd ==
  ASSUME NEW f, NEW S, IsFiniteSet(S), NEW x, x \notin S, \A y \in S \cup {x} : f[y] \in Int
  PROVE  SumOver(f, S \cup {x}) = SumOver(f, S) + f[x]
  <1>1. IsFiniteSet(S \cup {x})
    BY FS_AddElement
  <1>2. SumOver(f, (S \cup {x}) \ {x}) = SumOver(f, S)
    <2>1. (S \cup {x}) \ {x} = S
      OBVIOUS
    <2> QED
      BY <2>1, Zenon
  <1>3. SumOver(f, S \cup {x}) = f[x] + SumOver(f, (S \cup {x}) \ {x})
    BY <1>1, SumRemove
  <1>4. SumOver(f, S) \in Int /\ f[x] \in Int
    BY SumType
  <1> QED
    BY <1>2, <1>3, <1>4

\* The sum depends only on the values on S.
THEOREM SumSame ==
  ASSUME NEW f, NEW g, NEW S, IsFiniteSet(S), \A x \in S : f[x] = g[x]
  PROVE  SumOver(f, S) = SumOver(g, S)
  <1> DEFINE P == {T \in SUBSET S : SumOver(f, T) = SumOver(g, T)}
  <1>1. {} \in P
    BY SumEmpty
  <1>2. ASSUME NEW T \in SUBSET S, T # {}, \A x \in T : T \ {x} \in P PROVE T \in P
    <2>1. IsFiniteSet(T)
      BY FS_Subset
    <2>2. /\ Pick(T) \in T
          /\ SumOver(f, T) = f[Pick(T)] + SumOver(f, T \ {Pick(T)})
          /\ SumOver(g, T) = g[Pick(T)] + SumOver(g, T \ {Pick(T)})
      BY <1>2, <2>1, SumUnfolds
    <2> QED
      BY <1>2, <2>2
  <1>3. \A T \in SUBSET S : T \in P
    <2> HIDE DEF P
    <2> QED BY <1>1, <1>2, SubsetInduction
  <1> QED
    BY <1>3

\* A sum of terms of at most b is at most b for each element.
THEOREM SumBound ==
  ASSUME NEW f, NEW S, IsFiniteSet(S), NEW b \in Nat,
         \A x \in S : f[x] \in Int /\ f[x] <= b
  PROVE  SumOver(f, S) <= b * Cardinality(S)
  <1> DEFINE P == {T \in SUBSET S : SumOver(f, T) <= b * Cardinality(T)}
  <1>1. {} \in P
    BY SumEmpty, FS_EmptySet
  <1>2. ASSUME NEW T \in SUBSET S, T # {}, \A x \in T : T \ {x} \in P PROVE T \in P
    <2>1. IsFiniteSet(T)
      BY FS_Subset
    <2> DEFINE p == Pick(T)
               R == T \ {p}
    <2>2. p \in T /\ SumOver(f, T) = f[p] + SumOver(f, R)
      BY <1>2, <2>1, SumUnfolds
    <2>3. /\ IsFiniteSet(R) /\ Cardinality(R) \in Nat /\ Cardinality(T) \in Nat
          /\ Cardinality(R) = Cardinality(T) - 1
      BY <2>1, <2>2, FS_RemoveElement, FS_CardinalityType
    <2>4. SumOver(f, R) <= b * Cardinality(R) /\ SumOver(f, R) \in Int
      BY <1>2, <2>2, <2>3, SumType
    <2>5. b * Cardinality(T) = b * Cardinality(R) + b /\ b * Cardinality(R) \in Int
      <3> HIDE DEF R
      <3>1. \A n \in Nat : b * (n + 1) = b * n + b /\ b * n \in Int
        OBVIOUS
      <3>2. Cardinality(T) = Cardinality(R) + 1
        BY <2>3
      <3> QED
        BY <2>3, <3>1, <3>2
    <2>6. f[p] \in Int /\ f[p] <= b
      BY <2>2
    <2> HIDE DEF p, R
    <2> QED
      BY <2>2, <2>4, <2>5, <2>6
  <1>3. \A T \in SUBSET S : T \in P
    <2> HIDE DEF P
    <2> QED BY <1>1, <1>2, SubsetInduction
  <1> QED
    BY <1>3
\* A sum of naturals over a part of T is no more than the sum over T.
THEOREM SumMonotonic ==
  ASSUME NEW f, NEW T, IsFiniteSet(T), \A x \in T : f[x] \in Nat, NEW S \in SUBSET T
  PROVE  SumOver(f, S) <= SumOver(f, T)
  <1> DEFINE P == {R \in SUBSET T : SumOver(f, T \ R) <= SumOver(f, T)}
  <1>0. \A R \in SUBSET T : IsFiniteSet(R) /\ SumOver(f, R) \in Nat
    BY FS_Subset, SumType
  <1>1. {} \in P
    <2>1. T \ {} = T
      OBVIOUS
    <2> QED BY <1>0, <2>1
  <1>2. ASSUME NEW R \in SUBSET T, R # {}, \A x \in R : R \ {x} \in P PROVE R \in P
    <2>1. PICK x \in R : TRUE
      BY <1>2
    <2>2. T \ (R \ {x}) = (T \ R) \cup {x}
      BY <2>1
    <2>3. SumOver(f, (T \ R) \cup {x}) = SumOver(f, T \ R) + f[x]
      <3>1. /\ IsFiniteSet(T \ R) /\ x \notin T \ R
            /\ \A y \in (T \ R) \cup {x} : f[y] \in Int
        BY <1>0, <2>1
      <3> QED BY <3>1, SumAdd
    <2>4. SumOver(f, (T \ R) \cup {x}) <= SumOver(f, T)
      BY <1>2, <2>1, <2>2
    <2> QED BY <1>0, <2>3, <2>4
  <1>3. \A R \in SUBSET T : R \in P
    <2> HIDE DEF P
    <2> QED BY <1>1, <1>2, SubsetInduction
  <1>4. S = T \ (T \ S)
    OBVIOUS
  <1> QED BY <1>3, <1>4

\* The sum over two disjoint sets.
THEOREM SumUnion ==
  ASSUME NEW f, NEW S, IsFiniteSet(S), NEW T, IsFiniteSet(T), S \cap T = {},
         \A x \in S \cup T : f[x] \in Int
  PROVE  SumOver(f, S \cup T) = SumOver(f, S) + SumOver(f, T)
  <1> DEFINE P == {R \in SUBSET T : SumOver(f, S \cup R) = SumOver(f, S) + SumOver(f, R)}
  <1>0. /\ SumOver(f, S) \in Int
        /\ \A R \in SUBSET T : IsFiniteSet(R) /\ IsFiniteSet(S \cup R) /\ SumOver(f, R) \in Int
    <2>1. ASSUME NEW R \in SUBSET T
          PROVE  IsFiniteSet(R) /\ IsFiniteSet(S \cup R) /\ SumOver(f, R) \in Int
      <3>1. IsFiniteSet(R)
        BY FS_Subset
      <3> QED BY <3>1, FS_Union, SumType
    <2> QED BY <2>1, SumType
  <1>1. {} \in P
    <2>1. S \cup {} = S
      OBVIOUS
    <2> QED BY <1>0, <2>1, SumEmpty
  <1>2. ASSUME NEW R \in SUBSET T, R # {}, \A x \in R : R \ {x} \in P PROVE R \in P
    <2>1. PICK x \in R : TRUE
      BY <1>2
    <2>2. SumOver(f, S \cup (R \ {x})) = SumOver(f, S) + SumOver(f, R \ {x})
      BY <1>2, <2>1
    <2>3. SumOver(f, R) = f[x] + SumOver(f, R \ {x})
      <3>1. IsFiniteSet(R) /\ \A y \in R : f[y] \in Int
        BY <1>0
      <3> QED BY <3>1, SumRemove
    <2>4. SumOver(f, S \cup R) = f[x] + SumOver(f, S \cup (R \ {x}))
      <3>1. (S \cup R) \ {x} = S \cup (R \ {x}) /\ x \in S \cup R
        OBVIOUS
      <3>2. SumOver(f, S \cup R) = f[x] + SumOver(f, (S \cup R) \ {x})
        <4> DEFINE U == S \cup R
        <4>1. IsFiniteSet(U) /\ x \in U /\ \A y \in U : f[y] \in Int
          BY <1>0
        <4> HIDE DEF U
        <4>2. SumOver(f, U) = f[x] + SumOver(f, U \ {x})
          BY <4>1, SumRemove
        <4> QED BY <4>2 DEF U
      <3> QED BY <3>1, <3>2
    <2>5. f[x] \in Int /\ SumOver(f, R \ {x}) \in Int
      BY <1>0
    <2> QED BY <1>0, <2>2, <2>3, <2>4, <2>5
  <1>3. T \in P
    <2> HIDE DEF P
    <2> QED BY <1>1, <1>2, SubsetInduction
  <1> QED BY <1>3
=============================================================================
