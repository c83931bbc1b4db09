---------------------------- MODULE PackageProofs ----------------------------
(***************************************************************************)
(* Proofs about Package for every set of checkpoints, alignment and number *)
(* of attempts: type correctness, that a conversion touches no directory   *)
(* but its own, what a conversion that returned has left behind, that a    *)
(* runtime can open it, and that a runtime that opened a directory         *)
(* computes with the checkpoint's numbers.                                 *)
(*                                                                         *)
(* The last two rest on one fact: the checkpoint and the encoding          *)
(* determine the package, stage by stage, so whatever an attempt has       *)
(* packed, left on disk or given to a runtime is that package or a         *)
(* beginning of one of its files.  The first parts say what the package    *)
(* is, as lemmas about the operators of Checkpoint and Package.            *)
(***************************************************************************)
EXTENDS Package, FiniteSums

-----------------------------------------------------------------------------
(* Sequences, whatever they hold. *)

IsSeq(s) == s \in Seq(Range(s))

\* A sequence is a function on the numbers up to its length.
LEMMA SeqFacts ==
  ASSUME NEW s, IsSeq(s)
  PROVE  /\ Len(s) \in Nat /\ DOMAIN s = 1..Len(s) /\ s = [i \in 1..Len(s) |-> s[i]]
         /\ (s = <<>>) = (Len(s) = 0)
BY DEF IsSeq

\* A sequence over any set is one.
LEMMA SeqIsSeq == ASSUME NEW S, NEW s \in Seq(S) PROVE IsSeq(s)
<1>1. Len(s) \in Nat /\ s \in [1..Len(s) -> Range(s)]
  BY DEF Range
<1> QED BY <1>1 DEF IsSeq

\* Its elements are in that set.
LEMMA SeqElement == ASSUME NEW S, NEW s \in Seq(S), NEW i \in DOMAIN s PROVE s[i] \in S
OBVIOUS

\* A function on the numbers up to n is one.
LEMMA FunctionIsSeq ==
  ASSUME NEW n \in Nat, NEW f, f = [i \in 1..n |-> f[i]]
  PROVE  IsSeq(f) /\ Len(f) = n
<1>1. DOMAIN f = 1..n /\ f \in [1..n -> Range(f)]
  BY DEF Range
<1>2. f \in Seq(Range(f))
  BY <1>1
<1>3. Len(f) = n
  BY <1>1, <1>2
<1> QED BY <1>2, <1>3 DEF IsSeq

\* Two sequences, one after the other.
Cat(s, t) == s \o t

\* Their elements and lengths.
LEMMA ConcatFacts ==
  ASSUME NEW s, NEW t, IsSeq(s), IsSeq(t)
  PROVE  /\ IsSeq(Cat(s, t)) /\ Len(Cat(s, t)) = Len(s) + Len(t)
         /\ Range(Cat(s, t)) = Range(s) \cup Range(t)
         /\ \A i \in 1..Len(s) : Cat(s, t)[i] = s[i]
         /\ \A i \in 1..Len(t) : Cat(s, t)[Len(s) + i] = t[i]
<1> DEFINE S == Range(s) \cup Range(t)
           u == Cat(s, t)
<1>1. s \in Seq(S) /\ t \in Seq(S) /\ Len(s) \in Nat /\ Len(t) \in Nat
  BY DEF IsSeq
<1>2. u \in Seq(S) /\ Len(u) = Len(s) + Len(t)
  BY <1>1 DEF Cat
<1>3. \A i \in 1..Len(s) : u[i] = s[i]
  BY <1>1 DEF Cat
<1>4. \A i \in 1..Len(t) : u[Len(s) + i] = t[i]
  <2> HIDE DEF S
  <2> QED BY <1>1 DEF Cat
<1>5. DOMAIN s = 1..Len(s) /\ DOMAIN t = 1..Len(t) /\ DOMAIN u = 1..(Len(s) + Len(t))
  BY <1>1, <1>2
<1>6. Range(u) = S
  <2> HIDE DEF u
  <2>1. ASSUME NEW i \in DOMAIN u PROVE u[i] \in Range(s) \cup Range(t)
    <3>1. CASE i <= Len(s)
      BY <1>1, <1>3, <1>5, <2>1, <3>1 DEF Range
    <3>2. CASE i > Len(s)
      <4>1. i - Len(s) \in 1..Len(t) /\ Len(s) + (i - Len(s)) = i
        BY <1>1, <1>5, <2>1, <3>2
      <4> QED BY <1>4, <1>5, <4>1 DEF Range
    <3> QED BY <1>1, <1>5, <2>1, <3>1, <3>2
  <2>2. ASSUME NEW i \in DOMAIN s PROVE s[i] \in Range(u)
    <3>1. i \in DOMAIN u
      BY <1>1, <1>5, <2>2
    <3> QED BY <1>3, <1>5, <3>1, <2>2 DEF Range
  <2>3. ASSUME NEW i \in DOMAIN t PROVE t[i] \in Range(u)
    <3>1. Len(s) + i \in DOMAIN u
      BY <1>1, <1>5, <2>3
    <3> QED BY <1>4, <1>5, <3>1, <2>3 DEF Range
  <2> QED BY <2>1, <2>2, <2>3 DEF Range, S
<1>7. IsSeq(u)
  BY <1>2, SeqIsSeq
<1> QED BY <1>2, <1>3, <1>4, <1>6, <1>7

\* A sequence with one more element.
LEMMA AppendFacts ==
  ASSUME NEW s, IsSeq(s), NEW x
  PROVE  /\ IsSeq(Append(s, x)) /\ Len(Append(s, x)) = Len(s) + 1
         /\ \A i \in 1..Len(s) : Append(s, x)[i] = s[i]
         /\ Append(s, x)[Len(s) + 1] = x
<1>1. s \in Seq(Range(s) \cup {x}) /\ Len(s) \in Nat
  BY DEF IsSeq
<1>2. Append(s, x) \in Seq(Range(s) \cup {x})
  BY <1>1
<1>3. IsSeq(Append(s, x))
  BY <1>2, SeqIsSeq
<1> QED BY <1>1, <1>3

-----------------------------------------------------------------------------
(* FlattenSeq of SequencesExt. *)

\* The function it defines on the first n of the sequences w.
FlattenStep(g, w, i) == IF i = 1 THEN w[i] ELSE Cat(g[i - 1], w[i])
Flattens(g, w, n) == g = [i \in 1..n |-> FlattenStep(g, w, i)]

\* The function exists.
LEMMA FlattenExists == ASSUME NEW w, NEW n \in Nat PROVE \E g : Flattens(g, w, n)
<1> DEFINE P == {k \in Nat : \E g : Flattens(g, w, k)}
<1>1. 0 \in P
  <2>1. Flattens(<<>>, w, 0)
    BY DEF Flattens
  <2> QED BY <2>1
<1>2. ASSUME NEW k \in Nat, k \in P PROVE k + 1 \in P
  <2>1. PICK g : Flattens(g, w, k)
    BY <1>2
  <2> DEFINE h == [i \in 1..(k + 1) |-> FlattenStep(g, w, i)]
  <2>2. \A i \in 1..k : h[i] = g[i]
    <3>1. \A i \in 1..k : g[i] = FlattenStep(g, w, i)
      BY <2>1 DEF Flattens
    <3> QED BY <3>1
  <2>3. Flattens(h, w, k + 1)
    <3>1. \A i \in 1..(k + 1) : FlattenStep(g, w, i) = FlattenStep(h, w, i)
      <4>1. \A i \in 1..(k + 1) : i # 1 => i - 1 \in 1..k
        OBVIOUS
      <4> HIDE DEF h
      <4> QED BY <2>2, <4>1 DEF FlattenStep
    <3> QED BY <3>1 DEF Flattens
  <2> QED BY <2>3
<1>3. \A k \in Nat : k \in P
  <2> HIDE DEF P
  <2> QED BY <1>1, <1>2, NatSetInduction
<1> QED BY <1>3

\* It has one value on what is in both domains.
LEMMA FlattenAgrees ==
  ASSUME NEW w, NEW n \in Nat, NEW k \in Nat, NEW g, NEW h, Flattens(g, w, n), Flattens(h, w, k)
  PROVE  \A i \in 1..n : i <= k => g[i] = h[i]
<1> DEFINE P == {j \in Nat : j \in 1..n /\ j <= k => g[j] = h[j]}
<1>0. /\ \A i \in 1..n : g[i] = FlattenStep(g, w, i)
      /\ \A i \in 1..k : h[i] = FlattenStep(h, w, i)
  BY DEF Flattens
<1>1. 0 \in P
  OBVIOUS
<1>2. ASSUME NEW j \in Nat, j \in P PROVE j + 1 \in P
  <2> SUFFICES ASSUME j + 1 \in 1..n, j + 1 <= k PROVE g[j + 1] = h[j + 1]
    OBVIOUS
  <2>1. g[j + 1] = FlattenStep(g, w, j + 1) /\ h[j + 1] = FlattenStep(h, w, j + 1)
    BY <1>0
  <2>2. j # 0 => g[j] = h[j]
    BY <1>2
  <2>3. (j + 1 = 1) = (j = 0) /\ j + 1 - 1 = j
    OBVIOUS
  <2> QED BY <2>1, <2>2, <2>3 DEF FlattenStep
<1>3. \A j \in Nat : j \in P
  <2> HIDE DEF P
  <2> QED BY <1>1, <1>2, NatSetInduction
<1> QED BY <1>3

\* FlattenSeq of the first n of the sequences w.
Flat(w, n) == FlattenSeq([i \in 1..n |-> w[i]])

\* The value of FlattenSeq is the last of the function.
LEMMA FlatValue ==
  ASSUME NEW w, NEW n \in Nat
  PROVE  /\ n = 0 => Flat(w, n) = <<>>
         /\ n # 0 => \E g : Flattens(g, w, n) /\ Flat(w, n) = g[n]
<1> DEFINE v == [i \in 1..n |-> w[i]]
           f == CHOOSE f : f = [i \in 1..Len(v) |-> IF i = 1 THEN v[i] ELSE Cat(f[i - 1], v[i])]
<1>0. IsSeq(v) /\ Len(v) = n
  BY FunctionIsSeq
<1>1. ASSUME n = 0 PROVE Flat(w, n) = <<>>
  BY <1>0, <1>1 DEF Flat, FlattenSeq
<1>2. ASSUME n # 0 PROVE \E g : Flattens(g, w, n) /\ Flat(w, n) = g[n]
  <2>1. \E g : Flattens(g, v, n)
    BY FlattenExists
  <2>2. Flattens(f, v, n)
    <3> HIDE DEF v
    <3> QED BY <1>0, <2>1 DEF Flattens, FlattenStep
  <2>3. FlattenSeq(v) = f[n]
    <3>1. Len(v) = n
      BY <1>0
    <3> HIDE DEF v
    <3> QED BY <1>2, <3>1 DEF FlattenSeq, Cat
  <2>4. Flattens(f, w, n)
    <3>1. \A i \in 1..n : FlattenStep(f, v, i) = FlattenStep(f, w, i)
      <4> HIDE DEF f
      <4> QED BY DEF FlattenStep
    <3> HIDE DEF f, v
    <3> QED BY <2>2, <3>1 DEF Flattens
  <2> HIDE DEF f
  <2> QED BY <2>3, <2>4 DEF Flat
<1> QED BY <1>1, <1>2

\* Flat adds one sequence after the other.
LEMMA FlatUnfolds ==
  ASSUME NEW w, NEW N \in Nat, \A i \in 1..N : IsSeq(w[i])
  PROVE  /\ Flat(w, 0) = <<>>
         /\ \A n \in 0..N : IsSeq(Flat(w, n))
         /\ \A n \in 1..N : Flat(w, n) = Cat(Flat(w, n - 1), w[n])
<1>1. Flat(w, 0) = <<>>
  BY FlatValue
<1>2. IsSeq(<<>>) /\ \A s : IsSeq(s) => Cat(<<>>, s) = s
  <2>1. <<>> \in Seq({})
    OBVIOUS
  <2> QED BY <2>1, SeqIsSeq DEF IsSeq, Cat
<1>3. ASSUME NEW n \in 1..N PROVE Flat(w, n) = Cat(Flat(w, n - 1), w[n])
  <2>1. PICK g : Flattens(g, w, n) /\ Flat(w, n) = g[n]
    BY FlatValue
  <2>2. g[n] = FlattenStep(g, w, n)
    BY <2>1 DEF Flattens
  <2>3. CASE n = 1
    <3>1. g[n] = w[n] /\ IsSeq(w[n])
      BY <1>3, <2>2, <2>3 DEF FlattenStep
    <3>2. Flat(w, n - 1) = <<>>
      BY <1>1, <2>3
    <3> QED BY <1>2, <2>1, <3>1, <3>2
  <2>4. CASE n # 1
    <3>1. PICK h : Flattens(h, w, n - 1) /\ Flat(w, n - 1) = h[n - 1]
      BY <2>4, FlatValue
    <3>2. h[n - 1] = g[n - 1]
      <4>1. n \in Nat /\ n - 1 \in Nat /\ n - 1 \in 1..(n - 1) /\ n - 1 <= n
        BY <2>4
      <4> QED BY <2>1, <3>1, <4>1, FlattenAgrees
    <3>3. FlattenStep(g, w, n) = Cat(g[n - 1], w[n])
      BY <2>4, Zenon DEF FlattenStep
    <3> QED BY <2>1, <2>2, <3>1, <3>2, <3>3, Zenon
  <2> QED BY <2>3, <2>4
<1> DEFINE P == {n \in Nat : n <= N => IsSeq(Flat(w, n))}
<1>4. 0 \in P
  BY <1>1, <1>2
<1>5. ASSUME NEW n \in Nat, n \in P PROVE n + 1 \in P
  <2>1. n + 1 \in Nat
    BY <1>5
  <2> SUFFICES ASSUME n + 1 <= N PROVE IsSeq(Flat(w, n + 1))
    BY <2>1, Zenon
  <2>2. n + 1 \in 1..N /\ n <= N /\ n + 1 - 1 = n
    <3> HIDE DEF P
    <3> QED BY <1>5
  <2>3. IsSeq(Flat(w, n)) /\ IsSeq(w[n + 1])
    BY <1>5, <2>2
  <2>4. Flat(w, n + 1) = Cat(Flat(w, n), w[n + 1])
    BY <1>3, <2>2
  <2>5. IsSeq(Cat(Flat(w, n), w[n + 1]))
    BY <2>3, ConcatFacts
  <2> QED BY <2>4, <2>5
<1>6. \A n \in Nat : n \in P
  <2> HIDE DEF P
  <2> QED BY <1>4, <1>5, NatSetInduction
<1> QED BY <1>1, <1>3, <1>6

\* The lengths of what Flat has put together so far grow.
LEMMA FlatGrows ==
  ASSUME NEW w, NEW N \in Nat, \A i \in 1..N : IsSeq(w[i]), NEW n \in 1..N
  PROVE  /\ Len(Flat(w, n - 1)) \in Nat /\ Len(Flat(w, N)) \in Nat
         /\ Len(Flat(w, n - 1)) + Len(w[n]) <= Len(Flat(w, N))
         /\ \A i \in 1..Len(w[n]) : Flat(w, N)[Len(Flat(w, n - 1)) + i] = w[n][i]
<1> DEFINE Same(k) ==
      /\ Len(Flat(w, n)) <= Len(Flat(w, k))
      /\ \A i \in 1..Len(Flat(w, n)) : Flat(w, k)[i] = Flat(w, n)[i]
           P == {k \in Nat : n <= k /\ k <= N => Same(k)}
<1>0. \A k \in 0..N : IsSeq(Flat(w, k)) /\ Len(Flat(w, k)) \in Nat
  BY FlatUnfolds, SeqFacts
<1>1. ASSUME NEW k \in Nat, k \in P PROVE k + 1 \in P
  <2>1. k + 1 \in Nat
    BY <1>1
  <2> SUFFICES ASSUME n <= k + 1, k + 1 <= N PROVE Same(k + 1)
    BY <2>1, Zenon
  <2>2. CASE k + 1 = n
    BY <2>2, <1>0
  <2>3. CASE k + 1 # n
    <3>1. Same(k)
      BY <1>1, <2>3
    <3>2. k + 1 \in 1..N /\ k \in 0..N /\ n \in 0..N /\ k + 1 - 1 = k
      <4> HIDE DEF P
      <4> QED BY <1>1
    <3> HIDE DEF P
    <3>3. Flat(w, k + 1) = Cat(Flat(w, k), w[k + 1])
      BY <3>2, FlatUnfolds
    <3>4. IsSeq(Flat(w, k)) /\ IsSeq(w[k + 1])
      BY <1>0, <3>2
    <3>5. /\ Len(Flat(w, k + 1)) = Len(Flat(w, k)) + Len(w[k + 1])
          /\ \A i \in 1..Len(Flat(w, k)) : Flat(w, k + 1)[i] = Flat(w, k)[i]
      BY <3>3, <3>4, ConcatFacts
    <3>6. Len(w[k + 1]) \in Nat /\ Len(Flat(w, k)) \in Nat /\ Len(Flat(w, n)) \in Nat
      BY <1>0, <3>2, <3>4, SeqFacts
    <3> QED BY <3>1, <3>5, <3>6
  <2> QED BY <2>2, <2>3
<1>2. Same(N)
  <2>1. 0 \in P
    OBVIOUS
  <2>2. \A k \in Nat : k \in P
    <3> HIDE DEF P
    <3> QED BY <1>1, <2>1, NatSetInduction
  <2> QED BY <2>2
<1>3. /\ Flat(w, n) = Cat(Flat(w, n - 1), w[n])
      /\ IsSeq(Flat(w, n - 1)) /\ IsSeq(w[n])
  BY <1>0, FlatUnfolds
<1>4. /\ Len(Flat(w, n)) = Len(Flat(w, n - 1)) + Len(w[n])
      /\ \A i \in 1..Len(w[n]) : Flat(w, n)[Len(Flat(w, n - 1)) + i] = w[n][i]
  <2> DEFINE a == Flat(w, n - 1)
             b == w[n]
  <2>1. Flat(w, n) = Cat(a, b) /\ IsSeq(a) /\ IsSeq(b)
    BY <1>3
  <2> HIDE DEF a, b
  <2>2. /\ Len(Cat(a, b)) = Len(a) + Len(b)
        /\ \A i \in 1..Len(b) : Cat(a, b)[Len(a) + i] = b[i]
    BY <2>1, ConcatFacts
  <2> QED BY <2>1, <2>2 DEF a, b
<1>5. Len(Flat(w, n - 1)) \in Nat /\ Len(w[n]) \in Nat /\ Len(Flat(w, N)) \in Nat
  BY <1>0, <1>3, SeqFacts
<1>6. Len(Flat(w, n - 1)) + Len(w[n]) <= Len(Flat(w, N))
  BY <1>2, <1>4, <1>5
<1>7. ASSUME NEW i \in 1..Len(w[n])
      PROVE  Flat(w, N)[Len(Flat(w, n - 1)) + i] = w[n][i]
  <2>1. Len(Flat(w, n - 1)) + i \in 1..Len(Flat(w, n))
    BY <1>4, <1>5
  <2> QED BY <1>2, <1>4, <2>1
<1> QED BY <1>5, <1>6, <1>7

\* Flat has what its sequences have.
LEMMA FlatRange ==
  ASSUME NEW w, NEW N \in Nat, \A i \in 1..N : IsSeq(w[i])
  PROVE  Range(Flat(w, N)) = UNION {Range(w[i]) : i \in 1..N}
<1> DEFINE P == {k \in Nat : k <= N => Range(Flat(w, k)) = UNION {Range(w[i]) : i \in 1..k}}
<1>1. 0 \in P
  <2>1. Range(Flat(w, 0)) = {}
    BY FlatUnfolds DEF Range
  <2> QED BY <2>1
<1>2. ASSUME NEW k \in Nat, k \in P PROVE k + 1 \in P
  <2>1. k + 1 \in Nat
    BY <1>2
  <2> SUFFICES ASSUME k + 1 <= N
               PROVE  Range(Flat(w, k + 1)) = UNION {Range(w[i]) : i \in 1..(k + 1)}
    BY <2>1, Zenon
  <2>2. k + 1 \in 1..N /\ k \in 0..N /\ k <= N /\ k + 1 - 1 = k
    <3> HIDE DEF P
    <3> QED BY <1>2
  <2>3. Range(Flat(w, k)) = UNION {Range(w[i]) : i \in 1..k}
    BY <1>2, <2>2, Zenon
  <2> HIDE DEF P
  <2>4. Flat(w, k + 1) = Cat(Flat(w, k), w[k + 1]) /\ IsSeq(Flat(w, k)) /\ IsSeq(w[k + 1])
    BY <2>2, FlatUnfolds
  <2>5. Range(Flat(w, k + 1)) = Range(Flat(w, k)) \cup Range(w[k + 1])
    BY <2>4, ConcatFacts
  <2>6. 1..(k + 1) = 1..k \cup {k + 1}
    BY <1>2
  <2> QED BY <2>3, <2>5, <2>6
<1>3. \A k \in Nat : k \in P
  <2> HIDE DEF P
  <2> QED BY <1>1, <1>2, NatSetInduction
<1> QED BY <1>3

-----------------------------------------------------------------------------
(* The importer. *)

\* A finite set of numbers that is not empty has a greatest one.
LEMMA GreatestNumber ==
  ASSUME NEW S, IsFiniteSet(S), S \subseteq Nat, S # {}
  PROVE  \E m \in S : \A x \in S : x <= m
<1> DEFINE Has1(T) == T = {} \/ \E m \in T : \A x \in T : x <= m
           P == {T \in SUBSET S : Has1(T)}
<1>1. {} \in P
  OBVIOUS
<1>2. ASSUME NEW T \in SUBSET S, T # {}, \A x \in T : T \ {x} \in P PROVE T \in P
  <2>1. PICK y \in T : TRUE
    BY <1>2
  <2>2. Has1(T \ {y})
    BY <1>2, <2>1
  <2>3. CASE T \ {y} = {}
    BY <2>1, <2>3
  <2>4. CASE T \ {y} # {}
    <3>1. PICK m \in T \ {y} : \A x \in T \ {y} : x <= m
      BY <2>2, <2>4
    <3>2. CASE y <= m
      BY <3>1, <3>2
    <3>3. CASE ~(y <= m)
      <4>1. \A x \in T : x <= y
        BY <3>1, <3>3
      <4> QED BY <4>1, <2>1
    <3> QED BY <3>2, <3>3
  <2> QED BY <2>3, <2>4
<1>3. \A T \in SUBSET S : T \in P
  <2> HIDE DEF P
  <2> QED BY <1>1, <1>2, SubsetInduction
<1> QED BY <1>3

\* s lists S in ascending order.
Ascends(s, S) ==
  /\ s \in SetToSeqs(S)
  /\ \A i, j \in 1..Cardinality(S) : i < j => s[i] < s[j]

\* A finite set of numbers has such a list.
LEMMA AscendingExists ==
  ASSUME NEW S, IsFiniteSet(S), S \subseteq Nat
  PROVE  \E s : Ascends(s, S)
<1> DEFINE P == {T \in SUBSET S : \E s : Ascends(s, T)}
<1>1. {} \in P
  <2>1. Ascends(<<>>, {})
    <3>1. Cardinality({}) = 0
      BY FS_EmptySet
    <3>2. 1..0 = {} /\ <<>> \in [{} -> {}]
      OBVIOUS
    <3> QED BY <3>1, <3>2 DEF Ascends, SetToSeqs
  <2> QED BY <2>1
<1>2. ASSUME NEW T \in SUBSET S, T # {}, \A x \in T : T \ {x} \in P PROVE T \in P
  <2>1. IsFiniteSet(T) /\ T \subseteq Nat
    BY FS_Subset
  <2>2. PICK m \in T : \A x \in T : x <= m
    BY <1>2, <2>1, GreatestNumber
  <2>3. PICK s : Ascends(s, T \ {m})
    BY <1>2, <2>2
  <2> DEFINE n == Cardinality(T)
             t == [i \in 1..n |-> IF i = n THEN m ELSE s[i]]
  <2>4. n \in Nat /\ n > 0 /\ Cardinality(T \ {m}) = n - 1
    BY <2>1, <2>2, FS_RemoveElement, FS_CardinalityType, FS_EmptySet
  <2>5. /\ \A i \in 1..(n - 1) : s[i] \in T \ {m}
        /\ \A i, j \in 1..(n - 1) : i # j => s[i] # s[j]
        /\ \A i, j \in 1..(n - 1) : i < j => s[i] < s[j]
    <3> HIDE DEF n
    <3> QED BY <2>3, <2>4 DEF Ascends, SetToSeqs
  <2>6. Ascends(t, T)
    <3> HIDE DEF n
    <3>1. \A i \in 1..n : (i = n /\ t[i] = m) \/ (i \in 1..(n - 1) /\ t[i] = s[i])
      BY <2>4
    <3>2. t \in [1..n -> T]
      BY <2>2, <2>4, <2>5
    <3> HIDE DEF t
    <3>3. \A i, j \in 1..n : i # j => t[i] # t[j]
      BY <2>4, <2>5, <3>1
    <3>4. \A i, j \in 1..n : i < j => t[i] < t[j]
      <4> SUFFICES ASSUME NEW i \in 1..n, NEW j \in 1..n, i < j PROVE t[i] < t[j]
        OBVIOUS
      <4>a. i # n /\ i \in 1..(n - 1)
        BY <2>4
      <4>b. t[i] = s[i] /\ s[i] \in T \ {m}
        BY <2>5, <3>1, <4>a
      <4>1. i \in 1..(n - 1) /\ t[i] = s[i] /\ s[i] \in T \ {m} /\ s[i] \in Nat /\ m \in Nat
        BY <2>1, <4>a, <4>b
      <4>2. CASE j = n
        BY <2>2, <2>4, <3>1, <4>1, <4>2
      <4>3. CASE j # n
        BY <2>4, <2>5, <3>1, <4>1, <4>3
      <4> QED BY <4>2, <4>3
    <3> QED BY <3>2, <3>3, <3>4 DEF Ascends, SetToSeqs, n
  <2> QED BY <2>6
<1>3. S \in P
  <2> HIDE DEF P
  <2> QED BY <1>1, <1>2, SubsetInduction
<1> QED BY <1>3

\* Ascending lists the numbers of a set.
LEMMA AscendingFacts ==
  ASSUME NEW S, IsFiniteSet(S), S \subseteq Nat
  PROVE  /\ IsSeq(Ascending(S)) /\ Len(Ascending(S)) \in Nat
         /\ DOMAIN Ascending(S) = 1..Len(Ascending(S))
         /\ \A i \in DOMAIN Ascending(S) : Ascending(S)[i] \in S
<1> DEFINE s == Ascending(S)
<1>1. s \in SetToSeqs(S)
  BY AscendingExists DEF Ascends, Ascending
<1>2. Cardinality(S) \in Nat /\ s \in [1..Cardinality(S) -> S]
  BY <1>1, FS_CardinalityType DEF SetToSeqs
<1>3. s \in Seq(S)
  <2> HIDE DEF s
  <2> QED BY <1>2
<1> HIDE DEF s
<1>4. IsSeq(s) /\ Len(s) \in Nat /\ DOMAIN s = 1..Len(s) /\ \A i \in DOMAIN s : s[i] \in S
  BY <1>3, SeqIsSeq
<1> QED BY <1>4 DEF s

\* A tensor of a checkpoint is at its place in one of the shards, which passed
\* SafeTensors::inspectFile.
IsTensorOf(c, t) ==
  \E s \in DOMAIN c.shards : \E i \in DOMAIN c.shards[s].tensors :
    t = ShardTensors(c, s)[i] /\ Inspects(c.shards[s])

\* The tensors of a checkpoint are listed in a sequence, and each is in a shard.
LEMMA TensorsFacts ==
  ASSUME NEW c, IsCheckpoint(c), Opens(c)
  PROVE  IsSeq(Tensors(c)) /\ \A t \in Range(Tensors(c)) : IsTensorOf(c, t)
<1> DEFINE files == Ascending(Files(c))
           w == [i \in DOMAIN files |-> ShardTensors(c, files[i])]
<1>1. c.shards \in Seq([header : Nat, bytes : Nat, tensors : Seq(ShardTensor)])
  BY DEF IsCheckpoint
<1>2. Files(c) \subseteq DOMAIN c.shards /\ \A s \in Files(c) : Inspects(c.shards[s])
  BY DEF Opens
<1>3. IsFiniteSet(Files(c)) /\ Files(c) \subseteq Nat
  <2>1. DOMAIN c.shards = 1..Len(c.shards) /\ Len(c.shards) \in Nat
    BY <1>1
  <2>2. IsFiniteSet(1..Len(c.shards))
    <3> DEFINE n == Len(c.shards)
    <3>1. n \in Int /\ 1 \in Int
      BY <2>1
    <3> HIDE DEF n
    <3>2. IsFiniteSet(1..n)
      BY <3>1, FS_Interval
    <3> QED BY <3>2 DEF n
  <2>3. Files(c) \in SUBSET (1..Len(c.shards))
    BY <1>2, <2>1
  <2>4. IsFiniteSet(Files(c))
    BY <2>2, <2>3, FS_Subset
  <2>5. 1..Len(c.shards) \subseteq Nat
    BY <2>1
  <2> QED BY <2>3, <2>4, <2>5
<1>4. /\ IsSeq(files) /\ Len(files) \in Nat /\ DOMAIN files = 1..Len(files)
      /\ \A i \in DOMAIN files : files[i] \in Files(c)
  BY <1>3, AscendingFacts
<1> HIDE DEF files
<1>5. ASSUME NEW i \in 1..Len(files) PROVE IsSeq(w[i])
  <2> DEFINE ts == c.shards[files[i]].tensors
  <2>1. files[i] \in DOMAIN c.shards
    BY <1>2, <1>4
  <2>2. ts \in Seq(ShardTensor)
    <3>1. c.shards[files[i]] \in [header : Nat, bytes : Nat, tensors : Seq(ShardTensor)]
      BY <1>1, <2>1, SeqElement
    <3> QED BY <3>1
  <2>3. DOMAIN ts = 1..Len(ts) /\ Len(ts) \in Nat
    BY <2>2
  <2>4. w[i] = ShardTensors(c, files[i])
    BY <1>4
  <2>5. w[i] = [j \in 1..Len(ts) |-> w[i][j]]
    <3> HIDE DEF w
    <3> QED BY <2>3, <2>4 DEF ShardTensors
  <2> HIDE DEF w, ts
  <2> QED BY <2>3, <2>5, FunctionIsSeq
<1>6. Tensors(c) = Flat(w, Len(files))
  <2>1. Tensors(c) = FlattenSeq(w)
    BY DEF Tensors, files
  <2>2. w = [i \in 1..Len(files) |-> w[i]]
    BY <1>4
  <2> QED BY <2>1, <2>2 DEF Flat
<1>7. ASSUME NEW t \in Range(Tensors(c)) PROVE IsTensorOf(c, t)
  <2>1. PICK i \in 1..Len(files) : t \in Range(w[i])
    <3> HIDE DEF w
    <3>1. Range(Flat(w, Len(files))) = UNION {Range(w[i]) : i \in 1..Len(files)}
      BY <1>4, <1>5, FlatRange
    <3> QED BY <1>6, <1>7, <3>1
  <2>2. w[i] = ShardTensors(c, files[i]) /\ files[i] \in DOMAIN c.shards
        /\ Inspects(c.shards[files[i]])
    BY <1>2, <1>4
  <2>3. PICK j \in DOMAIN ShardTensors(c, files[i]) : t = ShardTensors(c, files[i])[j]
    BY <2>1, <2>2 DEF Range
  <2>4. j \in DOMAIN c.shards[files[i]].tensors
    BY <2>3 DEF ShardTensors
  <2> QED BY <2>2, <2>3, <2>4 DEF IsTensorOf
<1>8. IsSeq(Flat(w, Len(files)))
  <2> HIDE DEF w
  <2> QED BY <1>4, <1>5, FlatUnfolds
<1> QED BY <1>6, <1>7, <1>8

\* What the headers say of a tensor has the types they promise.
LEMMA TensorTypes ==
  ASSUME NEW c, IsCheckpoint(c), NEW s \in DOMAIN c.shards,
         NEW i \in DOMAIN c.shards[s].tensors, Inspects(c.shards[s])
  PROVE  LET t == ShardTensors(c, s)[i]
             u == c.shards[s].tensors[i] IN
         /\ c.shards[s].header \in Nat /\ u.start \in Nat /\ u.end \in Nat /\ u.start < u.end
         /\ t.name = u.name /\ t.name \in TensorName /\ t.file = s
         /\ t.offset = c.shards[s].header + u.start /\ t.size = u.end - u.start
         /\ t.offset \in Nat /\ t.size \in Nat /\ t.size # 0
         /\ t.dtype \in DType /\ t.quantization = NotQuantized /\ t.shape \in Seq(Nat)
         /\ RequiredBytes(t.shape, t.dtype) = t.size
<1> DEFINE h == c.shards[s]
           u == h.tensors[i]
           t == ShardTensors(c, s)[i]
<1>1. h \in [header : Nat, bytes : Nat, tensors : Seq(ShardTensor)]
  BY SeqElement DEF IsCheckpoint
<1>2. h.header \in Nat /\ h.tensors \in Seq(ShardTensor)
  BY <1>1
<1>3. u \in ShardTensor
  <2> HIDE DEF h
  <2> QED BY <1>2, SeqElement DEF h
<1>4. t = [name |-> u.name, file |-> s, offset |-> h.header + u.start,
           size |-> u.end - u.start, dtype |-> u.dtype, shape |-> u.shape,
           quantization |-> NotQuantized]
  BY DEF ShardTensors
<1>5. /\ u.start < u.end /\ u.dtype \in DType
      /\ RequiredBytes(u.shape, u.dtype) = u.end - u.start
  BY DEF Inspects, Range
<1> HIDE DEF h, u, t
<1>6. u.name \in TensorName /\ u.shape \in Seq(Nat) /\ u.start \in Nat /\ u.end \in Nat
  BY <1>3 DEF ShardTensor
<1>7. /\ t.name = u.name /\ t.file = s /\ t.offset = h.header + u.start
      /\ t.size = u.end - u.start /\ t.dtype = u.dtype /\ t.shape = u.shape
      /\ t.quantization = NotQuantized
  BY <1>4
<1>8. t.offset \in Nat /\ t.size \in Nat /\ t.size # 0
  BY <1>2, <1>5, <1>6, <1>7
<1> QED BY <1>2, <1>5, <1>6, <1>7, <1>8 DEF h, u, t

\* A position inside a tensor is in no other tensor of its shard, so reading the
\* range of a tensor gives the tensor's bytes.
LEMMA ByteFacts ==
  ASSUME NEW c, IsCheckpoint(c), NEW s \in DOMAIN c.shards,
         NEW i \in DOMAIN c.shards[s].tensors, Inspects(c.shards[s]),
         NEW p \in Nat,
         p >= ShardTensors(c, s)[i].offset,
         p < ShardTensors(c, s)[i].offset + ShardTensors(c, s)[i].size
  PROVE  ByteAt(c, s, p) = Cell(ShardTensors(c, s)[i].name, p - ShardTensors(c, s)[i].offset)
<1> DEFINE ts == ShardTensors(c, s)
           us == c.shards[s].tensors
           h == c.shards[s].header
           In(j) == p \in ts[j].offset..(ts[j].offset + ts[j].size - 1)
           k == CHOOSE j \in DOMAIN ts : In(j)
<1>1. DOMAIN ts = DOMAIN us
  BY DEF ShardTensors
<1>2. \A j \in DOMAIN us : /\ us[j].start \in Nat /\ us[j].end \in Nat /\ h \in Nat
                           /\ ts[j].offset = h + us[j].start
                           /\ ts[j].size = us[j].end - us[j].start
  BY TensorTypes
<1>3. \A j, l \in DOMAIN us :
        j # l => us[j].end <= us[l].start \/ us[l].end <= us[j].start
  BY DEF Inspects
<1> HIDE DEF ts, us, h
<1>4. i \in DOMAIN us
  BY DEF us
<1>5. In(i)
  BY <1>2, <1>4 DEF ts
<1>6. \A j \in DOMAIN us : In(j) => j = i
  <2> SUFFICES ASSUME NEW j \in DOMAIN us, In(j), j # i PROVE FALSE
    OBVIOUS
  <2>1. us[j].end <= us[i].start \/ us[i].end <= us[j].start
    BY <1>3, <1>4
  <2> QED BY <1>2, <1>4, <1>5, <2>1
<1>7. k = i
  <2> HIDE DEF In
  <2> QED BY <1>1, <1>4, <1>5, <1>6
<1>8. ByteAt(c, s, p) = Cell(ts[k].name, p - ts[k].offset)
  BY DEF ByteAt, ts
<1> HIDE DEF k
<1> QED BY <1>7, <1>8 DEF ts

\* Names of layer tensors name one of the model's layers.
LEMMA LayerNames ==
  ASSUME NEW c, IsCheckpoint(c), Imports(c), NEW kinds, kinds \subseteq LayerTensor
  PROVE  LET S == {t.name.layer : t \in {u \in Range(Tensors(c)) : u.name.kind \in kinds}}
         IN  S \subseteq 0..(c.config.layers - 1)
<1> SUFFICES ASSUME NEW t \in Range(Tensors(c)), t.name.kind \in kinds
             PROVE  t.name.layer \in 0..(c.config.layers - 1)
  OBVIOUS
<1>1. PICK s \in DOMAIN c.shards : \E i \in DOMAIN c.shards[s].tensors :
        t = ShardTensors(c, s)[i] /\ Inspects(c.shards[s])
  BY TensorsFacts DEF Imports, IsTensorOf
<1>2. t.name \in TensorName
  BY <1>1, TensorTypes
<1>3. t.name.layer < c.config.layers
  BY DEF Imports, NameImports
<1>4. t.name.layer \in Nat /\ c.config.layers \in Nat
  BY <1>2 DEF TensorName, IsCheckpoint
<1> QED BY <1>3, <1>4

\* A set of numbers of layers can be listed.
LEMMA LayerSet ==
  ASSUME NEW n \in Nat, NEW S, S \subseteq 0..(n - 1)
  PROVE  IsFiniteSet(S) /\ S \subseteq Nat
<1>1. IsFiniteSet(0..(n - 1))
  BY FS_Interval
<1>2. IsFiniteSet(S)
  BY <1>1, FS_Subset
<1> QED BY <1>2

IsRecord(r, fields) == r = [f \in fields |-> r[f]]

\* The manifest QwenImporter returns is put together from lists.
ManifestFields == {"config", "arch", "parameters", "router", "tensors", "experts", "layers", "io"}

ImportedShape(c, m) ==
  /\ IsRecord(m, ManifestFields)
  /\ m.config = [layers |-> c.config.layers, experts |-> c.config.experts,
                 hidden |-> c.config.hidden, inter |-> c.config.inter,
                 shared |-> c.config.shared, quantized |-> m.config.quantized]
  /\ m.arch = Architecture(c.config)
  /\ m.router = [topK |-> c.config.topK, experts |-> c.config.experts,
                 layout |-> "OUTPUT_INPUT", tensors |-> m.router.tensors]
  /\ IsSeq(m.router.tensors)
  /\ \A r \in Range(m.router.tensors) : r.name.kind = "router"
  /\ IsSeq(m.experts)
  /\ \A n \in DOMAIN m.experts :
       \E l \in MoELayers(Tensors(c)), e \in 0..(c.config.experts - 1) :
         m.experts[n] = [layer |-> l, expert |-> e,
                         at |-> [r \in Role |-> Projection(c.config, Tensors(c), l, e, r)]]
  /\ IsSeq(m.layers)
  /\ m.layers # <<>> => Len(m.layers) = c.config.layers
  /\ \A i \in DOMAIN m.layers : m.layers[i] = LayerMapping(Tensors(c), i - 1)
  /\ m.io = ModelIO(c.config, Tensors(c))

\* What QwenImporter returns has that shape.
LEMMA ImportedFacts ==
  ASSUME NEW c, IsCheckpoint(c), Imports(c)
  PROVE  ImportedShape(c, Imported(c))
<1> DEFINE ts == Tensors(c)
           f == c.config
           m == Imported(c)
           moe == Ascending(MoELayers(ts))
           all == MoELayers(ts)
                    \cup {t.name.layer : t \in {u \in Range(ts) : u.name.kind = "router"}}
           routed == Ascending({l \in all : Named(ts, Name("router", l, 0, "")) # NoName})
<1>1. f.layers \in Nat /\ f.experts \in Nat /\ f.experts # 0
  BY DEF IsCheckpoint, Imports, ConfigImports
<1>2. MoELayers(ts) \subseteq 0..(f.layers - 1) /\ all \subseteq 0..(f.layers - 1)
  <2>1. {"expert"} \subseteq LayerTensor /\ {"fused"} \subseteq LayerTensor
        /\ {"router"} \subseteq LayerTensor
    BY DEF LayerTensor
  <2>2. \A k \in {"expert", "fused", "router"} :
          {t.name.layer : t \in {u \in Range(ts) : u.name.kind = k}} \subseteq 0..(f.layers - 1)
    <3> SUFFICES ASSUME NEW k \in {"expert", "fused", "router"}
                 PROVE  {t.name.layer : t \in {u \in Range(ts) : u.name.kind = k}}
                          \subseteq 0..(f.layers - 1)
      OBVIOUS
    <3>1. {k} \subseteq LayerTensor
      BY <2>1
    <3>2. {t.name.layer : t \in {u \in Range(ts) : u.name.kind \in {k}}} \subseteq 0..(f.layers - 1)
      BY <3>1, LayerNames
    <3> QED BY <3>2
  <2> QED BY <2>2 DEF MoELayers, IndividualLayers, FusedLayers
<1>3. /\ IsSeq(moe) /\ Len(moe) \in Nat /\ DOMAIN moe = 1..Len(moe)
      /\ \A i \in DOMAIN moe : moe[i] \in MoELayers(ts)
  <2>1. IsFiniteSet(MoELayers(ts)) /\ MoELayers(ts) \subseteq Nat
    BY <1>1, <1>2, LayerSet
  <2> QED BY <2>1, AscendingFacts
<1>4. /\ IsSeq(routed) /\ Len(routed) \in Nat /\ DOMAIN routed = 1..Len(routed)
  <2> DEFINE S == {l \in all : Named(ts, Name("router", l, 0, "")) # NoName}
  <2>1. S \subseteq 0..(f.layers - 1)
    BY <1>2
  <2> HIDE DEF S
  <2>2. IsFiniteSet(S) /\ S \subseteq Nat
    BY <1>1, <2>1, LayerSet
  <2>3. IsSeq(Ascending(S)) /\ Len(Ascending(S)) \in Nat
        /\ DOMAIN Ascending(S) = 1..Len(Ascending(S))
    BY <2>2, AscendingFacts
  <2> QED BY <2>3 DEF S
<1> DEFINE rts == [i \in DOMAIN routed |->
                     [layer |-> routed[i], name |-> Name("router", routed[i], 0, "")]]
           ls == IF HasTransformer(ts) THEN [l \in 1..f.layers |-> LayerMapping(ts, l - 1)] ELSE <<>>
           es == ExpertMappings(f, ts)
           q == \E t \in Range(ts) : t.dtype = "INT8"
<1>5. m = [config |-> [layers |-> f.layers, experts |-> f.experts, hidden |-> f.hidden,
                       inter |-> f.inter, shared |-> f.shared, quantized |-> q],
           arch |-> Architecture(f), parameters |-> Parameters(ts),
           router |-> [topK |-> f.topK, experts |-> f.experts, layout |-> "OUTPUT_INPUT",
                       tensors |-> rts],
           tensors |-> RelevantTensors(ts), experts |-> es, layers |-> ls,
           io |-> ModelIO(f, ts)]
  BY DEF Imported
<1>6. IsSeq(rts) /\ \A r \in Range(rts) : r.name.kind = "router"
  <2>1. \A i \in DOMAIN rts : rts[i].name.kind = "router"
    <3> HIDE DEF routed
    <3> QED BY DEF Name
  <2>2. rts = [i \in 1..Len(routed) |-> rts[i]]
    <3> HIDE DEF routed
    <3> QED BY <1>4
  <2> HIDE DEF rts, routed
  <2>3. IsSeq(rts)
    BY <1>4, <2>2, FunctionIsSeq
  <2> QED BY <2>1, <2>3 DEF Range
<1>7. /\ IsSeq(es)
      /\ \A n \in DOMAIN es : \E l \in MoELayers(ts), e \in 0..(f.experts - 1) :
           es[n] = [layer |-> l, expert |-> e,
                    at |-> [r \in Role |-> Projection(f, ts, l, e, r)]]
  <2> DEFINE N == Len(moe) * f.experts
             E(n) == LET l == moe[((n - 1) \div f.experts) + 1]
                         e == (n - 1) % f.experts
                     IN [layer |-> l, expert |-> e,
                         at |-> [r \in Role |-> Projection(f, ts, l, e, r)]]
  <2>1. es = [n \in 1..N |-> E(n)]
    BY DEF ExpertMappings
  <2>2. N \in Nat
    <3> HIDE DEF moe
    <3> QED BY <1>1, <1>3
  <2>3. ASSUME NEW n \in 1..N
        PROVE  /\ moe[((n - 1) \div f.experts) + 1] \in MoELayers(ts)
               /\ (n - 1) % f.experts \in 0..(f.experts - 1)
    <3> HIDE DEF moe
    <3> DEFINE a == Len(moe)
               b == f.experts
               d == (n - 1) \div b
    <3>1. a \in Nat /\ b \in Nat /\ b > 0 /\ n - 1 \in Nat /\ n - 1 < a * b
      BY <1>1, <1>3, <2>2, <2>3
    <3> HIDE DEF a, b, N
    <3>2. (n - 1) % b \in 0..(b - 1) /\ d \in Nat
      BY <3>1
    <3>3. d < a
      <4>1. n - 1 >= b * d
        BY <3>1
      <4> HIDE DEF d
      <4> QED BY <3>1, <3>2, <4>1
    <3>4. d + 1 \in 1..a
      BY <3>1, <3>2, <3>3
    <3> QED BY <1>3, <3>2, <3>4 DEF a, b
  <2>4. IsSeq(es)
    <3> HIDE DEF N, E
    <3> QED BY <2>1, <2>2, FunctionIsSeq
  <2>5. DOMAIN es = 1..N /\ \A n \in 1..N : es[n] = E(n)
    <3> HIDE DEF N, E, es
    <3> QED BY <2>1
  <2> HIDE DEF es, moe, N
  <2> QED BY <2>3, <2>4, <2>5
<1>8. /\ IsSeq(ls) /\ (ls # <<>> => Len(ls) = f.layers)
      /\ \A i \in DOMAIN ls : ls[i] = LayerMapping(ts, i - 1)
  <2>1. CASE HasTransformer(ts)
    <3>1. ls = [l \in 1..f.layers |-> LayerMapping(ts, l - 1)]
      BY <2>1
    <3> HIDE DEF ls
    <3>2. IsSeq(ls) /\ Len(ls) = f.layers
      BY <1>1, <3>1, FunctionIsSeq
    <3> QED BY <3>1, <3>2
  <2>2. CASE ~HasTransformer(ts)
    <3>1. ls = <<>> /\ DOMAIN <<>> = {} /\ <<>> \in Seq({})
      BY <2>2
    <3> HIDE DEF ls
    <3> QED BY <3>1, SeqIsSeq
  <2> QED BY <2>1, <2>2
<1> HIDE DEF rts, ls, es, q
<1>9. /\ m.config = [layers |-> f.layers, experts |-> f.experts, hidden |-> f.hidden,
                     inter |-> f.inter, shared |-> f.shared, quantized |-> q]
      /\ m.arch = Architecture(f) /\ m.experts = es /\ m.layers = ls /\ m.io = ModelIO(f, ts)
      /\ m.router = [topK |-> f.topK, experts |-> f.experts, layout |-> "OUTPUT_INPUT",
                     tensors |-> rts]
  BY <1>5
<1>10. IsRecord(m, ManifestFields)
  BY <1>5 DEF IsRecord, ManifestFields
<1> HIDE DEF m
<1>11. m.config.quantized = q /\ m.router.tensors = rts
  BY <1>9
<1> QED
  BY <1>6, <1>7, <1>8, <1>9, <1>10, <1>11 DEF ImportedShape, m

-----------------------------------------------------------------------------
(* Bytes. *)

\* Division with remainder, for products of variables.
LEMMA DivMod ==
  ASSUME NEW q \in Nat, NEW w \in Nat, w # 0, NEW r \in 0..(w - 1)
  PROVE  (q * w + r) \div w = q /\ (q * w + r) % w = r
<1> DEFINE x == q * w + r
           d == x \div w
           k == x % w
<1>1. x \in Nat /\ q * w \in Nat
  OBVIOUS
<1>2. d \in Nat /\ k \in 0..(w - 1) /\ x = d * w + k
  <2> HIDE DEF x
  <2> QED BY <1>1
<1>3. d * w + k = q * w + r
  BY <1>2
<1> HIDE DEF d, k
<1>4. d = q
  <2>1. CASE d > q
    <3>1. PICK e \in Nat : d = q + 1 + e
      <4>1. d - q - 1 \in Nat /\ d = q + 1 + (d - q - 1)
        BY <1>2, <2>1
      <4> QED BY <4>1
    <3>2. d * w = q * w + w + e * w /\ e * w \in Nat
      BY <3>1
    <3> QED BY <1>1, <1>2, <1>3, <3>2
  <2>2. CASE d < q
    <3>1. PICK e \in Nat : q = d + 1 + e
      <4>1. q - d - 1 \in Nat /\ q = d + 1 + (q - d - 1)
        BY <1>2, <2>2
      <4> QED BY <4>1
    <3>2. q * w = d * w + w + e * w /\ e * w \in Nat /\ d * w \in Nat
      BY <1>2, <3>1
    <3> QED BY <1>1, <1>2, <1>3, <3>2
  <2> QED BY <1>2, <2>1, <2>2
<1>5. k = r
  BY <1>1, <1>2, <1>3, <1>4
<1> QED BY <1>4, <1>5 DEF d, k

\* Row and column of an element.
LEMMA GridBound ==
  ASSUME NEW n \in Nat, NEW k \in Nat, NEW i \in 0..(n - 1), NEW o \in 0..(k - 1)
  PROVE  i * k + o \in 0..(n * k - 1) /\ n * k \in Nat
<1>1. PICK e \in Nat : n = i + 1 + e
  <2>1. n - i - 1 \in Nat /\ n = i + 1 + (n - i - 1)
    OBVIOUS
  <2> QED BY <2>1
<1>2. n * k = i * k + k + e * k /\ e * k \in Nat /\ i * k \in Nat
  BY <1>1
<1> QED BY <1>2

Part(s, offset, size) == [b \in 1..size |-> s[offset + b]]

\* The bytes of a view.
LEMMA ViewFacts ==
  ASSUME NEW s, IsSeq(s), NEW offset \in Nat, NEW size \in Nat, offset + size <= Len(s)
  PROVE  View(s, offset, size) = Part(s, offset, size)
<1>1. s \in Seq(Range(s)) /\ Len(s) \in Nat
  BY DEF IsSeq
<1>2. View(s, offset, size)
        = [b \in 1..((offset + size) - (offset + 1) + 1) |-> s[(offset + 1) + b - 1]]
  BY <1>1 DEF View
<1>3. (offset + size) - (offset + 1) + 1 = size
  OBVIOUS
<1>4. \A b \in 1..size : (offset + 1) + b - 1 = offset + b
  OBVIOUS
<1> QED BY <1>2, <1>3, <1>4 DEF Part

\* A run of the bytes of a tensor, from byte first.
Run(name, first, size) == [n \in 1..size |-> Cell(name, first + n - 1)]

\* Weights are at least one byte wide.
LEMMA Widths ==
  /\ \A d \in DType \ {"INT8"} : SizeOf(d) \in {2, 4}
  /\ SizeOf("INT8") = 1
BY DEF DType, SizeOf

\* bytes has the element of row o and column i of src at row i and column o.
IsTransposed(bytes, src, O, I, w) ==
  /\ IsSeq(bytes) /\ Len(bytes) = O * I * w
  /\ \A i \in 0..(I - 1), o \in 0..(O - 1), b \in 1..w :
       /\ (i * O + o) * w + b \in 1..(O * I * w)
       /\ (o * I + i) * w + b \in 1..(O * I * w)
       /\ bytes[(i * O + o) * w + b] = src[(o * I + i) * w + b]

\* Transposing a matrix of O rows of I elements gives the element of row o and
\* column i at row i and column o.
LEMMA TransposeFacts ==
  ASSUME NEW O \in Nat, NEW I \in Nat, NEW w \in Nat, w # 0, NEW src, IsSeq(src),
         Len(src) = O * I * w
  PROVE  IsTransposed(Transpose(src, <<O, I>>, w), src, O, I, w)
<1> DEFINE bytes == Transpose(src, <<O, I>>, w)
           N == O * I * w
           Place(e, k) == ((e % O) * I + (e \div O)) * w + k + 1
           From(n) == Place((n - 1) \div w, (n - 1) % w)
<1>1. N \in Nat /\ O * I \in Nat
  OBVIOUS
<1>2. bytes = [n \in 1..N |-> src[From(n)]]
  <2> DEFINE shape == <<O, I>>
             At(e, k) == ((e % shape[1]) * shape[2] + (e \div shape[1])) * w + k + 1
  <2>1. Transpose(src, shape, w)
          = [n \in 1..Len(src) |-> src[At((n - 1) \div w, (n - 1) % w)]]
    BY DEF Transpose
  <2>2. shape[1] = O /\ shape[2] = I
    OBVIOUS
  <2> HIDE DEF shape
  <2>3. \A e, k : At(e, k) = Place(e, k)
    BY <2>2
  <2> HIDE DEF At, Place, N
  <2>4. Transpose(src, shape, w) = [n \in 1..Len(src) |-> src[From(n)]]
    BY <2>1, <2>3
  <2> QED BY <2>4 DEF shape, N
<1>3. ASSUME NEW i \in 0..(I - 1), NEW o \in 0..(O - 1), NEW b \in 1..w
      PROVE  /\ (i * O + o) * w + b \in 1..N
             /\ (o * I + i) * w + b \in 1..N
             /\ bytes[(i * O + o) * w + b] = src[(o * I + i) * w + b]
  <2> DEFINE e == i * O + o
             g == o * I + i
             n == e * w + b
  <2>1. e \in 0..(I * O - 1) /\ g \in 0..(O * I - 1) /\ I * O = O * I
    BY GridBound
  <2>2. ASSUME NEW x \in 0..(O * I - 1) PROVE x * w + (b - 1) \in 0..(O * I * w - 1)
    <3> DEFINE A == O * I
    <3>1. A \in Nat /\ x \in 0..(A - 1) /\ b - 1 \in 0..(w - 1)
      BY <1>1, <2>2
    <3> HIDE DEF A
    <3>2. x * w + (b - 1) \in 0..(A * w - 1)
      BY <3>1, GridBound
    <3> QED BY <3>2 DEF A
  <2>3. n \in 1..N /\ g * w + b \in 1..N /\ n - 1 = e * w + (b - 1) /\ e \in Nat
    <3> HIDE DEF e, g
    <3>1. e * w + (b - 1) \in 0..(N - 1) /\ g * w + (b - 1) \in 0..(N - 1)
      BY <2>1, <2>2
    <3>2. e * w \in Nat /\ g * w \in Nat
      BY <2>1, <1>1
    <3> HIDE DEF N
    <3> QED BY <1>1, <2>1, <3>1, <3>2
  <2>4. (n - 1) \div w = e /\ (n - 1) % w = b - 1
    <3> HIDE DEF e, n
    <3> DEFINE k == b - 1
    <3>1. k \in 0..(w - 1)
      OBVIOUS
    <3> HIDE DEF k
    <3>2. (e * w + k) \div w = e /\ (e * w + k) % w = k
      BY <2>3, <3>1, DivMod
    <3> QED BY <2>3, <3>2 DEF k
  <2>5. e % O = o /\ e \div O = i
    BY DivMod
  <2>6. From(n) = g * w + b
    <3>1. From(n) = Place(e, b - 1)
      <4> HIDE DEF e, n, Place
      <4> QED BY <2>4
    <3>2. Place(e, b - 1) = (o * I + i) * w + (b - 1) + 1
      <4> HIDE DEF e
      <4> QED BY <2>5
    <3>3. g * w \in Int
      BY <2>1
    <3> HIDE DEF Place
    <3> QED BY <3>1, <3>2, <3>3
  <2> HIDE DEF From, n, g, N
  <2>7. bytes[n] = src[From(n)]
    BY <1>2, <2>3
  <2> QED BY <2>3, <2>6, <2>7 DEF n, g, N
<1>4. IsSeq(bytes) /\ Len(bytes) = N
  <2> HIDE DEF N, From
  <2> QED BY <1>1, <1>2, FunctionIsSeq
<1> QED BY <1>3, <1>4 DEF IsTransposed

\* A matrix has as many elements as rows times columns.
LEMMA MatrixCount ==
  ASSUME NEW a \in Nat, NEW b \in Nat
  PROVE  ElementCount(<<a, b>>) = a * b
<1> DEFINE s == <<a, b>>
           D == DOMAIN s
           Body(g, T) == IF T = {} THEN 1 ELSE g[T \ {Max(T)}] * s[Max(T)]
           Is(g) == g = [T \in SUBSET D |-> Body(g, T)]
           it == CHOOSE g : Is(g)
           h == [T \in SUBSET D |-> IF T = {} THEN 1 ELSE IF T = {1} THEN a
                                    ELSE IF T = {2} THEN b ELSE a * b]
<1>1. D = {1, 2} /\ s[1] = a /\ s[2] = b
  OBVIOUS
<1>2. Max({1}) = 1 /\ Max({2}) = 2 /\ Max({1, 2}) = 2
  BY DEF Max
<1>3. /\ {1} \ {1} = {} /\ {2} \ {2} = {} /\ {1, 2} \ {2} = {1}
      /\ {1} # {} /\ {2} # {} /\ {1, 2} # {} /\ {1, 2} # {1} /\ {1, 2} # {2} /\ {2} # {1}
  OBVIOUS
<1>4. \A T \in SUBSET {1, 2} : T = {} \/ T = {1} \/ T = {2} \/ T = {1, 2}
  OBVIOUS
<1>5. ElementCount(s) = it[D]
  BY DEF ElementCount, FoldLeft, MapThenFoldSet
<1> HIDE DEF D, s
<1>6. Is(h)
  <2>1. h[{}] = 1 /\ h[{1}] = a /\ h[{2}] = b /\ h[{1, 2}] = a * b
    BY <1>1, <1>3
  <2> HIDE DEF h
  <2>2. Body(h, {}) = 1 /\ Body(h, {1}) = 1 * a /\ Body(h, {2}) = 1 * b /\ Body(h, {1, 2}) = a * b
    BY <1>1, <1>2, <1>3, <2>1
  <2>3. 1 * a = a /\ 1 * b = b
    OBVIOUS
  <2>4. \A T \in SUBSET D : h[T] = Body(h, T)
    <3> HIDE DEF Body
    <3> QED BY <1>1, <1>4, <2>1, <2>2, <2>3
  <2>5. h = [T \in SUBSET D |-> h[T]]
    BY DEF h
  <2> HIDE DEF Body
  <2> QED BY <2>4, <2>5
<1>7. Is(it)
  <2> HIDE DEF Is, h
  <2> QED BY <1>6
<1>8. it[D] = a * b
  <2> HIDE DEF it
  <2>1. \A T \in SUBSET D : it[T] = Body(it, T)
    <3> HIDE DEF Body
    <3> QED BY <1>7
  <2>2. {} \in SUBSET D /\ {1} \in SUBSET D /\ {1, 2} \in SUBSET D
    BY <1>1
  <2>3. it[{}] = 1
    BY <2>1, <2>2
  <2>4. it[{1}] = it[{}] * a
    BY <1>1, <1>2, <1>3, <2>1, <2>2
  <2>5. it[{1, 2}] = it[{1}] * b
    BY <1>1, <1>2, <1>3, <2>1, <2>2
  <2>6. it[{1, 2}] = a * b
    BY <2>3, <2>4, <2>5
  <2> QED BY <1>1, <2>6
<1> QED BY <1>5, <1>8 DEF s

\* The other order of two axes.
LEMMA ReversePair == ASSUME NEW O, NEW I PROVE Reverse(<<O, I>>) = <<I, O>>
<1> DEFINE a == <<O, I>>
           r == [i \in 1..Len(a) |-> a[Len(a) - i + 1]]
<1>1. Len(a) = 2 /\ a[1] = O /\ a[2] = I
  OBVIOUS
<1>2. Reverse(a) = r
  BY DEF Reverse
<1> HIDE DEF a
<1>3. r = [i \in 1..2 |-> IF i = 1 THEN I ELSE O]
  BY <1>1
<1>4. <<I, O>> = [i \in 1..2 |-> IF i = 1 THEN I ELSE O]
  OBVIOUS
<1> QED BY <1>2, <1>3, <1>4 DEF a

\* A matrix that is packed with inputs first has at input i and output o the
\* element the tensor has at row o and column i, from element base on; and so it
\* has after quantization, one byte for an element.
IsElementwise(weight, O, I, name, base) ==
  LET w == SizeOf(weight.dtype) IN
  /\ weight.shape = <<I, O>>
  /\ IsSeq(weight.bytes) /\ Len(weight.bytes) = O * I * w
  /\ \A i \in 0..(I - 1), o \in 0..(O - 1) :
       View(weight.bytes, (i * O + o) * w, w)
         = ElementBytes(name, base + (o * I + i), weight.dtype)

\* WeightConverter::convert turns rows into columns.
LEMMA ConvertedMatrix ==
  ASSUME NEW O \in Nat, NEW I \in Nat, NEW d \in DType \ {"INT8"}, NEW name, NEW base \in Nat
  PROVE  LET src == Run(name, base * SizeOf(d), O * I * SizeOf(d))
             weight == ToInputOutput(src, <<O, I>>, d, "OUTPUT_INPUT") IN
         /\ weight.dtype = d /\ IsElementwise(weight, O, I, name, base)
         /\ Quantize(weight).dtype = "INT8"
         /\ IsElementwise(Quantize(weight), O, I, name, base)
<1> DEFINE w == SizeOf(d)
           N == O * I * w
           src == Run(name, base * w, N)
           bytes == Transpose(src, <<O, I>>, w)
           weight == ToInputOutput(src, <<O, I>>, d, "OUTPUT_INPUT")
           q == Quantize(weight)
<1>1. w \in {2, 4} /\ w \in Nat /\ w # 0 /\ d # "INT8"
  BY Widths
<1>2. N \in Nat /\ O * I \in Nat /\ base * w \in Nat
  <2> HIDE DEF w
  <2> QED BY <1>1
<1>3. IsSeq(src) /\ Len(src) = N /\ \A n \in 1..N : src[n] = Cell(name, base * w + n - 1)
  <2>1. src = [n \in 1..N |-> Cell(name, base * w + n - 1)]
    BY DEF Run
  <2> HIDE DEF N, src, w
  <2> QED BY <1>2, <2>1, FunctionIsSeq
<1>4. /\ IsSeq(bytes) /\ Len(bytes) = N
      /\ \A i \in 0..(I - 1), o \in 0..(O - 1), b \in 1..w :
           /\ (i * O + o) * w + b \in 1..N
           /\ (o * I + i) * w + b \in 1..N
           /\ bytes[(i * O + o) * w + b] = src[(o * I + i) * w + b]
  <2>1. IsSeq(src) /\ Len(src) = O * I * w
    BY <1>3
  <2> HIDE DEF w, src
  <2>2. IsTransposed(bytes, src, O, I, w)
    <3> HIDE DEF N
    <3> QED BY <1>1, <2>1, TransposeFacts
  <2> HIDE DEF bytes
  <2> QED BY <2>2 DEF IsTransposed
<1>5. weight = [bytes |-> bytes, shape |-> <<I, O>>, dtype |-> d]
  <2>1. Reverse(<<O, I>>) = <<I, O>>
    BY ReversePair
  <2> HIDE DEF bytes
  <2> QED BY <2>1 DEF ToInputOutput, bytes
<1> HIDE DEF src, bytes, weight, N
<1>6. ASSUME NEW i \in 0..(I - 1), NEW o \in 0..(O - 1), NEW b \in 1..w
      PROVE  bytes[(i * O + o) * w + b] = Cell(name, (base + (o * I + i)) * w + b - 1)
  <2> DEFINE g == o * I + i
  <2>1. g \in Nat
    OBVIOUS
  <2>2. bytes[(i * O + o) * w + b] = src[g * w + b] /\ g * w + b \in 1..N
    <3> HIDE DEF w
    <3> QED BY <1>4
  <2> HIDE DEF g, w
  <2>3. src[g * w + b] = Cell(name, base * w + (g * w + b) - 1)
    BY <1>3, <2>2
  <2>4. base * w + (g * w + b) - 1 = (base + g) * w + b - 1
    BY <1>1, <2>1
  <2> QED BY <2>2, <2>3, <2>4 DEF g
<1>7. IsElementwise(weight, O, I, name, base)
  <2>1. weight.shape = <<I, O>> /\ weight.bytes = bytes /\ weight.dtype = d
    BY <1>5
  <2>2. ASSUME NEW i \in 0..(I - 1), NEW o \in 0..(O - 1)
        PROVE  View(bytes, (i * O + o) * w, w) = ElementBytes(name, base + (o * I + i), d)
    <3> DEFINE e == i * O + o
               g == base + (o * I + i)
    <3>1. e \in Nat /\ e * w \in Nat
      <4>1. e \in Nat
        OBVIOUS
      <4> HIDE DEF e, w
      <4> QED BY <1>1, <4>1
    <3>2. e * w + w <= Len(bytes)
      <4>1. w \in 1..w
        BY <1>1
      <4>2. e * w + w \in 1..N
        <5> HIDE DEF w
        <5> QED BY <1>4, <4>1
      <4> HIDE DEF e, w
      <4> QED BY <1>2, <1>4, <4>2
    <3>3. View(bytes, e * w, w) = [b \in 1..w |-> bytes[e * w + b]]
      <4> DEFINE k == e * w
      <4> HIDE DEF e, w, k
      <4>1. k \in Nat /\ w \in Nat /\ k + w <= Len(bytes)
        BY <1>1, <3>1, <3>2 DEF k
      <4>2. View(bytes, k, w) = Part(bytes, k, w)
        BY <1>4, <4>1, ViewFacts
      <4> QED BY <4>2 DEF k, Part
    <3>4. \A b \in 1..w : bytes[e * w + b] = Cell(name, g * w + b - 1)
      BY <1>6
    <3>5. ElementBytes(name, g, d) = [b \in 1..w |-> Cell(name, g * w + b - 1)]
      BY <1>1 DEF ElementBytes
    <3> HIDE DEF e, g, w
    <3>6. View(bytes, e * w, w) = ElementBytes(name, g, d)
      BY <3>3, <3>4, <3>5
    <3> QED BY <3>6 DEF e, g
  <2> HIDE DEF w
  <2> QED BY <1>4, <2>1, <2>2 DEF IsElementwise, w, N
<1>8. q.dtype = "INT8" /\ IsElementwise(q, O, I, name, base)
  <2> DEFINE C(n) == Cell(bytes[(n - 1) * w + 1].of, -1 - (bytes[(n - 1) * w + 1].at \div w))
  <2>1. Len(bytes) \div w = O * I
    <3> DEFINE A == O * I
    <3>1. A \in Nat /\ Len(bytes) = A * w + 0
      <4> HIDE DEF w
      <4> QED BY <1>1, <1>2, <1>4 DEF N
    <3> HIDE DEF A, w
    <3>2. (A * w + 0) \div w = A
      BY <1>1, <3>1, DivMod
    <3> QED BY <3>1, <3>2 DEF A
  <2>2. q = [bytes |-> [n \in 1..(Len(bytes) \div w) |-> C(n)], shape |-> <<I, O>>,
             dtype |-> "INT8"]
    BY <1>5 DEF Quantize
  <2>3. q.dtype = "INT8" /\ q.shape = <<I, O>> /\ q.bytes = [n \in 1..(O * I) |-> C(n)]
    <3> HIDE DEF q, C, w
    <3> QED BY <2>1, <2>2
  <2> HIDE DEF q
  <2>4. IsSeq(q.bytes) /\ Len(q.bytes) = O * I /\ \A n \in 1..(O * I) : q.bytes[n] = C(n)
    <3> DEFINE A == O * I
               f == q.bytes
    <3>1. A \in Nat /\ f = [n \in 1..A |-> C(n)]
      BY <1>2, <2>3
    <3> HIDE DEF A, C, f
    <3>2. IsSeq(f) /\ Len(f) = A /\ \A n \in 1..A : f[n] = C(n)
      BY <3>1, FunctionIsSeq
    <3> QED BY <3>2 DEF A, f
  <2>5. ASSUME NEW i \in 0..(I - 1), NEW o \in 0..(O - 1)
        PROVE  View(q.bytes, i * O + o, 1) = ElementBytes(name, base + (o * I + i), "INT8")
    <3> DEFINE e == i * O + o
               g == base + (o * I + i)
    <3>1. e \in 0..(O * I - 1) /\ e \in Nat /\ g \in Nat /\ O * I \in Nat /\ e + 1 \in 1..(O * I)
      <4>1. e \in 0..(I * O - 1) /\ I * O = O * I
        BY GridBound
      <4>2. g \in Nat
        OBVIOUS
      <4> HIDE DEF e, g
      <4> QED BY <1>2, <4>1, <4>2
    <3>2. View(q.bytes, e, 1) = [b \in 1..1 |-> q.bytes[e + b]]
      <4> DEFINE f == q.bytes
      <4> HIDE DEF e, f
      <4>1. IsSeq(f) /\ e \in Nat /\ e + 1 <= Len(f)
        BY <2>4, <3>1 DEF f
      <4>2. View(f, e, 1) = [b \in 1..1 |-> f[e + b]]
        <5> DEFINE one == 1
        <5>1. one \in Nat /\ e + one <= Len(f)
          BY <4>1
        <5> HIDE DEF one
        <5>2. View(f, e, one) = Part(f, e, one)
          BY <4>1, <5>1, ViewFacts
        <5> QED BY <5>2 DEF one, Part
      <4> QED BY <4>2 DEF f
    <3>3. q.bytes[e + 1] = C(e + 1)
      <4> HIDE DEF e, C
      <4> QED BY <2>4, <3>1
    <3>4. bytes[e * w + 1] = Cell(name, g * w + 1 - 1)
      <4>1. 1 \in 1..w
        BY <1>1
      <4> HIDE DEF w
      <4> QED BY <1>6, <4>1
    <3> HIDE DEF e, g
    <3>5. (e + 1) - 1 = e /\ g * w + 1 - 1 = g * w + 0 /\ (g * w + 0) \div w = g
      <4> HIDE DEF w
      <4>1. (g * w + 0) \div w = g
        BY <1>1, <3>1, DivMod
      <4> QED BY <1>1, <3>1, <4>1
    <3>6. C(e + 1) = Cell(name, -1 - g)
      <4>1. bytes[((e + 1) - 1) * w + 1] = Cell(name, g * w + 0)
        <5> HIDE DEF w
        <5> QED BY <3>4, <3>5
      <4>2. bytes[((e + 1) - 1) * w + 1].of = name /\ bytes[((e + 1) - 1) * w + 1].at = g * w + 0
        <5> HIDE DEF w
        <5> QED BY <4>1 DEF Cell
      <4>3. C(e + 1) = Cell(name, -1 - ((g * w + 0) \div w))
        <5> DEFINE y == bytes[((e + 1) - 1) * w + 1]
        <5>1. C(e + 1) = Cell(y.of, -1 - (y.at \div w))
          <6> HIDE DEF w
          <6> QED BY Zenon DEF C, y
        <5> HIDE DEF w, C, y
        <5>2. y.of = name /\ y.at = g * w + 0
          BY <4>2 DEF y
        <5> QED BY <5>1, <5>2, Zenon
      <4> DEFINE k == (g * w + 0) \div w
      <4>4. k = g /\ C(e + 1) = Cell(name, -1 - k)
        <5> HIDE DEF w, C
        <5> QED BY <3>5, <4>3
      <4> HIDE DEF w, C, k
      <4> QED BY <4>4
    <3>7. ElementBytes(name, g, "INT8") = <<Cell(name, -1 - g)>>
      BY DEF ElementBytes
    <3> HIDE DEF C
    <3>8. View(q.bytes, e, 1) = <<Cell(name, -1 - g)>>
      BY <3>2, <3>3, <3>6
    <3> QED BY <3>7, <3>8 DEF e, g
  <2>6. \A x \in Int : x * SizeOf("INT8") = x
    BY Widths
  <2>7. ASSUME NEW i \in 0..(I - 1), NEW o \in 0..(O - 1)
        PROVE  (i * O + o) * SizeOf("INT8") = i * O + o
    BY <2>6
  <2>8. O * I * SizeOf("INT8") = O * I
    BY <1>2, <2>6
  <2> QED BY <2>3, <2>4, <2>5, <2>7, <2>8, Widths DEF IsElementwise
<1> QED BY <1>5, <1>7, <1>8 DEF weight, src, N

-----------------------------------------------------------------------------
(* The tensors the packer reads. *)

\* A checkpoint that was imported.
Sound(c) == IsCheckpoint(c) /\ Imports(c)

\* The manifest's tensors are tensors of the shards.
LEMMA KeptTensors ==
  ASSUME NEW c, Sound(c)
  PROVE  Range(Imported(c).tensors) \subseteq Range(Tensors(c))
<1> DEFINE ts == Tensors(c)
           w == [i \in 1..Len(ts) |-> IF Relevant(ts[i]) THEN <<ts[i]>> ELSE <<>>]
           n == Len(ts)
<1>1. IsSeq(ts)
  BY TensorsFacts DEF Sound, Imports
<1> HIDE DEF ts
<1>2. n \in Nat /\ DOMAIN ts = 1..n
  BY <1>1, SeqFacts
<1>3. Imported(c).tensors = RelevantTensors(ts)
  BY DEF Imported, ts
<1>4. RelevantTensors(ts) = FlattenSeq(w)
  BY <1>2 DEF RelevantTensors
<1>5. w = [i \in 1..n |-> w[i]]
  OBVIOUS
<1>6. \A i \in 1..n : w[i] = IF Relevant(ts[i]) THEN <<ts[i]>> ELSE <<>>
  OBVIOUS
<1> HIDE DEF w
<1>7. FlattenSeq(w) = Flat(w, n)
  BY <1>5 DEF Flat
<1> HIDE DEF n
<1>8. \A i \in 1..n : IsSeq(w[i]) /\ Range(w[i]) \subseteq {ts[i]}
  <2> TAKE i \in 1..n
  <2>1. w[i] = <<>> \/ w[i] = <<ts[i]>>
    BY <1>6
  <2>2. IsSeq(<<>>) /\ Range(<<>>) = {}
    BY DEF IsSeq, Range
  <2>3. ASSUME NEW x PROVE IsSeq(<<x>>) /\ Range(<<x>>) = {x}
    <3>1. <<x>> \in Seq({x}) /\ DOMAIN <<x>> = {1} /\ <<x>>[1] = x
      OBVIOUS
    <3> QED BY <3>1, SeqIsSeq DEF Range
  <2> QED BY <2>1, <2>2, <2>3
<1>9. Range(Flat(w, n)) = UNION {Range(w[i]) : i \in 1..n}
  BY <1>2, <1>8, FlatRange
<1>10. \A i \in 1..n : ts[i] \in Range(ts)
  BY <1>2 DEF Range
<1> QED BY <1>3, <1>4, <1>7, <1>8, <1>9, <1>10 DEF ts

\* A tensor the importer names is a tensor of a shard, not quantized, and the only
\* one of its name.
LEMMA SourceTensor ==
  ASSUME NEW c, Sound(c), NEW name, Has(Imported(c), name)
  PROVE  LET t == TensorOf(Imported(c), name) IN
         /\ t.name = name /\ t \in Range(Imported(c).tensors)
         /\ \A u \in Range(Tensors(c)) : u.name = name => u = t
         /\ \E s \in DOMAIN c.shards : \E i \in DOMAIN c.shards[s].tensors :
              t = ShardTensors(c, s)[i] /\ Inspects(c.shards[s])
         /\ name \in TensorName /\ name # NoName
         /\ t.offset \in Nat /\ t.size \in Nat /\ t.size # 0
         /\ t.dtype \in DType \ {"INT8"} /\ t.shape \in Seq(Nat)
         /\ RequiredBytes(t.shape, t.dtype) = t.size
<1> DEFINE m == Imported(c)
           t == TensorOf(m, name)
           k == CHOOSE i \in DOMAIN m.tensors : m.tensors[i].name = name
<1> HIDE DEF m
<1>1. k \in DOMAIN m.tensors /\ m.tensors[k].name = name
  BY DEF Has, Range, m
<1>2. t = m.tensors[k]
  BY DEF TensorOf
<1>3. t.name = name /\ t \in Range(m.tensors)
  BY <1>1, <1>2 DEF Range
<1> HIDE DEF t
<1>4. IsCheckpoint(c) /\ Opens(c) /\ t \in Range(Tensors(c))
  BY <1>3, KeptTensors DEF Sound, Imports, m
<1>5. PICK s \in DOMAIN c.shards : \E i \in DOMAIN c.shards[s].tensors :
        t = ShardTensors(c, s)[i] /\ Inspects(c.shards[s])
  BY <1>4, TensorsFacts DEF IsTensorOf
<1>6. PICK i \in DOMAIN c.shards[s].tensors : t = ShardTensors(c, s)[i] /\ Inspects(c.shards[s])
  BY <1>5
<1>7. /\ t.name \in TensorName /\ t.offset \in Nat /\ t.size \in Nat /\ t.size # 0
      /\ t.dtype \in DType /\ t.quantization = NotQuantized /\ t.shape \in Seq(Nat)
      /\ RequiredBytes(t.shape, t.dtype) = t.size
  BY <1>4, <1>6, TensorTypes
<1>8. t.name # NoName /\ (t.dtype = "INT8") = (t.quantization = Quantized)
  <2>1. ValidTensors(m)
    BY DEF Sound, Imports, Validate, m
  <2> QED BY <1>3, <2>1 DEF ValidTensors
<1>9. t.dtype # "INT8"
  BY <1>7, <1>8 DEF Quantized, NotQuantized
<1>10. ASSUME NEW u \in Range(Tensors(c)), u.name = name PROVE u = t
  BY <1>3, <1>4, <1>10 DEF Opens, Range
<1> QED BY <1>3, <1>5, <1>7, <1>8, <1>9, <1>10 DEF t, m

\* Reading a part of a tensor gives that part of its bytes.
LEMMA SourceBytes ==
  ASSUME NEW c, Sound(c), NEW name, Has(Imported(c), name), NEW loc,
         loc.offset \in Nat, loc.size \in Nat, loc.offset >= TensorOf(Imported(c), name).offset,
         loc.offset + loc.size
           <= TensorOf(Imported(c), name).offset + TensorOf(Imported(c), name).size
  PROVE  ReadRange(c, TensorOf(Imported(c), name).file, loc)
           = Run(name, loc.offset - TensorOf(Imported(c), name).offset, loc.size)
<1> DEFINE t == TensorOf(Imported(c), name)
<1> HIDE DEF t
<1>1. t.name = name /\ t.offset \in Nat /\ t.size \in Nat
  BY SourceTensor DEF t
<1>1a. PICK s \in DOMAIN c.shards : \E i \in DOMAIN c.shards[s].tensors :
         t = ShardTensors(c, s)[i] /\ Inspects(c.shards[s])
  BY SourceTensor DEF t
<1>2. PICK i \in DOMAIN c.shards[s].tensors : t = ShardTensors(c, s)[i] /\ Inspects(c.shards[s])
  BY <1>1a
<1>3. IsCheckpoint(c)
  BY DEF Sound
<1>4. t.file = s
  BY <1>2, <1>3, TensorTypes
<1>5. loc.offset >= t.offset /\ loc.offset + loc.size <= t.offset + t.size
  BY DEF t
<1>6. ASSUME NEW n \in 1..loc.size
      PROVE  ByteAt(c, s, loc.offset + n - 1) = Cell(name, (loc.offset - t.offset) + n - 1)
  <2> DEFINE p == loc.offset + n - 1
  <2>1. p \in Nat /\ p >= t.offset /\ p < t.offset + t.size
    BY <1>1, <1>5
  <2>2. p - t.offset = (loc.offset - t.offset) + n - 1
    BY <1>1
  <2> HIDE DEF p
  <2>3. ByteAt(c, s, p) = Cell(t.name, p - t.offset)
    BY <1>2, <1>3, <2>1, ByteFacts
  <2> QED BY <1>1, <2>2, <2>3 DEF p
<1>7. ReadRange(c, s, loc) = [n \in 1..loc.size |-> ByteAt(c, s, loc.offset + n - 1)]
  BY DEF ReadRange
<1>8. Run(name, loc.offset - t.offset, loc.size)
        = [n \in 1..loc.size |-> Cell(name, (loc.offset - t.offset) + n - 1)]
  BY DEF Run
<1> HIDE DEF Cell
<1>9. ReadRange(c, s, loc) = Run(name, loc.offset - t.offset, loc.size)
  BY <1>6, <1>7, <1>8
<1> QED BY <1>4, <1>9 DEF t

-----------------------------------------------------------------------------
(* What is packed of a tensor. *)

JobOf(c, e) == [manifest |-> Imported(c), from |-> c, encoding |-> e]

\* A run is as long as it says.
LEMMA RunFacts ==
  ASSUME NEW name, NEW first \in Nat, NEW size \in Nat
  PROVE  IsSeq(Run(name, first, size)) /\ Len(Run(name, first, size)) = size
<1>1. Run(name, first, size) = [n \in 1..size |-> Run(name, first, size)[n]]
  BY DEF Run
<1> QED BY <1>1, FunctionIsSeq

\* A tensor that keeps its layout keeps its bytes.
LEMMA PlainWeight ==
  ASSUME NEW c, NEW e, Sound(c), NEW name, Has(Imported(c), name), NEW layout,
         Len(TensorOf(Imported(c), name).shape) = 1 \/ layout = "INPUT_OUTPUT"
  PROVE  LET t == TensorOf(Imported(c), name) IN
         Weight(JobOf(c, e), name, layout)
           = [bytes |-> Run(name, 0, t.size), shape |-> t.shape, dtype |-> t.dtype]
<1> DEFINE t == TensorOf(Imported(c), name)
           job == JobOf(c, e)
           loc == [tensor |-> name, offset |-> t.offset, size |-> t.size, shape |-> t.shape,
                   layout |-> layout]
<1>1. job.manifest = Imported(c) /\ job.from = c
  BY DEF JobOf
<1>2. t.offset \in Nat /\ t.size \in Nat
  BY SourceTensor
<1> HIDE DEF job, t
<1>3. WholeTensor(job, name, layout) = loc
  BY <1>1 DEF WholeTensor, t
<1>4. /\ loc.tensor = name /\ loc.offset = t.offset /\ loc.size = t.size /\ loc.shape = t.shape
      /\ loc.layout = layout
  OBVIOUS
<1> HIDE DEF loc
<1>5. ReadRange(c, t.file, loc) = Run(name, 0, t.size)
  <2>1. loc.offset - t.offset = 0
    BY <1>2, <1>4
  <2>2. ReadRange(c, t.file, loc) = Run(name, loc.offset - t.offset, loc.size)
    BY <1>2, <1>4, SourceBytes DEF t
  <2> QED BY <1>4, <2>1, <2>2
<1>6. Weight(job, name, layout)
        = IF Len(t.shape) = 1
          THEN [bytes |-> ReadRange(c, t.file, loc), shape |-> t.shape, dtype |-> t.dtype]
          ELSE Converted(job, loc)
  BY <1>1, <1>3 DEF Weight, t
<1>7. Converted(job, loc) = ToInputOutput(ReadRange(c, t.file, loc), t.shape, t.dtype, layout)
  BY <1>1, <1>4 DEF Converted, t
<1>8. layout = "INPUT_OUTPUT" => Converted(job, loc)
        = [bytes |-> ReadRange(c, t.file, loc), shape |-> t.shape, dtype |-> t.dtype]
  BY <1>7 DEF ToInputOutput
<1>9. Len(t.shape) = 1 \/ layout = "INPUT_OUTPUT"
  BY DEF t
<1> QED BY <1>5, <1>6, <1>8, <1>9 DEF job, t

\* A location that is a matrix of O rows of I elements, from an element of its
\* tensor on.
LocatesMatrix(m, loc, O, I, base) ==
  LET t == TensorOf(m, loc.tensor)
      w == SizeOf(t.dtype) IN
  /\ Has(m, loc.tensor) /\ loc.shape = <<O, I>> /\ loc.layout = "OUTPUT_INPUT"
  /\ loc.size = O * I * w /\ loc.offset = t.offset + base * w
  /\ loc.offset + loc.size <= t.offset + t.size

\* Such a part of a tensor is converted row by row.
LEMMA MatrixPart ==
  ASSUME NEW c, NEW e, Sound(c), NEW loc, NEW O \in Nat, NEW I \in Nat, NEW base \in Nat,
         LocatesMatrix(Imported(c), loc, O, I, base)
  PROVE  LET plain == Converted(JobOf(c, e), loc) IN
         /\ plain.dtype = TensorOf(Imported(c), loc.tensor).dtype
         /\ IsElementwise(plain, O, I, loc.tensor, base)
         /\ Quantize(plain).dtype = "INT8"
         /\ IsElementwise(Quantize(plain), O, I, loc.tensor, base)
<1> DEFINE name == loc.tensor
           d == TensorOf(Imported(c), name).dtype
<1>0. /\ Has(Imported(c), name) /\ loc.tensor = name /\ loc.shape = <<O, I>>
      /\ loc.layout = "OUTPUT_INPUT" /\ loc.size = O * I * SizeOf(d)
      /\ loc.offset = TensorOf(Imported(c), name).offset + base * SizeOf(d)
      /\ loc.offset + loc.size
           <= TensorOf(Imported(c), name).offset + TensorOf(Imported(c), name).size
  BY DEF LocatesMatrix
<1> HIDE DEF name
<1> DEFINE t == TensorOf(Imported(c), name)
           job == JobOf(c, e)
           w == SizeOf(d)
           B == base * w
           N == O * I * w
<1>1. job.manifest = Imported(c) /\ job.from = c
  BY DEF JobOf
<1>2. t.offset \in Nat /\ d \in DType \ {"INT8"}
  BY <1>0, SourceTensor
<1>3. w \in Nat
  BY <1>2, Widths
<1>4. B \in Nat /\ N \in Nat
  <2> HIDE DEF w
  <2> QED BY <1>3
<1>5. loc.size = N /\ loc.offset = t.offset + B
  BY <1>0
<1>6. loc.offset + loc.size <= t.offset + t.size
  BY <1>0
<1> HIDE DEF B, N
<1>7. ReadRange(c, t.file, loc) = Run(name, B, N)
  <2> HIDE DEF t
  <2>1. loc.offset \in Nat /\ loc.size \in Nat /\ loc.offset >= t.offset
    BY <1>2, <1>4, <1>5
  <2>2. loc.offset - t.offset = B
    BY <1>2, <1>4, <1>5
  <2>3. ReadRange(c, t.file, loc) = Run(name, loc.offset - t.offset, loc.size)
    BY <1>0, <1>6, <2>1, SourceBytes DEF t
  <2> QED BY <1>5, <2>2, <2>3
<1>8. Converted(job, loc) = ToInputOutput(Run(name, B, N), <<O, I>>, d, "OUTPUT_INPUT")
  <2> HIDE DEF job
  <2> QED BY <1>0, <1>1, <1>7 DEF Converted
<1>9. LET weight == ToInputOutput(Run(name, B, N), <<O, I>>, d, "OUTPUT_INPUT") IN
      /\ weight.dtype = d /\ IsElementwise(weight, O, I, name, base)
      /\ Quantize(weight).dtype = "INT8"
      /\ IsElementwise(Quantize(weight), O, I, name, base)
  BY <1>2, ConvertedMatrix DEF B, N
<1> HIDE DEF job, d, B, N
<1> QED BY <1>8, <1>9 DEF job, name, d

\* What a static tensor must be: the checkpoint's bytes as they are, or a matrix
\* with inputs first.
IsStatic(name, weight) ==
  /\ IsSeq(weight.bytes)
  /\ \/ /\ Len(weight.shape) = 1 \/ name = Embedding
        /\ weight.bytes = Run(name, 0, Len(weight.bytes))
     \/ /\ name # Embedding
        /\ \E O \in Nat, I \in Nat : IsElementwise(weight, O, I, name, 0)

\* A vector, and the embedding, are packed as they are.
LEMMA PlainStatic ==
  ASSUME NEW c, NEW e, Sound(c), NEW name, NEW shape, HasShape(Imported(c), name, shape),
         NEW layout,
         Len(shape) = 1 \/ (name = Embedding /\ layout = "INPUT_OUTPUT")
  PROVE  IsStatic(name, Weight(JobOf(c, e), name, layout))
<1> DEFINE t == TensorOf(Imported(c), name)
           weight == Weight(JobOf(c, e), name, layout)
           bytes == Run(name, 0, t.size)
<1>1. Has(Imported(c), name) /\ t.shape = shape
  BY DEF HasShape
<1>2. t.size \in Nat
  BY <1>1, SourceTensor
<1>3. weight = [bytes |-> bytes, shape |-> t.shape, dtype |-> t.dtype]
  BY <1>1, PlainWeight
<1>4. IsSeq(bytes) /\ Len(bytes) = t.size
  <2> HIDE DEF t
  <2> QED BY <1>2, RunFacts
<1> HIDE DEF t, weight
<1>5. weight.bytes = bytes /\ weight.shape = t.shape
  <2> HIDE DEF bytes
  <2> QED BY <1>3
<1> HIDE DEF bytes
<1>6. weight.bytes = Run(name, 0, Len(weight.bytes))
  BY <1>4, <1>5 DEF bytes
<1> QED BY <1>1, <1>4, <1>5, <1>6 DEF IsStatic, weight

\* Another tensor of two axes is packed with inputs first.
LEMMA MatrixStatic ==
  ASSUME NEW c, NEW e, Sound(c), NEW name, NEW O \in Nat, NEW I \in Nat,
         HasShape(Imported(c), name, <<O, I>>), name # Embedding
  PROVE  IsStatic(name, Weight(JobOf(c, e), name, "OUTPUT_INPUT"))
<1> DEFINE t == TensorOf(Imported(c), name)
           job == JobOf(c, e)
           weight == Weight(job, name, "OUTPUT_INPUT")
           loc == WholeTensor(job, name, "OUTPUT_INPUT")
           w == SizeOf(t.dtype)
<1>1. Has(Imported(c), name) /\ t.shape = <<O, I>>
  BY DEF HasShape
<1>2. /\ t.size \in Nat /\ t.offset \in Nat /\ t.dtype \in DType \ {"INT8"}
      /\ RequiredBytes(t.shape, t.dtype) = t.size
  BY <1>1, SourceTensor
<1>3. t.size = O * I * w
  <2> HIDE DEF t
  <2>1. ElementCount(<<O, I>>) = O * I
    BY MatrixCount
  <2> QED BY <1>1, <1>2, <2>1 DEF RequiredBytes
<1>4. job.manifest = Imported(c) /\ job.from = c
  BY DEF JobOf
<1>5. loc = [tensor |-> name, offset |-> t.offset, size |-> t.size, shape |-> t.shape,
             layout |-> "OUTPUT_INPUT"]
  <2> HIDE DEF job
  <2> QED BY <1>4 DEF WholeTensor
<1>6. /\ loc.tensor = name /\ loc.offset = t.offset /\ loc.size = t.size /\ loc.shape = <<O, I>>
      /\ loc.layout = "OUTPUT_INPUT"
  <2> HIDE DEF loc, t
  <2> QED BY <1>1, <1>5
<1>7. weight = Converted(job, loc)
  <2>1. Len(t.shape) # 1
    <3> HIDE DEF t
    <3> QED BY <1>1
  <2> HIDE DEF job
  <2> QED BY <1>4, <2>1 DEF Weight
<1>8. t.offset = t.offset + 0 * w /\ w \in Nat
  <2>1. w \in Nat
    <3> HIDE DEF t
    <3> QED BY <1>2, Widths
  <2> HIDE DEF t, w
  <2> QED BY <1>2, <2>1
<1>9. IsElementwise(Converted(job, loc), O, I, name, 0)
  <2> DEFINE zero == 0
  <2>1. /\ loc.size = O * I * w /\ loc.offset = t.offset + zero * w
        /\ loc.offset + loc.size <= t.offset + t.size /\ zero \in Nat
    <3> HIDE DEF loc, t
    <3> QED BY <1>2, <1>3, <1>6, <1>8
  <2> HIDE DEF loc, zero
  <2>2. LocatesMatrix(Imported(c), loc, O, I, zero)
    BY <1>1, <1>6, <2>1 DEF LocatesMatrix
  <2>3. IsElementwise(Converted(JobOf(c, e), loc), O, I, loc.tensor, zero)
    BY <2>1, <2>2, MatrixPart
  <2> QED BY <1>6, <2>3 DEF zero
<1> HIDE DEF weight, loc, job
<1>10. IsElementwise(weight, O, I, name, 0)
  BY <1>7, <1>9
<1>11. IsSeq(weight.bytes)
  BY <1>10 DEF IsElementwise
<1> QED BY <1>10, <1>11 DEF IsStatic, weight, job

-----------------------------------------------------------------------------
(* What has been written stays. *)

Extends(s, t) ==
  /\ IsSeq(s) /\ IsSeq(t) /\ Len(s) <= Len(t)
  /\ \A i \in 1..Len(s) : t[i] = s[i]

\* A sequence begins with itself and with what it was put behind.
LEMMA ExtendsFacts ==
  /\ \A s : IsSeq(s) => Extends(s, s)
  /\ \A s, t : IsSeq(s) /\ IsSeq(t) => Extends(s, Cat(s, t))
  /\ \A s, t, u : Extends(s, t) /\ Extends(t, u) => Extends(s, u)
<1>1. ASSUME NEW s, IsSeq(s) PROVE Extends(s, s)
  BY <1>1, SeqFacts DEF Extends
<1>2. ASSUME NEW s, NEW t, IsSeq(s), IsSeq(t) PROVE Extends(s, Cat(s, t))
  <2>1. Len(s) \in Nat /\ Len(t) \in Nat
    BY <1>2, SeqFacts
  <2>2. /\ IsSeq(Cat(s, t)) /\ Len(Cat(s, t)) = Len(s) + Len(t)
        /\ \A i \in 1..Len(s) : Cat(s, t)[i] = s[i]
    BY <1>2, ConcatFacts
  <2> QED BY <1>2, <2>1, <2>2 DEF Extends
<1>3. ASSUME NEW s, NEW t, NEW u, Extends(s, t), Extends(t, u) PROVE Extends(s, u)
  <2>1. Len(s) \in Nat /\ Len(t) \in Nat /\ Len(u) \in Nat
    BY <1>3, SeqFacts DEF Extends
  <2> QED BY <1>3, <2>1 DEF Extends
<1> QED BY <1>1, <1>2, <1>3

\* Its elements stay.
LEMMA ExtendsRange == ASSUME NEW s, NEW t, Extends(s, t) PROVE Range(s) \subseteq Range(t)
<1>1. /\ DOMAIN s = 1..Len(s) /\ DOMAIN t = 1..Len(t) /\ Len(s) \in Nat /\ Len(t) \in Nat
      /\ Len(s) <= Len(t) /\ \A i \in 1..Len(s) : t[i] = s[i]
  BY SeqFacts DEF Extends
<1> QED BY <1>1 DEF Range

\* What a view inside the shorter one shows, it shows of the longer one.
LEMMA ExtendsView ==
  ASSUME NEW s, NEW t, Extends(s, t), NEW offset \in Nat, NEW size \in Nat,
         offset + size <= Len(s)
  PROVE  View(t, offset, size) = View(s, offset, size) /\ offset + size <= Len(t)
<1>1. IsSeq(s) /\ IsSeq(t) /\ Len(s) \in Nat /\ Len(t) \in Nat /\ Len(s) <= Len(t)
  BY SeqFacts DEF Extends
<1>2. offset + size <= Len(t)
  BY <1>1
<1>3. View(s, offset, size) = Part(s, offset, size)
  BY <1>1, ViewFacts
<1>4. View(t, offset, size) = Part(t, offset, size)
  BY <1>1, <1>2, ViewFacts
<1>5. \A b \in 1..size : t[offset + b] = s[offset + b]
  BY <1>1 DEF Extends
<1> QED BY <1>2, <1>3, <1>4, <1>5 DEF Part

\* The file has the weight of an item where a packed tensor says.
Holds(job, bin, tensors, item) ==
  LET weight == Weight(job, item.name, item.layout) IN
  \E offset \in Nat :
    /\ PackedTensor(item.name, offset, weight) \in Range(tensors)
    /\ offset + Len(weight.bytes) <= Len(bin)
    /\ View(bin, offset, Len(weight.bytes)) = weight.bytes

\* So it has when both have grown.
LEMMA HoldsStays ==
  ASSUME NEW job, NEW bin, NEW tensors, NEW item, Holds(job, bin, tensors, item),
         NEW bin2, NEW tensors2, Extends(bin, bin2), Extends(tensors, tensors2),
         IsSeq(Weight(job, item.name, item.layout).bytes)
  PROVE  Holds(job, bin2, tensors2, item)
<1> DEFINE weight == Weight(job, item.name, item.layout)
           n == Len(weight.bytes)
<1>1. n \in Nat
  BY SeqFacts
<1>2. PICK offset \in Nat :
        /\ PackedTensor(item.name, offset, weight) \in Range(tensors)
        /\ offset + n <= Len(bin) /\ View(bin, offset, n) = weight.bytes
  BY DEF Holds
<1> HIDE DEF weight
<1>3. View(bin2, offset, n) = weight.bytes /\ offset + n <= Len(bin2)
  <2> HIDE DEF n
  <2> QED BY <1>1, <1>2, ExtendsView
<1>4. PackedTensor(item.name, offset, weight) \in Range(tensors2)
  BY <1>2, ExtendsRange
<1> QED BY <1>3, <1>4 DEF Holds, weight

\* Static tensors are written behind what is there, each where its tensor says.
LEMMA StaticFacts ==
  ASSUME NEW job, NEW bin, NEW tensors, NEW items, IsSeq(bin), IsSeq(tensors), IsSeq(items),
         \A i \in DOMAIN items : IsSeq(Weight(job, items[i].name, items[i].layout).bytes)
  PROVE  LET w == WithStatic(job, bin, tensors, items) IN
         /\ Extends(bin, w.bin) /\ Extends(tensors, w.tensors)
         /\ \A i \in DOMAIN items : Holds(job, w.bin, w.tensors, items[i])
<1> DEFINE n == Len(items)
           weight == [i \in DOMAIN items |-> Weight(job, items[i].name, items[i].layout)]
           v == [i \in 1..n |-> weight[i].bytes]
           F(k) == FlattenSeq([i \in 1..k |-> weight[i].bytes])
           ts == [i \in 1..n |-> PackedTensor(items[i].name, Len(bin \o F(i - 1)), weight[i])]
           w == WithStatic(job, bin, tensors, items)
<1>1. n \in Nat /\ DOMAIN items = 1..n
  BY SeqFacts
<1>2. w = [bin |-> bin \o F(n), tensors |-> tensors \o ts]
  <2> HIDE DEF weight
  <2> QED BY <1>1 DEF WithStatic, weight
<1>3. \A i \in 1..n : weight[i] = Weight(job, items[i].name, items[i].layout)
  BY <1>1
<1> HIDE DEF weight
<1>4. \A i \in 1..n : IsSeq(v[i]) /\ v[i] = weight[i].bytes
  BY <1>1, <1>3
<1>5. ASSUME NEW k \in 0..n PROVE F(k) = Flat(v, k)
  <2>1. [i \in 1..k |-> weight[i].bytes] = [i \in 1..k |-> v[i]]
    BY <1>1
  <2> HIDE DEF v
  <2> QED BY <2>1 DEF Flat
<1> HIDE DEF F
<1>6. IsSeq(ts) /\ Len(ts) = n /\ \A i \in 1..n : ts[i]
        = PackedTensor(items[i].name, Len(Cat(bin, Flat(v, i - 1))), weight[i])
  <2>1. ts = [i \in 1..n |-> ts[i]]
    OBVIOUS
  <2>2. \A i \in 1..n : ts[i] = PackedTensor(items[i].name, Len(bin \o F(i - 1)), weight[i])
    OBVIOUS
  <2>3. \A i \in 1..n : F(i - 1) = Flat(v, i - 1)
    BY <1>1, <1>5
  <2> HIDE DEF ts, v, n
  <2>4. IsSeq(ts) /\ Len(ts) = n
    BY <1>1, <2>1, FunctionIsSeq
  <2> QED BY <2>2, <2>3, <2>4 DEF Cat
<1> HIDE DEF ts, v, w, n
<1>7. w.bin = Cat(bin, Flat(v, n)) /\ w.tensors = Cat(tensors, ts)
  <2>1. F(n) = Flat(v, n)
    BY <1>1, <1>5
  <2> QED BY <1>2, <2>1 DEF Cat
<1>8. \A k \in 0..n : IsSeq(Flat(v, k))
  BY <1>1, <1>4, FlatUnfolds
<1>9. Extends(bin, w.bin) /\ Extends(tensors, w.tensors)
  <2>1. IsSeq(Flat(v, n))
    BY <1>1, <1>8
  <2> QED BY <1>6, <1>7, <2>1, ExtendsFacts
<1>10. ASSUME NEW i \in 1..n PROVE Holds(job, w.bin, w.tensors, items[i])
  <2> DEFINE a == Flat(v, i - 1)
             b == Flat(v, n)
             offset == Len(bin) + Len(a)
             size == Len(v[i])
  <2>1. IsSeq(a) /\ IsSeq(b) /\ IsSeq(v[i])
    BY <1>1, <1>4, <1>8
  <2>2. Len(bin) \in Nat /\ Len(a) \in Nat /\ Len(b) \in Nat /\ size \in Nat
    BY <2>1, SeqFacts
  <2>3. Len(a) + size <= Len(b) /\ \A j \in 1..size : b[Len(a) + j] = v[i][j]
    <3>1. \A k \in 1..n : IsSeq(v[k])
      BY <1>4
    <3> QED BY <1>1, <3>1, FlatGrows, Zenon
  <2>4. /\ Len(Cat(bin, a)) = offset /\ Len(Cat(bin, b)) = Len(bin) + Len(b)
        /\ IsSeq(Cat(bin, b)) /\ \A j \in 1..Len(b) : Cat(bin, b)[Len(bin) + j] = b[j]
    <3> HIDE DEF a, b
    <3> QED BY <2>1, ConcatFacts
  <2> HIDE DEF a, b
  <2>5. offset \in Nat /\ offset + size <= Len(w.bin)
    <3>1. w.bin = Cat(bin, b)
      BY <1>7 DEF b
    <3>2. Len(w.bin) = Len(bin) + Len(b)
      BY <2>4, <3>1
    <3>3. Len(a) + size <= Len(b)
      BY <2>3
    <3> HIDE DEF size
    <3> QED BY <2>2, <3>2, <3>3
  <2>6. ts[i] = PackedTensor(items[i].name, offset, weight[i])
    BY <1>6, <2>4 DEF a
  <2>7. ts[i] \in Range(w.tensors)
    <3>1. Range(Cat(tensors, ts)) = Range(tensors) \cup Range(ts)
      BY <1>6, ConcatFacts
    <3>2. ts[i] \in Range(ts)
      BY <1>6, SeqFacts DEF Range
    <3> QED BY <1>7, <3>1, <3>2
  <2>8. View(w.bin, offset, size) = v[i]
    <3>1. View(w.bin, offset, size) = Part(w.bin, offset, size)
      <4>1. IsSeq(w.bin)
        BY <1>9 DEF Extends
      <4> HIDE DEF offset, size
      <4> QED BY <2>2, <2>5, <4>1, ViewFacts
    <3>2. ASSUME NEW j \in 1..size PROVE w.bin[offset + j] = v[i][j]
      <4>1. Len(a) + j \in 1..Len(b) /\ offset + j = Len(bin) + (Len(a) + j)
        BY <2>2, <2>3
      <4>2. w.bin[Len(bin) + (Len(a) + j)] = b[Len(a) + j]
        BY <1>7, <2>4, <4>1 DEF b
      <4> QED BY <2>3, <4>1, <4>2
    <3>3. v[i] = [j \in 1..size |-> v[i][j]]
      BY <2>1, SeqFacts
    <3> HIDE DEF offset, size
    <3> QED BY <3>1, <3>2, <3>3 DEF Part
  <2>9. v[i] = weight[i].bytes /\ weight[i] = Weight(job, items[i].name, items[i].layout)
    BY <1>3, <1>4
  <2> HIDE DEF offset
  <2> QED BY <2>5, <2>6, <2>7, <2>8, <2>9 DEF Holds
<1> QED BY <1>1, <1>9, <1>10 DEF w

-----------------------------------------------------------------------------
(* The projections of an expert. *)

Rows(c, r) == IF r = "down" THEN c.config.hidden ELSE c.config.inter
Columns(c, r) == IF r = "down" THEN c.config.inter ELSE c.config.hidden

\* The source tensor of a projection and its first element in it.
HomeOf(c, l, x, r) ==
  IF l \notin FusedLayers(Tensors(c)) THEN Name("expert", l, x, r)
  ELSE (CHOOSE t \in Fused(Tensors(c), l, IF r = "down" THEN "down" ELSE "gate_up") : TRUE).name

BaseOf(c, l, x, r) ==
  IF l \notin FusedLayers(Tensors(c)) THEN 0
  ELSE CASE r = "gate" -> (x * 2 * Rows(c, r)) * Columns(c, r)
         [] r = "up" -> (x * 2 * Rows(c, r) + Rows(c, r)) * Columns(c, r)
         [] r = "down" -> (x * Rows(c, r)) * Columns(c, r)

\* Their sizes are numbers.
LEMMA HomeTypes ==
  ASSUME NEW c, Sound(c), NEW l, NEW x \in Nat, NEW r \in Role
  PROVE  /\ Rows(c, r) \in Nat /\ Columns(c, r) \in Nat /\ BaseOf(c, l, x, r) \in Nat
         /\ Reverse(ExpertShape(c.config, r)) = <<Rows(c, r), Columns(c, r)>>
         /\ Rows(c, r) * Columns(c, r) = c.config.hidden * c.config.inter
<1>1. c.config.hidden \in Nat /\ c.config.inter \in Nat
  BY DEF Sound, IsCheckpoint
<1>2. Rows(c, r) \in Nat /\ Columns(c, r) \in Nat
  BY <1>1 DEF Rows, Columns
<1>3. Reverse(ExpertShape(c.config, r)) = <<Rows(c, r), Columns(c, r)>>
  <2>1. CASE r = "down"
    BY <2>1, ReversePair DEF ExpertShape, Rows, Columns
  <2>2. CASE r # "down"
    BY <2>2, ReversePair DEF ExpertShape, Rows, Columns
  <2> QED BY <2>1, <2>2
<1>4. Rows(c, r) * Columns(c, r) = c.config.hidden * c.config.inter
  BY <1>1 DEF Rows, Columns
<1>5. BaseOf(c, l, x, r) \in Nat
  <2> DEFINE R == Rows(c, r)
             C == Columns(c, r)
  <2> HIDE DEF R, C
  <2>1. R \in Nat /\ C \in Nat
    BY <1>2 DEF R, C
  <2>2. x * 2 * R \in Nat /\ x * R \in Nat /\ x * 2 * R + R \in Nat
    BY <2>1
  <2>3. (x * 2 * R) * C \in Nat /\ (x * 2 * R + R) * C \in Nat /\ (x * R) * C \in Nat
    <3> DEFINE u == x * 2 * R
               v == x * R
               z == x * 2 * R + R
    <3>1. u \in Nat /\ v \in Nat /\ z \in Nat
      BY <2>2
    <3> HIDE DEF u, v, z
    <3>2. u * C \in Nat /\ z * C \in Nat /\ v * C \in Nat
      BY <2>1, <3>1
    <3> QED BY <3>2 DEF u, v, z
  <2>4. BaseOf(c, l, x, r) \in {0, (x * 2 * R) * C, (x * 2 * R + R) * C, (x * R) * C}
    BY DEF BaseOf, R, C, Role
  <2> QED BY <2>3, <2>4
<1> QED BY <1>2, <1>3, <1>4, <1>5

\* Where the importer says a projection is.
LEMMA ProjectionPlace ==
  ASSUME NEW c, Sound(c), NEW l \in MoELayers(Tensors(c)),
         NEW x \in 0..(c.config.experts - 1), NEW r \in Role,
         Has(Imported(c), Projection(c.config, Tensors(c), l, x, r).tensor)
  PROVE  LET p == Projection(c.config, Tensors(c), l, x, r)
             t == TensorOf(Imported(c), p.tensor)
             w == SizeOf(t.dtype) IN
         /\ p.tensor = HomeOf(c, l, x, r)
         /\ p.offset = t.offset + BaseOf(c, l, x, r) * w
         /\ p.size = Rows(c, r) * Columns(c, r) * w
         /\ p.shape = <<Rows(c, r), Columns(c, r)>> /\ p.layout = "OUTPUT_INPUT"
<1> DEFINE ts == Tensors(c)
           f == c.config
           p == Projection(f, ts, l, x, r)
           t == TensorOf(Imported(c), p.tensor)
           w == SizeOf(t.dtype)
           R == Rows(c, r)
           C == Columns(c, r)
<1>1. /\ t.name = p.tensor /\ \A u \in Range(ts) : u.name = p.tensor => u = t
      /\ t.offset \in Nat /\ t.size \in Nat /\ t.dtype \in DType \ {"INT8"}
      /\ RequiredBytes(t.shape, t.dtype) = t.size
  <2> HIDE DEF p
  <2> QED BY SourceTensor DEF p
<1>2. w \in Nat
  <2> HIDE DEF t
  <2> QED BY <1>1, Widths
<1>3. R \in Nat /\ C \in Nat /\ Reverse(ExpertShape(f, r)) = <<R, C>> /\ R * C = f.hidden * f.inter
      /\ f.hidden \in Nat /\ f.inter \in Nat /\ x \in Nat
  <2>1. f.experts \in Nat /\ f.hidden \in Nat /\ f.inter \in Nat
    BY DEF Sound, IsCheckpoint
  <2>2. x \in Nat
    BY <2>1
  <2> QED BY <2>1, <2>2, HomeTypes
<1>4. ExpertsImport(f, ts) /\ \A u \in Range(ts) : NameImports(f, u)
  BY DEF Sound, Imports
<1>5. CASE l \in FusedLayers(ts)
  <2> DEFINE role == IF r = "down" THEN "down" ELSE "gate_up"
             u == CHOOSE v \in Fused(ts, l, role) : TRUE
             bytes == RequiredBytes(<<f.hidden, f.inter>>, u.dtype)
             at == CASE r = "gate" -> x * 2 * bytes
                     [] r = "up" -> x * 2 * bytes + bytes
                     [] r = "down" -> x * bytes
  <2>1. Fused(ts, l, role) # {}
    <3>1. Cardinality(Fused(ts, l, role)) = 1
      BY <1>4, <1>5 DEF ExpertsImport, FusedImports
    <3> QED BY <3>1, FS_EmptySet
  <2>2. u \in Range(ts)
    BY <2>1 DEF Fused
  <2>3. p = [tensor |-> u.name, offset |-> u.offset + at, size |-> bytes,
             shape |-> Reverse(ExpertShape(f, r)), layout |-> "OUTPUT_INPUT"]
    <3> HIDE DEF ts, f
    <3> QED BY <1>5 DEF Projection, FusedSlice, Location
  <2>4. HomeOf(c, l, x, r) = u.name
    BY <1>5 DEF HomeOf
  <2> HIDE DEF u, at, p, t, bytes
  <2>5. /\ p.tensor = u.name /\ p.offset = u.offset + at /\ p.size = bytes
        /\ p.shape = Reverse(ExpertShape(f, r)) /\ p.layout = "OUTPUT_INPUT"
    BY <2>3
  <2>6. u = t
    BY <1>1, <2>2, <2>5
  <2>7. bytes = R * C * w
    <3>1. ElementCount(<<f.hidden, f.inter>>) = f.hidden * f.inter
      BY <1>3, MatrixCount
    <3>2. bytes = f.hidden * f.inter * w
      BY <2>6, <3>1 DEF bytes, RequiredBytes
    <3> HIDE DEF R, C, w, f
    <3> QED BY <1>3, <3>2
  <2>8. at = BaseOf(c, l, x, r) * w
    <3>1. BaseOf(c, l, x, r) = CASE r = "gate" -> (x * 2 * R) * C
                                 [] r = "up" -> (x * 2 * R + R) * C
                                 [] r = "down" -> (x * R) * C
      BY <1>5 DEF BaseOf
    <3> HIDE DEF R, C, w
    <3>2. /\ x * 2 * (R * C * w) = ((x * 2 * R) * C) * w
          /\ x * 2 * (R * C * w) + R * C * w = ((x * 2 * R + R) * C) * w
          /\ x * (R * C * w) = ((x * R) * C) * w
      BY <1>2, <1>3
    <3>3. CASE r = "gate"
      BY <2>7, <3>1, <3>2, <3>3 DEF at
    <3>4. CASE r = "up"
      BY <2>7, <3>1, <3>2, <3>4 DEF at
    <3>5. CASE r = "down"
      BY <2>7, <3>1, <3>2, <3>5 DEF at
    <3> QED BY <3>3, <3>4, <3>5 DEF Role
  <2> HIDE DEF w, R, C
  <2> QED BY <1>3, <2>4, <2>5, <2>6, <2>7, <2>8 DEF p, t, w, R, C
<1>6. CASE l \notin FusedLayers(ts)
  <2> DEFINE u == CHOOSE v \in Individual(ts, l, x, r) : TRUE
  <2>1. Individual(ts, l, x, r) # {}
    BY <1>4, <1>6 DEF ExpertsImport, MoELayers
  <2>2. u \in Range(ts) /\ u.name = Name("expert", l, x, r)
    BY <2>1 DEF Individual
  <2>3. p = [tensor |-> u.name, offset |-> u.offset + 0, size |-> u.size, shape |-> u.shape,
             layout |-> "OUTPUT_INPUT"]
    <3> HIDE DEF ts, f
    <3> QED BY <1>6 DEF Projection, Location
  <2> HIDE DEF u, p, t
  <2>4. /\ p.tensor = u.name /\ p.offset = u.offset + 0 /\ p.size = u.size
        /\ p.shape = u.shape /\ p.layout = "OUTPUT_INPUT"
    BY <2>3
  <2>5. u = t
    BY <1>1, <2>2, <2>4
  <2>6. u.name.kind = "expert" /\ u.name.role = r
    BY <2>2 DEF Name
  <2>7. u.shape = <<R, C>>
    BY <1>3, <1>4, <2>2, <2>6 DEF NameImports, LayerTensor
  <2>8. u.size = R * C * w
    <3>1. ElementCount(<<R, C>>) = R * C
      BY <1>3, MatrixCount
    <3> QED BY <1>1, <2>5, <2>7, <3>1 DEF RequiredBytes
  <2>9. HomeOf(c, l, x, r) = u.name /\ BaseOf(c, l, x, r) = 0
    BY <1>6, <2>2 DEF HomeOf, BaseOf
  <2>10. BaseOf(c, l, x, r) * w = 0
    BY <1>2, <2>9
  <2> HIDE DEF w, R, C
  <2> QED BY <1>1, <2>4, <2>5, <2>7, <2>8, <2>9, <2>10 DEF p, t, w, R, C
<1> QED BY <1>5, <1>6

\* An encoded projection is the source's matrix with inputs first.
LEMMA EncodedProjection ==
  ASSUME NEW c, Sound(c), NEW e, NEW l \in MoELayers(Tensors(c)),
         NEW x \in 0..(c.config.experts - 1), NEW r \in Role,
         ValidProjection(Imported(c), Projection(c.config, Tensors(c), l, x, r), r)
  PROVE  LET p == Projection(c.config, Tensors(c), l, x, r)
             weight == Encoded(JobOf(c, e), p) IN
         /\ weight.dtype = IF e = "INT8" THEN "INT8" ELSE DTypeOf(Imported(c), p)
         /\ IsElementwise(weight, Rows(c, r), Columns(c, r), HomeOf(c, l, x, r), BaseOf(c, l, x, r))
<1> DEFINE p == Projection(c.config, Tensors(c), l, x, r)
           t == TensorOf(Imported(c), p.tensor)
           d == t.dtype
           base == BaseOf(c, l, x, r)
           R == Rows(c, r)
           C == Columns(c, r)
           name == HomeOf(c, l, x, r)
           plain == Converted(JobOf(c, e), p)
<1>1. Has(Imported(c), p.tensor) /\ p.offset + p.size <= t.offset + t.size
  BY DEF ValidProjection
<1>2. /\ p.tensor = name /\ p.offset = t.offset + base * SizeOf(d) /\ p.size = R * C * SizeOf(d)
      /\ p.shape = <<R, C>> /\ p.layout = "OUTPUT_INPUT"
  BY <1>1, ProjectionPlace
<1>3. R \in Nat /\ C \in Nat /\ base \in Nat
  <2>1. x \in Nat
    BY DEF Sound, IsCheckpoint
  <2> QED BY <2>1, HomeTypes
<1> HIDE DEF p, base, R, C, name
<1>4. /\ plain.dtype = d /\ IsElementwise(plain, R, C, name, base)
      /\ Quantize(plain).dtype = "INT8" /\ IsElementwise(Quantize(plain), R, C, name, base)
  <2>1. LocatesMatrix(Imported(c), p, R, C, base)
    BY <1>1, <1>2 DEF LocatesMatrix
  <2> QED BY <1>2, <1>3, <2>1, MatrixPart
<1>5. Encoded(JobOf(c, e), p) = IF e = "INT8" THEN Quantize(plain) ELSE plain
  <2>1. JobOf(c, e).encoding = e
    BY DEF JobOf
  <2> QED BY <2>1 DEF Encoded
<1>6. DTypeOf(Imported(c), p) = d
  BY DEF DTypeOf
<1> HIDE DEF plain, d
<1> QED BY <1>4, <1>5, <1>6 DEF p, base, R, C, name

-----------------------------------------------------------------------------
(* The stages of the experts. *)

\* Each expert of the manifest is packed as its three source matrices, all of one
\* type.
EncodedAs(c, e, x, r) ==
  LET weight == Encoded(JobOf(c, e), x.at[r]) IN
  /\ weight.dtype = IF e = "INT8" THEN "INT8" ELSE DTypeOf(Imported(c), x.at["gate"])
  /\ IsElementwise(weight, Rows(c, r), Columns(c, r), HomeOf(c, x.layer, x.expert, r),
                   BaseOf(c, x.layer, x.expert, r))
  /\ IsSeq(weight.bytes)

\* So it is for every expert the importer lists.
LEMMA ExpertWeights ==
  ASSUME NEW c, Sound(c), NEW e, NEW n \in DOMAIN Imported(c).experts
  PROVE  LET x == Imported(c).experts[n] IN
         /\ x.layer \in MoELayers(Tensors(c)) /\ x.expert \in 0..(c.config.experts - 1)
         /\ \A r \in Role : EncodedAs(c, e, x, r)
<1> DEFINE m == Imported(c)
           x == m.experts[n]
<1>1. PICK l \in MoELayers(Tensors(c)), y \in 0..(c.config.experts - 1) :
        x = [layer |-> l, expert |-> y,
             at |-> [r \in Role |-> Projection(c.config, Tensors(c), l, y, r)]]
  BY ImportedFacts DEF Sound, ImportedShape
<1>2. /\ x.layer = l /\ x.expert = y
      /\ \A r \in Role : x.at[r] = Projection(c.config, Tensors(c), l, y, r)
  <2> HIDE DEF x
  <2> QED BY <1>1
<1>3. /\ \A r \in Role : ValidProjection(m, x.at[r], r)
      /\ \A r \in Role : DTypeOf(m, x.at[r]) = DTypeOf(m, x.at["gate"])
  <2>1. ValidExperts(m)
    BY DEF Sound, Imports, Validate
  <2>2. x \in Range(m.experts)
    BY DEF Range
  <2> HIDE DEF m, x
  <2> QED BY <2>1, <2>2 DEF ValidExperts
<1>4. ASSUME NEW r \in Role PROVE EncodedAs(c, e, x, r)
  <2> DEFINE p == Projection(c.config, Tensors(c), l, y, r)
             weight == Encoded(JobOf(c, e), p)
  <2>1. x.at[r] = p
    BY <1>2
  <2>2. ValidProjection(m, p, r)
    BY <1>3, <2>1
  <2>3. /\ weight.dtype = IF e = "INT8" THEN "INT8" ELSE DTypeOf(m, p)
        /\ IsElementwise(weight, Rows(c, r), Columns(c, r), HomeOf(c, l, y, r), BaseOf(c, l, y, r))
    BY <2>2, EncodedProjection
  <2>4. DTypeOf(m, p) = DTypeOf(m, x.at["gate"])
    BY <1>3, <2>1
  <2> HIDE DEF x, p, m
  <2>5. IsSeq(weight.bytes)
    BY <2>3 DEF IsElementwise
  <2> QED BY <1>2, <2>1, <2>3, <2>4, <2>5 DEF EncodedAs, m
<1> HIDE DEF x
<1> QED BY <1>2, <1>4 DEF x

\* An expert starts at or behind the end of the file.
LEMMA AlignFacts ==
  ASSUME NEW n \in Nat
  PROVE  AlignUp(n) \in Nat /\ AlignUp(n) >= n /\ IsSeq(Padding(n))
<1> DEFINE A == Alignment
           k == n + A - 1
           q == k \div A
<1>1. A \in Nat /\ A # 0 /\ k \in Nat
  BY PackageAssumption
<1>2. q \in Nat /\ k = q * A + (k % A) /\ k % A \in 0..(A - 1)
  <2> HIDE DEF k, A
  <2> QED BY <1>1
<1>3. AlignUp(n) = q * A
  BY DEF AlignUp
<1>4. q * A \in Nat /\ q * A >= n
  <2> DEFINE y == q * A
             z == k % A
  <2>1. y \in Nat
    <3> HIDE DEF q, A
    <3> QED BY <1>1, <1>2
  <2>2. n + A - 1 = y + z /\ z \in 0..(A - 1)
    <3> HIDE DEF q, A
    <3> QED BY <1>2
  <2> HIDE DEF y, z, A
  <2>3. y >= n
    BY <1>1, <2>1, <2>2
  <2> QED BY <2>1, <2>3 DEF y
<1>5. IsSeq(Padding(n))
  <2> DEFINE f == Padding(n)
             j == AlignUp(n) - n
  <2>1. j \in Nat
    BY <1>3, <1>4
  <2>2. f = [i \in 1..j |-> f[i]]
    BY DEF Padding
  <2> HIDE DEF f, j
  <2> QED BY <2>1, <2>2, FunctionIsSeq DEF f
<1> QED BY <1>3, <1>4, <1>5

-----------------------------------------------------------------------------
(* The package after each step. *)

NothingWritten(job) ==
  [bin |-> <<>>, pack |-> [records |-> <<>>, projections |-> <<>>,
                           manifest |-> NothingPacked(job)]]

\* g is what there is after each of the first k experts.
PacksExperts(job, g, k) ==
  g[0] = NothingWritten(job) /\ \A i \in 1..k : g[i] = WithExpert(job, g[i - 1])

Stage(job, k) == (CHOOSE g : PacksExperts(job, g, k))[k]

\* There is such a g, and only one.
LEMMA StageUnfolds ==
  ASSUME NEW job
  PROVE  /\ Stage(job, 0) = NothingWritten(job)
         /\ \A k \in Nat : Stage(job, k + 1) = WithExpert(job, Stage(job, k))
<1> DEFINE P(g, k) == PacksExperts(job, g, k)
           S == {k \in Nat : \E g : P(g, k)}
<1>1. 0 \in S
  <2> DEFINE g == [i \in {0} |-> NothingWritten(job)]
  <2>1. P(g, 0)
    <3>1. g[0] = NothingWritten(job) /\ 1..0 = {}
      OBVIOUS
    <3> HIDE DEF g
    <3> QED BY <3>1 DEF PacksExperts
  <2> HIDE DEF P, g
  <2> QED BY <2>1
<1>2. ASSUME NEW k \in S PROVE k + 1 \in S
  <2>1. PICK g : P(g, k)
    OBVIOUS
  <2> DEFINE h == [i \in 0..(k + 1) |-> IF i = k + 1 THEN WithExpert(job, g[k]) ELSE g[i]]
  <2>2. \A i \in 0..k : h[i] = g[i]
    OBVIOUS
  <2>3. h[k + 1] = WithExpert(job, g[k])
    OBVIOUS
  <2> HIDE DEF h
  <2>4. P(h, k + 1)
    <3>1. h[0] = NothingWritten(job)
      BY <2>1, <2>2 DEF PacksExperts
    <3>2. ASSUME NEW i \in 1..(k + 1) PROVE h[i] = WithExpert(job, h[i - 1])
      <4>1. CASE i = k + 1
        <5>1. h[i - 1] = g[k]
          BY <2>2, <4>1
        <5> QED BY <2>3, <4>1, <5>1
      <4>2. CASE i # k + 1
        <5>1. i \in 1..k /\ h[i] = g[i] /\ h[i - 1] = g[i - 1]
          BY <2>2, <4>2
        <5> QED BY <2>1, <5>1 DEF PacksExperts
      <4> QED BY <4>1, <4>2
    <3> QED BY <3>1, <3>2 DEF PacksExperts
  <2> HIDE DEF P
  <2> QED BY <2>4
<1>3. \A k \in Nat : \E g : P(g, k)
  <2> HIDE DEF P
  <2>1. Nat \subseteq S
    <3> HIDE DEF S
    <3> QED BY <1>1, <1>2, NatSetInduction
  <2> QED BY <2>1
<1>4. ASSUME NEW k \in Nat, NEW n \in Nat, NEW g, NEW h, P(g, k), P(h, n)
      PROVE  \A i \in Nat : i <= k /\ i <= n => g[i] = h[i]
  <2> DEFINE T == {i \in Nat : i <= k /\ i <= n => g[i] = h[i]}
  <2>1. 0 \in T
    BY <1>4 DEF PacksExperts
  <2>2. ASSUME NEW i \in T PROVE i + 1 \in T
    <3> SUFFICES ASSUME i + 1 <= k, i + 1 <= n PROVE g[i + 1] = h[i + 1]
      OBVIOUS
    <3>1. g[i] = h[i] /\ i + 1 \in 1..k /\ i + 1 \in 1..n /\ (i + 1) - 1 = i
      BY <2>2
    <3> QED BY <1>4, <3>1 DEF PacksExperts
  <2>3. Nat \subseteq T
    <3> HIDE DEF T
    <3> QED BY <2>1, <2>2, NatSetInduction
  <2> QED BY <2>3
<1> DEFINE G(k) == CHOOSE g : P(g, k)
<1>5. \A k \in Nat : P(G(k), k) /\ Stage(job, k) = G(k)[k]
  <2>1. \A k \in Nat : P(G(k), k)
    <3> HIDE DEF P
    <3> QED BY <1>3
  <2> QED BY <2>1 DEF Stage
<1> HIDE DEF G
<1>6. Stage(job, 0) = NothingWritten(job)
  BY <1>5 DEF PacksExperts
<1>7. ASSUME NEW k \in Nat PROVE Stage(job, k + 1) = WithExpert(job, Stage(job, k))
  <2>1. P(G(k + 1), k + 1) /\ P(G(k), k)
    BY <1>5
  <2>2. G(k + 1)[k] = G(k)[k]
    <3> HIDE DEF P
    <3> QED BY <1>4, <2>1
  <2>3. G(k + 1)[k + 1] = WithExpert(job, G(k + 1)[k])
    <3>1. k + 1 \in 1..(k + 1) /\ (k + 1) - 1 = k
      OBVIOUS
    <3> QED BY <2>1, <3>1 DEF PacksExperts
  <2> QED BY <1>5, <2>2, <2>3
<1> QED BY <1>6, <1>7

\* What the packer keeps of the manifest it is given.
Keeps(c, e, m) ==
  /\ IsRecord(m, ManifestFields)
  /\ m.config = [layers |-> c.config.layers, experts |-> c.config.experts,
                 hidden |-> c.config.hidden, inter |-> c.config.inter,
                 shared |-> c.config.shared, quantized |-> (e = "INT8")]
  /\ m.arch = Architecture(c.config)
  /\ IsRecord(m.router, {"topK", "experts", "layout", "tensors"})
  /\ m.router.topK = c.config.topK

\* Before anything is packed.
LEMMA NothingFacts ==
  ASSUME NEW c, Sound(c), NEW e
  PROVE  LET m == NothingPacked(JobOf(c, e)) IN
         Keeps(c, e, m) /\ m.tensors = <<>> /\ m.experts = <<>>
<1> DEFINE s == Imported(c)
           m == NothingPacked(JobOf(c, e))
           r == s.router
           f == s.config
<1>1. ImportedShape(c, s)
  BY ImportedFacts DEF Sound
<1>2. m = [s EXCEPT !.tensors = <<>>, !.experts = <<>>, !.router.tensors = <<>>,
                    !.layers = <<>>, !.io = NoIO, !.router.layout = "INPUT_OUTPUT",
                    !.config.quantized = (e = "INT8")]
  <2>1. JobOf(c, e).manifest = s /\ JobOf(c, e).encoding = e
    BY DEF JobOf
  <2> QED BY <2>1 DEF NothingPacked
<1> HIDE DEF s, m
<1>3. /\ IsRecord(s, ManifestFields) /\ s.arch = Architecture(c.config)
      /\ f = [layers |-> c.config.layers, experts |-> c.config.experts,
              hidden |-> c.config.hidden, inter |-> c.config.inter,
              shared |-> c.config.shared, quantized |-> f.quantized]
      /\ r = [topK |-> c.config.topK, experts |-> c.config.experts,
              layout |-> "OUTPUT_INPUT", tensors |-> r.tensors]
  BY <1>1 DEF ImportedShape
<1>4. DOMAIN s = ManifestFields
  BY <1>3 DEF IsRecord
<1>5. m = [i \in ManifestFields |->
            IF i \in {"tensors", "experts", "layers"} THEN <<>>
            ELSE IF i = "io" THEN NoIO
            ELSE IF i = "router" THEN [[r EXCEPT !.tensors = <<>>] EXCEPT !.layout = "INPUT_OUTPUT"]
            ELSE IF i = "config" THEN [f EXCEPT !.quantized = (e = "INT8")]
            ELSE s[i]]
  <2> HIDE DEF f, r
  <2> QED BY <1>2, <1>4 DEF ManifestFields, r, f
<1>6. /\ IsRecord(m, ManifestFields) /\ m.tensors = <<>> /\ m.experts = <<>>
      /\ m.arch = s.arch /\ m.config = [f EXCEPT !.quantized = (e = "INT8")]
      /\ m.router = [[r EXCEPT !.tensors = <<>>] EXCEPT !.layout = "INPUT_OUTPUT"]
  <2> HIDE DEF f, r
  <2> QED BY <1>5 DEF ManifestFields, IsRecord
<1>7. m.config = [layers |-> c.config.layers, experts |-> c.config.experts,
                  hidden |-> c.config.hidden, inter |-> c.config.inter,
                  shared |-> c.config.shared, quantized |-> (e = "INT8")]
  <2> HIDE DEF f
  <2> QED BY <1>3, <1>6
<1>8. IsRecord(m.router, {"topK", "experts", "layout", "tensors"}) /\ m.router.topK = c.config.topK
  <2> HIDE DEF r
  <2> DEFINE a == [r EXCEPT !.tensors = <<>>]
             b == [a EXCEPT !.layout = "INPUT_OUTPUT"]
             fields == {"topK", "experts", "layout", "tensors"}
  <2>1. DOMAIN r = fields /\ r.topK = c.config.topK
    BY <1>3
  <2>2. DOMAIN a = fields /\ a.topK = r.topK
    BY <2>1
  <2> HIDE DEF a
  <2>3. DOMAIN b = fields /\ b.topK = a.topK /\ b = [i \in fields |-> b[i]]
    BY <2>2
  <2>4. m.router = b
    BY <1>6 DEF a
  <2> QED BY <2>1, <2>2, <2>3, <2>4 DEF IsRecord
<1>9. m.arch = Architecture(c.config) /\ IsRecord(m, ManifestFields)
  BY <1>3, <1>6
<1>10. Keeps(c, e, m)
  BY <1>7, <1>8, <1>9, Zenon DEF Keeps
<1>11. m.tensors = <<>> /\ m.experts = <<>>
  BY <1>6
<1> QED BY <1>10, <1>11 DEF m

\* The index and the manifest agree on expert number j, from some offset on.
Recorded(job, pack, j) ==
  \E start \in Nat :
    LET x == job.manifest.experts[j]
        at == PackedProjections(job, x, start) IN
    /\ pack.records[j] = ExpertRecord(job, x, start, at)
    /\ pack.manifest.experts[j] = ExpertMapping(x, at)

\* What there is after k experts.
StageOK(c, e, p, k) ==
  /\ IsRecord(p, {"bin", "pack"}) /\ IsRecord(p.pack, {"records", "projections", "manifest"})
  /\ Keeps(c, e, p.pack.manifest)
  /\ IsSeq(p.bin) /\ IsSeq(p.pack.manifest.tensors)
  /\ IsSeq(p.pack.records) /\ Len(p.pack.records) = k
  /\ IsSeq(p.pack.manifest.experts) /\ Len(p.pack.manifest.experts) = k
  /\ \A j \in 1..k : Recorded(JobOf(c, e), p.pack, j)

\* One more expert keeps it so.
LEMMA ExpertStage ==
  ASSUME NEW c, Sound(c), NEW e, NEW p, NEW k \in Nat, StageOK(c, e, p, k),
         k < Len(Imported(c).experts)
  PROVE  /\ StageOK(c, e, WithExpert(JobOf(c, e), p), k + 1)
         /\ Extends(p.bin, WithExpert(JobOf(c, e), p).bin)
<1> DEFINE job == JobOf(c, e)
           m == p.pack.manifest
           x == job.manifest.experts[k + 1]
           start == AlignUp(Len(p.bin))
           at == PackedProjections(job, x, start)
           bytes == ExpertBytes(job, x)
           three == <<at["gate"], at["up"], at["down"]>>
           bin2 == Cat(Cat(p.bin, Padding(Len(p.bin))), bytes)
           records2 == Append(p.pack.records, ExpertRecord(job, x, start, at))
           projections2 == p.pack.projections
               \o <<ProjectionRecord(job, x, "gate", at["gate"]),
                    ProjectionRecord(job, x, "up", at["up"]),
                    ProjectionRecord(job, x, "down", at["down"])>>
           experts2 == Append(m.experts, ExpertMapping(x, at))
           m2 == [m EXCEPT !.tensors = Cat(m.tensors, three), !.experts = experts2]
           q == WithExpert(job, p)
<1>1. job.manifest = Imported(c) /\ Len(p.pack.records) = k
  BY DEF JobOf, StageOK
<1>2. k + 1 \in DOMAIN Imported(c).experts
  <2>1. IsSeq(Imported(c).experts)
    BY ImportedFacts DEF Sound, ImportedShape
  <2>2. Len(Imported(c).experts) \in Nat /\ DOMAIN Imported(c).experts = 1..Len(Imported(c).experts)
    BY <2>1, SeqFacts
  <2> QED BY <2>2
<1>3. Len(p.bin) \in Nat
  BY SeqFacts DEF StageOK
<1>4. start \in Nat /\ IsSeq(Padding(Len(p.bin)))
  BY <1>3, AlignFacts
<1>5. IsSeq(bytes)
  <2> HIDE DEF job
  <2>1. \A r \in Role : IsSeq(Encoded(job, x.at[r]).bytes)
    BY <1>1, <1>2, ExpertWeights DEF EncodedAs, job
  <2> DEFINE g == Encoded(job, x.at["gate"]).bytes
             u == Encoded(job, x.at["up"]).bytes
             d == Encoded(job, x.at["down"]).bytes
  <2>2. IsSeq(g) /\ IsSeq(u) /\ IsSeq(d)
    BY <2>1 DEF Role
  <2>3. bytes = Cat(Cat(g, u), d)
    BY DEF ExpertBytes, Cat
  <2> HIDE DEF g, u, d, bytes
  <2> QED BY <2>2, <2>3, ConcatFacts
<1>6. q = [bin |-> bin2, pack |-> [records |-> records2, projections |-> projections2,
                                  manifest |-> m2]]
  <2> HIDE DEF job, x
  <2> QED BY <1>1 DEF WithExpert, Cat, x
<1> HIDE DEF job, x, start, at, bytes, bin2, records2, projections2, experts2, m2, q, three
<1>7. /\ q.bin = bin2 /\ q.pack.records = records2 /\ q.pack.manifest = m2
      /\ IsRecord(q, {"bin", "pack"}) /\ IsRecord(q.pack, {"records", "projections", "manifest"})
  BY <1>6 DEF IsRecord
<1>8. /\ IsRecord(m2, ManifestFields) /\ m2.tensors = Cat(m.tensors, three)
      /\ m2.experts = experts2 /\ m2.config = m.config /\ m2.arch = m.arch
      /\ m2.router = m.router
  BY DEF m2, StageOK, Keeps, IsRecord, ManifestFields
<1>9. Keeps(c, e, m2)
  BY <1>8 DEF StageOK, Keeps
<1>10. IsSeq(bin2) /\ Extends(p.bin, bin2)
  <2> DEFINE a == Cat(p.bin, Padding(Len(p.bin)))
  <2>1. IsSeq(p.bin)
    BY DEF StageOK
  <2>2. IsSeq(a) /\ Extends(p.bin, a)
    BY <1>4, <2>1, ConcatFacts, ExtendsFacts
  <2> HIDE DEF a
  <2>3. IsSeq(Cat(a, bytes)) /\ Extends(a, Cat(a, bytes))
    BY <1>5, <2>2, ConcatFacts, ExtendsFacts
  <2>4. bin2 = Cat(a, bytes)
    BY DEF bin2, a
  <2> QED BY <2>2, <2>3, <2>4, ExtendsFacts
<1>11. IsSeq(m2.tensors)
  <2>1. IsSeq(three)
    BY DEF three, IsSeq, Range
  <2>2. IsSeq(m.tensors)
    BY DEF StageOK
  <2> QED BY <1>8, <2>1, <2>2, ConcatFacts
<1>12. /\ IsSeq(records2) /\ Len(records2) = k + 1
       /\ \A j \in 1..k : records2[j] = p.pack.records[j]
       /\ records2[k + 1] = ExpertRecord(job, x, start, at)
  BY AppendFacts DEF StageOK, records2
<1>13. /\ IsSeq(experts2) /\ Len(experts2) = k + 1
       /\ \A j \in 1..k : experts2[j] = m.experts[j]
       /\ experts2[k + 1] = ExpertMapping(x, at)
  BY AppendFacts DEF StageOK, experts2
<1>14. ASSUME NEW j \in 1..(k + 1) PROVE Recorded(job, q.pack, j)
  <2>1. CASE j = k + 1
    BY <1>4, <1>7, <1>8, <1>12, <1>13, <2>1 DEF Recorded, at, x
  <2>2. CASE j # k + 1
    <3>1. j \in 1..k
      BY <2>2
    <3>2. Recorded(job, p.pack, j)
      BY <3>1 DEF StageOK, job
    <3>3. q.pack.records[j] = p.pack.records[j]
          /\ q.pack.manifest.experts[j] = p.pack.manifest.experts[j]
      BY <1>7, <1>8, <1>12, <1>13, <3>1
    <3> QED BY <3>2, <3>3 DEF Recorded
  <2> QED BY <2>1, <2>2
<1>15. StageOK(c, e, q, k + 1)
  BY <1>7, <1>8, <1>9, <1>10, <1>11, <1>12, <1>13, <1>14 DEF StageOK, job
<1> QED BY <1>7, <1>10, <1>15 DEF q, job

\* So it is after any number of experts, and what is written stays.
LEMMA StageFacts ==
  ASSUME NEW c, Sound(c), NEW e
  PROVE  LET N == Len(Imported(c).experts)
             job == JobOf(c, e) IN
         /\ N \in Nat
         /\ \A k \in 0..N : StageOK(c, e, Stage(job, k), k)
         /\ \A k \in 0..N, j \in 0..N : k <= j => Extends(Stage(job, k).bin, Stage(job, j).bin)
<1> DEFINE N == Len(Imported(c).experts)
           job == JobOf(c, e)
           S == {k \in Nat : k <= N => StageOK(c, e, Stage(job, k), k)}
<1>1. N \in Nat
  <2>1. IsSeq(Imported(c).experts)
    BY ImportedFacts DEF Sound, ImportedShape
  <2> QED BY <2>1, SeqFacts
<1>2. /\ Stage(job, 0) = NothingWritten(job)
      /\ \A k \in Nat : Stage(job, k + 1) = WithExpert(job, Stage(job, k))
  <2> HIDE DEF job
  <2> QED BY StageUnfolds
<1>3. StageOK(c, e, Stage(job, 0), 0)
  <2> DEFINE p == NothingWritten(job)
             m == NothingPacked(job)
  <2>1. Keeps(c, e, m) /\ m.tensors = <<>> /\ m.experts = <<>>
    BY NothingFacts
  <2>2. p = [bin |-> <<>>, pack |-> [records |-> <<>>, projections |-> <<>>, manifest |-> m]]
    <3> HIDE DEF job
    <3> QED BY DEF NothingWritten
  <2> HIDE DEF p, m
  <2>3. /\ IsRecord(p, {"bin", "pack"}) /\ IsRecord(p.pack, {"records", "projections", "manifest"})
        /\ p.bin = <<>> /\ p.pack.records = <<>> /\ p.pack.manifest = m
    BY <2>2 DEF IsRecord
  <2>4. IsSeq(<<>>) /\ Len(<<>>) = 0 /\ 1..0 = {}
    BY DEF IsSeq
  <2>5. StageOK(c, e, p, 0)
    BY <2>1, <2>3, <2>4 DEF StageOK
  <2> QED BY <1>2, <2>5 DEF p
<1> HIDE DEF N, job
<1>4. \A k \in Nat : k <= N => StageOK(c, e, Stage(job, k), k)
  <2>1. 0 \in S
    BY <1>3
  <2>2. ASSUME NEW k \in S PROVE k + 1 \in S
    <3> SUFFICES ASSUME k + 1 <= N PROVE StageOK(c, e, Stage(job, k + 1), k + 1)
      OBVIOUS
    <3>1. k \in Nat /\ k < N /\ StageOK(c, e, Stage(job, k), k)
      BY <1>1
    <3>2. StageOK(c, e, WithExpert(job, Stage(job, k)), k + 1)
      BY <3>1, ExpertStage DEF N, job
    <3> QED BY <1>2, <3>1, <3>2
  <2>3. Nat \subseteq S
    <3> HIDE DEF S
    <3> QED BY <2>1, <2>2, NatSetInduction
  <2> QED BY <2>3
<1>5. ASSUME NEW k \in 0..N, NEW j \in 0..N, k <= j
      PROVE  Extends(Stage(job, k).bin, Stage(job, j).bin)
  <2> DEFINE T == {i \in Nat : k + i <= N => Extends(Stage(job, k).bin, Stage(job, k + i).bin)}
  <2>1. 0 \in T
    <3>1. IsSeq(Stage(job, k).bin) /\ k + 0 = k
      BY <1>1, <1>4 DEF StageOK
    <3> QED BY <3>1, ExtendsFacts
  <2>2. ASSUME NEW i \in T PROVE i + 1 \in T
    <3> SUFFICES ASSUME k + (i + 1) <= N
                 PROVE  Extends(Stage(job, k).bin, Stage(job, k + (i + 1)).bin)
      OBVIOUS
    <3> DEFINE n == k + i
    <3>1. n \in Nat /\ n < N /\ n <= N /\ k + (i + 1) = n + 1
      BY <1>1
    <3>2. Extends(Stage(job, k).bin, Stage(job, n).bin)
      BY <2>2, <3>1
    <3> HIDE DEF n
    <3>3. StageOK(c, e, Stage(job, n), n)
      BY <1>4, <3>1
    <3>4. Extends(Stage(job, n).bin, WithExpert(job, Stage(job, n)).bin)
      BY <3>1, <3>3, ExpertStage DEF N, job
    <3>5. Stage(job, n + 1) = WithExpert(job, Stage(job, n))
      BY <1>2, <3>1
    <3> QED BY <3>1, <3>2, <3>4, <3>5, ExtendsFacts
  <2>3. Nat \subseteq T
    <3> HIDE DEF T
    <3> QED BY <2>1, <2>2, NatSetInduction
  <2>4. j - k \in T /\ k + (j - k) = j
    BY <1>1, <1>5, <2>3
  <2> QED BY <1>1, <2>4
<1> QED BY <1>1, <1>4, <1>5 DEF N, job

-----------------------------------------------------------------------------
(* The static tensors. *)

IsStaticItem(c, e, item) == IsStatic(item.name, Weight(JobOf(c, e), item.name, item.layout))
AllStatic(c, e, items) == IsSeq(items) /\ \A item \in Range(items) : IsStaticItem(c, e, item)

\* A matrix bound with outputs first.
LEMMA MatrixItem ==
  ASSUME NEW c, Sound(c), NEW e, NEW name, NEW a, NEW b,
         HasShape(Imported(c), name, InLayout(<<a, b>>, "OUTPUT_INPUT")), name # Embedding
  PROVE  IsStaticItem(c, e, Item(name, "OUTPUT_INPUT"))
<1> DEFINE t == TensorOf(Imported(c), name)
<1>1. InLayout(<<a, b>>, "OUTPUT_INPUT") = <<b, a>>
  BY ReversePair DEF InLayout
<1>2. Has(Imported(c), name) /\ t.shape = <<b, a>>
  BY <1>1 DEF HasShape
<1>3. t.shape \in Seq(Nat)
  BY <1>2, SourceTensor
<1>4. b \in Nat /\ a \in Nat
  <2> DEFINE s == <<b, a>>
  <2>1. s \in Seq(Nat) /\ s[1] = b /\ s[2] = a /\ 1 \in DOMAIN s /\ 2 \in DOMAIN s
    <3> HIDE DEF t
    <3> QED BY <1>2, <1>3
  <2> HIDE DEF s
  <2> QED BY <2>1, SeqElement
<1>5. HasShape(Imported(c), name, <<b, a>>)
  BY <1>1
<1>6. IsStatic(name, Weight(JobOf(c, e), name, "OUTPUT_INPUT"))
  BY <1>4, <1>5, MatrixStatic
<1> QED BY <1>6 DEF IsStaticItem, Item

\* A vector.
LEMMA VectorItem ==
  ASSUME NEW c, Sound(c), NEW e, NEW name, NEW a, HasShape(Imported(c), name, <<a>>), NEW layout
  PROVE  IsStaticItem(c, e, Item(name, layout))
<1>1. Len(<<a>>) = 1
  OBVIOUS
<1>2. IsStatic(name, Weight(JobOf(c, e), name, layout))
  BY <1>1, PlainStatic
<1> QED BY <1>2 DEF IsStaticItem, Item

\* The routers.
LEMMA RoutersStatic ==
  ASSUME NEW c, Sound(c), NEW e
  PROVE  /\ AllStatic(c, e, RouterItems(Imported(c).router))
         /\ \A r \in Range(Imported(c).router.tensors) :
              Item(r.name, "OUTPUT_INPUT") \in Range(RouterItems(Imported(c).router))
<1> DEFINE m == Imported(c)
           rs == m.router.tensors
           items == RouterItems(m.router)
           n == Len(rs)
<1>1. /\ IsSeq(rs) /\ m.router.layout = "OUTPUT_INPUT"
      /\ \A r \in Range(rs) : r.name.kind = "router"
  <2>1. ImportedShape(c, m)
    BY ImportedFacts DEF Sound
  <2> HIDE DEF m
  <2> QED BY <2>1 DEF ImportedShape
<1>2. ValidRouter(m)
  BY DEF Sound, Imports, Validate
<1> HIDE DEF m
<1>3. n \in Nat /\ DOMAIN rs = 1..n
  BY <1>1, SeqFacts
<1>4. items = [i \in 1..n |-> Item(rs[i].name, "OUTPUT_INPUT")]
  BY <1>1, <1>3 DEF RouterItems
<1> HIDE DEF items, rs, n
<1>5. IsSeq(items) /\ Len(items) = n /\ DOMAIN items = 1..n
  BY <1>3, <1>4, FunctionIsSeq
<1>6. ASSUME NEW r \in Range(rs) PROVE IsStaticItem(c, e, Item(r.name, "OUTPUT_INPUT"))
  <2>1. HasShape(m, r.name, InLayout(<<m.config.hidden, m.config.experts>>, "OUTPUT_INPUT"))
    BY <1>1, <1>2 DEF ValidRouter, rs
  <2>2. r.name # Embedding
    <3>1. Embedding.kind = "embedding"
      BY DEF Embedding, Name
    <3> QED BY <1>1, <3>1
  <2> QED BY <2>1, <2>2, MatrixItem DEF m
<1>7. Range(items) = {Item(r.name, "OUTPUT_INPUT") : r \in Range(rs)}
  BY <1>3, <1>4, <1>5 DEF Range
<1> QED BY <1>5, <1>6, <1>7 DEF AllStatic, items, rs, m

\* What a layer may lack is packed if it is there.
LEMMA OptionalFacts ==
  ASSUME NEW name
  PROVE  /\ IsSeq(Optional(name))
         /\ Range(Optional(name)) = IF name = NoName THEN {} ELSE {Item(name, "")}
<1>1. CASE name = NoName
  BY <1>1 DEF Optional, IsSeq, Range
<1>2. CASE name # NoName
  <2> DEFINE x == Item(name, "")
  <2>1. Optional(name) = <<x>>
    BY <1>2 DEF Optional
  <2> HIDE DEF x
  <2>2. <<x>> \in Seq({x}) /\ DOMAIN <<x>> = {1} /\ <<x>>[1] = x
    OBVIOUS
  <2>3. IsSeq(<<x>>) /\ Range(<<x>>) = {x}
    BY <2>2, SeqIsSeq DEF Range
  <2> QED BY <1>2, <2>1, <2>3 DEF x
<1> QED BY <1>1, <1>2

\* The items of a layer: its four projections and the norms it has.
LEMMA LayerItemsFacts ==
  ASSUME NEW l
  PROVE  /\ IsSeq(LayerItems(l))
         /\ Range(LayerItems(l))
              = {Item(l.at[p].tensor, l.at[p].layout) : p \in Attention}
                  \cup {Item(name, "") : name \in {l.qNorm, l.kNorm, l.inputNorm, l.postNorm} \ {NoName}}
<1> DEFINE order == <<"q", "k", "v", "o">>
           four == [p \in 1..4 |-> LET b == l.at[order[p]] IN Item(b.tensor, b.layout)]
           a == Optional(l.qNorm)
           b == Optional(l.kNorm)
           d == Optional(l.inputNorm)
           f == Optional(l.postNorm)
<1>1. IsSeq(four) /\ Range(four) = {Item(l.at[p].tensor, l.at[p].layout) : p \in Attention}
  <2>1. four = [p \in 1..4 |-> four[p]] /\ DOMAIN four = 1..4
    OBVIOUS
  <2>2. IsSeq(four)
    <3> HIDE DEF four
    <3> QED BY <2>1, FunctionIsSeq
  <2>3. order[1] = "q" /\ order[2] = "k" /\ order[3] = "v" /\ order[4] = "o"
    OBVIOUS
  <2> HIDE DEF order
  <2>4. \A p \in 1..4 : four[p] = Item(l.at[order[p]].tensor, l.at[order[p]].layout)
    OBVIOUS
  <2>5. 1..4 = {1, 2, 3, 4}
    OBVIOUS
  <2>6. Range(four) = {four[1], four[2], four[3], four[4]}
    <3> HIDE DEF four
    <3> QED BY <2>1, <2>5 DEF Range
  <2> HIDE DEF four
  <2> QED BY <2>2, <2>3, <2>4, <2>5, <2>6 DEF Attention
<1>2. IsSeq(a) /\ IsSeq(b) /\ IsSeq(d) /\ IsSeq(f)
  BY OptionalFacts
<1>3. LayerItems(l) = Cat(Cat(Cat(Cat(four, a), b), d), f)
  BY DEF LayerItems, Cat
<1> HIDE DEF four, a, b, d, f
<1>4. /\ IsSeq(Cat(four, a)) /\ Range(Cat(four, a)) = Range(four) \cup Range(a)
  BY <1>1, <1>2, ConcatFacts
<1>5. /\ IsSeq(Cat(Cat(four, a), b))
      /\ Range(Cat(Cat(four, a), b)) = Range(four) \cup Range(a) \cup Range(b)
  BY <1>2, <1>4, ConcatFacts
<1>6. /\ IsSeq(Cat(Cat(Cat(four, a), b), d))
      /\ Range(Cat(Cat(Cat(four, a), b), d)) = Range(four) \cup Range(a) \cup Range(b) \cup Range(d)
  BY <1>2, <1>5, ConcatFacts
<1>7. /\ IsSeq(LayerItems(l))
      /\ Range(LayerItems(l))
           = Range(four) \cup Range(a) \cup Range(b) \cup Range(d) \cup Range(f)
  BY <1>2, <1>3, <1>6, ConcatFacts
<1>8. /\ Range(a) = IF l.qNorm = NoName THEN {} ELSE {Item(l.qNorm, "")}
      /\ Range(b) = IF l.kNorm = NoName THEN {} ELSE {Item(l.kNorm, "")}
      /\ Range(d) = IF l.inputNorm = NoName THEN {} ELSE {Item(l.inputNorm, "")}
      /\ Range(f) = IF l.postNorm = NoName THEN {} ELSE {Item(l.postNorm, "")}
  BY OptionalFacts DEF a, b, d, f
<1>9. Range(a) \cup Range(b) \cup Range(d) \cup Range(f)
        = {Item(name, "") : name \in {l.qNorm, l.kNorm, l.inputNorm, l.postNorm} \ {NoName}}
  BY <1>8
<1>10. Range(LayerItems(l)) = Range(four) \cup (Range(a) \cup Range(b) \cup Range(d) \cup Range(f))
  BY <1>7
<1> QED BY <1>1, <1>7, <1>9, <1>10, Zenon

\* All layers' items, one layer after the other.
AllLayerItems(layers) == FlattenSeq([i \in DOMAIN layers |-> LayerItems(layers[i])])

\* They have what each layer has.
LEMMA LayersItems ==
  ASSUME NEW layers, IsSeq(layers)
  PROVE  /\ IsSeq(AllLayerItems(layers))
         /\ Range(AllLayerItems(layers)) = UNION {Range(LayerItems(l)) : l \in Range(layers)}
<1> DEFINE n == Len(layers)
           w == [i \in 1..n |-> LayerItems(layers[i])]
<1>1. n \in Nat /\ DOMAIN layers = 1..n
  BY SeqFacts
<1>2. AllLayerItems(layers) = FlattenSeq(w)
  BY <1>1 DEF AllLayerItems
<1>3. w = [i \in 1..n |-> w[i]] /\ \A i \in 1..n : w[i] = LayerItems(layers[i])
  OBVIOUS
<1> HIDE DEF w, n
<1>4. AllLayerItems(layers) = Flat(w, n)
  BY <1>2, <1>3 DEF Flat
<1>5. \A i \in 1..n : IsSeq(w[i])
  BY <1>3, LayerItemsFacts
<1>6. IsSeq(Flat(w, n)) /\ Range(Flat(w, n)) = UNION {Range(w[i]) : i \in 1..n}
  <2>1. n \in 0..n
    BY <1>1
  <2> QED BY <1>1, <1>5, <2>1, FlatRange, FlatUnfolds
<1>7. UNION {Range(w[i]) : i \in 1..n} = UNION {Range(LayerItems(l)) : l \in Range(layers)}
  <2>1. {Range(w[i]) : i \in 1..n} = {Range(LayerItems(l)) : l \in Range(layers)}
    <3>1. Range(layers) = {layers[i] : i \in 1..n}
      BY <1>1 DEF Range
    <3> HIDE DEF Range
    <3> QED BY <1>3, <3>1
  <2> QED BY <2>1
<1> QED BY <1>4, <1>6, <1>7

\* The layers' tensors.
LEMMA LayersStatic ==
  ASSUME NEW c, Sound(c), NEW e
  PROVE  /\ AllStatic(c, e, AllLayerItems(Imported(c).layers))
         /\ \A l \in Range(Imported(c).layers) : \A p \in Attention :
              l.at[p].layout = "OUTPUT_INPUT"
<1> DEFINE m == Imported(c)
           items == AllLayerItems(m.layers)
<1>1. ImportedShape(c, m)
  BY ImportedFacts DEF Sound
<1>2. ValidLayers(m)
  BY DEF Sound, Imports, Validate
<1> HIDE DEF m
<1>3. IsSeq(m.layers) /\ \A i \in DOMAIN m.layers : m.layers[i] = LayerMapping(Tensors(c), i - 1)
  BY <1>1 DEF ImportedShape
<1>4. ASSUME NEW l \in Range(m.layers), NEW p \in Attention
      PROVE  l.at[p].layout = "OUTPUT_INPUT" /\ l.at[p].tensor # Embedding
  <2>1. PICK i \in DOMAIN m.layers : l = LayerMapping(Tensors(c), i - 1)
    BY <1>3 DEF Range
  <2>2. l.at[p] = [tensor |-> Named(Tensors(c), Name("attention", i - 1, 0, p)),
                   layout |-> "OUTPUT_INPUT"]
    BY <2>1 DEF LayerMapping
  <2>3. l.at[p].layout = "OUTPUT_INPUT"
        /\ l.at[p].tensor = Named(Tensors(c), Name("attention", i - 1, 0, p))
    BY <2>2
  <2>4. l.at[p].tensor \in {Name("attention", i - 1, 0, p), NoName}
    BY <2>3 DEF Named
  <2>5. l.at[p].tensor.kind \in {"attention", ""} /\ Embedding.kind = "embedding"
    <3> DEFINE y == l.at[p].tensor
               z == Name("attention", i - 1, 0, p)
    <3>1. z.kind = "attention" /\ NoName.kind = "" /\ Embedding.kind = "embedding"
      BY DEF NoName, Name, Embedding
    <3>2. y = z \/ y = NoName
      BY <2>4
    <3> HIDE DEF y, z
    <3>3. y.kind \in {"attention", ""}
      BY <3>1, <3>2
    <3> QED BY <3>1, <3>3 DEF y
  <2> QED BY <2>3, <2>5
<1>5. ASSUME NEW l \in Range(m.layers), NEW p \in Attention
      PROVE  IsStaticItem(c, e, Item(l.at[p].tensor, l.at[p].layout))
  <2>1. m.layers # <<>>
    BY <1>5 DEF Range
  <2>2. HasShape(m, l.at[p].tensor, InLayout(AttentionShape(m.arch, p), "OUTPUT_INPUT"))
    BY <1>2, <1>4, <2>1 DEF ValidLayers
  <2>3. \E a, b : AttentionShape(m.arch, p) = <<a, b>>
    BY DEF AttentionShape, Attention
  <2>4. PICK a, b : AttentionShape(m.arch, p) = <<a, b>>
    BY <2>3
  <2>5. IsStaticItem(c, e, Item(l.at[p].tensor, "OUTPUT_INPUT"))
    BY <1>4, <2>2, <2>4, MatrixItem DEF m
  <2> QED BY <1>4, <2>5
<1>6. ASSUME NEW l \in Range(m.layers),
             NEW name \in {l.qNorm, l.kNorm, l.inputNorm, l.postNorm} \ {NoName}
      PROVE  IsStaticItem(c, e, Item(name, ""))
  <2>1. m.layers # <<>>
    BY <1>6 DEF Range
  <2>2. \E a : HasShape(m, name, <<a>>)
    BY <1>2, <2>1 DEF ValidLayers
  <2> QED BY <2>2, VectorItem DEF m
<1>7. IsSeq(items) /\ Range(items) = UNION {Range(LayerItems(l)) : l \in Range(m.layers)}
  BY <1>3, LayersItems
<1> HIDE DEF items
<1>8. ASSUME NEW item \in Range(items) PROVE IsStaticItem(c, e, item)
  <2>1. PICK l \in Range(m.layers) : item \in Range(LayerItems(l))
    BY <1>7
  <2>2. \/ \E p \in Attention : item = Item(l.at[p].tensor, l.at[p].layout)
        \/ \E name \in {l.qNorm, l.kNorm, l.inputNorm, l.postNorm} \ {NoName} : item = Item(name, "")
    <3>1. Range(LayerItems(l)) = {Item(l.at[p].tensor, l.at[p].layout) : p \in Attention}
            \cup {Item(name, "") : name \in {l.qNorm, l.kNorm, l.inputNorm, l.postNorm} \ {NoName}}
      BY LayerItemsFacts
    <3> HIDE DEF items
    <3> QED BY <2>1, <3>1, Zenon
  <2> QED BY <1>5, <1>6, <2>2
<1> QED BY <1>4, <1>7, <1>8 DEF AllStatic, items, m

\* The model's ends.
LEMMA IOStatic ==
  ASSUME NEW c, Sound(c), NEW e
  PROVE  LET io == Imported(c).io IN
         /\ AllStatic(c, e, IOItems(io))
         /\ io # NoIO =>
              /\ io.embedding = Embedding /\ io.head.layout = "OUTPUT_INPUT"
              /\ Item(io.embedding, "INPUT_OUTPUT") \in Range(IOItems(io))
              /\ Item(io.norm, "INPUT_OUTPUT") \in Range(IOItems(io))
              /\ ~io.tied => Item(io.head.tensor, "OUTPUT_INPUT") \in Range(IOItems(io))
              /\ io.tied => io.head.tensor = Embedding
              /\ IsRecord(io, {"embedding", "norm", "head", "tied"})
              /\ IsRecord(io.head, {"tensor", "layout"}) /\ io.tied \in BOOLEAN
<1> DEFINE m == Imported(c)
           io == m.io
           items == IOItems(io)
<1>1. io = ModelIO(c.config, Tensors(c))
  BY ImportedFacts DEF Sound, ImportedShape
<1>2. ValidModelIO(m)
  BY DEF Sound, Imports, Validate
<1> HIDE DEF m
<1>3. CASE io = NoIO
  <2>1. items = <<>>
    BY <1>3 DEF IOItems
  <2>2. IsSeq(<<>>) /\ Range(<<>>) = {}
    BY DEF IsSeq, Range
  <2> QED BY <1>3, <2>1, <2>2 DEF AllStatic, m
<1>4. CASE io # NoIO
  <2> DEFINE first == Item(io.embedding, "INPUT_OUTPUT")
             second == Item(io.norm, "INPUT_OUTPUT")
             third == Item(io.head.tensor, "OUTPUT_INPUT")
             head == IF io.tied THEN <<>> ELSE <<third>>
             two == <<first, second>>
  <2>1. io = [embedding |-> Embedding, norm |-> FinalNorm,
              head |-> [tensor |-> IF c.config.tied THEN Embedding ELSE LMHead,
                        layout |-> "OUTPUT_INPUT"],
              tied |-> c.config.tied]
    BY <1>1, <1>4 DEF ModelIO
  <2>2. c.config.tied \in BOOLEAN
    BY DEF Sound, IsCheckpoint
  <2> HIDE DEF io
  <2>3. /\ io.embedding = Embedding /\ io.norm = FinalNorm /\ io.head.layout = "OUTPUT_INPUT"
        /\ io.tied = c.config.tied /\ io.tied \in BOOLEAN
        /\ io.head.tensor = IF c.config.tied THEN Embedding ELSE LMHead
        /\ IsRecord(io, {"embedding", "norm", "head", "tied"})
        /\ IsRecord(io.head, {"tensor", "layout"})
    BY <2>1, <2>2 DEF IsRecord
  <2>4. /\ HasShape(m, io.embedding, <<m.arch.vocab, m.arch.hidden>>)
        /\ HasShape(m, io.norm, <<m.arch.hidden>>)
        /\ HasShape(m, io.head.tensor, InLayout(<<m.arch.hidden, m.arch.vocab>>, "OUTPUT_INPUT"))
    BY <1>2, <1>4, <2>3 DEF ValidModelIO, io
  <2>5. LMHead # Embedding
    BY DEF LMHead, Embedding, Name
  <2>6. IsStaticItem(c, e, first)
    <3>1. IsStatic(io.embedding, Weight(JobOf(c, e), io.embedding, "INPUT_OUTPUT"))
      BY <2>3, <2>4, PlainStatic DEF m
    <3> QED BY <3>1 DEF IsStaticItem, Item
  <2>7. IsStaticItem(c, e, second)
    BY <2>4, VectorItem DEF m
  <2>8. ~io.tied => IsStaticItem(c, e, third)
    BY <2>3, <2>4, <2>5, MatrixItem DEF m
  <2>9. items = Cat(two, head)
    <3>1. io.head.layout = "OUTPUT_INPUT"
      BY <2>3
    <3> QED BY <1>4, <3>1 DEF IOItems, Cat
  <2> HIDE DEF items, first, second, third
  <2>10. IsSeq(two) /\ Range(two) = {first, second}
    <3>1. two \in Seq({first, second}) /\ DOMAIN two = {1, 2} /\ two[1] = first /\ two[2] = second
      OBVIOUS
    <3> HIDE DEF two
    <3> QED BY <3>1, SeqIsSeq DEF Range
  <2>11. IsSeq(head) /\ Range(head) = IF io.tied THEN {} ELSE {third}
    <3>1. IsSeq(<<>>) /\ Range(<<>>) = {}
      BY DEF IsSeq, Range
    <3>2. <<third>> \in Seq({third}) /\ DOMAIN <<third>> = {1} /\ <<third>>[1] = third
      OBVIOUS
    <3>3. IsSeq(<<third>>) /\ Range(<<third>>) = {third}
      BY <3>2, SeqIsSeq DEF Range
    <3> QED BY <3>1, <3>3
  <2> HIDE DEF two, head
  <2>12. IsSeq(items) /\ Range(items) = {first, second} \cup Range(head)
    BY <2>9, <2>10, <2>11, ConcatFacts
  <2>13. AllStatic(c, e, items)
    BY <2>6, <2>7, <2>8, <2>11, <2>12 DEF AllStatic
  <2>14. first \in Range(items) /\ second \in Range(items) /\ (~io.tied => third \in Range(items))
    BY <2>11, <2>12
  <2>15. io.tied => io.head.tensor = Embedding
    BY <2>3
  <2> QED BY <2>3, <2>13, <2>14, <2>15 DEF items, first, second, third, io, m
<1> QED BY <1>3, <1>4

-----------------------------------------------------------------------------
(* The package a conversion ends with. *)

\* The static tensors of a step come behind what is there and are held.
HoldsAll(c, e, p, items) ==
  \A item \in Range(items) : Holds(JobOf(c, e), p.bin, p.pack.manifest.tensors, item)

Grows(p, q) ==
  Extends(p.bin, q.bin) /\ Extends(p.pack.manifest.tensors, q.pack.manifest.tensors)

\* One step that packs static tensors.
LEMMA StaticStep ==
  ASSUME NEW c, NEW e, NEW p, NEW k \in Nat, StageOK(c, e, p, k), NEW items,
         AllStatic(c, e, items), NEW q, NEW m2, NEW w,
         w = WithStatic(JobOf(c, e), p.bin, p.pack.manifest.tensors, items),
         q = [bin |-> w.bin, pack |-> [p.pack EXCEPT !.manifest = m2]],
         m2.tensors = w.tensors, m2.experts = p.pack.manifest.experts, Keeps(c, e, m2)
  PROVE  /\ StageOK(c, e, q, k) /\ q.pack.manifest = m2
         /\ Grows(p, q) /\ HoldsAll(c, e, q, items)
<1> DEFINE job == JobOf(c, e)
           ts == p.pack.manifest.tensors
<1>1. IsSeq(p.bin) /\ IsSeq(ts) /\ IsSeq(items)
  BY DEF StageOK, AllStatic
<1>2. \A i \in DOMAIN items : IsSeq(Weight(job, items[i].name, items[i].layout).bytes)
  <2> HIDE DEF job
  <2>1. ASSUME NEW i \in DOMAIN items
        PROVE  IsSeq(Weight(job, items[i].name, items[i].layout).bytes)
    <3>1. items[i] \in Range(items)
      BY DEF Range
    <3> QED BY <3>1 DEF AllStatic, IsStaticItem, IsStatic, job
  <2> QED BY <2>1
<1>3. /\ Extends(p.bin, w.bin) /\ Extends(ts, w.tensors)
      /\ \A i \in DOMAIN items : Holds(job, w.bin, w.tensors, items[i])
  <2> HIDE DEF job, ts
  <2> QED BY <1>1, <1>2, StaticFacts DEF job, ts
<1>4. DOMAIN p.pack = {"records", "projections", "manifest"}
  BY DEF StageOK, IsRecord
<1>5. /\ q.bin = w.bin /\ q.pack.records = p.pack.records /\ q.pack.manifest = m2
      /\ IsRecord(q, {"bin", "pack"}) /\ IsRecord(q.pack, {"records", "projections", "manifest"})
  BY <1>4 DEF IsRecord
<1>6. IsSeq(w.bin) /\ IsSeq(w.tensors)
  BY <1>3 DEF Extends
<1>7. \A j \in 1..k : Recorded(job, q.pack, j)
  <2>1. \A j \in 1..k : Recorded(job, p.pack, j)
    BY DEF StageOK
  <2> HIDE DEF job
  <2> QED BY <1>5, <2>1 DEF Recorded
<1>8. StageOK(c, e, q, k)
  BY <1>5, <1>6, <1>7 DEF StageOK
<1>9. Grows(p, q)
  BY <1>3, <1>5 DEF Grows
<1>10. HoldsAll(c, e, q, items)
  BY <1>3, <1>5 DEF HoldsAll, Range
<1> QED BY <1>5, <1>8, <1>9, <1>10

\* What is held stays held.
LEMMA HoldsAllStays ==
  ASSUME NEW c, NEW e, NEW p, NEW q, NEW items, AllStatic(c, e, items), HoldsAll(c, e, p, items),
         Grows(p, q)
  PROVE  HoldsAll(c, e, q, items)
<1> SUFFICES ASSUME NEW item \in Range(items)
             PROVE  Holds(JobOf(c, e), q.bin, q.pack.manifest.tensors, item)
  BY DEF HoldsAll
<1>1. IsSeq(Weight(JobOf(c, e), item.name, item.layout).bytes)
  BY DEF AllStatic, IsStaticItem, IsStatic
<1> QED BY <1>1, HoldsStays DEF HoldsAll, Grows

\* Growing is transitive.
LEMMA GrowsFacts ==
  ASSUME NEW p, NEW q, NEW r, Grows(p, q), Grows(q, r) PROVE Grows(p, r)
BY ExtendsFacts DEF Grows

Routed(job) == WithRouters(job, Stage(job, Len(job.manifest.experts)))
Layered(job) == WithLayers(job, Routed(job))
Final(job) == WithIO(job, Layered(job))

\* The package a conversion ends with.
FinalOK(c, e, F) ==
  LET m == Imported(c)
      M == F.pack.manifest IN
  /\ StageOK(c, e, F, Len(m.experts))
  /\ HoldsAll(c, e, F, RouterItems(m.router))
  /\ HoldsAll(c, e, F, AllLayerItems(m.layers))
  /\ HoldsAll(c, e, F, IOItems(m.io))
  /\ M.router.tensors = m.router.tensors
  /\ M.layers = [i \in DOMAIN m.layers |-> PackedLayer(m.layers[i])]
  /\ M.io = PackedIO(m.io)

\* It is the one the checkpoint and the encoding determine, and the file of every
\* stage before is the beginning of its file.
LEMMA FinalFacts ==
  ASSUME NEW c, Sound(c), NEW e
  PROVE  LET job == JobOf(c, e)
             N == Len(Imported(c).experts) IN
         /\ N \in Nat /\ FinalOK(c, e, Final(job))
         /\ \A k \in 0..N : Extends(Stage(job, k).bin, Final(job).bin)
         /\ Extends(Routed(job).bin, Final(job).bin)
         /\ Extends(Layered(job).bin, Final(job).bin)
<1> DEFINE job == JobOf(c, e)
           m == Imported(c)
           N == Len(m.experts)
           P == Stage(job, N)
           R == Routed(job)
           L == Layered(job)
           F == Final(job)
<1>1. job.manifest = m
  BY DEF JobOf
<1>2. /\ N \in Nat /\ StageOK(c, e, P, N)
      /\ \A k \in 0..N : Extends(Stage(job, k).bin, P.bin)
  <2>1. /\ N \in Nat /\ \A k \in 0..N : StageOK(c, e, Stage(job, k), k)
        /\ \A k \in 0..N, j \in 0..N : k <= j => Extends(Stage(job, k).bin, Stage(job, j).bin)
    BY StageFacts
  <2>2. N \in 0..N
    BY <2>1
  <2> HIDE DEF N, job
  <2> QED BY <2>1, <2>2
<1>3. R = WithRouters(job, P) /\ L = WithLayers(job, R) /\ F = WithIO(job, L)
  <2> HIDE DEF job
  <2> QED BY <1>1 DEF Routed, Layered, Final
<1> HIDE DEF job, m, N, P, R, L, F
<1>4. /\ StageOK(c, e, R, N) /\ Grows(P, R) /\ HoldsAll(c, e, R, RouterItems(m.router))
      /\ R.pack.manifest.router.tensors = m.router.tensors
  <2> DEFINE items == RouterItems(m.router)
             a == P.pack.manifest
             w == WithStatic(job, P.bin, a.tensors, items)
             r2 == [a.router EXCEPT !.tensors = m.router.tensors]
             m2 == [a EXCEPT !.tensors = w.tensors, !.router = r2]
  <2>1. AllStatic(c, e, items)
    BY RoutersStatic DEF m
  <2>2. DOMAIN P.pack = {"records", "projections", "manifest"} /\ Keeps(c, e, a)
    BY <1>2 DEF StageOK, IsRecord
  <2> HIDE DEF items, w
  <2>3. R = [bin |-> w.bin, pack |-> [P.pack EXCEPT !.manifest = m2]]
    BY <1>1, <1>3, <2>2 DEF WithRouters, w, items
  <2>4. /\ DOMAIN r2 = {"topK", "experts", "layout", "tensors"} /\ r2.tensors = m.router.tensors
        /\ r2.topK = a.router.topK
    BY <2>2 DEF Keeps, IsRecord
  <2>5. IsRecord(r2, {"topK", "experts", "layout", "tensors"})
    BY <2>4 DEF IsRecord
  <2> HIDE DEF r2
  <2>6. /\ m2.tensors = w.tensors /\ m2.experts = a.experts /\ m2.router = r2
        /\ m2.config = a.config /\ m2.arch = a.arch /\ IsRecord(m2, ManifestFields)
    BY <2>2 DEF Keeps, IsRecord, ManifestFields
  <2> HIDE DEF m2
  <2>7. Keeps(c, e, m2)
    BY <2>2, <2>4, <2>5, <2>6 DEF Keeps
  <2>8. StageOK(c, e, R, N) /\ R.pack.manifest = m2 /\ Grows(P, R) /\ HoldsAll(c, e, R, items)
    BY <1>2, <2>1, <2>3, <2>6, <2>7, StaticStep DEF w, job
  <2> QED BY <2>4, <2>6, <2>8 DEF items
<1>5. /\ StageOK(c, e, L, N) /\ Grows(R, L) /\ HoldsAll(c, e, L, AllLayerItems(m.layers))
      /\ L.pack.manifest.router.tensors = m.router.tensors
      /\ L.pack.manifest.layers = [i \in DOMAIN m.layers |-> PackedLayer(m.layers[i])]
  <2> DEFINE items == AllLayerItems(m.layers)
             a == R.pack.manifest
             w == WithStatic(job, R.bin, a.tensors, items)
             ls == [i \in DOMAIN m.layers |-> PackedLayer(m.layers[i])]
             m2 == [a EXCEPT !.tensors = w.tensors, !.layers = ls]
  <2>1. AllStatic(c, e, items)
    BY LayersStatic DEF m
  <2>2. DOMAIN R.pack = {"records", "projections", "manifest"} /\ Keeps(c, e, a)
    BY <1>4 DEF StageOK, IsRecord
  <2> HIDE DEF items, w, ls
  <2>3. L = [bin |-> w.bin, pack |-> [R.pack EXCEPT !.manifest = m2]]
    BY <1>1, <1>3, <2>2 DEF WithLayers, w, items, AllLayerItems, ls
  <2>6. /\ m2.tensors = w.tensors /\ m2.experts = a.experts /\ m2.router = a.router
        /\ m2.config = a.config /\ m2.arch = a.arch /\ IsRecord(m2, ManifestFields)
        /\ m2.layers = ls
    BY <2>2 DEF Keeps, IsRecord, ManifestFields
  <2> HIDE DEF m2
  <2>7. Keeps(c, e, m2)
    BY <2>2, <2>6 DEF Keeps
  <2>8. StageOK(c, e, L, N) /\ L.pack.manifest = m2 /\ Grows(R, L) /\ HoldsAll(c, e, L, items)
    BY <1>2, <1>4, <2>1, <2>3, <2>6, <2>7, StaticStep DEF w, job
  <2> QED BY <1>4, <2>6, <2>8 DEF items, ls
<1>6. /\ StageOK(c, e, F, N) /\ Grows(L, F) /\ HoldsAll(c, e, F, IOItems(m.io))
      /\ F.pack.manifest.router.tensors = m.router.tensors
      /\ F.pack.manifest.layers = [i \in DOMAIN m.layers |-> PackedLayer(m.layers[i])]
      /\ F.pack.manifest.io = PackedIO(m.io)
  <2> DEFINE items == IOItems(m.io)
             a == L.pack.manifest
             w == WithStatic(job, L.bin, a.tensors, items)
             io == PackedIO(m.io)
             m2 == [a EXCEPT !.tensors = w.tensors, !.io = io]
  <2>1. AllStatic(c, e, items)
    BY IOStatic DEF m
  <2>2. DOMAIN L.pack = {"records", "projections", "manifest"} /\ Keeps(c, e, a)
    BY <1>5 DEF StageOK, IsRecord
  <2> HIDE DEF items, w, io
  <2>3. F = [bin |-> w.bin, pack |-> [L.pack EXCEPT !.manifest = m2]]
    BY <1>1, <1>3, <2>2 DEF WithIO, w, items, io
  <2>6. /\ m2.tensors = w.tensors /\ m2.experts = a.experts /\ m2.router = a.router
        /\ m2.config = a.config /\ m2.arch = a.arch /\ IsRecord(m2, ManifestFields)
        /\ m2.layers = a.layers /\ m2.io = io
    BY <2>2 DEF Keeps, IsRecord, ManifestFields
  <2> HIDE DEF m2
  <2>7. Keeps(c, e, m2)
    BY <2>2, <2>6 DEF Keeps
  <2>8. StageOK(c, e, F, N) /\ F.pack.manifest = m2 /\ Grows(L, F) /\ HoldsAll(c, e, F, items)
    BY <1>2, <1>5, <2>1, <2>3, <2>6, <2>7, StaticStep DEF w, job
  <2> QED BY <1>5, <2>6, <2>8 DEF items, io
<1>7. Grows(R, F) /\ Grows(P, F)
  BY <1>4, <1>5, <1>6, GrowsFacts
<1>8. HoldsAll(c, e, F, RouterItems(m.router)) /\ HoldsAll(c, e, F, AllLayerItems(m.layers))
  <2>1. AllStatic(c, e, RouterItems(m.router)) /\ AllStatic(c, e, AllLayerItems(m.layers))
    BY RoutersStatic, LayersStatic DEF m
  <2> QED BY <1>4, <1>5, <1>6, <1>7, <2>1, HoldsAllStays
<1>9. FinalOK(c, e, F)
  BY <1>6, <1>8 DEF FinalOK, N, m
<1>10. \A k \in 0..N : Extends(Stage(job, k).bin, F.bin)
  BY <1>2, <1>7, ExtendsFacts DEF Grows
<1>11. Extends(R.bin, F.bin) /\ Extends(L.bin, F.bin)
  BY <1>6, <1>7 DEF Grows
<1> QED BY <1>2, <1>9, <1>10, <1>11 DEF job, m, N, R, L, F

-----------------------------------------------------------------------------
(* The inductive invariant. *)

\* The variables have the fields of their records, whatever is in them.
Shapes ==
  /\ IsRecord(conv, {"pc", "attempt", "source", "pack"})
  /\ IsRecord(conv.pack, {"records", "projections", "manifest"})
  /\ IsRecord(dir, {"exists", "by", "bin", "index", "manifest"})
  /\ IsRecord(dir.bin, {"state", "data"})
  /\ IsRecord(rt, {"pc", "manifest", "static", "bin", "index", "loaded"})

\* A directory, as far as its files' states tell.
FilesOK(d) ==
  /\ d.exists \in BOOLEAN
  /\ d.bin.state \in FileState /\ d.index.state \in FileState
  /\ d.manifest.state \in FileState
  /\ ~d.exists => d = NoDirectory

\* The states of the converter, the files and the runtime.
States ==
  /\ conv.pc \in Pc /\ conv.attempt \in 1..Attempts
  /\ ck \in Checkpoints
  /\ FilesOK(dir)
  /\ rt.pc \in {"closed", "static", "store", "open"}

\* The manifest a converter was handed lists the experts in a sequence.
HasSource ==
  conv.pc \in Packing \cup {"directory"} => Source.experts \in Seq(Range(Source.experts))

\* How far the packing of the experts has come.
Progress ==
  /\ conv.pc \in {"start", "directory"} => conv.pack = NoPack
  /\ conv.pc \in Packing =>
       /\ \E S : conv.pack.records \in Seq(S)
       /\ Len(conv.pack.records) <= Len(Source.experts)
  /\ conv.pc = "experts" => Len(conv.pack.records) < Len(Source.experts)

\* A converter packs in a directory of its own making, and leaves it there.
Owns ==
  conv.pc \in Packing \cup {"done"} => dir.exists /\ dir.by = conv.attempt

\* What is on disk once experts.bin is closed, the manifest saved, and the
\* store verified.
Written ==
  /\ conv.pc \in {"index", "manifest", "verify", "report", "tokenizer", "done"}
       => dir.bin.state = "whole"
  /\ conv.pc \in {"verify", "report", "tokenizer", "done"}
       => /\ Validate(conv.pack.manifest)
          /\ dir.manifest \in Streamed(ToJson(conv.pack.manifest))
  /\ conv.pc \in {"report", "tokenizer", "done"} => Verified

IndInv == Shapes /\ States /\ HasSource /\ Progress /\ Owns /\ Written

\* The initial states satisfy the invariant.
LEMMA InitInv == Init => IndInv
<1> SUFFICES ASSUME Init PROVE IndInv
  OBVIOUS
<1>1. conv = [pc |-> "start", attempt |-> 1, source |-> <<>>, pack |-> NoPack]
  BY DEF Init, Idle
<1>2. dir \in {NoDirectory, Foreign} /\ rt = Closed /\ ck \in Checkpoints
  BY DEF Init
<1>3. Shapes
  BY <1>1, <1>2 DEF Shapes, IsRecord, NoPack, NoDirectory, Foreign, NoFile, Closed
<1>4. States
  <2>1. conv.pc \in Pc /\ conv.attempt \in 1..Attempts /\ rt.pc = "closed"
    BY <1>1, <1>2, PackageAssumption DEF Pc, Closed
  <2>2. FilesOK(NoDirectory) /\ FilesOK(Foreign)
    BY DEF FilesOK, Foreign, NoDirectory, NoFile, FileState
  <2> QED BY <1>2, <2>1, <2>2 DEF States
<1>5. HasSource /\ Progress /\ Owns /\ Written
  BY <1>1 DEF HasSource, Progress, Owns, Written, Packing
<1> QED BY <1>3, <1>4, <1>5 DEF IndInv

-----------------------------------------------------------------------------
(* Kinds of steps. *)

\* A step of the converter that leaves its lists and its directory alone.
LEMMA MoveInv ==
  ASSUME IndInv, NEW to \in Pc, conv' = [conv EXCEPT !.pc = to],
         UNCHANGED <<given, dir, rt>>,
         to \in Packing => conv.pc \in Packing /\ to # "experts",
         to \notin {"start", "directory", "index", "manifest", "verify"},
         to = "done" => conv.pc \in {"report", "tokenizer"},
         to \in {"report", "tokenizer"} => conv.pc \in {"verify", "report"} /\ Verified
  PROVE  IndInv'
<1>1. /\ conv'.pc = to /\ conv'.attempt = conv.attempt /\ conv'.source = conv.source
      /\ conv'.pack = conv.pack
      /\ IsRecord(conv', {"pc", "attempt", "source", "pack"})
  BY DEF IndInv, Shapes, IsRecord
<1>2. Shapes'
  BY <1>1 DEF IndInv, Shapes
<1>3. States'
  BY <1>1 DEF IndInv, States, given
<1>4. HasSource' /\ Progress' /\ Owns'
  BY <1>1 DEF IndInv, HasSource, Progress, Owns, Source, Packing
<1>5. Verified' <=> Verified
  BY DEF Verified
<1>6. Written'
  BY <1>1, <1>5 DEF IndInv, Written, Packing
<1> QED BY <1>2, <1>3, <1>4, <1>6 DEF IndInv

\* A step that packs: it puts its part into experts.bin or saves a file.
LEMMA PackInv ==
  ASSUME IndInv, conv.pc \in Packing, NEW to \in Packing, NEW c, NEW d,
         conv' = c, dir' = d, UNCHANGED <<given, rt>>,
         c.pc = to, c.attempt = conv.attempt, c.source = conv.source,
         IsRecord(c, {"pc", "attempt", "source", "pack"}),
         IsRecord(c.pack, {"records", "projections", "manifest"}),
         \/ c.pack.records = conv.pack.records /\ to # "experts"
         \/ /\ \E S : c.pack.records \in Seq(S)
            /\ Len(c.pack.records) <= Len(Source.experts)
            /\ to = "experts" => Len(c.pack.records) < Len(Source.experts),
         IsRecord(d, {"exists", "by", "bin", "index", "manifest"}),
         IsRecord(d.bin, {"state", "data"}),
         d.exists = dir.exists, d.by = dir.by,
         d.bin.state \in FileState /\ d.index.state \in FileState
           /\ d.manifest.state \in FileState,
         to \in {"index", "manifest", "verify"} => d.bin.state = "whole",
         to = "verify" => /\ Validate(c.pack.manifest)
                          /\ d.manifest \in Streamed(ToJson(c.pack.manifest)),
         to \notin {"report", "tokenizer"}
  PROVE  IndInv'
<1>1. dir.exists /\ dir'.exists /\ dir'.by = dir.by /\ dir.by = conv.attempt
  BY DEF IndInv, Owns
<1>2. Shapes'
  BY DEF IndInv, Shapes
<1>3. States'
  BY <1>1 DEF IndInv, States, FilesOK, given, Packing, Pc
<1>4. HasSource' /\ Owns'
  BY <1>1 DEF IndInv, HasSource, Owns, Source
<1>5. Progress'
  BY DEF IndInv, Progress, Source, Packing
<1>6. Written'
  BY DEF IndInv, Written, Packing
<1> QED BY <1>2, <1>3, <1>4, <1>5, <1>6 DEF IndInv

\* A step that gives the conversion up, whatever it leaves of its directory.
LEMMA StopInv ==
  ASSUME IndInv, NEW to \in {"failed", "crashed"}, conv' = [conv EXCEPT !.pc = to], NEW d,
         dir' = d, FilesOK(d),
         IsRecord(d, {"exists", "by", "bin", "index", "manifest"}),
         IsRecord(d.bin, {"state", "data"}),
         UNCHANGED <<given, rt>>
  PROVE  IndInv'
<1>1. /\ conv'.pc = to /\ conv'.attempt = conv.attempt /\ conv'.pack = conv.pack
      /\ IsRecord(conv', {"pc", "attempt", "source", "pack"})
  BY DEF IndInv, Shapes, IsRecord
<1>2. Shapes'
  BY <1>1 DEF IndInv, Shapes
<1>3. States'
  BY <1>1 DEF IndInv, States, given, Pc
<1>4. HasSource' /\ Progress' /\ Owns' /\ Written'
  BY <1>1 DEF HasSource, Progress, Owns, Written, Packing
<1> QED BY <1>2, <1>3, <1>4 DEF IndInv

\* A step of the runtime.
LEMMA RuntimeInv ==
  ASSUME IndInv, UNCHANGED <<given, conv, dir>>, NEW r, rt' = r,
         IsRecord(r, {"pc", "manifest", "static", "bin", "index", "loaded"}),
         r.pc \in {"closed", "static", "store", "open"}
  PROVE  IndInv'
<1>1. Shapes' /\ States'
  BY DEF IndInv, Shapes, States, given
<1>2. HasSource' /\ Progress' /\ Owns'
  BY DEF IndInv, HasSource, Progress, Owns, Source
<1>3. Verified' <=> Verified
  BY DEF Verified
<1>4. Written'
  BY <1>3 DEF IndInv, Written
<1> QED BY <1>1, <1>2, <1>4 DEF IndInv

-----------------------------------------------------------------------------
(* The converter's actions. *)

\* A conversion that starts packs what an importer returned.
LEMMA ImportInv == IndInv /\ Import => IndInv'
<1> SUFFICES ASSUME IndInv, Import PROVE IndInv'
  OBVIOUS
<1>1. CASE conv' = [conv EXCEPT !.pc = "failed"]
  BY <1>1, MoveInv DEF Import, Pc, Packing
<1>2. CASE ~(conv' = [conv EXCEPT !.pc = "failed"])
  <2> DEFINE m == Imported(ck)
  <2>1. /\ conv' = [conv EXCEPT !.pc = "directory", !.source = m]
        /\ LoaderLoads(ck) \/ Imports(ck)
        /\ conv.pc = "start" /\ UNCHANGED <<given, dir, rt>>
    BY <1>2 DEF Import, Fails
  <2>2. m.experts \in Seq(Range(m.experts))
    <3>1. IsCheckpoint(ck) /\ Imports(ck)
      BY <2>1, CheckpointAssumption DEF LoaderLoads, IndInv, States
    <3> QED BY <3>1, ImportedFacts DEF ImportedShape, IsSeq
  <2> HIDE DEF m
  <2>3. /\ conv'.pc = "directory" /\ conv'.attempt = conv.attempt /\ conv'.source = m
        /\ conv'.pack = conv.pack
        /\ IsRecord(conv', {"pc", "attempt", "source", "pack"})
    BY <2>1 DEF IndInv, Shapes, IsRecord
  <2>4. Shapes' /\ States'
    BY <2>1, <2>3 DEF IndInv, Shapes, States, given, Pc
  <2>5. HasSource' /\ Progress' /\ Owns' /\ Written'
    BY <2>1, <2>2, <2>3 DEF IndInv, HasSource, Progress, Owns, Written, Packing, Source
  <2> QED BY <2>4, <2>5 DEF IndInv
<1> QED BY <1>1, <1>2

\* A conversion makes its directory before it packs anything, and has at least
\* one expert to pack.
LEMMA MakeDirectoryInv == IndInv /\ MakeDirectory => IndInv'
<1> SUFFICES ASSUME IndInv, MakeDirectory PROVE IndInv'
  OBVIOUS
<1> DEFINE m == NothingPacked(Job)
<1>1. /\ conv.pc = "directory" /\ ~dir.exists /\ UNCHANGED <<given, rt>>
      /\ conv' = [conv EXCEPT !.pc = "experts", !.pack.manifest = m]
      /\ dir' = [dir EXCEPT !.exists = TRUE, !.by = conv.attempt,
                            !.bin = [state |-> "open", data |-> <<>>]]
  BY DEF MakeDirectory
<1>2. Source.experts # <<>> /\ Source.experts \in Seq(Range(Source.experts))
  BY <1>1 DEF MakeDirectory, MatchesSource, Validate, ValidTensors, IndInv, HasSource
<1> HIDE DEF m
<1>3. conv.pack = NoPack
  BY <1>1 DEF IndInv, Progress
<1>4. /\ conv'.pc = "experts" /\ conv'.attempt = conv.attempt /\ conv'.source = conv.source
      /\ IsRecord(conv', {"pc", "attempt", "source", "pack"})
      /\ IsRecord(conv'.pack, {"records", "projections", "manifest"})
      /\ conv'.pack.records = <<>>
  <2>1. conv.pack.records = <<>>
    BY <1>3 DEF NoPack
  <2> QED BY <1>1, <2>1 DEF IndInv, Shapes, IsRecord
<1>5. /\ IsRecord(dir', {"exists", "by", "bin", "index", "manifest"})
      /\ IsRecord(dir'.bin, {"state", "data"})
      /\ dir'.exists /\ dir'.by = conv.attempt /\ dir'.bin.state = "open"
      /\ dir'.index = dir.index /\ dir'.manifest = dir.manifest /\ dir'.exists \in BOOLEAN
  BY <1>1 DEF IndInv, Shapes, IsRecord
<1>6. Shapes'
  BY <1>1, <1>4, <1>5 DEF IndInv, Shapes
<1>7. States'
  <2>1. FilesOK(dir')
    BY <1>5 DEF IndInv, States, FilesOK, FileState
  <2> QED BY <1>1, <1>4, <2>1 DEF IndInv, States, given, Pc
<1>8. HasSource' /\ Owns' /\ Written'
  BY <1>2, <1>4, <1>5 DEF HasSource, Owns, Written, Packing, Source
<1>9. Progress'
  <2>1. Len(<<>>) = 0 /\ <<>> \in Seq({}) /\ Len(Source.experts) > 0
    BY <1>2
  <2>2. Source' = Source
    BY <1>4 DEF Source
  <2>3. Len(Source.experts) \in Nat
    BY <1>2
  <2> QED BY <1>4, <2>1, <2>2, <2>3 DEF Progress
<1> QED BY <1>6, <1>7, <1>8, <1>9 DEF IndInv

\* What one more piece of experts.bin leaves alone.
LEMMA BecomesFacts ==
  ASSUME IndInv, NEW packed, NEW to, Becomes(packed, to)
  PROVE  /\ UNCHANGED <<given, rt>> /\ conv'.pc = to /\ conv'.attempt = conv.attempt
         /\ conv'.source = conv.source /\ conv'.pack = packed.pack
         /\ IsRecord(conv', {"pc", "attempt", "source", "pack"})
         /\ IsRecord(dir', {"exists", "by", "bin", "index", "manifest"})
         /\ IsRecord(dir'.bin, {"state", "data"})
         /\ dir'.exists = dir.exists /\ dir'.by = dir.by
         /\ dir'.bin.state = dir.bin.state /\ dir'.bin.data = packed.bin
         /\ dir'.index = dir.index /\ dir'.manifest = dir.manifest
         /\ dir'.bin.state \in FileState /\ dir'.index.state \in FileState
         /\ dir'.manifest.state \in FileState
<1> DEFINE bin == packed.bin
           pack == packed.pack
<1>1. /\ UNCHANGED <<given, rt>> /\ dir' = [dir EXCEPT !.bin.data = bin]
      /\ conv' = [conv EXCEPT !.pc = to, !.pack = pack]
  BY DEF Becomes
<1> HIDE DEF bin, pack
<1>2. /\ conv'.pc = to /\ conv'.attempt = conv.attempt
      /\ conv'.source = conv.source /\ conv'.pack = pack
      /\ IsRecord(conv', {"pc", "attempt", "source", "pack"})
  BY <1>1 DEF IndInv, Shapes, IsRecord
<1>3. /\ IsRecord(dir', {"exists", "by", "bin", "index", "manifest"})
      /\ IsRecord(dir'.bin, {"state", "data"})
      /\ dir'.exists = dir.exists /\ dir'.by = dir.by
      /\ dir'.bin.state = dir.bin.state /\ dir'.bin.data = bin
      /\ dir'.index = dir.index /\ dir'.manifest = dir.manifest
  BY <1>1 DEF IndInv, Shapes, IsRecord
<1>4. /\ dir'.bin.state \in FileState /\ dir'.index.state \in FileState
      /\ dir'.manifest.state \in FileState
  BY <1>3 DEF IndInv, States, FilesOK
<1> QED BY <1>1, <1>2, <1>3, <1>4 DEF bin, pack

\* One more expert is packed.
LEMMA PackExpertInv == IndInv /\ PackExpert => IndInv'
<1> SUFFICES ASSUME IndInv, PackExpert PROVE IndInv'
  OBVIOUS
<1> DEFINE to == IF Len(conv.pack.records) + 1 = Len(Source.experts) THEN "routers" ELSE "experts"
           packed == WithExpert(Job, SoFar)
<1>1. conv.pc = "experts" /\ Becomes(packed, to)
  BY DEF PackExpert
<1>2. PICK record : packed.pack.records = Append(conv.pack.records, record)
  <2>1. SoFar.pack.records = conv.pack.records
    BY DEF SoFar
  <2> QED BY <2>1 DEF WithExpert
<1>3. IsRecord(packed.pack, {"records", "projections", "manifest"})
  BY DEF WithExpert, IsRecord
<1> DEFINE n == Append(conv.pack.records, record)
<1>4. PICK S : conv.pack.records \in Seq(S)
  BY <1>1 DEF IndInv, Progress, Packing
<1>5. n \in Seq(S \cup {record}) /\ Len(n) = Len(conv.pack.records) + 1
  <2>1. conv.pack.records \in Seq(S \cup {record})
    BY <1>4
  <2> QED BY <2>1
<1>6. Len(n) <= Len(Source.experts) /\ Len(Source.experts) \in Nat
  BY <1>1, <1>4, <1>5 DEF IndInv, Progress, HasSource, Packing
<1>7. to \in {"experts", "routers"} /\ (to = "experts" => Len(n) < Len(Source.experts))
  BY <1>5, <1>6
<1> HIDE DEF n, to, packed
<1>8. \E T : packed.pack.records \in Seq(T)
  BY <1>2, <1>5 DEF n
<1>9. /\ conv.pc \in Packing /\ to \in Packing
      /\ to \notin {"index", "manifest", "verify", "report", "tokenizer"}
  BY <1>1, <1>7 DEF Packing
<1>10. Len(packed.pack.records) <= Len(Source.experts)
       /\ (to = "experts" => Len(packed.pack.records) < Len(Source.experts))
  BY <1>2, <1>6, <1>7 DEF n
<1> QED
  BY <1>1, <1>3, <1>8, <1>9, <1>10, BecomesFacts, PackInv

\* The routers, the layers and the ends of the model follow the experts, then
\* experts.bin is closed.
LEMMA PackStaticInv ==
  IndInv /\ (PackRouters \/ PackLayers \/ PackIO \/ CloseData) => IndInv'
<1> SUFFICES ASSUME IndInv, PackRouters \/ PackLayers \/ PackIO \/ CloseData PROVE IndInv'
  OBVIOUS
<1>1. {"routers", "layers", "io", "close", "index"} \subseteq Packing
  BY DEF Packing
<1>2. ASSUME NEW packed, NEW m, packed.pack = [conv.pack EXCEPT !.manifest = m],
             NEW to \in {"layers", "io", "close"}, conv.pc \in Packing, Becomes(packed, to)
      PROVE  IndInv'
  <2>1. IsRecord(packed.pack, {"records", "projections", "manifest"})
        /\ packed.pack.records = conv.pack.records
    BY <1>2 DEF IndInv, Shapes, IsRecord
  <2>2. to \in Packing /\ to \notin {"experts", "index", "manifest", "verify", "report", "tokenizer"}
    BY <1>1, <1>2
  <2>3. conv.pc \in Packing /\ Becomes(packed, to)
    BY <1>2
  <2> QED BY <2>1, <2>2, <2>3, BecomesFacts, PackInv
<1>3. SoFar.pack = conv.pack
  BY DEF SoFar
<1>4. CASE PackRouters
  <2>1. PICK m : WithRouters(Job, SoFar).pack = [conv.pack EXCEPT !.manifest = m]
    BY <1>3 DEF WithRouters
  <2> QED BY <1>1, <1>2, <1>4, <2>1 DEF PackRouters
<1>5. CASE PackLayers
  <2>1. PICK m : WithLayers(Job, SoFar).pack = [conv.pack EXCEPT !.manifest = m]
    BY <1>3 DEF WithLayers
  <2> QED BY <1>1, <1>2, <1>5, <2>1 DEF PackLayers
<1>6. CASE PackIO
  <2>1. PICK m : WithIO(Job, SoFar).pack = [conv.pack EXCEPT !.manifest = m]
    BY <1>3 DEF WithIO
  <2> QED BY <1>1, <1>2, <1>6, <2>1 DEF PackIO
<1>7. CASE CloseData
  <2>1. /\ conv.pc = "close" /\ UNCHANGED <<given, rt>>
        /\ conv' = [conv EXCEPT !.pc = "index"]
        /\ dir' = [dir EXCEPT !.bin.state = "whole"]
    BY <1>7 DEF CloseData, Step
  <2>2. /\ conv'.pc = "index" /\ conv'.attempt = conv.attempt /\ conv'.source = conv.source
        /\ IsRecord(conv', {"pc", "attempt", "source", "pack"}) /\ conv'.pack = conv.pack
    BY <2>1 DEF IndInv, Shapes, IsRecord
  <2>3. /\ IsRecord(dir', {"exists", "by", "bin", "index", "manifest"})
        /\ IsRecord(dir'.bin, {"state", "data"})
        /\ dir'.exists = dir.exists /\ dir'.by = dir.by /\ dir'.bin.state = "whole"
        /\ dir'.index = dir.index /\ dir'.manifest = dir.manifest
    BY <2>1 DEF IndInv, Shapes, IsRecord
  <2>4. /\ dir'.bin.state \in FileState /\ dir'.index.state \in FileState
        /\ dir'.manifest.state \in FileState
        /\ IsRecord(conv'.pack, {"records", "projections", "manifest"})
    BY <2>2, <2>3 DEF IndInv, Shapes, States, FilesOK, FileState
  <2>5. conv.pc \in Packing /\ "index" \in Packing
    BY <1>1, <2>1
  <2> QED BY <2>1, <2>2, <2>3, <2>4, <2>5, PackInv
<1> QED BY <1>4, <1>5, <1>6, <1>7

\* The index and the manifest are saved, whole or cut short.
LEMMA SaveInv == IndInv /\ (SaveIndex \/ SaveManifest) => IndInv'
<1> SUFFICES ASSUME IndInv, SaveIndex \/ SaveManifest PROVE IndInv'
  OBVIOUS
<1>1. \A data : \A f \in Streamed(data) : f.state \in FileState
  BY DEF Streamed, Whole, Cut, FileState
<1>2. CASE SaveIndex
  <2>1. PICK data : \E f \in Streamed(data) : dir' = [dir EXCEPT !.index = f]
    BY <1>2 DEF SaveIndex
  <2>2. PICK f \in Streamed(data) : dir' = [dir EXCEPT !.index = f]
    BY <2>1
  <2>3. /\ conv.pc = "index" /\ UNCHANGED <<given, rt>>
        /\ conv' = [conv EXCEPT !.pc = "manifest"]
    BY <1>2 DEF SaveIndex
  <2>4. /\ conv'.pc = "manifest" /\ conv'.attempt = conv.attempt /\ conv'.source = conv.source
        /\ conv'.pack = conv.pack
        /\ IsRecord(conv', {"pc", "attempt", "source", "pack"})
    BY <2>3 DEF IndInv, Shapes, IsRecord
  <2>5. /\ IsRecord(dir', {"exists", "by", "bin", "index", "manifest"})
        /\ dir'.exists = dir.exists /\ dir'.by = dir.by /\ dir'.bin = dir.bin
        /\ dir'.index.state \in FileState /\ dir'.manifest = dir.manifest
    BY <1>1, <2>2 DEF IndInv, Shapes, IsRecord
  <2>6. dir.bin.state = "whole" /\ IsRecord(dir'.bin, {"state", "data"})
        /\ IsRecord(conv'.pack, {"records", "projections", "manifest"})
    BY <2>3, <2>4, <2>5 DEF IndInv, Shapes, Written
  <2> QED BY <2>3, <2>4, <2>5, <2>6, PackInv DEF IndInv, States, FilesOK, Packing
<1>3. CASE SaveManifest
  <2>1. PICK f \in Streamed(ToJson(conv.pack.manifest)) : dir' = [dir EXCEPT !.manifest = f]
    BY <1>3 DEF SaveManifest
  <2>2. /\ conv.pc = "manifest" /\ UNCHANGED <<given, rt>>
        /\ conv' = [conv EXCEPT !.pc = "verify"] /\ Validate(conv.pack.manifest)
    BY <1>3 DEF SaveManifest
  <2>3. /\ conv'.pc = "verify" /\ conv'.attempt = conv.attempt /\ conv'.source = conv.source
        /\ conv'.pack = conv.pack
        /\ IsRecord(conv', {"pc", "attempt", "source", "pack"})
    BY <2>2 DEF IndInv, Shapes, IsRecord
  <2>4. /\ IsRecord(dir', {"exists", "by", "bin", "index", "manifest"})
        /\ dir'.exists = dir.exists /\ dir'.by = dir.by /\ dir'.bin = dir.bin
        /\ dir'.index = dir.index /\ dir'.manifest = f /\ f.state \in FileState
    BY <1>1, <2>1 DEF IndInv, Shapes, IsRecord
  <2>5. dir.bin.state = "whole" /\ IsRecord(dir'.bin, {"state", "data"})
        /\ IsRecord(conv'.pack, {"records", "projections", "manifest"})
    BY <2>2, <2>3, <2>4 DEF IndInv, Shapes, Written
  <2> QED BY <2>1, <2>2, <2>3, <2>4, <2>5, PackInv DEF IndInv, States, FilesOK, Packing
<1> QED BY <1>2, <1>3

\* A conversion that throws or is killed may leave anything of its directory.
LEMMA StopsInv == IndInv /\ (Abort \/ Crash) => IndInv'
<1> SUFFICES ASSUME IndInv, Abort \/ Crash PROVE IndInv'
  OBVIOUS
<1> DEFINE IsDirectory(d) == /\ IsRecord(d, {"exists", "by", "bin", "index", "manifest"})
                             /\ IsRecord(d.bin, {"state", "data"})
                             /\ FilesOK(d)
<1>1. IsDirectory(dir) /\ dir.exists
  BY DEF IndInv, Shapes, States, Owns, Abort, Crash
<1>2. CASE Abort
  <2>1. PICK kept : dir' = Remaining(kept)
    BY <1>2 DEF Abort
  <2>2. IsDirectory(Remaining(kept))
    <3>1. CASE kept = {}
      BY <3>1 DEF Remaining, NoDirectory, NoFile, IsRecord, FilesOK, FileState
    <3>2. CASE kept # {}
      <4>1. [dir.bin EXCEPT !.state = IF @ = "open" THEN "cut" ELSE @].state \in FileState
            /\ IsRecord([dir.bin EXCEPT !.state = IF @ = "open" THEN "cut" ELSE @],
                        {"state", "data"})
        BY <1>1 DEF IsRecord, FilesOK, FileState
      <4>2. NoFile.state \in FileState /\ IsRecord(NoFile, {"state", "data"})
        BY DEF NoFile, FileState, IsRecord
      <4>3. /\ IsRecord(Remaining(kept), {"exists", "by", "bin", "index", "manifest"})
            /\ Remaining(kept).exists = TRUE
            /\ Remaining(kept).bin \in
                 {NoFile, [dir.bin EXCEPT !.state = IF @ = "open" THEN "cut" ELSE @]}
            /\ Remaining(kept).index \in {NoFile, dir.index}
            /\ Remaining(kept).manifest \in {NoFile, dir.manifest}
        BY <3>2 DEF Remaining, IsRecord
      <4> QED BY <1>1, <4>1, <4>2, <4>3 DEF FilesOK
    <3> QED BY <3>1, <3>2
  <2>3. conv' = [conv EXCEPT !.pc = "failed"] /\ UNCHANGED <<given, rt>>
    BY <1>2 DEF Abort, Fails
  <2> QED BY <2>1, <2>2, <2>3, StopInv
<1>3. CASE Crash
  <2>1. PICK data : dir' = IF dir.bin.state = "open"
                           THEN [dir EXCEPT !.bin = [state |-> "cut", data |-> data]] ELSE dir
    BY <1>3 DEF Crash
  <2>2. IsDirectory(dir')
    <3>1. CASE dir.bin.state = "open"
      <4>1. /\ IsRecord(dir', {"exists", "by", "bin", "index", "manifest"})
            /\ dir'.bin = [state |-> "cut", data |-> data] /\ dir'.exists = dir.exists
            /\ dir'.index = dir.index /\ dir'.manifest = dir.manifest
        BY <1>1, <2>1, <3>1 DEF IsRecord
      <4>2. IsRecord(dir'.bin, {"state", "data"}) /\ dir'.bin.state = "cut"
        BY <4>1 DEF IsRecord
      <4>3. dir.exists
        BY <1>1
      <4>4. FilesOK(dir')
        BY <1>1, <4>1, <4>2, <4>3 DEF FilesOK, FileState
      <4> QED BY <4>1, <4>2, <4>4
    <3>2. CASE dir.bin.state # "open"
      BY <1>1, <2>1, <3>2
    <3> QED BY <3>1, <3>2
  <2>3. conv' = [conv EXCEPT !.pc = "crashed"] /\ UNCHANGED <<given, rt>>
    BY <1>3 DEF Crash
  <2> QED BY <2>2, <2>3, StopInv
<1> QED BY <1>2, <1>3

\* The output is cleared, and the conversion tried again.
LEMMA AgainInv == IndInv /\ (ClearOutput \/ Retry) => IndInv'
<1> SUFFICES ASSUME IndInv, ClearOutput \/ Retry PROVE IndInv'
  OBVIOUS
<1>1. CASE ClearOutput
  <2>1. /\ conv.pc \in {"failed", "crashed"} /\ dir' = NoDirectory /\ UNCHANGED <<given, conv, rt>>
    BY <1>1 DEF ClearOutput
  <2>2. Shapes' /\ States'
    BY <2>1 DEF IndInv, Shapes, States, FilesOK, given, NoDirectory, NoFile, FileState, IsRecord
  <2>3. HasSource' /\ Progress' /\ Owns' /\ Written'
    BY <2>1 DEF HasSource, Progress, Owns, Written, Packing
  <2> QED BY <2>2, <2>3 DEF IndInv
<1>2. CASE Retry
  <2>1. /\ conv' = [pc |-> "start", attempt |-> conv.attempt + 1, source |-> <<>>,
                    pack |-> NoPack]
        /\ conv.attempt < Attempts /\ UNCHANGED <<given, dir, rt>>
    BY <1>2 DEF Retry, Idle
  <2>2. /\ IsRecord(conv', {"pc", "attempt", "source", "pack"})
        /\ IsRecord(conv'.pack, {"records", "projections", "manifest"})
    BY <2>1 DEF IsRecord, NoPack
  <2>3. Shapes'
    BY <2>1, <2>2 DEF IndInv, Shapes
  <2>4. States'
    <3>1. conv'.pc \in Pc /\ conv'.attempt \in 1..Attempts
      BY <2>1, PackageAssumption DEF IndInv, States, Pc
    <3> QED BY <2>1, <3>1 DEF IndInv, States, given
  <2>5. HasSource' /\ Progress' /\ Owns' /\ Written'
    BY <2>1 DEF HasSource, Progress, Owns, Written, Packing
  <2> QED BY <2>3, <2>4, <2>5 DEF IndInv
<1> QED BY <1>1, <1>2

\* The runtime only reads.
LEMMA RuntimeStepInv ==
  IndInv /\ (LoadManifest \/ LoadStatic \/ OpenStore \/ CloseRuntime \/ LoadExpert) => IndInv'
<1> SUFFICES ASSUME IndInv, LoadManifest \/ LoadStatic \/ OpenStore \/ CloseRuntime \/ LoadExpert
             PROVE  IndInv'
  OBVIOUS
<1> DEFINE IsRuntime(r) ==
      /\ IsRecord(r, {"pc", "manifest", "static", "bin", "index", "loaded"})
      /\ r.pc \in {"closed", "static", "store", "open"}
<1>1. UNCHANGED <<given, conv, dir>>
  BY DEF LoadManifest, LoadStatic, OpenStore, CloseRuntime, LoadExpert
<1>2. CASE LoadManifest
  <2>1. PICK m : rt' = [rt EXCEPT !.pc = "static", !.manifest = m]
    BY <1>2 DEF LoadManifest
  <2>2. IsRuntime(rt')
    BY <2>1 DEF IndInv, Shapes, IsRecord
  <2> QED BY <1>1, <2>2, RuntimeInv
<1>3. CASE LoadStatic
  <2>1. PICK bin : rt' = [rt EXCEPT !.pc = "store", !.static = bin]
    BY <1>3 DEF LoadStatic
  <2>2. IsRuntime(rt')
    BY <2>1 DEF IndInv, Shapes, IsRecord
  <2> QED BY <1>1, <2>2, RuntimeInv
<1>4. CASE OpenStore
  <2>1. PICK bin, index : rt' = [rt EXCEPT !.pc = "open", !.bin = bin, !.index = index]
    BY <1>4 DEF OpenStore
  <2>2. IsRuntime(rt')
    BY <2>1 DEF IndInv, Shapes, IsRecord
  <2> QED BY <1>1, <2>2, RuntimeInv
<1>5. CASE CloseRuntime
  <2>1. IsRuntime(rt')
    BY <1>5 DEF CloseRuntime, Closed, IsRecord
  <2> QED BY <1>1, <2>1, RuntimeInv
<1>6. CASE LoadExpert
  <2>1. PICK loaded : rt' = [rt EXCEPT !.loaded = loaded]
    BY <1>6 DEF LoadExpert
  <2>2. IsRuntime(rt')
    BY <2>1 DEF IndInv, Shapes, States, IsRecord
  <2> QED BY <1>1, <2>2, RuntimeInv
<1> QED BY <1>2, <1>3, <1>4, <1>5, <1>6

\* Every step keeps the invariant.
LEMMA NextInv == IndInv /\ [Next]_vars => IndInv'
<1> SUFFICES ASSUME IndInv, [Next]_vars PROVE IndInv'
  OBVIOUS
<1>1. CASE Refuse
  BY <1>1, MoveInv DEF Refuse, Fails, Pc, Packing
<1>2. CASE Verify
  BY <1>2, MoveInv DEF Verify, Step, Pc, Packing
<1>3. CASE WriteReport
  <2>1. Verified
    BY <1>3 DEF WriteReport, Step, IndInv, Written
  <2> QED BY <1>3, <2>1, MoveInv DEF WriteReport, Step, Pc, Packing
<1>4. CASE CopyTokenizer
  BY <1>4, MoveInv DEF CopyTokenizer, Step, Pc, Packing
<1>5. CASE UNCHANGED vars
  <2>1. UNCHANGED <<given, conv, dir>> /\ rt' = rt
    BY <1>5 DEF vars
  <2> QED BY <2>1, RuntimeInv DEF IndInv, Shapes, States
<1> QED BY <1>1, <1>2, <1>3, <1>4, <1>5, ImportInv, MakeDirectoryInv, PackExpertInv,
           PackStaticInv, SaveInv, StopsInv, AgainInv, RuntimeStepInv DEF Next

\* The invariant holds in every state of a conversion.
THEOREM Invariance == Spec => []IndInv
BY InitInv, NextInv, PTL DEF Spec

-----------------------------------------------------------------------------
(* What follows. *)

\* The converter, the runtime and the directory stay in the states the code
\* names, and no conversion packs more experts than the checkpoint has.
THEOREM TypeCorrect == Spec => []TypeOK
<1>1. IndInv => TypeOK
  <2> SUFFICES ASSUME IndInv PROVE TypeOK
    OBVIOUS
  <2>1. \A f \in Contents : dir[f].state \in FileState
    BY DEF IndInv, States, FilesOK, Contents
  <2> QED BY <2>1 DEF IndInv, States, FilesOK, Progress, Owns, TypeOK
<1> QED BY <1>1, Invariance, PTL

\* No step of a conversion changes a directory that another attempt, or
\* someone else, made: ExpertPacker refuses a directory it finds, and its
\* cleanup removes the one it made.
THEOREM OwnershipCorrect == Spec => TouchesOnlyItsOwn
<1>1. IndInv /\ [Next]_vars =>
        [conv' # conv /\ dir.exists /\ dir' # dir => dir.by = conv.attempt]_vars
  <2> SUFFICES ASSUME IndInv, Next, conv' # conv, dir.exists, dir' # dir
               PROVE  dir.by = conv.attempt
    OBVIOUS
  <2>1. conv.pc \in Packing
    <3>1. conv.pc \in {"experts", "routers", "layers", "io", "close", "index", "manifest"}
            \/ Abort \/ Crash
      BY DEF Next, Import, MakeDirectory, Refuse, PackExpert, PackRouters, PackLayers, PackIO,
             CloseData, Step, SaveIndex, SaveManifest, Verify, WriteReport, CopyTokenizer,
             ClearOutput, Retry, LoadManifest, LoadStatic, OpenStore, CloseRuntime, LoadExpert
    <3> QED BY <3>1 DEF Packing, Abort, Crash
  <2> QED BY <2>1 DEF IndInv, Owns
<1> QED BY <1>1, Invariance, PTL DEF Spec, TouchesOnlyItsOwn

\* What a conversion that returned has left: its own directory, with all of
\* experts.bin, an index the store opens and whose every record and projection
\* has the bytes its checksum was taken of, and a manifest that is either the
\* written form of a valid one or cut short.
ReturnedIsVerified ==
  conv.pc = "done" =>
    /\ dir.exists /\ dir.by = conv.attempt
    /\ dir.bin.state = "whole"
    /\ StoreOpens(dir.index, dir.bin.data, dir.manifest)
    /\ \A r \in Range(dir.index.data.records) \cup Range(dir.index.data.projections) :
         Intact(dir.bin.data, r)
    /\ dir.manifest.state = "whole" =>
         \E m : Validate(m) /\ dir.manifest.data = ToJson(m)

\* A conversion that returned has left what ExpertPacker verified, however many
\* attempts failed or were killed before it and whatever ran beside it.
THEOREM ReturnedCorrect == Spec => []ReturnedIsVerified
<1>1. IndInv => ReturnedIsVerified
  <2> SUFFICES ASSUME IndInv, conv.pc = "done" PROVE ReturnedIsVerified
    BY DEF ReturnedIsVerified
  <2>1. dir.exists /\ dir.by = conv.attempt /\ dir.bin.state = "whole" /\ Verified
    BY DEF IndInv, Owns, Written
  <2>2. ASSUME dir.manifest.state = "whole"
        PROVE  \E m : Validate(m) /\ dir.manifest.data = ToJson(m)
    <3>1. /\ Validate(conv.pack.manifest)
          /\ dir.manifest \in {Whole(ToJson(conv.pack.manifest)), Cut}
      BY DEF IndInv, Written, Streamed
    <3>2. dir.manifest = Whole(ToJson(conv.pack.manifest))
      BY <2>2, <3>1 DEF Cut
    <3> QED BY <3>1, <3>2 DEF Whole
  <2> QED BY <2>1, <2>2 DEF ReturnedIsVerified, Verified
<1> QED BY <1>1, Invariance, PTL

-----------------------------------------------------------------------------
(* What is packed, on disk and read is the package or a beginning of it. *)

\* The package the conversion is making, whichever attempt makes it.
Target == Final(JobOf(ck, encoding))

Late == {"close", "index", "manifest", "verify", "report", "tokenizer", "done"}

\* A converter packs what the importer made of the checkpoint.
FromCheckpoint ==
  conv.pc \in Packing \cup {"directory", "done"} =>
    /\ Imports(ck) /\ Source = Imported(ck)
    /\ tool = "real" => LoaderLoads(ck)

\* What is packed is a stage of the package.
PackedSoFar ==
  LET job == JobOf(ck, encoding) IN
  /\ conv.pc = "experts" => SoFar = Stage(job, Len(conv.pack.records))
  /\ conv.pc = "routers" => SoFar = Stage(job, Len(Source.experts))
  /\ conv.pc = "layers" => SoFar = Routed(job)
  /\ conv.pc = "io" => SoFar = Layered(job)
  /\ conv.pc \in Late => SoFar = Target
  /\ conv.pc \in {"experts", "routers", "layers", "io", "close"} => dir.bin.state = "open"

\* Every file there is, left by whichever attempt, is the package's or its beginning.
FilesOf(c, F, d) ==
  /\ d.bin.state # "absent" => Imports(c) /\ Extends(d.bin.data, F.bin)
  /\ d.bin.state = "whole" => d.bin.data = F.bin
  /\ d.index.state = "whole" =>
       d.index.data = [records |-> F.pack.records, projections |-> F.pack.projections]
  /\ d.manifest.state = "whole" =>
       Imports(c) /\ d.manifest.data = ToJson(F.pack.manifest) /\ Validate(F.pack.manifest)

\* So is what the runtime has read of them.
ReadsOf(c, F, r) ==
  /\ r.pc # "closed" =>
       /\ Imports(c) /\ r.manifest = FromJson(ToJson(F.pack.manifest))
       /\ Validate(F.pack.manifest) /\ Validate(r.manifest) /\ r.manifest.io # NoIO
  /\ r.pc \in {"store", "open"} => Extends(r.static, F.bin) /\ StaticLoads(r.manifest, r.static)
  /\ r.pc = "open" => r.index.records = F.pack.records
  /\ r.loaded # <<>> =>
       /\ r.loaded.record \in Range(F.pack.records)
       /\ r.loaded.bytes = r.loaded.record.checksum

Content == FromCheckpoint /\ PackedSoFar /\ FilesOf(ck, Target, dir) /\ ReadsOf(ck, Target, rt)

\* A checkpoint that is imported is one the lemmas are about.
LEMMA ImportedIsSound ==
  ASSUME IndInv, Imports(ck)
  PROVE  Sound(ck)
BY CheckpointAssumption DEF IndInv, States, Sound

\* What the runtime sees of a file is a beginning of it.
LEMMA PrefixFacts ==
  ASSUME NEW s, NEW t, Extends(s, t), NEW x \in OnDisk(s)
  PROVE  Extends(x, t)
<1>1. IsSeq(s) /\ IsSeq(t) /\ Len(s) \in Nat /\ Len(t) \in Nat
  BY SeqFacts DEF Extends
<1>2. PICK n \in {0, Len(s) \div 2, Len(s)} : x = SubSeq(s, 1, n)
  BY DEF OnDisk
<1>3. n \in 0..Len(s)
  BY <1>1
<1>4. SubSeq(s, 1, n) \in Seq(Range(s)) /\ Len(SubSeq(s, 1, n)) = n
      /\ \A i \in 1..n : SubSeq(s, 1, n)[i] = s[i]
  BY <1>1, <1>3 DEF IsSeq
<1>5. IsSeq(x)
  BY <1>2, <1>4, SeqIsSeq
<1> QED BY <1>1, <1>2, <1>3, <1>4, <1>5 DEF Extends

\* So is what a mapping or a range read of experts.bin may show.
LEMMA MappingFacts ==
  ASSUME NEW F, FilesOf(ck, F, dir), dir.bin.state # "absent", NEW x \in Mappings
  PROVE  Extends(x, F.bin)
<1>1. Extends(dir.bin.data, F.bin)
  BY DEF FilesOf
<1> QED BY <1>1, PrefixFacts DEF Mappings

\* The initial states.
LEMMA InitContent == Init => Content
<1> SUFFICES ASSUME Init PROVE Content
  OBVIOUS
<1>1. conv.pc = "start" /\ rt = Closed /\ dir \in {NoDirectory, Foreign}
  BY DEF Init, Idle
<1>2. FilesOf(ck, Target, NoDirectory) /\ FilesOf(ck, Target, Foreign)
  BY DEF FilesOf, NoDirectory, Foreign, NoFile
<1>3. ReadsOf(ck, Target, Closed)
  BY DEF ReadsOf, Closed
<1> QED BY <1>1, <1>2, <1>3 DEF Content, FromCheckpoint, PackedSoFar, Packing, Late

-----------------------------------------------------------------------------
(* Kinds of steps, and what they do to the content. *)

\* No step changes what is converted, by what, or into what.
LEMMA TargetStays ==
  ASSUME UNCHANGED given
  PROVE  ck' = ck /\ tool' = tool /\ encoding' = encoding /\ Target' = Target
BY DEF given, Target

\* A step of the runtime.
LEMMA ReadContent ==
  ASSUME Content, UNCHANGED <<given, conv, dir>>, ReadsOf(ck, Target, rt')
  PROVE  Content'
<1>1. ck' = ck /\ tool' = tool /\ encoding' = encoding /\ Target' = Target /\ conv' = conv /\ dir' = dir
  BY TargetStays
<1>2. FromCheckpoint'
  BY <1>1 DEF Content, FromCheckpoint, Source
<1>3. PackedSoFar'
  BY <1>1 DEF Content, PackedSoFar, Source, SoFar
<1> QED BY <1>1, <1>2, <1>3 DEF Content

\* A step that ends the conversion, or ends it for now.
LEMMA StopContent ==
  ASSUME Content, UNCHANGED <<given, rt>>, conv'.pc \in {"start", "failed", "crashed"},
         FilesOf(ck, Target, dir')
  PROVE  Content'
<1>1. ck' = ck /\ Target' = Target /\ rt' = rt
  BY TargetStays
<1>2. FromCheckpoint' /\ PackedSoFar'
  BY DEF FromCheckpoint, PackedSoFar, Packing, Late
<1> QED BY <1>1, <1>2 DEF Content

\* A step of the packer.
LEMMA PackContent ==
  ASSUME Content, UNCHANGED <<given, rt>>, conv.pc \in Packing \cup {"directory"},
         conv'.source = conv.source, PackedSoFar', FilesOf(ck, Target, dir')
  PROVE  Content'
<1>1. ck' = ck /\ tool' = tool /\ Target' = Target /\ rt' = rt
  BY TargetStays
<1>2. FromCheckpoint'
  BY <1>1 DEF Content, FromCheckpoint, Source
<1> QED BY <1>1, <1>2 DEF Content

\* A step that puts a stage of the package into experts.bin.
LEMMA GrowContent ==
  ASSUME IndInv, Content, conv.pc \in Packing, NEW packed, NEW to, Becomes(packed, to),
         IsRecord(packed, {"bin", "pack"}), Extends(packed.bin, Target.bin),
         dir.bin.state = "open",
         to \in {"experts", "routers", "layers", "io", "close"},
         to = "experts" => packed = Stage(JobOf(ck, encoding), Len(packed.pack.records)),
         to = "routers" => packed = Stage(JobOf(ck, encoding), Len(Source.experts)),
         to = "layers" => packed = Routed(JobOf(ck, encoding)),
         to = "io" => packed = Layered(JobOf(ck, encoding)),
         to = "close" => packed = Target
  PROVE  Content'
<1>1. /\ UNCHANGED <<given, rt>> /\ conv'.pc = to /\ conv'.source = conv.source
      /\ conv'.pack = packed.pack
      /\ dir'.bin.state = dir.bin.state /\ dir'.bin.data = packed.bin
      /\ dir'.index = dir.index /\ dir'.manifest = dir.manifest
  BY BecomesFacts
<1>2. SoFar' = packed
  BY <1>1 DEF SoFar, IsRecord
<1>3. ck' = ck /\ encoding' = encoding /\ Target' = Target /\ Source' = Source
  BY <1>1, TargetStays DEF Source
<1>4. PackedSoFar'
  BY <1>1, <1>2, <1>3 DEF PackedSoFar, Late
<1>5. Imports(ck)
  BY DEF Content, FromCheckpoint
<1>6. FilesOf(ck, Target, dir')
  BY <1>1, <1>5 DEF Content, FilesOf
<1> QED BY <1>1, <1>4, <1>6, PackContent

\* The importer hands the manifest over, and the directory is made.
LEMMA BeginContent == IndInv /\ Content /\ (Import \/ MakeDirectory) => Content'
<1> SUFFICES ASSUME IndInv, Content, Import \/ MakeDirectory PROVE Content'
  OBVIOUS
<1>1. CASE Import
  <2>1. UNCHANGED <<given, dir, rt>>
    BY <1>1 DEF Import
  <2>2. CASE conv' = [conv EXCEPT !.pc = "failed"]
    <3>1. conv'.pc = "failed"
      BY <2>2 DEF IndInv, Shapes, IsRecord
    <3> QED BY <2>1, <3>1, StopContent DEF Content
  <2>3. CASE ~(conv' = [conv EXCEPT !.pc = "failed"])
    <3>1. /\ conv' = [conv EXCEPT !.pc = "directory", !.source = Imported(ck)]
          /\ Imports(ck) /\ (tool = "real" => LoaderLoads(ck))
      BY <1>1, <2>3 DEF Import, Fails, LoaderLoads
    <3>2. conv'.pc = "directory" /\ conv'.source = Imported(ck)
      BY <3>1 DEF IndInv, Shapes, IsRecord
    <3>3. ck' = ck /\ tool' = tool /\ Target' = Target /\ rt' = rt /\ dir' = dir
      BY <2>1, TargetStays
    <3>4. FromCheckpoint'
      BY <3>1, <3>2, <3>3 DEF FromCheckpoint, Source
    <3>5. PackedSoFar'
      BY <3>2 DEF PackedSoFar, Late
    <3> QED BY <3>3, <3>4, <3>5 DEF Content
  <2> QED BY <2>2, <2>3
<1>2. CASE MakeDirectory
  <2> DEFINE m == NothingPacked(Job)
             job == JobOf(ck, encoding)
  <2>1. /\ conv.pc = "directory" /\ ~dir.exists /\ UNCHANGED <<given, rt>>
        /\ conv' = [conv EXCEPT !.pc = "experts", !.pack.manifest = m]
        /\ dir' = [dir EXCEPT !.exists = TRUE, !.by = conv.attempt,
                              !.bin = [state |-> "open", data |-> <<>>]]
    BY <1>2 DEF MakeDirectory
  <2>2. Imports(ck) /\ Source = Imported(ck) /\ Sound(ck)
    BY <2>1, ImportedIsSound DEF Content, FromCheckpoint
  <2>3. Job = job
    BY <2>2 DEF Job, JobOf
  <2>4. IsSeq(Target.bin)
    BY <2>2, FinalFacts DEF Target, FinalOK, StageOK
  <2>5. Extends(<<>>, Target.bin)
    <3>0. <<>> \in Seq({})
      OBVIOUS
    <3>1. IsSeq(<<>>) /\ Len(<<>>) = 0
      BY <3>0, SeqIsSeq
    <3>2. Len(Target.bin) \in Nat
      BY <2>4, SeqFacts
    <3> QED BY <2>4, <3>1, <3>2 DEF Extends
  <2> HIDE DEF m, job
  <2>6. /\ conv'.pc = "experts" /\ conv'.source = conv.source
        /\ conv'.pack = [records |-> <<>>, projections |-> <<>>, manifest |-> m]
    <3>1. conv.pack = [records |-> <<>>, projections |-> <<>>, manifest |-> <<>>]
      BY <2>1 DEF IndInv, Progress, NoPack
    <3> QED BY <2>1, <3>1 DEF IndInv, Shapes, IsRecord
  <2>7. /\ dir'.bin = [state |-> "open", data |-> <<>>]
        /\ dir'.index = dir.index /\ dir'.manifest = dir.manifest
    BY <2>1 DEF IndInv, Shapes, IsRecord
  <2>8. FilesOf(ck, Target, dir')
    BY <2>2, <2>5, <2>7 DEF Content, FilesOf
  <2>9. SoFar' = Stage(job, Len(conv'.pack.records))
    <3>1. SoFar' = NothingWritten(job)
      BY <2>3, <2>6, <2>7 DEF SoFar, NothingWritten, m
    <3>2. Len(conv'.pack.records) = 0
      BY <2>6
    <3> QED BY <3>1, <3>2, StageUnfolds
  <2>10. PackedSoFar'
    <3>1. JobOf(ck, encoding)' = job
      BY <2>1, TargetStays DEF job
    <3> QED BY <2>6, <2>7, <2>9, <3>1 DEF PackedSoFar, Late
  <2> QED BY <2>1, <2>6, <2>8, <2>10, PackContent
<1> QED BY <1>1, <1>2

\* The package grows by one expert.
LEMMA PackExpertContent == IndInv /\ Content /\ PackExpert => Content'
<1> SUFFICES ASSUME IndInv, Content, PackExpert PROVE Content'
  OBVIOUS
<1> DEFINE job == JobOf(ck, encoding)
           k == Len(conv.pack.records)
           N == Len(Imported(ck).experts)
           packed == WithExpert(job, Stage(job, k))
           to == IF k + 1 = N THEN "routers" ELSE "experts"
<1>1. /\ conv.pc = "experts" /\ Imports(ck) /\ Source = Imported(ck) /\ Sound(ck)
      /\ SoFar = Stage(job, k) /\ dir.bin.state = "open"
  <2>1. conv.pc = "experts"
    BY DEF PackExpert
  <2>2. Imports(ck)
    BY <2>1 DEF Content, FromCheckpoint, Packing
  <2> QED BY <2>1, <2>2, ImportedIsSound DEF Content, FromCheckpoint, PackedSoFar, Packing
<1>2. Job = job
  BY <1>1 DEF Job, JobOf
<1>3. Becomes(packed, to)
  <2> HIDE DEF job
  <2> QED BY <1>1, <1>2 DEF PackExpert
<1>4. k \in Nat /\ k < N
  <2>1. k < N
    BY <1>1 DEF IndInv, Progress
  <2>2. \E S : conv.pack.records \in Seq(S)
    BY <1>1 DEF IndInv, Progress, Packing
  <2> QED BY <2>1, <2>2
<1>5. /\ N \in Nat /\ StageOK(ck, encoding, Stage(job, k + 1), k + 1)
      /\ Extends(Stage(job, k + 1).bin, Target.bin)
  <2>1. /\ N \in Nat /\ \A j \in 0..N : Extends(Stage(job, j).bin, Final(job).bin)
    BY <1>1, FinalFacts
  <2>2. \A j \in 0..N : StageOK(ck, encoding, Stage(job, j), j)
    BY <1>1, StageFacts
  <2>3. k + 1 \in 0..N
    BY <1>4, <2>1
  <2> HIDE DEF job, N, k
  <2> QED BY <2>1, <2>2, <2>3 DEF Target, job
<1>6. packed = Stage(job, k + 1)
  <2> HIDE DEF job, k
  <2> QED BY <1>4, StageUnfolds
<1> HIDE DEF job, k, N, packed, to
<1>7. IsRecord(packed, {"bin", "pack"}) /\ Len(packed.pack.records) = k + 1
  BY <1>5, <1>6 DEF StageOK
<1>8. to \in {"experts", "routers"} /\ (to = "routers" => k + 1 = Len(Source.experts))
  BY <1>1 DEF to, N
<1>9. /\ to = "experts" => packed = Stage(JobOf(ck, encoding), Len(packed.pack.records))
      /\ to = "routers" => packed = Stage(JobOf(ck, encoding), Len(Source.experts))
  BY <1>6, <1>7, <1>8 DEF job
<1>10. conv.pc \in Packing /\ Extends(packed.bin, Target.bin)
  BY <1>1, <1>5, <1>6 DEF Packing
<1> QED BY <1>1, <1>3, <1>7, <1>8, <1>9, <1>10, GrowContent

\* It grows by the routers, the layers and the ends of the model.
LEMMA PackStaticContent ==
  IndInv /\ Content /\ (PackRouters \/ PackLayers \/ PackIO) => Content'
<1> SUFFICES ASSUME IndInv, Content, PackRouters \/ PackLayers \/ PackIO PROVE Content'
  OBVIOUS
<1> DEFINE job == JobOf(ck, encoding)
           N == Len(Imported(ck).experts)
<1>1. conv.pc \in {"routers", "layers", "io"} /\ conv.pc \in Packing
  BY DEF PackRouters, PackLayers, PackIO, Packing
<1>2. Imports(ck) /\ Source = Imported(ck) /\ Sound(ck) /\ dir.bin.state = "open"
  BY <1>1, ImportedIsSound DEF Content, FromCheckpoint, PackedSoFar
<1>3. Job = job /\ job.manifest = Imported(ck)
  BY <1>2 DEF Job, JobOf
<1>4. /\ Extends(Routed(job).bin, Target.bin) /\ Extends(Layered(job).bin, Target.bin)
      /\ Extends(Target.bin, Target.bin)
  <2>1. IsSeq(Final(job).bin) /\ Extends(Routed(job).bin, Final(job).bin)
        /\ Extends(Layered(job).bin, Final(job).bin)
    BY <1>2, FinalFacts DEF FinalOK, StageOK
  <2> QED BY <2>1, ExtendsFacts DEF Target
<1> HIDE DEF job
<1>5. /\ IsRecord(Routed(job), {"bin", "pack"}) /\ IsRecord(Layered(job), {"bin", "pack"})
      /\ IsRecord(Final(job), {"bin", "pack"})
  <2>1. \A b, q : IsRecord([bin |-> b, pack |-> q], {"bin", "pack"})
    BY DEF IsRecord
  <2>2. \A p : \E b, q : WithRouters(job, p) = [bin |-> b, pack |-> q]
    BY DEF WithRouters
  <2>3. \A p : \E b, q : WithLayers(job, p) = [bin |-> b, pack |-> q]
    BY DEF WithLayers
  <2>4. \A p : \E b, q : WithIO(job, p) = [bin |-> b, pack |-> q]
    BY DEF WithIO
  <2> QED BY <2>1, <2>2, <2>3, <2>4 DEF Routed, Layered, Final
<1>6. CASE PackRouters
  <2>1. conv.pc = "routers" /\ Becomes(WithRouters(job, SoFar), "layers")
    BY <1>3, <1>6 DEF PackRouters
  <2>2. WithRouters(job, SoFar) = Routed(job)
    BY <1>2, <1>3, <2>1 DEF Content, PackedSoFar, Routed, job
  <2> QED BY <1>1, <1>2, <1>4, <1>5, <2>1, <2>2, GrowContent DEF job
<1>7. CASE PackLayers
  <2>1. conv.pc = "layers" /\ Becomes(WithLayers(job, SoFar), "io")
    BY <1>3, <1>7 DEF PackLayers
  <2>2. WithLayers(job, SoFar) = Layered(job)
    BY <2>1 DEF Content, PackedSoFar, Layered, job
  <2> QED BY <1>1, <1>2, <1>4, <1>5, <2>1, <2>2, GrowContent DEF job
<1>8. CASE PackIO
  <2>1. conv.pc = "io" /\ Becomes(WithIO(job, SoFar), "close")
    BY <1>3, <1>8 DEF PackIO
  <2>2. WithIO(job, SoFar) = Target
    BY <2>1 DEF Content, PackedSoFar, Final, Target, job
  <2>3. IsRecord(Target, {"bin", "pack"})
    BY <1>5 DEF Target, job
  <2> QED BY <1>1, <1>2, <1>4, <2>1, <2>2, <2>3, GrowContent
<1> QED BY <1>6, <1>7, <1>8

\* The files are closed and saved.
LEMMA SaveContent ==
  IndInv /\ Content /\ (CloseData \/ SaveIndex \/ SaveManifest) => Content'
<1> SUFFICES ASSUME IndInv, Content, CloseData \/ SaveIndex \/ SaveManifest PROVE Content'
  OBVIOUS
<1>1. conv.pc \in {"close", "index", "manifest"} /\ UNCHANGED <<given, rt>>
  BY DEF CloseData, SaveIndex, SaveManifest, Step
<1>2. SoFar = Target /\ conv.pc \in Packing /\ Imports(ck) /\ Target' = Target
  BY <1>1, TargetStays DEF Content, PackedSoFar, FromCheckpoint, Late, Packing
<1>3. dir.bin.data = Target.bin /\ conv.pack = Target.pack
  <2>1. SoFar.bin = dir.bin.data /\ SoFar.pack = conv.pack
    BY DEF SoFar
  <2> QED BY <1>2, <2>1
<1>4. ASSUME conv'.source = conv.source, conv'.pack = conv.pack,
             conv'.pc \in {"index", "manifest", "verify"}, dir'.bin.data = dir.bin.data,
             FilesOf(ck, Target, dir')
      PROVE  Content'
  <2>1. SoFar' = Target
    BY <1>2, <1>4 DEF SoFar
  <2>2. PackedSoFar'
    BY <1>2, <1>4, <2>1 DEF PackedSoFar, Late
  <2> QED BY <1>1, <1>2, <1>4, <2>2, PackContent
<1>5. CASE CloseData
  <2>1. /\ conv' = [conv EXCEPT !.pc = "index"] /\ dir' = [dir EXCEPT !.bin.state = "whole"]
    BY <1>5 DEF CloseData, Step
  <2>2. conv'.pc = "index" /\ conv'.source = conv.source /\ conv'.pack = conv.pack
    BY <2>1 DEF IndInv, Shapes, IsRecord
  <2>3. /\ dir'.bin.state = "whole" /\ dir'.bin.data = dir.bin.data
        /\ dir'.index = dir.index /\ dir'.manifest = dir.manifest
    BY <2>1 DEF IndInv, Shapes, IsRecord
  <2>4. dir.bin.state = "open"
    BY <1>5 DEF CloseData, Step, Content, PackedSoFar
  <2>5. FilesOf(ck, Target, dir')
    BY <1>3, <2>3, <2>4 DEF Content, FilesOf
  <2> QED BY <1>4, <2>2, <2>3, <2>5
<1>6. CASE SaveIndex
  <2> DEFINE index == [records |-> conv.pack.records, projections |-> conv.pack.projections]
  <2>1. PICK f \in Streamed(index) : dir' = [dir EXCEPT !.index = f]
    BY <1>6 DEF SaveIndex
  <2>2. conv' = [conv EXCEPT !.pc = "manifest"]
    BY <1>6 DEF SaveIndex
  <2>3. conv'.pc = "manifest" /\ conv'.source = conv.source /\ conv'.pack = conv.pack
    BY <2>2 DEF IndInv, Shapes, IsRecord
  <2>4. dir'.bin = dir.bin /\ dir'.index = f /\ dir'.manifest = dir.manifest
    BY <2>1 DEF IndInv, Shapes, IsRecord
  <2>5. f.state = "whole" => f.data = index
    BY <2>1 DEF Streamed, Whole, Cut
  <2>6. FilesOf(ck, Target, dir')
    BY <1>3, <2>4, <2>5 DEF Content, FilesOf
  <2> QED BY <1>4, <2>3, <2>4, <2>6
<1>7. CASE SaveManifest
  <2> DEFINE doc == ToJson(conv.pack.manifest)
  <2>1. PICK f \in Streamed(doc) : dir' = [dir EXCEPT !.manifest = f]
    BY <1>7 DEF SaveManifest
  <2>2. conv' = [conv EXCEPT !.pc = "verify"] /\ Validate(conv.pack.manifest)
    BY <1>7 DEF SaveManifest
  <2>3. conv'.pc = "verify" /\ conv'.source = conv.source /\ conv'.pack = conv.pack
    BY <2>2 DEF IndInv, Shapes, IsRecord
  <2>4. dir'.bin = dir.bin /\ dir'.index = dir.index /\ dir'.manifest = f
    BY <2>1 DEF IndInv, Shapes, IsRecord
  <2>5. f.state = "whole" => f.data = doc
    BY <2>1 DEF Streamed, Whole, Cut
  <2>6. FilesOf(ck, Target, dir')
    BY <1>2, <1>3, <2>2, <2>4, <2>5 DEF Content, FilesOf
  <2> QED BY <1>4, <2>3, <2>4, <2>6
<1> QED BY <1>5, <1>6, <1>7

\* The store is verified, and the reports and the tokenizer follow.
LEMMA MoveContent ==
  IndInv /\ Content /\ (Verify \/ WriteReport \/ CopyTokenizer) => Content'
<1> SUFFICES ASSUME IndInv, Content, Verify \/ WriteReport \/ CopyTokenizer PROVE Content'
  OBVIOUS
<1>1. PICK to \in {"report", "tokenizer", "done"} : conv' = [conv EXCEPT !.pc = to]
  BY DEF Verify, WriteReport, CopyTokenizer, Step
<1>2. conv.pc \in {"verify", "report", "tokenizer"} /\ UNCHANGED <<given, dir, rt>>
  BY DEF Verify, WriteReport, CopyTokenizer, Step
<1>3. conv'.pc = to /\ conv'.source = conv.source /\ conv'.pack = conv.pack
  BY <1>1 DEF IndInv, Shapes, IsRecord
<1>4. SoFar' = SoFar /\ Target' = Target
  BY <1>2, <1>3, TargetStays DEF SoFar
<1>5. PackedSoFar'
  BY <1>2, <1>3, <1>4 DEF Content, PackedSoFar, Late
<1>6. FilesOf(ck, Target, dir') /\ conv.pc \in Packing
  BY <1>2 DEF Content, Packing
<1> QED BY <1>2, <1>3, <1>5, <1>6, PackContent

\* A conversion that throws or is killed leaves files of the package or their beginnings.
LEMMA StopsContent ==
  IndInv /\ Content /\ (Refuse \/ Abort \/ Crash \/ ClearOutput \/ Retry) => Content'
<1> SUFFICES ASSUME IndInv, Content, Refuse \/ Abort \/ Crash \/ ClearOutput \/ Retry
             PROVE  Content'
  OBVIOUS
<1>1. UNCHANGED <<given, rt>>
  BY DEF Refuse, Abort, Crash, ClearOutput, Retry
<1>2. \A pc : conv' = [conv EXCEPT !.pc = pc] => conv'.pc = pc
  BY DEF IndInv, Shapes, IsRecord
<1>3. conv'.pc \in {"start", "failed", "crashed"}
  <2>1. Refuse \/ Abort => conv' = [conv EXCEPT !.pc = "failed"]
    BY DEF Refuse, Abort, Fails
  <2>2. Crash => conv' = [conv EXCEPT !.pc = "crashed"]
    BY DEF Crash
  <2>3. ClearOutput => conv.pc \in {"failed", "crashed"} /\ conv' = conv
    BY DEF ClearOutput
  <2>4. Retry => conv'.pc = "start"
    BY DEF Retry, Idle
  <2> QED BY <1>2, <2>1, <2>2, <2>3, <2>4
<1>4. FilesOf(ck, Target, dir)
  BY DEF Content
<1>5. NoFile.state = "absent"
  BY DEF NoFile
<1>6. FilesOf(ck, Target, NoDirectory)
  BY DEF FilesOf, NoDirectory, NoFile
<1>7. FilesOf(ck, Target, dir')
  <2>1. CASE Refuse \/ Retry
    BY <1>4, <2>1 DEF Refuse, Retry
  <2>2. CASE ClearOutput
    BY <1>6, <2>2 DEF ClearOutput
  <2>3. CASE Abort
    <3>1. PICK kept : dir' = Remaining(kept)
      BY <2>3 DEF Abort
    <3>2. CASE kept = {}
      BY <1>6, <3>1, <3>2 DEF Remaining
    <3>3. CASE kept # {}
      <4> DEFINE b == [dir.bin EXCEPT !.state = IF @ = "open" THEN "cut" ELSE @]
      <4>1. b.data = dir.bin.data /\ b.state = IF dir.bin.state = "open" THEN "cut" ELSE dir.bin.state
        BY DEF IndInv, Shapes, IsRecord
      <4> HIDE DEF b
      <4>2. /\ dir'.bin \in {NoFile, b} /\ dir'.index \in {NoFile, dir.index}
            /\ dir'.manifest \in {NoFile, dir.manifest}
        BY <3>1, <3>3 DEF Remaining, b
      <4> QED BY <1>4, <1>5, <4>1, <4>2 DEF FilesOf
    <3> QED BY <3>2, <3>3
  <2>4. CASE Crash
    <3>1. PICK data \in OnDisk(dir.bin.data) :
            dir' = IF dir.bin.state = "open"
                   THEN [dir EXCEPT !.bin = [state |-> "cut", data |-> data]] ELSE dir
      BY <2>4 DEF Crash
    <3>2. CASE dir.bin.state = "open"
      <4>1. /\ dir'.bin = [state |-> "cut", data |-> data]
            /\ dir'.index = dir.index /\ dir'.manifest = dir.manifest
        BY <3>1, <3>2 DEF IndInv, Shapes, IsRecord
      <4>2. Imports(ck) /\ Extends(data, Target.bin)
        BY <1>4, <3>2, PrefixFacts DEF FilesOf
      <4> QED BY <1>4, <4>1, <4>2 DEF FilesOf
    <3>3. CASE dir.bin.state # "open"
      BY <1>4, <3>1, <3>3
    <3> QED BY <3>2, <3>3
  <2> QED BY <2>1, <2>2, <2>3, <2>4
<1> QED BY <1>1, <1>3, <1>7, StopContent

\* The runtime reads what is there.
LEMMA ReadsContent ==
  IndInv /\ Content /\ (LoadManifest \/ LoadStatic \/ OpenStore \/ CloseRuntime \/ LoadExpert)
    => Content'
<1> SUFFICES ASSUME IndInv, Content,
                    LoadManifest \/ LoadStatic \/ OpenStore \/ CloseRuntime \/ LoadExpert
             PROVE  Content'
  OBVIOUS
<1>1. UNCHANGED <<given, conv, dir>>
  BY DEF LoadManifest, LoadStatic, OpenStore, CloseRuntime, LoadExpert
<1>2. FilesOf(ck, Target, dir) /\ ReadsOf(ck, Target, rt)
  BY DEF Content
<1> DEFINE F == Target
<1> HIDE DEF F
<1>3. CASE LoadManifest
  <2> DEFINE m == FromJson(dir.manifest.data)
  <2>1. /\ rt.pc = "closed" /\ rt' = [rt EXCEPT !.pc = "static", !.manifest = m]
        /\ dir.manifest.state = "whole" /\ Validate(m) /\ m.io # NoIO
    BY <1>3 DEF LoadManifest, ManifestOpens, Parses, Loads
  <2>2. /\ Imports(ck) /\ m = FromJson(ToJson(Target.pack.manifest))
        /\ Validate(Target.pack.manifest)
    BY <1>2, <2>1 DEF FilesOf
  <2> HIDE DEF m
  <2>3. rt'.pc = "static" /\ rt'.manifest = m /\ rt'.loaded = rt.loaded
    BY <2>1 DEF IndInv, Shapes, IsRecord
  <2>4. ReadsOf(ck, Target, rt')
    BY <1>2, <2>1, <2>2, <2>3 DEF ReadsOf
  <2> QED BY <1>1, <2>4, ReadContent
<1>4. CASE LoadStatic
  <2>1. PICK bin \in Mappings : /\ StaticLoads(rt.manifest, bin)
                                /\ rt' = [rt EXCEPT !.pc = "store", !.static = bin]
    BY <1>4 DEF LoadStatic
  <2>2. rt.pc = "static" /\ dir.bin.state # "absent"
    BY <1>4 DEF LoadStatic
  <2>3. Extends(bin, Target.bin)
    BY <1>2, <2>2, MappingFacts
  <2>4. /\ rt'.pc = "store" /\ rt'.static = bin /\ rt'.manifest = rt.manifest
        /\ rt'.loaded = rt.loaded
    BY <2>1 DEF IndInv, Shapes, IsRecord
  <2>5. ReadsOf(ck, Target, rt')
    BY <1>2, <2>1, <2>2, <2>3, <2>4 DEF ReadsOf
  <2> QED BY <1>1, <2>5, ReadContent
<1>5. CASE OpenStore
  <2>1. PICK bin : /\ StoreOpens(dir.index, bin, dir.manifest)
                   /\ rt' = [rt EXCEPT !.pc = "open", !.bin = bin, !.index = dir.index.data]
    BY <1>5 DEF OpenStore
  <2>2. rt.pc = "store"
    BY <1>5 DEF OpenStore
  <2>3. dir.index.data.records = Target.pack.records
    BY <1>2, <2>1 DEF StoreOpens, IndexLoads, FilesOf
  <2>4. /\ rt'.pc = "open" /\ rt'.static = rt.static /\ rt'.manifest = rt.manifest
        /\ rt'.loaded = rt.loaded /\ rt'.index = dir.index.data
    BY <2>1 DEF IndInv, Shapes, IsRecord
  <2>5. ReadsOf(ck, Target, rt')
    BY <1>2, <2>2, <2>3, <2>4 DEF ReadsOf
  <2> QED BY <1>1, <2>5, ReadContent
<1>6. CASE CloseRuntime
  <2>1. ReadsOf(ck, Target, rt')
    BY <1>6 DEF CloseRuntime, ReadsOf, Closed
  <2> QED BY <1>1, <2>1, ReadContent
<1>7. CASE LoadExpert
  <2>1. PICK r \in Range(rt.index.records), bin \in {rt.bin} \cup RangeReads :
          /\ Intact(bin, r)
          /\ rt' = [rt EXCEPT !.loaded = [record |-> r, bytes |-> View(bin, r.offset, r.size)]]
    BY <1>7 DEF LoadExpert
  <2>2. rt.pc = "open"
    BY <1>7 DEF LoadExpert
  <2> DEFINE bytes == View(bin, r.offset, r.size)
  <2>3. bytes = r.checksum
    BY <2>1 DEF Intact
  <2> HIDE DEF bytes
  <2>4. /\ rt'.pc = "open" /\ rt'.static = rt.static /\ rt'.manifest = rt.manifest
        /\ rt'.loaded = [record |-> r, bytes |-> bytes] /\ rt'.index = rt.index
    BY <2>1, <2>2 DEF IndInv, Shapes, IsRecord, bytes
  <2>5. ReadsOf(ck, Target, rt')
    BY <1>2, <2>1, <2>2, <2>3, <2>4 DEF ReadsOf
  <2> QED BY <1>1, <2>5, ReadContent
<1> QED BY <1>3, <1>4, <1>5, <1>6, <1>7

\* Every step keeps the content.
LEMMA NextContent == IndInv /\ Content /\ [Next]_vars => Content'
<1>1. IndInv /\ Content /\ UNCHANGED vars => Content'
  BY ReadContent DEF vars, Content
<1> QED BY <1>1, BeginContent, PackExpertContent, PackStaticContent, SaveContent, MoveContent,
           StopsContent, ReadsContent DEF Next

\* Whatever is packed, on disk or read is what the checkpoint and the encoding determine.
THEOREM ContentInvariance == Spec => []Content
BY InitContent, NextContent, Invariance, PTL DEF Spec

-----------------------------------------------------------------------------
(* The manifest, written and read back. *)

\* Six digits of a positive number are a positive number.
LEMMA SixDigitsPositive == ASSUME NEW n \in Nat, n > 0 PROVE SixDigits(n) > 0
<1> DEFINE k == n \div 1000000
           unit == {u \in PowersOfTen : k < u \/ u = 1000000000}
           u == CHOOSE v \in unit : \A w \in unit : v <= w
<1>1. k \in Nat /\ k * 1000000 <= n
  BY DivMod
<1>2. SixDigits(n) = ((n + u \div 2) \div u) * u
  BY DEF SixDigits
<1> HIDE DEF k
<1>3. \E v \in unit : \A w \in unit : v <= w
  <2>1. CASE k < 1000
    <3>1. CASE k < 1
      <4>1. 1 \in unit /\ \A w \in unit : 1 <= w
        BY <3>1 DEF PowersOfTen
      <4> QED BY <4>1
    <3>2. CASE k >= 1 /\ k < 10
      <4>1. 10 \in unit /\ \A w \in unit : 10 <= w
        BY <1>1, <3>2 DEF PowersOfTen
      <4> QED BY <4>1
    <3>3. CASE k >= 10 /\ k < 100
      <4>1. 100 \in unit /\ \A w \in unit : 100 <= w
        BY <1>1, <3>3 DEF PowersOfTen
      <4> QED BY <4>1
    <3>4. CASE k >= 100
      <4>1. 1000 \in unit /\ \A w \in unit : 1000 <= w
        BY <1>1, <2>1, <3>4 DEF PowersOfTen
      <4> QED BY <4>1
    <3> QED BY <1>1, <3>1, <3>2, <3>3, <3>4
  <2>2. CASE k >= 1000
    BY <1>1, <2>2 DEF PowersOfTen
  <2> QED BY <1>1, <2>1, <2>2
<1>4. u \in unit /\ \A w \in unit : u <= w
  BY <1>3
<1> HIDE DEF u
<1>5. u \in Nat /\ u # 0
  BY <1>4 DEF PowersOfTen
<1>6. u <= n + u \div 2
  BY <1>1, <1>4, <1>5 DEF PowersOfTen
<1>7. (n + u \div 2) \div u >= 1 /\ (n + u \div 2) \div u \in Nat
  BY <1>5, <1>6
<1> QED BY <1>2, <1>5, <1>7


\* What is read of the written manifest: all of it, with six digits of theta.
ReadsBack(c, m, M) ==
  /\ m.config = M.config /\ m.router = M.router /\ m.tensors = M.tensors
  /\ m.experts = M.experts /\ m.layers = M.layers /\ m.io = M.io
  /\ m.arch = [Architecture(c.config) EXCEPT !.theta = SixDigits(@)]

\* The fields of the architecture, and what reading changes of them.
LEMMA ArchitectureFacts ==
  ASSUME NEW c, Sound(c), NEW a, NEW b, a = Architecture(c.config),
         b = [a EXCEPT !.theta = SixDigits(@)]
  PROVE  /\ a.layers = c.config.layers /\ a.hidden = c.config.hidden
         /\ a.experts = c.config.experts /\ a.topK = c.config.topK
         /\ b.layers = a.layers /\ b.hidden = a.hidden /\ b.experts = a.experts
         /\ b.topK = a.topK /\ b.heads = a.heads /\ b.kvHeads = a.kvHeads
         /\ b.headDim = a.headDim /\ b.projDim = a.projDim /\ b.vocab = a.vocab
         /\ b.tied = a.tied /\ b.theta = SixDigits(a.theta)
         /\ a.tied \in BOOLEAN /\ a.theta \in Nat
         /\ b = [layers |-> a.layers, hidden |-> a.hidden, experts |-> a.experts,
                 topK |-> a.topK, heads |-> a.heads, kvHeads |-> a.kvHeads,
                 headDim |-> a.headDim, projDim |-> a.projDim, vocab |-> a.vocab,
                 tied |-> a.tied, theta |-> SixDigits(a.theta)]
<1> DEFINE f == c.config
           heads == OrDefault(f.heads, 1)
           kvHeads == OrDefault(f.kvHeads, heads)
           headDim == OrDefault(f.headDim, f.hidden \div heads)
           theta == OrDefault(f.theta, 10000)
<1>1. a = [layers |-> f.layers, hidden |-> f.hidden, experts |-> f.experts, topK |-> f.topK,
           heads |-> heads, kvHeads |-> kvHeads, headDim |-> headDim, projDim |-> headDim,
           vocab |-> f.vocab, tied |-> f.tied, theta |-> theta]
  BY DEF Architecture
<1>2. f.tied \in BOOLEAN /\ theta \in Nat
  BY DEF Sound, IsCheckpoint, OrDefault
<1> HIDE DEF f, heads, kvHeads, headDim, theta
<1>3. /\ a.layers = f.layers /\ a.hidden = f.hidden /\ a.experts = f.experts /\ a.topK = f.topK
      /\ a.tied = f.tied /\ a.theta = theta
      /\ b = [layers |-> a.layers, hidden |-> a.hidden, experts |-> a.experts,
              topK |-> a.topK, heads |-> a.heads, kvHeads |-> a.kvHeads,
              headDim |-> a.headDim, projDim |-> a.projDim, vocab |-> a.vocab,
              tied |-> a.tied, theta |-> SixDigits(a.theta)]
  BY <1>1
<1> QED BY <1>2, <1>3 DEF f

\* ModelManifest::load reads what toJson wrote of a packed manifest.
LEMMA JsonFacts ==
  ASSUME NEW c, Sound(c), NEW e, NEW M, Keeps(c, e, M)
  PROVE  Readable(ToJson(M)) /\ ReadsBack(c, FromJson(ToJson(M)), M)
<1> DEFINE a == Architecture(c.config)
           b == [a EXCEPT !.theta = SixDigits(@)]
           j == ArchitectureJson(a)
           doc == ToJson(M)
<1>1. /\ IsRecord(M, ManifestFields) /\ M.arch = a
      /\ M.config.layers = c.config.layers /\ M.config.hidden = c.config.hidden
      /\ M.config.experts = c.config.experts /\ M.router.topK = c.config.topK
  BY DEF Keeps
<1> DEFINE six == SixDigits(a.theta)
<1>2. j = [heads |-> JsonNumber(a.heads), kvHeads |-> JsonString(a.kvHeads),
           headDim |-> JsonString(a.headDim), projDim |-> JsonString(a.projDim),
           vocab |-> JsonString(a.vocab), tied |-> JsonString(a.tied),
           theta |-> JsonString(six)]
  BY DEF ArchitectureJson
<1>3. /\ a.layers = c.config.layers /\ a.hidden = c.config.hidden
      /\ a.experts = c.config.experts /\ a.topK = c.config.topK /\ a.tied \in BOOLEAN
      /\ b = [layers |-> a.layers, hidden |-> a.hidden, experts |-> a.experts,
              topK |-> a.topK, heads |-> a.heads, kvHeads |-> a.kvHeads,
              headDim |-> a.headDim, projDim |-> a.projDim, vocab |-> a.vocab,
              tied |-> a.tied, theta |-> six]
  BY ArchitectureFacts
<1> HIDE DEF a, b, j, six
<1>4. doc = [M EXCEPT !.arch = j]
  BY <1>1 DEF ToJson, j
<1>5. /\ doc.arch = j /\ doc.config = M.config /\ doc.router = M.router
      /\ doc.tensors = M.tensors /\ doc.experts = M.experts /\ doc.layers = M.layers
      /\ doc.io = M.io /\ DOMAIN doc = ManifestFields
  BY <1>1, <1>4 DEF IsRecord, ManifestFields
<1> HIDE DEF doc
<1>6. /\ j.heads.value = a.heads /\ j.kvHeads.value = a.kvHeads /\ j.headDim.value = a.headDim
      /\ j.projDim.value = a.projDim /\ j.vocab.value = a.vocab /\ j.tied.value = a.tied
      /\ j.theta.value = six
  BY <1>2 DEF JsonNumber, JsonString
<1>7. Readable(doc)
  <2>1. IsBool(j.tied)
    BY <1>2, <1>3 DEF JsonString, IsBool
  <2>2. \A v : IsNumber(JsonNumber(v)) /\ IsNumber(JsonString(v))
    BY DEF IsNumber, JsonNumber, JsonString
  <2>3. \A f \in {"heads", "kvHeads", "headDim", "projDim", "vocab", "theta"} : IsNumber(j[f])
    BY <1>2, <2>2
  <2> QED BY <1>5, <2>1, <2>3 DEF Readable
<1>8. FromJson(doc) = [doc EXCEPT !.arch = b]
  <2> DEFINE x == [layers |-> doc.config.layers, hidden |-> doc.config.hidden,
                   experts |-> doc.config.experts, topK |-> doc.router.topK,
                   heads |-> doc.arch.heads.value, kvHeads |-> doc.arch.kvHeads.value,
                   headDim |-> doc.arch.headDim.value, projDim |-> doc.arch.projDim.value,
                   vocab |-> doc.arch.vocab.value, tied |-> doc.arch.tied.value,
                   theta |-> doc.arch.theta.value]
  <2>1. FromJson(doc) = [doc EXCEPT !.arch = x]
    BY DEF FromJson
  <2>2. x = [layers |-> a.layers, hidden |-> a.hidden, experts |-> a.experts,
             topK |-> a.topK, heads |-> a.heads, kvHeads |-> a.kvHeads,
             headDim |-> a.headDim, projDim |-> a.projDim, vocab |-> a.vocab,
             tied |-> a.tied, theta |-> six]
    <3>1. doc.config.layers = a.layers /\ doc.config.hidden = a.hidden
          /\ doc.config.experts = a.experts /\ doc.router.topK = a.topK
      BY <1>1, <1>3, <1>5
    <3>2. /\ doc.arch.heads.value = a.heads /\ doc.arch.kvHeads.value = a.kvHeads
          /\ doc.arch.headDim.value = a.headDim /\ doc.arch.projDim.value = a.projDim
          /\ doc.arch.vocab.value = a.vocab /\ doc.arch.tied.value = a.tied
          /\ doc.arch.theta.value = six
      BY <1>5, <1>6
    <3> QED BY ONLY <3>1, <3>2, Zenon
  <2> HIDE DEF x
  <2>3. x = b
    BY ONLY <1>3, <2>2
  <2> QED BY <2>1, <2>3
<1> DEFINE m == FromJson(doc)
<1>9. /\ m.config = M.config /\ m.router = M.router /\ m.tensors = M.tensors
      /\ m.experts = M.experts /\ m.layers = M.layers /\ m.io = M.io /\ m.arch = b
  <2>1. DOMAIN doc = {"config", "arch", "parameters", "router", "tensors", "experts", "layers", "io"}
    BY <1>5 DEF ManifestFields
  <2>2. /\ m.config = doc.config /\ m.router = doc.router /\ m.tensors = doc.tensors
        /\ m.experts = doc.experts /\ m.layers = doc.layers /\ m.io = doc.io /\ m.arch = b
    BY ONLY <1>8, <2>1, SMT
  <2> QED BY <1>5, <2>2
<1> QED BY <1>7, <1>9 DEF ReadsBack, a, b, doc

\* A manifest that is read back finds the tensors it named, and is as valid.
LEMMA ReadsBackValid ==
  ASSUME NEW c, Sound(c), NEW M, NEW m, M.arch = Architecture(c.config), ReadsBack(c, m, M),
         Validate(M)
  PROVE  Validate(m)
<1> DEFINE a == M.arch
           b == m.arch
<1>1. /\ m.config = M.config /\ m.router = M.router /\ m.tensors = M.tensors
      /\ m.experts = M.experts /\ m.layers = M.layers /\ m.io = M.io
  BY DEF ReadsBack
<1>2. /\ b.layers = a.layers /\ b.hidden = a.hidden /\ b.experts = a.experts
      /\ b.topK = a.topK /\ b.heads = a.heads /\ b.kvHeads = a.kvHeads
      /\ b.headDim = a.headDim /\ b.projDim = a.projDim /\ b.vocab = a.vocab
      /\ b.tied = a.tied /\ b.theta = SixDigits(a.theta) /\ a.theta \in Nat
  BY ArchitectureFacts DEF ReadsBack
<1>3. \A name : /\ Has(m, name) <=> Has(M, name)
                /\ TensorOf(m, name) = TensorOf(M, name)
                /\ \A shape : HasShape(m, name, shape) <=> HasShape(M, name, shape)
  BY <1>1 DEF Has, TensorOf, HasShape
<1> HIDE DEF a, b
<1>4. ValidDimensions(m)
  <2>1. ValidArchitecture(a) /\ a.theta > 0
    BY DEF Validate, ValidDimensions, ValidArchitecture, a
  <2>2. b.theta > 0
    BY <1>2, <2>1, SixDigitsPositive
  <2>3. ValidArchitecture(b)
    BY <1>2, <2>1, <2>2 DEF ValidArchitecture
  <2> QED BY <1>1, <1>2, <2>3 DEF Validate, ValidDimensions, a, b
<1>5. ValidTensors(m) /\ ValidRouter(m)
  BY <1>1, <1>3 DEF Validate, ValidTensors, ValidRouter
<1>6. ValidExperts(m)
  <2>1. \A p : DTypeOf(m, p) = DTypeOf(M, p)
    BY <1>3 DEF DTypeOf
  <2>2. \A p, r : ValidProjection(m, p, r) <=> ValidProjection(M, p, r)
    BY <1>1, <1>3 DEF ValidProjection
  <2>3. RouterLayers(m) = RouterLayers(M)
    BY <1>1 DEF RouterLayers
  <2> DEFINE at(layer) == {x \in Range(M.experts) : x.layer = layer}
             layers == {x.layer : x \in Range(M.experts)}
  <2>4. /\ \A i, j \in DOMAIN M.experts :
             (M.experts[i].layer = M.experts[j].layer
              /\ M.experts[i].expert = M.experts[j].expert) => i = j
        /\ \A x \in Range(M.experts) :
             /\ x.layer < M.config.layers /\ x.expert < M.config.experts
             /\ \A r \in Role : ValidProjection(M, x.at[r], r)
             /\ \A r \in Role : DTypeOf(M, x.at[r]) = DTypeOf(M, x.at["gate"])
        /\ \A l \in layers : Cardinality(at(l)) = M.config.experts
        /\ layers = RouterLayers(M)
        /\ M.config.quantized = \E x \in Range(M.experts) : DTypeOf(M, x.at["gate"]) = "INT8"
    BY DEF Validate, ValidExperts
  <2>5. m.config.quantized = \E x \in Range(M.experts) : DTypeOf(m, x.at["gate"]) = "INT8"
    BY <1>1, <2>1, <2>4
  <2> QED BY <1>1, <2>1, <2>2, <2>3, <2>4, <2>5, Zenon DEF ValidExperts
<1>7. ValidLayers(m)
  <2>1. \A p : AttentionShape(b, p) = AttentionShape(a, p)
    BY <1>2 DEF AttentionShape
  <2>2. ValidLayers(M)
    BY DEF Validate
  <2> QED BY <1>1, <1>2, <1>3, <2>1, <2>2 DEF ValidLayers, a, b
<1>8. ValidModelIO(m)
  <2>1. ValidModelIO(M)
    BY DEF Validate
  <2> QED BY <1>1, <1>2, <1>3, <2>1 DEF ValidModelIO, a, b
<1> QED BY <1>4, <1>5, <1>6, <1>7, <1>8 DEF Validate

-----------------------------------------------------------------------------
(* What the runtime finds by name. *)

\* In a valid manifest a name is the name of one tensor.
LEMMA UniqueTensor ==
  ASSUME NEW m, ValidTensors(m), NEW t \in Range(m.tensors)
  PROVE  Has(m, t.name) /\ TensorOf(m, t.name) = t
<1>1. PICK i \in DOMAIN m.tensors : m.tensors[i] = t
  BY DEF Range
<1>2. \A j \in DOMAIN m.tensors : m.tensors[j].name = t.name => j = i
  BY <1>1 DEF ValidTensors
<1>3. (CHOOSE j \in DOMAIN m.tensors : m.tensors[j].name = t.name) = i
  BY <1>1, <1>2
<1> QED BY <1>1, <1>3 DEF Has, TensorOf

\* A manifest leads to a weight: the tensor of its name has its bytes.
Leads(m, bin, name, weight) ==
  LET t == TensorOf(m, name) IN
  /\ Has(m, name) /\ t.offset \in Nat
  /\ t.size = Len(weight.bytes) /\ t.shape = weight.shape /\ t.dtype = weight.dtype
  /\ InFile(bin, t.offset, t.size) /\ View(bin, t.offset, t.size) = weight.bytes

\* The packed manifest leads to a weight that is held.
LEMMA HeldTensor ==
  ASSUME NEW job, NEW bin, NEW m, ValidTensors(m), NEW item, Holds(job, bin, m.tensors, item)
  PROVE  Leads(m, bin, item.name, Weight(job, item.name, item.layout))
<1> DEFINE weight == Weight(job, item.name, item.layout)
<1>1. PICK offset \in Nat :
        /\ PackedTensor(item.name, offset, weight) \in Range(m.tensors)
        /\ offset + Len(weight.bytes) <= Len(bin)
        /\ View(bin, offset, Len(weight.bytes)) = weight.bytes
  BY DEF Holds
<1> HIDE DEF weight
<1> DEFINE t == PackedTensor(item.name, offset, weight)
<1>2. /\ t.name = item.name /\ t.offset = offset /\ t.size = Len(weight.bytes)
      /\ t.shape = weight.shape /\ t.dtype = weight.dtype
  BY DEF PackedTensor
<1> HIDE DEF t
<1>3. Has(m, item.name) /\ TensorOf(m, item.name) = t
  BY <1>1, <1>2, UniqueTensor DEF t
<1> QED BY <1>1, <1>2, <1>3 DEF weight, InFile, Leads

\* What is held of a name, as the checkpoint has it.
Kept(c, e, F, name) ==
  \E layout : /\ Holds(JobOf(c, e), F.bin, F.pack.manifest.tensors, Item(name, layout))
              /\ IsStaticItem(c, e, Item(name, layout))

\* The items of a list that is held are kept.
LEMMA HeldItems ==
  ASSUME NEW c, NEW e, NEW F, NEW items, AllStatic(c, e, items), HoldsAll(c, e, F, items),
         NEW name, NEW layout, Item(name, layout) \in Range(items)
  PROVE  Kept(c, e, F, name)
BY DEF AllStatic, HoldsAll, Kept

\* A packed layer names the same tensors, its matrices with inputs first.
LEMMA PackedLayerFacts ==
  ASSUME NEW ts, NEW n, NEW l, l = LayerMapping(ts, n)
  PROVE  LET k == PackedLayer(l) IN
         /\ k.layer = n /\ k.qNorm = l.qNorm /\ k.kNorm = l.kNorm /\ k.inputNorm = l.inputNorm
         /\ k.postNorm = l.postNorm /\ k.router = l.router
         /\ \A p \in Attention : /\ k.at[p].tensor = l.at[p].tensor
                                 /\ k.at[p].layout = "INPUT_OUTPUT"
<1> DEFINE at2 == [p \in Attention |-> [tensor |-> l.at[p].tensor, layout |-> "INPUT_OUTPUT"]]
           k == PackedLayer(l)
<1>1. k = [l EXCEPT !.at = at2]
  BY DEF PackedLayer
<1>2. DOMAIN l = {"layer", "at", "qNorm", "kNorm", "inputNorm", "postNorm", "router"}
      /\ l.layer = n
  BY DEF LayerMapping
<1>3. \A p \in Attention : at2[p].tensor = l.at[p].tensor /\ at2[p].layout = "INPUT_OUTPUT"
  OBVIOUS
<1> HIDE DEF at2, k
<1>4. /\ k.layer = n /\ k.qNorm = l.qNorm /\ k.kNorm = l.kNorm /\ k.inputNorm = l.inputNorm
      /\ k.postNorm = l.postNorm /\ k.router = l.router /\ k.at = at2
  BY <1>1, <1>2
<1> QED BY <1>3, <1>4 DEF k

\* So do the packed ends of the model.
LEMMA PackedIOFacts ==
  ASSUME NEW c, Sound(c), NEW io, io = Imported(c).io
  PROVE  /\ (PackedIO(io) = NoIO) = (io = NoIO)
         /\ PackedIO(io).embedding = io.embedding /\ PackedIO(io).norm = io.norm
         /\ PackedIO(io).head.tensor = io.head.tensor
<1>1. CASE io = NoIO \/ io.tied
  BY <1>1 DEF PackedIO
<1>2. CASE io # NoIO /\ ~io.tied
  <2> DEFINE h == [io.head EXCEPT !.layout = "INPUT_OUTPUT"]
             k == PackedIO(io)
  <2>1. /\ io.embedding = Embedding /\ IsRecord(io, {"embedding", "norm", "head", "tied"})
        /\ IsRecord(io.head, {"tensor", "layout"})
    BY <1>2, IOStatic
  <2>2. k = [io EXCEPT !.head = h]
    BY <1>2, <2>1 DEF PackedIO, IsRecord
  <2>3. h.tensor = io.head.tensor
    BY <2>1 DEF IsRecord
  <2> HIDE DEF h, k
  <2>4. k.embedding = io.embedding /\ k.norm = io.norm /\ k.head = h
    BY <2>1, <2>2 DEF IsRecord
  <2>5. NoIO.embedding # Embedding
    BY DEF NoIO, NoName, Name, Embedding
  <2>6. k # NoIO
    BY <2>1, <2>4, <2>5
  <2> QED BY <1>2, <2>3, <2>4, <2>6 DEF k
<1> QED BY <1>1, <1>2

\* A name a valid manifest gives a shape to is not the empty one.
LEMMA ShapedName ==
  ASSUME NEW m, Validate(m), NEW name, NEW shape, HasShape(m, name, shape)
  PROVE  name # NoName
BY DEF Validate, ValidTensors, HasShape, Has

\* Every tensor the runtime asks the packed manifest for is in the package.
LEMMA StaticKept ==
  ASSUME NEW c, Sound(c), NEW e, NEW F, FinalOK(c, e, F), Validate(F.pack.manifest),
         F.pack.manifest.io # NoIO, NEW name \in StaticNames(F.pack.manifest)
  PROVE  Kept(c, e, F, name)
<1> DEFINE m == Imported(c)
           M == F.pack.manifest
<1>1. /\ HoldsAll(c, e, F, RouterItems(m.router)) /\ HoldsAll(c, e, F, AllLayerItems(m.layers))
      /\ HoldsAll(c, e, F, IOItems(m.io)) /\ M.router.tensors = m.router.tensors
      /\ M.layers = [i \in DOMAIN m.layers |-> PackedLayer(m.layers[i])]
      /\ M.io = PackedIO(m.io)
  BY DEF FinalOK
<1>2. ImportedShape(c, m)
  BY ImportedFacts DEF Sound
<1>3. /\ AllStatic(c, e, RouterItems(m.router)) /\ AllStatic(c, e, AllLayerItems(m.layers))
      /\ AllStatic(c, e, IOItems(m.io))
  BY RoutersStatic, LayersStatic, IOStatic
<1>4. \A l \in Range(m.layers) :
        /\ \A p \in Attention : Item(l.at[p].tensor, l.at[p].layout) \in Range(AllLayerItems(m.layers))
        /\ \A x \in {l.qNorm, l.kNorm, l.inputNorm, l.postNorm} \ {NoName} :
             Item(x, "") \in Range(AllLayerItems(m.layers))
  <2> SUFFICES ASSUME NEW l \in Range(m.layers)
               PROVE  /\ \A p \in Attention :
                           Item(l.at[p].tensor, l.at[p].layout) \in Range(AllLayerItems(m.layers))
                      /\ \A x \in {l.qNorm, l.kNorm, l.inputNorm, l.postNorm} \ {NoName} :
                           Item(x, "") \in Range(AllLayerItems(m.layers))
    OBVIOUS
  <2>1. Range(LayerItems(l)) \subseteq Range(AllLayerItems(m.layers))
    BY <1>2, LayersItems DEF ImportedShape
  <2>2. Range(LayerItems(l))
          = {Item(l.at[p].tensor, l.at[p].layout) : p \in Attention}
              \cup {Item(x, "") : x \in {l.qNorm, l.kNorm, l.inputNorm, l.postNorm} \ {NoName}}
    BY LayerItemsFacts
  <2> HIDE DEF m
  <2> QED BY <2>1, <2>2
<1>5. CASE name \in {M.io.embedding, M.io.norm, M.io.head.tensor}
  <2>1. /\ m.io # NoIO /\ M.io.embedding = m.io.embedding /\ M.io.norm = m.io.norm
        /\ M.io.head.tensor = m.io.head.tensor
    BY <1>1, PackedIOFacts
  <2>2. \E layout : Item(name, layout) \in Range(IOItems(m.io))
    BY <1>5, <2>1, IOStatic
  <2> HIDE DEF m
  <2> QED BY <1>1, <1>3, <2>2, HeldItems
<1>6. CASE \E k \in Range(M.layers) :
             name \in {k.at[p].tensor : p \in Attention} \cup {k.inputNorm, k.postNorm, k.router}
                        \cup ({k.qNorm, k.kNorm} \ {NoName})
  <2>1. PICK k \in Range(M.layers) :
             name \in {k.at[p].tensor : p \in Attention} \cup {k.inputNorm, k.postNorm, k.router}
                        \cup ({k.qNorm, k.kNorm} \ {NoName})
    BY <1>6
  <2>2. PICK i \in DOMAIN m.layers : k = PackedLayer(m.layers[i])
    BY <1>1, <2>1 DEF Range
  <2> DEFINE l == m.layers[i]
  <2>3. l \in Range(m.layers) /\ l = LayerMapping(Tensors(c), i - 1)
    BY <1>2, <2>2 DEF Range, ImportedShape
  <2>4. /\ k.qNorm = l.qNorm /\ k.kNorm = l.kNorm /\ k.inputNorm = l.inputNorm
        /\ k.postNorm = l.postNorm /\ \A p \in Attention : k.at[p].tensor = l.at[p].tensor
    BY <2>2, <2>3, PackedLayerFacts
  <2>5. /\ k.inputNorm # NoName /\ k.postNorm # NoName
        /\ [layer |-> k.layer, name |-> k.router] \in Range(m.router.tensors)
    <3>1. M.layers # <<>>
      <4>1. M.layers = <<>> => DOMAIN M.layers = {}
        OBVIOUS
      <4> QED BY <2>1, <4>1 DEF Range
    <3>2. /\ HasShape(M, k.inputNorm, <<M.arch.hidden>>) /\ HasShape(M, k.postNorm, <<M.arch.hidden>>)
          /\ [layer |-> k.layer, name |-> k.router] \in Range(M.router.tensors)
      BY <2>1, <3>1 DEF Validate, ValidLayers
    <3> QED BY <1>1, <3>2, ShapedName
  <2> HIDE DEF l, m
  <2>6. CASE name = k.router
    <3>1. Item(name, "OUTPUT_INPUT") \in Range(RouterItems(m.router))
      <4>1. [layer |-> k.layer, name |-> k.router].name = name
        BY <2>6
      <4> QED BY <2>5, <4>1, RoutersStatic DEF m
    <3> QED BY <1>1, <1>3, <3>1, HeldItems
  <2>7. CASE name # k.router
    <3>1. \E layout : Item(name, layout) \in Range(AllLayerItems(m.layers))
      BY <1>4, <2>1, <2>3, <2>4, <2>5, <2>7
    <3> QED BY <1>1, <1>3, <3>1, HeldItems
  <2> QED BY <2>6, <2>7
<1>7. \/ name \in {M.io.embedding, M.io.norm, M.io.head.tensor}
      \/ name \in UNION {{k.at[p].tensor : p \in Attention} \cup {k.inputNorm, k.postNorm, k.router}
                            \cup ({k.qNorm, k.kNorm} \ {NoName}) : k \in Range(M.layers)}
  BY DEF StaticNames
<1> HIDE DEF M
<1> QED BY <1>5, <1>6, <1>7, Zenon

\* So the runtime finds every tensor, inside the file and with the weight's bytes.
LEMMA StaticFound ==
  ASSUME NEW c, Sound(c), NEW e, NEW F, FinalOK(c, e, F), Validate(F.pack.manifest),
         F.pack.manifest.io # NoIO, NEW m, ReadsBack(c, m, F.pack.manifest),
         NEW name \in StaticNames(m)
  PROVE  \E weight : IsStatic(name, weight) /\ Leads(m, F.bin, name, weight)
<1> DEFINE M == F.pack.manifest
<1>1. /\ m.layers = M.layers /\ m.io = M.io /\ m.tensors = M.tensors
  BY DEF ReadsBack
<1>2. StaticNames(m) = StaticNames(M)
  BY <1>1 DEF StaticNames
<1>3. Kept(c, e, F, name)
  BY <1>2, StaticKept
<1>4. PICK layout : /\ Holds(JobOf(c, e), F.bin, M.tensors, Item(name, layout))
                    /\ IsStaticItem(c, e, Item(name, layout))
  BY <1>3 DEF Kept
<1> DEFINE item == Item(name, layout)
           job == JobOf(c, e)
<1>5. item.name = name
  BY DEF Item
<1>6. ValidTensors(m)
  BY <1>1 DEF Validate, ValidTensors, ReadsBack
<1>7. Holds(job, F.bin, m.tensors, item)
  BY <1>1, <1>4
<1>8. IsStatic(name, Weight(job, name, item.layout))
  BY <1>4, <1>5 DEF IsStaticItem
<1> HIDE DEF item, job
<1>9. Leads(m, F.bin, name, Weight(job, name, item.layout))
  BY <1>5, <1>6, <1>7, HeldTensor
<1> QED BY <1>8, <1>9

\* The manifest of the package binds every layer and the ends of the model.
LEMMA PackageBinds ==
  ASSUME NEW c, Sound(c), NEW e, NEW F, FinalOK(c, e, F), Validate(F.pack.manifest),
         F.pack.manifest.io # NoIO, NEW m, ReadsBack(c, m, F.pack.manifest), Validate(m),
         Len(Imported(c).layers) = c.config.layers
  PROVE  Binds(m) /\ Len(m.layers) = m.arch.layers
<1> DEFINE M == F.pack.manifest
           ls == Imported(c).layers
           n == c.config.layers
<1>1. m.layers = M.layers /\ m.io = M.io /\ m.experts = M.experts
  BY DEF ReadsBack
<1>2. m.arch.layers = n
  <2>1. m.arch = [Architecture(c.config) EXCEPT !.theta = SixDigits(@)]
    BY DEF ReadsBack
  <2> QED BY <2>1, ArchitectureFacts
<1>3. n \in Nat /\ n # 0
  BY DEF Sound, IsCheckpoint, Imports, ConfigImports
<1>4. /\ IsSeq(ls) /\ DOMAIN ls = 1..n
      /\ \A i \in DOMAIN ls : ls[i] = LayerMapping(Tensors(c), i - 1)
  <2>1. IsSeq(ls) /\ \A i \in DOMAIN ls : ls[i] = LayerMapping(Tensors(c), i - 1)
    BY ImportedFacts DEF Sound, ImportedShape
  <2>2. DOMAIN ls = 1..Len(ls)
    BY <2>1, SeqFacts
  <2> QED BY <2>1, <2>2
<1>5. M.layers = [i \in 1..n |-> PackedLayer(ls[i])]
  BY <1>4 DEF FinalOK
<1> HIDE DEF M, ls, n
<1>6. IsSeq(m.layers) /\ Len(m.layers) = n
  BY <1>1, <1>3, <1>5, FunctionIsSeq
<1>7. BindsExperts(m)
  BY DEF BindsExperts, Validate, ValidExperts, ValidProjection
<1>8. m.layers # <<>>
  BY <1>3, <1>6, SeqFacts
<1>9. \A k \in Range(m.layers) : (k.qNorm = NoName) = (k.kNorm = NoName)
  BY <1>8 DEF Validate, ValidLayers
<1>10. BindsLayers(m)
  <2> SUFFICES ASSUME NEW i \in 0..(n - 1)
               PROVE  \E l \in Range(m.layers) :
                        /\ l.layer = i
                        /\ \A p \in Attention : l.at[p].layout = "INPUT_OUTPUT"
                        /\ (l.qNorm = NoName) = (l.kNorm = NoName)
    BY <1>2, <1>6 DEF BindsLayers
  <2> DEFINE k == PackedLayer(ls[i + 1])
  <2>1. i + 1 \in 1..n /\ (i + 1) - 1 = i
    BY <1>3
  <2>2. k \in Range(m.layers)
    <3>1. i + 1 \in DOMAIN m.layers /\ m.layers[i + 1] = k
      BY <1>1, <1>5, <2>1
    <3> QED BY <3>1 DEF Range
  <2>3. ls[i + 1] = LayerMapping(Tensors(c), i)
    BY <1>4, <2>1
  <2>4. k.layer = i /\ \A p \in Attention : k.at[p].layout = "INPUT_OUTPUT"
    BY <2>3, PackedLayerFacts
  <2> HIDE DEF k
  <2> QED BY <1>9, <2>2, <2>4
<1>11. BindsIO(m)
  BY <1>1 DEF BindsIO, Validate, ValidModelIO, M
<1> QED BY <1>2, <1>6, <1>7, <1>10, <1>11 DEF Binds

\* A conversion of a complete model that returned has left a directory that
\* PackedModelRuntime's constructor can open, if the manifest reached the disk.
THEOREM OpensCorrect == Spec => []ConvertedOpens
<1>1. IndInv /\ Content => ConvertedOpens
  <2> SUFFICES ASSUME IndInv, Content, conv.pc = "done", tool = "real", ~ck.config.shared,
                      dir.manifest.state = "whole"
               PROVE  /\ ManifestOpens(dir.manifest)
                      /\ StaticLoads(FromJson(dir.manifest.data), dir.bin.data)
                      /\ Binds(FromJson(dir.manifest.data))
                      /\ StoreOpens(dir.index, dir.bin.data, dir.manifest)
    BY DEF ConvertedOpens
  <2> DEFINE F == Target
             M == F.pack.manifest
             m == FromJson(dir.manifest.data)
             s == Imported(ck)
  <2>1. /\ LoaderLoads(ck) /\ Sound(ck)
    BY ImportedIsSound DEF Content, FromCheckpoint
  <2>2. Verified /\ dir.bin.state = "whole"
    BY DEF IndInv, Written
  <2>3. /\ dir.bin.data = F.bin /\ dir.manifest.data = ToJson(M) /\ Validate(M)
    BY <2>2 DEF Content, FilesOf
  <2>4. FinalOK(ck, encoding, F)
    BY <2>1, FinalFacts DEF Target
  <2>5. Keeps(ck, encoding, M)
    BY <2>4 DEF FinalOK, StageOK
  <2>6. /\ Readable(dir.manifest.data) /\ ReadsBack(ck, m, M)
    BY <2>1, <2>3, <2>5, JsonFacts
  <2>7. Validate(m)
    BY <2>1, <2>3, <2>5, <2>6, ReadsBackValid DEF Keeps
  <2>8. s.io # NoIO /\ Len(s.layers) = ck.config.layers
    <3>1. s.io # NoIO /\ Len(s.layers) = s.arch.layers
      BY <2>1 DEF LoaderLoads
    <3>2. s.arch = Architecture(ck.config)
      BY <2>1, ImportedFacts DEF Sound, ImportedShape
    <3>3. s.arch.layers = ck.config.layers
      BY <3>2 DEF Architecture
    <3> QED BY <3>1, <3>3
  <2>9. M.io # NoIO
    BY <2>1, <2>4, <2>8, PackedIOFacts DEF FinalOK
  <2> HIDE DEF F
  <2>10. Binds(m) /\ Len(m.layers) = m.arch.layers
    BY <2>1, <2>3, <2>4, <2>6, <2>7, <2>8, <2>9, PackageBinds
  <2>11. /\ m.config = M.config /\ m.experts = M.experts /\ m.io = M.io
    BY <2>6 DEF ReadsBack
  <2>12. m.experts # <<>> /\ ~m.config.shared
    <3>1. m.config.shared = ck.config.shared
      BY <2>5, <2>11 DEF Keeps
    <3> QED BY <2>7, <3>1 DEF Validate, ValidTensors
  <2>13. ManifestOpens(dir.manifest)
    BY <2>6, <2>7, <2>9, <2>10, <2>11, <2>12 DEF ManifestOpens, Parses, Loads
  <2>14. StoreOpens(dir.index, dir.bin.data, dir.manifest)
    BY <2>2 DEF Verified
  <2>15. StaticLoads(m, dir.bin.data)
    <3>1. dir.bin.data # <<>>
      BY <2>14 DEF StoreOpens
    <3>2. ASSUME NEW name \in StaticNames(m)
          PROVE  Has(m, name) /\ InFile(F.bin, TensorOf(m, name).offset, TensorOf(m, name).size)
      BY <2>1, <2>3, <2>4, <2>6, <2>9, <3>2, StaticFound DEF Leads
    <3> QED BY <2>3, <3>1, <3>2 DEF StaticLoads
  <2> QED BY <2>10, <2>13, <2>14, <2>15
<1> QED BY <1>1, Invariance, ContentInvariance, PTL

-----------------------------------------------------------------------------
(* What the runtime computes with. *)

\* The bytes of a static tensor are the checkpoint's elements.
HasElements(bytes, shape, dtype, size, name) ==
  IF Len(shape) = 1 \/ name = Embedding
  THEN bytes = [n \in 1..size |-> Cell(name, n - 1)]
  ELSE HasMatrix(bytes, shape, dtype, name, LAMBDA o, i : o * shape[1] + i)

\* A static tensor the runtime reads has the checkpoint's elements.
LEMMA StaticElements ==
  ASSUME NEW name, NEW weight, IsStatic(name, weight)
  PROVE  HasElements(weight.bytes, weight.shape, weight.dtype, Len(weight.bytes), name)
<1>1. CASE /\ Len(weight.shape) = 1 \/ name = Embedding
           /\ weight.bytes = Run(name, 0, Len(weight.bytes))
  <2>1. Len(weight.bytes) \in Nat
    BY SeqFacts DEF IsStatic
  <2>2. Run(name, 0, Len(weight.bytes)) = [n \in 1..Len(weight.bytes) |-> Cell(name, n - 1)]
    <3>1. \A n \in 1..Len(weight.bytes) : 0 + n - 1 = n - 1
      BY <2>1
    <3> QED BY <3>1 DEF Run
  <2> QED BY <1>1, <2>2 DEF HasElements
<1>2. CASE /\ name # Embedding
           /\ \E O \in Nat, I \in Nat : IsElementwise(weight, O, I, name, 0)
  <2>1. PICK O \in Nat, I \in Nat : IsElementwise(weight, O, I, name, 0)
    BY <1>2
  <2> DEFINE w == SizeOf(weight.dtype)
  <2>2. /\ weight.shape = <<I, O>>
        /\ \A i \in 0..(I - 1), o \in 0..(O - 1) :
             View(weight.bytes, (i * O + o) * w, w)
               = ElementBytes(name, 0 + (o * I + i), weight.dtype)
    BY <2>1 DEF IsElementwise
  <2>3. weight.shape[1] = I /\ weight.shape[2] = O /\ Len(weight.shape) # 1
    BY <2>2
  <2> HIDE DEF w
  <2>4. ASSUME NEW i \in 0..(I - 1), NEW o \in 0..(O - 1)
        PROVE  View(weight.bytes, (i * O + o) * w, w) = ElementBytes(name, o * I + i, weight.dtype)
    <3>1. 0 + (o * I + i) = o * I + i
      OBVIOUS
    <3> QED BY <2>2, <3>1
  <2> QED BY <1>2, <2>3, <2>4 DEF HasElements, HasMatrix, w
<1> QED BY <1>1, <1>2 DEF IsStatic

\* So has every static tensor of the runtime.
LEMMA StaticFaithful ==
  ASSUME NEW c, Sound(c), NEW e, NEW F, FinalOK(c, e, F), Validate(F.pack.manifest),
         F.pack.manifest.io # NoIO, NEW m, ReadsBack(c, m, F.pack.manifest),
         NEW bin, Extends(bin, F.bin), StaticLoads(m, bin)
  PROVE  StaticIsFaithful(m, bin)
<1> SUFFICES ASSUME NEW name \in StaticNames(m)
             PROVE  LET t == TensorOf(m, name)
                    IN  HasElements(View(bin, t.offset, t.size), t.shape, t.dtype, t.size, name)
  BY DEF StaticIsFaithful, HasElements
<1> DEFINE t == TensorOf(m, name)
<1>1. PICK weight : IsStatic(name, weight) /\ Leads(m, F.bin, name, weight)
  BY StaticFound
<1>2. /\ t.offset \in Nat /\ t.size = Len(weight.bytes) /\ t.shape = weight.shape
      /\ t.dtype = weight.dtype /\ View(F.bin, t.offset, t.size) = weight.bytes
  BY <1>1 DEF Leads
<1>3. t.offset + t.size <= Len(bin)
  BY DEF StaticLoads, InFile
<1>4. t.size \in Nat
  BY <1>1, <1>2, SeqFacts DEF IsStatic
<1> HIDE DEF t
<1>5. View(bin, t.offset, t.size) = weight.bytes
  BY <1>2, <1>3, <1>4, ExtendsView
<1>6. HasElements(weight.bytes, weight.shape, weight.dtype, Len(weight.bytes), name)
  BY <1>1, StaticElements
<1>7. HasElements(View(bin, t.offset, t.size), t.shape, t.dtype, t.size, name)
  BY <1>2, <1>5, <1>6
<1> QED BY <1>7 DEF t

-----------------------------------------------------------------------------
(* The experts. *)

\* A part of what was put together is what was put there.
LEMMA CatView ==
  ASSUME NEW s, NEW t, IsSeq(s), IsSeq(t)
  PROVE  View(Cat(s, t), 0, Len(s)) = s /\ View(Cat(s, t), Len(s), Len(t)) = t
<1> DEFINE u == Cat(s, t)
<1>1. IsSeq(u) /\ Len(u) = Len(s) + Len(t)
  BY ConcatFacts
<1>2. /\ Len(s) \in Nat /\ Len(t) \in Nat
      /\ s = [i \in 1..Len(s) |-> s[i]] /\ t = [i \in 1..Len(t) |-> t[i]]
  BY SeqFacts
<1>3. \A i \in 1..Len(s) : u[i] = s[i]
  BY ConcatFacts
<1>4. \A i \in 1..Len(t) : u[Len(s) + i] = t[i]
  BY ConcatFacts
<1> HIDE DEF u
<1>5. View(u, 0, Len(s)) = s
  <2>1. View(u, 0, Len(s)) = Part(u, 0, Len(s))
    <3>1. 0 \in Nat /\ 0 + Len(s) <= Len(u)
      BY <1>1, <1>2
    <3> QED BY <1>1, <1>2, <3>1, ViewFacts
  <2>2. Part(u, 0, Len(s)) = [i \in 1..Len(s) |-> s[i]]
    <3>1. \A i \in 1..Len(s) : u[0 + i] = s[i]
      BY <1>2, <1>3
    <3> QED BY <3>1 DEF Part
  <2> QED BY <1>2, <2>1, <2>2
<1>6. View(u, Len(s), Len(t)) = t
  <2>1. View(u, Len(s), Len(t)) = Part(u, Len(s), Len(t))
    BY <1>1, <1>2, ViewFacts
  <2>2. Part(u, Len(s), Len(t)) = [i \in 1..Len(t) |-> t[i]]
    BY <1>4 DEF Part
  <2> QED BY <1>2, <2>1, <2>2
<1> QED BY <1>5, <1>6 DEF u

\* The three projections are where the manifest says, in the payload of their expert.
LEMMA PayloadViews ==
  ASSUME NEW g, NEW u, NEW d, IsSeq(g), IsSeq(u), IsSeq(d),
         NEW payload, payload = Cat(Cat(g, u), d)
  PROVE  /\ View(payload, 0, Len(g)) = g /\ View(payload, Len(g), Len(u)) = u
         /\ View(payload, Len(g) + Len(u), Len(d)) = d
<1> DEFINE gu == Cat(g, u)
           all == Cat(gu, d)
<1>1. IsSeq(gu) /\ Len(gu) = Len(g) + Len(u) /\ Len(g) \in Nat /\ Len(u) \in Nat
  BY ConcatFacts, SeqFacts
<1>2. View(gu, 0, Len(g)) = g /\ View(gu, Len(g), Len(u)) = u
  BY CatView
<1> HIDE DEF gu
<1>3. View(all, Len(g) + Len(u), Len(d)) = d
  BY <1>1, CatView
<1>4. Extends(gu, all)
  BY <1>1, ExtendsFacts
<1> HIDE DEF all
<1>5. View(all, 0, Len(g)) = View(gu, 0, Len(g)) /\ View(all, Len(g), Len(u)) = View(gu, Len(g), Len(u))
  BY <1>1, <1>4, ExtendsView
<1> QED BY <1>2, <1>3, <1>5 DEF gu, all

\* In a valid manifest a layer and a number are one expert's.
LEMMA ExpertFound ==
  ASSUME NEW m, ValidExperts(m), NEW j \in DOMAIN m.experts
  PROVE  ExpertOf(m, m.experts[j].layer, m.experts[j].expert) = m.experts[j]
<1>1. \A i \in DOMAIN m.experts :
        (m.experts[i].layer = m.experts[j].layer /\ m.experts[i].expert = m.experts[j].expert)
          => i = j
  BY DEF ValidExperts
<1>2. (CHOOSE i \in DOMAIN m.experts :
         m.experts[i].layer = m.experts[j].layer /\ m.experts[i].expert = m.experts[j].expert) = j
  BY <1>1
<1> QED BY <1>2 DEF ExpertOf

\* Where the packed manifest says a projection is.
Placed(p, r, start, g, u, weight) ==
  /\ p.offset = CASE r = "gate" -> start [] r = "up" -> start + Len(g)
                  [] r = "down" -> start + Len(g) + Len(u)
  /\ p.size = Len(weight.bytes) /\ p.shape = weight.shape

\* ExpertPacker places the projections one after the other from the start of the expert.
LEMMA PackedPlaces ==
  ASSUME NEW job, NEW x, NEW start, NEW r \in Role
  PROVE  /\ Placed(ExpertMapping(x, PackedProjections(job, x, start)).at[r], r, start,
                   Encoded(job, x.at["gate"]).bytes, Encoded(job, x.at["up"]).bytes,
                   Encoded(job, x.at[r]))
         /\ PackedProjections(job, x, start)[r].dtype = Encoded(job, x.at[r]).dtype
<1> DEFINE W == [q \in Role |-> Encoded(job, x.at[q])]
           at == PackedProjections(job, x, start)
           t == at[r]
<1>1. /\ W["gate"] = Encoded(job, x.at["gate"]) /\ W["up"] = Encoded(job, x.at["up"])
      /\ W[r] = Encoded(job, x.at[r])
  BY DEF Role
<1> DEFINE offset == CASE r = "gate" -> start [] r = "up" -> start + Len(W["gate"].bytes)
                       [] r = "down" -> start + Len(W["gate"].bytes) + Len(W["up"].bytes)
<1>2. t = PackedTensor(Name("expert", x.layer, x.expert, r), offset, W[r])
  BY DEF PackedProjections
<1> HIDE DEF W, offset
<1>3. /\ t.offset = offset /\ t.size = Len(W[r].bytes)
      /\ t.shape = W[r].shape /\ t.dtype = W[r].dtype
  BY <1>2 DEF PackedTensor
<1>4. ExpertMapping(x, at).at[r] = PackedLocation(t)
  BY DEF ExpertMapping
<1> HIDE DEF at, t
<1>5. /\ PackedLocation(t).offset = t.offset /\ PackedLocation(t).size = t.size
      /\ PackedLocation(t).shape = t.shape
  BY DEF PackedLocation
<1>6. Placed(PackedLocation(t), r, start, W["gate"].bytes, W["up"].bytes, W[r])
  BY <1>3, <1>5 DEF Placed, offset
<1> QED BY <1>1, <1>3, <1>4, <1>6 DEF at, t

\* The element of the source that maps an input to an output, counted from where its
\* projection begins.
LEMMA SourceElements ==
  ASSUME Sound(ck), NEW l, NEW x \in Nat, NEW r \in Role, NEW o \in Nat, NEW i \in Nat
  PROVE  /\ SourceOf(l, x, r) = HomeOf(ck, l, x, r)
         /\ SourceElement(l, x, r, o, i) = BaseOf(ck, l, x, r) + (o * Columns(ck, r) + i)
<1> DEFINE R == Rows(ck, r)
           C == Columns(ck, r)
<1>1. R \in Nat /\ C \in Nat
  BY HomeTypes
<1>2. SourceOf(l, x, r) = HomeOf(ck, l, x, r)
  BY DEF SourceOf, HomeOf
<1>3. SourceElement(l, x, r, o, i)
        = IF l \notin FusedLayers(Tensors(ck)) THEN o * C + i
          ELSE CASE r = "gate" -> (x * 2 * R + o) * C + i
                 [] r = "up" -> (x * 2 * R + R + o) * C + i
                 [] r = "down" -> (x * R + o) * C + i
  BY DEF SourceElement, Rows, Columns
<1>4. BaseOf(ck, l, x, r)
        = IF l \notin FusedLayers(Tensors(ck)) THEN 0
          ELSE CASE r = "gate" -> (x * 2 * R) * C
                 [] r = "up" -> (x * 2 * R + R) * C
                 [] r = "down" -> (x * R) * C
  BY DEF BaseOf
<1> HIDE DEF R, C
<1>5. \A a \in Nat : (a + o) * C + i = a * C + (o * C + i)
  BY <1>1
<1>6. x * 2 * R \in Nat /\ x * 2 * R + R \in Nat /\ x * R \in Nat /\ o * C + i \in Nat
  BY <1>1
<1>7. /\ (x * 2 * R + o) * C + i = (x * 2 * R) * C + (o * C + i)
      /\ (x * 2 * R + R + o) * C + i = (x * 2 * R + R) * C + (o * C + i)
      /\ (x * R + o) * C + i = (x * R) * C + (o * C + i)
  BY <1>5, <1>6
<1> QED BY <1>2, <1>3, <1>4, <1>6, <1>7 DEF C, Role

\* The payload of an expert, seen through the manifest, has the checkpoint's elements.
LEMMA LoadedFaithful ==
  ASSUME Sound(ck), NEW e, NEW F, FinalOK(ck, e, F), NEW m, ReadsBack(ck, m, F.pack.manifest),
         Validate(m), NEW loaded, loaded.record \in Range(F.pack.records),
         loaded.bytes = loaded.record.checksum
  PROVE  LoadedIsFaithful(m, loaded)
<1> DEFINE job == JobOf(ck, e)
           M == F.pack.manifest
           N == Len(Imported(ck).experts)
<1>1. /\ IsSeq(F.pack.records) /\ Len(F.pack.records) = N
      /\ IsSeq(M.experts) /\ Len(M.experts) = N
      /\ \A j \in 1..N : Recorded(job, F.pack, j)
  BY DEF FinalOK, StageOK
<1>2. PICK j \in 1..N : loaded.record = F.pack.records[j]
  <2>1. DOMAIN F.pack.records = 1..N
    BY <1>1, SeqFacts
  <2> HIDE DEF N
  <2> QED BY <2>1 DEF Range
<1> DEFINE x == Imported(ck).experts[j]
<1>3. PICK start \in Nat :
        /\ F.pack.records[j] = ExpertRecord(job, x, start, PackedProjections(job, x, start))
        /\ M.experts[j] = ExpertMapping(x, PackedProjections(job, x, start))
  <2>1. job.manifest.experts[j] = x
    BY DEF JobOf
  <2> HIDE DEF job, x, N
  <2> QED BY <1>1, <1>2, <2>1 DEF Recorded
<1>4. /\ x.expert \in Nat /\ \A r \in Role : EncodedAs(ck, e, x, r)
  <2>1. ck.config.experts \in Nat
    BY DEF Sound, IsCheckpoint
  <2>2. j \in DOMAIN Imported(ck).experts
    <3>1. IsSeq(Imported(ck).experts)
      BY ImportedFacts DEF Sound, ImportedShape
    <3> QED BY <1>2, <3>1, SeqFacts
  <2>3. x.expert \in 0..(ck.config.experts - 1) /\ \A r \in Role : EncodedAs(ck, e, x, r)
    BY <2>2, ExpertWeights
  <2> HIDE DEF x
  <2> QED BY <2>1, <2>3
<1> DEFINE W(r) == Encoded(job, x.at[r])
           g == W("gate").bytes
           u == W("up").bytes
           d == W("down").bytes
           at == PackedProjections(job, x, start)
           dtype == W("gate").dtype
<1>5. /\ \A r \in Role : /\ W(r).dtype = dtype
                         /\ IsElementwise(W(r), Rows(ck, r), Columns(ck, r),
                                          HomeOf(ck, x.layer, x.expert, r),
                                          BaseOf(ck, x.layer, x.expert, r))
      /\ IsSeq(g) /\ IsSeq(u) /\ IsSeq(d)
  <2>1. "gate" \in Role /\ "up" \in Role /\ "down" \in Role
    BY DEF Role
  <2> HIDE DEF x
  <2> QED BY <1>4, <2>1 DEF EncodedAs
<1> HIDE DEF job
<1>6. /\ loaded.record.layer = x.layer /\ loaded.record.expert = x.expert
      /\ loaded.record.offset = start /\ loaded.record.dtype = dtype
      /\ loaded.bytes = Cat(Cat(g, u), d)
  <2>1. at["gate"].dtype = dtype
    BY PackedPlaces DEF Role
  <2>2. ExpertBytes(job, x) = Cat(Cat(g, u), d)
    BY DEF ExpertBytes, Cat
  <2> HIDE DEF x, at, g, u, d, dtype
  <2>3. /\ loaded.record.layer = x.layer /\ loaded.record.expert = x.expert
        /\ loaded.record.offset = start /\ loaded.record.dtype = at["gate"].dtype
        /\ loaded.record.checksum = ExpertBytes(job, x)
    BY <1>2, <1>3 DEF ExpertRecord, at
  <2> QED BY <2>1, <2>2, <2>3
<1>7. ExpertOf(m, x.layer, x.expert) = ExpertMapping(x, at)
  <2>1. m.experts = M.experts /\ ValidExperts(m)
    BY DEF ReadsBack, Validate
  <2>2. j \in DOMAIN m.experts
    BY <1>1, <1>2, <2>1, SeqFacts
  <2>3. m.experts[j] = ExpertMapping(x, at)
    BY <1>3, <2>1
  <2> HIDE DEF x, at
  <2>4. m.experts[j].layer = x.layer /\ m.experts[j].expert = x.expert
    BY <2>3 DEF ExpertMapping
  <2> QED BY <2>1, <2>2, <2>3, <2>4, ExpertFound
<1> HIDE DEF x
<1> DEFINE P(r) == ExpertMapping(x, at).at[r]
           Faithful(r) ==
             \A i \in 0..(P(r).shape[1] - 1), o \in 0..(P(r).shape[2] - 1) :
               View(View(loaded.bytes, P(r).offset - start, P(r).size),
                    (i * P(r).shape[2] + o) * SizeOf(dtype), SizeOf(dtype))
                 = ElementBytes(SourceOf(x.layer, x.expert, r),
                                SourceElement(x.layer, x.expert, r, o, i), dtype)
<1> HIDE DEF dtype, at
<1>8. LoadedIsFaithful(m, loaded) <=> \A r \in Role : Faithful(r)
  BY <1>6, <1>7 DEF LoadedIsFaithful, ExpertView, HasMatrix
<1> SUFFICES ASSUME NEW r \in Role PROVE Faithful(r)
  BY <1>8
<1> DEFINE p == P(r)
           O == Rows(ck, r)
           I == Columns(ck, r)
           w == SizeOf(dtype)
<1>9. Placed(p, r, start, g, u, W(r))
  BY PackedPlaces DEF at
<1> HIDE DEF p
<1>10. View(loaded.bytes, p.offset - start, p.size) = W(r).bytes
  <2>1. Len(g) \in Nat /\ Len(u) \in Nat
    BY <1>5, SeqFacts
  <2>2. /\ View(loaded.bytes, 0, Len(g)) = g /\ View(loaded.bytes, Len(g), Len(u)) = u
        /\ View(loaded.bytes, Len(g) + Len(u), Len(d)) = d
    <3> HIDE DEF g, u, d
    <3> QED BY <1>5, <1>6, PayloadViews
  <2>3. p.size = Len(W(r).bytes)
    BY <1>9 DEF Placed
  <2>4. /\ r = "gate" => p.offset = start
        /\ r = "up" => p.offset = start + Len(g)
        /\ r = "down" => p.offset = start + Len(g) + Len(u)
    BY <1>9 DEF Placed
  <2>5. CASE r = "gate"
    <3>1. p.offset - start = 0
      BY <2>4, <2>5
    <3> QED BY <2>2, <2>3, <2>5, <3>1
  <2>6. CASE r = "up"
    <3>1. p.offset - start = Len(g)
      BY <2>1, <2>4, <2>6
    <3> QED BY <2>2, <2>3, <2>6, <3>1
  <2>7. CASE r = "down"
    <3>1. p.offset - start = Len(g) + Len(u)
      <4> HIDE DEF g, u
      <4> QED BY <2>1, <2>4, <2>7
    <3> QED BY <2>2, <2>3, <2>7, <3>1
  <2> QED BY <2>5, <2>6, <2>7 DEF Role
<1>11. /\ W(r).shape = <<I, O>> /\ W(r).dtype = dtype
       /\ \A i \in 0..(I - 1), o \in 0..(O - 1) :
            View(W(r).bytes, (i * O + o) * w, w)
              = ElementBytes(HomeOf(ck, x.layer, x.expert, r),
                             BaseOf(ck, x.layer, x.expert, r) + (o * I + i), dtype)
  BY <1>5 DEF IsElementwise
<1>12. O \in Nat /\ I \in Nat
  BY <1>4, HomeTypes
<1> HIDE DEF W, O, I, w, dtype
<1>13. p.shape[1] = I /\ p.shape[2] = O
  BY <1>11, <1>9 DEF Placed
<1>14. ASSUME NEW i \in 0..(I - 1), NEW o \in 0..(O - 1)
       PROVE  View(W(r).bytes, (i * O + o) * w, w)
                = ElementBytes(SourceOf(x.layer, x.expert, r),
                               SourceElement(x.layer, x.expert, r, o, i), dtype)
  <2>1. i \in Nat /\ o \in Nat
    BY <1>12
  <2>2. /\ SourceOf(x.layer, x.expert, r) = HomeOf(ck, x.layer, x.expert, r)
        /\ SourceElement(x.layer, x.expert, r, o, i)
             = BaseOf(ck, x.layer, x.expert, r) + (o * I + i)
    BY <1>4, <2>1, SourceElements DEF I
  <2> QED BY <1>11, <2>2
<1>15. Faithful(r)
  BY <1>10, <1>13, <1>14 DEF p, w
<1> QED BY <1>15

\* A runtime that opened a directory computes with the checkpoint's numbers: what
\* WeightConverter, ExpertPacker and the manifest made of them is undone by what
\* PackedModelRuntime and ExpertWeightMap read.
THEOREM FaithfulCorrect == Spec => []OpenIsFaithful
<1>1. IndInv /\ Content => OpenIsFaithful
  <2> SUFFICES ASSUME IndInv, Content, rt.pc = "open"
               PROVE  /\ StaticIsFaithful(rt.manifest, rt.static)
                      /\ rt.loaded # <<>> => LoadedIsFaithful(rt.manifest, rt.loaded)
                      /\ rt.manifest.arch = [Architecture(ck.config) EXCEPT !.theta = SixDigits(@)]
    BY DEF OpenIsFaithful
  <2> DEFINE F == Target
             M == F.pack.manifest
             m == rt.manifest
  <2>1. /\ Imports(ck) /\ m = FromJson(ToJson(M)) /\ Validate(M) /\ Validate(m) /\ m.io # NoIO
        /\ Extends(rt.static, F.bin) /\ StaticLoads(m, rt.static)
        /\ rt.loaded # <<>> =>
             /\ rt.loaded.record \in Range(F.pack.records)
             /\ rt.loaded.bytes = rt.loaded.record.checksum
    BY DEF Content, ReadsOf
  <2>2. Sound(ck)
    BY <2>1, ImportedIsSound
  <2>3. FinalOK(ck, encoding, F)
    BY <2>2, FinalFacts DEF Target
  <2>4. ReadsBack(ck, m, M)
    <3>1. Keeps(ck, encoding, M)
      BY <2>3 DEF FinalOK, StageOK
    <3> QED BY <2>1, <2>2, <3>1, JsonFacts
  <2>5. M.io # NoIO /\ m.arch = [Architecture(ck.config) EXCEPT !.theta = SixDigits(@)]
    BY <2>1, <2>4 DEF ReadsBack
  <2> HIDE DEF F, m
  <2>6. StaticIsFaithful(m, rt.static)
    BY <2>1, <2>2, <2>3, <2>4, <2>5, StaticFaithful
  <2>7. rt.loaded # <<>> => LoadedIsFaithful(m, rt.loaded)
    BY <2>1, <2>2, <2>3, <2>4, LoadedFaithful
  <2> QED BY <2>5, <2>6, <2>7 DEF m
<1> QED BY <1>1, Invariance, ContentInvariance, PTL
=============================================================================
