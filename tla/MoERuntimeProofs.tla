-------------------------- MODULE MoERuntimeProofs ---------------------------
(***************************************************************************)
(* Proofs about MoERuntime, for every number of layers, experts, tokens    *)
(* and passes, every score, every budget of at least one expert and every  *)
(* mode.                                                                   *)
(*                                                                         *)
(* The first part shows what the router computes: the groups of a decision *)
(* hold each assignment of a token to an expert in exactly one group.  The *)
(* second shows what each operation of the scheduler, the residency        *)
(* manager and the predictor keeps.  The third has one lemma per action.   *)
(*                                                                         *)
(* The invariant Inv adds to the properties what they rest on: an expert   *)
(* in use has no task and no retained transfer, so that no worker and no   *)
(* trimming of the prefetch cache changes its state; the lease is held     *)
(* exactly in the steps between acquire and release, the submission of the *)
(* next expert included; and the outputs added so far are those of the     *)
(* groups before the current one.                                          *)
(*                                                                         *)
(* Outer adds why no layer fails from within.  The phase of an expert's    *)
(* task fixes its lifecycle state, and what is retained for a ready expert *)
(* is at the tier the lifecycle names; a handle waits for the tier the     *)
(* layer executes on, so its answer has the buffer that adoption needs;    *)
(* an expert without a known offset is on disk, and no speculative load of *)
(* it can be dropped once the submission has read its state; the lease     *)
(* fills no tier that room is needed in, unless two experts fit there; and *)
(* the groups of a decision hold as many tokens as it has assignments.     *)
(***************************************************************************)
EXTENDS MoERuntime, FiniteSums, FunctionTheorems

-----------------------------------------------------------------------------
(* Sorted enumerations.  An order is given as a set of pairs, so that one    *)
(* lemma serves the ids, the tokens and the scores.                         *)

\* R orders the elements of S strictly and totally.
Orders(R, S) ==
  /\ \A x, y \in S : x # y => <<x, y>> \in R \/ <<y, x>> \in R
  /\ \A x, y, z \in S : <<x, y>> \in R /\ <<y, z>> \in R => <<x, z>> \in R

\* A finite set that is not empty has a last element.
LEMMA LastElement ==
  ASSUME NEW S, IsFiniteSet(S), NEW R, Orders(R, S), S # {}
  PROVE  \E m \in S : \A x \in S : x # m => <<x, m>> \in R
<1> DEFINE Has(T) == T = {} \/ \E m \in T : \A x \in T : x # m => <<x, m>> \in R
           P == {T \in SUBSET S : Has(T)}
<1>1. {} \in P
  OBVIOUS
<1>2. ASSUME NEW T \in SUBSET S, T # {}, \A x \in T : T \ {x} \in P PROVE T \in P
  <2>1. PICK y \in T : TRUE
    BY <1>2
  <2>2. Has(T \ {y})
    BY <1>2, <2>1
  <2>3. CASE T \ {y} = {}
    BY <2>1, <2>3
  <2>4. CASE T \ {y} # {}
    <3>1. PICK m \in T \ {y} : \A x \in T \ {y} : x # m => <<x, m>> \in R
      BY <2>2, <2>4
    <3>2. CASE <<y, m>> \in R
      BY <3>1, <3>2
    <3>3. CASE <<m, y>> \in R
      <4>1. \A x \in T : x # y => <<x, y>> \in R
        BY <3>1, <3>3 DEF Orders
      <4> QED BY <4>1, <2>1
    <3> QED BY <3>1, <3>2, <3>3, <2>1 DEF Orders
  <2> QED BY <2>3, <2>4
<1>3. \A T \in SUBSET S : T \in P
  <2> HIDE DEF P
  <2> QED BY <1>1, <1>2, SubsetInduction
<1> QED BY <1>3

\* s enumerates S in the order R.
Enumerates(s, S, R) ==
  /\ s \in SetToSeqs(S)
  /\ \A i, j \in 1 .. Cardinality(S) : i < j => <<s[i], s[j]>> \in R

\* Every finite set can be sorted.
LEMMA SortExists ==
  ASSUME NEW S, IsFiniteSet(S), NEW R, Orders(R, S)
  PROVE  \E s : Enumerates(s, S, R)
<1> DEFINE P == {T \in SUBSET S : \E s : Enumerates(s, T, R)}
<1>1. {} \in P
  <2>1. Enumerates(<<>>, {}, R)
    <3>1. Cardinality({}) = 0
      BY FS_EmptySet
    <3>2. 1 .. 0 = {} /\ <<>> \in [{} -> {}]
      OBVIOUS
    <3> QED BY <3>1, <3>2 DEF Enumerates, SetToSeqs
  <2> QED BY <2>1
<1>2. ASSUME NEW T \in SUBSET S, T # {}, \A x \in T : T \ {x} \in P PROVE T \in P
  <2>1. IsFiniteSet(T) /\ Orders(R, T)
    <3>1. IsFiniteSet(T)
      BY FS_Subset
    <3> QED BY <3>1 DEF Orders
  <2>2. PICK m \in T : \A x \in T : x # m => <<x, m>> \in R
    BY <1>2, <2>1, LastElement
  <2>3. PICK s : Enumerates(s, T \ {m}, R)
    BY <1>2, <2>2
  <2> DEFINE n == Cardinality(T)
             t == [i \in 1 .. n |-> IF i = n THEN m ELSE s[i]]
  <2>4. n \in Nat /\ n > 0 /\ Cardinality(T \ {m}) = n - 1
    BY <2>1, <2>2, FS_RemoveElement, FS_CardinalityType, FS_EmptySet
  <2>5. /\ \A i \in 1 .. n - 1 : s[i] \in T \ {m}
        /\ \A i, j \in 1 .. n - 1 : i # j => s[i] # s[j]
        /\ \A i, j \in 1 .. n - 1 : i < j => <<s[i], s[j]>> \in R
    <3> HIDE DEF n
    <3> QED BY <2>3, <2>4 DEF Enumerates, SetToSeqs
  <2>6. Enumerates(t, T, R)
    <3> HIDE DEF n
    <3>1. \A i \in 1 .. n : (i = n /\ t[i] = m) \/ (i \in 1 .. n - 1 /\ t[i] = s[i])
      BY <2>4
    <3>2. t \in [1 .. n -> T]
      BY <2>2, <2>4, <2>5
    <3> HIDE DEF t
    <3>3. \A i, j \in 1 .. n : i # j => t[i] # t[j]
      BY <2>4, <2>5, <3>1
    <3>4. \A i, j \in 1 .. n : i < j => <<t[i], t[j]>> \in R
      <4> SUFFICES ASSUME NEW i \in 1 .. n, NEW j \in 1 .. n, i < j
                   PROVE  <<t[i], t[j]>> \in R
        OBVIOUS
      <4>1. i \in 1 .. n - 1 /\ t[i] = s[i]
        BY <2>4, <3>1
      <4>2. CASE j = n
        BY <2>2, <2>4, <2>5, <3>1, <4>1, <4>2
      <4>3. CASE j # n
        BY <2>4, <2>5, <3>1, <4>1, <4>3
      <4> QED BY <4>2, <4>3
    <3> QED BY <3>2, <3>3, <3>4 DEF Enumerates, SetToSeqs, n
  <2> QED BY <2>6
<1>3. S \in P
  <2> HIDE DEF P
  <2> QED BY <1>1, <1>2, SubsetInduction, SMTT(40)
<1> QED BY <1>3

\* A sequence of SetToSeqs takes every element.
LEMMA EnumerationCovers ==
  ASSUME NEW S, IsFiniteSet(S), NEW s \in SetToSeqs(S)
  PROVE  /\ DOMAIN s = 1 .. Cardinality(S) /\ Len(s) = Cardinality(S)
         /\ Cardinality(S) \in Nat
         /\ ToSet(s) = S
         /\ \A i, j \in DOMAIN s : i # j => s[i] # s[j]
<1> DEFINE n == Cardinality(S)
<1>1. n \in Nat
  BY FS_CardinalityType
<1>2. s \in [1 .. n -> S] /\ \A i, j \in 1 .. n : i # j => s[i] # s[j]
  BY DEF SetToSeqs
<1>3. Len(s) = n
  <2> HIDE DEF n
  <2>1. s \in Seq(S)
    BY <1>1, <1>2
  <2> QED BY <1>1, <1>2, <2>1
<1>4. s \in Injection(1 .. n, S)
  BY <1>2 DEF Injection, IsInjective
<1>5. Cardinality(1 .. n) = n
  BY <1>1, FS_Interval
<1>6. s \in Surjection(1 .. n, S)
  BY <1>4, <1>5, FS_Injection
<1>7. ToSet(s) = S
  BY <1>2, <1>6 DEF Surjection, ToSet
<1> QED BY <1>1, <1>2, <1>3, <1>7

\* Numbers are sorted by size.
LEMMA SortedNumbers ==
  ASSUME NEW S, S \subseteq Int, IsFiniteSet(S)
  PROVE  Sorted(S, <) \in SetToSeqs(S)
<1> DEFINE R == {p \in S \X S : p[1] < p[2]}
<1>1. \A x, y \in S : <<x, y>> \in R <=> x < y
  OBVIOUS
<1>2. Orders(R, S)
  <2> HIDE DEF R
  <2> QED BY <1>1 DEF Orders
<1> HIDE DEF R
<1>3. PICK s : Enumerates(s, S, R)
  BY <1>2, SortExists
<1>4. s \in SetToSeqs(S) /\ \A i, j \in 1 .. Cardinality(S) : i < j => s[i] < s[j]
  <2>1. s \in [1 .. Cardinality(S) -> S]
    BY <1>3 DEF Enumerates, SetToSeqs
  <2> QED BY <1>1, <1>3, <2>1 DEF Enumerates
<1> QED BY <1>4 DEF Sorted

\* The experts by score and id.
ByScore(scores, n) == Sorted(0 .. n - 1, LAMBDA l, r : Before(scores, l, r))

\* Such an order exists for integer scores.
LEMMA SortedScores ==
  ASSUME NEW scores, NEW n \in Nat, scores \in [1 .. n -> Int]
  PROVE  ByScore(scores, n) \in SetToSeqs(0 .. n - 1)
<1> DEFINE S == 0 .. n - 1
           R == {p \in S \X S : Before(scores, p[1], p[2])}
<1>1. \A x, y \in S : <<x, y>> \in R <=> Before(scores, x, y)
  OBVIOUS
<1>2. Orders(R, S)
  <2> HIDE DEF R
  <2>1. \A x \in S : x \in Int /\ scores[x + 1] \in Int
    OBVIOUS
  <2> HIDE DEF S
  <2>2. \A x, y \in S : x # y => Before(scores, x, y) \/ Before(scores, y, x)
    BY <2>1 DEF Before
  <2>3. \A x, y, z \in S : Before(scores, x, y) /\ Before(scores, y, z) => Before(scores, x, z)
    BY <2>1 DEF Before
  <2> QED BY <1>1, <2>2, <2>3 DEF Orders
<1>3. IsFiniteSet(S)
  BY FS_Interval
<1> HIDE DEF R, S
<1>4. PICK s : Enumerates(s, S, R)
  BY <1>2, <1>3, SortExists
<1>5. s \in SetToSeqs(S) /\ \A i, j \in 1 .. Cardinality(S) : i < j => Before(scores, s[i], s[j])
  <2>1. s \in [1 .. Cardinality(S) -> S]
    BY <1>4 DEF Enumerates, SetToSeqs
  <2> QED BY <1>1, <1>4, <2>1 DEF Enumerates
<1>6. Sorted(S, LAMBDA l, r : Before(scores, l, r)) \in SetToSeqs(S)
  BY <1>5 DEF Sorted
<1> QED BY <1>6 DEF S, ByScore

-----------------------------------------------------------------------------
(* What the router decides.                                                 *)

Experts == ExpertIds(RouterConfig)

\* The experts are finitely many numbers, and topK is among their counts.
LEMMA ExpertFacts ==
  /\ Experts = 0 .. RouterConfig.expertCount - 1
  /\ IsFiniteSet(Experts) /\ Experts \subseteq Int
  /\ RouterConfig.expertCount \in Nat \ {0}
  /\ RouterConfig.topK \in 1 .. RouterConfig.expertCount
<1>1. Experts = 0 .. RouterConfig.expertCount - 1 /\ RouterConfig.expertCount \in Nat \ {0}
      /\ RouterConfig.topK \in 1 .. RouterConfig.expertCount
  BY MoEAssumption DEF Experts, ExpertIds, ConfigValid
<1>2. IsFiniteSet(0 .. RouterConfig.expertCount - 1)
  BY <1>1, FS_Interval
<1> QED BY <1>1, <1>2

\* TopK takes topK experts.
LEMMA TopKFacts ==
  ASSUME NEW scores \in [1 .. RouterConfig.expertCount -> Int]
  PROVE  TopK(scores, RouterConfig) \in [1 .. RouterConfig.topK -> Experts]
<1> DEFINE n == RouterConfig.expertCount
           order == ByScore(scores, n)
<1>1. order \in SetToSeqs(0 .. n - 1)
  BY SortedScores, ExpertFacts
<1>2. Cardinality(0 .. n - 1) = n
  <2>1. 0 <= n - 1 /\ 0 \in Int /\ n - 1 \in Int
    BY ExpertFacts
  <2> QED BY <2>1, FS_Interval, ExpertFacts
<1>3. order \in [1 .. n -> Experts]
  <2> HIDE DEF n, order
  <2> QED BY <1>1, <1>2, ExpertFacts DEF SetToSeqs, n
<1>4. TopK(scores, RouterConfig) = SubSeq(order, 1, RouterConfig.topK)
  BY DEF TopK, ExpertIds, ByScore
<1> HIDE DEF order
<1>5. SubSeq(order, 1, RouterConfig.topK) = [i \in 1 .. RouterConfig.topK |-> order[i]]
  <2> DEFINE k == RouterConfig.topK
  <2>1. k \in 1 .. n /\ n \in Nat
    BY ExpertFacts
  <2>2. order \in Seq(Experts) /\ Len(order) = n
    BY <1>3, <2>1
  <2> HIDE DEF k, n
  <2>3. SubSeq(order, 1, k) = [i \in 1 .. k |-> order[i]]
    BY <2>1, <2>2
  <2> QED BY <2>3 DEF k
<1>6. \A i \in 1 .. RouterConfig.topK : order[i] \in Experts
  BY <1>3, ExpertFacts
<1> QED BY <1>4, <1>5, <1>6

\* The decision for n tokens selects experts, and its groups hold each
\* assignment of a token to an expert in exactly one group.
Routed(d, n) ==
  /\ n \in Nat
  /\ DOMAIN d.tokens = 1 .. n /\ d.tokens = [t \in 1 .. n |-> d.tokens[t]]
  /\ \A t \in 1 .. n : /\ DOMAIN d.tokens[t].selected = 1 .. RouterConfig.topK
                       /\ ToSet(d.tokens[t].selected) \subseteq Experts
                       /\ d.tokens[t].layer = d.layer
  /\ Len(d.groups) \in Nat /\ DOMAIN d.groups = 1 .. Len(d.groups)
  /\ d.groups = [g \in 1 .. Len(d.groups) |-> d.groups[g]]
  /\ \A g \in DOMAIN d.groups : d.groups[g].expert \in Experts
  /\ \A g, h \in DOMAIN d.groups : g # h => d.groups[g].expert # d.groups[h].expert
  /\ \A t \in 1 .. n, e \in Experts :
       e \in ToSet(d.tokens[t].selected) <=>
         \E g \in DOMAIN d.groups : d.groups[g].expert = e /\ t \in ToSet(d.groups[g].tokens)

\* The sorted tokens of an expert are those that selected it.
LEMMA TokensOfFacts ==
  ASSUME NEW decisions, NEW n \in Nat, DOMAIN decisions = 1 .. n, NEW e
  PROVE  \A t \in 1 .. n : t \in ToSet(TokensOf(decisions, e)) <=>
                             e \in ToSet(decisions[t].selected)
<1> DEFINE S == {t \in DOMAIN decisions :
                   \E rank \in DOMAIN decisions[t].selected : decisions[t].selected[rank] = e}
<1>1. S \subseteq Int /\ IsFiniteSet(S)
  <2>1. S \subseteq 1 .. n
    OBVIOUS
  <2>2. IsFiniteSet(1 .. n)
    BY FS_Interval
  <2> HIDE DEF S
  <2>3. IsFiniteSet(S)
    BY <2>1, <2>2, FS_Subset
  <2> QED BY <2>1, <2>3
<1>2. TokensOf(decisions, e) \in SetToSeqs(S)
  <2>1. TokensOf(decisions, e) = Sorted(S, <)
    BY DEF TokensOf
  <2> HIDE DEF S
  <2>2. Sorted(S, <) \in SetToSeqs(S)
    BY <1>1, SortedNumbers
  <2> QED BY <2>1, <2>2, Zenon
<1>3. ToSet(TokensOf(decisions, e)) = S
  <2> HIDE DEF S
  <2> QED BY <1>1, <1>2, EnumerationCovers
<1> QED BY <1>3 DEF ToSet

\* The experts selected by any token.
Chosen(decisions) == UNION {ToSet(decisions[t].selected) : t \in DOMAIN decisions}

\* Grouping keeps every assignment, once.
LEMMA GroupFacts ==
  ASSUME NEW decisions, NEW n \in Nat, DOMAIN decisions = 1 .. n,
         \A t \in 1 .. n : ToSet(decisions[t].selected) \subseteq Experts
  PROVE  LET G == Group(decisions) IN
         /\ Len(G) \in Nat /\ DOMAIN G = 1 .. Len(G)
         /\ G = [g \in 1 .. Len(G) |-> G[g]]
         /\ \A g \in DOMAIN G : G[g].expert \in Experts
         /\ \A g, h \in DOMAIN G : g # h => G[g].expert # G[h].expert
         /\ \A t \in 1 .. n, e \in Experts :
              e \in ToSet(decisions[t].selected) <=>
                \E g \in DOMAIN G : G[g].expert = e /\ t \in ToSet(G[g].tokens)
<1> DEFINE C == Chosen(decisions)
           order == Sorted(C, <)
           G == Group(decisions)
           Weights(g) == [row \in DOMAIN TokensOf(decisions, order[g]) |->
                            WeightOf(decisions[TokensOf(decisions, order[g])[row]], order[g])]
<1>1. C \subseteq Experts
  BY DEF Chosen
<1>2. IsFiniteSet(C) /\ C \subseteq Int
  BY <1>1, ExpertFacts, FS_Subset
<1>3. G = [g \in DOMAIN order |-> [expert |-> order[g], tokens |-> TokensOf(decisions, order[g]),
                                   weights |-> Weights(g)]]
  BY Zenon DEF Group, Chosen
<1>4. order \in SetToSeqs(C)
  BY <1>2, SortedNumbers
<1> HIDE DEF order, G, Weights
<1>5. /\ DOMAIN order = 1 .. Cardinality(C) /\ Cardinality(C) \in Nat /\ ToSet(order) = C
      /\ \A i, j \in DOMAIN order : i # j => order[i] # order[j]
  <2> HIDE DEF C
  <2> QED BY <1>2, <1>4, EnumerationCovers
<1>6. /\ DOMAIN G = 1 .. Cardinality(C)
      /\ \A g \in DOMAIN G : G[g].expert = order[g] /\ G[g].tokens = TokensOf(decisions, order[g])
  <2> HIDE DEF C
  <2> QED BY <1>3, <1>5
<1>7. Len(G) = Cardinality(C) /\ G = [g \in 1 .. Cardinality(C) |-> G[g]]
  <2> DEFINE m == Cardinality(C)
             V(g) == [expert |-> order[g], tokens |-> TokensOf(decisions, order[g]),
                      weights |-> Weights(g)]
  <2>1. G = [g \in 1 .. m |-> V(g)] /\ m \in Nat
    BY <1>3, <1>5
  <2> HIDE DEF m, V
  <2>2. Len(G) = m /\ G = [g \in 1 .. m |-> G[g]]
    BY <2>1
  <2> QED BY <2>2 DEF m
<1>8. \A g \in DOMAIN G : G[g].expert \in C
  BY <1>5, <1>6 DEF ToSet
<1>9. ASSUME NEW t \in 1 .. n, NEW e \in Experts
      PROVE  e \in ToSet(decisions[t].selected) <=>
               \E g \in DOMAIN G : G[g].expert = e /\ t \in ToSet(G[g].tokens)
  <2>1. \A g \in DOMAIN G : t \in ToSet(G[g].tokens) <=>
                              G[g].expert \in ToSet(decisions[t].selected)
    BY <1>6, TokensOfFacts
  <2>2. e \in ToSet(decisions[t].selected) => \E g \in DOMAIN G : G[g].expert = e
    <3>1. e \in ToSet(decisions[t].selected) => e \in C
      BY DEF Chosen
    <3>2. e \in C => \E g \in DOMAIN order : order[g] = e
      <4> HIDE DEF C
      <4> QED BY <1>5 DEF ToSet
    <3> QED BY <1>5, <1>6, <3>1, <3>2
  <2> QED BY <2>1, <2>2
<1> HIDE DEF C
<1> QED BY <1>1, <1>5, <1>6, <1>7, <1>8, <1>9 DEF G

\* Decisions built token by token from TopK are routed.
LEMMA DecisionsRouted ==
  ASSUME NEW n \in Nat, NEW layer, NEW decisions, DOMAIN decisions = 1 .. n,
         decisions = [t \in 1 .. n |-> decisions[t]],
         \A t \in 1 .. n : /\ decisions[t].selected \in [1 .. RouterConfig.topK -> Experts]
                           /\ decisions[t].layer = layer
  PROVE  Routed([layer |-> layer, tokens |-> decisions, groups |-> Group(decisions)], n)
<1>1. \A t \in 1 .. n : /\ DOMAIN decisions[t].selected = 1 .. RouterConfig.topK
                        /\ ToSet(decisions[t].selected) \subseteq Experts
  BY DEF ToSet
<1> DEFINE G == Group(decisions)
<1>2. /\ Len(G) \in Nat /\ DOMAIN G = 1 .. Len(G)
      /\ G = [g \in 1 .. Len(G) |-> G[g]]
      /\ \A g \in DOMAIN G : G[g].expert \in Experts
      /\ \A g, h \in DOMAIN G : g # h => G[g].expert # G[h].expert
      /\ \A t \in 1 .. n, e \in Experts :
           e \in ToSet(decisions[t].selected) <=>
             \E g \in DOMAIN G : G[g].expert = e /\ t \in ToSet(G[g].tokens)
  BY <1>1, GroupFacts
<1> DEFINE b == [layer |-> layer, tokens |-> decisions, groups |-> G]
<1> HIDE DEF G
<1>3. b.layer = layer /\ b.tokens = decisions /\ b.groups = G
  OBVIOUS
<1> HIDE DEF b
<1>4. Routed(b, n)
  BY <1>1, <1>2, <1>3 DEF Routed
<1> QED BY <1>4 DEF b, G

\* The row and the rank of an entry of the flat selection.
LEMMA FlatIndex ==
  ASSUME NEW n \in Nat, NEW k \in Nat \ {0}, NEW m \in 1 .. n * k
  PROVE  /\ ((m - 1) \div k) + 1 \in 1 .. n
         /\ ((m - 1) % k) + 1 \in 1 .. k
<1> DEFINE q == (m - 1) \div k
           r == (m - 1) % k
<1>1. m \in Nat /\ m > 0 /\ m <= n * k /\ n * k \in Nat
  OBVIOUS
<1>2. q \in Int /\ r \in 0 .. k - 1 /\ m - 1 = k * q + r
  BY <1>1
<1> HIDE DEF q, r
<1>3. q >= 0
  <2> SUFFICES ASSUME q <= -1 PROVE FALSE
    BY <1>2
  <2>1. k * q <= k * (-1)
    BY <1>2
  <2> QED BY <1>1, <1>2, <2>1
<1>4. q < n
  <2> SUFFICES ASSUME q >= n PROVE FALSE
    BY <1>2
  <2>1. k * q >= k * n /\ k * n = n * k
    BY <1>2
  <2> QED BY <1>1, <1>2, <2>1
<1> QED BY <1>2, <1>3, <1>4 DEF q, r

\* The place of token t's entry at a rank.
LEMMA FlatPlace ==
  ASSUME NEW n \in Nat, NEW k \in Nat \ {0}, NEW t \in 1 .. n, NEW rank \in 1 .. k
  PROVE  (t - 1) * k + rank \in 1 .. n * k
<1>1. (t - 1) * k \in Nat /\ n * k \in Nat
  OBVIOUS
<1>2. (t - 1) * k <= (n - 1) * k
  OBVIOUS
<1>3. (n - 1) * k = n * k - k
  OBVIOUS
<1> QED BY <1>1, <1>2, <1>3

\* Both routers, where they do not refuse.
LEMMA RouteFacts ==
  ASSUME NEW n \in Nat, NEW layer, NEW native,
         NEW rows \in [1 .. n -> [1 .. RouterConfig.expertCount -> Int]],
         NEW b, b \in {CpuRouteBatch(layer, rows, RouterConfig),
                       CudaRouteBatch(layer, rows, RouterConfig, native)},
         b # Refused
  PROVE  Routed(b, n) /\ b.layer = layer
<1> DEFINE c == RouterConfig
<1>0. Len(rows) = n
  OBVIOUS
<1>1. CASE b = CpuRouteBatch(layer, rows, c)
  <2> DEFINE decisions == [t \in DOMAIN rows |-> RouteToken(layer, rows[t], c)]
  <2>1. b = [layer |-> layer, tokens |-> decisions, groups |-> Group(decisions)]
    BY <1>1 DEF CpuRouteBatch
  <2>2. \A t \in 1 .. n : /\ decisions[t].selected = TopK(rows[t], c)
                          /\ decisions[t].layer = layer
    BY DEF RouteToken
  <2>3. \A t \in 1 .. n : TopK(rows[t], c) \in [1 .. c.topK -> Experts]
    BY TopKFacts
  <2>4. DOMAIN decisions = 1 .. n /\ decisions = [t \in 1 .. n |-> decisions[t]]
    OBVIOUS
  <2> HIDE DEF decisions
  <2>5. Routed([layer |-> layer, tokens |-> decisions, groups |-> Group(decisions)], n)
    BY <2>2, <2>3, <2>4, DecisionsRouted
  <2> QED BY <2>1, <2>5
<1>2. CASE b = MakeDecision(layer, Len(rows), c, RouteTopK(rows, c))
  <2> DEFINE selection == RouteTopK(rows, c)
             decisions ==
               [t \in 1 .. n |->
                  [layer |-> layer,
                   selected |-> [rank \in 1 .. c.topK |-> selection[(t - 1) * c.topK + rank].expert],
                   weights |-> [rank \in 1 .. c.topK |-> selection[(t - 1) * c.topK + rank].score]]]
  <2>1. b = [layer |-> layer, tokens |-> decisions, groups |-> Group(decisions)]
    BY <1>0, <1>2 DEF MakeDecision
  <2>2. c.topK \in Nat \ {0}
    BY ExpertFacts
  <2>3. ASSUME NEW m \in 1 .. n * c.topK PROVE selection[m].expert \in Experts
    <3> DEFINE row == rows[((m - 1) \div c.topK) + 1]
               place == ((m - 1) % c.topK) + 1
    <3>1. selection[m].expert = TopK(row, c)[place]
      BY <1>0 DEF RouteTopK
    <3>2. ((m - 1) \div c.topK) + 1 \in 1 .. n /\ place \in 1 .. c.topK
      <4> DEFINE k == c.topK
      <4>1. k \in Nat \ {0} /\ m \in 1 .. n * k
        BY <2>2
      <4> HIDE DEF k
      <4>2. ((m - 1) \div k) + 1 \in 1 .. n /\ ((m - 1) % k) + 1 \in 1 .. k
        BY <4>1, FlatIndex
      <4> QED BY <4>2 DEF k
    <3>3. row \in [1 .. c.expertCount -> Int]
      BY <3>2
    <3> HIDE DEF row, place
    <3>4. TopK(row, c) \in [1 .. c.topK -> Experts]
      BY <3>3, TopKFacts
    <3> QED BY <3>1, <3>2, <3>4
  <2> HIDE DEF selection
  <2>4. \A t \in 1 .. n, rank \in 1 .. c.topK : (t - 1) * c.topK + rank \in 1 .. n * c.topK
    BY <2>2, FlatPlace
  <2>5. \A t \in 1 .. n : /\ decisions[t].selected \in [1 .. c.topK -> Experts]
                          /\ decisions[t].layer = layer
    BY <2>3, <2>4
  <2>6. DOMAIN decisions = 1 .. n /\ decisions = [t \in 1 .. n |-> decisions[t]]
    OBVIOUS
  <2> HIDE DEF decisions
  <2>7. Routed([layer |-> layer, tokens |-> decisions, groups |-> Group(decisions)], n)
    BY <2>5, <2>6, DecisionsRouted
  <2> QED BY <2>1, <2>7
<1>3. \/ b = CpuRouteBatch(layer, rows, c)
      \/ b = MakeDecision(layer, Len(rows), c, RouteTopK(rows, c))
  BY Zenon DEF CudaRouteBatch
<1> QED BY <1>1, <1>2, <1>3

-----------------------------------------------------------------------------
(* The inductive invariant.                                                 *)

Task == [phase : {"queued", "loading", "loaded", "retained", "failed"},
         destination : {"Ram", "Vram"}, from : {"Nvme", "Ram", "Vram"},
         source : Transfer, prefetch : BOOLEAN, active : BOOLEAN, out : Transfer]
Ready == [status : {"ready"}, ok : BOOLEAN, transfer : Transfer]
Handle == {NoHandle, Waiting} \cup Ready
Placement == [location : {"Nvme", "Ram", "Vram"}, buffer : Nat]
SchType == [state : [Key -> ExpertRecord], pending : [Key -> {NoTask} \cup Task],
            resident : [Key -> Transfer], prefetched : SUBSET Key]

InUse(s, k) == s.state[k].state = "InUse"
Pending(s, k) == s.pending[k].phase # "none"

\* An expert in use has no task and no retained transfer, so that neither a
\* worker nor the trimming of the prefetch cache touches its state.
SchOK(s) ==
  /\ s \in SchType
  /\ \A k \in Key : InUse(s, k) => ~Pending(s, k) /\ s.resident[k] = Nothing

\* What every call into the scheduler keeps: the experts in use and the tasks.
Continues(s, t) ==
  /\ SchOK(t)
  /\ \A k \in Key : InUse(t, k) <=> InUse(s, k)
  /\ \A k \in Key : Pending(s, k) => Pending(t, k)

Submitting == {"submit", "requestWarm", "warm", "stage", "reconcile", "request"}
Running == Submitting \cup {"await", "adopt", "acquire", "overlap", "execute"}

RunOK ==
  /\ run = [pass |-> run.pass, layer |-> run.layer, tokens |-> run.tokens,
            decision |-> run.decision, token |-> run.token, index |-> run.index,
            submitting |-> run.submitting, resume |-> run.resume]
  /\ run.pass \in 0 .. MaxPasses /\ run.layer \in 0 .. LayerCount - 1
  /\ run.tokens \in Nat /\ run.resume \in {"await", "execute"}
  /\ pc \in {"idle", "observe", "dispatch", "return"} \cup Running
  /\ pc # "idle" => Routed(run.decision, run.tokens) /\ run.decision.layer = run.layer
  /\ pc \in {"observe", "dispatch"} =>
       /\ run.index = 1 /\ run.submitting = 1 /\ run.resume = "await"
       /\ run.token \in 1 .. run.tokens
  /\ pc \in Running => run.index \in DOMAIN Groups /\ run.submitting \in DOMAIN Groups
  /\ pc = "return" => run.index = Len(Groups) + 1

\* The outputs added so far are those of the groups before the current one.
Added(n, t, e) ==
  \E g \in DOMAIN Groups : g < n /\ Groups[g].expert = e /\ t \in ToSet(Groups[g].tokens)
CombinedOK ==
  pc # "idle" =>
    /\ DOMAIN combined = (1 .. run.tokens) \X Experts
    /\ \A t \in 1 .. run.tokens, e \in Experts :
         combined[<<t, e>>] = IF Added(run.index, t, e) THEN 1 ELSE 0

HandlesOK ==
  /\ warm \in Handle /\ (warm # NoHandle => pc = "warm")
  /\ pc = "idle" => handles = <<>>
  /\ pc # "idle" => DOMAIN handles = DOMAIN Groups
  /\ \A g \in DOMAIN handles : handles[g] \in Handle
  /\ pc = "adopt" => handles[run.index].status = "ready"
  /\ AwaitsLiveTask

HoldsLease == pc \in {"overlap", "execute"} \/ (pc \in Submitting /\ run.resume = "execute")

\* What the failures of the device so far may have left in use.
Charged == IF mode.device THEN faults ELSE 0

LeaseOK ==
  /\ leased # NoLease => leased \in [key : Key, buffer : Nat]
  /\ leased # NoLease <=> HoldsLease
  /\ \A k \in Key : leased.key = k => InUse(sch, k)
  /\ Cardinality(Abandoned) <= Charged
  /\ leased # NoLease =>
       /\ mgr[leased.key] = [location |-> Destination, buffer |-> leased.buffer]
       /\ leased.key \in offsets
  /\ pc = "acquire" =>
       /\ Current \in offsets /\ ~Pending(sch, Current) /\ sch.resident[Current] = Nothing

Fits(m) == Used(m, "Ram") <= mode.ram /\ Used(m, "Vram") <= mode.vram

StoreOK ==
  /\ mode \in Modes
  /\ mgr \in [Key -> Placement] /\ Fits(mgr)
  /\ offsets \subseteq Key
  /\ failure \in Failures
  /\ faults \in 0 .. MaxFaults
  /\ DOMAIN database.frequency \subseteq Key

\* The predictor's counters.
Quality == [opportunities : Nat, predictions : Nat, top1Correct : Nat, topKCovered : Nat,
            usefulPredictions : Nat, wastedPredictions : Nat, suppressedPrefetches : Nat]

\* The predictor's counters account for the predictions of every stream.
Lengths(pending) == [s \in DOMAIN pending |-> Len(pending[s])]
Accounts(p) ==
  /\ p = [pending |-> p.pending, quality |-> p.quality]
  /\ p.quality \in Quality
  /\ IsFiniteSet(DOMAIN p.pending)
  /\ \A s \in DOMAIN p.pending :
       Len(p.pending[s]) \in Nat /\ DOMAIN p.pending[s] = 1 .. Len(p.pending[s])
  /\ p.quality.usefulPredictions + p.quality.wastedPredictions
       + SumOver(Lengths(p.pending), DOMAIN p.pending) <= p.quality.predictions
  /\ p.quality.suppressedPrefetches <= p.quality.predictions
  /\ p.quality.top1Correct <= p.quality.topKCovered
  /\ p.quality.topKCovered <= p.quality.usefulPredictions
  /\ p.quality.topKCovered <= p.quality.opportunities

Inv ==
  /\ RunOK /\ CombinedOK /\ HandlesOK /\ SchOK(sch) /\ LeaseOK /\ StoreOK
  /\ Accounts(predictor)

-----------------------------------------------------------------------------
(* The scheduler's operators keep SchOK.                                    *)

RequestType == [destination : {"Ram", "Vram"}, from : {"Nvme", "Ram", "Vram"},
                source : Transfer, prefetch : BOOLEAN]

\* The parts of a scheduler state.
LEMMA SchParts ==
  ASSUME NEW s, s \in SchType
  PROVE  /\ s.state \in [Key -> ExpertRecord] /\ s.pending \in [Key -> {NoTask} \cup Task]
         /\ s.resident \in [Key -> Transfer] /\ s.prefetched \subseteq Key
         /\ \A k \in Key : Pending(s, k) => s.pending[k] \in Task
         /\ \A k \in Key : ~Pending(s, k) => s.pending[k] = NoTask
<1>1. /\ s.state \in [Key -> ExpertRecord] /\ s.pending \in [Key -> {NoTask} \cup Task]
      /\ s.resident \in [Key -> Transfer] /\ s.prefetched \subseteq Key
  BY DEF SchType
<1>2. ASSUME NEW k \in Key PROVE /\ Pending(s, k) => s.pending[k] \in Task
                                 /\ ~Pending(s, k) => s.pending[k] = NoTask
  <2>1. s.pending[k] = NoTask \/ s.pending[k] \in Task
    BY <1>1
  <2>2. NoTask.phase = "none"
    BY DEF NoTask
  <2>3. \A t \in Task : t.phase # "none"
    BY DEF Task
  <2> HIDE DEF Task, NoTask
  <2> QED BY <2>1, <2>2, <2>3 DEF Pending
<1> QED BY <1>1, <1>2

\* A state is continued by itself, and continuing composes.
LEMMA ContinuesFacts ==
  /\ \A s : SchOK(s) => Continues(s, s)
  /\ \A s, t, u : Continues(s, t) /\ Continues(t, u) => Continues(s, u)
  BY DEF Continues

\* Changing one expert's entries.
LEMMA OneKey ==
  ASSUME NEW s, SchOK(s), NEW k \in Key, ~InUse(s, k),
         NEW x \in ExpertRecord, x.state # "InUse", NEW p \in {NoTask} \cup Task,
         Pending(s, k) => p.phase # "none",
         NEW r \in Transfer, NEW q \in SUBSET Key
  PROVE  Continues(s, [state |-> [s.state EXCEPT ![k] = x],
                       pending |-> [s.pending EXCEPT ![k] = p],
                       resident |-> [s.resident EXCEPT ![k] = r],
                       prefetched |-> q])
<1> DEFINE t == [state |-> [s.state EXCEPT ![k] = x],
                 pending |-> [s.pending EXCEPT ![k] = p],
                 resident |-> [s.resident EXCEPT ![k] = r],
                 prefetched |-> q]
<1>1. s \in SchType
  BY DEF SchOK
<1>2. t \in SchType
  BY <1>1, SchParts DEF SchType
<1>3. \A j \in Key : /\ t.state[j] = IF j = k THEN x ELSE s.state[j]
                     /\ t.pending[j] = IF j = k THEN p ELSE s.pending[j]
                     /\ t.resident[j] = IF j = k THEN r ELSE s.resident[j]
  BY <1>1, SchParts
<1> HIDE DEF t
<1>4. SchOK(t)
  BY <1>2, <1>3 DEF SchOK, InUse, Pending
<1>5. Continues(s, t)
  BY <1>3, <1>4 DEF Continues, InUse, Pending
<1> QED BY <1>5 DEF t

\* schedule().
LEMMA ScheduleContinues ==
  ASSUME NEW s, SchOK(s), NEW k \in Key, NEW request \in RequestType
  PROVE  LET kind == ScheduleKind(s, k, request)
             t == ScheduleOf(s, k, request)
         IN  /\ Continues(s, t)
             /\ kind \in {"pendingTarget", "join", "ready", "new", "transition"}
             /\ Accepts(kind) =>
                  /\ HandleOf(s, k, request) \in Handle \ {NoHandle}
                  /\ HandleOf(s, k, request).status = "waiting" => Pending(t, k)
<1> DEFINE kind == ScheduleKind(s, k, request)
           q == IF request.prefetch
                  THEN IF kind = "ready" THEN s.prefetched \cup {k} ELSE s.prefetched
                  ELSE s.prefetched \ {k}
           c == [s EXCEPT !.prefetched = q]
           t == ScheduleOf(s, k, request)
           fresh == [phase |-> "queued", destination |-> request.destination,
                     from |-> request.from, source |-> request.source,
                     prefetch |-> request.prefetch, active |-> ~request.prefetch,
                     out |-> Nothing]
<1>0. s \in SchType /\ q \in SUBSET Key
  BY SchParts DEF SchOK
<1>1. c = [state |-> s.state, pending |-> s.pending, resident |-> s.resident, prefetched |-> q]
  <2>1. s = [state |-> s.state, pending |-> s.pending, resident |-> s.resident,
             prefetched |-> s.prefetched]
    BY <1>0 DEF SchType
  <2> HIDE DEF q
  <2> QED BY <2>1
<1>2. t = CASE kind = "join" -> [c EXCEPT !.pending[k].active = @ \/ ~request.prefetch]
            [] kind = "new" ->
                 [c EXCEPT !.state[k] = MarkQueuedOf(RequestOf(@, request.destination)),
                           !.pending[k] = fresh]
            [] OTHER -> c
  <2>1. c = [s EXCEPT !.prefetched = IF request.prefetch
                                       THEN IF kind = "ready" THEN @ \cup {k} ELSE @
                                       ELSE @ \ {k}]
    BY <1>0 DEF SchType
  <2> QED BY <2>1, Zenon DEF ScheduleOf
<1>3. kind \in {"pendingTarget", "join", "ready", "new", "transition"}
  BY DEF ScheduleKind
<1> HIDE DEF q
<1>4. CASE kind = "join"
  <2> DEFINE p == [s.pending[k] EXCEPT !.active = @ \/ ~request.prefetch]
  <2>1. Pending(s, k) /\ ~InUse(s, k)
    BY <1>4 DEF ScheduleKind, Pending, SchOK
  <2>2. s.pending[k] \in Task
    BY <1>0, <2>1, SchParts
  <2>3. p \in Task
    BY <2>2 DEF Task, RequestType
  <2>4. t = [state |-> s.state, pending |-> [s.pending EXCEPT ![k] = p],
             resident |-> s.resident, prefetched |-> q]
    <3>1. t = [c EXCEPT !.pending[k].active = @ \/ ~request.prefetch]
      BY <1>2, <1>4
    <3> HIDE DEF t, c, kind
    <3> QED BY <1>1, <3>1
  <2>5. s.state = [s.state EXCEPT ![k] = s.state[k]]
        /\ s.resident = [s.resident EXCEPT ![k] = s.resident[k]]
    BY <1>0, SchParts
  <2>6. s.state[k] \in ExpertRecord /\ s.resident[k] \in Transfer /\ s.state[k].state # "InUse"
    BY <1>0, <2>1, SchParts DEF InUse
  <2>7. p.phase # "none"
    BY <2>3 DEF Task
  <2> HIDE DEF p, t, kind
  <2>8. Continues(s, [state |-> [s.state EXCEPT ![k] = s.state[k]],
                      pending |-> [s.pending EXCEPT ![k] = p],
                      resident |-> [s.resident EXCEPT ![k] = s.resident[k]],
                      prefetched |-> q])
    BY <1>0, <2>1, <2>3, <2>6, <2>7, OneKey
  <2>9. Continues(s, t)
    BY <2>4, <2>5, <2>8
  <2>10. HandleOf(s, k, request) = Waiting
    BY <1>4 DEF HandleOf, kind
  <2> QED BY <1>4, <2>1, <2>9, <2>10 DEF Continues, Handle, Waiting, NoHandle, t, kind
<1>5. CASE kind = "new"
  <2>1. ~Pending(s, k) /\ CanRequest(s.state[k])
    <3> HIDE DEF t, c, fresh
    <3> QED BY <1>5 DEF ScheduleKind, Pending
  <2>2. ~InUse(s, k)
    BY <2>1 DEF InUse, CanRequest
  <2> DEFINE x == MarkQueuedOf(RequestOf(s.state[k], request.destination))
  <2>3. x \in ExpertRecord /\ x.state = "Queued"
    <3>1. s.state[k] \in ExpertRecord /\ request.destination \in Tier
      BY <1>0, SchParts DEF RequestType, Tier
    <3> QED BY <3>1 DEF MarkQueuedOf, RequestOf, ExpertRecord, LifecycleState
  <2>4. fresh \in Task
    BY DEF Task, RequestType, Nothing, Transfer
  <2>5. t = [state |-> [s.state EXCEPT ![k] = x], pending |-> [s.pending EXCEPT ![k] = fresh],
             resident |-> s.resident, prefetched |-> q]
    <3>1. t = [c EXCEPT !.state[k] = MarkQueuedOf(RequestOf(@, request.destination)),
                        !.pending[k] = fresh]
      BY <1>2, <1>5
    <3> HIDE DEF t, c, kind, fresh
    <3> QED BY <1>1, <3>1
  <2>6. s.resident = [s.resident EXCEPT ![k] = s.resident[k]] /\ s.resident[k] \in Transfer
    BY <1>0, SchParts
  <2>7. fresh.phase # "none"
    OBVIOUS
  <2> HIDE DEF x, fresh, t, kind
  <2>8. Continues(s, [state |-> [s.state EXCEPT ![k] = x],
                      pending |-> [s.pending EXCEPT ![k] = fresh],
                      resident |-> [s.resident EXCEPT ![k] = s.resident[k]],
                      prefetched |-> q])
    BY <1>0, <2>2, <2>3, <2>4, <2>6, <2>7, OneKey
  <2>9. Continues(s, t)
    BY <2>5, <2>6, <2>8
  <2>10. HandleOf(s, k, request) = Waiting
    BY <1>5 DEF HandleOf, kind
  <2>11. Pending(t, k)
    BY <1>0, <2>5, <2>7, SchParts DEF Pending
  <2> QED BY <1>5, <2>9, <2>10, <2>11 DEF Handle, Waiting, NoHandle, t, kind
<1>6. CASE kind \notin {"join", "new"}
  <2>1. t = c
    BY <1>2, <1>6
  <2>2. c \in SchType
    BY <1>0, <1>1, SchParts DEF SchType
  <2>3. c.state = s.state /\ c.pending = s.pending /\ c.resident = s.resident
    BY <1>1
  <2>4. Continues(s, c)
    <3> HIDE DEF c
    <3> QED BY <2>2, <2>3 DEF Continues, SchOK, InUse, Pending
  <2>5. Accepts(kind) => HandleOf(s, k, request) = Resolved(TRUE, s.resident[k])
    BY <1>6 DEF Accepts, HandleOf
  <2>6. Resolved(TRUE, s.resident[k]) \in Ready /\ Resolved(TRUE, s.resident[k]).status = "ready"
    BY <1>0, SchParts DEF Resolved, Ready
  <2>7. \A h \in Ready : h \in Handle \ {NoHandle} /\ h.status = "ready"
    BY DEF Ready, Handle, NoHandle
  <2> HIDE DEF c, t, kind
  <2> QED BY <1>3, <2>1, <2>4, <2>5, <2>6, <2>7 DEF t, kind
<1> HIDE DEF t
<1> QED BY <1>3, <1>4, <1>5, <1>6 DEF t

\* acknowledge().
LEMMA AcknowledgeContinues ==
  ASSUME NEW s, SchOK(s), NEW k \in Key, CanAcknowledge(s, k),
         NEW location \in {"Nvme", "Ram", "Vram"}
  PROVE  /\ Continues(s, Acknowledge(s, k, location))
         /\ ~Pending(Acknowledge(s, k, location), k)
         /\ Acknowledge(s, k, location).resident[k] = Nothing
<1> DEFINE t == Acknowledge(s, k, location)
           x == ReconcileOf(s.state[k], location)
           q == s.prefetched \ {k}
<1>0. s \in SchType
  BY DEF SchOK
<1>1. ~Pending(s, k) /\ ~InUse(s, k)
  BY DEF CanAcknowledge, CanReconcile, Pending, InUse
<1>2. x \in ExpertRecord /\ x.state # "InUse"
  <2>1. s.state[k] \in ExpertRecord /\ location \in Tier
    BY <1>0, SchParts DEF Tier
  <2> QED BY <2>1 DEF ReconcileOf, ExpertRecord, LifecycleState
<1>3. s.pending = [s.pending EXCEPT ![k] = s.pending[k]] /\ s.pending[k] \in {NoTask} \cup Task
  BY <1>0, SchParts
<1>4. Nothing \in Transfer /\ q \in SUBSET Key
  BY <1>0, SchParts DEF Nothing, Transfer
<1>5. t = [state |-> [s.state EXCEPT ![k] = x], pending |-> s.pending,
           resident |-> [s.resident EXCEPT ![k] = Nothing], prefetched |-> q]
  <2>1. s = [state |-> s.state, pending |-> s.pending, resident |-> s.resident,
             prefetched |-> s.prefetched]
    BY <1>0 DEF SchType
  <2>2. t = [s EXCEPT !.resident[k] = Nothing, !.prefetched = q, !.state[k] = x]
    BY <2>1, Zenon DEF Acknowledge
  <2> HIDE DEF t, x, q
  <2> QED BY <2>1, <2>2
<1> HIDE DEF x, q, t
<1>6. Continues(s, [state |-> [s.state EXCEPT ![k] = x],
                    pending |-> [s.pending EXCEPT ![k] = s.pending[k]],
                    resident |-> [s.resident EXCEPT ![k] = Nothing], prefetched |-> q])
  BY <1>1, <1>2, <1>3, <1>4, OneKey DEF Pending
<1>7. Continues(s, t)
  BY <1>3, <1>5, <1>6
<1>8. ~Pending(t, k) /\ t.resident[k] = Nothing
  BY <1>0, <1>1, <1>5, SchParts DEF Pending
<1> QED BY <1>7, <1>8 DEF t

\* The tasks stay and no transfer is retained that was not.
Drops(s, t) ==
  /\ \A k \in Key : Pending(t, k) <=> Pending(s, k)
  /\ \A k \in Key : s.resident[k] = Nothing => t.resident[k] = Nothing

\* Dropping retained transfers of experts that are not in use.
LEMMA DropContinues ==
  ASSUME NEW s, SchOK(s), NEW gone, NEW reset \in SUBSET gone, NEW t,
         t = [s EXCEPT !.resident = [k \in Key |-> IF k \in gone THEN Nothing ELSE @[k]],
                       !.prefetched = @ \ gone,
                       !.state = [k \in Key |-> IF k \in reset THEN ReconcileOf(@[k], "Nvme")
                                                ELSE @[k]]],
         \A k \in Key : k \in reset => ~InUse(s, k)
  PROVE  Continues(s, t) /\ Drops(s, t)
<1>0. s \in SchType
  BY DEF SchOK
<1>1. /\ t = [state |-> t.state, pending |-> s.pending, resident |-> t.resident,
              prefetched |-> t.prefetched]
      /\ t.state = [k \in Key |-> IF k \in reset THEN ReconcileOf(s.state[k], "Nvme")
                                                 ELSE s.state[k]]
      /\ t.resident = [k \in Key |-> IF k \in gone THEN Nothing ELSE s.resident[k]]
      /\ t.prefetched = s.prefetched \ gone
      /\ t.pending = s.pending
  BY <1>0 DEF SchType
<1>2. \A k \in Key : ReconcileOf(s.state[k], "Nvme") \in ExpertRecord
                     /\ ReconcileOf(s.state[k], "Nvme").state = "Ready"
  <2>1. \A x \in ExpertRecord : /\ ReconcileOf(x, "Nvme") \in ExpertRecord
                               /\ ReconcileOf(x, "Nvme").state = "Ready"
    BY DEF ReconcileOf, ExpertRecord, LifecycleState, Tier
  <2> QED BY <1>0, <2>1, SchParts
<1>3. t \in SchType
  <2>1. t.state \in [Key -> ExpertRecord]
    BY <1>0, <1>1, <1>2, SchParts
  <2>2. Nothing \in Transfer
    BY DEF Nothing, Transfer
  <2>3. t.resident \in [Key -> Transfer]
    BY <1>0, <1>1, <2>2, SchParts
  <2>4. t.prefetched \subseteq Key /\ s.pending \in [Key -> {NoTask} \cup Task]
    BY <1>0, <1>1, SchParts
  <2> QED BY <1>1, <2>1, <2>3, <2>4 DEF SchType
<1>4. \A k \in Key : InUse(t, k) <=> InUse(s, k)
  BY <1>1, <1>2 DEF InUse
<1>5. \A k \in Key : Pending(t, k) <=> Pending(s, k)
  BY <1>1 DEF Pending
<1>6. \A k \in Key : s.resident[k] = Nothing => t.resident[k] = Nothing
  BY <1>1
<1> QED BY <1>3, <1>4, <1>5, <1>6 DEF Continues, SchOK, Drops

\* trimPrefetchCache.
LEMMA TrimContinues ==
  ASSUME NEW s, SchOK(s), NEW own
  PROVE  Continues(s, Trim(s, own)) /\ Drops(s, Trim(s, own))
<1> DEFINE over == OverBound(s)
<1>1. \A k \in Key : k \in over => ~InUse(s, k)
  BY DEF OverBound, SchOK
<1>2. Trim(s, own) =
        [s EXCEPT !.resident = [k \in Key |-> IF k \in over THEN Nothing ELSE @[k]],
                  !.prefetched = @ \ over,
                  !.state = [k \in Key |-> IF k \in over \ {own}
                                             THEN ReconcileOf(@[k], "Nvme") ELSE @[k]]]
  BY Zenon DEF Trim
<1> HIDE DEF over
<1> QED BY <1>1, <1>2, DropContinues

\* expirePrefetches, once none of the experts is busy.
LEMMA ExpireContinues ==
  ASSUME NEW s, SchOK(s), NEW gone, \A k \in gone : CanReconcile(s.state[k])
  PROVE  Continues(s, Expire(s, gone))
<1>1. \A k \in Key : k \in gone => ~InUse(s, k)
  BY DEF CanReconcile, InUse
<1> QED BY <1>1, DropContinues, Zenon DEF Expire

-----------------------------------------------------------------------------
(* The residency manager's budgets.                                         *)

\* There are finitely many keys.
LEMMA KeyFinite == IsFiniteSet(Key) /\ \A k \in Key : k # NoKey
<1>1. IsFiniteSet(0 .. LayerCount - 1)
  BY MoEAssumption, FS_Interval
<1>2. IsFiniteSet(Experts)
  BY ExpertFacts
<1>3. Key = (0 .. LayerCount - 1) \X Experts
  BY DEF Key, Experts
<1>4. IsFiniteSet((0 .. LayerCount - 1) \X Experts)
  BY <1>1, <1>2, FS_Product
<1>5. \A k \in Key : k # NoKey
  <2>1. \A a \in 0 .. LayerCount - 1, b \in Experts : <<a, b>> # <<>>
    OBVIOUS
  <2> QED BY <1>3, <2>1 DEF NoKey
<1> QED BY <1>3, <1>4, <1>5

\* Moving one expert changes the use of a tier by at most one.
LEMMA UsedFacts ==
  ASSUME NEW m \in [Key -> Placement], NEW k \in Key, NEW p \in Placement, NEW tier
  PROVE  LET u == Used(m, tier)
             w == Used([m EXCEPT ![k] = p], tier)
         IN  /\ u \in Nat /\ w \in Nat /\ w <= u + 1
             /\ (p.location # tier \/ m[k].location = tier) => w <= u
             /\ p.location # tier /\ m[k].location = tier => w = u - 1
<1> DEFINE n == [m EXCEPT ![k] = p]
           A == {j \in Key : m[j].location = tier}
           B == {j \in Key : n[j].location = tier}
<1>1. A \in SUBSET Key /\ B \in SUBSET Key
  OBVIOUS
<1>2. \A j \in Key : n[j] = IF j = k THEN p ELSE m[j]
  OBVIOUS
<1>3. Used(m, tier) = Cardinality(A) /\ Used(n, tier) = Cardinality(B)
  BY DEF Used
<1>4. /\ B \subseteq A \cup {k}
      /\ (p.location # tier \/ m[k].location = tier) => B \subseteq A
      /\ p.location # tier /\ m[k].location = tier => k \in A /\ B = A \ {k}
  <2> HIDE DEF n
  <2> QED BY <1>2
<1> HIDE DEF A, B, n
<1>5. IsFiniteSet(A) /\ IsFiniteSet(B) /\ Cardinality(A) \in Nat /\ Cardinality(B) \in Nat
  <2>1. IsFiniteSet(A) /\ IsFiniteSet(B)
    BY <1>1, KeyFinite, FS_Subset
  <2> QED BY <2>1, FS_CardinalityType
<1>6. Cardinality(B) <= Cardinality(A) + 1
  <2>1. IsFiniteSet(A \cup {k}) /\ Cardinality(A \cup {k}) \in {Cardinality(A), Cardinality(A) + 1}
    BY <1>5, FS_AddElement
  <2>2. Cardinality(B) <= Cardinality(A \cup {k})
    BY <1>4, <2>1, FS_Subset
  <2> QED BY <1>5, <2>1, <2>2
<1>7. B \subseteq A => Cardinality(B) <= Cardinality(A)
  BY <1>5, FS_Subset
<1>8. k \in A => Cardinality(A \ {k}) = Cardinality(A) - 1
  BY <1>5, FS_RemoveElement
<1> QED BY <1>3, <1>4, <1>5, <1>6, <1>7, <1>8 DEF n

\* The budget of a tier is a positive number.
LEMMA LimitFacts ==
  ASSUME mode \in Modes
  PROVE  mode.ram \in Nat \ {0} /\ mode.vram \in Nat \ {0}
  BY MoEAssumption

\* What making room leaves alone: the pinned experts and the leased one.
Keeps(m, r, pinned) ==
  /\ r \in [Key -> Placement]
  /\ \A j \in Key : j \in pinned \/ j = leased.key => r[j] = m[j]

\* Room for one expert in RAM.
LEMMA RamRoomFacts ==
  ASSUME mode \in Modes, NEW m \in [Key -> Placement], Used(m, "Ram") <= mode.ram,
         NEW pinned, NEW r \in RamRoom(m, pinned)
  PROVE  /\ Keeps(m, r, pinned)
         /\ Used(r, "Ram") < mode.ram /\ Used(r, "Vram") <= Used(m, "Vram")
         /\ Used(r, "Vram") \in Nat /\ Used(m, "Vram") \in Nat /\ Used(r, "Ram") \in Nat
<1>0. OnDisk \in Placement /\ OnDisk.location = "Nvme"
  BY DEF OnDisk, Placement
<1>a. mode.ram \in Nat
  BY LimitFacts
<1>1. CASE Used(m, "Ram") < mode.ram
  <2>1. r = m
    BY <1>1 DEF RamRoom
  <2>2. Used(m, "Ram") \in Nat /\ Used(m, "Vram") \in Nat
    <3>1. PICK k : k \in Key
      <4>1. LayerCount \in Nat \ {0} /\ Experts = 0 .. RouterConfig.expertCount - 1
            /\ RouterConfig.expertCount \in Nat \ {0}
        BY MoEAssumption, ExpertFacts
      <4>2. <<0, 0>> \in Key
        BY <4>1 DEF Key, Experts
      <4> QED BY <4>2
    <3> QED BY <1>0, <3>1, UsedFacts
  <2> QED BY <1>1, <2>1, <2>2 DEF Keeps
<1>2. CASE ~(Used(m, "Ram") < mode.ram)
  <2>1. PICK v \in Candidates(m, "Ram", pinned) : r = [m EXCEPT ![v] = OnDisk]
    BY <1>2 DEF RamRoom
  <2>2. v \in Key /\ v \notin pinned /\ v # leased.key /\ m[v].location = "Ram"
    BY DEF Candidates
  <2>3. /\ Used(r, "Ram") = Used(m, "Ram") - 1 /\ Used(m, "Ram") \in Nat /\ Used(r, "Ram") \in Nat
        /\ Used(r, "Vram") <= Used(m, "Vram") /\ Used(r, "Vram") \in Nat /\ Used(m, "Vram") \in Nat
    BY <1>0, <2>1, <2>2, UsedFacts
  <2>4. Keeps(m, r, pinned)
    BY <1>0, <2>1, <2>2 DEF Keeps
  <2> QED BY <1>a, <2>3, <2>4
<1> QED BY <1>1, <1>2

\* Only finitely many buffers are named, so there is a fresh one.
LEMMA FreshFacts ==
  ASSUME IsFiniteSet(DOMAIN handles), NEW k
  PROVE  Fresh(k) \in Nat \ {0}
<1> DEFINE D == DOMAIN handles
           Of(S) == UNION {HandleBuffers(handles[g]) : g \in S}
           P == {S \in SUBSET D : IsFiniteSet(Of(S))}
<1>1. \A a, b : IsFiniteSet({a, b})
  <2> TAKE a, b
  <2>1. {a, b} = {a} \cup {b}
    OBVIOUS
  <2>2. IsFiniteSet({a}) /\ IsFiniteSet({b})
    BY FS_Singleton
  <2>3. IsFiniteSet({a} \cup {b})
    BY <2>2, FS_Union
  <2> QED BY <2>1, <2>3
<1>2. \A t : IsFiniteSet(TransferBuffers(t))
  BY <1>1 DEF TransferBuffers
<1>3. \A h : IsFiniteSet(HandleBuffers(h))
  BY <1>2, FS_EmptySet DEF HandleBuffers
<1>4. IsFiniteSet(Of(D))
  <2>1. {} \in P
    <3>1. Of({}) = {}
      OBVIOUS
    <3> QED BY <3>1, FS_EmptySet
  <2>2. ASSUME NEW S \in SUBSET D, S # {}, \A x \in S : S \ {x} \in P PROVE S \in P
    <3>1. PICK x \in S : TRUE
      BY <2>2
    <3>2. Of(S) = Of(S \ {x}) \cup HandleBuffers(handles[x])
      BY <3>1
    <3>3. IsFiniteSet(Of(S \ {x}))
      BY <2>2, <3>1
    <3> HIDE DEF Of
    <3> QED BY <1>3, <3>2, <3>3, FS_Union
  <2>3. D \in P
    <3>1. IsFiniteSet(D)
      OBVIOUS
    <3> HIDE DEF P, D
    <3>2. \A S \in SUBSET D : S \in P
      BY <2>1, <2>2, <3>1, SubsetInduction
    <3> QED BY <3>2
  <2> QED BY <2>3
<1> DEFINE B == BuffersOf(k)
<1>5. IsFiniteSet(B)
  <2> HIDE DEF Of, D
  <2>1. \A t : IsFiniteSet(TaskBuffers(t))
    BY <1>2, FS_EmptySet, FS_Union DEF TaskBuffers
  <2>2. B = (({mgr[k].buffer} \cup TransferBuffers(sch.resident[k]))
               \cup TaskBuffers(sch.pending[k])) \cup Of(D)
    BY DEF BuffersOf, Of, D
  <2>3. IsFiniteSet({mgr[k].buffer} \cup TransferBuffers(sch.resident[k]))
    BY <1>2, FS_Singleton, FS_Union
  <2>4. IsFiniteSet(({mgr[k].buffer} \cup TransferBuffers(sch.resident[k]))
                      \cup TaskBuffers(sch.pending[k]))
    BY <2>1, <2>3, FS_Union
  <2> QED BY <1>4, <2>2, <2>4, FS_Union
<1> HIDE DEF B
<1> DEFINE c == Cardinality(B)
           Free == {n \in 1 .. c + 1 : n \notin B}
<1>6. c \in Nat
  BY <1>5, FS_CardinalityType
<1>7. Free # {}
  <2> SUFFICES ASSUME Free = {} PROVE FALSE
    OBVIOUS
  <2>1. 1 .. c + 1 \subseteq B
    OBVIOUS
  <2>2. Cardinality(1 .. c + 1) = c + 1
    <3> HIDE DEF c
    <3>1. 1 \in Int /\ c + 1 \in Int /\ 1 <= c + 1
      BY <1>6
    <3> QED BY <1>6, <3>1, FS_Interval
  <2>3. Cardinality(1 .. c + 1) <= c
    BY <1>5, <2>1, FS_Subset
  <2> QED BY <1>6, <2>2, <2>3
<1>8. PICK n \in Free : \A m \in Free : n <= m
  <2>1. Free \subseteq Nat
    BY <1>6
  <2> HIDE DEF Free
  <2> QED BY <1>7, <2>1, LeastNat
<1>9. /\ n \in 1 .. c + 1 /\ n \notin B
      /\ \A m \in 1 .. n - 1 : m \in B
  <2>1. n \in 1 .. c + 1 /\ n \notin B
    OBVIOUS
  <2>2. \A m \in 1 .. n - 1 : m \in 1 .. c + 1 /\ ~(n <= m)
    BY <1>6, <2>1
  <2> QED BY <1>8, <2>1, <2>2
<1> HIDE DEF Free
<1>10. Fresh(k) \in 1 .. c + 1
  BY <1>9 DEF Fresh, B
<1> QED BY <1>6, <1>10

\* Room for one expert on the device.
LEMMA VramRoomFacts ==
  ASSUME mode \in Modes, IsFiniteSet(DOMAIN handles),
         NEW m \in [Key -> Placement], Fits(m), NEW pinned, NEW r \in VramRoom(m, pinned)
  PROVE  /\ Keeps(m, r, pinned)
         /\ Used(r, "Vram") < mode.vram /\ Used(r, "Vram") \in Nat
         /\ Used(r, "Ram") <= mode.ram
<1>0. OnDisk \in Placement /\ OnDisk.location = "Nvme"
  BY DEF OnDisk, Placement
<1>a. mode.ram \in Nat /\ mode.vram \in Nat
  BY LimitFacts
<1>b. Used(m, "Ram") <= mode.ram /\ Used(m, "Vram") <= mode.vram
  BY DEF Fits
<1>1. CASE Used(m, "Vram") < mode.vram
  <2>1. r = m
    BY <1>1 DEF VramRoom
  <2>2. Used(m, "Vram") \in Nat
    <3> DEFINE S == {k \in Key : m[k].location = "Vram"}
    <3>1. S \subseteq Key
      OBVIOUS
    <3> HIDE DEF S
    <3>2. Cardinality(S) \in Nat
      BY <3>1, KeyFinite, FS_Subset, FS_CardinalityType
    <3> QED BY <3>2 DEF Used, S
  <2> QED BY <1>1, <1>b, <2>1, <2>2 DEF Keeps
<1>2. CASE ~(Used(m, "Vram") < mode.vram)
  <2>1. PICK v \in Candidates(m, "Vram", pinned) : r \in Demotions(m, v, pinned)
    BY <1>2 DEF VramRoom
  <2>2. v \in Key /\ v \notin pinned /\ v # leased.key /\ m[v].location = "Vram"
    BY DEF Candidates
  <2> DEFINE rooms == RamRoom(m, pinned \cup {v})
  <2>3. CASE rooms = {}
    <3>1. r = [m EXCEPT ![v] = OnDisk]
      BY <2>1, <2>3 DEF Demotions
    <3>2. /\ Used(r, "Vram") = Used(m, "Vram") - 1
          /\ Used(m, "Vram") \in Nat /\ Used(r, "Vram") \in Nat
      BY <1>0, <2>2, <3>1, UsedFacts
    <3>3. Used(r, "Ram") <= Used(m, "Ram") /\ Used(m, "Ram") \in Nat /\ Used(r, "Ram") \in Nat
      BY <1>0, <2>2, <3>1, UsedFacts
    <3>4. Keeps(m, r, pinned)
      BY <1>0, <2>2, <3>1 DEF Keeps
    <3> QED BY <1>a, <1>b, <3>2, <3>3, <3>4
  <2>4. CASE rooms # {}
    <3> DEFINE p == [location |-> "Ram", buffer |-> Fresh(v)]
    <3>1. PICK room \in rooms : r = [room EXCEPT ![v] = p]
      BY <2>1, <2>4, Zenon DEF Demotions
    <3>2. p \in Placement /\ p.location = "Ram"
      BY FreshFacts DEF Placement
    <3> HIDE DEF p
    <3>3. /\ Keeps(m, room, pinned \cup {v})
          /\ Used(room, "Ram") < mode.ram /\ Used(room, "Vram") <= Used(m, "Vram")
          /\ Used(room, "Vram") \in Nat /\ Used(m, "Vram") \in Nat /\ Used(room, "Ram") \in Nat
      BY <1>b, RamRoomFacts
    <3>4. room \in [Key -> Placement] /\ room[v] = m[v]
      BY <2>2, <3>3 DEF Keeps
    <3>5. Used(r, "Vram") = Used(room, "Vram") - 1 /\ Used(r, "Vram") \in Nat
      <4> DEFINE w == [room EXCEPT ![v] = p]
      <4>1. p.location # "Vram" /\ room[v].location = "Vram"
        BY <2>2, <3>2, <3>4
      <4>2. Used(w, "Vram") = Used(room, "Vram") - 1 /\ Used(w, "Vram") \in Nat
        BY <2>2, <3>2, <3>4, <4>1, UsedFacts, ZenonT(40)
      <4> QED BY <3>1, <4>2
    <3>6. Used(r, "Ram") <= Used(room, "Ram") + 1 /\ Used(r, "Ram") \in Nat
      BY <2>2, <3>1, <3>2, <3>4, UsedFacts
    <3>7. Keeps(m, r, pinned)
      BY <2>2, <3>1, <3>2, <3>3 DEF Keeps
    <3> QED BY <1>a, <1>b, <3>3, <3>5, <3>6, <3>7
  <2> QED BY <2>3, <2>4
<1> QED BY <1>1, <1>2

\* Room in either tier.
LEMMA MakeRoomFacts ==
  ASSUME mode \in Modes, IsFiniteSet(DOMAIN handles), NEW m \in [Key -> Placement], Fits(m),
         NEW tier \in {"Ram", "Vram"}, NEW k \in Key, NEW r \in MakeRoom(m, tier, k)
  PROVE  /\ Keeps(m, r, {k}) /\ Fits(r)
         /\ Used(r, tier) \in Nat /\ Used(r, tier) < Limit(tier)
<1>a. mode.ram \in Nat /\ mode.vram \in Nat
  BY LimitFacts
<1>b. Used(m, "Ram") <= mode.ram /\ Used(m, "Vram") <= mode.vram
  BY DEF Fits
<1>1. CASE tier = "Ram"
  <2>1. r \in RamRoom(m, {k}) /\ Limit(tier) = mode.ram
    BY <1>1 DEF MakeRoom, Limit
  <2>2. /\ Keeps(m, r, {k})
        /\ Used(r, "Ram") < mode.ram /\ Used(r, "Vram") <= Used(m, "Vram")
        /\ Used(r, "Vram") \in Nat /\ Used(m, "Vram") \in Nat /\ Used(r, "Ram") \in Nat
    BY <1>b, <2>1, RamRoomFacts
  <2> QED BY <1>1, <1>a, <1>b, <2>1, <2>2 DEF Fits
<1>2. CASE tier = "Vram"
  <2>1. r \in VramRoom(m, {k}) /\ Limit(tier) = mode.vram
    BY <1>2 DEF MakeRoom, Limit
  <2>2. /\ Keeps(m, r, {k})
        /\ Used(r, "Vram") < mode.vram /\ Used(r, "Vram") \in Nat
        /\ Used(r, "Ram") <= mode.ram
    BY <2>1, VramRoomFacts
  <2> QED BY <1>2, <1>a, <2>1, <2>2 DEF Fits
<1> QED BY <1>1, <1>2

\* An adoption keeps the budgets and the leased expert, unless it is its own.
LEMMA AdoptFacts ==
  ASSUME mode \in Modes, IsFiniteSet(DOMAIN handles), mgr \in [Key -> Placement], Fits(mgr),
         NEW tier \in {"Ram", "Vram"}, NEW k \in Key, NEW buffer \in Nat,
         NEW r \in Adopt(k, tier, buffer)
  PROVE  /\ r \in [Key -> Placement] /\ Fits(r) /\ r[k].location = tier
         /\ \A j \in Key : j = leased.key /\ j # k => r[j] = mgr[j]
         /\ mgr[k].location = tier => r = mgr
<1>1. CASE mgr[k].location = tier
  <2>1. r = mgr
    BY <1>1 DEF Adopt
  <2> QED BY <1>1, <2>1
<1>2. CASE mgr[k].location # tier
  <2> DEFINE p == [location |-> tier, buffer |-> buffer]
  <2>1. PICK m \in MakeRoom(mgr, tier, k) : r = [m EXCEPT ![k] = p]
    BY <1>2 DEF Adopt
  <2>2. p \in Placement /\ p.location = tier
    BY DEF Placement
  <2> HIDE DEF p
  <2>3. /\ Keeps(mgr, m, {k}) /\ Fits(m)
        /\ Used(m, tier) \in Nat /\ Used(m, tier) < Limit(tier)
    BY MakeRoomFacts
  <2>4. m \in [Key -> Placement] /\ m[k] = mgr[k]
    BY <2>3 DEF Keeps
  <2>5. \A u \in {"Ram", "Vram"} :
          /\ Used(m, u) \in Nat /\ Used(r, u) \in Nat
          /\ Used(r, u) <= Used(m, u) + 1
          /\ u # tier => Used(r, u) <= Used(m, u)
    BY <2>1, <2>2, <2>4, UsedFacts
  <2>6. Used(r, tier) <= Limit(tier)
    <3>1. Limit(tier) \in Nat
      BY LimitFacts DEF Limit
    <3> QED BY <2>3, <2>5, <3>1
  <2>7. Fits(r)
    <3>1. mode.ram \in Nat /\ mode.vram \in Nat
      BY LimitFacts
    <3>2. Used(m, "Ram") <= mode.ram /\ Used(m, "Vram") <= mode.vram
      BY <2>3 DEF Fits
    <3>3. CASE tier = "Ram"
      BY <2>5, <2>6, <3>1, <3>2, <3>3 DEF Fits, Limit
    <3>4. CASE tier = "Vram"
      BY <2>5, <2>6, <3>1, <3>2, <3>4 DEF Fits, Limit
    <3> QED BY <3>3, <3>4
  <2> QED BY <1>2, <2>1, <2>2, <2>3, <2>4, <2>7 DEF Keeps
<1> QED BY <1>1, <1>2

-----------------------------------------------------------------------------
(* What the transition database has seen, and what is predicted from it.    *)

\* The function AddAll folds with, on the subsets of S.
Adds(g, bag, items, S) ==
  g = [s \in SUBSET S |-> IF s = {} THEN bag
                          ELSE g[s \ {Pick(s)}] (+) SetToBag({items[Pick(s)]})]

\* The function exists, by induction on the size of the subsets.
LEMMA AddsExists ==
  ASSUME NEW U, IsFiniteSet(U), NEW bag, NEW items
  PROVE  \E g : Adds(g, bag, items, U)
<1> DEFINE Small(n) == {s \in SUBSET U : Cardinality(s) <= n}
           Value(g, s) == IF s = {} THEN bag
                          ELSE g[s \ {Pick(s)}] (+) SetToBag({items[Pick(s)]})
           Upto(n) == \E g : g = [s \in Small(n) |-> Value(g, s)]
           P == {n \in Nat : Upto(n)}
<1>0. \A s \in SUBSET U : IsFiniteSet(s) /\ Cardinality(s) \in Nat
  BY FS_Subset, FS_CardinalityType
<1>1. \A s \in SUBSET U : s # {} =>
        /\ Pick(s) \in s /\ s \ {Pick(s)} \in SUBSET U
        /\ Cardinality(s \ {Pick(s)}) = Cardinality(s) - 1
  BY <1>0, FS_RemoveElement DEF Pick
<1>2. 0 \in P
  <2> DEFINE g == [s \in Small(0) |-> bag]
  <2>1. \A s \in Small(0) : s = {}
    BY <1>0, FS_EmptySet
  <2>2. \A s \in Small(0) : Value(g, s) = bag
    BY <2>1
  <2>3. g = [s \in Small(0) |-> Value(g, s)]
    <3> HIDE DEF Value
    <3> QED BY <2>2
  <2> QED BY <2>3
<1>3. \A n \in Nat : n \in P => n + 1 \in P
  <2>0. SUFFICES ASSUME NEW n \in Nat, Upto(n) PROVE Upto(n + 1)
    <3> HIDE DEF Upto
    <3> QED OBVIOUS
  <2>1. PICK g : g = [s \in Small(n) |-> Value(g, s)]
    BY <2>0
  <2> DEFINE h == [s \in Small(n + 1) |-> Value(g, s)]
  <2>2. Small(n) \subseteq Small(n + 1)
    BY <1>0
  <2>3. \A s \in Small(n) : h[s] = g[s]
    <3> HIDE DEF Value, Small
    <3> QED BY <2>1, <2>2
  <2>4. \A s \in Small(n + 1) : s # {} => s \ {Pick(s)} \in Small(n)
    BY <1>0, <1>1
  <2>5. \A s \in Small(n + 1) : Value(g, s) = Value(h, s)
    <3> HIDE DEF h, Small
    <3> QED BY <2>3, <2>4
  <2>6. h = [s \in Small(n + 1) |-> Value(h, s)]
    <3> HIDE DEF Value, Small
    <3> QED BY <2>5
  <2> HIDE DEF h
  <2> QED BY <2>6
<1>4. Upto(Cardinality(U))
  <2> HIDE DEF Upto
  <2>1. \A n \in Nat : n \in P
    <3> HIDE DEF P
    <3> QED BY <1>2, <1>3, NatSetInduction
  <2> QED BY <1>0, <2>1
<1>5. Small(Cardinality(U)) = SUBSET U
  BY FS_Subset, <1>0
<1> QED BY <1>4, <1>5 DEF Adds

\* The elements of a bag after AddAll are the old ones and the items.
LEMMA AddAllDomain ==
  ASSUME NEW bag, NEW items, IsFiniteSet(DOMAIN items), NEW K, DOMAIN bag \subseteq K,
         \A i \in DOMAIN items : items[i] \in K
  PROVE  DOMAIN AddAll(bag, items) \subseteq K
<1> DEFINE S == DOMAIN items
           g == CHOOSE f : Adds(f, bag, items, S)
<1>1. AddAll(bag, items) = g[S]
  BY Zenon DEF AddAll, FoldSeq, FoldFunction, FoldFunctionOnSet, MapThenFoldSet, Adds, Pick
<1>2. Adds(g, bag, items, S)
  BY AddsExists
<1> HIDE DEF g
<1> DEFINE P == {s \in SUBSET S : DOMAIN g[s] \subseteq K}
<1>3. \A s \in SUBSET S : g[s] = IF s = {} THEN bag
                                 ELSE g[s \ {Pick(s)}] (+) SetToBag({items[Pick(s)]})
  BY <1>2 DEF Adds
<1>4. {} \in P
  BY <1>3
<1>5. ASSUME NEW s \in SUBSET S, s # {}, \A x \in s : s \ {x} \in P PROVE s \in P
  <2>1. Pick(s) \in s
    BY <1>5 DEF Pick
  <2> DEFINE old == g[s \ {Pick(s)}]
             x == items[Pick(s)]
  <2>2. DOMAIN old \subseteq K /\ x \in K
    BY <1>5, <2>1
  <2>3. g[s] = old (+) SetToBag({x})
    BY <1>3, <1>5
  <2>4. DOMAIN (old (+) SetToBag({x})) = DOMAIN old \cup {x}
    <3> HIDE DEF old, x
    <3> QED BY DEF (+), SetToBag
  <2> HIDE DEF old, x
  <2> QED BY <2>2, <2>3, <2>4
<1>6. \A s \in SUBSET S : s \in P
  <2> HIDE DEF P
  <2> QED BY <1>4, <1>5, SubsetInduction
<1> QED BY <1>1, <1>6

\* Recording a decision of a known layer keeps the database within the keys.
LEMMA RecordFacts ==
  ASSUME NEW db, DOMAIN db.frequency \subseteq Key, NEW decision, NEW stream,
         decision.layer \in 0 .. LayerCount - 1,
         DOMAIN decision.selected = 1 .. RouterConfig.topK,
         ToSet(decision.selected) \subseteq Experts
  PROVE  DOMAIN Record(db, decision, stream).frequency \subseteq Key
<1> DEFINE items == SelectionsOf(decision)
<1>1. items = [rank \in 1 .. RouterConfig.topK |-> <<decision.layer, decision.selected[rank]>>]
  BY DEF SelectionsOf
<1>2. \A rank \in 1 .. RouterConfig.topK : decision.selected[rank] \in Experts
  BY DEF ToSet
<1>3. \A rank \in DOMAIN items : items[rank] \in Key
  <2> HIDE DEF items
  <2> QED BY <1>1, <1>2 DEF Key, Experts
<1>4. IsFiniteSet(DOMAIN items)
  <2>1. IsFiniteSet(1 .. RouterConfig.topK)
    BY ExpertFacts, FS_Interval
  <2> QED BY <1>1, <2>1
<1>5. Record(db, decision, stream).frequency = AddAll(db.frequency, items)
  BY DEF Record
<1> HIDE DEF items
<1> QED BY <1>3, <1>4, <1>5, AddAllDomain

\* A sequence of predictions about keys.
Predictions(s) ==
  /\ Len(s) \in Nat /\ DOMAIN s = 1 .. Len(s)
  /\ \A i \in DOMAIN s : <<s[i].layer, s[i].expert>> \in Key

\* What is predicted from a database within the keys.
LEMMA PredictFacts ==
  ASSUME NEW db, DOMAIN db.frequency \subseteq Key, NEW layer, NEW selected,
         NEW predictions \in PredictDetailed(db, layer, selected)
  PROVE  Predictions(predictions)
<1> DEFINE sources == IF selected = <<>> THEN PreviousSelections(db, 1)
                      ELSE [rank \in DOMAIN selected |-> <<layer, selected[rank]>>]
           seen == {y \in DOMAIN db.frequency : y[1] = layer + 1}
           cand(x) == [expert |-> x[2], frequency |-> db.frequency[x],
                       supported |-> Cardinality({s \in DOMAIN sources :
                                       BagIn(<<sources[s], x>>, db.transitions)})]
           stats == PredictionStatistics(db, layer + 1, sources)
           made(c) == [expert |-> c.expert, layer |-> layer + 1,
                       confidence |-> Confidence(c, Len(sources))]
           scored == {made(c) : c \in stats}
           kept == {p \in scored : p.confidence >= MinimumConfidence}
           count == IF Cardinality(kept) < MaximumPredictions
                      THEN Cardinality(kept) ELSE MaximumPredictions
<1>1. PredictDetailed(db, layer, selected) =
        IF sources = <<>> THEN {<<>>}
        ELSE {SubSeq(order, 1, count) : order \in SetToSeqs(kept)}
  BY Zenon DEF PredictDetailed
<1>2. stats = {cand(x) : x \in seen}
  BY Zenon DEF PredictionStatistics, BagToSet
<1> HIDE DEF sources
<1>3. CASE sources = <<>>
  <2>1. predictions = <<>>
    BY <1>1, <1>3
  <2> QED BY <2>1 DEF Predictions
<1>4. CASE sources # <<>>
  <2> DEFINE f == [x \in seen |-> made(cand(x))]
  <2>1. scored = {f[x] : x \in seen}
    <3> HIDE DEF made, cand, stats
    <3>1. scored = {made(cand(x)) : x \in seen}
      BY <1>2
    <3> HIDE DEF scored, seen
    <3> QED BY <3>1
  <2>2. \A x \in seen : f[x].layer = layer + 1 /\ f[x].expert = x[2]
    OBVIOUS
  <2>3. \A x \in seen : <<layer + 1, x[2]>> = x /\ x \in Key
    BY DEF Key
  <2>4. DOMAIN f = seen /\ IsFiniteSet(seen) /\ f = [x \in seen |-> f[x]]
    <3>1. seen \subseteq Key
      OBVIOUS
    <3> HIDE DEF seen
    <3> QED BY <3>1, KeyFinite, FS_Subset
  <2> HIDE DEF f, seen, made, cand, stats
  <2>5. f \in Surjection(seen, scored)
    <3> HIDE DEF scored
    <3> QED BY <2>1, <2>4 DEF Surjection
  <2>6. IsFiniteSet(scored)
    <3> HIDE DEF scored
    <3> QED BY <2>4, <2>5, FS_Surjection
  <2>7. \A p \in scored : <<p.layer, p.expert>> \in Key
    BY <2>1, <2>2, <2>3
  <2>8. kept \subseteq scored
    OBVIOUS
  <2> HIDE DEF scored
  <2>9. IsFiniteSet(kept)
    <3> HIDE DEF kept
    <3> QED BY <2>6, <2>8, FS_Subset
  <2>10. PICK order \in SetToSeqs(kept) : predictions = SubSeq(order, 1, count)
    BY <1>1, <1>4
  <2> HIDE DEF kept
  <2> DEFINE n == Cardinality(kept)
  <2>11. n \in Nat /\ count \in 0 .. n
    <3>1. n \in Nat
      BY <2>9, FS_CardinalityType
    <3> QED BY <3>1, MoEAssumption
  <2>12. order \in [1 .. n -> kept]
    BY DEF SetToSeqs
  <2> HIDE DEF n, count
  <2>13. order \in Seq(kept) /\ Len(order) = n
    BY <2>11, <2>12
  <2>14. predictions = [i \in 1 .. count |-> order[i]]
    BY <2>10, <2>11, <2>12, <2>13
  <2>15. Len(predictions) = count
    BY <2>11, <2>14
  <2>16. \A i \in 1 .. count : predictions[i] \in kept
    BY <2>11, <2>12, <2>14
  <2> QED BY <2>7, <2>8, <2>11, <2>14, <2>15, <2>16 DEF Predictions
<1> QED BY <1>3, <1>4

\* The predictor q is p with at most n more suppressed prefetches.
Suppressed(p, q, n) ==
  /\ q = [pending |-> p.pending, quality |-> q.quality] /\ q.quality \in Quality
  /\ \A f \in {"opportunities", "predictions", "top1Correct", "topKCovered",
              "usefulPredictions", "wastedPredictions"} : q.quality[f] = p.quality[f]
  /\ q.quality.suppressedPrefetches <= p.quality.suppressedPrefetches + n

\* One step of offering the predictions.
OfferStep(before, p) ==
  LET k == <<p.layer, p.expert>>
      kind == ScheduleKind(before.s, k, PrefetchRequest)
  IN  IF ~before.ok THEN before
      ELSE IF ~ShouldPrefetch(p)
        THEN [before EXCEPT !.predictor = Suppress(@)]
      ELSE [before EXCEPT !.s = ScheduleOf(@, k, PrefetchRequest),
                          !.kind = kind, !.ok = Accepts(kind)]

Unoffered(s, judged) == [s |-> s, predictor |-> judged, kind |-> "ready", ok |-> TRUE]

Offers(f, s, judged, predictions, m) ==
  f = [n \in 0 .. m |-> IF n = 0 THEN Unoffered(s, judged)
                        ELSE OfferStep(f[n - 1], predictions[n])]

\* The recursive function of Offer exists.
LEMMA OffersExist ==
  ASSUME NEW s, NEW judged, NEW predictions, NEW m \in Nat
  PROVE  \E f : Offers(f, s, judged, predictions, m)
<1> DEFINE Value(f, n) == IF n = 0 THEN Unoffered(s, judged)
                          ELSE OfferStep(f[n - 1], predictions[n])
           Upto(n) == \E f : f = [i \in 0 .. n |-> Value(f, i)]
           P == {n \in Nat : Upto(n)}
<1>1. \A f, h, n : (n \in Nat \ {0} => f[n - 1] = h[n - 1]) /\ n \in Nat => Value(f, n) = Value(h, n)
  OBVIOUS
<1> HIDE DEF Value
<1>2. 0 \in P
  <2> DEFINE f == [i \in 0 .. 0 |-> Value(<<>>, 0)]
  <2>1. \A i \in 0 .. 0 : i = 0
    OBVIOUS
  <2>2. Value(<<>>, 0) = Value(f, 0)
    <3> HIDE DEF f
    <3> QED BY <1>1
  <2>3. f = [i \in 0 .. 0 |-> Value(f, i)]
    BY <2>1, <2>2
  <2> HIDE DEF f
  <2> QED BY <2>3
<1>3. \A n \in Nat : n \in P => n + 1 \in P
  <2>0. SUFFICES ASSUME NEW n \in Nat, Upto(n) PROVE Upto(n + 1)
    <3> HIDE DEF Upto
    <3> QED OBVIOUS
  <2>1. PICK f : f = [i \in 0 .. n |-> Value(f, i)]
    BY <2>0
  <2> DEFINE h == [i \in 0 .. n + 1 |-> Value(f, i)]
  <2>2. \A i \in 0 .. n : h[i] = f[i]
    BY <2>1
  <2>3. \A i \in 0 .. n + 1 : Value(f, i) = Value(h, i)
    <3> SUFFICES ASSUME NEW i \in 0 .. n + 1 PROVE Value(f, i) = Value(h, i)
      OBVIOUS
    <3> HIDE DEF h
    <3>1. i \in Nat \ {0} => i - 1 \in 0 .. n
      OBVIOUS
    <3> QED BY <1>1, <2>2, <3>1
  <2>4. h = [i \in 0 .. n + 1 |-> Value(h, i)]
    BY <2>3
  <2> HIDE DEF h
  <2> QED BY <2>4
<1>4. m \in P
  <2> HIDE DEF P
  <2> QED BY <1>2, <1>3, NatSetInduction
<1> QED BY <1>4 DEF Offers, Value

\* Offering the predictions continues the scheduler's state; of the predictor
\* only the suppressed prefetches change, by one per prediction at most.
LEMMA OfferFacts ==
  ASSUME NEW s, SchOK(s), NEW judged, NEW predictions, Predictions(predictions),
         judged = [pending |-> judged.pending, quality |-> judged.quality],
         judged.quality \in Quality
  PROVE  /\ Continues(s, Offer(s, judged, predictions).s)
         /\ Suppressed(judged, Offer(s, judged, predictions).predictor, Len(predictions))
         /\ ~Offer(s, judged, predictions).ok =>
              Offer(s, judged, predictions).kind \in {"pendingTarget", "transition"}
<1> DEFINE m == Len(predictions)
           g == CHOOSE f : Offers(f, s, judged, predictions, m)
<1>0. m \in Nat
  BY DEF Predictions
<1>1. Offer(s, judged, predictions) = g[m]
  BY Zenon DEF Offer, Offers, OfferStep, Unoffered
<1>2. Offers(g, s, judged, predictions, m)
  BY <1>0, OffersExist
<1> HIDE DEF g, m
<1>3. \A n \in 0 .. m : g[n] = IF n = 0 THEN Unoffered(s, judged)
                              ELSE OfferStep(g[n - 1], predictions[n])
  BY <1>2 DEF Offers
<1> DEFINE Good(x, n) ==
             /\ x = [s |-> x.s, predictor |-> x.predictor, kind |-> x.kind, ok |-> x.ok]
             /\ ~x.ok => x.kind \in {"pendingTarget", "transition"}
             /\ Continues(s, x.s)
             /\ Suppressed(judged, x.predictor, n)
           P == {n \in Nat : n <= m => Good(g[n], n)}
<1>4. 0 \in P
  <2>1. g[0] = Unoffered(s, judged)
    <3>1. 0 \in 0 .. m
      BY <1>0
    <3> QED BY <1>3, <3>1, Zenon
  <2>2. Suppressed(judged, judged, 0)
    BY DEF Suppressed, Quality
  <2>3. Continues(s, s)
    BY ContinuesFacts
  <2>4. Good(g[0], 0)
    <3> HIDE DEF m
    <3> QED BY <2>1, <2>2, <2>3 DEF Unoffered
  <2> HIDE DEF Good
  <2> QED BY <2>4
<1>5. ASSUME NEW n \in Nat, n \in P PROVE n + 1 \in P
  <2> DEFINE before == g[n]
             p == predictions[n + 1]
             k == <<p.layer, p.expert>>
             after == g[n + 1]
  <2> SUFFICES ASSUME n + 1 <= m PROVE Good(after, n + 1)
    <3> HIDE DEF Good
    <3> QED OBVIOUS
  <2>1. Good(before, n)
    BY <1>0, <1>5
  <2>2. k \in Key
    BY <1>0 DEF Predictions, m
  <2>3. after = OfferStep(before, p)
    BY <1>0, <1>3
  <2> HIDE DEF before, p, k, after
  <2>a. Suppressed(judged, before.predictor, n + 1)
    BY <2>1 DEF Suppressed, Quality
  <2>4. CASE after = before
    BY <2>1, <2>4, <2>a
  <2>5. CASE after = [before EXCEPT !.predictor = Suppress(@)]
    <3> DEFINE old == before.predictor
               new == after.predictor
    <3>1. new = Suppress(old) /\ after.s = before.s /\ after.kind = before.kind
          /\ after.ok = before.ok
          /\ after = [s |-> after.s, predictor |-> after.predictor, kind |-> after.kind,
                      ok |-> after.ok]
      BY <2>1, <2>5
    <3>2. Suppressed(judged, old, n)
      BY <2>1
    <3> HIDE DEF old, new
    <3> DEFINE q == old.quality
    <3>3. old = [pending |-> judged.pending, quality |-> q] /\ q \in Quality
      BY <3>2 DEF Suppressed
    <3> HIDE DEF q
    <3>4. new = [pending |-> judged.pending,
                 quality |-> [q EXCEPT !.suppressedPrefetches = @ + 1]]
      BY <3>1, <3>3 DEF Suppress
    <3>5. new = [pending |-> judged.pending, quality |-> new.quality]
          /\ new.quality = [q EXCEPT !.suppressedPrefetches = @ + 1]
      BY <3>4
    <3>6. new.quality \in Quality /\ new.quality.suppressedPrefetches = q.suppressedPrefetches + 1
          /\ \A f \in {"opportunities", "predictions", "top1Correct", "topKCovered",
                      "usefulPredictions", "wastedPredictions"} : new.quality[f] = q[f]
      BY <3>3, <3>5 DEF Quality
    <3>7. Suppressed(judged, new, n + 1)
      BY <3>2, <3>3, <3>5, <3>6 DEF Suppressed, q, Quality
    <3> QED BY <2>1, <3>1, <3>7 DEF new
  <2> DEFINE kind == ScheduleKind(before.s, k, PrefetchRequest)
  <2>6. CASE after = [before EXCEPT !.s = ScheduleOf(@, k, PrefetchRequest),
                                    !.kind = kind, !.ok = Accepts(kind)]
    <3>1. SchOK(before.s)
      BY <2>1 DEF Continues
    <3>2. PrefetchRequest \in RequestType
      BY DEF PrefetchRequest, Request, RequestType, Nothing, Transfer
    <3>3. /\ Continues(before.s, ScheduleOf(before.s, k, PrefetchRequest))
          /\ kind \in {"pendingTarget", "join", "ready", "new", "transition"}
      BY <2>2, <3>1, <3>2, ScheduleContinues
    <3>4. Continues(s, ScheduleOf(before.s, k, PrefetchRequest))
      BY <2>1, <3>3, ContinuesFacts
    <3>5. /\ after.s = ScheduleOf(before.s, k, PrefetchRequest)
          /\ after.predictor = before.predictor /\ after.kind = kind /\ after.ok = Accepts(kind)
          /\ after = [s |-> after.s, predictor |-> after.predictor, kind |-> after.kind,
                      ok |-> after.ok]
      BY <2>1, <2>6
    <3> HIDE DEF kind
    <3>6. ~after.ok => after.kind \in {"pendingTarget", "transition"}
      BY <3>3, <3>5 DEF Accepts
    <3> QED BY <2>a, <3>4, <3>5, <3>6
  <2>7. \/ after = before
        \/ after = [before EXCEPT !.predictor = Suppress(@)]
        \/ after = [before EXCEPT !.s = ScheduleOf(@, k, PrefetchRequest),
                                   !.kind = kind, !.ok = Accepts(kind)]
    BY <2>3, Zenon DEF OfferStep, k
  <2> HIDE DEF Good
  <2> QED BY <2>4, <2>5, <2>6, <2>7
<1>6. Good(g[m], m)
  <2> HIDE DEF Good
  <2>1. m \in P
    <3> HIDE DEF P
    <3> QED BY <1>0, <1>4, <1>5, NatSetInduction
  <2> QED BY <1>0, <2>1
<1> QED BY <1>1, <1>6 DEF m

-----------------------------------------------------------------------------
(* The predictor's counters.                                                *)

\* Judging a stream's predictions moves them from the outstanding ones to the
\* useful and the wasted ones.
LEMMA JudgeAccounts ==
  ASSUME NEW p, Accounts(p), NEW decision, NEW stream
  PROVE  Accounts(Judge(p, decision, stream))
<1> DEFINE pending == p.pending
           q == p.quality
           predicted == Outstanding(p, stream)
           hits == {i \in DOMAIN predicted : predicted[i].expert \in ToSet(decision.selected)}
           one(b) == IF b THEN 1 ELSE 0
           n == Len(predicted)
           h == Cardinality(hits)
           a == one(1 \in hits)
           b == one(hits # {})
           judged == [q EXCEPT !.opportunities = @ + 1,
                               !.top1Correct = @ + a,
                               !.topKCovered = @ + b,
                               !.usefulPredictions = @ + h,
                               !.wastedPredictions = @ + n - h]
           new == [pending |-> Forget(pending, stream), quality |-> judged]
<1>0. Judge(p, decision, stream) = p \/ (predicted # <<>> /\ Judge(p, decision, stream) = new)
  BY Zenon DEF Judge
<1> SUFFICES ASSUME predicted # <<>> PROVE Accounts(new)
  BY <1>0
<1>1. stream \in DOMAIN pending /\ predicted = pending[stream]
  BY DEF Outstanding
<1>2. n \in Nat /\ DOMAIN predicted = 1 .. n
  BY <1>1 DEF Accounts
<1>3. hits \subseteq 1 .. n
  BY <1>2
<1> HIDE DEF predicted, hits
<1>4. IsFiniteSet(hits) /\ h \in Nat /\ h <= n /\ (hits # {} => h >= 1)
  <2>1. IsFiniteSet(1 .. n) /\ Cardinality(1 .. n) = n
    BY <1>2, FS_Interval
  <2>2. IsFiniteSet(hits) /\ h <= n
    BY <1>3, <2>1, FS_Subset
  <2>3. h \in Nat
    BY <2>2, FS_CardinalityType
  <2>4. hits # {} => h # 0
    BY <2>2, FS_EmptySet
  <2> QED BY <2>2, <2>3, <2>4
<1>5. a \in 0 .. 1 /\ b \in 0 .. 1 /\ a <= b /\ b <= h
  BY <1>4
<1> HIDE DEF h, n, a, b, one
<1>6. q \in Quality
  BY DEF Accounts
<1>a. judged = [opportunities |-> q.opportunities + 1, predictions |-> q.predictions,
                top1Correct |-> q.top1Correct + a, topKCovered |-> q.topKCovered + b,
                usefulPredictions |-> q.usefulPredictions + h,
                wastedPredictions |-> q.wastedPredictions + n - h,
                suppressedPrefetches |-> q.suppressedPrefetches]
  <2>1. q = [opportunities |-> q.opportunities, predictions |-> q.predictions,
             top1Correct |-> q.top1Correct, topKCovered |-> q.topKCovered,
             usefulPredictions |-> q.usefulPredictions,
             wastedPredictions |-> q.wastedPredictions,
             suppressedPrefetches |-> q.suppressedPrefetches]
    BY <1>6 DEF Quality
  <2> DEFINE q1 == [q EXCEPT !.opportunities = @ + 1]
             q2 == [q1 EXCEPT !.top1Correct = @ + a]
             q3 == [q2 EXCEPT !.topKCovered = @ + b]
             q4 == [q3 EXCEPT !.usefulPredictions = @ + h]
             q5 == [q4 EXCEPT !.wastedPredictions = @ + n - h]
             At(o, t, k, u, w) ==
               [opportunities |-> o, predictions |-> q.predictions, top1Correct |-> t,
                topKCovered |-> k, usefulPredictions |-> u, wastedPredictions |-> w,
                suppressedPrefetches |-> q.suppressedPrefetches]
  <2>2. judged = q5
    OBVIOUS
  <2> HIDE DEF q, judged
  <2>3. q1 = At(q.opportunities + 1, q.top1Correct, q.topKCovered, q.usefulPredictions,
                q.wastedPredictions)
    BY <2>1
  <2>4. q2 = At(q.opportunities + 1, q.top1Correct + a, q.topKCovered, q.usefulPredictions,
                q.wastedPredictions)
    <3> HIDE DEF q1
    <3> QED BY <2>3
  <2>5. q3 = At(q.opportunities + 1, q.top1Correct + a, q.topKCovered + b,
                q.usefulPredictions, q.wastedPredictions)
    <3> HIDE DEF q2
    <3> QED BY <2>4
  <2>6. q4 = At(q.opportunities + 1, q.top1Correct + a, q.topKCovered + b,
                q.usefulPredictions + h, q.wastedPredictions)
    <3> HIDE DEF q3
    <3> QED BY <2>5
  <2>7. q5 = At(q.opportunities + 1, q.top1Correct + a, q.topKCovered + b,
                q.usefulPredictions + h, q.wastedPredictions + n - h)
    <3> HIDE DEF q4
    <3> QED BY <2>6
  <2> HIDE DEF q5
  <2> QED BY <2>2, <2>7
<1>16. /\ q.opportunities \in Nat /\ q.predictions \in Nat /\ q.top1Correct \in Nat
       /\ q.topKCovered \in Nat /\ q.usefulPredictions \in Nat
       /\ q.wastedPredictions \in Nat /\ q.suppressedPrefetches \in Nat
  BY <1>6 DEF Quality
<1> HIDE DEF judged
<1>7. /\ judged.opportunities = q.opportunities + 1
      /\ judged.top1Correct = q.top1Correct + a
      /\ judged.topKCovered = q.topKCovered + b
      /\ judged.usefulPredictions = q.usefulPredictions + h
      /\ judged.wastedPredictions = q.wastedPredictions + n - h
      /\ judged.predictions = q.predictions
      /\ judged.suppressedPrefetches = q.suppressedPrefetches
  BY <1>a
<1>b. judged \in Quality
  <2>1. q.opportunities + 1 \in Nat /\ q.top1Correct + a \in Nat /\ q.topKCovered + b \in Nat
    BY <1>5, <1>16
  <2>2. q.usefulPredictions + h \in Nat /\ q.wastedPredictions + n - h \in Nat
    BY <1>2, <1>4, <1>16, SMTT(40)
  <2> QED BY <1>16, <1>a, <2>1, <2>2 DEF Quality
<1> DEFINE rest == Forget(pending, stream)
           D == DOMAIN pending
<1>8. DOMAIN rest = D \ {stream} /\ \A s \in DOMAIN rest : rest[s] = pending[s]
  BY DEF Forget
<1>9. /\ IsFiniteSet(D)
      /\ \A s \in D : Len(pending[s]) \in Nat /\ DOMAIN pending[s] = 1 .. Len(pending[s])
  BY DEF Accounts
<1>10. IsFiniteSet(DOMAIN rest)
  BY <1>8, <1>9, FS_Subset
<1> DEFINE L == Lengths(pending)
           M == Lengths(rest)
<1>11. /\ \A s \in D : L[s] = Len(pending[s]) /\ L[s] \in Nat
       /\ \A s \in D \ {stream} : M[s] = L[s]
       /\ L[stream] = n
  BY <1>1, <1>8, <1>9 DEF Lengths, n
<1> HIDE DEF L, M, D, rest
<1>12. SumOver(L, D) = n + SumOver(L, D \ {stream}) /\ SumOver(L, D \ {stream}) \in Nat
  <2>1. stream \in D
    BY <1>1 DEF D
  <2>2. SumOver(L, D) = L[stream] + SumOver(L, D \ {stream})
    BY <1>9, <1>11, <2>1, SumRemove
  <2>3. SumOver(L, D \ {stream}) \in Nat
    BY <1>8, <1>10, <1>11, SumType
  <2> QED BY <1>11, <2>2, <2>3
<1>13. SumOver(M, D \ {stream}) = SumOver(L, D \ {stream})
  BY <1>8, <1>10, <1>11, SumSame
<1>14. q.usefulPredictions + q.wastedPredictions + SumOver(L, D) <= q.predictions
       /\ q.suppressedPrefetches <= q.predictions /\ q.top1Correct <= q.topKCovered
       /\ q.topKCovered <= q.usefulPredictions /\ q.topKCovered <= q.opportunities
  BY DEF Accounts, L, D
<1>15. new = [pending |-> rest, quality |-> judged] /\ new.pending = rest /\ new.quality = judged
  BY DEF rest
<1> HIDE DEF judged, new, q
<1>17. /\ judged.usefulPredictions + judged.wastedPredictions + SumOver(M, D \ {stream})
            <= judged.predictions
       /\ judged.suppressedPrefetches <= judged.predictions
       /\ judged.top1Correct <= judged.topKCovered
       /\ judged.topKCovered <= judged.usefulPredictions
       /\ judged.topKCovered <= judged.opportunities
  <2> DEFINE rested == SumOver(M, D \ {stream})
             total == SumOver(L, D)
  <2>1. rested \in Nat /\ total = n + rested
    BY <1>12, <1>13
  <2> HIDE DEF rested, total
  <2>2. q.usefulPredictions + q.wastedPredictions + (n + rested) <= q.predictions
    BY <1>14, <2>1 DEF total
  <2>3. (q.usefulPredictions + h) + (q.wastedPredictions + n - h) + rested <= q.predictions
    BY <1>2, <1>4, <1>16, <2>1, <2>2
  <2>4. judged.usefulPredictions + judged.wastedPredictions + rested <= judged.predictions
    BY <1>7, <2>3
  <2>5. /\ judged.top1Correct <= judged.topKCovered
        /\ judged.topKCovered <= judged.usefulPredictions
        /\ judged.topKCovered <= judged.opportunities
    <3> DEFINE first == q.top1Correct
               covered == q.topKCovered
               useful == q.usefulPredictions
               chances == q.opportunities
    <3>1. /\ first \in Nat /\ covered \in Nat /\ useful \in Nat /\ chances \in Nat
          /\ first <= covered /\ covered <= useful /\ covered <= chances
      BY <1>14, <1>16
    <3>2. /\ judged.top1Correct = first + a /\ judged.topKCovered = covered + b
          /\ judged.usefulPredictions = useful + h /\ judged.opportunities = chances + 1
      BY <1>7
    <3> HIDE DEF first, covered, useful, chances
    <3>3. first + a <= covered + b /\ covered + b <= useful + h /\ covered + b <= chances + 1
      BY <1>4, <1>5, <3>1
    <3> QED BY <3>2, <3>3
  <2> QED BY <1>7, <1>14, <2>4, <2>5 DEF rested
<1> QED BY <1>b, <1>8, <1>9, <1>10, <1>15, <1>17 DEF Accounts, M

\* Remembering a stream's new predictions counts them; the old ones that were
\* never judged are dropped.
LEMMA RememberAccounts ==
  ASSUME NEW p, Accounts(p), NEW stream, NEW predictions, Predictions(predictions),
         NEW r, Suppressed(Remember(p, stream, predictions), r, Len(predictions))
  PROVE  Accounts(r)
<1> DEFINE old == p.pending
           q == p.quality
           n == Len(predictions)
           put == Put(old, stream, predictions)
           D == DOMAIN old
           L == Lengths(old)
           M == Lengths(put)
<1>0. n \in Nat /\ DOMAIN predictions = 1 .. n
  BY DEF Predictions
<1>1. /\ IsFiniteSet(D) /\ q \in Quality
      /\ \A s \in D : Len(old[s]) \in Nat /\ DOMAIN old[s] = 1 .. Len(old[s])
  BY DEF Accounts
<1>2. /\ DOMAIN put = D \cup {stream} /\ put[stream] = predictions
      /\ \A s \in D \ {stream} : put[s] = old[s]
  BY DEF Put
<1>3. /\ \A s \in D : L[s] = Len(old[s]) /\ L[s] \in Nat
      /\ \A s \in D \ {stream} : M[s] = L[s]
      /\ M[stream] = n
      /\ \A s \in D \cup {stream} : M[s] \in Nat
  <2> HIDE DEF put
  <2> QED BY <1>0, <1>1, <1>2 DEF Lengths
<1>4. IsFiniteSet(D \cup {stream}) /\ IsFiniteSet(D \ {stream})
  BY <1>1, FS_AddElement, FS_Subset
<1> HIDE DEF put, L, M, D, n
<1>5. SumOver(M, D \cup {stream}) = n + SumOver(M, D \ {stream})
  <2>1. (D \cup {stream}) \ {stream} = D \ {stream}
    OBVIOUS
  <2>2. SumOver(M, D \cup {stream}) = M[stream] + SumOver(M, (D \cup {stream}) \ {stream})
    BY <1>3, <1>4, SumRemove
  <2> QED BY <1>3, <2>1, <2>2
<1>6. SumOver(M, D \ {stream}) = SumOver(L, D \ {stream})
  BY <1>3, <1>4, SumSame
<1>7. SumOver(L, D \ {stream}) <= SumOver(L, D)
  <2>1. D \ {stream} \in SUBSET D
    OBVIOUS
  <2> QED BY <1>1, <1>3, <2>1, SumMonotonic
<1>8. SumOver(L, D) \in Nat /\ SumOver(L, D \ {stream}) \in Nat
  BY <1>1, <1>3, <1>4, SumType
<1>9. q.usefulPredictions + q.wastedPredictions + SumOver(L, D) <= q.predictions
      /\ q.suppressedPrefetches <= q.predictions /\ q.top1Correct <= q.topKCovered
      /\ q.topKCovered <= q.usefulPredictions /\ q.topKCovered <= q.opportunities
  BY DEF Accounts, L, D
<1> DEFINE counted == [q EXCEPT !.predictions = @ + n]
           kept == Remember(p, stream, predictions)
<1>10. kept = [pending |-> put, quality |-> counted]
  BY DEF Remember, put, n
<1>11. /\ counted.predictions = q.predictions + n
       /\ \A f \in {"opportunities", "top1Correct", "topKCovered", "usefulPredictions",
                    "wastedPredictions", "suppressedPrefetches"} : counted[f] = q[f]
  BY <1>1 DEF Quality
<1>12. /\ q.opportunities \in Nat /\ q.predictions \in Nat /\ q.top1Correct \in Nat
       /\ q.topKCovered \in Nat /\ q.usefulPredictions \in Nat
       /\ q.wastedPredictions \in Nat /\ q.suppressedPrefetches \in Nat
  BY <1>1 DEF Quality
<1> HIDE DEF counted, kept, q
<1>13. kept.pending = put /\ kept.quality = counted
  BY <1>10
<1>14. /\ r = [pending |-> put, quality |-> r.quality] /\ r.quality \in Quality /\ r.pending = put
       /\ \A f \in {"opportunities", "predictions", "top1Correct", "topKCovered",
                    "usefulPredictions", "wastedPredictions"} : r.quality[f] = counted[f]
       /\ r.quality.suppressedPrefetches <= counted.suppressedPrefetches + n
  BY <1>13 DEF Suppressed, kept, n
<1> DEFINE z == r.quality
<1>15. /\ z.predictions = q.predictions + n
       /\ z.opportunities = q.opportunities /\ z.top1Correct = q.top1Correct
       /\ z.topKCovered = q.topKCovered /\ z.usefulPredictions = q.usefulPredictions
       /\ z.wastedPredictions = q.wastedPredictions
       /\ z.suppressedPrefetches <= q.suppressedPrefetches + n
       /\ z.suppressedPrefetches \in Nat
  BY <1>11, <1>14 DEF Quality
<1>16. /\ z.usefulPredictions + z.wastedPredictions + SumOver(M, D \cup {stream}) <= z.predictions
       /\ z.suppressedPrefetches <= z.predictions
       /\ z.top1Correct <= z.topKCovered
       /\ z.topKCovered <= z.usefulPredictions
       /\ z.topKCovered <= z.opportunities
  <2> DEFINE rest == SumOver(L, D \ {stream})
             total == SumOver(L, D)
             sum == SumOver(M, D \cup {stream})
  <2>1. rest \in Nat /\ total \in Nat /\ rest <= total /\ sum = n + rest
    BY <1>5, <1>6, <1>7, <1>8
  <2>2. q.usefulPredictions + q.wastedPredictions + total <= q.predictions
    BY <1>9
  <2> HIDE DEF z, rest, total, sum
  <2>3. q.usefulPredictions + q.wastedPredictions + sum <= q.predictions + n
    BY <1>0, <1>12, <2>1, <2>2
  <2>4. z.usefulPredictions + z.wastedPredictions + sum <= z.predictions
    BY <1>15, <2>3
  <2>5. z.suppressedPrefetches <= z.predictions
    BY <1>0, <1>9, <1>12, <1>15
  <2> QED BY <1>9, <1>15, <2>4, <2>5 DEF sum
<1>17. \A s \in D \cup {stream} : Len(put[s]) \in Nat /\ DOMAIN put[s] = 1 .. Len(put[s])
  BY <1>0, <1>1, <1>2 DEF n, D
<1> QED BY <1>2, <1>4, <1>14, <1>16, <1>17 DEF Accounts, M

-----------------------------------------------------------------------------
(* Initially, and when an exception leaves executeBatch.                    *)

\* The group's key is a key.
LEMMA KeyOfFacts ==
  ASSUME RunOK, pc # "idle", NEW g \in DOMAIN Groups
  PROVE  KeyOf(g) \in Key
  BY DEF RunOK, Routed, KeyOf, Groups, Key, Experts

\* There are finitely many handles.
LEMMA HandlesFinite ==
  ASSUME RunOK, HandlesOK
  PROVE  IsFiniteSet(DOMAIN handles)
<1>1. CASE pc = "idle"
  <2>1. DOMAIN handles = {}
    BY <1>1 DEF HandlesOK
  <2> QED BY <2>1, FS_EmptySet
<1>2. CASE pc # "idle"
  <2> DEFINE n == Len(Groups)
  <2>1. DOMAIN handles = 1 .. n /\ n \in Nat
    BY <1>2 DEF HandlesOK, RunOK, Routed, Groups
  <2> HIDE DEF n
  <2>2. IsFiniteSet(1 .. n)
    BY <2>1, FS_Interval
  <2> QED BY <2>1, <2>2
<1> QED BY <1>1, <1>2

\* The lease is none or of a key.
LEMMA LeaseFacts ==
  ASSUME LeaseOK
  PROVE  leased # NoLease => leased.key \in Key
  BY KeyFinite DEF LeaseOK, NoLease

\* The experts in use are the leased one and the abandoned ones.
LEMMA AbandonedFacts ==
  /\ Abandoned = {k \in Key : InUse(sch, k) /\ leased.key # k}
  /\ Abandoned' = {k \in Key : InUse(sch', k) /\ leased'.key # k}
  /\ IsFiniteSet(Abandoned)
<1>1. /\ Abandoned = {k \in Key : InUse(sch, k) /\ leased.key # k}
      /\ Abandoned' = {k \in Key : InUse(sch', k) /\ leased'.key # k}
  BY DEF Abandoned, InUse
<1>2. Abandoned \subseteq Key
  BY DEF Abandoned
<1> QED BY <1>1, <1>2, KeyFinite, FS_Subset

\* The release takes the leased expert out of use, and nothing else changes.
LEMMA ReleasedFacts ==
  ASSUME NEW s, SchOK(s), leased # NoLease => leased.key \in Key
  PROVE  /\ SchOK(Released(s))
         /\ \A k \in Key : InUse(Released(s), k) <=> InUse(s, k) /\ leased.key # k
         /\ \A k \in Key : Pending(Released(s), k) <=> Pending(s, k)
<1> DEFINE t == Released(s)
           k == leased.key
<1>0. s \in SchType
  BY DEF SchOK
<1>1. CASE leased = NoLease
  <2>1. t = s
    BY <1>1 DEF Released
  <2>2. \A j \in Key : leased.key # j
    BY <1>1, KeyFinite DEF NoLease
  <2> QED BY <2>1, <2>2
<1>2. CASE leased # NoLease
  <2>1. t = [s EXCEPT !.state[k] = ReleaseOf(@)] /\ k \in Key
    BY <1>2 DEF Released
  <2>2. s = [state |-> s.state, pending |-> s.pending, resident |-> s.resident,
             prefetched |-> s.prefetched]
    BY <1>0 DEF SchType
  <2>3. ReleaseOf(s.state[k]) \in ExpertRecord /\ ReleaseOf(s.state[k]).state = "Ready"
    <3>1. s.state[k] \in ExpertRecord
      BY <1>0, <2>1, SchParts
    <3> QED BY <3>1 DEF ReleaseOf, ExpertRecord, LifecycleState
  <2> HIDE DEF t, k
  <2>4. t = [state |-> [s.state EXCEPT ![k] = ReleaseOf(s.state[k])], pending |-> s.pending,
             resident |-> s.resident, prefetched |-> s.prefetched]
    BY <2>1, <2>2
  <2>5. t \in SchType
    BY <1>0, <2>3, <2>4, SchParts DEF SchType
  <2>6. \A j \in Key : InUse(t, j) <=> InUse(s, j) /\ k # j
    <3>1. \A j \in Key : t.state[j] = IF j = k THEN ReleaseOf(s.state[k]) ELSE s.state[j]
      <4>1. t.state = [s.state EXCEPT ![k] = ReleaseOf(s.state[k])]
        BY <2>4
      <4>2. DOMAIN s.state = Key
        BY <1>0, SchParts
      <4> QED BY <4>1, <4>2
    <3> QED BY <2>3, <3>1 DEF InUse
  <2>7. \A j \in Key : Pending(t, j) <=> Pending(s, j)
    BY <2>4 DEF Pending
  <2>8. SchOK(t)
    BY <2>4, <2>5, <2>6, <2>7 DEF SchOK
  <2> QED BY <2>6, <2>7, <2>8 DEF t, k
<1> QED BY <1>1, <1>2

\* What an executor at rest looks like.
LEMMA RestFacts ==
  ASSUME NEW pass \in 0 .. MaxPasses, NEW layer \in 0 .. LayerCount - 1, NEW tokens \in Nat,
         run' = AtRest(pass, layer, tokens), pc' = "idle"
  PROVE  RunOK' /\ CombinedOK'
<1>1. RunOK'
  BY DEF AtRest, RunOK, Running, Submitting
<1> QED BY <1>1 DEF CombinedOK

\* An exception that leaves what it found in use, and no more than it paid for.
LEMMA LeaveOK ==
  ASSUME Inv, NEW reason \in Failures, Leave(reason), SchOK(sch'),
         Cardinality({k \in Key : InUse(sch', k)}) <= Charged',
         mode' = mode, mgr' \in [Key -> Placement], Fits(mgr'), offsets' \subseteq Key,
         faults' \in 0 .. MaxFaults, DOMAIN database'.frequency \subseteq Key,
         Accounts(predictor')
  PROVE  Inv'
<1>1. /\ failure' = reason /\ pc' = "idle" /\ run' = AtRest(run.pass, 0, 0) /\ handles' = <<>>
      /\ warm' = NoHandle /\ leased' = NoLease
  BY DEF Leave
<1>2. RunOK' /\ CombinedOK'
  <2>1. run.pass \in 0 .. MaxPasses /\ 0 \in 0 .. LayerCount - 1 /\ 0 \in Nat
    BY MoEAssumption DEF Inv, RunOK
  <2> QED BY <1>1, <2>1, RestFacts
<1>4. HandlesOK'
  <2>1. DOMAIN handles' = {} /\ warm' = NoHandle /\ warm'.status # "waiting" /\ pc' = "idle"
    BY <1>1 DEF NoHandle
  <2> QED BY <1>1, <2>1 DEF HandlesOK, AwaitsLiveTask, Handle
<1>5. LeaseOK'
  <2>1. \A k \in Key : NoLease.key # k
    BY KeyFinite DEF NoLease
  <2>2. Abandoned' = {k \in Key : InUse(sch', k)}
    BY <1>1, <2>1, AbandonedFacts
  <2>3. Cardinality(Abandoned') <= Charged'
    BY <2>2
  <2> QED BY <1>1, <2>1, <2>3 DEF LeaseOK, HoldsLease, Submitting
<1>6. StoreOK'
  BY <1>1 DEF Inv, StoreOK, Fits
<1> QED BY <1>2, <1>4, <1>5, <1>6 DEF Inv

\* The abandoned experts are paid for.
LEMMA ChargedFacts ==
  ASSUME Inv
  PROVE  /\ Cardinality(Abandoned) \in Nat /\ Cardinality(Abandoned) <= Charged
         /\ faults \in Nat /\ faults \in 0 .. MaxFaults /\ MaxFaults \in Nat
  BY AbandonedFacts, FS_CardinalityType, MoEAssumption DEF Inv, LeaseOK, StoreOK

\* A step that abandons no expert.
LEMMA AbandonedKept ==
  ASSUME Inv, mode' = mode, faults' \in Nat, faults <= faults',
         \A k \in Key : (InUse(sch', k) /\ leased'.key # k) <=> (InUse(sch, k) /\ leased.key # k)
  PROVE  Abandoned' = Abandoned /\ Cardinality(Abandoned') <= Charged'
<1>1. Abandoned' = Abandoned
  BY AbandonedFacts
<1>2. Cardinality(Abandoned) <= Charged'
  BY ChargedFacts DEF Charged
<1> QED BY <1>1, <1>2

\* A step that leaves an expert more in use, and pays for it.
LEMMA AbandonOK ==
  ASSUME Inv, NEW s, SchOK(s), NEW k \in Key, Abandon(s),
         \A j \in Key : InUse(s, j) => j = k \/ j \in Abandoned,
         mode' = mode, mgr' \in [Key -> Placement], Fits(mgr'), offsets' \subseteq Key,
         DOMAIN database'.frequency \subseteq Key, Accounts(predictor')
  PROVE  Inv' /\ faults' \in 0 .. MaxFaults
<1> DEFINE left == {j \in Key : InUse(sch', j)}
<1>1. /\ mode.device /\ faults < MaxFaults /\ faults' = faults + 1 /\ sch' = s
      /\ Leave("synchronize")
  BY DEF Abandon, Fault
<1>2. left \subseteq Abandoned \cup {k}
  BY <1>1
<1>3. Cardinality(left) <= Cardinality(Abandoned) + 1
  <2> HIDE DEF left
  <2>1. /\ IsFiniteSet(Abandoned \cup {k})
        /\ Cardinality(Abandoned \cup {k}) \in {Cardinality(Abandoned), Cardinality(Abandoned) + 1}
    BY AbandonedFacts, FS_AddElement
  <2>2. Cardinality(left) <= Cardinality(Abandoned \cup {k}) /\ Cardinality(left) \in Nat
    BY <1>2, <2>1, FS_Subset, FS_CardinalityType
  <2> QED BY <2>1, <2>2, ChargedFacts
<1>4. Cardinality(left) <= Charged'
  <2>1. Charged = faults /\ Charged' = faults + 1
    BY <1>1 DEF Charged
  <2>2. IsFiniteSet(left) /\ Cardinality(left) \in Nat
    <3>1. left \subseteq Key
      OBVIOUS
    <3> QED BY <3>1, KeyFinite, FS_Subset, FS_CardinalityType
  <2> HIDE DEF left
  <2> QED BY <1>3, <2>1, <2>2, ChargedFacts
<1>5. faults' \in 0 .. MaxFaults
  BY <1>1, ChargedFacts
<1>6. "synchronize" \in Failures /\ SchOK(sch')
  BY <1>1 DEF Failures
<1> QED BY <1>1, <1>4, <1>5, <1>6, LeaveOK

\* Every throw leaves the invariant, whatever step it is thrown from.
LEMMA ThrowOK ==
  ASSUME Inv, NEW reason \in Failures, NEW s, Continues(sch, s), Throw(reason, s),
         mode' = mode, mgr' \in [Key -> Placement], Fits(mgr'), offsets' \subseteq Key,
         DOMAIN database'.frequency \subseteq Key, Accounts(predictor')
  PROVE  Inv'
<1>1. SchOK(s) /\ \A k \in Key : InUse(s, k) <=> InUse(sch, k)
  BY DEF Continues
<1>2. leased # NoLease => leased.key \in Key
  BY LeaseFacts DEF Inv
<1>3. CASE sch' = Released(s) /\ Leave(reason) /\ UNCHANGED faults
  <2>1. SchOK(sch') /\ \A k \in Key : InUse(sch', k) <=> InUse(s, k) /\ leased.key # k
    BY <1>1, <1>2, <1>3, ReleasedFacts
  <2>2. {k \in Key : InUse(sch', k)} = Abandoned
    BY <1>1, <2>1, AbandonedFacts
  <2>3. Charged' = Charged
    BY <1>3 DEF Charged
  <2>4. Cardinality({k \in Key : InUse(sch', k)}) <= Charged'
    BY <2>2, <2>3, ChargedFacts
  <2>5. faults' \in 0 .. MaxFaults
    BY <1>3, ChargedFacts
  <2> QED BY <1>3, <2>1, <2>4, <2>5, LeaveOK
<1>4. CASE leased # NoLease /\ Abandon(s)
  <2>1. \A j \in Key : InUse(s, j) => j = leased.key \/ j \in Abandoned
    BY <1>1, AbandonedFacts
  <2> QED BY <1>1, <1>2, <1>4, <2>1, AbandonOK
<1> QED BY <1>3, <1>4 DEF Throw

\* Initially.
LEMMA InitOK == Init => Inv
<1> SUFFICES ASSUME Init PROVE Inv
  OBVIOUS
<1>1. run = [pass |-> 0, layer |-> 0, tokens |-> 0, decision |-> NoDecision, token |-> 1,
             index |-> 1, submitting |-> 1, resume |-> "await"]
      /\ pc = "idle"
  BY DEF Init, AtRest
<1>2. RunOK
  <2>1. 0 \in 0 .. MaxPasses /\ 0 \in 0 .. LayerCount - 1
    BY MoEAssumption
  <2> QED BY <1>1, <2>1 DEF RunOK, Running, Submitting
<1>3. CombinedOK
  BY <1>1 DEF CombinedOK
<1>4. HandlesOK
  <2>1. handles = <<>> /\ DOMAIN handles = {} /\ warm = NoHandle /\ warm.status # "waiting"
    BY DEF Init, NoHandle
  <2> QED BY <1>1, <2>1 DEF HandlesOK, AwaitsLiveTask, Handle
<1>5. SchOK(sch) /\ \A k \in Key : ~InUse(sch, k)
  <2>1. sch = [state |-> [k \in Key |-> RegisteredAt("Nvme")], pending |-> [k \in Key |-> NoTask],
               resident |-> [k \in Key |-> Nothing], prefetched |-> {}]
    BY DEF Init
  <2>2. RegisteredAt("Nvme") \in ExpertRecord /\ RegisteredAt("Nvme").state # "InUse"
    BY DEF RegisteredAt, ExpertRecord, Tier, LifecycleState
  <2>3. Nothing \in Transfer
    BY DEF Nothing, Transfer
  <2>4. sch \in SchType
    BY <2>1, <2>2, <2>3 DEF SchType
  <2>5. \A k \in Key : ~InUse(sch, k)
    BY <2>1, <2>2 DEF InUse
  <2> QED BY <2>4, <2>5 DEF SchOK
<1>6. LeaseOK
  <2>1. leased = NoLease /\ \A k \in Key : NoLease.key # k
    BY KeyFinite DEF Init, NoLease
  <2>2. Abandoned = {}
    BY <1>5, AbandonedFacts
  <2>3. Cardinality(Abandoned) <= Charged
    BY <2>2, FS_EmptySet DEF Init, Charged
  <2> QED BY <1>1, <2>1, <2>3 DEF LeaseOK, HoldsLease, Submitting
<1>7. StoreOK
  <2>1. mgr = [k \in Key |-> OnDisk] /\ OnDisk \in Placement /\ OnDisk.location = "Nvme"
    BY DEF Init, OnDisk, Placement
  <2>2. mode \in Modes
    BY DEF Init
  <2>3. Used(mgr, "Ram") = 0 /\ Used(mgr, "Vram") = 0
    <3>1. \A k \in Key : mgr[k].location = "Nvme"
      BY <2>1
    <3>2. {k \in Key : mgr[k].location = "Ram"} = {} /\ {k \in Key : mgr[k].location = "Vram"} = {}
      BY <3>1
    <3> QED BY <3>2, FS_EmptySet DEF Used
  <2>4. Fits(mgr)
    BY <2>2, <2>3, LimitFacts DEF Fits
  <2>5. DOMAIN database.frequency = {}
    BY DEF Init, NoDatabase, EmptyBag, SetToBag
  <2>6. failure \in Failures /\ faults \in 0 .. MaxFaults /\ offsets \subseteq Key
    BY MoEAssumption DEF Init, Failures
  <2> QED BY <2>1, <2>2, <2>4, <2>5, <2>6 DEF StoreOK
<1>8. Accounts(predictor)
  <2> DEFINE q == NoQuality
  <2>1. predictor = [pending |-> <<>>, quality |-> q]
    BY DEF Init, NoPredictor
  <2>2. q \in Quality /\ q.usefulPredictions = 0 /\ q.wastedPredictions = 0 /\ q.predictions = 0
        /\ q.suppressedPrefetches = 0 /\ q.top1Correct = 0 /\ q.topKCovered = 0
        /\ q.opportunities = 0
    BY DEF NoQuality, Quality
  <2>3. DOMAIN predictor.pending = {} /\ predictor.quality = q
    BY <2>1
  <2> HIDE DEF q
  <2>4. SumOver(Lengths(predictor.pending), DOMAIN predictor.pending) = 0
    BY <2>3, SumEmpty
  <2>5. IsFiniteSet(DOMAIN predictor.pending)
    BY <2>3, FS_EmptySet
  <2> QED BY <2>1, <2>2, <2>3, <2>4, <2>5 DEF Accounts
<1> QED BY <1>2, <1>3, <1>4, <1>5, <1>6, <1>7, <1>8 DEF Inv

-----------------------------------------------------------------------------
(* The executor's steps within a layer.                                     *)

\* What the steps between two leases have in common.
LEMMA WithinLayer ==
  ASSUME Inv, pc # "idle", pc' # "idle", RunOK',
         run'.decision = run.decision, run'.layer = run.layer,
         run'.tokens = run.tokens, run'.index = run.index, combined' = combined,
         warm' \in Handle, warm' # NoHandle => pc' = "warm",
         warm'.status = "waiting" => Pending(sch', Submitted'),
         DOMAIN handles' = DOMAIN handles,
         \A g \in DOMAIN handles :
           \/ handles'[g] = handles[g]
           \/ /\ handles'[g] \in Handle
              /\ handles'[g].status = "waiting" => Pending(sch', KeyOf(g)),
         pc' = "adopt" => handles'[run.index].status = "ready",
         Continues(sch, sch'), leased' = leased, HoldsLease' <=> HoldsLease,
         mode' = mode, mgr' \in [Key -> Placement], Fits(mgr'),
         leased # NoLease => mgr'[leased.key] = mgr[leased.key],
         offsets \subseteq offsets', offsets' \subseteq Key,
         pc' = "acquire" => /\ Current \in offsets' /\ ~Pending(sch', Current)
                            /\ sch'.resident[Current] = Nothing,
         failure' \in Failures, faults' = faults,
         DOMAIN database'.frequency \subseteq Key, Accounts(predictor')
  PROVE  Inv'
<1>0. RunOK /\ CombinedOK /\ HandlesOK /\ SchOK(sch) /\ LeaseOK /\ StoreOK
  BY DEF Inv
<1>1. Groups' = Groups /\ \A g : KeyOf(g)' = KeyOf(g)
  BY DEF Groups, KeyOf
<1>2. CombinedOK'
  <2>1. \A n, t, e : Added(n, t, e)' <=> Added(n, t, e)
    BY <1>1 DEF Added
  <2> QED BY <1>0, <2>1 DEF CombinedOK
<1>3. HandlesOK'
  <2>1. \A g \in DOMAIN handles : handles'[g] \in Handle
    BY <1>0 DEF HandlesOK
  <2>2. \A g \in DOMAIN handles : handles'[g].status = "waiting" => Pending(sch', KeyOf(g))
    <3> SUFFICES ASSUME NEW g \in DOMAIN handles, handles'[g].status = "waiting",
                        handles'[g] = handles[g]
                 PROVE  Pending(sch', KeyOf(g))
      OBVIOUS
    <3>1. Pending(sch, KeyOf(g))
      BY <1>0 DEF HandlesOK, AwaitsLiveTask, Pending
    <3>2. KeyOf(g) \in Key
      BY <1>0, KeyOfFacts DEF HandlesOK
    <3> QED BY <3>1, <3>2 DEF Continues
  <2>3. AwaitsLiveTask'
    BY <1>1, <2>2 DEF AwaitsLiveTask, Pending
  <2>4. DOMAIN handles' = DOMAIN Groups'
    BY <1>0, <1>1 DEF HandlesOK
  <2> QED BY <2>1, <2>3, <2>4 DEF HandlesOK
<1>4. LeaseOK'
  <2>1. Destination' = Destination
    BY DEF Destination
  <2>2. Current' = Current
    BY <1>1 DEF Current
  <2>3. \A k \in Key : InUse(sch', k) <=> InUse(sch, k)
    BY DEF Continues
  <2>4. /\ leased # NoLease => leased \in [key : Key, buffer : Nat]
        /\ leased # NoLease <=> HoldsLease
        /\ \A k \in Key : leased.key = k => InUse(sch, k)
        /\ leased # NoLease => /\ mgr[leased.key] = [location |-> Destination, buffer |-> leased.buffer]
                               /\ leased.key \in offsets
    BY <1>0 DEF LeaseOK
  <2>5. Abandoned' = Abandoned
    BY <2>3, AbandonedFacts
  <2>6. Cardinality(Abandoned') <= Charged'
    BY <1>0, <2>5 DEF LeaseOK, Charged
  <2> QED BY <2>1, <2>2, <2>3, <2>4, <2>6 DEF LeaseOK, InUse, Pending
<1>5. StoreOK'
  BY <1>0 DEF StoreOK, Fits
<1>6. SchOK(sch)'
  BY DEF Continues
<1> QED BY <1>2, <1>3, <1>4, <1>5, <1>6 DEF Inv

\* No handle is not a waiting one.
LEMMA NotWaiting == NoHandle \in Handle /\ NoHandle.status # "waiting"
  BY DEF Handle, NoHandle

\* The observers' loop over the tokens.
LEMMA AdvanceOK ==
  ASSUME Inv, pc = "observe", Advance, Continues(sch, sch'),
         UNCHANGED <<handles, warm, leased, failure, mode, mgr, offsets, combined, faults>>,
         DOMAIN database'.frequency \subseteq Key, Accounts(predictor')
  PROVE  Inv'
<1>0. RunOK /\ HandlesOK /\ LeaseOK /\ StoreOK
  BY DEF Inv
<1>1. /\ run' = [pass |-> run.pass, layer |-> run.layer, tokens |-> run.tokens,
                 decision |-> run.decision, token |-> run'.token, index |-> run.index,
                 submitting |-> run.submitting, resume |-> run.resume]
      /\ run'.token \in 1 .. run.tokens /\ pc' \in {"observe", "dispatch"}
  BY <1>0 DEF Advance, RunOK
<1>2. RunOK'
  BY <1>0, <1>1 DEF RunOK, Running, Submitting
<1>3. warm' = NoHandle
  BY <1>0 DEF HandlesOK
<1>4. HoldsLease' <=> HoldsLease
  BY <1>1 DEF HoldsLease, Submitting
<1>5. /\ mgr' \in [Key -> Placement] /\ Fits(mgr') /\ offsets' \subseteq Key
      /\ failure' \in Failures
  BY <1>0 DEF StoreOK
<1> QED BY <1>0, <1>1, <1>2, <1>3, <1>4, <1>5, NotWaiting, WithinLayer

\* A step that stays in the loop over the groups.
LEMMA RunKept ==
  ASSUME RunOK, pc \in Running, pc' \in Running, run' = run
  PROVE  RunOK'
<1>1. Groups' = Groups
  BY DEF Groups
<1> QED BY <1>1 DEF RunOK, Running, Submitting

\* A step that leaves the stores, the handles and the lease alone.
LEMMA QuietStep ==
  ASSUME Inv, pc \in Running, pc' \in Running, RunOK',
         run'.decision = run.decision, run'.layer = run.layer,
         run'.tokens = run.tokens, run'.index = run.index,
         warm' = NoHandle, pc' = "adopt" => handles[run.index].status = "ready",
         pc' # "acquire", HoldsLease' <=> HoldsLease, Continues(sch, sch'),
         UNCHANGED <<handles, leased, failure, mode, mgr, offsets, combined, faults, observers>>
  PROVE  Inv'
<1>0. StoreOK /\ Accounts(predictor) /\ database' = database /\ predictor' = predictor
  BY DEF Inv, observers
<1>1. /\ mgr' \in [Key -> Placement] /\ Fits(mgr') /\ offsets' \subseteq Key
      /\ failure' \in Failures /\ DOMAIN database'.frequency \subseteq Key
  BY <1>0 DEF StoreOK
<1>2. pc # "idle" /\ pc' # "idle"
  BY DEF Running, Submitting
<1> QED BY <1>0, <1>1, <1>2, NotWaiting, WithinLayer

\* Throwing from a step that leaves the stores alone.
LEMMA QuietThrow ==
  ASSUME Inv, NEW reason \in Failures, NEW s, Continues(sch, s), Throw(reason, s),
         UNCHANGED <<mode, mgr, offsets, observers>>
  PROVE  Inv'
<1>0. StoreOK /\ Accounts(predictor) /\ database' = database /\ predictor' = predictor
  BY DEF Inv, observers
<1>1. /\ mgr' \in [Key -> Placement] /\ Fits(mgr') /\ offsets' \subseteq Key
      /\ DOMAIN database'.frequency \subseteq Key
  BY <1>0 DEF StoreOK
<1> QED BY <1>0, <1>1, ThrowOK

\* The scheduler's state continues itself.
LEMMA SchStays == ASSUME Inv PROVE Continues(sch, sch) /\ SchOK(sch)
  BY ContinuesFacts DEF Inv

\* observeAndPrefetch.
LEMMA ObserveAndPrefetchOK == Inv /\ ObserveAndPrefetch => Inv'
<1> SUFFICES ASSUME Inv, ObserveAndPrefetch PROVE Inv'
  OBVIOUS
<1> DEFINE decision == run.decision.tokens[run.token]
           judged == Judge(predictor, decision, run.token)
<1>0. RunOK /\ HandlesOK /\ SchOK(sch) /\ StoreOK /\ Accounts(predictor)
  BY DEF Inv
<1>1. PICK predictions \in PredictDetailed(database', run.layer, decision.selected) :
        LET offered == Offer(sch, Remember(judged, run.token, predictions), predictions)
        IN  /\ predictor' = offered.predictor
            /\ IF offered.ok
                 THEN sch' = offered.s /\ Advance /\ UNCHANGED <<handles, warm, leased, failure, faults>>
                 ELSE Throw(offered.kind, offered.s)
  BY Zenon DEF ObserveAndPrefetch
<1>2. /\ pc = "observe" /\ database' = Record(database, decision, run.token)
      /\ UNCHANGED <<mode, mgr, offsets, combined>>
  BY DEF ObserveAndPrefetch
<1> DEFINE remembered == Remember(judged, run.token, predictions)
           offered == Offer(sch, remembered, predictions)
<1>3. DOMAIN database'.frequency \subseteq Key
  <2>1. /\ decision.layer \in 0 .. LayerCount - 1
        /\ DOMAIN decision.selected = 1 .. RouterConfig.topK
        /\ ToSet(decision.selected) \subseteq Experts
    BY <1>0, <1>2 DEF RunOK, Routed
  <2>2. DOMAIN database.frequency \subseteq Key
    BY <1>0 DEF StoreOK
  <2> HIDE DEF decision
  <2> QED BY <1>2, <2>1, <2>2, RecordFacts
<1> HIDE DEF decision
<1>4. Predictions(predictions)
  BY <1>3, PredictFacts
<1>5. Accounts(judged)
  BY <1>0, JudgeAccounts
<1> HIDE DEF judged
<1>6. remembered = [pending |-> remembered.pending, quality |-> remembered.quality]
      /\ remembered.quality \in Quality
  <2>1. judged.quality \in Quality /\ Len(predictions) \in Nat
    BY <1>4, <1>5 DEF Accounts, Predictions
  <2> DEFINE q == judged.quality
             n == Len(predictions)
  <2>2. remembered = [pending |-> Put(judged.pending, run.token, predictions),
                      quality |-> [q EXCEPT !.predictions = @ + n]]
    BY DEF Remember
  <2> HIDE DEF q, n
  <2>3. [q EXCEPT !.predictions = @ + n] \in Quality
    BY <2>1, SMTT(40) DEF Quality, q, n
  <2> HIDE DEF remembered
  <2> QED BY <2>2, <2>3
<1> HIDE DEF remembered
<1>7. /\ Continues(sch, offered.s)
      /\ Suppressed(remembered, offered.predictor, Len(predictions))
      /\ ~offered.ok => offered.kind \in {"pendingTarget", "transition"}
  BY <1>0, <1>4, <1>6, OfferFacts
<1>8. Accounts(offered.predictor)
  BY <1>4, <1>5, <1>7, RememberAccounts DEF remembered
<1>9. /\ predictor' = offered.predictor
      /\ IF offered.ok
           THEN sch' = offered.s /\ Advance /\ UNCHANGED <<handles, warm, leased, failure, faults>>
           ELSE Throw(offered.kind, offered.s)
  BY <1>1 DEF remembered
<1> HIDE DEF offered
<1>10. CASE offered.ok
  BY <1>2, <1>3, <1>7, <1>8, <1>9, <1>10, AdvanceOK
<1>11. CASE ~offered.ok
  <2>1. offered.kind \in Failures
    BY <1>7, <1>11 DEF Accepts, Failures
  <2>2. mgr' \in [Key -> Placement] /\ Fits(mgr') /\ offsets' \subseteq Key
    BY <1>0, <1>2 DEF StoreOK
  <2>3. Throw(offered.kind, offered.s)
    BY <1>9, <1>11
  <2> QED BY <1>2, <1>3, <1>7, <1>8, <1>9, <2>1, <2>2, <2>3, ThrowOK
<1> QED BY <1>10, <1>11

\* ExpertHistory alone.
LEMMA ObserveHistoryOK == Inv /\ ObserveHistory => Inv'
<1> SUFFICES ASSUME Inv, ObserveHistory PROVE Inv'
  OBVIOUS
<1>1. /\ pc = "observe" /\ Advance
      /\ UNCHANGED <<handles, warm, leased, failure, mode, mgr, offsets, combined, faults>>
      /\ sch' = sch /\ database' = database /\ predictor' = predictor
  BY DEF ObserveHistory
<1>2. DOMAIN database'.frequency \subseteq Key /\ Accounts(predictor')
  BY <1>1 DEF Inv, StoreOK
<1>3. Continues(sch, sch')
  BY <1>1, SchStays
<1> QED BY <1>1, <1>2, <1>3, AdvanceOK

\* The dispatcher.
LEMMA DispatchOK == Inv /\ Dispatch => Inv'
<1> SUFFICES ASSUME Inv, Dispatch PROVE Inv'
  OBVIOUS
<1>0. RunOK /\ HandlesOK /\ StoreOK /\ Accounts(predictor)
  BY DEF Inv
<1>1. pc = "dispatch" /\ UNCHANGED <<mode, mgr, offsets, combined, observers>>
  BY DEF Dispatch
<1>2. CASE Dispatchable(run.decision)
  <2>1. pc' = "submit" /\ UNCHANGED <<failure, faults, run, handles, warm, sch, leased>>
    BY <1>2 DEF Dispatch, Goto
  <2>2. 1 \in DOMAIN Groups
    <3> DEFINE n == Len(Groups)
    <3>1. n \in Nat /\ DOMAIN Groups = 1 .. n /\ Groups = [g \in 1 .. n |-> Groups[g]]
      BY <1>0, <1>1 DEF RunOK, Routed, Groups
    <3>2. Groups # <<>>
      BY <1>2 DEF Dispatchable, Groups
    <3> HIDE DEF n
    <3>3. n # 0
      BY <3>1, <3>2
    <3> QED BY <3>1, <3>3
  <2>3. RunOK'
    <3>1. Groups' = Groups
      BY <2>1 DEF Groups
    <3> QED BY <1>0, <1>1, <2>1, <2>2, <3>1 DEF RunOK, Running, Submitting
  <2>4. warm' = NoHandle /\ pc # "idle" /\ pc' # "idle" /\ pc' # "adopt" /\ pc' # "acquire"
    BY <1>0, <1>1, <2>1 DEF HandlesOK
  <2>5. HoldsLease' <=> HoldsLease
    BY <1>0, <1>1, <2>1 DEF HoldsLease, Submitting, RunOK
  <2>6. /\ mgr' \in [Key -> Placement] /\ Fits(mgr') /\ offsets' \subseteq Key
        /\ failure' \in Failures /\ DOMAIN database'.frequency \subseteq Key
        /\ Accounts(predictor')
    BY <1>0, <1>1, <2>1 DEF StoreOK, observers
  <2>7. Continues(sch, sch')
    BY <2>1, SchStays
  <2> QED BY <1>1, <2>1, <2>3, <2>4, <2>5, <2>6, <2>7, NotWaiting, WithinLayer
<1>3. CASE ~Dispatchable(run.decision)
  <2>1. Throw("dispatch", sch) /\ "dispatch" \in Failures
    BY <1>3 DEF Dispatch, Failures
  <2> QED BY <1>1, <2>1, SchStays, QuietThrow
<1> QED BY <1>2, <1>3

\* The location and the snapshot.
LEMMA ReadExpertOK == Inv /\ ReadExpert => Inv'
<1> SUFFICES ASSUME Inv, ReadExpert PROVE Inv'
  OBVIOUS
<1>1. /\ pc = "submit" /\ pc' \in {"requestWarm", "stage"}
      /\ UNCHANGED <<run, handles, warm, sch, leased, failure, mode, mgr, offsets, combined,
                     faults, observers>>
  BY DEF ReadExpert, Goto
<1>2. pc \in Running /\ pc' \in Running /\ pc' \notin {"adopt", "acquire"}
  BY <1>1 DEF Running, Submitting
<1>3. RunOK' /\ warm' = NoHandle
  BY <1>1, <1>2, RunKept DEF Inv, HandlesOK
<1>4. HoldsLease' <=> HoldsLease
  BY <1>1 DEF HoldsLease, Submitting
<1> QED BY <1>1, <1>2, <1>3, <1>4, SchStays, QuietStep

\* The key being submitted is a key.
LEMMA SubmittedFacts ==
  ASSUME Inv, pc \in Running
  PROVE  Submitted \in Key /\ Current \in Key /\ KeyOf(run.submitting) = Submitted
<1>1. RunOK /\ pc # "idle" /\ run.submitting \in DOMAIN Groups /\ run.index \in DOMAIN Groups
  BY DEF Inv, RunOK, Running, Submitting
<1> QED BY <1>1, KeyOfFacts DEF Submitted, Current

\* The warm load that is waited for.
LEMMA RequestWarmOK == Inv /\ RequestWarm => Inv'
<1> SUFFICES ASSUME Inv, RequestWarm PROVE Inv'
  OBVIOUS
<1> DEFINE kind == ScheduleKind(sch, Submitted, WarmRequest)
           s == ScheduleOf(sch, Submitted, WarmRequest)
           h == HandleOf(sch, Submitted, WarmRequest)
<1>1. /\ pc = "requestWarm" /\ UNCHANGED <<mode, mgr, offsets, combined, observers>>
      /\ IF Accepts(kind)
           THEN /\ warm' = h /\ sch' = s /\ pc' = "warm"
                /\ UNCHANGED <<failure, faults, run, handles, leased>>
           ELSE Throw(kind, s)
  BY DEF RequestWarm, Goto
<1>2. pc \in Running
  BY <1>1 DEF Running, Submitting
<1>3. Submitted \in Key
  BY <1>2, SubmittedFacts
<1>4. WarmRequest \in RequestType
  BY DEF WarmRequest, Request, RequestType, Nothing, Transfer
<1>5. /\ Continues(sch, s)
      /\ kind \in {"pendingTarget", "join", "ready", "new", "transition"}
      /\ Accepts(kind) => h \in Handle \ {NoHandle} /\ (h.status = "waiting" => Pending(s, Submitted))
  BY <1>3, <1>4, SchStays, ScheduleContinues
<1> HIDE DEF kind, s, h
<1>6. CASE Accepts(kind)
  <2>1. RunOK'
    <3>1. pc' \in Running
      BY <1>1, <1>6 DEF Running, Submitting
    <3> QED BY <1>1, <1>2, <1>6, <3>1, RunKept DEF Inv
  <2>2. Submitted' = Submitted
    BY <1>1, <1>6 DEF Submitted, KeyOf, Groups
  <2>3. HoldsLease' <=> HoldsLease
    BY <1>1, <1>6 DEF HoldsLease, Submitting
  <2>4. /\ mgr' \in [Key -> Placement] /\ Fits(mgr') /\ offsets' \subseteq Key
        /\ failure' \in Failures /\ DOMAIN database'.frequency \subseteq Key
        /\ Accounts(predictor')
    BY <1>1, <1>6 DEF Inv, StoreOK, observers
  <2> QED BY <1>1, <1>5, <1>6, <2>1, <2>2, <2>3, <2>4, WithinLayer
<1>7. CASE ~Accepts(kind)
  <2>1. kind \in Failures
    BY <1>5, <1>7 DEF Accepts, Failures
  <2> QED BY <1>1, <1>5, <1>7, <2>1, QuietThrow
<1> QED BY <1>6, <1>7

\* The warm load has arrived.
LEMMA AwaitWarmOK == Inv /\ AwaitWarm => Inv'
<1> SUFFICES ASSUME Inv, AwaitWarm PROVE Inv'
  OBVIOUS
<1>1. /\ pc = "warm" /\ UNCHANGED <<mode, mgr, offsets, combined, observers>>
      /\ IF warm.ok
           THEN warm' = NoHandle /\ pc' = "stage" /\ UNCHANGED <<failure, faults, run, handles, sch, leased>>
           ELSE Throw("transfer", sch)
  BY DEF AwaitWarm, Goto
<1>2. CASE warm.ok
  <2>1. pc \in Running /\ pc' \in Running /\ pc' \notin {"adopt", "acquire"}
    BY <1>1, <1>2 DEF Running, Submitting
  <2>2. RunOK'
    BY <1>1, <1>2, <2>1, RunKept DEF Inv
  <2>3. HoldsLease' <=> HoldsLease
    BY <1>1, <1>2 DEF HoldsLease, Submitting
  <2> QED BY <1>1, <1>2, <2>1, <2>2, <2>3, SchStays, QuietStep
<1>3. CASE ~warm.ok
  <2>1. "transfer" \in Failures
    BY DEF Failures
  <2> QED BY <1>1, <1>3, <2>1, SchStays, QuietThrow
<1> QED BY <1>2, <1>3

\* A retained warm buffer becomes the manager's.
LEMMA StageOK == Inv /\ Stage => Inv'
<1> SUFFICES ASSUME Inv, Stage PROVE Inv'
  OBVIOUS
<1> DEFINE k == Submitted
           buffer == CachedHost(sch, k)
           adopted == Adopt(k, "Ram", buffer)
<1>0. RunOK /\ HandlesOK /\ SchOK(sch) /\ LeaseOK /\ StoreOK /\ Accounts(predictor)
  BY DEF Inv
<1>1. pc = "stage" /\ UNCHANGED <<mode, combined, observers>>
  BY DEF Stage
<1>2. pc \in Running /\ warm = NoHandle
  BY <1>0, <1>1 DEF Running, Submitting, HandlesOK
<1>3. k \in Key
  BY <1>2, SubmittedFacts
<1>4. buffer \in Nat
  <2>1. sch.resident[k] \in Transfer
    BY <1>0, <1>3, SchParts DEF SchOK
  <2> QED BY <2>1 DEF CachedHost, Transfer
<1>5. /\ database' = database /\ predictor' = predictor
      /\ DOMAIN database'.frequency \subseteq Key /\ Accounts(predictor')
      /\ failure \in Failures
  BY <1>0, <1>1 DEF observers, StoreOK
<1> HIDE DEF k, buffer
<1>6. CASE buffer = 0 \/ mgr[k].location # "Nvme"
  <2>1. pc' = "reconcile" /\ UNCHANGED <<failure, faults, run, handles, warm, sch, mgr, leased, offsets>>
    BY <1>6 DEF Stage, Goto, buffer, k
  <2>2. pc' \in Running /\ pc' \notin {"adopt", "acquire"}
    BY <2>1 DEF Running, Submitting
  <2>3. RunOK'
    BY <1>0, <1>2, <2>1, <2>2, RunKept
  <2>4. HoldsLease' <=> HoldsLease
    BY <1>1, <2>1 DEF HoldsLease, Submitting
  <2> QED BY <1>1, <1>2, <2>1, <2>2, <2>3, <2>4, SchStays, QuietStep
<1>7. CASE ~(buffer = 0 \/ mgr[k].location # "Nvme") /\ adopted = {}
  <2>1. Throw("noRoom", sch) /\ UNCHANGED <<mgr, offsets>> /\ "noRoom" \in Failures
    BY <1>7 DEF Stage, buffer, k, Failures
  <2> QED BY <1>1, <2>1, SchStays, QuietThrow
<1>8. CASE ~(buffer = 0 \/ mgr[k].location # "Nvme") /\ adopted # {}
  <2>1. /\ mgr' \in adopted /\ offsets' = offsets \cup {k}
        /\ IF CanAcknowledge(sch, k)
             THEN /\ sch' = Acknowledge(sch, k, "Ram") /\ pc' = "reconcile"
                  /\ UNCHANGED <<failure, faults, run, handles, warm, leased>>
             ELSE Throw("reconcile", sch)
    BY <1>8 DEF Stage, Goto, buffer, k
  <2>2. mode \in Modes /\ mgr \in [Key -> Placement] /\ Fits(mgr) /\ IsFiniteSet(DOMAIN handles)
    BY <1>0, HandlesFinite DEF StoreOK
  <2>3. /\ mgr' \in [Key -> Placement] /\ Fits(mgr')
        /\ \A j \in Key : j = leased.key /\ j # k => mgr'[j] = mgr[j]
    BY <1>3, <1>4, <2>1, <2>2, AdoptFacts
  <2>4. offsets' \subseteq Key /\ offsets \subseteq offsets'
    BY <1>0, <1>3, <2>1 DEF StoreOK
  <2>5. CASE CanAcknowledge(sch, k)
    <3>1. sch' = Acknowledge(sch, k, "Ram") /\ pc' = "reconcile"
          /\ UNCHANGED <<failure, faults, run, handles, warm, leased>>
      BY <2>1, <2>5
    <3>2. Continues(sch, sch')
      BY <1>0, <1>3, <2>5, <3>1, AcknowledgeContinues
    <3>3. leased # NoLease => mgr'[leased.key] = mgr[leased.key]
      <4> SUFFICES ASSUME leased # NoLease PROVE mgr'[leased.key] = mgr[leased.key]
        OBVIOUS
      <4>1. leased.key \in Key /\ mgr[leased.key].location = Destination
        BY <1>0, LeaseFacts DEF LeaseOK
      <4>2. Destination # "Nvme"
        BY DEF Destination
      <4>3. leased.key # k
        BY <1>8, <4>1, <4>2
      <4> QED BY <2>3, <4>1, <4>3
    <3>4. pc' \in Running /\ pc' \notin {"adopt", "acquire", "idle"} /\ pc # "idle"
      BY <1>1, <3>1 DEF Running, Submitting
    <3>5. RunOK'
      BY <1>0, <1>2, <3>1, <3>4, RunKept
    <3>6. HoldsLease' <=> HoldsLease
      BY <1>1, <3>1 DEF HoldsLease, Submitting
    <3>7. warm' = NoHandle /\ failure' \in Failures
      BY <1>2, <1>5, <3>1
    <3> QED BY <1>1, <1>5, <2>2, <2>3, <2>4, <3>1, <3>2, <3>3, <3>4, <3>5, <3>6, <3>7,
               NotWaiting, WithinLayer
  <2>6. CASE ~CanAcknowledge(sch, k)
    <3>1. Throw("reconcile", sch) /\ "reconcile" \in Failures
      BY <2>1, <2>6 DEF Failures
    <3> QED BY <1>1, <1>5, <2>3, <2>4, <3>1, SchStays, ThrowOK
  <2> QED BY <2>5, <2>6
<1> QED BY <1>6, <1>7, <1>8

\* reconcileResidency.
LEMMA ReconcileOK == Inv /\ Reconcile => Inv'
<1> SUFFICES ASSUME Inv, Reconcile PROVE Inv'
  OBVIOUS
<1> DEFINE k == Submitted
           idle == sch.pending[k].phase = "none" /\ sch.resident[k] = Nothing
           s == [sch EXCEPT !.state[k] = ReconcileOf(@, mgr[k].location)]
<1>0. RunOK /\ HandlesOK /\ SchOK(sch) /\ LeaseOK /\ StoreOK
  BY DEF Inv
<1>1. /\ pc = "reconcile" /\ UNCHANGED <<mode, mgr, offsets, combined, observers>>
      /\ IF idle /\ ~CanReconcile(sch.state[k])
           THEN Throw("reconcile", sch)
           ELSE /\ sch' = IF idle THEN s ELSE sch
                /\ pc' = "request" /\ UNCHANGED <<failure, faults, run, handles, warm, leased>>
  BY DEF Reconcile, Goto
<1>2. pc \in Running /\ warm = NoHandle
  BY <1>0, <1>1 DEF Running, Submitting, HandlesOK
<1>3. k \in Key
  BY <1>2, SubmittedFacts
<1> HIDE DEF k
<1>4. CASE idle /\ ~CanReconcile(sch.state[k])
  <2>1. "reconcile" \in Failures
    BY DEF Failures
  <2> QED BY <1>1, <1>4, <2>1, SchStays, QuietThrow
<1>5. CASE ~(idle /\ ~CanReconcile(sch.state[k]))
  <2>1. /\ sch' = (IF idle THEN s ELSE sch)
        /\ pc' = "request" /\ UNCHANGED <<failure, faults, run, handles, warm, leased>>
    BY <1>1, <1>5
  <2>2. Continues(sch, sch')
    <3>1. CASE ~idle
      BY <2>1, <3>1, SchStays
    <3>2. CASE idle
      <4> DEFINE x == ReconcileOf(sch.state[k], mgr[k].location)
      <4>1. ~InUse(sch, k) /\ ~Pending(sch, k)
        BY <1>5, <3>2 DEF CanReconcile, InUse, Pending
      <4>2. x \in ExpertRecord /\ x.state # "InUse"
        <5>1. sch.state[k] \in ExpertRecord /\ mgr[k].location \in Tier
          BY <1>0, <1>3, SchParts DEF SchOK, StoreOK, Placement, Tier
        <5> QED BY <5>1 DEF ReconcileOf, ExpertRecord, LifecycleState
      <4>3. sch = [state |-> sch.state, pending |-> sch.pending, resident |-> sch.resident,
                   prefetched |-> sch.prefetched]
        BY <1>0 DEF SchOK, SchType
      <4>4. sch' = [sch EXCEPT !.state[k] = x]
        BY <2>1, <3>2, <4>3
      <4>5. /\ sch.pending = [sch.pending EXCEPT ![k] = sch.pending[k]]
            /\ sch.resident = [sch.resident EXCEPT ![k] = sch.resident[k]]
            /\ sch.pending[k] \in {NoTask} \cup Task /\ sch.resident[k] \in Transfer
            /\ sch.prefetched \in SUBSET Key
        BY <1>0, <1>3, SchParts DEF SchOK
      <4> HIDE DEF x, s, idle
      <4>6. sch' = [state |-> [sch.state EXCEPT ![k] = x],
                    pending |-> [sch.pending EXCEPT ![k] = sch.pending[k]],
                    resident |-> [sch.resident EXCEPT ![k] = sch.resident[k]],
                    prefetched |-> sch.prefetched]
        <5>1. sch' = [state |-> [sch.state EXCEPT ![k] = x], pending |-> sch.pending,
                      resident |-> sch.resident, prefetched |-> sch.prefetched]
          BY <4>3, <4>4
        <5> QED BY <4>5, <5>1
      <4>7. Continues(sch, [state |-> [sch.state EXCEPT ![k] = x],
                    pending |-> [sch.pending EXCEPT ![k] = sch.pending[k]],
                    resident |-> [sch.resident EXCEPT ![k] = sch.resident[k]],
                    prefetched |-> sch.prefetched])
        BY <1>0, <1>3, <4>1, <4>2, <4>5, OneKey
      <4> QED BY <4>6, <4>7
    <3> QED BY <3>1, <3>2
  <2>3. pc' \in Running /\ pc' \notin {"adopt", "acquire"}
    BY <2>1 DEF Running, Submitting
  <2>4. RunOK'
    BY <1>0, <1>2, <2>1, <2>3, RunKept
  <2>5. HoldsLease' <=> HoldsLease
    BY <1>1, <2>1 DEF HoldsLease, Submitting
  <2> HIDE DEF idle, s
  <2> QED BY <1>1, <1>2, <2>1, <2>2, <2>3, <2>4, <2>5, QuietStep
<1> QED BY <1>4, <1>5

\* prepareResidency and schedule.
LEMMA RequestExpertOK == Inv /\ RequestExpert => Inv'
<1> SUFFICES ASSUME Inv, RequestExpert PROVE Inv'
  OBVIOUS
<1> DEFINE k == Submitted
           at == mgr[k]
           source == [host |-> IF at.location = "Ram" THEN at.buffer ELSE 0,
                      device |-> IF at.location = "Vram" THEN at.buffer ELSE 0]
           request == Request(Destination, at.location, source, FALSE)
           kind == ScheduleKind(sch, k, request)
           s == ScheduleOf(sch, k, request)
           h == HandleOf(sch, k, request)
           rooms == PrepareResidency(k)
<1>0. RunOK /\ HandlesOK /\ SchOK(sch) /\ LeaseOK /\ StoreOK /\ Accounts(predictor)
  BY DEF Inv
<1>1. pc = "request" /\ UNCHANGED <<mode, offsets, combined, observers>>
  BY DEF RequestExpert
<1>2. pc \in Running /\ warm = NoHandle
  BY <1>0, <1>1 DEF Running, Submitting, HandlesOK
<1>3. k \in Key /\ run.submitting \in DOMAIN Groups /\ k = KeyOf(run.submitting)
  BY <1>0, <1>2, SubmittedFacts DEF RunOK
<1>a. IF rooms = {} THEN Throw("noRoom", sch) /\ UNCHANGED mgr
      ELSE /\ mgr' \in rooms
           /\ IF Accepts(kind)
                THEN /\ handles' = [handles EXCEPT ![run.submitting] = h]
                     /\ sch' = s /\ pc' = run.resume
                     /\ UNCHANGED <<failure, faults, run, warm, leased>>
                ELSE Throw(kind, s)
  BY Zenon DEF RequestExpert, Goto
<1>4. request \in RequestType
  <2>1. at \in Placement
    BY <1>0, <1>3 DEF StoreOK
  <2>2. source \in Transfer
    BY <2>1 DEF Placement, Transfer
  <2> HIDE DEF source
  <2> QED BY <2>1, <2>2 DEF Request, RequestType, Destination, Placement
<1> HIDE DEF k, at, source, request
<1>5. /\ Continues(sch, s)
      /\ kind \in {"pendingTarget", "join", "ready", "new", "transition"}
      /\ Accepts(kind) => h \in Handle \ {NoHandle} /\ (h.status = "waiting" => Pending(s, k))
  BY <1>0, <1>3, <1>4, ScheduleContinues
<1> HIDE DEF kind, s, h, rooms
<1>6. /\ DOMAIN database'.frequency \subseteq Key /\ Accounts(predictor')
      /\ offsets' \subseteq Key /\ offsets \subseteq offsets'
      /\ failure \in Failures
  BY <1>0, <1>1 DEF observers, StoreOK
<1>7. CASE rooms = {}
  <2>1. Throw("noRoom", sch) /\ UNCHANGED mgr /\ "noRoom" \in Failures
    BY <1>7, <1>a DEF Failures
  <2> QED BY <1>1, <2>1, SchStays, QuietThrow
<1>8. CASE rooms # {}
  <2>1. mgr' \in rooms
    BY <1>8, <1>a
  <2>2. mode \in Modes /\ mgr \in [Key -> Placement] /\ Fits(mgr) /\ IsFiniteSet(DOMAIN handles)
    BY <1>0, HandlesFinite DEF StoreOK
  <2>3. /\ mgr' \in [Key -> Placement] /\ Fits(mgr')
        /\ leased # NoLease => mgr'[leased.key] = mgr[leased.key]
    <3>1. CASE mgr[k].location = Destination
      <4>1. mgr' = mgr
        BY <2>1, <3>1 DEF rooms, PrepareResidency
      <4> QED BY <2>2, <4>1
    <3>2. CASE mgr[k].location # Destination
      <4>1. mgr' \in MakeRoom(mgr, Destination, k) /\ Destination \in {"Ram", "Vram"}
        BY <2>1, <3>2 DEF rooms, PrepareResidency, Destination
      <4>2. Keeps(mgr, mgr', {k}) /\ Fits(mgr')
        BY <1>3, <2>2, <4>1, MakeRoomFacts
      <4>3. leased # NoLease => leased.key \in Key
        BY <1>0, LeaseFacts
      <4> QED BY <4>2, <4>3 DEF Keeps
    <3> QED BY <3>1, <3>2
  <2>4. CASE Accepts(kind)
    <3>1. /\ handles' = [handles EXCEPT ![run.submitting] = h]
          /\ sch' = s /\ pc' = run.resume /\ UNCHANGED <<failure, faults, run, warm, leased>>
      BY <1>8, <1>a, <2>4
    <3>2. pc' \in {"await", "execute"}
      BY <1>0, <3>1 DEF RunOK
    <3>3. pc' \in Running /\ pc' \notin {"adopt", "acquire", "idle"} /\ pc # "idle"
      BY <1>1, <3>2 DEF Running
    <3>4. RunOK'
      BY <1>0, <1>2, <3>1, <3>3, RunKept
    <3>5. HoldsLease' <=> HoldsLease
      BY <1>0, <1>1, <3>1, <3>2 DEF HoldsLease, Submitting
    <3>6. /\ DOMAIN handles' = DOMAIN handles
          /\ \A g \in DOMAIN handles :
               \/ handles'[g] = handles[g]
               \/ /\ handles'[g] \in Handle
                  /\ handles'[g].status = "waiting" => Pending(sch', KeyOf(g))
      BY <1>3, <1>5, <2>4, <3>1
    <3>7. warm' = NoHandle /\ failure' \in Failures /\ Continues(sch, sch')
      BY <1>2, <1>5, <1>6, <3>1
    <3> QED BY <1>1, <1>6, <2>2, <2>3, <3>1, <3>3, <3>4, <3>5, <3>6, <3>7,
               NotWaiting, WithinLayer
  <2>5. CASE ~Accepts(kind)
    <3>1. Throw(kind, s) /\ kind \in Failures
      BY <1>5, <1>8, <1>a, <2>5 DEF Accepts, Failures
    <3> QED BY <1>1, <1>5, <1>6, <2>3, <3>1, ThrowOK
  <2> QED BY <2>4, <2>5
<1> QED BY <1>7, <1>8

-----------------------------------------------------------------------------
(* The loop over the groups.                                                *)

\* Submit the current expert if nobody has, or take its transfer.
LEMMA AwaitExpertOK == Inv /\ AwaitExpert => Inv'
<1> SUFFICES ASSUME Inv, AwaitExpert PROVE Inv'
  OBVIOUS
<1> DEFINE h == handles[run.index]
<1>0. RunOK /\ HandlesOK /\ LeaseOK
  BY DEF Inv
<1>1. pc = "await" /\ UNCHANGED <<mode, mgr, offsets, combined, observers>>
  BY DEF AwaitExpert
<1>2. pc \in Running /\ warm = NoHandle /\ run.index \in DOMAIN Groups
  BY <1>0, <1>1 DEF Running, HandlesOK, RunOK
<1>3. CASE h.status = "none"
  <2>1. /\ run' = [run EXCEPT !.submitting = run.index, !.resume = "await"] /\ pc' = "submit"
        /\ UNCHANGED <<failure, faults, handles, warm, sch, leased>>
    BY <1>3 DEF AwaitExpert, Goto
  <2>2. run' = [pass |-> run.pass, layer |-> run.layer, tokens |-> run.tokens,
                decision |-> run.decision, token |-> run.token, index |-> run.index,
                submitting |-> run.index, resume |-> "await"]
    BY <1>0, <2>1 DEF RunOK
  <2>3. pc' \in Running /\ pc' \notin {"adopt", "acquire"}
    BY <2>1 DEF Running, Submitting
  <2>4. RunOK'
    <3>1. Groups' = Groups
      BY <2>2 DEF Groups
    <3> QED BY <1>0, <1>1, <1>2, <2>1, <2>2, <2>3, <3>1 DEF RunOK
  <2>5. HoldsLease' <=> HoldsLease
    BY <1>1, <2>1, <2>2 DEF HoldsLease, Submitting
  <2> QED BY <1>1, <1>2, <2>1, <2>2, <2>3, <2>4, <2>5, SchStays, QuietStep
<1>4. CASE h.status # "none" /\ h.ok
  <2>1. /\ h.status = "ready" /\ pc' = "adopt"
        /\ UNCHANGED <<failure, faults, run, handles, warm, sch, leased>>
    BY <1>4 DEF AwaitExpert, Goto
  <2>2. pc' \in Running /\ pc' # "acquire"
    BY <2>1 DEF Running
  <2>3. RunOK'
    BY <1>0, <1>2, <2>1, <2>2, RunKept
  <2>4. HoldsLease' <=> HoldsLease
    BY <1>1, <2>1 DEF HoldsLease, Submitting
  <2> QED BY <1>1, <1>2, <2>1, <2>2, <2>3, <2>4, SchStays, QuietStep
<1>5. CASE h.status # "none" /\ ~h.ok
  <2>1. Throw("transfer", sch) /\ "transfer" \in Failures
    BY <1>5 DEF AwaitExpert, Failures
  <2> QED BY <1>1, <2>1, SchStays, QuietThrow
<1> QED BY <1>3, <1>4, <1>5

\* The transferred buffer becomes the manager's.
LEMMA AdoptExpertOK == Inv /\ AdoptExpert => Inv'
<1> SUFFICES ASSUME Inv, AdoptExpert PROVE Inv'
  OBVIOUS
<1> DEFINE k == Current
           t == handles[run.index].transfer
           buffer == IF mode.device THEN t.device ELSE t.host
           adopted == IF buffer = 0 THEN {mgr} ELSE Adopt(k, Destination, buffer)
           known == IF buffer = 0 THEN offsets ELSE offsets \cup {k}
           s == Acknowledge(sch, k, Destination)
<1>0. RunOK /\ HandlesOK /\ SchOK(sch) /\ LeaseOK /\ StoreOK /\ Accounts(predictor)
  BY DEF Inv
<1>1. pc = "adopt" /\ UNCHANGED <<mode, combined, observers>>
  BY DEF AdoptExpert
<1>a. IF buffer # 0 /\ Conflicts(k, Destination, buffer)
        THEN Throw("differentBuffer", sch) /\ UNCHANGED <<mgr, offsets>>
      ELSE IF adopted = {} THEN Throw("noRoom", sch) /\ UNCHANGED <<mgr, offsets>>
      ELSE /\ mgr' \in adopted /\ offsets' = known
           /\ IF ~CanAcknowledge(sch, k) THEN Throw("reconcile", sch)
              ELSE IF k \notin known THEN Throw("offset", s)
              ELSE /\ sch' = s /\ handles' = [handles EXCEPT ![run.index] = NoHandle]
                   /\ pc' = "acquire" /\ UNCHANGED <<failure, faults, run, warm, leased>>
  BY Zenon DEF AdoptExpert, Goto
<1>2. pc \in Running /\ warm = NoHandle /\ pc # "idle" /\ leased = NoLease
  BY <1>0, <1>1 DEF Running, Submitting, HandlesOK, LeaseOK, HoldsLease
<1>3. k \in Key /\ run.index \in DOMAIN handles
  BY <1>0, <1>2, SubmittedFacts DEF RunOK, HandlesOK
<1>4. buffer \in Nat
  <2>1. handles[run.index] \in Handle /\ handles[run.index].status = "ready"
    BY <1>0, <1>1, <1>3 DEF HandlesOK
  <2>2. handles[run.index] \in Ready
    BY <2>1 DEF Handle, NoHandle, Waiting
  <2>3. t \in Transfer
    BY <2>2 DEF Ready
  <2> HIDE DEF t
  <2> QED BY <2>3 DEF Transfer
<1> HIDE DEF k, t, buffer
<1>5. /\ DOMAIN database'.frequency \subseteq Key /\ Accounts(predictor')
      /\ failure \in Failures
  BY <1>0, <1>1 DEF observers, StoreOK
<1>6. {"differentBuffer", "noRoom", "reconcile", "offset"} \subseteq Failures
  BY DEF Failures
<1>7. Destination \in {"Ram", "Vram"}
  BY DEF Destination
<1>8. known \subseteq Key /\ offsets \subseteq known
  BY <1>0, <1>3 DEF StoreOK
<1>9. \A r \in adopted : r \in [Key -> Placement] /\ Fits(r)
  <2>1. mode \in Modes /\ mgr \in [Key -> Placement] /\ Fits(mgr) /\ IsFiniteSet(DOMAIN handles)
    BY <1>0, HandlesFinite DEF StoreOK
  <2>2. \A r \in Adopt(k, Destination, buffer) : r \in [Key -> Placement] /\ Fits(r)
    BY <1>3, <1>4, <1>7, <2>1, AdoptFacts
  <2> QED BY <2>1, <2>2
<1> HIDE DEF adopted, known, s
<1>10. CASE buffer # 0 /\ Conflicts(k, Destination, buffer)
  BY <1>1, <1>6, <1>10, <1>a, SchStays, QuietThrow
<1>11. CASE ~(buffer # 0 /\ Conflicts(k, Destination, buffer)) /\ adopted = {}
  BY <1>1, <1>6, <1>11, <1>a, SchStays, QuietThrow
<1>12. CASE ~(buffer # 0 /\ Conflicts(k, Destination, buffer)) /\ adopted # {}
  <2>1. /\ mgr' \in adopted /\ offsets' = known
        /\ IF ~CanAcknowledge(sch, k) THEN Throw("reconcile", sch)
           ELSE IF k \notin known THEN Throw("offset", s)
           ELSE /\ sch' = s /\ handles' = [handles EXCEPT ![run.index] = NoHandle]
                /\ pc' = "acquire" /\ UNCHANGED <<failure, faults, run, warm, leased>>
    BY <1>12, <1>a
  <2>2. mgr' \in [Key -> Placement] /\ Fits(mgr')
    BY <1>9, <2>1
  <2>3. CASE ~CanAcknowledge(sch, k)
    <3>1. Throw("reconcile", sch)
      BY <2>1, <2>3
    <3> QED BY <1>1, <1>5, <1>6, <1>8, <2>1, <2>2, <3>1, SchStays, ThrowOK
  <2>4. CanAcknowledge(sch, k) => /\ Continues(sch, s) /\ ~Pending(s, k)
                                  /\ s.resident[k] = Nothing
    BY <1>0, <1>3, <1>7, AcknowledgeContinues DEF s
  <2>5. CASE CanAcknowledge(sch, k) /\ k \notin known
    <3>1. Throw("offset", s)
      BY <2>1, <2>5
    <3> QED BY <1>1, <1>5, <1>6, <1>8, <2>1, <2>2, <2>4, <2>5, <3>1, ThrowOK
  <2>6. CASE CanAcknowledge(sch, k) /\ k \in known
    <3>1. /\ sch' = s /\ handles' = [handles EXCEPT ![run.index] = NoHandle]
          /\ pc' = "acquire" /\ UNCHANGED <<failure, faults, run, warm, leased>>
      BY <2>1, <2>6
    <3>2. pc' \in Running /\ pc' \notin {"idle", "adopt"}
      BY <3>1 DEF Running
    <3>3. RunOK'
      BY <1>0, <1>2, <3>1, <3>2, RunKept
    <3>4. HoldsLease' <=> HoldsLease
      BY <1>1, <3>1 DEF HoldsLease, Submitting
    <3>5. /\ DOMAIN handles' = DOMAIN handles
          /\ \A g \in DOMAIN handles : handles'[g] = handles[g] \/ handles'[g] = NoHandle
      BY <1>3, <3>1
    <3>6. Current \in offsets' /\ ~Pending(sch', Current) /\ sch'.resident[Current] = Nothing
      BY <2>1, <2>4, <2>6, <3>1 DEF k
    <3>7. warm' = NoHandle /\ failure' \in Failures /\ Continues(sch, sch')
      BY <1>2, <1>5, <2>4, <2>6, <3>1
    <3> QED BY <1>1, <1>2, <1>5, <1>8, <2>1, <2>2, <3>1, <3>2, <3>3, <3>4, <3>5, <3>6, <3>7,
               NotWaiting, WithinLayer
  <2> QED BY <2>3, <2>5, <2>6
<1> QED BY <1>10, <1>11, <1>12

\* scheduler_->acquire and the residency lease.
LEMMA AcquireExpertOK == Inv /\ AcquireExpert => Inv'
<1> SUFFICES ASSUME Inv, AcquireExpert PROVE Inv'
  OBVIOUS
<1> DEFINE k == Current
           s == [sch EXCEPT !.state[k] = AcquireOf(@)]
           u == [s EXCEPT !.state[k] = ReleaseOf(@)]
<1>0. RunOK /\ CombinedOK /\ HandlesOK /\ SchOK(sch) /\ LeaseOK /\ StoreOK /\ Accounts(predictor)
  BY DEF Inv
<1>1. pc = "acquire" /\ UNCHANGED <<mode, offsets, combined, observers>>
  BY DEF AcquireExpert
<1>a. IF ~CanAcquire(sch.state[k]) THEN Throw("acquire", sch) /\ UNCHANGED mgr
      ELSE IF Leasable(k) = {}
        THEN /\ (sch' = u /\ Leave("noRoom") /\ UNCHANGED faults) \/ Abandon(s)
             /\ UNCHANGED mgr
      ELSE /\ mgr' \in Leasable(k) /\ sch' = s
           /\ leased' = [key |-> k, buffer |-> mgr'[k].buffer]
           /\ pc' = "overlap" /\ UNCHANGED <<failure, faults, run, handles, warm>>
  BY Zenon DEF AcquireExpert, Goto
<1>2. pc \in Running /\ warm = NoHandle /\ pc # "idle" /\ leased = NoLease
  BY <1>0, <1>1 DEF Running, Submitting, HandlesOK, LeaseOK, HoldsLease
<1>3. k \in Key /\ k \in offsets /\ ~Pending(sch, k) /\ sch.resident[k] = Nothing
  BY <1>0, <1>1, <1>2, SubmittedFacts DEF LeaseOK
<1> HIDE DEF k
<1>4. sch = [state |-> sch.state, pending |-> sch.pending, resident |-> sch.resident,
             prefetched |-> sch.prefetched]
      /\ sch.state[k] \in ExpertRecord /\ sch.state \in [Key -> ExpertRecord]
  BY <1>0, <1>3, SchParts DEF SchOK, SchType
<1> DEFINE x == AcquireOf(sch.state[k])
<1>5. x \in ExpertRecord /\ x.state = "InUse" /\ ReleaseOf(x) \in ExpertRecord
      /\ ReleaseOf(x).state = "Ready"
  BY <1>4 DEF AcquireOf, ReleaseOf, ExpertRecord, LifecycleState
<1>6. s = [state |-> [sch.state EXCEPT ![k] = x], pending |-> sch.pending,
           resident |-> sch.resident, prefetched |-> sch.prefetched]
  <2>1. s = [sch EXCEPT !.state[k] = x]
    BY <1>4
  <2> HIDE DEF s, x
  <2> QED BY <1>4, <2>1
<1>7. u = [s EXCEPT !.state[k] = ReleaseOf(s.state[k])]
  BY <1>6
<1>b. ASSUME CanAcquire(sch.state[k])
      PROVE  /\ \A j \in Key : InUse(s, j) <=> InUse(sch, j) \/ j = k
             /\ ~InUse(sch, k) /\ SchOK(s)
  <2> HIDE DEF x, s, u
  <2>1. s \in SchType /\ s.pending = sch.pending /\ s.resident = sch.resident
    BY <1>0, <1>5, <1>6, SchParts DEF SchOK, SchType
  <2>2. \A j \in Key : s.state[j] = IF j = k THEN x ELSE sch.state[j]
    BY <1>4, <1>6
  <2>3. \A j \in Key : InUse(s, j) <=> InUse(sch, j) \/ j = k
    BY <1>5, <2>2 DEF InUse
  <2>4. ~InUse(sch, k)
    BY <1>b DEF CanAcquire, InUse
  <2>5. SchOK(s)
    BY <1>0, <1>3, <2>1, <2>3 DEF SchOK, Pending
  <2> QED BY <2>3, <2>4, <2>5
<1>8. CASE ~CanAcquire(sch.state[k])
  <2>1. "acquire" \in Failures
    BY DEF Failures
  <2> QED BY <1>1, <1>8, <1>a, <2>1, SchStays, QuietThrow
<1>9. CASE CanAcquire(sch.state[k]) /\ Leasable(k) = {}
  <2>1. /\ "noRoom" \in Failures /\ UNCHANGED mgr
        /\ (sch' = u /\ Leave("noRoom") /\ UNCHANGED faults) \/ Abandon(s)
    BY <1>9, <1>a DEF Failures
  <2> HIDE DEF x, s, u
  <2>2. s.state[k] = x
    BY <1>3, <1>4, <1>6
  <2>3. u = [state |-> [sch.state EXCEPT ![k] = ReleaseOf(x)], pending |-> sch.pending,
             resident |-> sch.resident, prefetched |-> sch.prefetched]
    BY <1>3, <1>4, <1>6, <1>7, <2>2
  <2>4. u \in SchType
    BY <1>0, <1>5, <2>3, SchParts DEF SchOK, SchType
  <2>5. \A j \in Key : u.state[j] = IF j = k THEN ReleaseOf(x) ELSE sch.state[j]
    BY <1>4, <2>3
  <2>6. \A j \in Key : InUse(u, j) <=> InUse(sch, j)
    <3>1. ~InUse(sch, k)
      BY <1>9 DEF CanAcquire, InUse
    <3> QED BY <1>5, <2>5, <3>1 DEF InUse
  <2>7. u.pending = sch.pending /\ u.resident = sch.resident
    BY <2>3
  <2>8. Continues(sch, u)
    BY <1>0, <2>4, <2>6, <2>7 DEF Continues, SchOK, Pending
  <2>9. CASE sch' = u /\ Leave("noRoom") /\ UNCHANGED faults
    <3>1. Throw("noRoom", u)
      BY <1>2, <2>9 DEF Throw, Released
    <3> QED BY <1>1, <2>1, <2>8, <3>1, QuietThrow
  <2>10. CASE Abandon(s)
    <3>1. \A j \in Key : InUse(s, j) => j = k \/ j \in Abandoned
      <4>1. \A j \in Key : leased.key # j
        BY <1>2, KeyFinite DEF NoLease
      <4> QED BY <1>9, <1>b, <4>1, AbandonedFacts
    <3>2. /\ mgr' \in [Key -> Placement] /\ Fits(mgr') /\ offsets' \subseteq Key
          /\ DOMAIN database'.frequency \subseteq Key /\ Accounts(predictor')
      BY <1>0, <1>1, <2>1 DEF StoreOK, Fits, Used, observers
    <3> QED BY <1>1, <1>3, <1>9, <1>b, <2>10, <3>1, <3>2, AbandonOK
  <2> QED BY <2>1, <2>9, <2>10
<1>10. CASE CanAcquire(sch.state[k]) /\ Leasable(k) # {}
  <2>1. /\ mgr' \in Leasable(k) /\ sch' = s
        /\ leased' = [key |-> k, buffer |-> mgr'[k].buffer]
        /\ pc' = "overlap" /\ UNCHANGED <<failure, faults, run, handles, warm>>
    BY <1>10, <1>a
  <2>2. mode \in Modes /\ mgr \in [Key -> Placement] /\ Fits(mgr) /\ IsFiniteSet(DOMAIN handles)
    BY <1>0, HandlesFinite DEF StoreOK
  <2>3. Destination \in {"Ram", "Vram"} /\ Destination' = Destination
    BY <1>1 DEF Destination
  <2>4. mgr' \in [Key -> Placement] /\ Fits(mgr') /\ mgr'[k].location = Destination
    <3>1. CASE mgr[k].location = Destination
      BY <2>1, <2>2, <3>1 DEF Leasable
    <3>2. CASE mgr[k].location # Destination
      <4>1. mgr' \in Adopt(k, Destination, Fresh(k)) /\ Fresh(k) \in Nat
        BY <2>1, <2>2, <3>2, FreshFacts DEF Leasable
      <4> QED BY <1>3, <2>2, <2>3, <4>1, AdoptFacts
    <3> QED BY <3>1, <3>2
  <2>5. mgr'[k] = [location |-> Destination, buffer |-> mgr'[k].buffer] /\ mgr'[k].buffer \in Nat
    BY <1>3, <2>4 DEF Placement
  <2> HIDE DEF x, s, u
  <2>6. /\ sch'.pending = sch.pending /\ sch'.resident = sch.resident
        /\ \A j \in Key : sch'.state[j] = IF j = k THEN x ELSE sch.state[j]
        /\ sch' \in SchType
    <3>1. sch' = [state |-> [sch.state EXCEPT ![k] = x], pending |-> sch.pending,
                  resident |-> sch.resident, prefetched |-> sch.prefetched]
      BY <1>6, <2>1
    <3>2. sch' \in SchType
      BY <1>0, <1>5, <3>1, SchParts DEF SchOK, SchType
    <3> QED BY <1>4, <3>1, <3>2
  <2>7. /\ \A j \in Key : InUse(sch', j) <=> InUse(sch, j) \/ j = k
        /\ ~InUse(sch, k)
    BY <1>10, <1>b, <2>1
  <2>8. SchOK(sch')
    BY <1>10, <1>b, <2>1
  <2>9. pc' \in Running /\ pc' \notin {"idle", "adopt", "acquire"}
    BY <2>1 DEF Running
  <2>10. RunOK'
    BY <1>0, <1>2, <2>1, <2>9, RunKept
  <2>11. Groups' = Groups /\ \A g : KeyOf(g)' = KeyOf(g)
    BY <2>1 DEF Groups, KeyOf
  <2>12. CombinedOK'
    <3>1. \A n, t, e : Added(n, t, e)' <=> Added(n, t, e)
      BY <2>11 DEF Added
    <3> QED BY <1>0, <1>1, <1>2, <2>1, <3>1 DEF CombinedOK
  <2>13. HandlesOK'
    <3>1. warm' = NoHandle /\ handles' = handles
      BY <1>2, <2>1
    <3>2. AwaitsLiveTask'
      BY <1>0, <2>6, <2>11, <3>1, NotWaiting DEF HandlesOK, AwaitsLiveTask
    <3>3. DOMAIN handles' = DOMAIN Groups'
      BY <1>0, <1>2, <2>11, <3>1 DEF HandlesOK
    <3> QED BY <1>0, <2>9, <3>1, <3>2, <3>3, NotWaiting DEF HandlesOK
  <2>14. LeaseOK'
    <3>1. leased' # NoLease /\ leased' \in [key : Key, buffer : Nat]
          /\ leased'.key = k /\ leased'.buffer = mgr'[k].buffer
      BY <1>3, <2>1, <2>5, KeyFinite DEF NoLease
    <3>2. HoldsLease'
      BY <2>1 DEF HoldsLease
    <3>3. mgr'[leased'.key] = [location |-> Destination', buffer |-> leased'.buffer]
          /\ leased'.key \in offsets'
      BY <1>1, <1>3, <2>3, <2>5, <3>1
    <3>4. \A j \in Key : leased.key # j
      BY <1>2, KeyFinite DEF NoLease
    <3>5. Cardinality(Abandoned') <= Charged'
      BY <1>1, <2>1, <2>7, <3>1, <3>4, ChargedFacts, AbandonedKept
    <3> QED BY <1>3, <2>7, <2>9, <3>1, <3>2, <3>3, <3>5 DEF LeaseOK, InUse
  <2>15. StoreOK'
    BY <1>0, <1>1, <2>1, <2>4 DEF StoreOK, Fits, observers
  <2>16. Accounts(predictor)'
    BY <1>0, <1>1 DEF observers
  <2> QED BY <2>8, <2>10, <2>12, <2>13, <2>14, <2>15, <2>16 DEF Inv
<1> QED BY <1>8, <1>9, <1>10

\* The next expert may be submitted before this one is computed.
LEMMA OverlapOK == Inv /\ Overlap => Inv'
<1> SUFFICES ASSUME Inv, Overlap PROVE Inv'
  OBVIOUS
<1>0. RunOK /\ HandlesOK
  BY DEF Inv
<1>1. /\ pc = "overlap"
      /\ UNCHANGED <<mode, handles, warm, sch, mgr, leased, offsets, combined, faults, observers>>
      /\ failure' = failure
  BY DEF Overlap, Goto
<1>2. pc \in Running /\ warm' = NoHandle /\ pc # "idle"
  BY <1>0, <1>1 DEF Running, HandlesOK
<1>3. CASE pc' = "execute" /\ run' = run
  <2>1. pc' \in Running /\ pc' \notin {"adopt", "acquire"}
    BY <1>3 DEF Running
  <2>2. RunOK' /\ (HoldsLease' <=> HoldsLease)
    BY <1>0, <1>1, <1>2, <1>3, <2>1, RunKept DEF HoldsLease
  <2> QED BY <1>1, <1>2, <1>3, <2>1, <2>2, SchStays, QuietStep
<1>4. CASE pc' = "submit" /\ run' = [run EXCEPT !.submitting = run.index + 1, !.resume = "execute"]
           /\ run.index + 1 <= Len(Groups)
  <2>1. run' = [pass |-> run.pass, layer |-> run.layer, tokens |-> run.tokens,
                decision |-> run.decision, token |-> run.token, index |-> run.index,
                submitting |-> run.index + 1, resume |-> "execute"]
    BY <1>0, <1>4 DEF RunOK
  <2>2. pc' \in Running /\ pc' \notin {"adopt", "acquire"}
    BY <1>4 DEF Running, Submitting
  <2>3. run.index \in DOMAIN Groups /\ run.index + 1 \in DOMAIN Groups
    <3>1. Len(Groups) \in Nat /\ DOMAIN Groups = 1 .. Len(Groups) /\ run.index \in DOMAIN Groups
      BY <1>0, <1>2 DEF RunOK, Routed, Groups
    <3> QED BY <1>4, <3>1
  <2>4. RunOK'
    <3>1. Groups' = Groups
      BY <2>1 DEF Groups
    <3> QED BY <1>0, <1>2, <1>4, <2>1, <2>2, <2>3, <3>1 DEF RunOK
  <2>5. HoldsLease' <=> HoldsLease
    BY <1>1, <1>4, <2>1 DEF HoldsLease, Submitting
  <2> QED BY <1>1, <1>2, <1>4, <2>1, <2>2, <2>4, <2>5, SchStays, QuietStep
<1> QED BY <1>3, <1>4 DEF Overlap, Goto

\* The group's output is added and the expert released.
LEMMA ExecuteExpertOK == Inv /\ ExecuteExpert => Inv'
<1> SUFFICES ASSUME Inv, ExecuteExpert PROVE Inv'
  OBVIOUS
<1> DEFINE group == Groups[run.index]
           rows == ScatterRows(group)
           n == Len(Groups)
<1>0. RunOK /\ CombinedOK /\ HandlesOK /\ SchOK(sch) /\ LeaseOK /\ StoreOK /\ Accounts(predictor)
  BY DEF Inv
<1>1. /\ pc = "execute" /\ sch' = Released(sch) /\ leased' = NoLease
      /\ run' = [run EXCEPT !.index = @ + 1]
      /\ pc' = (IF run.index = n THEN "return" ELSE "await")
      /\ UNCHANGED <<failure, faults, mode, handles, warm, mgr, offsets, observers>>
      /\ combined' = [a \in DOMAIN combined |->
                        IF a[1] \in rows /\ a[2] = group.expert
                          THEN combined[a] + 1 ELSE combined[a]]
  BY DEF ExecuteExpert, Goto
<1>2. pc \in Running /\ warm = NoHandle /\ pc # "idle"
  BY <1>0, <1>1 DEF Running, HandlesOK
<1>3. run' = [pass |-> run.pass, layer |-> run.layer, tokens |-> run.tokens,
              decision |-> run.decision, token |-> run.token, index |-> run.index + 1,
              submitting |-> run.submitting, resume |-> run.resume]
  BY <1>0, <1>1 DEF RunOK
<1>4. /\ n \in Nat /\ DOMAIN Groups = 1 .. n /\ run.index \in 1 .. n
      /\ Routed(run.decision, run.tokens)
  BY <1>0, <1>2 DEF RunOK, Routed, Groups
<1>5. Groups' = Groups /\ \A g : KeyOf(g)' = KeyOf(g)
  BY <1>3 DEF Groups, KeyOf
<1>6. RunOK'
  <2>1. run.index # n => run.index + 1 \in 1 .. n
    BY <1>4
  <2>2. pc' \in {"await", "return"} /\ (pc' = "await" => run.index # n)
        /\ (pc' = "return" => run.index + 1 = n + 1)
    BY <1>1
  <2>3. pc' \in {"idle", "observe", "dispatch", "return"} \cup Running /\ (pc' \in Running <=> pc' = "await")
    BY <2>2 DEF Running, Submitting
  <2> QED BY <1>0, <1>2, <1>3, <1>4, <1>5, <2>1, <2>2, <2>3 DEF RunOK
<1>7. CombinedOK'
  <2>0. PICK i \in 1 .. n : i = run.index
    BY <1>4
  <2>1. group.expert \in Experts
        /\ \A g \in 1 .. n : Groups[g].expert = group.expert => g = i
    BY <1>4, <2>0 DEF Routed, Groups
  <2>2. \A t, e : Added(i + 1, t, e)' <=> Added(i, t, e) \/ (e = group.expert /\ t \in rows)
    <3>1. \A g \in 1 .. n : g < i + 1 <=> g < i \/ g = i
      BY <1>4
    <3>2. rows = ToSet(group.tokens)
      BY DEF ScatterRows
    <3> QED BY <1>4, <1>5, <2>0, <3>1, <3>2 DEF Added
  <2>3. \A t : ~Added(i, t, group.expert)
    <3>1. ~(i < i)
      BY <1>4
    <3> QED BY <1>4, <2>1, <3>1 DEF Added
  <2>4. /\ DOMAIN combined = (1 .. run.tokens) \X Experts
        /\ \A t \in 1 .. run.tokens, e \in Experts :
             combined[<<t, e>>] = IF Added(i, t, e) THEN 1 ELSE 0
    BY <1>0, <1>2, <2>0 DEF CombinedOK
  <2> HIDE DEF group, rows
  <2>5. /\ DOMAIN combined' = (1 .. run.tokens) \X Experts
        /\ \A t \in 1 .. run.tokens, e \in Experts :
             combined'[<<t, e>>] = IF t \in rows /\ e = group.expert
                                     THEN combined[<<t, e>>] + 1 ELSE combined[<<t, e>>]
    BY <1>1, <2>4
  <2>6. ASSUME NEW t \in 1 .. run.tokens, NEW e \in Experts
        PROVE  combined'[<<t, e>>] = IF Added(i + 1, t, e)' THEN 1 ELSE 0
    <3>1. CASE t \in rows /\ e = group.expert
      <4>1. ~Added(i, t, e) /\ Added(i + 1, t, e)'
        BY <2>2, <2>3, <3>1
      <4>2. combined[<<t, e>>] = 0
        BY <2>4, <4>1
      <4> QED BY <2>5, <3>1, <4>1, <4>2
    <3>2. CASE ~(t \in rows /\ e = group.expert)
      <4>1. Added(i + 1, t, e)' <=> Added(i, t, e)
        BY <2>2, <3>2
      <4> QED BY <2>4, <2>5, <3>2, <4>1
    <3> QED BY <3>1, <3>2
  <2>7. run'.index = i + 1 /\ run'.tokens = run.tokens
    BY <1>3, <2>0
  <2> QED BY <2>5, <2>6, <2>7 DEF CombinedOK
<1>8. /\ SchOK(sch') /\ \A k \in Key : InUse(sch', k) <=> InUse(sch, k) /\ leased.key # k
      /\ \A k \in Key : Pending(sch', k) <=> Pending(sch, k)
  <2>1. leased # NoLease => leased.key \in Key
    BY <1>0, LeaseFacts
  <2> QED BY <1>0, <1>1, <2>1, ReleasedFacts
<1>9. pc' \notin {"idle", "adopt", "acquire", "overlap", "execute"} /\ pc' \notin Submitting
  BY <1>1 DEF Submitting
<1>10. HandlesOK'
  <2>1. warm' = NoHandle /\ handles' = handles
    BY <1>1, <1>2
  <2>2. \A g \in DOMAIN handles : handles[g].status = "waiting" => Pending(sch', KeyOf(g))
    <3> SUFFICES ASSUME NEW g \in DOMAIN handles, handles[g].status = "waiting"
                 PROVE  Pending(sch', KeyOf(g))
      OBVIOUS
    <3>1. Pending(sch, KeyOf(g))
      BY <1>0 DEF HandlesOK, AwaitsLiveTask, Pending
    <3>2. KeyOf(g) \in Key
      BY <1>0, <1>2, KeyOfFacts DEF HandlesOK
    <3> QED BY <1>8, <3>1, <3>2
  <2>3. AwaitsLiveTask'
    BY <1>5, <2>1, <2>2, NotWaiting DEF AwaitsLiveTask, Pending
  <2>4. DOMAIN handles' = DOMAIN Groups'
    BY <1>0, <1>2, <1>5, <2>1 DEF HandlesOK
  <2> QED BY <1>0, <1>9, <2>1, <2>3, <2>4, NotWaiting DEF HandlesOK
<1>11. LeaseOK'
  <2>1. \A k \in Key : NoLease.key # k
    BY KeyFinite DEF NoLease
  <2>2. Cardinality(Abandoned') <= Charged'
    BY <1>1, <1>8, <2>1, ChargedFacts, AbandonedKept
  <2> QED BY <1>1, <1>9, <2>1, <2>2 DEF LeaseOK, HoldsLease
<1>12. StoreOK' /\ Accounts(predictor)'
  BY <1>0, <1>1 DEF StoreOK, Fits, observers, Used
<1> QED BY <1>6, <1>7, <1>8, <1>10, <1>11, <1>12 DEF Inv

\* A kernel throws, and then perhaps the wait of the handler.
LEMMA FailExpertOK == Inv /\ FailExpert => Inv'
<1> SUFFICES ASSUME Inv, FailExpert PROVE Inv'
  OBVIOUS
<1>1. /\ pc = "execute" /\ UNCHANGED <<mode, mgr, offsets, observers>> /\ "executor" \in Failures
      /\ (Fault /\ sch' = Released(sch) /\ Leave("executor")) \/ Abandon(sch)
  BY DEF FailExpert, Failures
<1>2. /\ mgr' \in [Key -> Placement] /\ Fits(mgr') /\ offsets' \subseteq Key
      /\ DOMAIN database'.frequency \subseteq Key /\ Accounts(predictor')
  BY <1>1 DEF Inv, StoreOK, observers
<1>3. leased.key \in Key /\ SchOK(sch)
  BY <1>1, LeaseFacts DEF Inv, LeaseOK, HoldsLease
<1>4. CASE Fault /\ sch' = Released(sch) /\ Leave("executor")
  <2>1. SchOK(sch') /\ \A k \in Key : InUse(sch', k) <=> InUse(sch, k) /\ leased.key # k
    BY <1>3, <1>4, ReleasedFacts
  <2>2. {k \in Key : InUse(sch', k)} = Abandoned
    BY <2>1, AbandonedFacts
  <2>3. Cardinality(Abandoned) <= Charged' /\ faults' \in 0 .. MaxFaults
    BY <1>1, <1>4, ChargedFacts DEF Fault, Charged
  <2> QED BY <1>1, <1>2, <1>4, <2>1, <2>2, <2>3, LeaveOK
<1>5. CASE Abandon(sch)
  <2>1. \A j \in Key : InUse(sch, j) => j = leased.key \/ j \in Abandoned
    BY AbandonedFacts
  <2> QED BY <1>1, <1>2, <1>3, <1>5, <2>1, AbandonOK
<1> QED BY <1>1, <1>4, <1>5

\* executeBatch returns.
LEMMA ReturnLayerOK == Inv /\ ReturnLayer => Inv'
<1> SUFFICES ASSUME Inv, ReturnLayer PROVE Inv'
  OBVIOUS
<1>0. RunOK /\ HandlesOK /\ SchOK(sch) /\ LeaseOK /\ StoreOK /\ Accounts(predictor)
  BY DEF Inv
<1>1. /\ pc = "return" /\ pc' = "idle" /\ handles' = <<>>
      /\ run' = AtRest(run.pass, NextLayer(run.layer),
                       IF NextLayer(run.layer) = 0 THEN 0 ELSE run.tokens)
      /\ UNCHANGED <<failure, faults, mode, warm, sch, mgr, leased, offsets, combined,
                     observers>>
  BY DEF ReturnLayer, Goto
<1>2. RunOK' /\ CombinedOK'
  <2> DEFINE layer == NextLayer(run.layer)
             tokens == IF layer = 0 THEN 0 ELSE run.tokens
  <2>1. layer \in 0 .. LayerCount - 1
    <3>1. LayerCount \in Nat \ {0} /\ run.layer + 1 \in Nat
      BY <1>0, MoEAssumption DEF RunOK
    <3> QED BY <3>1 DEF NextLayer
  <2>2. tokens \in Nat /\ run.pass \in 0 .. MaxPasses
    BY <1>0 DEF RunOK
  <2>3. run' = AtRest(run.pass, layer, tokens)
    BY <1>1
  <2> HIDE DEF layer, tokens
  <2> QED BY <1>1, <2>1, <2>2, <2>3, RestFacts
<1>3. HandlesOK'
  <2>1. warm' = NoHandle /\ DOMAIN handles' = {}
    BY <1>0, <1>1 DEF HandlesOK
  <2> QED BY <1>1, <2>1, NotWaiting DEF HandlesOK, AwaitsLiveTask
<1>4. LeaseOK'
  <2>1. leased = NoLease
    BY <1>0, <1>1 DEF LeaseOK, HoldsLease, Submitting
  <2>2. Cardinality(Abandoned') <= Charged'
    BY <1>1, ChargedFacts, AbandonedKept
  <2> QED BY <1>0, <1>1, <2>1, <2>2 DEF LeaseOK, HoldsLease, Submitting, InUse
<1>5. SchOK(sch)' /\ StoreOK' /\ Accounts(predictor)'
  BY <1>0, <1>1 DEF StoreOK, Fits, Used, observers
<1> QED BY <1>2, <1>3, <1>4, <1>5 DEF Inv

\* A layer begins: expire, route, check the decision.
LEMMA BeginLayerOK ==
  ASSUME Inv, NEW tokens \in Nat, BeginLayer(tokens)
  PROVE  Inv'
<1> DEFINE gone == Expired(sch, run.layer)
           s == Expire(sch, gone)
<1>0. RunOK /\ HandlesOK /\ SchOK(sch) /\ LeaseOK /\ StoreOK /\ Accounts(predictor)
  BY DEF Inv
<1>1. /\ pc = "idle" /\ UNCHANGED <<mode, mgr, offsets, observers>>
      /\ run.layer = 0 => run.pass < MaxPasses
  BY DEF BeginLayer
<1>2. CASE \E k \in gone : ~CanReconcile(sch.state[k])
  <2>1. Throw("expire", sch) /\ "expire" \in Failures
    BY <1>2 DEF BeginLayer, Failures
  <2> QED BY <1>1, <2>1, SchStays, QuietThrow
<1>3. CASE \A k \in gone : CanReconcile(sch.state[k])
  <2>1. PICK rows \in [1 .. tokens -> ScoresAt[run.layer]] :
          LET decision == Route(rows)
          IN  IF ~BatchValid(decision) THEN Throw("router", s) /\ UNCHANGED combined
              ELSE /\ pc' = "observe" /\ failure' = "none" /\ sch' = s
                   /\ run' = [AtRest(IF run.layer = 0 THEN run.pass + 1 ELSE run.pass,
                                     run.layer, tokens) EXCEPT !.decision = decision]
                   /\ handles' = [g \in DOMAIN decision.groups |-> NoHandle]
                   /\ combined' = [a \in (1 .. tokens) \X ExpertIds(RouterConfig) |-> 0]
                   /\ UNCHANGED <<warm, leased, faults>>
    BY <1>3, Zenon DEF BeginLayer
  <2> DEFINE decision == Route(rows)
             pass == IF run.layer = 0 THEN run.pass + 1 ELSE run.pass
  <2>2. Continues(sch, s)
    BY <1>0, <1>3, ExpireContinues
  <2> HIDE DEF s, gone
  <2>3. CASE ~BatchValid(decision)
    <3>1. Throw("router", s) /\ "router" \in Failures
      BY <2>1, <2>3 DEF Failures
    <3> QED BY <1>1, <2>2, <3>1, QuietThrow
  <2>4. CASE BatchValid(decision)
    <3>1. /\ pc' = "observe" /\ failure' = "none" /\ sch' = s
          /\ run' = [AtRest(pass, run.layer, tokens) EXCEPT !.decision = decision]
          /\ handles' = [g \in DOMAIN decision.groups |-> NoHandle]
          /\ combined' = [a \in (1 .. tokens) \X Experts |-> 0]
          /\ UNCHANGED <<warm, leased, faults>>
      BY <2>1, <2>4 DEF Experts
    <3>2. Routed(decision, tokens) /\ decision.layer = run.layer
      <4>1. rows \in [1 .. tokens -> [1 .. RouterConfig.expertCount -> Int]]
        <5>1. ScoresAt[run.layer] \subseteq [1 .. RouterConfig.expertCount -> Int]
          BY <1>0, MoEAssumption DEF RunOK
        <5> QED BY <5>1
      <4>2. decision \in {CpuRouteBatch(run.layer, rows, RouterConfig),
                          CudaRouteBatch(run.layer, rows, RouterConfig, mode.native)}
        BY DEF Route
      <4>3. decision # Refused
        BY <2>4 DEF BatchValid, Refused
      <4> HIDE DEF decision
      <4> QED BY <4>1, <4>2, <4>3, RouteFacts, SMTT(40)
    <3>3. tokens # 0
      <4>1. decision.tokens # <<>>
        BY <2>4 DEF BatchValid
      <4>2. decision.tokens = [t \in 1 .. tokens |-> decision.tokens[t]]
        BY <3>2 DEF Routed
      <4> HIDE DEF decision
      <4>3. tokens = 0 => decision.tokens = <<>>
        BY <4>2
      <4> QED BY <4>1, <4>3
    <3> HIDE DEF decision
    <3>4. run' = [pass |-> pass, layer |-> run.layer, tokens |-> tokens, decision |-> decision,
                  token |-> 1, index |-> 1, submitting |-> 1, resume |-> "await"]
      BY <3>1 DEF AtRest
    <3>5. pass \in 0 .. MaxPasses
      BY <1>0, <1>1, MoEAssumption DEF RunOK
    <3> HIDE DEF pass
    <3>6. RunOK'
      BY <1>0, <3>1, <3>2, <3>3, <3>4, <3>5 DEF RunOK, Running, Submitting
    <3>7. Groups' = decision.groups
      BY <3>4 DEF Groups
    <3>8. CombinedOK'
      <4>1. \A t, e : ~Added(1, t, e)'
        <5>1. \A g \in DOMAIN decision.groups : ~(g < 1)
          BY <3>2 DEF Routed
        <5> QED BY <3>7, <5>1 DEF Added
      <4> QED BY <3>1, <3>4, <4>1 DEF CombinedOK
    <3>9. HandlesOK'
      <4>1. warm' = NoHandle
        BY <1>0, <1>1, <3>1 DEF HandlesOK
      <4>2. DOMAIN handles' = DOMAIN Groups' /\ \A g \in DOMAIN handles' : handles'[g] = NoHandle
        BY <3>1, <3>7
      <4> QED BY <3>1, <4>1, <4>2, NotWaiting DEF HandlesOK, AwaitsLiveTask
    <3>10. LeaseOK'
      <4>1. leased = NoLease /\ leased' = NoLease
        BY <1>0, <1>1, <3>1 DEF LeaseOK, HoldsLease, Submitting
      <4>2. \A k \in Key : NoLease.key # k
        BY KeyFinite DEF NoLease
      <4>3. \A k \in Key : InUse(sch', k) <=> InUse(sch, k)
        BY <2>2, <3>1 DEF Continues
      <4>4. Cardinality(Abandoned') <= Charged'
        BY <1>1, <3>1, <4>1, <4>3, ChargedFacts, AbandonedKept
      <4> QED BY <3>1, <4>1, <4>2, <4>4 DEF LeaseOK, HoldsLease, Submitting
    <3>11. SchOK(sch)' /\ StoreOK' /\ Accounts(predictor)'
      <4>1. SchOK(sch)'
        BY <2>2, <3>1 DEF Continues
      <4>2. StoreOK' /\ Accounts(predictor)'
        BY <1>0, <1>1, <3>1 DEF StoreOK, Fits, Used, observers, Failures
      <4> QED BY <4>1, <4>2
    <3> QED BY <3>6, <3>8, <3>9, <3>10, <3>11 DEF Inv
  <2> QED BY <2>3, <2>4
<1> QED BY <1>2, <1>3

-----------------------------------------------------------------------------
(* The scheduler's workers.                                                 *)

\* A worker touches no expert in use, starts no task and retains nothing for
\* an expert without one.
LEMMA WorkerKeeps ==
  ASSUME Inv, Quiet, SchOK(sch'), HandlesOK', faults' \in 0 .. MaxFaults, faults <= faults',
         \A k \in Key : InUse(sch', k) <=> InUse(sch, k),
         \A k \in Key : ~Pending(sch, k) =>
           /\ ~Pending(sch', k)
           /\ sch.resident[k] = Nothing => sch'.resident[k] = Nothing
  PROVE  Inv'
<1>0. RunOK /\ CombinedOK /\ LeaseOK /\ StoreOK /\ Accounts(predictor)
  BY DEF Inv
<1>1. /\ UNCHANGED <<mode, pc, run, mgr, leased, offsets, combined, failure>>
      /\ database' = database /\ predictor' = predictor
  BY DEF Quiet, observers
<1>2. RunOK' /\ CombinedOK'
  <2>1. Groups' = Groups
    BY <1>1 DEF Groups
  <2>2. \A n, t, e : Added(n, t, e)' <=> Added(n, t, e)
    BY <2>1 DEF Added
  <2> QED BY <1>0, <1>1, <2>1, <2>2 DEF RunOK, CombinedOK
<1>3. LeaseOK'
  <2>1. Destination' = Destination /\ (HoldsLease' <=> HoldsLease)
    BY <1>1 DEF Destination, HoldsLease
  <2>2. Current' = Current
    BY <1>1 DEF Current, KeyOf, Groups
  <2>3. pc = "acquire" => Current \in Key
    BY SubmittedFacts DEF Running
  <2>4. Cardinality(Abandoned') <= Charged'
    BY <1>1, ChargedFacts, AbandonedKept
  <2> QED BY <1>0, <1>1, <2>1, <2>2, <2>3, <2>4 DEF LeaseOK, InUse, Pending
<1>4. StoreOK' /\ Accounts(predictor)'
  BY <1>0, <1>1 DEF StoreOK, Fits, Used
<1> QED BY <1>2, <1>3, <1>4 DEF Inv

\* The handles while every task stays.
LEMMA TasksStay ==
  ASSUME Inv, Quiet, UNCHANGED <<handles, warm>>,
         \A k \in Key : Pending(sch, k) => Pending(sch', k)
  PROVE  HandlesOK'
<1>0. RunOK /\ HandlesOK
  BY DEF Inv
<1>1. UNCHANGED <<pc, run, handles, warm>>
  BY DEF Quiet
<1>2. Groups' = Groups /\ Submitted' = Submitted /\ \A g : KeyOf(g)' = KeyOf(g)
  BY <1>1 DEF Groups, KeyOf, Submitted
<1>3. \A g \in DOMAIN handles : KeyOf(g) \in Key
  BY <1>0, KeyOfFacts DEF HandlesOK
<1>4. warm.status = "waiting" => Submitted \in Key
  <2>1. warm.status = "waiting" => pc \in Running
    BY <1>0, NotWaiting DEF HandlesOK, Running, Submitting
  <2> QED BY <2>1, SubmittedFacts
<1>5. AwaitsLiveTask'
  BY <1>0, <1>1, <1>2, <1>3, <1>4 DEF HandlesOK, AwaitsLiveTask, Pending
<1> QED BY <1>0, <1>1, <1>2, <1>5 DEF HandlesOK

\* A step of one task to a new phase.
LEMMA TaskMoves ==
  ASSUME Inv, Quiet, UNCHANGED <<handles, warm>>, faults' \in 0 .. MaxFaults, faults <= faults',
         NEW k \in Key, Pending(sch, k), Continues(sch, sch'),
         \A j \in Key : j # k => sch'.pending[j] = sch.pending[j]
                                 /\ (sch.resident[j] = Nothing => sch'.resident[j] = Nothing)
  PROVE  Inv'
<1>1. /\ SchOK(sch') /\ \A j \in Key : InUse(sch', j) <=> InUse(sch, j)
      /\ \A j \in Key : Pending(sch, j) => Pending(sch', j)
  BY DEF Continues
<1>2. HandlesOK'
  BY <1>1, TasksStay
<1>3. \A j \in Key : ~Pending(sch, j) =>
        /\ ~Pending(sch', j) /\ (sch.resident[j] = Nothing => sch'.resident[j] = Nothing)
  BY DEF Pending
<1> QED BY <1>1, <1>2, <1>3, WorkerKeeps

\* A pending expert's record, its task and the rest of the scheduler.
LEMMA PendingFacts ==
  ASSUME Inv, NEW k \in Key, Pending(sch, k)
  PROVE  /\ sch = [state |-> sch.state, pending |-> sch.pending, resident |-> sch.resident,
                   prefetched |-> sch.prefetched]
         /\ sch.pending[k] \in Task /\ ~InUse(sch, k) /\ SchOK(sch)
         /\ sch.state[k] \in ExpertRecord /\ sch.resident[k] \in Transfer
         /\ sch.state \in [Key -> ExpertRecord] /\ sch.pending \in [Key -> {NoTask} \cup Task]
         /\ sch.resident \in [Key -> Transfer] /\ sch.prefetched \in SUBSET Key
<1>1. sch \in SchType /\ SchOK(sch)
  BY DEF Inv, SchOK
<1>2. ~InUse(sch, k)
  BY <1>1 DEF SchOK
<1>3. sch = [state |-> sch.state, pending |-> sch.pending, resident |-> sch.resident,
             prefetched |-> sch.prefetched]
  BY <1>1 DEF SchType
<1> QED BY <1>1, <1>2, <1>3, SchParts

\* A worker's update of the record and the task of its own key.
LEMMA OwnKey ==
  ASSUME Inv, Quiet, UNCHANGED <<handles, warm>>, faults' \in 0 .. MaxFaults, faults <= faults',
         NEW k \in Key, Pending(sch, k), NEW x \in ExpertRecord, x.state # "InUse",
         NEW p \in Task, NEW r \in Transfer,
         sch' = [state |-> [sch.state EXCEPT ![k] = x], pending |-> [sch.pending EXCEPT ![k] = p],
                 resident |-> [sch.resident EXCEPT ![k] = r], prefetched |-> sch.prefetched]
  PROVE  Inv'
<1>1. Continues(sch, sch')
  <2>1. p.phase # "none"
    BY DEF Task
  <2> QED BY <2>1, PendingFacts, OneKey
<1>2. \A j \in Key : j # k => sch'.pending[j] = sch.pending[j] /\ sch'.resident[j] = sch.resident[j]
  BY PendingFacts
<1> QED BY <1>1, <1>2, TaskMoves

\* A worker takes the task.
LEMMA StartTaskOK ==
  ASSUME Inv, NEW k \in Key, StartTask(k)
  PROVE  Inv'
<1> DEFINE x == MarkLoadingOf(sch.state[k])
           p == [sch.pending[k] EXCEPT !.phase = "loading"]
<1>1. Pending(sch, k) /\ UNCHANGED <<handles, warm, faults>> /\ Quiet
  BY DEF StartTask, Phase, Pending
<1>2. x \in ExpertRecord /\ x.state # "InUse"
  BY <1>1, PendingFacts DEF MarkLoadingOf, ExpertRecord, LifecycleState
<1>3. p \in Task
  BY <1>1, PendingFacts DEF Task
<1>4. sch' = [state |-> [sch.state EXCEPT ![k] = x], pending |-> [sch.pending EXCEPT ![k] = p],
              resident |-> [sch.resident EXCEPT ![k] = sch.resident[k]],
              prefetched |-> sch.prefetched]
  <2>1. sch' = [sch EXCEPT !.state[k] = MarkLoadingOf(@), !.pending[k].phase = "loading"]
    BY DEF StartTask
  <2>2. sch' = [state |-> [sch.state EXCEPT ![k] = x], pending |-> [sch.pending EXCEPT ![k] = p],
                resident |-> sch.resident, prefetched |-> sch.prefetched]
    BY <1>1, <2>1, PendingFacts
  <2>3. sch.resident = [sch.resident EXCEPT ![k] = sch.resident[k]]
    BY <1>1, PendingFacts
  <2> QED BY <2>2, <2>3
<1> HIDE DEF x, p
<1>5. faults' \in 0 .. MaxFaults /\ sch.resident[k] \in Transfer
  BY <1>1, PendingFacts DEF Inv, StoreOK
<1> QED BY <1>1, <1>2, <1>3, <1>4, <1>5, OwnKey

\* The transfer arrives.
LEMMA FinishLoadOK ==
  ASSUME Inv, NEW k \in Key, FinishLoad(k)
  PROVE  Inv'
<1> DEFINE t == sch.pending[k]
           x == MarkReadyOf(sch.state[k], t.destination)
           out == Transferred(k)
           p == [t EXCEPT !.phase = "loaded", !.out = out]
<1>1. Pending(sch, k) /\ UNCHANGED <<handles, warm, faults>> /\ Quiet
  BY DEF FinishLoad, Phase, Pending
<1>2. t \in Task
  BY <1>1, PendingFacts
<1>3. x \in ExpertRecord /\ x.state # "InUse"
  BY <1>1, <1>2, PendingFacts, ZenonT(40) DEF MarkReadyOf, ExpertRecord, LifecycleState, Tier, Task
<1>4. out \in Transfer
  <2>1. Fresh(k) \in Nat
    BY HandlesFinite, FreshFacts DEF Inv
  <2>2. t.source \in Transfer
    BY <1>2 DEF Task
  <2> QED BY <2>1, <2>2 DEF Transferred, Transfer
<1> HIDE DEF out
<1>5. p \in Task
  BY <1>2, <1>4 DEF Task
<1>6. sch' = [state |-> [sch.state EXCEPT ![k] = x], pending |-> [sch.pending EXCEPT ![k] = p],
              resident |-> [sch.resident EXCEPT ![k] = sch.resident[k]],
              prefetched |-> sch.prefetched]
  <2>1. sch' = [sch EXCEPT !.state[k] = MarkReadyOf(@, sch.pending[k].destination),
                           !.pending[k].phase = "loaded", !.pending[k].out = out]
    BY DEF FinishLoad, out
  <2>2. sch' = [state |-> [sch.state EXCEPT ![k] = x], pending |-> [sch.pending EXCEPT ![k] = p],
                resident |-> sch.resident, prefetched |-> sch.prefetched]
    BY <1>1, <2>1, PendingFacts
  <2>3. sch.resident = [sch.resident EXCEPT ![k] = sch.resident[k]]
    BY <1>1, PendingFacts
  <2> QED BY <2>2, <2>3
<1> HIDE DEF x, p, t
<1>7. faults' \in 0 .. MaxFaults /\ sch.resident[k] \in Transfer
  BY <1>1, PendingFacts DEF Inv, StoreOK
<1> QED BY <1>1, <1>3, <1>5, <1>6, <1>7, OwnKey

\* The transfer fails.
LEMMA FailLoadOK ==
  ASSUME Inv, NEW k \in Key, FailLoad(k)
  PROVE  Inv'
<1> DEFINE x == MarkFailedOf(sch.state[k])
           p == [sch.pending[k] EXCEPT !.phase = "failed"]
<1>1. Pending(sch, k) /\ UNCHANGED <<handles, warm>> /\ Quiet
      /\ faults < MaxFaults /\ faults' = faults + 1
  BY DEF FailLoad, Fault, Phase, Pending
<1>2. x \in ExpertRecord /\ x.state # "InUse"
  BY <1>1, PendingFacts DEF MarkFailedOf, ExpertRecord, LifecycleState
<1>3. p \in Task
  BY <1>1, PendingFacts DEF Task
<1>4. sch' = [state |-> [sch.state EXCEPT ![k] = x], pending |-> [sch.pending EXCEPT ![k] = p],
              resident |-> [sch.resident EXCEPT ![k] = sch.resident[k]],
              prefetched |-> sch.prefetched]
  <2>1. sch' = [sch EXCEPT !.state[k] = MarkFailedOf(@), !.pending[k].phase = "failed"]
    BY DEF FailLoad
  <2>2. sch' = [state |-> [sch.state EXCEPT ![k] = x], pending |-> [sch.pending EXCEPT ![k] = p],
                resident |-> sch.resident, prefetched |-> sch.prefetched]
    BY <1>1, <2>1, PendingFacts
  <2>3. sch.resident = [sch.resident EXCEPT ![k] = sch.resident[k]]
    BY <1>1, PendingFacts
  <2> QED BY <2>2, <2>3
<1> HIDE DEF x, p
<1>5. faults' \in 0 .. MaxFaults /\ faults <= faults' /\ sch.resident[k] \in Transfer
  <2>1. sch.resident[k] \in Transfer
    BY <1>1, PendingFacts
  <2> QED BY <1>1, <2>1, MoEAssumption DEF Inv, StoreOK
<1> QED BY <1>1, <1>2, <1>3, <1>4, <1>5, OwnKey

\* The transfer is retained, and the prefetch cache trimmed.
LEMMA RetainTransferOK ==
  ASSUME Inv, NEW k \in Key, RetainTransfer(k)
  PROVE  Inv'
<1> DEFINE t == sch.pending[k]
           p == [t EXCEPT !.phase = "retained"]
           s == [sch EXCEPT !.resident[k] = t.out, !.pending[k].phase = "retained"]
           kept == [s EXCEPT !.prefetched = @ \cup {k}]
           With(q) == [state |-> sch.state, pending |-> [sch.pending EXCEPT ![k] = p],
                       resident |-> [sch.resident EXCEPT ![k] = t.out], prefetched |-> q]
<1>1. Pending(sch, k) /\ UNCHANGED <<handles, warm, faults>> /\ Quiet
  BY DEF RetainTransfer, Phase, Pending
<1>2. sch' = s \/ sch' = Trim(kept, k)
  BY Zenon DEF RetainTransfer
<1>3. t \in Task /\ p \in Task /\ t.out \in Transfer /\ p.phase # "none"
  <2>1. t \in Task
    BY <1>1, PendingFacts
  <2> QED BY <2>1 DEF Task
<1>4. s = With(sch.prefetched) /\ kept = With(sch.prefetched \cup {k})
  <2>1. sch = [state |-> sch.state, pending |-> sch.pending, resident |-> sch.resident,
               prefetched |-> sch.prefetched]
        /\ sch.pending \in [Key -> {NoTask} \cup Task]
    BY <1>1, PendingFacts
  <2> DEFINE out == t.out
             now == [sch EXCEPT !.resident[k] = out]
  <2>2. s = [now EXCEPT !.pending[k].phase = "retained"]
    OBVIOUS
  <2> HIDE DEF out
  <2>3. now = [state |-> sch.state, pending |-> sch.pending,
               resident |-> [sch.resident EXCEPT ![k] = out], prefetched |-> sch.prefetched]
    BY <2>1
  <2> HIDE DEF now, s
  <2>4. s = [state |-> sch.state, pending |-> [sch.pending EXCEPT ![k] = p],
             resident |-> [sch.resident EXCEPT ![k] = out], prefetched |-> sch.prefetched]
    BY <2>2, <2>3
  <2>5. s = With(sch.prefetched)
    BY <2>4 DEF out
  <2> QED BY <2>5
<1> HIDE DEF s, kept, p, t
<1>5. ASSUME NEW q \in SUBSET Key
      PROVE  /\ Continues(sch, With(q))
             /\ \A j \in Key : j # k => /\ With(q).pending[j] = sch.pending[j]
                                        /\ With(q).resident[j] = sch.resident[j]
  <2>1. sch.state = [sch.state EXCEPT ![k] = sch.state[k]] /\ sch.state[k].state # "InUse"
    BY <1>1, PendingFacts DEF InUse
  <2>2. Continues(sch, [state |-> [sch.state EXCEPT ![k] = sch.state[k]],
                        pending |-> [sch.pending EXCEPT ![k] = p],
                        resident |-> [sch.resident EXCEPT ![k] = t.out], prefetched |-> q])
    BY <1>1, <1>3, <2>1, PendingFacts, OneKey
  <2>3. \A j \in Key : j # k => /\ With(q).pending[j] = sch.pending[j]
                                /\ With(q).resident[j] = sch.resident[j]
    BY <1>1, PendingFacts
  <2> QED BY <2>1, <2>2, <2>3
<1>6. sch.prefetched \in SUBSET Key /\ sch.prefetched \cup {k} \in SUBSET Key
  BY <1>1, PendingFacts
<1> HIDE DEF With
<1>7. faults' \in 0 .. MaxFaults
  BY <1>1 DEF Inv, StoreOK
<1>8. CASE sch' = s
  <2>1. /\ Continues(sch, sch')
        /\ \A j \in Key : j # k => sch'.pending[j] = sch.pending[j] /\ sch'.resident[j] = sch.resident[j]
    BY <1>4, <1>5, <1>6, <1>8
  <2> QED BY <1>1, <1>7, <2>1, TaskMoves
<1>9. CASE sch' = Trim(kept, k)
  <2>1. /\ Continues(sch, kept)
        /\ \A j \in Key : j # k => kept.pending[j] = sch.pending[j] /\ kept.resident[j] = sch.resident[j]
    BY <1>4, <1>5, <1>6
  <2>2. Continues(kept, sch') /\ Drops(kept, sch')
    <3>1. SchOK(kept)
      BY <2>1 DEF Continues
    <3> QED BY <1>9, <3>1, TrimContinues
  <2>3. Continues(sch, sch')
    BY <2>1, <2>2, ContinuesFacts
  <2>4. SchOK(sch') /\ \A j \in Key : Pending(sch, j) => Pending(sch', j)
    BY <2>3 DEF Continues
  <2>5. HandlesOK'
    BY <1>1, <2>4, TasksStay
  <2>6. \A j \in Key : ~Pending(sch, j) =>
          /\ ~Pending(sch', j) /\ (sch.resident[j] = Nothing => sch'.resident[j] = Nothing)
    BY <1>1, <2>1, <2>2 DEF Drops, Pending
  <2> QED BY <1>1, <1>7, <2>3, <2>4, <2>5, <2>6, WorkerKeeps DEF Continues
<1> QED BY <1>2, <1>8, <1>9

\* The promise is set and the task forgotten.
LEMMA CompleteTaskOK ==
  ASSUME Inv, NEW k \in Key, CompleteTask(k)
  PROVE  Inv'
<1> DEFINE t == sch.pending[k]
           done == Resolved(t.phase = "retained", t.out)
<1>0. RunOK /\ HandlesOK
  BY DEF Inv
<1>1. /\ Pending(sch, k) /\ faults' = faults /\ Quiet
      /\ handles' = [g \in DOMAIN handles |-> Settle(handles[g], k, KeyOf(g), t)]
      /\ warm' = (IF warm.status = "waiting" THEN Settle(warm, k, Submitted, t) ELSE warm)
      /\ sch' = [sch EXCEPT !.pending[k] = NoTask]
  BY DEF CompleteTask, Phase, Pending
<1>2. t \in Task
  BY <1>1, PendingFacts
<1>3. done \in Handle /\ done.status = "ready" /\ done # NoHandle
  <2>1. done \in Ready
    BY <1>2 DEF Resolved, Ready, Task
  <2> QED BY <2>1 DEF Handle, Ready, NoHandle
<1> HIDE DEF done
<1>4. /\ sch'.state = sch.state /\ sch'.resident = sch.resident
      /\ \A j \in Key : sch'.pending[j] = IF j = k THEN NoTask ELSE sch.pending[j]
      /\ sch' \in SchType
  <2>1. sch' = [state |-> sch.state, pending |-> [sch.pending EXCEPT ![k] = NoTask],
                resident |-> sch.resident, prefetched |-> sch.prefetched]
    BY <1>1, PendingFacts
  <2>2. /\ sch.state \in [Key -> ExpertRecord] /\ sch.resident \in [Key -> Transfer]
        /\ sch.pending \in [Key -> {NoTask} \cup Task] /\ sch.prefetched \in SUBSET Key
    BY <1>1, PendingFacts
  <2>3. [sch.pending EXCEPT ![k] = NoTask] \in [Key -> {NoTask} \cup Task]
    BY <2>2
  <2>4. sch' \in SchType
    BY <2>1, <2>2, <2>3 DEF SchType
  <2> QED BY <2>1, <2>2, <2>4
<1>5. NoTask.phase = "none"
  BY DEF NoTask
<1>6. \A j \in Key : Pending(sch', j) <=> j # k /\ Pending(sch, j)
  BY <1>4, <1>5 DEF Pending
<1>7. SchOK(sch')
  BY <1>1, <1>4, <1>6, PendingFacts DEF SchOK, InUse
<1>8. \A h, key : Settle(h, k, key, t) = IF h.status = "waiting" /\ key = k THEN done ELSE h
  BY DEF Settle, done
<1>9. HandlesOK'
  <2>1. UNCHANGED <<pc, run>> /\ Groups' = Groups /\ Submitted' = Submitted
        /\ \A g : KeyOf(g)' = KeyOf(g)
    BY <1>1 DEF Quiet, Groups, KeyOf, Submitted
  <2>2. \A g \in DOMAIN handles : KeyOf(g) \in Key
    BY <1>0, KeyOfFacts DEF HandlesOK
  <2>3. warm.status = "waiting" => Submitted \in Key
    <3>1. warm.status = "waiting" => pc \in Running
      BY <1>0, NotWaiting DEF HandlesOK, Running, Submitting
    <3> QED BY <3>1, SubmittedFacts
  <2>4. DOMAIN handles' = DOMAIN handles
    BY <1>1
  <2>5. \A g \in DOMAIN handles :
          handles'[g] = IF handles[g].status = "waiting" /\ KeyOf(g) = k THEN done ELSE handles[g]
    BY <1>1, <1>8
  <2>6. warm' = IF warm.status = "waiting" /\ Submitted = k THEN done ELSE warm
    BY <1>1, <1>8
  <2>7. \A g \in DOMAIN handles :
          /\ handles'[g] \in Handle
          /\ handles[g].status = "ready" => handles'[g].status = "ready"
          /\ handles'[g].status = "waiting" => Pending(sch', KeyOf(g))
    <3> SUFFICES ASSUME NEW g \in DOMAIN handles
                 PROVE  /\ handles'[g] \in Handle
                        /\ handles[g].status = "ready" => handles'[g].status = "ready"
                        /\ handles'[g].status = "waiting" => Pending(sch', KeyOf(g))
      OBVIOUS
    <3>1. handles[g] \in Handle /\ (handles[g].status = "waiting" => Pending(sch, KeyOf(g)))
      BY <1>0 DEF HandlesOK, AwaitsLiveTask, Pending
    <3> QED BY <1>3, <1>6, <2>2, <2>5, <3>1
  <2>8. /\ warm' \in Handle /\ (warm' # NoHandle => pc' = "warm")
        /\ warm'.status = "waiting" => Pending(sch', Submitted)
    <3>1. /\ warm \in Handle /\ (warm # NoHandle => pc = "warm")
          /\ warm.status = "waiting" => Pending(sch, Submitted)
      BY <1>0 DEF HandlesOK, AwaitsLiveTask, Pending
    <3> QED BY <1>3, <1>6, <2>1, <2>3, <2>6, <3>1, NotWaiting
  <2>9. pc = "adopt" => run.index \in DOMAIN handles /\ handles[run.index].status = "ready"
    BY <1>0 DEF RunOK, Running, HandlesOK
  <2>10. pc = "idle" => handles' = <<>>
    <3>1. pc = "idle" => handles = <<>>
      BY <1>0 DEF HandlesOK
    <3> QED BY <1>1, <3>1
  <2>11. AwaitsLiveTask'
    BY <2>1, <2>4, <2>7, <2>8 DEF AwaitsLiveTask, Pending
  <2> QED BY <1>0, <2>1, <2>4, <2>7, <2>8, <2>9, <2>10, <2>11 DEF HandlesOK
<1>10. faults' \in 0 .. MaxFaults
  BY <1>1 DEF Inv, StoreOK
<1>11. \A j \in Key : InUse(sch', j) <=> InUse(sch, j)
  BY <1>4 DEF InUse
<1> QED BY <1>1, <1>4, <1>6, <1>7, <1>9, <1>10, <1>11, WorkerKeeps

-----------------------------------------------------------------------------
(* How a layer can fail.  Outer says what keeps the runtime's bookkeeping    *)
(* and the scheduler's from contradicting each other.                        *)

\* A transfer has a buffer at a tier.
HasBuffer(t, tier) == IF tier = "Vram" THEN t.device # 0 ELSE t.host # 0

\* An expert's record x, its task t and its retained transfer r: the phase of
\* the task fixes the lifecycle state, and what is retained for a ready expert
\* is at the tier the lifecycle names.
Coupled(x, t, r) ==
  /\ x.current \in {"Nvme", "Ram", "Vram"}
  /\ x.state \in {"Ready", "InUse"} => x.current = x.target
  /\ t.phase = "none" => x.state \in {"Ready", "Failed", "InUse"}
  /\ t.phase = "queued" => x.state = "Queued"
  /\ t.phase = "loading" => x.state = "Loading"
  /\ t.phase \in {"loaded", "retained"} => x.state = "Ready" /\ HasBuffer(t.out, t.destination)
  /\ t.phase = "failed" => x.state = "Failed"
  /\ t.phase \in {"queued", "loading", "loaded"} => x.target = t.destination
  /\ t.phase # "none" /\ t.prefetch => t.destination = "Ram"
  /\ t.phase \in {"none", "retained"} /\ x.state = "Ready" /\ r # Nothing =>
       x.current # "Nvme" /\ HasBuffer(r, x.current)
  /\ t.phase = "retained" /\ r = Nothing => x.current # "Vram"
  /\ t.phase = "retained" => x.current \in {t.destination, "Nvme"}

\* An expert in prefetchedReady_ is ready and has no unfinished load.
Speculative(x, t) == x.state \in {"Ready", "InUse"} /\ t.phase \in {"none", "retained"}

SchCoupled(s) ==
  \A k \in Key : /\ Coupled(s.state[k], s.pending[k], s.resident[k])
                 /\ k \in s.prefetched => Speculative(s.state[k], s.pending[k])

\* For the lifecycle an expert in prefetchedReady_ is in RAM, but for the one
\* just reconciled, which the request that follows takes out.
SpeculativeOK ==
  \A k \in sch.prefetched : sch.state[k].current = "Ram" \/ (pc = "request" /\ k = Submitted)

\* Which group is submitted, and which have no handle yet.
OrderOK ==
  /\ pc \in Submitting =>
       /\ run.submitting = (IF run.resume = "execute" THEN run.index + 1 ELSE run.index)
       /\ \A g \in DOMAIN handles : g >= run.submitting => handles[g] = NoHandle
  /\ pc \in {"observe", "dispatch"} => \A g \in DOMAIN handles : handles[g] = NoHandle
  /\ pc \in {"await", "adopt", "acquire", "overlap"} =>
       \A g \in DOMAIN handles : g > run.index => handles[g] = NoHandle
  /\ pc = "execute" => \A g \in DOMAIN handles : g > run.index + 1 => handles[g] = NoHandle

\* A handle waits for the tier the layer executes on; once it is answered the
\* task is gone, and the answer has a buffer or the manager knows the expert.
Answers(h, k) ==
  /\ h.status = "waiting" => sch.pending[k].destination = Destination
  /\ h.status = "ready" => ~Pending(sch, k)
  /\ h.status = "ready" /\ h.ok => HasBuffer(h.transfer, Destination) \/ k \in offsets

AnswersOK ==
  /\ \A g \in DOMAIN handles : Answers(handles[g], KeyOf(g))
  /\ pc = "adopt" => handles[run.index].ok
  /\ warm.status = "ready" => ~Pending(sch, Submitted)

\* An expert on its way to a request: if no offset is known for it, no
\* speculative load of it can still be dropped, and once it is reconciled the
\* lifecycle calls it ready only where a buffer is retained.
Bare(x, t, r, requested) ==
  /\ requested => x.state # "InUse"
  /\ t.phase \in {"queued", "loading", "loaded"} => ~t.prefetch \/ t.active
  /\ t.phase = "retained" /\ x.state = "Ready" /\ r = Nothing => x.current = "Nvme"
  /\ requested /\ t.phase = "none" /\ x.state = "Ready" /\ r = Nothing => x.current = "Nvme"

\* An expert without a known offset is on disk.
BareOK ==
  /\ \A k \in Key : mgr[k].location # "Nvme" => k \in offsets
  /\ pc \in {"stage", "reconcile", "request"} /\ Submitted \notin offsets =>
       Bare(sch.state[Submitted], sch.pending[Submitted], sch.resident[Submitted], pc = "request")

\* The lease is the current expert's, and a second expert is submitted beside
\* it only where both fit.
UseOK ==
  /\ leased # NoLease => leased.key = Current
  /\ pc \in Submitting /\ run.resume = "execute" => Limit(Destination) >= 2
  /\ pc = "acquire" => sch.state[Current].state = "Ready"
  /\ pc \in {"observe", "dispatch"} => Dispatchable(run.decision)

\* A layer that runs has no failure yet, and where the scheduler refused its
\* own bookkeeping an expert was abandoned in use.
Refusals == {"transition", "reconcile", "expire"}
RefusalsOK ==
  /\ pc # "idle" => failure = "none"
  /\ failure \notin {"dispatch", "noRoom", "offset", "acquire"}
  /\ failure \in Refusals => Abandoned # {}

Outer ==
  /\ SchCoupled(sch) /\ SpeculativeOK /\ OrderOK /\ AnswersOK /\ BareOK /\ UseOK
  /\ RefusalsOK

\* The lifecycle operations on a coupled expert.
LEMMA CoupledRequest ==
  ASSUME NEW x \in ExpertRecord, NEW t, NEW r, Coupled(x, t, r), t.phase = "none",
         CanRequest(x), NEW p \in Task, p.phase = "queued", p.prefetch => p.destination = "Ram"
  PROVE  Coupled(MarkQueuedOf(RequestOf(x, p.destination)), p, r)
<1> DEFINE y == MarkQueuedOf(RequestOf(x, p.destination))
<1>1. y.current = x.current /\ y.target = p.destination /\ y.state = "Queued"
  BY DEF ExpertRecord, MarkQueuedOf, RequestOf
<1> HIDE DEF y
<1>2. x.current \in {"Nvme", "Ram", "Vram"}
  BY DEF Coupled
<1>3. Coupled(y, p, r)
  BY <1>1, <1>2 DEF Coupled
<1> QED BY <1>3 DEF y

\* A worker takes the task.
LEMMA CoupledStart ==
  ASSUME NEW x \in ExpertRecord, NEW t \in Task, NEW r, Coupled(x, t, r), t.phase = "queued"
  PROVE  Coupled(MarkLoadingOf(x), [t EXCEPT !.phase = "loading"], r)
<1> DEFINE y == MarkLoadingOf(x)
           p == [t EXCEPT !.phase = "loading"]
<1>1. y.current = x.current /\ y.target = x.target /\ y.state = "Loading"
  BY DEF ExpertRecord, MarkLoadingOf
<1>2. p.phase = "loading" /\ p.prefetch = t.prefetch /\ p.destination = t.destination
  BY DEF Task
<1> HIDE DEF y, p
<1>3. Coupled(y, p, r)
  BY <1>1, <1>2 DEF Coupled
<1> QED BY <1>3 DEF y, p

\* The transfer arrives.
LEMMA CoupledFinish ==
  ASSUME NEW x \in ExpertRecord, NEW t \in Task, NEW r, Coupled(x, t, r), t.phase = "loading",
         NEW out, HasBuffer(out, t.destination)
  PROVE  Coupled(MarkReadyOf(x, t.destination), [t EXCEPT !.phase = "loaded", !.out = out], r)
<1> DEFINE y == MarkReadyOf(x, t.destination)
           p == [t EXCEPT !.phase = "loaded", !.out = out]
<1>1. y.current = t.destination /\ y.target = t.destination /\ y.state = "Ready"
  BY DEF ExpertRecord, MarkReadyOf
<1>2. p.phase = "loaded" /\ p.prefetch = t.prefetch /\ p.destination = t.destination /\ p.out = out
  BY DEF Task
<1>3. t.destination \in {"Ram", "Vram"}
  BY DEF Task
<1> HIDE DEF y, p
<1>4. Coupled(y, p, r)
  BY <1>1, <1>2, <1>3 DEF Coupled
<1> QED BY <1>4 DEF y, p

\* The transfer fails.
LEMMA CoupledFail ==
  ASSUME NEW x \in ExpertRecord, NEW t \in Task, NEW r, Coupled(x, t, r)
  PROVE  Coupled(MarkFailedOf(x), [t EXCEPT !.phase = "failed"], r)
<1> DEFINE y == MarkFailedOf(x)
           p == [t EXCEPT !.phase = "failed"]
<1>1. y.current = x.current /\ y.state = "Failed"
  BY DEF ExpertRecord, MarkFailedOf
<1>2. p.phase = "failed" /\ p.prefetch = t.prefetch /\ p.destination = t.destination
  BY DEF Task
<1>3. t.prefetch => t.destination = "Ram"
  BY DEF Coupled, Task
<1> HIDE DEF y, p
<1>4. Coupled(y, p, r)
  BY <1>1, <1>2, <1>3 DEF Coupled
<1> QED BY <1>4 DEF y, p

\* The transfer is retained.
LEMMA CoupledRetain ==
  ASSUME NEW x \in ExpertRecord, NEW t \in Task, NEW r, Coupled(x, t, r), t.phase = "loaded"
  PROVE  /\ Coupled(x, [t EXCEPT !.phase = "retained"], t.out)
         /\ x.current = t.destination /\ x.state = "Ready" /\ t.out # Nothing
<1> DEFINE p == [t EXCEPT !.phase = "retained"]
<1>1. p.phase = "retained" /\ p.prefetch = t.prefetch /\ p.destination = t.destination /\ p.out = t.out
  BY DEF Task
<1>2. t.destination \in {"Ram", "Vram"}
  BY DEF Task
<1>3. x.current = t.destination /\ x.state = "Ready" /\ HasBuffer(t.out, t.destination)
      /\ x.current = x.target /\ (t.prefetch => t.destination = "Ram")
  BY DEF Coupled
<1>4. t.out # Nothing
  BY <1>3 DEF HasBuffer, Nothing
<1> HIDE DEF p
<1>5. Coupled(x, p, t.out)
  BY <1>1, <1>2, <1>3, <1>4 DEF Coupled
<1> QED BY <1>3, <1>4, <1>5 DEF p

\* The task is forgotten.
LEMMA CoupledDone ==
  ASSUME NEW x, NEW t, NEW r, Coupled(x, t, r), t.phase \in {"retained", "failed"}
  PROVE  Coupled(x, NoTask, r)
<1>1. NoTask.phase = "none"
  BY DEF NoTask
<1> HIDE DEF NoTask
<1> QED BY <1>1 DEF Coupled

\* An expert of which nothing is retained any more is reconciled.
LEMMA CoupledReconcile ==
  ASSUME NEW x \in ExpertRecord, NEW t, NEW r, Coupled(x, t, r),
         NEW location \in {"Nvme", "Ram", "Vram"},
         t.phase = "none" \/ (t.phase = "retained" /\ location = "Nvme")
  PROVE  Coupled(ReconcileOf(x, location), t, Nothing)
<1> DEFINE y == ReconcileOf(x, location)
<1>1. y.current = location /\ y.target = location /\ y.state = "Ready"
  BY DEF ExpertRecord, ReconcileOf
<1> HIDE DEF y
<1>2. Coupled(y, t, Nothing)
  BY <1>1 DEF Coupled
<1> QED BY <1>2 DEF y

\* An expert comes into use and out of it.
LEMMA CoupledUse ==
  ASSUME NEW x \in ExpertRecord, NEW t, Coupled(x, t, Nothing), t.phase = "none"
  PROVE  /\ x.state = "Ready" => Coupled(AcquireOf(x), t, Nothing)
         /\ x.state = "InUse" => Coupled(ReleaseOf(x), t, Nothing)
<1>1. /\ AcquireOf(x).current = x.current /\ AcquireOf(x).target = x.target
      /\ AcquireOf(x).state = "InUse"
      /\ ReleaseOf(x).current = x.current /\ ReleaseOf(x).target = x.target
      /\ ReleaseOf(x).state = "Ready"
  BY DEF ExpertRecord, AcquireOf, ReleaseOf
<1> QED BY <1>1 DEF Coupled

\* The task a request starts, and the task it joins.
FreshTask(request) ==
  [phase |-> "queued", destination |-> request.destination, from |-> request.from,
   source |-> request.source, prefetch |-> request.prefetch, active |-> ~request.prefetch,
   out |-> Nothing]
Joined(task, request) == [task EXCEPT !.active = @ \/ ~request.prefetch]

\* What schedule() does to the expert it is asked for, by what it decides.
Schedules(s, t, k, request, kind) ==
  /\ t.resident = s.resident
  /\ \A j \in Key : j # k => t.state[j] = s.state[j] /\ t.pending[j] = s.pending[j]
  /\ t.prefetched = IF request.prefetch
                      THEN IF kind = "ready" THEN s.prefetched \cup {k} ELSE s.prefetched
                      ELSE s.prefetched \ {k}
  /\ kind # "new" => t.state[k] = s.state[k]
  /\ kind \notin {"new", "join"} => t.pending[k] = s.pending[k]
  /\ kind = "join" => t.pending[k] = Joined(s.pending[k], request)
  /\ kind = "new" =>
       /\ t.state[k] = MarkQueuedOf(RequestOf(s.state[k], request.destination))
       /\ t.pending[k] = FreshTask(request)

\* schedule() does that.
LEMMA ScheduleShape ==
  ASSUME NEW s, s \in SchType, NEW k \in Key, NEW request \in RequestType
  PROVE  Schedules(s, ScheduleOf(s, k, request), k, request, ScheduleKind(s, k, request))
<1> DEFINE kind == ScheduleKind(s, k, request)
           q == IF request.prefetch
                  THEN IF kind = "ready" THEN s.prefetched \cup {k} ELSE s.prefetched
                  ELSE s.prefetched \ {k}
           c == [s EXCEPT !.prefetched = q]
           t == ScheduleOf(s, k, request)
           fresh == FreshTask(request)
           x == MarkQueuedOf(RequestOf(s.state[k], request.destination))
           p == Joined(s.pending[k], request)
<1>0. /\ s.state \in [Key -> ExpertRecord] /\ s.pending \in [Key -> {NoTask} \cup Task]
      /\ s = [state |-> s.state, pending |-> s.pending, resident |-> s.resident,
              prefetched |-> s.prefetched]
  BY DEF SchType
<1>1. c = [state |-> s.state, pending |-> s.pending, resident |-> s.resident, prefetched |-> q]
  <2> HIDE DEF q
  <2> QED BY <1>0
<1>2. t = CASE kind = "join" -> [c EXCEPT !.pending[k].active = @ \/ ~request.prefetch]
            [] kind = "new" ->
                 [c EXCEPT !.state[k] = MarkQueuedOf(RequestOf(@, request.destination)),
                           !.pending[k] = fresh]
            [] OTHER -> c
  <2>1. c = [s EXCEPT !.prefetched = IF request.prefetch
                                       THEN IF kind = "ready" THEN @ \cup {k} ELSE @
                                       ELSE @ \ {k}]
    BY DEF SchType
  <2> QED BY <2>1, Zenon DEF ScheduleOf, FreshTask
<1> HIDE DEF q
<1>3. CASE kind = "join"
  <2>1. t = [state |-> s.state, pending |-> [s.pending EXCEPT ![k] = p],
             resident |-> s.resident, prefetched |-> q]
    <3>1. t = [c EXCEPT !.pending[k].active = @ \/ ~request.prefetch]
      BY <1>2, <1>3
    <3> HIDE DEF t, c, kind
    <3> QED BY <1>1, <3>1 DEF Joined
  <2> HIDE DEF t, p, kind
  <2>2. /\ t.resident = s.resident /\ t.prefetched = q /\ t.state = s.state
        /\ \A j \in Key : t.pending[j] = IF j = k THEN p ELSE s.pending[j]
    BY <1>0, <2>1
  <2> QED BY <1>3, <2>2 DEF Schedules, t, p, kind, q
<1>4. CASE kind = "new"
  <2>1. t = [state |-> [s.state EXCEPT ![k] = x], pending |-> [s.pending EXCEPT ![k] = fresh],
             resident |-> s.resident, prefetched |-> q]
    <3>1. t = [c EXCEPT !.state[k] = MarkQueuedOf(RequestOf(@, request.destination)),
                        !.pending[k] = fresh]
      BY <1>2, <1>4
    <3> HIDE DEF t, c, kind, fresh
    <3> QED BY <1>1, <3>1
  <2> HIDE DEF t, x, fresh, kind
  <2>2. /\ t.resident = s.resident /\ t.prefetched = q
        /\ \A j \in Key : /\ t.pending[j] = IF j = k THEN fresh ELSE s.pending[j]
                          /\ t.state[j] = IF j = k THEN x ELSE s.state[j]
    BY <1>0, <2>1
  <2> QED BY <1>4, <2>2 DEF Schedules, t, x, fresh, kind, q
<1>5. CASE kind \notin {"join", "new"}
  <2>1. t = c
    BY <1>2, <1>5
  <2> HIDE DEF t, kind
  <2>2. t.resident = s.resident /\ t.prefetched = q /\ t.state = s.state /\ t.pending = s.pending
    BY <1>1, <2>1
  <2> QED BY <1>5, <2>2 DEF Schedules, t, kind, q
<1> QED BY <1>3, <1>4, <1>5

\* schedule() keeps the coupling.
LEMMA ScheduleCoupled ==
  ASSUME NEW s, SchOK(s), SchCoupled(s), NEW k \in Key, NEW request \in RequestType,
         request.prefetch => request.destination = "Ram",
         request.prefetch /\ k \in s.prefetched => s.state[k].current = "Ram"
  PROVE  LET kind == ScheduleKind(s, k, request)
             t == ScheduleOf(s, k, request)
             h == HandleOf(s, k, request)
         IN  /\ SchCoupled(t)
             /\ request.prefetch /\ k \in t.prefetched => t.state[k].current = "Ram"
             /\ kind = "transition" => InUse(s, k)
             /\ Accepts(kind) /\ h.status = "waiting" =>
                  t.pending[k].destination = request.destination
             /\ Accepts(kind) /\ h.status = "ready" =>
                  /\ ~Pending(t, k) /\ ~Pending(s, k) /\ h.transfer = s.resident[k]
                  /\ s.state[k].current = request.destination
                  /\ s.state[k].state \in {"Ready", "InUse"}
<1> DEFINE kind == ScheduleKind(s, k, request)
           t == ScheduleOf(s, k, request)
           h == HandleOf(s, k, request)
           x == s.state[k]
           p == s.pending[k]
<1>0. /\ s \in SchType /\ x \in ExpertRecord /\ s.prefetched \subseteq Key
      /\ p = NoTask \/ p \in Task
  BY SchParts DEF SchOK
<1>1. Coupled(x, p, s.resident[k]) /\ (k \in s.prefetched => Speculative(x, p))
  BY DEF SchCoupled
<1>2. /\ t.resident = s.resident
      /\ \A j \in Key : j # k => t.state[j] = s.state[j] /\ t.pending[j] = s.pending[j]
      /\ t.prefetched = IF request.prefetch
                          THEN IF kind = "ready" THEN s.prefetched \cup {k} ELSE s.prefetched
                          ELSE s.prefetched \ {k}
      /\ kind # "new" => t.state[k] = x
      /\ kind \notin {"new", "join"} => t.pending[k] = p
      /\ kind = "join" => t.pending[k] = Joined(p, request)
      /\ kind = "new" =>
           /\ t.state[k] = MarkQueuedOf(RequestOf(x, request.destination))
           /\ t.pending[k] = FreshTask(request)
  <2>1. Schedules(s, t, k, request, kind)
    BY <1>0, ScheduleShape
  <2> HIDE DEF t, kind
  <2> QED BY <2>1 DEF Schedules
<1>3. /\ kind \in {"pendingTarget", "join", "ready", "new", "transition"}
      /\ kind \in {"join", "pendingTarget"} <=> p.phase # "none"
      /\ kind = "join" => p.destination = request.destination
      /\ kind = "ready" => x.current = request.destination /\ x.state \in {"Ready", "InUse"}
      /\ kind = "new" => CanRequest(x)
                         /\ ~(x.current = request.destination /\ x.state \in {"Ready", "InUse"})
      /\ kind = "transition" => ~CanRequest(x)
  BY DEF ScheduleKind
<1>4. h = IF kind = "ready" THEN Resolved(TRUE, s.resident[k]) ELSE Waiting
  BY DEF HandleOf
<1> HIDE DEF kind, t, h
<1>5. \A j \in Key : j # k => (j \in t.prefetched <=> j \in s.prefetched)
  BY <1>2
<1>6. /\ Coupled(t.state[k], t.pending[k], t.resident[k])
      /\ k \in t.prefetched => Speculative(t.state[k], t.pending[k])
      /\ request.prefetch /\ k \in t.prefetched => t.state[k].current = "Ram"
  <2> HIDE DEF x, p
  <2>1. CASE kind = "join"
    <3>1. p \in Task /\ p.phase # "none"
      BY <1>0, <1>3, <2>1 DEF NoTask
    <3> DEFINE n == t.pending[k]
    <3>2. /\ n.phase = p.phase /\ n.destination = p.destination /\ n.prefetch = p.prefetch
          /\ n.out = p.out
      BY <1>2, <2>1, <3>1 DEF Task, Joined
    <3> HIDE DEF n
    <3>3. Coupled(x, n, s.resident[k])
      BY <1>1, <3>2 DEF Coupled
    <3>4. Speculative(x, p) => Speculative(x, n)
      BY <3>2 DEF Speculative
    <3>5. t.state[k] = x /\ t.resident = s.resident /\ (k \in t.prefetched => k \in s.prefetched)
      BY <1>2, <2>1
    <3> QED BY <1>1, <3>3, <3>4, <3>5 DEF n, x
  <2>2. CASE kind = "new"
    <3> DEFINE n == t.pending[k]
               fresh == FreshTask(request)
    <3>1. n \in Task /\ n.phase = "queued" /\ n.destination = request.destination
          /\ n.prefetch = request.prefetch
      <4>1. n = fresh
        BY <1>2, <2>2, Zenon
      <4>2. fresh \in Task
        BY DEF Task, RequestType, Nothing, Transfer, FreshTask
      <4> HIDE DEF n
      <4> QED BY <4>1, <4>2 DEF FreshTask
    <3>2. p.phase = "none" /\ CanRequest(x)
      BY <1>3, <2>2
    <3>3. t.state[k] = MarkQueuedOf(RequestOf(x, n.destination)) /\ t.resident = s.resident
      BY <1>2, <2>2, <3>1
    <3> HIDE DEF n
    <3>4. Coupled(t.state[k], n, t.resident[k])
      BY <1>0, <1>1, <3>1, <3>2, <3>3, CoupledRequest
    <3>5. k \notin t.prefetched
      <4> SUFFICES ASSUME k \in t.prefetched PROVE FALSE
        OBVIOUS
      <4>1. request.prefetch /\ k \in s.prefetched
        BY <1>2, <2>2
      <4>2. x.current = "Ram" /\ x.state \in {"Ready", "InUse"} /\ request.destination = "Ram"
        BY <1>1, <4>1 DEF x, Speculative
      <4> QED BY <1>3, <2>2, <4>2
    <3> QED BY <3>4, <3>5 DEF n
  <2>3. CASE kind \notin {"join", "new"}
    <3>1. t.state[k] = x /\ t.pending[k] = p /\ t.resident = s.resident
      BY <1>2, <2>3
    <3>2. k \in t.prefetched => k \in s.prefetched \/ (kind = "ready" /\ request.prefetch)
      BY <1>2
    <3>3. kind = "ready" => Speculative(x, p) /\ x.current = request.destination
      BY <1>3 DEF Speculative
    <3> QED BY <1>1, <3>1, <3>2, <3>3 DEF x
  <2> QED BY <2>1, <2>2, <2>3
<1>7. SchCoupled(t)
  <2> SUFFICES ASSUME NEW j \in Key
               PROVE  /\ Coupled(t.state[j], t.pending[j], t.resident[j])
                      /\ j \in t.prefetched => Speculative(t.state[j], t.pending[j])
    BY DEF SchCoupled
  <2>1. CASE j = k
    BY <1>6, <2>1
  <2>2. CASE j # k
    BY <1>2, <1>5, <2>2 DEF SchCoupled
  <2> QED BY <2>1, <2>2
<1>8. kind = "transition" => InUse(s, k)
  BY <1>1, <1>3 DEF Coupled, CanRequest, InUse
<1>9. Accepts(kind) /\ h.status = "waiting" => t.pending[k].destination = request.destination
  <2> SUFFICES ASSUME Accepts(kind), h.status = "waiting"
               PROVE  t.pending[k].destination = request.destination
    OBVIOUS
  <2>1. kind \in {"join", "new"}
    BY <1>4 DEF Accepts, Resolved
  <2>2. CASE kind = "join"
    <3>1. p \in Task
      BY <1>0, <1>3, <2>2 DEF NoTask
    <3> QED BY <1>2, <1>3, <2>2, <3>1 DEF Task, Joined
  <2>3. CASE kind = "new"
    BY <1>2, <2>3 DEF FreshTask
  <2> QED BY <2>1, <2>2, <2>3
<1>10. Accepts(kind) /\ h.status = "ready" =>
         /\ ~Pending(t, k) /\ ~Pending(s, k) /\ h.transfer = s.resident[k]
         /\ x.current = request.destination /\ x.state \in {"Ready", "InUse"}
  <2> SUFFICES ASSUME Accepts(kind), h.status = "ready"
               PROVE  /\ ~Pending(t, k) /\ ~Pending(s, k) /\ h.transfer = s.resident[k]
                      /\ x.current = request.destination /\ x.state \in {"Ready", "InUse"}
    OBVIOUS
  <2>1. kind = "ready"
    BY <1>4 DEF Waiting
  <2>2. h.transfer = s.resident[k]
    BY <1>4, <2>1 DEF Resolved
  <2> QED BY <1>2, <1>3, <2>1, <2>2 DEF Pending
<1> QED BY <1>6, <1>7, <1>8, <1>9, <1>10 DEF kind, t, h

\* acknowledge() keeps the coupling.
LEMMA AcknowledgeCoupled ==
  ASSUME NEW s, SchOK(s), SchCoupled(s), NEW k \in Key, CanAcknowledge(s, k),
         NEW location \in {"Nvme", "Ram", "Vram"}
  PROVE  LET t == Acknowledge(s, k, location)
         IN  /\ SchCoupled(t) /\ t.pending = s.pending /\ t.prefetched = s.prefetched \ {k}
             /\ \A j \in Key : j # k => t.state[j] = s.state[j] /\ t.resident[j] = s.resident[j]
             /\ t.state[k].state = "Ready" /\ t.resident[k] = Nothing
<1> DEFINE t == Acknowledge(s, k, location)
           x == ReconcileOf(s.state[k], location)
<1>0. s \in SchType /\ s.state[k] \in ExpertRecord
  BY SchParts DEF SchOK
<1>1. /\ t.pending = s.pending /\ t.prefetched = s.prefetched \ {k}
      /\ \A j \in Key : /\ t.state[j] = IF j = k THEN x ELSE s.state[j]
                        /\ t.resident[j] = IF j = k THEN Nothing ELSE s.resident[j]
  <2>1. /\ s = [state |-> s.state, pending |-> s.pending, resident |-> s.resident,
                prefetched |-> s.prefetched]
        /\ s.state \in [Key -> ExpertRecord] /\ s.resident \in [Key -> Transfer]
    BY <1>0 DEF SchType
  <2>2. t = [s EXCEPT !.resident[k] = Nothing, !.prefetched = s.prefetched \ {k}, !.state[k] = x]
    BY <2>1, Zenon DEF Acknowledge
  <2> HIDE DEF t, x
  <2>3. t = [state |-> [s.state EXCEPT ![k] = x], pending |-> s.pending,
             resident |-> [s.resident EXCEPT ![k] = Nothing], prefetched |-> s.prefetched \ {k}]
    BY <2>1, <2>2
  <2> QED BY <2>1, <2>3
<1>2. s.pending[k].phase = "none"
  BY DEF CanAcknowledge
<1>3. Coupled(x, s.pending[k], Nothing)
  BY <1>0, <1>2, CoupledReconcile DEF SchCoupled
<1>4. x.state = "Ready"
  BY <1>0 DEF ReconcileOf, ExpertRecord
<1> HIDE DEF t, x
<1>5. SchCoupled(t)
  <2> SUFFICES ASSUME NEW j \in Key
               PROVE  /\ Coupled(t.state[j], t.pending[j], t.resident[j])
                      /\ j \in t.prefetched => Speculative(t.state[j], t.pending[j])
    BY DEF SchCoupled
  <2>1. CASE j = k
    BY <1>1, <1>3, <2>1
  <2>2. CASE j # k
    BY <1>1, <2>2 DEF SchCoupled
  <2> QED BY <2>1, <2>2
<1> QED BY <1>1, <1>4, <1>5 DEF t

\* The state s without the speculative transfers in gone; the lifecycle hears
\* of those in reset.
Dropped(s, gone, reset) ==
  [s EXCEPT !.resident = [k \in Key |-> IF k \in gone THEN Nothing ELSE @[k]],
            !.prefetched = @ \ gone,
            !.state = [k \in Key |-> IF k \in reset THEN ReconcileOf(@[k], "Nvme") ELSE @[k]]]

\* What is left of it.
DroppedTo(s, gone, reset, t) ==
  /\ t.pending = s.pending /\ t.prefetched = s.prefetched \ gone
  /\ \A k \in Key : /\ t.state[k] = IF k \in reset THEN ReconcileOf(s.state[k], "Nvme")
                                    ELSE s.state[k]
                    /\ t.resident[k] = IF k \in gone THEN Nothing ELSE s.resident[k]

\* Dropping speculative transfers keeps it.
LEMMA DropCoupled ==
  ASSUME NEW s, SchOK(s), SchCoupled(s), NEW gone, gone \subseteq s.prefetched,
         NEW reset, reset \subseteq gone, \A k \in gone \ reset : s.state[k].current # "Vram",
         NEW t, t = Dropped(s, gone, reset)
  PROVE  SchCoupled(t) /\ DroppedTo(s, gone, reset, t)
<1>0. s \in SchType /\ \A k \in Key : s.state[k] \in ExpertRecord
  BY SchParts DEF SchOK
<1>1. /\ t.pending = s.pending /\ t.prefetched = s.prefetched \ gone
      /\ \A k \in Key : /\ t.state[k] = IF k \in reset THEN ReconcileOf(s.state[k], "Nvme")
                                        ELSE s.state[k]
                        /\ t.resident[k] = IF k \in gone THEN Nothing ELSE s.resident[k]
  BY <1>0 DEF SchType, Dropped
<1>2. SchCoupled(t)
  <2> SUFFICES ASSUME NEW k \in Key
               PROVE  /\ Coupled(t.state[k], t.pending[k], t.resident[k])
                      /\ k \in t.prefetched => Speculative(t.state[k], t.pending[k])
    BY DEF SchCoupled
  <2> DEFINE x == s.state[k]
             p == s.pending[k]
  <2>1. Coupled(x, p, s.resident[k]) /\ (k \in s.prefetched => Speculative(x, p))
    BY DEF SchCoupled
  <2>2. t.pending[k] = p /\ x \in ExpertRecord
    BY <1>0, <1>1
  <2> HIDE DEF x, p
  <2>3. CASE k \notin gone
    BY <1>1, <2>1, <2>2, <2>3 DEF x
  <2>4. CASE k \in reset
    <3>1. p.phase \in {"none", "retained"}
      BY <2>1, <2>4 DEF Speculative
    <3>2. Coupled(ReconcileOf(x, "Nvme"), p, Nothing)
      BY <2>1, <2>2, <3>1, CoupledReconcile
    <3> QED BY <1>1, <2>2, <2>4, <3>2 DEF x
  <2>5. CASE k \in gone \ reset
    <3>1. x.current # "Vram"
      BY <2>5 DEF x
    <3>2. Coupled(x, p, Nothing)
      BY <2>1, <3>1 DEF Coupled
    <3> QED BY <1>1, <2>2, <2>5, <3>2 DEF x
  <2> QED BY <2>3, <2>4, <2>5
<1> QED BY <1>1, <1>2 DEF DroppedTo

-----------------------------------------------------------------------------
(* Room can be made.                                                        *)

\* Where not even the leased expert stands in the way, something can go.
LEMMA CandidateExists ==
  ASSUME mode \in Modes, NEW tier \in {"Ram", "Vram"}, NEW k \in Key, mgr[k].location # tier,
         leased.key \in Key /\ mgr[leased.key].location = tier => Limit(tier) >= 2,
         ~(Used(mgr, tier) < Limit(tier))
  PROVE  Candidates(mgr, tier, {k}) # {}
<1> DEFINE at == {j \in Key : mgr[j].location = tier}
<1>1. Limit(tier) \in Nat /\ Limit(tier) >= 1
  BY LimitFacts DEF Limit
<1>2. IsFiniteSet(at) /\ Cardinality(at) \in Nat /\ Cardinality(at) >= Limit(tier)
  <2>1. at \subseteq Key /\ Used(mgr, tier) = Cardinality(at)
    BY DEF Used
  <2> HIDE DEF at
  <2>2. IsFiniteSet(at) /\ Cardinality(at) \in Nat
    BY <2>1, KeyFinite, FS_Subset, FS_CardinalityType
  <2> QED BY <1>1, <2>1, <2>2
<1> SUFFICES ASSUME Candidates(mgr, tier, {k}) = {} PROVE FALSE
  OBVIOUS
<1>3. at \subseteq {leased.key}
  BY DEF Candidates
<1>4. CASE at = {}
  <2>1. Cardinality(at) = 0
    BY <1>4, FS_EmptySet
  <2> HIDE DEF at
  <2> QED BY <1>1, <1>2, <2>1
<1>5. CASE at # {}
  <2>1. at = {leased.key}
    BY <1>3, <1>5
  <2>2. leased.key \in Key /\ mgr[leased.key].location = tier
    BY <2>1
  <2> HIDE DEF at
  <2>3. Cardinality(at) = 1
    BY <2>1, FS_Singleton
  <2> QED BY <1>1, <1>2, <2>2, <2>3
<1> QED BY <1>4, <1>5

\* makeRoomLocked does not throw then.
LEMMA RoomExists ==
  ASSUME mode \in Modes, NEW tier \in {"Ram", "Vram"}, NEW k \in Key, mgr[k].location # tier,
         leased.key \in Key /\ mgr[leased.key].location = tier => Limit(tier) >= 2
  PROVE  MakeRoom(mgr, tier, k) # {}
<1>1. CASE Used(mgr, tier) < Limit(tier)
  BY <1>1 DEF MakeRoom, RamRoom, VramRoom, Limit
<1>2. CASE ~(Used(mgr, tier) < Limit(tier))
  <2>1. PICK v \in Candidates(mgr, tier, {k}) : TRUE
    BY <1>2, CandidateExists
  <2>2. CASE tier = "Ram"
    <3>1. [mgr EXCEPT ![v] = OnDisk] \in MakeRoom(mgr, tier, k)
      BY <1>2, <2>1, <2>2, Zenon DEF MakeRoom, RamRoom, Limit
    <3> QED BY <3>1
  <2>3. CASE tier = "Vram"
    <3> DEFINE rooms == RamRoom(mgr, {k} \cup {v})
    <3>1. Demotions(mgr, v, {k}) # {}
      <4>1. CASE rooms = {}
        BY <4>1 DEF Demotions
      <4>2. CASE rooms # {}
        <5>1. PICK r \in rooms : TRUE
          BY <4>2
        <5>2. [r EXCEPT ![v] = [location |-> "Ram", buffer |-> Fresh(v)]] \in Demotions(mgr, v, {k})
          BY <4>2, <5>1, Zenon DEF Demotions
        <5> QED BY <5>2
      <4> QED BY <4>1, <4>2
    <3>2. MakeRoom(mgr, tier, k) = UNION {Demotions(mgr, w, {k}) : w \in Candidates(mgr, "Vram", {k})}
      BY <1>2, <2>3 DEF MakeRoom, VramRoom, Limit
    <3> HIDE DEF rooms
    <3>3. PICK d : d \in Demotions(mgr, v, {k})
      BY <3>1
    <3>4. d \in MakeRoom(mgr, tier, k)
      BY <2>1, <2>3, <3>2, <3>3
    <3> QED BY <3>4
  <2> QED BY <2>2, <2>3
<1> QED BY <1>1, <1>2

\* Making room brings no expert in from disk.
Settled(m, r) == \A j \in Key : r[j].location # "Nvme" => m[j].location # "Nvme"

\* Making room in RAM.
LEMMA RamRoomSettled ==
  ASSUME NEW m \in [Key -> Placement], NEW pinned, NEW r \in RamRoom(m, pinned)
  PROVE  Settled(m, r) /\ r \in [Key -> Placement]
<1>0. OnDisk \in Placement /\ OnDisk.location = "Nvme"
  BY DEF OnDisk, Placement
<1>1. CASE r = m
  BY <1>1 DEF Settled
<1>2. CASE r # m
  <2>1. PICK v \in Candidates(m, "Ram", pinned) : r = [m EXCEPT ![v] = OnDisk]
    BY <1>2 DEF RamRoom
  <2> QED BY <1>0, <2>1 DEF Settled
<1> QED BY <1>1, <1>2

\* Making room in either tier.
LEMMA MakeRoomSettled ==
  ASSUME IsFiniteSet(DOMAIN handles), NEW m \in [Key -> Placement], NEW tier \in {"Ram", "Vram"},
         NEW k, NEW r \in MakeRoom(m, tier, k)
  PROVE  Settled(m, r) /\ r \in [Key -> Placement]
<1>0. OnDisk \in Placement /\ OnDisk.location = "Nvme"
  BY DEF OnDisk, Placement
<1>1. CASE tier = "Ram"
  BY <1>1, RamRoomSettled DEF MakeRoom
<1>2. CASE tier = "Vram" /\ r # m
  <2>1. r \in VramRoom(m, {k})
    BY <1>2 DEF MakeRoom
  <2>2. PICK v \in Candidates(m, "Vram", {k}) : r \in Demotions(m, v, {k})
    BY <1>2, <2>1 DEF VramRoom
  <2>3. v \in Key /\ m[v].location = "Vram"
    BY <2>2 DEF Candidates
  <2> DEFINE rooms == RamRoom(m, {k} \cup {v})
             p == [location |-> "Ram", buffer |-> Fresh(v)]
  <2>4. CASE rooms = {}
    <3>1. r = [m EXCEPT ![v] = OnDisk]
      BY <2>2, <2>4 DEF Demotions
    <3> QED BY <1>0, <2>3, <3>1 DEF Settled
  <2>5. CASE rooms # {}
    <3>1. PICK room \in rooms : r = [room EXCEPT ![v] = p]
      BY <2>2, <2>5, Zenon DEF Demotions
    <3>2. p \in Placement
      BY FreshFacts DEF Placement
    <3>3. Settled(m, room) /\ room \in [Key -> Placement]
      BY <3>1, RamRoomSettled
    <3> HIDE DEF p
    <3> QED BY <2>3, <3>1, <3>2, <3>3 DEF Settled
  <2> QED BY <2>4, <2>5
<1>3. CASE r = m
  BY <1>3 DEF Settled
<1> QED BY <1>1, <1>2, <1>3

\* Whoever is moved goes down: to disk, or from the device to RAM.
Elsewhere(m, r, tier) == \A j \in Key : r[j] = m[j] \/ r[j].location \notin {tier, "Vram"}

\* Making room moves an expert nowhere where room is made.
LEMMA MakeRoomElsewhere ==
  ASSUME IsFiniteSet(DOMAIN handles), NEW m \in [Key -> Placement], NEW tier \in {"Ram", "Vram"},
         NEW k, NEW r \in MakeRoom(m, tier, k)
  PROVE  Elsewhere(m, r, tier) /\ r \in [Key -> Placement]
<1>0. OnDisk \in Placement /\ OnDisk.location = "Nvme"
  BY DEF OnDisk, Placement
<1>1. ASSUME NEW pinned, NEW room \in RamRoom(m, pinned)
      PROVE  Elsewhere(m, room, "Ram") /\ room \in [Key -> Placement]
  <2>1. CASE room = m
    BY <2>1 DEF Elsewhere
  <2>2. CASE room # m
    <3>1. PICK v \in Candidates(m, "Ram", pinned) : room = [m EXCEPT ![v] = OnDisk]
      BY <1>1, <2>2 DEF RamRoom
    <3> QED BY <1>0, <3>1 DEF Elsewhere
  <2> QED BY <2>1, <2>2
<1>2. CASE tier = "Ram"
  BY <1>1, <1>2 DEF MakeRoom
<1>3. CASE tier = "Vram" /\ r = m
  BY <1>3 DEF Elsewhere
<1>4. CASE tier = "Vram" /\ r # m
  <2>1. PICK v \in Candidates(m, "Vram", {k}) : r \in Demotions(m, v, {k})
    BY <1>4 DEF MakeRoom, VramRoom
  <2> DEFINE rooms == RamRoom(m, {k} \cup {v})
             p == [location |-> "Ram", buffer |-> Fresh(v)]
  <2>2. CASE rooms = {}
    <3>1. r = [m EXCEPT ![v] = OnDisk]
      BY <2>1, <2>2 DEF Demotions
    <3> QED BY <1>0, <1>4, <3>1 DEF Elsewhere
  <2>3. CASE rooms # {}
    <3>1. PICK room \in rooms : r = [room EXCEPT ![v] = p]
      BY <2>1, <2>3, Zenon DEF Demotions
    <3>2. p \in Placement /\ p.location = "Ram"
      BY FreshFacts DEF Placement
    <3>3. Elsewhere(m, room, "Ram") /\ room \in [Key -> Placement]
      BY <1>1, <3>1
    <3> HIDE DEF p
    <3> QED BY <1>4, <3>1, <3>2, <3>3 DEF Elsewhere
  <2> QED BY <2>2, <2>3
<1> QED BY <1>2, <1>3, <1>4

\* An adoption brings in the expert it is for, in the buffer it is for.
LEMMA AdoptElsewhere ==
  ASSUME IsFiniteSet(DOMAIN handles), mgr \in [Key -> Placement],
         NEW tier \in {"Ram", "Vram"}, NEW k \in Key, NEW buffer, NEW r \in Adopt(k, tier, buffer)
  PROVE  /\ \A j \in Key \ {k} : r[j] = mgr[j] \/ r[j].location \notin {tier, "Vram"}
         /\ r[k] = IF mgr[k].location = tier THEN mgr[k]
                   ELSE [location |-> tier, buffer |-> buffer]
<1>1. CASE mgr[k].location = tier
  BY <1>1 DEF Adopt
<1>2. CASE mgr[k].location # tier
  <2> DEFINE p == [location |-> tier, buffer |-> buffer]
  <2>1. PICK m \in MakeRoom(mgr, tier, k) : r = [m EXCEPT ![k] = p]
    BY <1>2 DEF Adopt
  <2>2. Elsewhere(mgr, m, tier) /\ m \in [Key -> Placement]
    BY <2>1, MakeRoomElsewhere
  <2> HIDE DEF p
  <2>3. r[k] = p /\ \A j \in Key \ {k} : r[j] = m[j]
    BY <2>1, <2>2
  <2> QED BY <1>2, <2>2, <2>3 DEF Elsewhere, p
<1> QED BY <1>1, <1>2

\* An adoption brings in the expert that is adopted, and can be made.
LEMMA AdoptSettled ==
  ASSUME mode \in Modes, IsFiniteSet(DOMAIN handles), mgr \in [Key -> Placement],
         NEW tier \in {"Ram", "Vram"}, NEW k \in Key, NEW buffer \in Nat,
         leased.key \in Key /\ mgr[leased.key].location = tier => Limit(tier) >= 2
  PROVE  /\ Adopt(k, tier, buffer) # {}
         /\ \A r \in Adopt(k, tier, buffer), j \in Key :
              r[j].location # "Nvme" => mgr[j].location # "Nvme" \/ j = k
<1> DEFINE p == [location |-> tier, buffer |-> buffer]
<1>1. CASE mgr[k].location = tier
  <2>1. Adopt(k, tier, buffer) = {mgr}
    BY <1>1 DEF Adopt
  <2> QED BY <2>1
<1>2. CASE mgr[k].location # tier
  <2>1. Adopt(k, tier, buffer) = {[m EXCEPT ![k] = p] : m \in MakeRoom(mgr, tier, k)}
    BY <1>2 DEF Adopt
  <2>2. PICK m \in MakeRoom(mgr, tier, k) : TRUE
    BY <1>2, RoomExists
  <2> HIDE DEF p
  <2>3. [m EXCEPT ![k] = p] \in Adopt(k, tier, buffer)
    BY <2>1, <2>2
  <2>4. ASSUME NEW r \in Adopt(k, tier, buffer), NEW j \in Key, r[j].location # "Nvme", j # k
        PROVE  mgr[j].location # "Nvme"
    <3>1. PICK n \in MakeRoom(mgr, tier, k) : r = [n EXCEPT ![k] = p]
      BY <2>1
    <3>2. Settled(mgr, n) /\ n \in [Key -> Placement]
      BY <3>1, MakeRoomSettled
    <3>3. r[j] = n[j]
      BY <2>4, <3>1, <3>2
    <3> QED BY <2>4, <3>2, <3>3 DEF Settled
  <2> QED BY <2>3, <2>4
<1> QED BY <1>1, <1>2

-----------------------------------------------------------------------------
(* A routed decision can be dispatched: the groups hold as many assignments *)
(* as the tokens.                                                           *)

\* The function Assignments folds with, on the subsets of S.
Counts(g, seqs, S) ==
  g = [s \in SUBSET S |-> IF s = {} THEN 0 ELSE g[s \ {Pick(s)}] + Len(seqs[Pick(s)])]

\* The assignments of some sequences are the sum of their lengths.
LEMMA AssignmentsSum ==
  ASSUME NEW seqs, IsFiniteSet(DOMAIN seqs), NEW f,
         \A i \in DOMAIN seqs : f[i] = Len(seqs[i]) /\ f[i] \in Nat
  PROVE  Assignments(seqs) = SumOver(f, DOMAIN seqs)
<1> DEFINE S == DOMAIN seqs
           c == CHOOSE g : Counts(g, seqs, S)
<1>1. Assignments(seqs) = c[S]
  BY Zenon DEF Assignments, FoldSeq, FoldFunction, FoldFunctionOnSet, MapThenFoldSet, Counts, Pick
<1>2. \A s \in SUBSET S : s # {} => Pick(s) \in s
  BY DEF Pick
<1>3. \A s \in SUBSET S : /\ IsFiniteSet(s) /\ SumOver(f, s) \in Nat
                          /\ s # {} => SumOver(f, s) = SumOver(f, s \ {Pick(s)}) + f[Pick(s)]
  <2> SUFFICES ASSUME NEW s \in SUBSET S
               PROVE  /\ IsFiniteSet(s) /\ SumOver(f, s) \in Nat
                      /\ s # {} => SumOver(f, s) = SumOver(f, s \ {Pick(s)}) + f[Pick(s)]
    OBVIOUS
  <2>1. IsFiniteSet(s) /\ IsFiniteSet(s \ {Pick(s)})
    BY FS_Subset
  <2>2. SumOver(f, s) \in Nat /\ SumOver(f, s \ {Pick(s)}) \in Nat
    BY <2>1, SumType
  <2>3. ASSUME s # {} PROVE SumOver(f, s) = SumOver(f, s \ {Pick(s)}) + f[Pick(s)]
    <3>1. SumOver(f, s) = f[Pick(s)] + SumOver(f, s \ {Pick(s)})
      BY <2>1, <2>3, SumUnfolds
    <3>2. f[Pick(s)] \in Nat
      BY <1>2, <2>3
    <3> QED BY <2>2, <3>1, <3>2
  <2> QED BY <2>1, <2>2, <2>3
<1>4. Counts(c, seqs, S)
  <2> DEFINE g == [s \in SUBSET S |-> SumOver(f, s)]
  <2>1. ASSUME NEW s \in SUBSET S
        PROVE  SumOver(f, s) = IF s = {} THEN 0 ELSE g[s \ {Pick(s)}] + Len(seqs[Pick(s)])
    <3>1. CASE s = {}
      BY <3>1, SumEmpty
    <3>2. CASE s # {}
      <4>1. s \ {Pick(s)} \in SUBSET S /\ f[Pick(s)] = Len(seqs[Pick(s)])
        BY <1>2, <3>2
      <4>2. g[s \ {Pick(s)}] = SumOver(f, s \ {Pick(s)})
        BY <4>1
      <4> HIDE DEF g
      <4> QED BY <1>3, <3>2, <4>1, <4>2
    <3> QED BY <3>1, <3>2
  <2> DEFINE h == [s \in SUBSET S |-> IF s = {} THEN 0 ELSE g[s \ {Pick(s)}] + Len(seqs[Pick(s)])]
  <2>2. g = h
    BY <2>1
  <2> HIDE DEF g
  <2>3. Counts(g, seqs, S)
    BY <2>2, Zenon DEF Counts
  <2> QED BY <2>3, Zenon
<1> HIDE DEF c
<1>5. \A s \in SUBSET S : c[s] = IF s = {} THEN 0 ELSE c[s \ {Pick(s)}] + Len(seqs[Pick(s)])
  BY <1>4 DEF Counts
<1> DEFINE P == {s \in SUBSET S : c[s] = SumOver(f, s)}
<1>6. {} \in P
  BY <1>5, SumEmpty
<1>7. ASSUME NEW s \in SUBSET S, s # {}, \A x \in s : s \ {x} \in P PROVE s \in P
  <2>1. Pick(s) \in s /\ s \ {Pick(s)} \in P
    BY <1>2, <1>7
  <2>2. c[s] = SumOver(f, s \ {Pick(s)}) + f[Pick(s)]
    BY <1>5, <1>7, <2>1
  <2> QED BY <1>3, <1>7, <2>2
<1>8. S \in P
  <2>1. IsFiniteSet(S)
    OBVIOUS
  <2> HIDE DEF P, S
  <2>2. \A s \in SUBSET S : s # {} /\ (\A x \in s : s \ {x} \in P) => s \in P
    BY <1>7
  <2>3. \A s \in SUBSET S : s \in P
    BY <1>6, <2>1, <2>2, SubsetInduction
  <2> QED BY <2>3
<1>9. c[S] = SumOver(f, S)
  <2> HIDE DEF S
  <2> QED BY <1>8
<1> QED BY <1>1, <1>9, Zenon

\* A sequence without repetition has as many values as entries.
LEMMA ValuesCount ==
  ASSUME NEW n \in Nat, NEW s, DOMAIN s = 1 .. n, \A i, j \in 1 .. n : i # j => s[i] # s[j]
  PROVE  LET S == {s[i] : i \in 1 .. n} IN IsFiniteSet(S) /\ Cardinality(S) = n
<1> DEFINE S == {s[i] : i \in 1 .. n}
           f == [i \in 1 .. n |-> s[i]]
<1>1. f \in Bijection(1 .. n, S)
  BY DEF Bijection, Injection, Surjection, IsInjective
<1>2. IsFiniteSet(1 .. n) /\ Cardinality(1 .. n) = n
  BY FS_Interval
<1>3. ExistsBijection(1 .. n, S)
  BY <1>1 DEF ExistsBijection
<1> HIDE DEF S, f
<1>4. IsFiniteSet(S) /\ Cardinality(S) = n
  BY <1>2, <1>3, FS_Bijection
<1> QED BY <1>4 DEF S

\* The sizes of finitely many disjoint sets add up to that of their union.
LEMMA DisjointSizes ==
  ASSUME NEW D, IsFiniteSet(D), NEW F, NEW f,
         \A d \in D : IsFiniteSet(F[d]) /\ f[d] = Cardinality(F[d]),
         \A d, e \in D : d # e => F[d] \cap F[e] = {}
  PROVE  Cardinality(UNION {F[d] : d \in D}) = SumOver(f, D)
<1> DEFINE U(T) == UNION {F[d] : d \in T}
           P == {T \in SUBSET D : IsFiniteSet(U(T)) /\ Cardinality(U(T)) = SumOver(f, T)}
<1>1. {} \in P
  <2>1. U({}) = {}
    OBVIOUS
  <2> QED BY <2>1, FS_EmptySet, SumEmpty
<1>2. \A d \in D : f[d] \in Nat
  BY FS_CardinalityType
<1>3. ASSUME NEW T \in SUBSET D, T # {}, \A x \in T : T \ {x} \in P PROVE T \in P
  <2>1. PICK x \in T : TRUE
    BY <1>3
  <2> DEFINE R == T \ {x}
  <2>2. IsFiniteSet(U(R)) /\ Cardinality(U(R)) = SumOver(f, R)
    BY <1>3, <2>1
  <2>3. U(T) = F[x] \cup U(R) /\ F[x] \cap U(R) = {}
    BY <2>1
  <2>4. SumOver(f, T) = f[x] + SumOver(f, R)
    <3>1. IsFiniteSet(T) /\ \A y \in T : f[y] \in Int
      BY <1>2, FS_Subset
    <3> QED BY <2>1, <3>1, SumRemove
  <2>5. IsFiniteSet(F[x]) /\ Cardinality(F[x]) = f[x] /\ f[x] \in Nat
    BY <1>2, <2>1
  <2> HIDE DEF U, R
  <2>6. /\ IsFiniteSet(F[x] \cup U(R))
        /\ Cardinality(F[x] \cup U(R)) = Cardinality(F[x]) + Cardinality(U(R)) - Cardinality({})
    BY <2>2, <2>3, <2>5, FS_Union, SMTT(40)
  <2>7. Cardinality({}) = 0 /\ Cardinality(U(R)) \in Nat
    BY <2>2, FS_EmptySet, FS_CardinalityType
  <2>8. Cardinality(U(T)) = SumOver(f, T)
    BY <2>2, <2>3, <2>4, <2>5, <2>6, <2>7
  <2> QED BY <2>3, <2>6, <2>8
<1>4. D \in P
  <2> HIDE DEF P
  <2> QED BY <1>1, <1>3, SubsetInduction
<1> QED BY <1>4

\* What Routed leaves out: nothing is selected or grouped twice, and every
\* weight is finite.
Dealt(d, n) ==
  /\ \A t \in 1 .. n : /\ d.tokens[t].selected \in [1 .. RouterConfig.topK -> Experts]
                       /\ IsInjective(d.tokens[t].selected)
  /\ \A g \in DOMAIN d.groups :
       /\ Len(d.groups[g].tokens) \in Nat
       /\ DOMAIN d.groups[g].tokens = 1 .. Len(d.groups[g].tokens)
       /\ ToSet(d.groups[g].tokens) \subseteq 1 .. n
       /\ IsInjective(d.groups[g].tokens)
       /\ \A row \in DOMAIN d.groups[g].tokens : d.groups[g].weights[row] # NotFinite

\* TopK selects no expert twice.
LEMMA TopKDistinct ==
  ASSUME NEW scores \in [1 .. RouterConfig.expertCount -> Int]
  PROVE  IsInjective(TopK(scores, RouterConfig))
<1> DEFINE n == RouterConfig.expertCount
           k == RouterConfig.topK
           order == ByScore(scores, n)
           S == 0 .. n - 1
<1>1. order \in SetToSeqs(S)
  BY SortedScores, ExpertFacts
<1>2. IsFiniteSet(S) /\ Cardinality(S) = n
  <2>1. 0 <= n - 1 /\ 0 \in Int /\ n - 1 \in Int
    BY ExpertFacts
  <2> QED BY <2>1, FS_Interval, ExpertFacts
<1>3. TopK(scores, RouterConfig) = SubSeq(order, 1, k)
  BY DEF TopK, ExpertIds, ByScore
<1>4. k \in 1 .. n /\ n \in Nat
  BY ExpertFacts
<1> HIDE DEF order, S, k, n
<1>5. /\ DOMAIN order = 1 .. n /\ Len(order) = n /\ order \in [1 .. n -> S]
      /\ \A i, j \in DOMAIN order : i # j => order[i] # order[j]
  <2>1. order \in [1 .. n -> S]
    BY <1>1, <1>2 DEF SetToSeqs
  <2> QED BY <1>1, <1>2, <2>1, EnumerationCovers
<1>6. SubSeq(order, 1, k) = [i \in 1 .. k |-> order[i]]
  <2>1. order \in Seq(S)
    BY <1>4, <1>5
  <2> QED BY <1>4, <1>5, <2>1
<1> QED BY <1>3, <1>4, <1>5, <1>6 DEF IsInjective

\* The sorted tokens of an expert, each once.
LEMMA TokensOfOnce ==
  ASSUME NEW decisions, NEW n \in Nat, DOMAIN decisions = 1 .. n, NEW e
  PROVE  LET s == TokensOf(decisions, e) IN
         /\ Len(s) \in Nat /\ DOMAIN s = 1 .. Len(s) /\ IsInjective(s)
         /\ ToSet(s) \subseteq 1 .. n
         /\ \A row \in DOMAIN s : \E rank \in DOMAIN decisions[s[row]].selected :
                                    decisions[s[row]].selected[rank] = e
<1> DEFINE S == {t \in DOMAIN decisions :
                   \E rank \in DOMAIN decisions[t].selected : decisions[t].selected[rank] = e}
           s == TokensOf(decisions, e)
<1>1. S \subseteq 1 .. n /\ S \subseteq Int /\ IsFiniteSet(S)
  <2>1. S \subseteq 1 .. n
    OBVIOUS
  <2>2. IsFiniteSet(1 .. n)
    BY FS_Interval
  <2> HIDE DEF S
  <2>3. IsFiniteSet(S)
    BY <2>1, <2>2, FS_Subset
  <2> QED BY <2>1, <2>3
<1>2. s \in SetToSeqs(S)
  <2>1. s = Sorted(S, <)
    BY DEF TokensOf
  <2> HIDE DEF S, s
  <2>2. Sorted(S, <) \in SetToSeqs(S)
    BY <1>1, SortedNumbers
  <2> QED BY <2>1, <2>2, Zenon
<1>3. /\ DOMAIN s = 1 .. Cardinality(S) /\ Len(s) = Cardinality(S) /\ Cardinality(S) \in Nat
      /\ ToSet(s) = S /\ \A i, j \in DOMAIN s : i # j => s[i] # s[j]
  <2> HIDE DEF S, s
  <2> QED BY <1>1, <1>2, EnumerationCovers
<1>4. \A row \in DOMAIN s : s[row] \in S
  <2> HIDE DEF S, s
  <2> QED BY <1>3 DEF ToSet
<1>5. \A t \in S : \E rank \in DOMAIN decisions[t].selected : decisions[t].selected[rank] = e
  OBVIOUS
<1> HIDE DEF S, s
<1> QED BY <1>1, <1>3, <1>4, <1>5 DEF IsInjective, s

\* Grouping deals.
LEMMA GroupDealt ==
  ASSUME NEW decisions, NEW n \in Nat, DOMAIN decisions = 1 .. n,
         \A t \in 1 .. n : \A rank \in DOMAIN decisions[t].selected :
           decisions[t].weights[rank] # NotFinite,
         NEW g \in DOMAIN Group(decisions)
  PROVE  LET G == Group(decisions) IN
         /\ Len(G[g].tokens) \in Nat
         /\ DOMAIN G[g].tokens = 1 .. Len(G[g].tokens)
         /\ ToSet(G[g].tokens) \subseteq 1 .. n
         /\ IsInjective(G[g].tokens)
         /\ \A row \in DOMAIN G[g].tokens : G[g].weights[row] # NotFinite
<1> DEFINE order == Sorted(Chosen(decisions), <)
           G == Group(decisions)
           Weights(h) == [row \in DOMAIN TokensOf(decisions, order[h]) |->
                            WeightOf(decisions[TokensOf(decisions, order[h])[row]], order[h])]
           e == order[g]
           s == TokensOf(decisions, e)
<1>1. G = [h \in DOMAIN order |-> [expert |-> order[h], tokens |-> TokensOf(decisions, order[h]),
                                   weights |-> Weights(h)]]
  BY Zenon DEF Group, Chosen
<1>2. G[g].tokens = s /\ G[g].weights = Weights(g)
  <2> HIDE DEF order, Weights, G
  <2>1. g \in DOMAIN order
    BY <1>1 DEF G
  <2> QED BY <1>1, <2>1
<1>3. /\ Len(s) \in Nat /\ DOMAIN s = 1 .. Len(s) /\ IsInjective(s) /\ ToSet(s) \subseteq 1 .. n
      /\ \A row \in DOMAIN s : \E rank \in DOMAIN decisions[s[row]].selected :
                                 decisions[s[row]].selected[rank] = e
  <2> HIDE DEF e
  <2> QED BY TokensOfOnce
<1>4. Weights(g) = [row \in DOMAIN s |-> WeightOf(decisions[s[row]], e)]
  OBVIOUS
<1> HIDE DEF G, order, Weights, e, s
<1>5. ASSUME NEW row \in DOMAIN s PROVE Weights(g)[row] # NotFinite
  <2> DEFINE d == decisions[s[row]]
             r == CHOOSE rank \in DOMAIN d.selected : d.selected[rank] = e
  <2>1. s[row] \in 1 .. n
    BY <1>3 DEF ToSet
  <2>2. \E rank \in DOMAIN d.selected : d.selected[rank] = e
    BY <1>3
  <2>3. r \in DOMAIN d.selected
    BY <2>2
  <2>4. Weights(g)[row] = d.weights[r]
    BY <1>4 DEF WeightOf
  <2> HIDE DEF r
  <2> QED BY <2>1, <2>3, <2>4
<1> QED BY <1>2, <1>3, <1>5 DEF G

\* The entry of the flat selection for a token and a rank.
LEMMA FlatEntry ==
  ASSUME NEW k \in Nat \ {0}, NEW t \in Nat \ {0}, NEW rank \in 1 .. k
  PROVE  LET m == (t - 1) * k + rank
         IN  ((m - 1) \div k) + 1 = t /\ ((m - 1) % k) + 1 = rank
<1> DEFINE m == (t - 1) * k + rank
           q == (m - 1) \div k
           r == (m - 1) % k
<1>1. (t - 1) * k \in Nat /\ m - 1 \in Nat
  <2> DEFINE u == t - 1
  <2>1. u \in Nat
    OBVIOUS
  <2> HIDE DEF u
  <2>2. u * k \in Nat
    BY <2>1
  <2> QED BY <2>2 DEF u
<1>2. q \in Int /\ r \in 0 .. k - 1 /\ m - 1 = k * q + r
  <2> DEFINE z == m - 1
  <2>1. z \in Int
    BY <1>1
  <2> HIDE DEF z
  <2>2. z \div k \in Int /\ z % k \in 0 .. k - 1 /\ z = k * (z \div k) + (z % k)
    BY <2>1
  <2> QED BY <2>2 DEF z
<1>3. m - 1 = (t - 1) * k + (rank - 1)
  BY <1>1
<1> HIDE DEF q, r, m
<1>4. k * q + r = (t - 1) * k + (rank - 1)
  BY <1>2, <1>3
<1> DEFINE u == t - 1
<1>5. u \in Int
  OBVIOUS
<1>6. k * q + r = u * k + (rank - 1)
  BY <1>4
<1> HIDE DEF u
<1>7. u * k \in Int /\ k * q \in Int
  BY <1>2, <1>5
<1>8. ~(q >= u + 1)
  <2> SUFFICES ASSUME q >= u + 1 PROVE FALSE
    OBVIOUS
  <2>1. k * q >= k * (u + 1)
    BY <1>2, <1>5
  <2>2. k * (u + 1) = u * k + k
    BY <1>5
  <2> QED BY <1>2, <1>6, <1>7, <2>1, <2>2
<1>9. ~(q <= u - 1)
  <2> SUFFICES ASSUME q <= u - 1 PROVE FALSE
    OBVIOUS
  <2>1. k * q <= k * (u - 1)
    BY <1>2, <1>5
  <2>2. k * (u - 1) = u * k - k
    BY <1>5
  <2> QED BY <1>2, <1>6, <1>7, <2>1, <2>2
<1>10. q = u
  BY <1>2, <1>5, <1>8, <1>9
<1>11. k * q = u * k
  BY <1>5, <1>10
<1>12. r = rank - 1
  BY <1>2, <1>6, <1>7, <1>11
<1>13. q + 1 = t /\ r + 1 = rank
  BY <1>10, <1>12 DEF u
<1> QED BY <1>13 DEF q, r, m

\* Both routers deal, where they do not refuse.
LEMMA RouteDealt ==
  ASSUME NEW n \in Nat, NEW layer, NEW native,
         NEW rows \in [1 .. n -> [1 .. RouterConfig.expertCount -> Int]],
         NEW b, b \in {CpuRouteBatch(layer, rows, RouterConfig),
                       CudaRouteBatch(layer, rows, RouterConfig, native)},
         b # Refused
  PROVE  Dealt(b, n)
<1> DEFINE c == RouterConfig
           k == RouterConfig.topK
<1>0. Len(rows) = n /\ k \in Nat \ {0}
  BY ExpertFacts
<1>1. /\ \/ b = CpuRouteBatch(layer, rows, c)
         \/ b = MakeDecision(layer, Len(rows), c, RouteTopK(rows, c))
      /\ \A t \in DOMAIN rows : RoutesToken(rows[t], c)
  BY Zenon DEF CpuRouteBatch, CudaRouteBatch
<1>2. \A t \in 1 .. n, e \in Experts : rows[t][e + 1] # NotFinite
  BY <1>1 DEF RoutesToken, Experts
<1>3. \A t \in 1 .. n : /\ TopK(rows[t], c) \in [1 .. k -> Experts]
                        /\ IsInjective(TopK(rows[t], c))
  BY TopKFacts, TopKDistinct
\* What both have in common.
<1>4. ASSUME NEW decisions, DOMAIN decisions = 1 .. n,
             b = [layer |-> layer, tokens |-> decisions, groups |-> Group(decisions)],
             \A t \in 1 .. n :
               /\ decisions[t].selected = TopK(rows[t], c)
               /\ \A rank \in 1 .. k :
                    decisions[t].weights[rank] = rows[t][TopK(rows[t], c)[rank] + 1]
      PROVE  Dealt(b, n)
  <2>1. b.tokens = decisions /\ b.groups = Group(decisions)
    BY <1>4
  <2>2. \A t \in 1 .. n : \A rank \in DOMAIN decisions[t].selected :
          decisions[t].weights[rank] # NotFinite
    <3> SUFFICES ASSUME NEW t \in 1 .. n, NEW rank \in DOMAIN decisions[t].selected
                 PROVE  decisions[t].weights[rank] # NotFinite
      OBVIOUS
    <3> DEFINE x == TopK(rows[t], c)[rank]
    <3>1. decisions[t].selected = TopK(rows[t], c) /\ TopK(rows[t], c) \in [1 .. k -> Experts]
      BY <1>3, <1>4
    <3>2. rank \in 1 .. k /\ x \in Experts
      BY <3>1
    <3>3. decisions[t].weights[rank] = rows[t][x + 1]
      BY <1>4, <3>2
    <3>4. rows[t][x + 1] # NotFinite
      BY <1>2, <3>2
    <3> QED BY <3>3, <3>4
  <2>3. \A g \in DOMAIN b.groups :
          /\ Len(b.groups[g].tokens) \in Nat
          /\ DOMAIN b.groups[g].tokens = 1 .. Len(b.groups[g].tokens)
          /\ ToSet(b.groups[g].tokens) \subseteq 1 .. n
          /\ IsInjective(b.groups[g].tokens)
          /\ \A row \in DOMAIN b.groups[g].tokens : b.groups[g].weights[row] # NotFinite
    <3> SUFFICES ASSUME NEW g \in DOMAIN Group(decisions)
                 PROVE  LET G == Group(decisions) IN
                        /\ Len(G[g].tokens) \in Nat
                        /\ DOMAIN G[g].tokens = 1 .. Len(G[g].tokens)
                        /\ ToSet(G[g].tokens) \subseteq 1 .. n
                        /\ IsInjective(G[g].tokens)
                        /\ \A row \in DOMAIN G[g].tokens : G[g].weights[row] # NotFinite
      BY <2>1
    <3> QED BY <1>4, <2>2, GroupDealt
  <2>4. \A t \in 1 .. n : /\ b.tokens[t].selected \in [1 .. RouterConfig.topK -> Experts]
                          /\ IsInjective(b.tokens[t].selected)
    BY <1>3, <1>4, <2>1
  <2> QED BY <2>3, <2>4 DEF Dealt
<1>5. CASE b = CpuRouteBatch(layer, rows, c)
  <2> DEFINE decisions == [t \in DOMAIN rows |-> RouteToken(layer, rows[t], c)]
  <2>1. b = [layer |-> layer, tokens |-> decisions, groups |-> Group(decisions)]
    BY <1>5, Zenon DEF CpuRouteBatch
  <2>2. \A t \in 1 .. n : /\ decisions[t].selected = TopK(rows[t], c)
                          /\ \A rank \in 1 .. k : decisions[t].weights[rank] =
                                                    rows[t][TopK(rows[t], c)[rank] + 1]
    <3> SUFFICES ASSUME NEW t \in 1 .. n
                 PROVE  /\ decisions[t].selected = TopK(rows[t], c)
                        /\ \A rank \in 1 .. k : decisions[t].weights[rank] =
                                                  rows[t][TopK(rows[t], c)[rank] + 1]
      OBVIOUS
    <3> DEFINE top == TopK(rows[t], c)
    <3>1. decisions[t] = [layer |-> layer, selected |-> top,
                          weights |-> [rank \in DOMAIN top |-> rows[t][top[rank] + 1]]]
      BY DEF RouteToken
    <3>2. DOMAIN top = 1 .. k
      BY <1>3
    <3> HIDE DEF top, k
    <3>3. decisions[t].selected = top
          /\ decisions[t].weights = [rank \in DOMAIN top |-> rows[t][top[rank] + 1]]
      BY <3>1
    <3> QED BY <3>2, <3>3 DEF top
  <2>3. DOMAIN decisions = 1 .. n
    OBVIOUS
  <2> HIDE DEF decisions
  <2> QED BY <1>4, <2>1, <2>2, <2>3
<1>6. CASE b = MakeDecision(layer, Len(rows), c, RouteTopK(rows, c))
  <2> DEFINE selection == RouteTopK(rows, c)
             decisions ==
               [t \in 1 .. n |->
                  [layer |-> layer,
                   selected |-> [rank \in 1 .. k |-> selection[(t - 1) * k + rank].expert],
                   weights |-> [rank \in 1 .. k |-> selection[(t - 1) * k + rank].score]]]
  <2>1. b = [layer |-> layer, tokens |-> decisions, groups |-> Group(decisions)]
    BY <1>0, <1>6 DEF MakeDecision
  <2>2. ASSUME NEW t \in 1 .. n, NEW rank \in 1 .. k
        PROVE  /\ selection[(t - 1) * k + rank].expert = TopK(rows[t], c)[rank]
               /\ selection[(t - 1) * k + rank].score = rows[t][TopK(rows[t], c)[rank] + 1]
    <3> DEFINE m == (t - 1) * k + rank
               place == ((m - 1) % k) + 1
               row == ((m - 1) \div k) + 1
    <3>1. m \in 1 .. n * k
      <4> HIDE DEF k
      <4> QED BY <1>0, FlatPlace
    <3>2. row = t /\ place = rank
      <4>1. t \in Nat \ {0}
        OBVIOUS
      <4> HIDE DEF k
      <4> QED BY <1>0, <4>1, FlatEntry
    <3>3. selection[m] = [expert |-> TopK(rows[row], c)[place],
                          score |-> rows[row][TopK(rows[row], c)[place] + 1]]
      BY <1>0, <3>1 DEF RouteTopK
    <3> HIDE DEF m, place, row, selection, k
    <3> QED BY <3>2, <3>3 DEF m
  <2> HIDE DEF selection
  <2>3. \A t \in 1 .. n : /\ decisions[t].selected = TopK(rows[t], c)
                          /\ \A rank \in 1 .. k : decisions[t].weights[rank] =
                                                    rows[t][TopK(rows[t], c)[rank] + 1]
    <3> SUFFICES ASSUME NEW t \in 1 .. n
                 PROVE  /\ decisions[t].selected = TopK(rows[t], c)
                        /\ \A rank \in 1 .. k : decisions[t].weights[rank] =
                                                  rows[t][TopK(rows[t], c)[rank] + 1]
      OBVIOUS
    <3>1. /\ decisions[t].selected = [rank \in 1 .. k |-> selection[(t - 1) * k + rank].expert]
          /\ decisions[t].weights = [rank \in 1 .. k |-> selection[(t - 1) * k + rank].score]
      OBVIOUS
    <3> DEFINE top == TopK(rows[t], c)
    <3>2. top = [rank \in 1 .. k |-> top[rank]]
      BY <1>3
    <3>3. \A rank \in 1 .. k : /\ selection[(t - 1) * k + rank].expert = top[rank]
                               /\ selection[(t - 1) * k + rank].score = rows[t][top[rank] + 1]
      BY <2>2
    <3> HIDE DEF top, decisions, k
    <3> QED BY <3>1, <3>2, <3>3 DEF top
  <2>4. DOMAIN decisions = 1 .. n
    OBVIOUS
  <2> HIDE DEF decisions
  <2> QED BY <1>4, <2>1, <2>3, <2>4
<1> QED BY <1>1, <1>5, <1>6

\* The assignments of the groups are those of the tokens.
LEMMA AssignmentsAgree ==
  ASSUME NEW d, NEW n, Routed(d, n), Dealt(d, n)
  PROVE  Assignments([g \in DOMAIN d.groups |-> d.groups[g].tokens]) =
           Assignments([t \in DOMAIN d.tokens |-> d.tokens[t].selected])
<1> DEFINE T == 1 .. n
           D == DOMAIN d.groups
           selected(t) == d.tokens[t].selected
           members(g) == d.groups[g].tokens
           e(g) == d.groups[g].expert
           k == RouterConfig.topK
           F == [t \in T |-> {<<t, selected(t)[i]>> : i \in 1 .. k}]
           G == [g \in D |-> {<<members(g)[i], e(g)>> : i \in 1 .. Len(members(g))}]
           f == [t \in T |-> k]
           h == [g \in D |-> Len(members(g))]
<1>0. n \in Nat /\ k \in Nat /\ DOMAIN d.tokens = T
  BY ExpertFacts DEF Routed
<1>1. IsFiniteSet(T) /\ IsFiniteSet(D)
  <2> DEFINE m == Len(d.groups)
  <2>1. m \in Nat /\ D = 1 .. m
    BY DEF Routed
  <2> HIDE DEF m
  <2> QED BY <1>0, <2>1, FS_Interval
<1>2. \A t \in T : /\ selected(t) \in [1 .. k -> Experts] /\ IsInjective(selected(t))
                   /\ Len(selected(t)) = k
  BY <1>0 DEF Dealt
<1>3. \A g \in D : /\ Len(members(g)) \in Nat /\ DOMAIN members(g) = 1 .. Len(members(g))
                   /\ IsInjective(members(g)) /\ ToSet(members(g)) \subseteq T
                   /\ e(g) \in Experts
  BY DEF Dealt, Routed
<1>4. \A t \in T : IsFiniteSet(F[t]) /\ f[t] = Cardinality(F[t])
  <2> SUFFICES ASSUME NEW t \in T PROVE IsFiniteSet(F[t]) /\ f[t] = Cardinality(F[t])
    OBVIOUS
  <2> DEFINE s == [i \in 1 .. k |-> <<t, selected(t)[i]>>]
             S == {s[i] : i \in 1 .. k}
  <2>1. \A i, j \in 1 .. k : i # j => s[i] # s[j]
    BY <1>2 DEF IsInjective
  <2>2. DOMAIN s = 1 .. k
    OBVIOUS
  <2>3. F[t] = S
    OBVIOUS
  <2>4. f[t] = k
    OBVIOUS
  <2> HIDE DEF s, k, F, f
  <2>5. IsFiniteSet(S) /\ Cardinality(S) = k
    BY <1>0, <2>1, <2>2, ValuesCount
  <2> QED BY <2>3, <2>4, <2>5
<1>5. \A g \in D : IsFiniteSet(G[g]) /\ h[g] = Cardinality(G[g])
  <2> SUFFICES ASSUME NEW g \in D PROVE IsFiniteSet(G[g]) /\ h[g] = Cardinality(G[g])
    OBVIOUS
  <2> DEFINE m == Len(members(g))
             s == [i \in 1 .. m |-> <<members(g)[i], e(g)>>]
             S == {s[i] : i \in 1 .. m}
  <2>1. \A i, j \in 1 .. m : i # j => s[i] # s[j]
    BY <1>3 DEF IsInjective
  <2>2. DOMAIN s = 1 .. m /\ m \in Nat
    BY <1>3
  <2>3. G[g] = S
    OBVIOUS
  <2>4. h[g] = m
    OBVIOUS
  <2> HIDE DEF s, m, G, h
  <2>5. IsFiniteSet(S) /\ Cardinality(S) = m
    BY <2>1, <2>2, ValuesCount
  <2> QED BY <2>3, <2>4, <2>5
<1>6. \A t, u \in T : t # u => F[t] \cap F[u] = {}
  OBVIOUS
<1>7. \A g, j \in D : g # j => G[g] \cap G[j] = {}
  <2>1. \A g, j \in D : g # j => e(g) # e(j)
    BY DEF Routed
  <2> QED BY <2>1
<1>8. UNION {F[t] : t \in T} = UNION {G[g] : g \in D}
  <2>1. \A t \in T, x \in Experts :
          x \in ToSet(selected(t)) <=> \E g \in D : e(g) = x /\ t \in ToSet(members(g))
    BY DEF Routed
  <2>2. ASSUME NEW p \in UNION {F[t] : t \in T} PROVE p \in UNION {G[g] : g \in D}
    <3>1. PICK t \in T, i \in 1 .. k : p = <<t, selected(t)[i]>>
      OBVIOUS
    <3>2. selected(t)[i] \in Experts /\ selected(t)[i] \in ToSet(selected(t))
      BY <1>2 DEF ToSet
    <3>3. PICK g \in D : e(g) = selected(t)[i] /\ t \in ToSet(members(g))
      BY <2>1, <3>2
    <3>4. PICK j \in 1 .. Len(members(g)) : members(g)[j] = t
      BY <1>3, <3>3 DEF ToSet
    <3>5. p \in G[g]
      BY <3>1, <3>3, <3>4
    <3> HIDE DEF G
    <3> QED BY <3>5
  <2>3. ASSUME NEW p \in UNION {G[g] : g \in D} PROVE p \in UNION {F[t] : t \in T}
    <3>0. PICK g \in D : p \in G[g]
      OBVIOUS
    <3>1. PICK j \in 1 .. Len(members(g)) : p = <<members(g)[j], e(g)>>
      BY <3>0
    <3>2. members(g)[j] \in ToSet(members(g)) /\ members(g)[j] \in T
      BY <1>3 DEF ToSet
    <3>3. e(g) \in ToSet(selected(members(g)[j]))
      BY <1>3, <2>1, <3>2
    <3>4. PICK i \in 1 .. k : selected(members(g)[j])[i] = e(g)
      BY <1>2, <3>2, <3>3 DEF ToSet
    <3>5. p \in F[members(g)[j]]
      BY <3>1, <3>2, <3>4
    <3> HIDE DEF F
    <3> QED BY <3>2, <3>5
  <2> QED BY <2>2, <2>3
<1>9. SumOver(f, T) = SumOver(h, D)
  <2> HIDE DEF F, G, f, h, T, D
  <2>1. Cardinality(UNION {F[t] : t \in T}) = SumOver(f, T)
    BY <1>1, <1>4, <1>6, DisjointSizes
  <2>2. Cardinality(UNION {G[g] : g \in D}) = SumOver(h, D)
    BY <1>1, <1>5, <1>7, DisjointSizes
  <2> QED BY <1>8, <2>1, <2>2
<1> DEFINE byToken == [t \in DOMAIN d.tokens |-> d.tokens[t].selected]
           byGroup == [g \in DOMAIN d.groups |-> d.groups[g].tokens]
<1>10. DOMAIN byToken = T /\ DOMAIN byGroup = D
  BY <1>0
<1>11. \A t \in T : f[t] = Len(byToken[t]) /\ f[t] \in Nat
  BY <1>0, <1>2
<1>12. \A g \in D : h[g] = Len(byGroup[g]) /\ h[g] \in Nat
  BY <1>3
<1> HIDE DEF f, h, T, D, byToken, byGroup
<1>13. Assignments(byToken) = SumOver(f, T)
  BY <1>1, <1>10, <1>11, AssignmentsSum
<1>14. Assignments(byGroup) = SumOver(h, D)
  BY <1>1, <1>10, <1>12, AssignmentsSum
<1> QED BY <1>9, <1>13, <1>14 DEF byToken, byGroup

\* A valid decision of the router is dispatched.
LEMMA RoutedDispatches ==
  ASSUME NEW d, NEW n, Routed(d, n), Dealt(d, n), BatchValid(d)
  PROVE  Dispatchable(d)
<1>1. n \in Nat /\ Len(d.tokens) = n /\ n # 0
  <2>1. n \in Nat /\ d.tokens = [t \in 1 .. n |-> d.tokens[t]] /\ d.tokens # <<>>
    BY DEF Routed, BatchValid
  <2> QED BY <2>1
<1>2. ASSUME NEW g \in DOMAIN d.groups PROVE GroupValid(d.groups[g], Len(d.tokens))
  <2>1. /\ d.groups[g].tokens # <<>> /\ Len(d.groups[g].tokens) = Len(d.groups[g].weights)
    BY DEF BatchValid
  <2>2. /\ IsInjective(d.groups[g].tokens) /\ ToSet(d.groups[g].tokens) \subseteq 1 .. n
        /\ \A row \in DOMAIN d.groups[g].tokens : d.groups[g].weights[row] # NotFinite
    BY DEF Dealt
  <2>3. \A row \in DOMAIN d.groups[g].tokens : d.groups[g].tokens[row] <= n
    BY <1>1, <2>2 DEF ToSet
  <2> QED BY <1>1, <2>1, <2>2, <2>3 DEF GroupValid
<1>3. d.groups # <<>>
  <2>1. 1 \in 1 .. n /\ 1 \in 1 .. RouterConfig.topK
    BY <1>1, ExpertFacts
  <2> DEFINE x == d.tokens[1].selected[1]
  <2>2. x \in Experts /\ x \in ToSet(d.tokens[1].selected)
    BY <2>1 DEF Dealt, ToSet
  <2>3. \E g \in DOMAIN d.groups : d.groups[g].expert = x
    BY <2>1, <2>2 DEF Routed
  <2> QED BY <2>3
<1>4. Assignments([g \in DOMAIN d.groups |-> d.groups[g].tokens]) =
        Assignments([t \in DOMAIN d.tokens |-> d.tokens[t].selected])
  BY AssignmentsAgree
<1> QED BY <1>2, <1>3, <1>4 DEF Dispatchable

-----------------------------------------------------------------------------
(* What Outer gives, and when an exception leaves executeBatch.             *)

\* The leased expert fills no tier that room is needed in.
LEMMA RoomHere ==
  ASSUME Inv, UseOK, pc \in Submitting \cup {"adopt", "acquire"}, NEW tier
  PROVE  leased.key \in Key /\ mgr[leased.key].location = tier => Limit(tier) >= 2
<1> SUFFICES ASSUME leased.key \in Key, mgr[leased.key].location = tier PROVE Limit(tier) >= 2
  OBVIOUS
<1>1. leased # NoLease
  BY KeyFinite DEF NoLease
<1>2. HoldsLease /\ mgr[leased.key].location = Destination
  BY <1>1 DEF Inv, LeaseOK
<1> QED BY <1>2 DEF UseOK, HoldsLease, Submitting

\* Two groups are two experts.
LEMMA DistinctKeys ==
  ASSUME Inv, pc # "idle", NEW g \in DOMAIN Groups, NEW h \in DOMAIN Groups, g # h
  PROVE  KeyOf(g) # KeyOf(h)
  BY DEF Inv, RunOK, Routed, KeyOf, Groups

\* The expert that is submitted is not the leased one: if it is in use, it was
\* abandoned.
LEMMA SubmittedFree ==
  ASSUME Inv, Outer, pc \in Submitting, InUse(sch, Submitted)
  PROVE  \E j \in Key : InUse(sch, j) /\ leased.key # j
<1>1. Submitted \in Key /\ pc \in Running /\ pc # "idle"
  BY SubmittedFacts DEF Running, Submitting
<1>2. CASE leased = NoLease
  BY <1>1, <1>2, KeyFinite DEF NoLease
<1>3. CASE leased # NoLease
  <2>1. HoldsLease /\ leased.key = Current
    BY <1>3 DEF Inv, LeaseOK, Outer, UseOK
  <2>2. run.submitting = run.index + 1 /\ run.index \in DOMAIN Groups
        /\ run.submitting \in DOMAIN Groups /\ run.index \in Int
    BY <1>1, <2>1 DEF HoldsLease, Submitting, Outer, OrderOK, Inv, RunOK, Routed, Groups
  <2>3. Submitted # Current
    BY <1>1, <2>2, DistinctKeys DEF Submitted, Current
  <2> QED BY <1>1, <2>1, <2>3
<1> QED BY <1>2, <1>3

\* An expert without a task and not in use can be reconciled.
LEMMA FreeReconciles ==
  ASSUME SchCoupled(sch), NEW k \in Key, ~Pending(sch, k), ~InUse(sch, k)
  PROVE  CanReconcile(sch.state[k]) /\ CanAcknowledge(sch, k)
<1>1. Coupled(sch.state[k], sch.pending[k], sch.resident[k]) /\ sch.pending[k].phase = "none"
  BY DEF SchCoupled, Pending
<1>2. sch.state[k].state \in {"Ready", "Failed"}
  BY <1>1 DEF Coupled, InUse
<1>3. CanReconcile(sch.state[k])
  BY <1>2 DEF CanReconcile, IsRegistered
<1> QED BY <1>1, <1>3 DEF CanAcknowledge

\* The release keeps the coupling.
LEMMA ReleasedCoupled ==
  ASSUME NEW s, SchOK(s), SchCoupled(s),
         leased # NoLease => leased.key \in Key /\ InUse(s, leased.key)
  PROVE  /\ SchCoupled(Released(s))
         /\ Released(s).pending = s.pending /\ Released(s).resident = s.resident
         /\ Released(s).prefetched = s.prefetched
         /\ \A k \in Key : Released(s).state[k].current = s.state[k].current
<1> DEFINE t == Released(s)
           k == leased.key
           x == ReleaseOf(s.state[k])
<1>1. CASE leased = NoLease
  <2>1. t = s
    BY <1>1 DEF Released
  <2> QED BY <2>1
<1>2. CASE leased # NoLease
  <2>0. /\ s \in SchType /\ k \in Key /\ InUse(s, k) /\ s.state[k] \in ExpertRecord
        /\ s.pending[k].phase = "none" /\ s.resident[k] = Nothing
    BY <1>2, SchParts DEF SchOK, Pending
  <2>1. t = [s EXCEPT !.state[k] = x]
    BY <1>2, Zenon DEF Released
  <2>2. s = [state |-> s.state, pending |-> s.pending, resident |-> s.resident,
             prefetched |-> s.prefetched] /\ s.state \in [Key -> ExpertRecord]
    BY <2>0 DEF SchType
  <2>3. x.current = s.state[k].current /\ x.state = "Ready"
    BY <2>0 DEF ReleaseOf, ExpertRecord
  <2>4. Coupled(x, s.pending[k], Nothing)
    BY <2>0, CoupledUse DEF SchCoupled, InUse
  <2> HIDE DEF t, x
  <2>5. /\ t.pending = s.pending /\ t.resident = s.resident /\ t.prefetched = s.prefetched
        /\ \A j \in Key : t.state[j] = IF j = k THEN x ELSE s.state[j]
    BY <2>1, <2>2
  <2>6. SchCoupled(t)
    <3> SUFFICES ASSUME NEW j \in Key
                 PROVE  /\ Coupled(t.state[j], t.pending[j], t.resident[j])
                        /\ j \in t.prefetched => Speculative(t.state[j], t.pending[j])
      BY DEF SchCoupled
    <3>1. CASE j = k
      BY <2>0, <2>3, <2>4, <2>5, <3>1 DEF Speculative
    <3>2. CASE j # k
      BY <2>5, <3>2 DEF SchCoupled
    <3> QED BY <3>1, <3>2
  <2> QED BY <2>3, <2>5, <2>6 DEF t
<1> QED BY <1>1, <1>2

\* At rest only the scheduler and the store matter.
LEMMA RestOuter ==
  ASSUME pc' = "idle", handles' = <<>>, warm' = NoHandle, leased' = NoLease, SchCoupled(sch'),
         \A k \in sch'.prefetched : sch'.state[k].current = "Ram",
         \A k \in Key : mgr'[k].location # "Nvme" => k \in offsets',
         RefusalsOK'
  PROVE  Outer'
<1>1. SchCoupled(sch)' /\ SpeculativeOK'
  BY DEF SchCoupled, SpeculativeOK
<1>2. DOMAIN handles' = {} /\ warm'.status # "ready"
  BY DEF NoHandle
<1>3. OrderOK' /\ AnswersOK'
  BY <1>2 DEF OrderOK, AnswersOK, Submitting
<1>4. BareOK' /\ UseOK'
  BY DEF BareOK, UseOK, Submitting
<1> QED BY <1>1, <1>3, <1>4 DEF Outer

\* An exception leaves executeBatch, whether the catch block gets to release the
\* expert in use or not.
LEMMA LeaveOuter ==
  ASSUME Inv, NEW reason, NEW s, Continues(sch, s), SchCoupled(s), Leave(reason),
         sch' \in {s, Released(s)},
         \A k \in s.prefetched : s.state[k].current = "Ram",
         reason \notin {"dispatch", "noRoom", "offset", "acquire"},
         reason \in Refusals => \E j \in Key : InUse(sch, j) /\ leased.key # j,
         \A k \in Key : mgr'[k].location # "Nvme" => k \in offsets'
  PROVE  Outer'
<1>1. /\ failure' = reason /\ pc' = "idle" /\ handles' = <<>>
      /\ warm' = NoHandle /\ leased' = NoLease
  BY DEF Leave
<1>2. SchOK(s) /\ (\A k \in Key : InUse(s, k) <=> InUse(sch, k))
      /\ (leased # NoLease => leased.key \in Key /\ InUse(s, leased.key))
  BY LeaseFacts DEF Continues, Inv, LeaseOK
<1>3. /\ SchCoupled(sch') /\ sch'.prefetched = s.prefetched
      /\ \A k \in Key : sch'.state[k].current = s.state[k].current
      /\ \A k \in Key : InUse(s, k) /\ leased.key # k => InUse(sch', k)
  <2>1. CASE sch' = Released(s)
    BY <1>2, <2>1, ReleasedCoupled, ReleasedFacts
  <2>2. CASE sch' = s
    BY <2>2
  <2> QED BY <2>1, <2>2
<1>4. \A k \in sch'.prefetched : sch'.state[k].current = "Ram"
  BY <1>2, <1>3, SchParts DEF SchOK
<1>5. reason \in Refusals => Abandoned' # {}
  <2> SUFFICES ASSUME reason \in Refusals PROVE Abandoned' # {}
    OBVIOUS
  <2>1. PICK j \in Key : InUse(sch, j) /\ leased.key # j
    OBVIOUS
  <2>2. InUse(sch', j) /\ leased'.key # j
    BY <1>1, <1>2, <1>3, <2>1, KeyFinite DEF NoLease
  <2> QED BY <2>2, AbandonedFacts
<1>6. RefusalsOK'
  BY <1>1, <1>5 DEF RefusalsOK
<1> QED BY <1>1, <1>3, <1>4, <1>6, RestOuter

\* A throw.
LEMMA ThrowOuter ==
  ASSUME Inv, NEW reason, NEW s, Continues(sch, s), SchCoupled(s), Throw(reason, s),
         \A k \in s.prefetched : s.state[k].current = "Ram",
         reason \notin {"dispatch", "noRoom", "offset", "acquire"},
         reason \in Refusals => \E j \in Key : InUse(sch, j) /\ leased.key # j,
         \A k \in Key : mgr'[k].location # "Nvme" => k \in offsets'
  PROVE  Outer'
<1>1. CASE sch' = Released(s) /\ Leave(reason) /\ UNCHANGED faults
  BY <1>1, LeaveOuter
<1>2. CASE leased # NoLease /\ Abandon(s)
  BY <1>2, LeaveOuter DEF Abandon, Refusals
<1> QED BY <1>1, <1>2 DEF Throw

\* A throw that leaves the scheduler and the store as they are.
LEMMA PlainThrow ==
  ASSUME Inv, Outer, NEW reason, pc # "request", Throw(reason, sch),
         UNCHANGED <<mgr, offsets>>,
         reason \notin {"dispatch", "noRoom", "offset", "acquire"},
         reason \in Refusals => \E j \in Key : InUse(sch, j) /\ leased.key # j
  PROVE  Outer'
<1>1. SchCoupled(sch) /\ \A k \in sch.prefetched : sch.state[k].current = "Ram"
  BY DEF Outer, SpeculativeOK
<1>2. \A k \in Key : mgr'[k].location # "Nvme" => k \in offsets'
  BY DEF Outer, BareOK
<1> QED BY <1>1, <1>2, SchStays, ThrowOuter

\* Initially.
LEMMA InitOuter == Init => Outer
<1> SUFFICES ASSUME Init PROVE Outer
  OBVIOUS
<1>1. /\ pc = "idle" /\ handles = <<>> /\ warm = NoHandle /\ leased = NoLease /\ failure = "none"
      /\ sch.prefetched = {}
      /\ \A k \in Key : /\ sch.state[k] = RegisteredAt("Nvme") /\ sch.pending[k] = NoTask
                        /\ sch.resident[k] = Nothing /\ mgr[k] = OnDisk
  BY DEF Init
<1>2. Coupled(RegisteredAt("Nvme"), NoTask, Nothing)
  BY DEF Coupled, RegisteredAt, NoTask
<1>3. SchCoupled(sch) /\ SpeculativeOK
  BY <1>1, <1>2 DEF SchCoupled, SpeculativeOK
<1>4. DOMAIN handles = {} /\ warm.status # "ready" /\ OnDisk.location = "Nvme"
  BY <1>1 DEF NoHandle, OnDisk
<1>5. OrderOK /\ AnswersOK /\ BareOK /\ UseOK
  BY <1>1, <1>4 DEF OrderOK, AnswersOK, BareOK, UseOK, Submitting
<1> QED BY <1>1, <1>3, <1>5 DEF Outer, RefusalsOK, Refusals

-----------------------------------------------------------------------------
(* The executor's steps keep Outer.                                         *)

\* The handles answer what they did, where their tasks are the same.
LEMMA AnswersKept ==
  ASSUME NEW h, NEW k, Answers(h, k), mode' = mode, offsets \subseteq offsets',
         h # NoHandle => sch'.pending[k] = sch.pending[k]
  PROVE  Answers(h, k)'
<1>1. CASE h = NoHandle
  BY <1>1 DEF Answers, NoHandle
<1>2. CASE h # NoHandle
  BY <1>2 DEF Answers, Pending, Destination
<1> QED BY <1>1, <1>2

\* A step within a layer that leaves the scheduler and the store alone.
LEMMA StayOuter ==
  ASSUME Inv, Outer, pc \notin {"idle", "request"}, pc' \notin {"idle"},
         run'.decision = run.decision, run'.layer = run.layer, run'.index = run.index,
         UNCHANGED <<handles, sch, mgr, leased, offsets, mode, failure>>,
         OrderOK', UseOK',
         pc' = "adopt" => handles[run.index].ok,
         warm'.status = "ready" => ~Pending(sch, Submitted'),
         pc' \in {"stage", "reconcile", "request"} /\ Submitted' \notin offsets =>
           Bare(sch.state[Submitted'], sch.pending[Submitted'], sch.resident[Submitted'],
                pc' = "request")
  PROVE  Outer'
<1>1. SchCoupled(sch)' /\ SpeculativeOK'
  BY DEF Outer, SchCoupled, SpeculativeOK
<1>2. \A g : KeyOf(g)' = KeyOf(g)
  BY DEF KeyOf, Groups
<1>3. AnswersOK'
  <2>1. \A g \in DOMAIN handles : Answers(handles[g], KeyOf(g))
    BY DEF Outer, AnswersOK
  <2>2. \A g \in DOMAIN handles' : Answers(handles[g], KeyOf(g))'
    BY <1>2, <2>1 DEF Answers, Pending, Destination
  <2> QED BY <2>2 DEF AnswersOK, Pending
<1>4. BareOK'
  BY DEF Outer, BareOK
<1>5. RefusalsOK'
  BY DEF Outer, RefusalsOK, Refusals
<1> QED BY <1>1, <1>3, <1>4, <1>5 DEF Outer

\* The submission begins with no handle at or after its group.
LEMMA DispatchOuter ==
  ASSUME Inv, Outer, Dispatch
  PROVE  Outer'
<1>1. /\ pc = "dispatch" /\ Dispatchable(run.decision)
      /\ UNCHANGED <<run, handles, warm, sch, leased, mode, mgr, offsets, failure>>
      /\ pc' = "submit"
  BY DEF Dispatch, Goto, Outer, UseOK
<1>2. run.index = 1 /\ run.submitting = 1 /\ run.resume = "await"
  BY <1>1 DEF Inv, RunOK
<1>3. OrderOK'
  BY <1>1, <1>2 DEF Outer, OrderOK, Submitting
<1>4. UseOK'
  BY <1>1, <1>2 DEF Outer, UseOK, Current, KeyOf, Groups, Submitting
<1>5. warm'.status # "ready"
  BY <1>1 DEF Inv, HandlesOK, NoHandle
<1> QED BY <1>1, <1>3, <1>4, <1>5, StayOuter

\* A token is observed without a predictor.
LEMMA ObserveHistoryOuter ==
  ASSUME Inv, Outer, ObserveHistory
  PROVE  Outer'
<1>1. /\ pc = "observe" /\ Advance
      /\ UNCHANGED <<handles, warm, sch, leased, mode, mgr, offsets, failure>>
  BY DEF ObserveHistory
<1>2. /\ pc' \in {"observe", "dispatch"} /\ run'.decision = run.decision
      /\ run'.layer = run.layer /\ run'.index = run.index
  BY <1>1 DEF Advance, Inv, RunOK
<1>3. OrderOK' /\ UseOK'
  BY <1>1, <1>2 DEF Outer, OrderOK, UseOK, Current, KeyOf, Groups, Submitting
<1>4. warm'.status # "ready"
  BY <1>1 DEF Inv, HandlesOK, NoHandle
<1> QED BY <1>1, <1>2, <1>3, <1>4, StayOuter

\* An expert without an offset is on disk, so a load into RAM is waited for
\* and what goes on to "stage" is none that could still be dropped.
LEMMA ReadExpertOuter ==
  ASSUME Inv, Outer, ReadExpert
  PROVE  Outer'
<1> DEFINE k == Submitted
           x == sch.state[k]
           t == sch.pending[k]
           r == sch.resident[k]
<1>1. /\ pc = "submit" /\ pc' \in {"requestWarm", "stage"}
      /\ UNCHANGED <<run, handles, warm, sch, leased, mode, mgr, offsets, failure>>
      /\ pc' = "stage" => ~ /\ mgr[k].location = "Nvme" /\ x.target = "Ram"
                            /\ x.state \in {"Queued", "Loading", "Ready"}
  BY DEF ReadExpert, Goto
<1>2. k \in Key /\ Submitted' = k
  BY <1>1, SubmittedFacts DEF Running, Submitting, Submitted, KeyOf, Groups
<1>3. OrderOK' /\ UseOK'
  BY <1>1 DEF Outer, OrderOK, UseOK, Current, KeyOf, Groups, Submitting, Limit, Destination
<1>4. warm'.status # "ready"
  BY <1>1 DEF Inv, HandlesOK, NoHandle
<1>5. ASSUME pc' = "stage", k \notin offsets PROVE Bare(x, t, r, FALSE)
  <2>1. mgr[k].location = "Nvme"
    BY <1>2, <1>5 DEF Outer, BareOK
  <2>2. ~(x.target = "Ram" /\ x.state \in {"Queued", "Loading", "Ready"})
    BY <1>1, <1>5, <2>1
  <2>3. Coupled(x, t, r)
    BY <1>2 DEF Outer, SchCoupled
  <2> HIDE DEF x, t, r
  <2>4. t.phase \in {"queued", "loading", "loaded"} => ~t.prefetch
    BY <2>2, <2>3 DEF Coupled
  <2>5. t.phase = "retained" /\ x.state = "Ready" /\ r = Nothing => x.current = "Nvme"
    BY <2>2, <2>3 DEF Coupled
  <2> QED BY <2>4, <2>5 DEF Bare
<1>6. pc' \in {"stage", "reconcile", "request"} /\ Submitted' \notin offsets =>
        Bare(sch.state[Submitted'], sch.pending[Submitted'], sch.resident[Submitted'],
             pc' = "request")
  <2> SUFFICES ASSUME pc' \in {"stage", "reconcile", "request"}, Submitted' \notin offsets
               PROVE  Bare(sch.state[Submitted'], sch.pending[Submitted'],
                           sch.resident[Submitted'], pc' = "request")
    OBVIOUS
  <2>1. pc' = "stage" /\ (pc' = "request") = FALSE
    BY <1>1
  <2>2. Bare(sch.state[k], sch.pending[k], sch.resident[k], FALSE)
    BY <1>2, <1>5, <2>1
  <2> QED BY <1>2, <2>1, <2>2
<1> HIDE DEF x, t, r
<1> QED BY <1>1, <1>3, <1>4, <1>6, StayOuter

\* The warm load is there, or it failed.
LEMMA AwaitWarmOuter ==
  ASSUME Inv, Outer, AwaitWarm
  PROVE  Outer'
<1>1. pc = "warm" /\ warm.status = "ready" /\ UNCHANGED <<mode, mgr, offsets>>
  BY DEF AwaitWarm
<1>2. CASE warm.ok
  <2>1. /\ warm' = NoHandle /\ pc' = "stage"
        /\ UNCHANGED <<run, handles, sch, leased, mode, mgr, offsets, failure>>
    BY <1>1, <1>2 DEF AwaitWarm, Goto
  <2>2. OrderOK' /\ UseOK'
    BY <1>1, <2>1 DEF Outer, OrderOK, UseOK, Current, KeyOf, Groups, Submitting, Limit, Destination
  <2>3. warm'.status # "ready"
    BY <2>1 DEF NoHandle
  <2>4. Submitted' = Submitted /\ ~Pending(sch, Submitted)
    BY <1>1, <2>1 DEF Outer, AnswersOK, Submitted, KeyOf, Groups
  <2>5. Bare(sch.state[Submitted'], sch.pending[Submitted'], sch.resident[Submitted'],
             pc' = "request")
    BY <2>1, <2>4 DEF Bare, Pending
  <2> QED BY <1>1, <2>1, <2>2, <2>3, <2>5, StayOuter
<1>3. CASE ~warm.ok
  <2>1. Throw("transfer", sch)
    BY <1>1, <1>3 DEF AwaitWarm
  <2> QED BY <1>1, <2>1, PlainThrow DEF Refusals
<1> QED BY <1>2, <1>3

\* The executor waits for the current expert, or submits it first.
LEMMA AwaitExpertOuter ==
  ASSUME Inv, Outer, AwaitExpert
  PROVE  Outer'
<1> DEFINE h == handles[run.index]
<1>1. pc = "await" /\ UNCHANGED <<mode, mgr, offsets>>
  BY DEF AwaitExpert
<1>2. run.index \in DOMAIN handles /\ h \in Handle /\ warm.status # "ready"
  BY <1>1 DEF Inv, RunOK, HandlesOK, Running, NoHandle
<1>3. CASE h.status = "none"
  <2>1. /\ run' = [run EXCEPT !.submitting = run.index, !.resume = "await"] /\ pc' = "submit"
        /\ UNCHANGED <<handles, warm, sch, leased, mode, mgr, offsets, failure>>
    BY <1>1, <1>3 DEF AwaitExpert, Goto
  <2>2. /\ run'.submitting = run.index /\ run'.resume = "await" /\ run'.index = run.index
        /\ run'.decision = run.decision /\ run'.layer = run.layer
    BY <2>1 DEF Inv, RunOK
  <2>3. h = NoHandle
    BY <1>2, <1>3 DEF Handle, Waiting, Ready
  <2>4. OrderOK'
    <3>1. \A g \in DOMAIN handles : g >= run.index => handles[g] = NoHandle
      <4> SUFFICES ASSUME NEW g \in DOMAIN handles, g >= run.index PROVE handles[g] = NoHandle
        OBVIOUS
      <4>1. g \in Int /\ run.index \in Int
        BY <1>1, <1>2 DEF Inv, RunOK, HandlesOK, Routed, Groups
      <4>2. CASE g = run.index
        BY <2>3, <4>2
      <4>3. CASE g # run.index
        BY <1>1, <4>1, <4>3 DEF Outer, OrderOK
      <4> QED BY <4>2, <4>3
    <3> QED BY <2>1, <2>2, <3>1 DEF OrderOK, Submitting
  <2>5. UseOK'
    BY <1>1, <2>1, <2>2 DEF Outer, UseOK, Current, KeyOf, Groups
  <2> QED BY <1>1, <1>2, <2>1, <2>2, <2>4, <2>5, StayOuter
<1>4. CASE h.status # "none" /\ h.ok
  <2>1. /\ pc' = "adopt"
        /\ UNCHANGED <<run, handles, warm, sch, leased, mode, mgr, offsets, failure>>
    BY <1>1, <1>4 DEF AwaitExpert, Goto
  <2>2. OrderOK' /\ UseOK'
    BY <1>1, <2>1 DEF Outer, OrderOK, UseOK, Current, KeyOf, Groups, Submitting
  <2> QED BY <1>1, <1>2, <1>4, <2>1, <2>2, StayOuter
<1>5. CASE h.status # "none" /\ ~h.ok
  <2>1. Throw("transfer", sch)
    BY <1>1, <1>5 DEF AwaitExpert
  <2> QED BY <1>1, <2>1, PlainThrow DEF Refusals
<1> QED BY <1>3, <1>4, <1>5

\* The next expert is submitted only where both fit.
LEMMA OverlapOuter ==
  ASSUME Inv, Outer, Overlap
  PROVE  Outer'
<1> DEFINE next == run.index + 1
<1>1. /\ pc = "overlap"
      /\ UNCHANGED <<handles, warm, sch, leased, mode, mgr, offsets, failure>>
      /\ \/ /\ FitsBoth(Destination) /\ pc' = "submit"
            /\ run' = [run EXCEPT !.submitting = next, !.resume = "execute"]
         \/ pc' = "execute" /\ run' = run
  BY DEF Overlap, Goto
<1>2. /\ DOMAIN handles = 1 .. Len(Groups) /\ run.index \in Int /\ Len(Groups) \in Nat
      /\ warm.status # "ready"
  BY <1>1 DEF Inv, RunOK, HandlesOK, Running, Routed, Groups, NoHandle
<1>3. \A g \in DOMAIN handles : g > run.index => handles[g] = NoHandle
  BY <1>1 DEF Outer, OrderOK
<1>4. CASE pc' = "submit"
  <2>1. /\ run'.submitting = next /\ run'.resume = "execute" /\ run'.index = run.index
        /\ run'.decision = run.decision /\ run'.layer = run.layer /\ FitsBoth(Destination)
    BY <1>1, <1>4 DEF Inv, RunOK
  <2>2. Limit(Destination) >= 2
    <3>1. Limit(Destination) \in Nat
      BY LimitFacts DEF Limit, Inv, StoreOK
    <3> QED BY <2>1, <3>1 DEF FitsBoth
  <2>3. OrderOK'
    BY <1>1, <1>2, <1>3, <1>4, <2>1 DEF OrderOK, Submitting
  <2>4. UseOK'
    BY <1>1, <1>4, <2>1, <2>2 DEF Outer, UseOK, Current, KeyOf, Groups, Limit, Destination
  <2> QED BY <1>1, <1>2, <1>4, <2>1, <2>3, <2>4, StayOuter
<1>5. CASE pc' = "execute"
  <2>1. run' = run
    BY <1>1, <1>5
  <2>2. OrderOK'
    BY <1>1, <1>2, <1>3, <1>5, <2>1 DEF OrderOK, Submitting
  <2>3. UseOK'
    BY <1>1, <1>5, <2>1 DEF Outer, UseOK, Current, KeyOf, Groups, Submitting
  <2> QED BY <1>1, <1>2, <1>5, <2>1, <2>2, <2>3, StayOuter
<1> QED BY <1>1, <1>4, <1>5

\* The kernel fails.
LEMMA FailExpertOuter ==
  ASSUME Inv, Outer, FailExpert
  PROVE  Outer'
<1>1. /\ pc = "execute" /\ UNCHANGED <<mgr, offsets>>
      /\ (sch' = Released(sch) /\ Leave("executor")) \/ (sch' = sch /\ Leave("synchronize"))
  BY DEF FailExpert, Abandon
<1>2. SchCoupled(sch) /\ \A k \in sch.prefetched : sch.state[k].current = "Ram"
  BY <1>1 DEF Outer, SpeculativeOK
<1>3. \A k \in Key : mgr'[k].location # "Nvme" => k \in offsets'
  BY <1>1 DEF Outer, BareOK
<1> QED BY <1>1, <1>2, <1>3, SchStays, LeaveOuter DEF Refusals

\* A step within a layer.
LEMMA LayerOuter ==
  ASSUME Inv, Outer, pc # "idle", pc' # "idle",
         run'.decision = run.decision, run'.layer = run.layer, mode' = mode, failure' = failure,
         SchCoupled(sch'), OrderOK', UseOK',
         \A j \in sch'.prefetched :
           sch'.state[j].current = "Ram" \/ (pc' = "request" /\ j = Submitted'),
         offsets \subseteq offsets',
         \A j \in Key : mgr'[j].location # "Nvme" => j \in offsets',
         DOMAIN handles' = DOMAIN handles,
         \A g \in DOMAIN handles :
           \/ Answers(handles[g], KeyOf(g))'
           \/ /\ handles'[g] = handles[g]
              /\ handles[g] # NoHandle => sch'.pending[KeyOf(g)] = sch.pending[KeyOf(g)],
         pc' = "adopt" => (handles[run.index].ok)',
         warm'.status = "ready" => ~Pending(sch', Submitted'),
         pc' \in {"stage", "reconcile", "request"} /\ Submitted' \notin offsets' =>
           Bare(sch'.state[Submitted'], sch'.pending[Submitted'], sch'.resident[Submitted'],
                pc' = "request")
  PROVE  Outer'
<1>1. SchCoupled(sch)' /\ SpeculativeOK'
  BY DEF SchCoupled, SpeculativeOK
<1>2. \A g : KeyOf(g)' = KeyOf(g)
  BY DEF KeyOf, Groups
<1>3. AnswersOK'
  <2>1. ASSUME NEW g \in DOMAIN handles' PROVE Answers(handles[g], KeyOf(g))'
    <3>1. CASE /\ handles'[g] = handles[g]
               /\ handles[g] # NoHandle => sch'.pending[KeyOf(g)] = sch.pending[KeyOf(g)]
      <4> DEFINE h == handles[g]
                 k == KeyOf(g)
      <4>1. Answers(h, k) /\ h' = h /\ k' = k
        BY <1>2, <3>1 DEF Outer, AnswersOK
      <4>2. \A u, v : Answers(u, v) /\ (u # NoHandle => sch'.pending[v] = sch.pending[v])
                        => Answers(u, v)'
        BY AnswersKept
      <4>3. h # NoHandle => sch'.pending[k] = sch.pending[k]
        BY <3>1
      <4> HIDE DEF h, k
      <4>4. Answers(h, k)'
        BY <4>1, <4>2, <4>3 DEF Answers, Pending, Destination
      <4> QED BY <4>4 DEF h, k
    <3> QED BY <3>1
  <2> QED BY <2>1 DEF AnswersOK, Pending
<1>4. BareOK'
  BY DEF BareOK
<1>5. RefusalsOK'
  BY DEF Outer, RefusalsOK, Refusals
<1> QED BY <1>1, <1>3, <1>4, <1>5 DEF Outer

\* The handles there are belong to other experts than the submitted one.
LEMMA OtherHandles ==
  ASSUME Inv, Outer, pc \in Submitting, NEW g \in DOMAIN handles, handles[g] # NoHandle
  PROVE  KeyOf(g) # Submitted /\ KeyOf(g) \in Key /\ g # run.submitting
<1>1. /\ pc # "idle" /\ g \in DOMAIN Groups /\ run.submitting \in DOMAIN Groups
      /\ g \in Int /\ run.submitting \in Int
  BY DEF Inv, RunOK, HandlesOK, Submitting, Running, Routed, Groups
<1>2. ~(g >= run.submitting)
  BY DEF Outer, OrderOK
<1>3. g # run.submitting
  BY <1>1, <1>2
<1> QED BY <1>1, <1>3, DistinctKeys, KeyOfFacts DEF Submitted, Inv

\* A request is a request.
LEMMA RequestFacts ==
  ASSUME mode \in Modes, mgr \in [Key -> Placement], NEW k \in Key
  PROVE  /\ WarmRequest \in RequestType /\ WarmRequest.prefetch = FALSE
         /\ PrefetchRequest \in RequestType /\ PrefetchRequest.prefetch = TRUE
         /\ PrefetchRequest.destination = "Ram"
         /\ Destination \in {"Ram", "Vram"}
<1>1. Nothing \in Transfer
  BY DEF Nothing, Transfer
<1> QED BY <1>1 DEF WarmRequest, PrefetchRequest, Request, RequestType, Destination

\* The warm load is requested.
LEMMA RequestWarmOuter ==
  ASSUME Inv, Outer, RequestWarm
  PROVE  Outer'
<1> DEFINE k == Submitted
           kind == ScheduleKind(sch, k, WarmRequest)
           s == ScheduleOf(sch, k, WarmRequest)
           h == HandleOf(sch, k, WarmRequest)
<1>1. pc = "requestWarm" /\ UNCHANGED <<mode, mgr, offsets>> /\ pc \in Submitting
  BY DEF RequestWarm, Submitting
<1>2. /\ k \in Key /\ SchOK(sch) /\ SchCoupled(sch)
      /\ WarmRequest \in RequestType /\ WarmRequest.prefetch = FALSE
  BY <1>1, SubmittedFacts, RequestFacts DEF Running, Inv, StoreOK, Outer
<1>3. /\ SchCoupled(s) /\ (kind = "transition" => InUse(sch, k))
      /\ Accepts(kind) /\ h.status = "ready" => ~Pending(s, k)
  BY <1>2, ScheduleCoupled
<1>4. Continues(sch, s) /\ kind \in {"pendingTarget", "join", "ready", "new", "transition"}
  BY <1>2, ScheduleContinues
<1>5. Schedules(sch, s, k, WarmRequest, kind)
  BY <1>2, ScheduleShape DEF SchOK
<1> HIDE DEF kind, s, h
<1>6. /\ \A j \in Key : j # k => s.state[j] = sch.state[j] /\ s.pending[j] = sch.pending[j]
      /\ s.prefetched = sch.prefetched \ {k} /\ sch.prefetched \subseteq Key
  BY <1>2, <1>5, SchParts DEF Schedules, SchOK
<1>7. \A j \in s.prefetched : s.state[j].current = "Ram"
  BY <1>1, <1>6 DEF Outer, SpeculativeOK
<1>8. CASE Accepts(kind)
  <2>1. /\ warm' = h /\ sch' = s /\ pc' = "warm" /\ failure' = failure
        /\ UNCHANGED <<run, handles, leased>>
    BY <1>1, <1>8 DEF RequestWarm, Goto, kind, h, s
  <2>2. OrderOK' /\ UseOK'
    BY <1>1, <2>1 DEF Outer, OrderOK, UseOK, Current, KeyOf, Groups, Submitting, Limit, Destination
  <2>3. \A g \in DOMAIN handles :
          handles[g] # NoHandle => sch'.pending[KeyOf(g)] = sch.pending[KeyOf(g)]
    BY <1>1, <1>6, <2>1, OtherHandles
  <2>4. Submitted' = k
    BY <2>1 DEF Submitted, KeyOf, Groups
  <2>5. \A j \in Key : mgr'[j].location # "Nvme" => j \in offsets'
    BY <1>1 DEF Outer, BareOK
  <2> QED BY <1>1, <1>3, <1>7, <1>8, <2>1, <2>2, <2>3, <2>4, <2>5, LayerOuter
<1>9. CASE ~Accepts(kind)
  <2>1. Throw(kind, s)
    BY <1>1, <1>9 DEF RequestWarm, kind, s
  <2>2. kind \in {"pendingTarget", "transition"}
    BY <1>4, <1>9 DEF Accepts
  <2>3. kind \in Refusals => \E j \in Key : InUse(sch, j) /\ leased.key # j
    BY <1>1, <1>3, <2>2, SubmittedFree DEF Refusals
  <2>4. \A j \in Key : mgr'[j].location # "Nvme" => j \in offsets'
    BY <1>1 DEF Outer, BareOK
  <2> QED BY <1>3, <1>4, <1>7, <2>1, <2>2, <2>3, <2>4, ThrowOuter
<1> QED BY <1>8, <1>9

\* The retained warm buffer is adopted.
LEMMA StageOuter ==
  ASSUME Inv, Outer, Stage
  PROVE  Outer'
<1> DEFINE k == Submitted
           buffer == CachedHost(sch, k)
           adopted == Adopt(k, "Ram", buffer)
<1>1. pc = "stage" /\ UNCHANGED mode /\ pc \in Submitting
  BY DEF Stage, Submitting
<1>2. /\ k \in Key /\ SchOK(sch) /\ SchCoupled(sch) /\ mode \in Modes /\ mgr \in [Key -> Placement]
      /\ IsFiniteSet(DOMAIN handles)
  BY <1>1, SubmittedFacts, HandlesFinite DEF Running, Inv, StoreOK, Outer
<1>3. CASE buffer = 0 \/ mgr[k].location # "Nvme"
  <2>1. /\ pc' = "reconcile"
        /\ UNCHANGED <<run, handles, warm, sch, leased, mode, mgr, offsets, failure>>
    BY <1>1, <1>3 DEF Stage, Goto
  <2>2. OrderOK' /\ UseOK'
    BY <1>1, <2>1 DEF Outer, OrderOK, UseOK, Current, KeyOf, Groups, Submitting, Limit, Destination
  <2>3. Submitted' = Submitted
    BY <2>1 DEF Submitted, KeyOf, Groups
  <2>4. warm'.status # "ready"
    BY <1>1, <2>1 DEF Inv, HandlesOK, NoHandle
  <2>5. Submitted \notin offsets =>
          Bare(sch.state[Submitted], sch.pending[Submitted], sch.resident[Submitted],
               pc' = "request")
    BY <1>1, <2>1 DEF Outer, BareOK
  <2> QED BY <1>1, <2>1, <2>2, <2>3, <2>4, <2>5, StayOuter
<1>4. CASE ~(buffer = 0 \/ mgr[k].location # "Nvme")
  <2>1. ~Pending(sch, k) /\ buffer \in Nat /\ ~InUse(sch, k)
    <3>1. sch.resident[k] \in Transfer
      BY <1>2, SchParts DEF SchOK
    <3>2. ~Pending(sch, k) /\ buffer \in Nat /\ sch.resident[k].host # 0
      BY <1>4, <3>1 DEF CachedHost, Pending, Transfer
    <3> QED BY <1>2, <3>2 DEF SchOK, Nothing
  <2>2. CanAcknowledge(sch, k)
    BY <1>1, <1>2, <2>1, FreeReconciles
  <2> HIDE DEF buffer
  <2>3. /\ adopted # {}
        /\ \A r \in adopted, j \in Key :
             r[j].location # "Nvme" => mgr[j].location # "Nvme" \/ j = k
    <3>1. leased.key \in Key /\ mgr[leased.key].location = "Ram" => Limit("Ram") >= 2
      BY <1>1, RoomHere DEF Outer
    <3> QED BY <1>2, <2>1, <3>1, AdoptSettled
  <2>4. /\ mgr' \in adopted /\ offsets' = offsets \cup {k} /\ sch' = Acknowledge(sch, k, "Ram")
        /\ pc' = "reconcile" /\ failure' = failure /\ UNCHANGED <<run, handles, warm, leased>>
    <3> HIDE DEF adopted
    <3> QED BY <1>1, <1>4, <2>2, <2>3 DEF Stage, Goto, buffer, adopted
  <2> HIDE DEF adopted
  <2>5. \A j \in Key : mgr'[j].location # "Nvme" => j \in offsets'
    BY <2>3, <2>4 DEF Outer, BareOK
  <2>6. /\ SchCoupled(sch') /\ sch'.pending = sch.pending /\ sch'.prefetched = sch.prefetched \ {k}
        /\ \A j \in Key : j # k => sch'.state[j] = sch.state[j]
    BY <1>2, <2>2, <2>4, AcknowledgeCoupled
  <2>7. \A j \in sch'.prefetched : sch'.state[j].current = "Ram"
    BY <1>1, <1>2, <2>6, SchParts DEF Outer, SpeculativeOK, SchOK
  <2>8. OrderOK' /\ UseOK'
    BY <1>1, <2>4 DEF Outer, OrderOK, UseOK, Current, KeyOf, Groups, Submitting, Limit, Destination
  <2>9. Submitted' = k /\ k \in offsets' /\ warm'.status # "ready"
    BY <1>1, <2>4 DEF Submitted, KeyOf, Groups, Inv, HandlesOK, NoHandle
  <2>10. offsets \subseteq offsets'
    BY <2>4
  <2> QED BY <1>1, <2>4, <2>5, <2>6, <2>7, <2>8, <2>9, <2>10, LayerOuter
<1> QED BY <1>3, <1>4

\* The lifecycle is brought in line with the manager.
LEMMA ReconcileOuter ==
  ASSUME Inv, Outer, Reconcile
  PROVE  Outer'
<1> DEFINE k == Submitted
           idle == sch.pending[k].phase = "none" /\ sch.resident[k] = Nothing
           x == ReconcileOf(sch.state[k], mgr[k].location)
<1>1. pc = "reconcile" /\ UNCHANGED <<mode, mgr, offsets>> /\ pc \in Submitting
  BY DEF Reconcile, Submitting
<1>2. /\ k \in Key /\ SchOK(sch) /\ SchCoupled(sch) /\ mgr \in [Key -> Placement]
      /\ sch.state[k] \in ExpertRecord
  BY <1>1, SubmittedFacts, SchParts DEF Running, Inv, StoreOK, Outer, SchOK
<1>3. CASE idle /\ ~CanReconcile(sch.state[k])
  <2>1. Throw("reconcile", sch)
    BY <1>1, <1>3 DEF Reconcile
  <2>2. InUse(sch, k)
    BY <1>2, <1>3, FreeReconciles DEF Pending
  <2>3. \E j \in Key : InUse(sch, j) /\ leased.key # j
    BY <1>1, <2>2, SubmittedFree
  <2> QED BY <1>1, <2>1, <2>3, PlainThrow
<1>0. SUFFICES ASSUME ~(idle /\ ~CanReconcile(sch.state[k])) PROVE Outer'
  BY <1>3
<1>4. /\ sch' = IF idle THEN [sch EXCEPT !.state[k] = x] ELSE sch
      /\ pc' = "request" /\ failure' = failure /\ UNCHANGED <<run, handles, warm, leased>>
  BY <1>0, <1>1, Zenon DEF Reconcile, Goto
<1>5. OrderOK' /\ UseOK'
  BY <1>1, <1>4 DEF Outer, OrderOK, UseOK, Current, KeyOf, Groups, Submitting, Limit, Destination
<1>6. Submitted' = k /\ warm'.status # "ready"
  BY <1>1, <1>4 DEF Submitted, KeyOf, Groups, Inv, HandlesOK, NoHandle
<1>7. \A j \in Key : mgr'[j].location # "Nvme" => j \in offsets'
  BY <1>1 DEF Outer, BareOK
<1>8. k \notin offsets => /\ mgr[k].location = "Nvme"
                          /\ Bare(sch.state[k], sch.pending[k], sch.resident[k], FALSE)
  BY <1>1, <1>2 DEF Outer, BareOK
<1>9. CASE idle
  <2>1. sch' = [sch EXCEPT !.state[k] = x]
    BY <1>4, <1>9
  <2>2. sch = [state |-> sch.state, pending |-> sch.pending, resident |-> sch.resident,
               prefetched |-> sch.prefetched] /\ sch.state \in [Key -> ExpertRecord]
        /\ sch.prefetched \subseteq Key
    BY <1>2 DEF SchOK, SchType
  <2>3. Coupled(x, sch.pending[k], Nothing) /\ x.state = "Ready" /\ x.current = mgr[k].location
    <3>1. mgr[k].location \in {"Nvme", "Ram", "Vram"}
      BY <1>2 DEF Placement
    <3>2. Coupled(x, sch.pending[k], Nothing)
      BY <1>2, <1>9, <3>1, CoupledReconcile DEF SchCoupled
    <3> QED BY <1>2, <3>2 DEF ReconcileOf, ExpertRecord
  <2> HIDE DEF x
  <2>4. /\ sch'.pending = sch.pending /\ sch'.resident = sch.resident
        /\ sch'.prefetched = sch.prefetched
        /\ \A j \in Key : sch'.state[j] = IF j = k THEN x ELSE sch.state[j]
    BY <2>1, <2>2
  <2>5. SchCoupled(sch')
    <3> SUFFICES ASSUME NEW j \in Key
                 PROVE  /\ Coupled(sch'.state[j], sch'.pending[j], sch'.resident[j])
                        /\ j \in sch'.prefetched => Speculative(sch'.state[j], sch'.pending[j])
      BY DEF SchCoupled
    <3>1. CASE j = k
      BY <1>9, <2>3, <2>4, <3>1 DEF Speculative
    <3>2. CASE j # k
      BY <1>2, <2>4, <3>2 DEF SchCoupled
    <3> QED BY <3>1, <3>2
  <2>6. \A j \in sch'.prefetched : sch'.state[j].current = "Ram" \/ j = Submitted'
    BY <1>1, <1>6, <2>2, <2>4 DEF Outer, SpeculativeOK
  <2>7. k \notin offsets => Bare(sch'.state[k], sch'.pending[k], sch'.resident[k], pc' = "request")
    BY <1>2, <1>8, <1>9, <2>3, <2>4 DEF Bare
  <2> QED BY <1>1, <1>4, <1>5, <1>6, <1>7, <2>4, <2>5, <2>6, <2>7, LayerOuter
<1>10. CASE ~idle
  <2>1. sch' = sch
    BY <1>4, <1>10
  <2>2. ~InUse(sch, k)
    BY <1>2, <1>10 DEF SchOK, Pending
  <2>3. k \notin offsets => Bare(sch.state[k], sch.pending[k], sch.resident[k], pc' = "request")
    BY <1>8, <1>10, <2>2 DEF Bare, InUse
  <2> HIDE DEF idle
  <2> QED BY <1>1, <1>4, <1>5, <1>6, <2>1, <2>3, StayOuter
<1> QED BY <1>9, <1>10

\* Room is made and the load requested.
LEMMA RequestExpertOuter ==
  ASSUME Inv, Outer, RequestExpert
  PROVE  Outer'
<1> DEFINE k == Submitted
           at == mgr[k]
           source == [host |-> IF at.location = "Ram" THEN at.buffer ELSE 0,
                      device |-> IF at.location = "Vram" THEN at.buffer ELSE 0]
           request == Request(Destination, at.location, source, FALSE)
           kind == ScheduleKind(sch, k, request)
           s == ScheduleOf(sch, k, request)
           h == HandleOf(sch, k, request)
           rooms == PrepareResidency(k)
<1>1. pc = "request" /\ UNCHANGED <<mode, offsets>> /\ pc \in Submitting
  BY DEF RequestExpert, Submitting
<1>2. /\ k \in Key /\ SchOK(sch) /\ SchCoupled(sch) /\ mode \in Modes /\ mgr \in [Key -> Placement]
      /\ IsFiniteSet(DOMAIN handles)
  BY <1>1, SubmittedFacts, HandlesFinite DEF Running, Inv, StoreOK, Outer
<1>3. /\ request \in RequestType /\ request.prefetch = FALSE /\ request.destination = Destination
      /\ Destination \in {"Ram", "Vram"}
  <2>1. at \in Placement
    BY <1>2
  <2>2. source \in Transfer /\ at.location \in {"Nvme", "Ram", "Vram"}
    BY <2>1 DEF Transfer, Placement
  <2>3. Destination \in {"Ram", "Vram"}
    BY DEF Destination
  <2> HIDE DEF source, at
  <2> QED BY <2>2, <2>3 DEF Request, RequestType
<1>4. /\ rooms # {}
      /\ \A r \in rooms, j \in Key : r[j].location # "Nvme" => mgr[j].location # "Nvme"
  <2>1. CASE mgr[k].location = Destination
    <3>1. rooms = {mgr}
      BY <2>1 DEF PrepareResidency
    <3> HIDE DEF rooms
    <3> QED BY <3>1
  <2>2. CASE mgr[k].location # Destination
    <3>1. rooms = MakeRoom(mgr, Destination, k)
      BY <2>2 DEF PrepareResidency
    <3>2. leased.key \in Key /\ mgr[leased.key].location = Destination => Limit(Destination) >= 2
      BY <1>1, RoomHere DEF Outer
    <3>3. rooms # {}
      BY <1>2, <1>3, <2>2, <3>1, <3>2, RoomExists
    <3>4. \A r \in rooms : Settled(mgr, r)
      BY <1>2, <1>3, <3>1, MakeRoomSettled
    <3> HIDE DEF rooms
    <3> QED BY <3>3, <3>4 DEF Settled
  <2> QED BY <2>1, <2>2
<1> HIDE DEF request, rooms
<1>5. /\ SchCoupled(s) /\ (kind = "transition" => InUse(sch, k))
      /\ Accepts(kind) /\ h.status = "waiting" => s.pending[k].destination = Destination
      /\ Accepts(kind) /\ h.status = "ready" =>
           /\ ~Pending(s, k) /\ ~Pending(sch, k) /\ h.transfer = sch.resident[k]
           /\ sch.state[k].current = Destination /\ sch.state[k].state \in {"Ready", "InUse"}
  BY <1>2, <1>3, ScheduleCoupled
<1>6. Continues(sch, s) /\ kind \in {"pendingTarget", "join", "ready", "new", "transition"}
  BY <1>2, <1>3, ScheduleContinues
<1>7. Schedules(sch, s, k, request, kind)
  BY <1>2, <1>3, ScheduleShape DEF SchOK
<1> HIDE DEF kind, s, h
<1>8. /\ \A j \in Key : j # k => s.state[j] = sch.state[j] /\ s.pending[j] = sch.pending[j]
      /\ s.prefetched = sch.prefetched \ {k} /\ sch.prefetched \subseteq Key
  BY <1>2, <1>3, <1>7, SchParts DEF Schedules, SchOK
<1>9. \A j \in s.prefetched : s.state[j].current = "Ram"
  BY <1>1, <1>8 DEF Outer, SpeculativeOK
<1>10. /\ mgr' \in rooms
       /\ IF Accepts(kind)
            THEN /\ handles' = [handles EXCEPT ![run.submitting] = h]
                 /\ sch' = s /\ pc' = run.resume /\ failure' = failure
                 /\ UNCHANGED <<run, warm, leased>>
            ELSE Throw(kind, s)
  BY <1>1, <1>4, Zenon DEF RequestExpert, Goto, rooms, request, kind, s, h
<1>11. \A j \in Key : mgr'[j].location # "Nvme" => j \in offsets'
  BY <1>1, <1>4, <1>10 DEF Outer, BareOK
<1>12. k \notin offsets => ~InUse(sch, k)
  BY <1>1 DEF Outer, BareOK, Bare, InUse
<1>13. CASE Accepts(kind)
  <2>1. /\ handles' = [handles EXCEPT ![run.submitting] = h]
        /\ sch' = s /\ pc' = run.resume /\ failure' = failure
        /\ UNCHANGED <<run, warm, leased>>
    BY <1>10, <1>13
  <2>2. /\ run.resume \in {"await", "execute"} /\ run.submitting \in DOMAIN handles
        /\ DOMAIN handles = 1 .. Len(Groups) /\ Len(Groups) \in Nat /\ run.index \in Int
        /\ run.submitting = (IF run.resume = "execute" THEN run.index + 1 ELSE run.index)
        /\ \A g \in DOMAIN handles : g >= run.submitting => handles[g] = NoHandle
        /\ warm.status # "ready"
    BY <1>1 DEF Inv, RunOK, HandlesOK, Routed, Groups, Running, Submitting, Outer, OrderOK, NoHandle
  <2>3. DOMAIN handles' = DOMAIN handles
        /\ \A g \in DOMAIN handles : handles'[g] = IF g = run.submitting THEN h ELSE handles[g]
    BY <2>1, <2>2
  <2>4. OrderOK'
    <3>1. \A g \in DOMAIN handles : g > run.submitting => handles'[g] = NoHandle
      BY <2>2, <2>3
    <3> QED BY <2>1, <2>2, <2>3, <3>1 DEF OrderOK, Submitting
  <2>5. UseOK'
    BY <1>1, <2>1, <2>2 DEF Outer, UseOK, Current, KeyOf, Groups, Submitting
  <2>6. KeyOf(run.submitting)' = k /\ Submitted' = k /\ Destination' = Destination
    BY <1>1, <2>1 DEF Submitted, KeyOf, Groups, Destination
  <2>7. h.status = "ready" /\ h.ok => HasBuffer(h.transfer, Destination) \/ k \in offsets
    <3> SUFFICES ASSUME h.status = "ready", k \notin offsets PROVE HasBuffer(h.transfer, Destination)
      OBVIOUS
    <3> DEFINE x == sch.state[k]
               r == sch.resident[k]
               t == sch.pending[k]
    <3>1. t.phase = "none" /\ h.transfer = r /\ x.current = Destination /\ x.state = "Ready"
      BY <1>5, <1>12, <1>13 DEF Pending, InUse
    <3>2. Bare(x, t, r, TRUE) /\ Coupled(x, t, r)
      BY <1>1, <1>2 DEF Outer, BareOK, SchCoupled
    <3> HIDE DEF x, r, t
    <3>3. r # Nothing
      BY <1>3, <3>1, <3>2 DEF Bare
    <3> QED BY <3>1, <3>2, <3>3 DEF Coupled
  <2>8. Answers(handles[run.submitting], KeyOf(run.submitting))'
    <3>1. handles'[run.submitting] = h /\ run'.submitting = run.submitting
      BY <2>1, <2>2, <2>3
    <3>2. h.status = "waiting" => sch'.pending[k].destination = Destination
      BY <1>5, <1>13, <2>1
    <3>3. h.status = "ready" => ~Pending(sch', k)
      BY <1>5, <1>13, <2>1
    <3> QED BY <1>1, <2>6, <2>7, <3>1, <3>2, <3>3 DEF Answers, Pending
  <2>9. \A g \in DOMAIN handles :
          \/ Answers(handles[g], KeyOf(g))'
          \/ /\ handles'[g] = handles[g]
             /\ handles[g] # NoHandle => sch'.pending[KeyOf(g)] = sch.pending[KeyOf(g)]
    <3> SUFFICES ASSUME NEW g \in DOMAIN handles
                 PROVE  \/ Answers(handles[g], KeyOf(g))'
                        \/ /\ handles'[g] = handles[g]
                           /\ handles[g] # NoHandle =>
                                sch'.pending[KeyOf(g)] = sch.pending[KeyOf(g)]
      OBVIOUS
    <3>1. CASE g = run.submitting
      <4>1. run'.submitting = run.submitting
        BY <2>1
      <4> QED BY <2>8, <3>1, <4>1
    <3>2. CASE g # run.submitting
      BY <1>1, <1>8, <2>1, <2>3, <3>2, OtherHandles
    <3> QED BY <3>1, <3>2
  <2> QED BY <1>1, <1>5, <1>9, <1>11, <2>1, <2>2, <2>3, <2>4, <2>5, <2>9, LayerOuter
<1>14. CASE ~Accepts(kind)
  <2>1. Throw(kind, s)
    BY <1>10, <1>14
  <2>2. kind \in {"pendingTarget", "transition"}
    BY <1>6, <1>14 DEF Accepts
  <2>3. kind \in Refusals => \E j \in Key : InUse(sch, j) /\ leased.key # j
    BY <1>1, <1>5, <2>2, SubmittedFree DEF Refusals
  <2> QED BY <1>5, <1>6, <1>9, <1>11, <2>1, <2>2, <2>3, ThrowOuter
<1> QED BY <1>13, <1>14

\* The transferred buffer is adopted.
LEMMA AdoptExpertOuter ==
  ASSUME Inv, Outer, AdoptExpert
  PROVE  Outer'
<1> DEFINE k == Current
           i == run.index
           h == handles[i]
           t == h.transfer
           buffer == IF mode.device THEN t.device ELSE t.host
           adopted == IF buffer = 0 THEN {mgr} ELSE Adopt(k, Destination, buffer)
           known == IF buffer = 0 THEN offsets ELSE offsets \cup {k}
           s == Acknowledge(sch, k, Destination)
<1>1. pc = "adopt" /\ UNCHANGED mode
  BY DEF AdoptExpert
<1>2. /\ k \in Key /\ SchOK(sch) /\ SchCoupled(sch) /\ mode \in Modes /\ mgr \in [Key -> Placement]
      /\ IsFiniteSet(DOMAIN handles) /\ i \in DOMAIN handles /\ i \in DOMAIN Groups
      /\ Destination \in {"Ram", "Vram"}
  BY <1>1, SubmittedFacts, HandlesFinite
     DEF Running, Inv, StoreOK, Outer, HandlesOK, RunOK, Destination
<1>3. h.status = "ready" /\ h.ok /\ h \in Handle /\ Answers(h, k)
  BY <1>1, <1>2 DEF Inv, HandlesOK, Outer, AnswersOK, Current
<1>4. t \in Transfer /\ buffer \in Nat
  <2>1. h \in Ready
    BY <1>3 DEF Handle, NoHandle, Waiting
  <2> HIDE DEF h
  <2> QED BY <2>1 DEF Ready, Transfer
<1>5. leased = NoLease
  BY <1>1 DEF Inv, LeaseOK, HoldsLease, Submitting
<1>6. CanAcknowledge(sch, k) \/ InUse(sch, k)
  <2>1. ~Pending(sch, k)
    BY <1>2, <1>3 DEF Answers
  <2> QED BY <1>2, <2>1, FreeReconciles
<1>7. k \in known
  <2> HIDE DEF h, k
  <2> QED BY <1>3 DEF Answers, HasBuffer, Destination
<1>8. /\ adopted # {}
      /\ \A r \in adopted, j \in Key :
           r[j].location # "Nvme" => mgr[j].location # "Nvme" \/ (j = k /\ buffer # 0)
  <2> HIDE DEF buffer, k
  <2>1. CASE buffer = 0
    <3>1. adopted = {mgr}
      BY <2>1
    <3> HIDE DEF adopted
    <3> QED BY <3>1
  <2>2. CASE buffer # 0
    <3>1. adopted = Adopt(k, Destination, buffer)
      BY <2>2
    <3>2. leased.key \in Key /\ mgr[leased.key].location = Destination => Limit(Destination) >= 2
      BY <1>1, RoomHere DEF Outer
    <3> HIDE DEF adopted
    <3> QED BY <1>2, <1>4, <2>2, <3>1, <3>2, AdoptSettled
  <2> QED BY <2>1, <2>2
<1>9. CASE buffer # 0 /\ Conflicts(k, Destination, buffer)
  <2>1. Throw("differentBuffer", sch) /\ UNCHANGED <<mgr, offsets>>
    BY <1>1, <1>9 DEF AdoptExpert
  <2> QED BY <1>1, <2>1, PlainThrow DEF Refusals
<1>a. CASE ~(buffer # 0 /\ Conflicts(k, Destination, buffer)) /\ ~CanAcknowledge(sch, k)
  <2>1. mgr' \in adopted /\ offsets' = known /\ Throw("reconcile", sch)
    BY <1>1, <1>8, <1>a, Zenon DEF AdoptExpert
  <2> HIDE DEF adopted, buffer
  <2>2. \A j \in Key : mgr'[j].location # "Nvme" => j \in offsets'
    BY <1>8, <2>1 DEF Outer, BareOK
  <2>3. \E j \in Key : InUse(sch, j) /\ leased.key # j
    BY <1>2, <1>5, <1>6, <1>a, KeyFinite DEF NoLease
  <2>4. SchCoupled(sch) /\ \A j \in sch.prefetched : sch.state[j].current = "Ram"
    BY <1>1 DEF Outer, SpeculativeOK
  <2> QED BY <2>1, <2>2, <2>3, <2>4, SchStays, ThrowOuter
<1>10. CASE ~(buffer # 0 /\ Conflicts(k, Destination, buffer)) /\ CanAcknowledge(sch, k)
  <2>1. /\ mgr' \in adopted /\ offsets' = known /\ sch' = s
        /\ handles' = [handles EXCEPT ![i] = NoHandle]
        /\ pc' = "acquire" /\ failure' = failure /\ UNCHANGED <<run, warm, leased>>
    BY <1>1, <1>7, <1>8, <1>10, Zenon DEF AdoptExpert, Goto
  <2> HIDE DEF adopted, buffer
  <2>2. offsets \subseteq offsets' /\ (buffer # 0 => k \in offsets')
    BY <2>1
  <2>3. \A j \in Key : mgr'[j].location # "Nvme" => j \in offsets'
    BY <1>8, <2>1, <2>2 DEF Outer, BareOK
  <2>4. /\ SchCoupled(s) /\ s.pending = sch.pending /\ s.prefetched = sch.prefetched \ {k}
        /\ \A j \in Key : j # k => s.state[j] = sch.state[j]
        /\ s.state[k].state = "Ready"
    BY <1>2, <1>10, AcknowledgeCoupled
  <2> HIDE DEF s
  <2>5. \A j \in sch'.prefetched : sch'.state[j].current = "Ram"
    BY <1>1, <1>2, <2>1, <2>4, SchParts DEF Outer, SpeculativeOK, SchOK
  <2>6. /\ DOMAIN handles' = DOMAIN handles
        /\ \A g \in DOMAIN handles : handles'[g] = IF g = i THEN NoHandle ELSE handles[g]
    BY <1>2, <2>1
  <2>7. OrderOK'
    BY <1>1, <2>1, <2>6 DEF Outer, OrderOK, Submitting
  <2>8. Current' = k
    BY <2>1 DEF Current, KeyOf, Groups
  <2>9. UseOK'
    BY <1>1, <1>5, <2>1, <2>4, <2>8 DEF UseOK, Submitting
  <2>10. \A g \in DOMAIN handles :
           \/ Answers(handles[g], KeyOf(g))'
           \/ /\ handles'[g] = handles[g]
              /\ handles[g] # NoHandle => sch'.pending[KeyOf(g)] = sch.pending[KeyOf(g)]
    <3> SUFFICES ASSUME NEW g \in DOMAIN handles, g = i
                 PROVE  Answers(handles[g], KeyOf(g))'
      BY <2>1, <2>4, <2>6
    <3>1. handles'[g] = NoHandle
      BY <2>6
    <3> QED BY <3>1 DEF Answers, NoHandle
  <2>11. warm'.status # "ready"
    BY <1>1, <2>1 DEF Inv, HandlesOK, NoHandle
  <2> QED BY <1>1, <2>1, <2>2, <2>3, <2>4, <2>5, <2>6, <2>7, <2>9, <2>10, <2>11, LayerOuter
<1> QED BY <1>9, <1>a, <1>10

\* The expert that was adopted can be acquired, and the lease found.
LEMMA AcquireExpertOuter ==
  ASSUME Inv, Outer, AcquireExpert
  PROVE  Outer'
<1> DEFINE k == Current
           x == AcquireOf(sch.state[k])
           s == [sch EXCEPT !.state[k] = AcquireOf(@)]
<1>1. pc = "acquire" /\ UNCHANGED <<mode, offsets>>
  BY DEF AcquireExpert
<1>2. /\ k \in Key /\ SchOK(sch) /\ SchCoupled(sch) /\ mode \in Modes /\ mgr \in [Key -> Placement]
      /\ IsFiniteSet(DOMAIN handles) /\ Destination \in {"Ram", "Vram"}
      /\ sch.state[k] \in ExpertRecord
  BY <1>1, SubmittedFacts, HandlesFinite, SchParts
     DEF Running, Inv, StoreOK, Outer, Destination, SchOK
<1>3. /\ k \in offsets /\ ~Pending(sch, k) /\ sch.resident[k] = Nothing /\ leased = NoLease
      /\ sch.state[k].state = "Ready" /\ warm = NoHandle
  BY <1>1 DEF Inv, LeaseOK, HoldsLease, Submitting, Outer, UseOK, HandlesOK
<1>4. CanAcquire(sch.state[k])
  BY <1>3 DEF CanAcquire, IsRegistered
<1>5. /\ Leasable(k) # {}
      /\ \A r \in Leasable(k), j \in Key :
           r[j].location # "Nvme" => mgr[j].location # "Nvme" \/ j = k
  <2>1. CASE mgr[k].location = Destination
    <3>1. Leasable(k) = {mgr}
      BY <2>1 DEF Leasable
    <3> QED BY <3>1
  <2>2. CASE mgr[k].location # Destination
    <3>1. Leasable(k) = Adopt(k, Destination, Fresh(k)) /\ Fresh(k) \in Nat
      BY <1>2, <2>2, FreshFacts DEF Leasable
    <3>2. leased.key \in Key /\ mgr[leased.key].location = Destination => Limit(Destination) >= 2
      BY <1>1, RoomHere DEF Outer
    <3> HIDE DEF k
    <3> QED BY <1>2, <3>1, <3>2, AdoptSettled
  <2> QED BY <2>1, <2>2
<1>6. /\ mgr' \in Leasable(k) /\ sch' = s
      /\ leased' = [key |-> k, buffer |-> mgr'[k].buffer]
      /\ pc' = "overlap" /\ failure' = failure /\ UNCHANGED <<run, handles, warm>>
  BY <1>4, <1>5, Zenon DEF AcquireExpert, Goto
<1>7. sch' = [sch EXCEPT !.state[k] = x]
  BY <1>6
<1>8. Coupled(x, sch.pending[k], Nothing) /\ x.state = "InUse" /\ x.current = sch.state[k].current
  <2>1. Coupled(x, sch.pending[k], Nothing)
    BY <1>2, <1>3, CoupledUse DEF SchCoupled, Pending
  <2> QED BY <1>2, <2>1 DEF AcquireOf, ExpertRecord
<1>9. sch = [state |-> sch.state, pending |-> sch.pending, resident |-> sch.resident,
             prefetched |-> sch.prefetched] /\ sch.state \in [Key -> ExpertRecord]
      /\ sch.prefetched \subseteq Key
  BY <1>2 DEF SchOK, SchType
<1> HIDE DEF x
<1>10. /\ sch'.pending = sch.pending /\ sch'.resident = sch.resident
       /\ sch'.prefetched = sch.prefetched
       /\ \A j \in Key : sch'.state[j] = IF j = k THEN x ELSE sch.state[j]
  BY <1>7, <1>9
<1> HIDE DEF s
<1>11. SchCoupled(sch')
  <2> SUFFICES ASSUME NEW j \in Key
               PROVE  /\ Coupled(sch'.state[j], sch'.pending[j], sch'.resident[j])
                      /\ j \in sch'.prefetched => Speculative(sch'.state[j], sch'.pending[j])
    BY DEF SchCoupled
  <2>1. CASE j = k
    BY <1>3, <1>8, <1>10, <2>1 DEF Speculative, Pending
  <2>2. CASE j # k
    BY <1>2, <1>10, <2>2 DEF SchCoupled
  <2> QED BY <2>1, <2>2
<1>12. \A j \in sch'.prefetched : sch'.state[j].current = "Ram"
  BY <1>1, <1>8, <1>9, <1>10 DEF Outer, SpeculativeOK
<1>13. \A j \in Key : mgr'[j].location # "Nvme" => j \in offsets'
  BY <1>1, <1>3, <1>5, <1>6 DEF Outer, BareOK
<1>14. OrderOK'
  BY <1>1, <1>6 DEF Outer, OrderOK, Submitting
<1>15. UseOK'
  <2>1. Current' = k /\ leased'.key = k
    BY <1>6 DEF Current, KeyOf, Groups
  <2> QED BY <1>6, <2>1 DEF UseOK, Submitting
<1>16. warm'.status # "ready"
  BY <1>3, <1>6 DEF NoHandle
<1> QED BY <1>1, <1>6, <1>10, <1>11, <1>12, <1>13, <1>14, <1>15, <1>16, LayerOuter

\* The expert is executed and released.
LEMMA ExecuteExpertOuter ==
  ASSUME Inv, Outer, ExecuteExpert
  PROVE  Outer'
<1>1. /\ pc = "execute" /\ sch' = Released(sch) /\ leased' = NoLease
      /\ run' = [run EXCEPT !.index = run.index + 1] /\ pc' \in {"return", "await"}
      /\ UNCHANGED <<mode, handles, warm, mgr, offsets, failure>>
  BY DEF ExecuteExpert, Goto
<1>2. /\ run'.index = run.index + 1 /\ run'.decision = run.decision /\ run'.layer = run.layer
  BY <1>1 DEF Inv, RunOK
<1>3. SchOK(sch) /\ SchCoupled(sch)
      /\ (leased # NoLease => leased.key \in Key /\ InUse(sch, leased.key))
  BY LeaseFacts DEF Inv, LeaseOK, Outer
<1>4. /\ SchCoupled(sch') /\ sch'.prefetched = sch.prefetched /\ sch'.pending = sch.pending
      /\ \A k \in Key : sch'.state[k].current = sch.state[k].current
  BY <1>1, <1>3, ReleasedCoupled
<1>5. \A k \in sch'.prefetched : sch'.state[k].current = "Ram"
  BY <1>1, <1>3, <1>4, SchParts DEF SchOK, Outer, SpeculativeOK
<1>6. OrderOK'
  BY <1>1, <1>2 DEF Outer, OrderOK, Submitting
<1>7. UseOK'
  BY <1>1 DEF UseOK, Submitting
<1>8. \A j \in Key : mgr'[j].location # "Nvme" => j \in offsets'
  BY <1>1 DEF Outer, BareOK
<1>9. warm'.status # "ready"
  BY <1>1 DEF Inv, HandlesOK, NoHandle
<1> QED BY <1>1, <1>2, <1>4, <1>5, <1>6, <1>7, <1>8, <1>9, LayerOuter

\* executeBatch returns.
LEMMA ReturnLayerOuter ==
  ASSUME Inv, Outer, ReturnLayer
  PROVE  Outer'
<1>1. /\ pc = "return" /\ pc' = "idle" /\ handles' = <<>>
      /\ UNCHANGED <<failure, faults, mode, warm, sch, mgr, leased, offsets>>
  BY DEF ReturnLayer, Goto
<1>2. leased' = NoLease /\ warm' = NoHandle
  BY <1>1 DEF Inv, LeaseOK, HoldsLease, Submitting, HandlesOK
<1>3. SchCoupled(sch') /\ RefusalsOK'
  BY <1>1 DEF Outer, RefusalsOK, Refusals
<1>4. \A k \in sch'.prefetched : sch'.state[k].current = "Ram"
  BY <1>1 DEF Outer, SpeculativeOK
<1>5. \A k \in Key : mgr'[k].location # "Nvme" => k \in offsets'
  BY <1>1 DEF Outer, BareOK
<1> QED BY <1>1, <1>2, <1>3, <1>4, <1>5, RestOuter

\* The task of k in t is the one in s, or for a load into RAM.
Warmer(s, t, k) ==
  \/ t.pending[k].destination = "Ram"
  \/ /\ Pending(s, k) /\ t.pending[k].destination = s.pending[k].destination
     /\ t.pending[k].prefetch = s.pending[k].prefetch

\* Offering the predictions keeps the coupling, and what it finds ready is in RAM.
LEMMA OfferCoupled ==
  ASSUME NEW s, SchOK(s), SchCoupled(s), \A k \in s.prefetched : s.state[k].current = "Ram",
         NEW judged, NEW predictions, Predictions(predictions)
  PROVE  LET offered == Offer(s, judged, predictions)
             t == offered.s
         IN  /\ SchCoupled(t) /\ \A k \in t.prefetched : t.state[k].current = "Ram"
             /\ ~offered.ok /\ offered.kind = "transition" => \E k \in Key : InUse(t, k)
             /\ ~offered.ok /\ offered.kind = "pendingTarget" =>
                  \E k \in Key : Pending(t, k) /\ t.pending[k].destination # "Ram"
             /\ \A k \in Key : Pending(t, k) => Warmer(s, t, k)
<1> DEFINE m == Len(predictions)
           g == CHOOSE f : Offers(f, s, judged, predictions, m)
<1>0. m \in Nat
  BY DEF Predictions
<1>1. Offer(s, judged, predictions) = g[m]
  BY Zenon DEF Offer, Offers, OfferStep, Unoffered
<1>2. Offers(g, s, judged, predictions, m)
  BY <1>0, OffersExist
<1> HIDE DEF g, m
<1>3. \A n \in 0 .. m : g[n] = IF n = 0 THEN Unoffered(s, judged)
                              ELSE OfferStep(g[n - 1], predictions[n])
  BY <1>2 DEF Offers
<1> DEFINE Warm(t) == SchOK(t) /\ SchCoupled(t) /\ \A k \in t.prefetched : t.state[k].current = "Ram"
           Good(x) ==
             /\ x = [s |-> x.s, predictor |-> x.predictor, kind |-> x.kind, ok |-> x.ok]
             /\ Warm(x.s)
             /\ ~x.ok /\ x.kind = "transition" => \E k \in Key : InUse(x.s, k)
             /\ ~x.ok /\ x.kind = "pendingTarget" =>
                  \E k \in Key : Pending(x.s, k) /\ x.s.pending[k].destination # "Ram"
             /\ \A k \in Key : Pending(x.s, k) => Warmer(s, x.s, k)
           P == {n \in Nat : n <= m => Good(g[n])}
<1>4. 0 \in P
  <2>1. g[0] = Unoffered(s, judged)
    <3>1. 0 \in 0 .. m
      BY <1>0
    <3> QED BY <1>3, <3>1, Zenon
  <2>2. Warm(s)
    OBVIOUS
  <2> HIDE DEF Warm
  <2>3. Good(g[0])
    BY <2>1, <2>2 DEF Unoffered, Warmer
  <2> HIDE DEF Good
  <2> QED BY <2>3
<1>5. ASSUME NEW n \in Nat, n \in P PROVE n + 1 \in P
  <2> DEFINE before == g[n]
             p == predictions[n + 1]
             k == <<p.layer, p.expert>>
             after == g[n + 1]
  <2> SUFFICES ASSUME n + 1 <= m PROVE Good(after)
    <3> HIDE DEF Good
    <3> QED OBVIOUS
  <2>1. Good(before)
    <3> HIDE DEF Good
    <3> QED BY <1>0, <1>5
  <2>2. k \in Key
    BY <1>0 DEF Predictions, m
  <2>3. after = OfferStep(before, p)
    BY <1>0, <1>3
  <2> HIDE DEF before, p, k, after
  <2>4. CASE after = before
    BY <2>1, <2>4
  <2>5. CASE after = [before EXCEPT !.predictor = Suppress(@)]
    <3> HIDE DEF Warm
    <3> QED BY <2>1, <2>5
  <2> DEFINE kind == ScheduleKind(before.s, k, PrefetchRequest)
  <2>6. CASE after = [before EXCEPT !.s = ScheduleOf(@, k, PrefetchRequest),
                                    !.kind = kind, !.ok = Accepts(kind)]
    <3> DEFINE u == before.s
               t == ScheduleOf(u, k, PrefetchRequest)
    <3>1. /\ after.s = t /\ after.kind = kind
          /\ after = [s |-> after.s, predictor |-> after.predictor, kind |-> after.kind,
                      ok |-> after.ok]
      <4> HIDE DEF Warm
      <4> QED BY <2>1, <2>6
    <3>2. PrefetchRequest \in RequestType /\ PrefetchRequest.prefetch = TRUE
          /\ PrefetchRequest.destination = "Ram"
      BY DEF PrefetchRequest, Request, RequestType, Nothing, Transfer
    <3>3. SchOK(u) /\ SchCoupled(u) /\ \A j \in u.prefetched : u.state[j].current = "Ram"
      BY <2>1
    <3>a. kind = ScheduleKind(u, k, PrefetchRequest)
      OBVIOUS
    <3> HIDE DEF u, kind
    <3>4. Continues(u, t) /\ SchOK(t) /\ Schedules(u, t, k, PrefetchRequest, ScheduleKind(u, k, PrefetchRequest))
      BY <2>2, <3>2, <3>3, ScheduleContinues, ScheduleShape DEF Continues, SchOK
    <3>5. /\ SchCoupled(t) /\ (k \in t.prefetched => t.state[k].current = "Ram")
          /\ kind = "transition" => InUse(u, k)
      BY <2>2, <3>2, <3>3, <3>a, ScheduleCoupled
    <3> HIDE DEF t
    <3>6. \A j \in t.prefetched : t.state[j].current = "Ram"
      <4> SUFFICES ASSUME NEW j \in t.prefetched, j # k PROVE t.state[j].current = "Ram"
        BY <3>5
      <4>1. j \in Key /\ j \in u.prefetched
        BY <3>2, <3>4, SchParts DEF Schedules, SchOK
      <4> QED BY <3>3, <3>4, <4>1 DEF Schedules
    <3>7. after.kind = "transition" => \E j \in Key : InUse(after.s, j)
      BY <2>2, <3>1, <3>4, <3>5 DEF Continues
    <3>8. /\ kind = "pendingTarget" => Pending(u, k) /\ u.pending[k].destination # "Ram"
          /\ kind = "join" => Pending(u, k)
      BY <3>2, <3>a DEF ScheduleKind, Pending
    <3>9. kind = "pendingTarget" => \E j \in Key : Pending(t, j) /\ t.pending[j].destination # "Ram"
      <4> SUFFICES ASSUME kind = "pendingTarget"
                   PROVE  Pending(t, k) /\ t.pending[k].destination # "Ram"
        BY <2>2
      <4>1. t.pending[k] = u.pending[k]
        BY <3>4, <3>a DEF Schedules
      <4> QED BY <3>8, <4>1 DEF Pending
    <3>10. ASSUME NEW j \in Key, Pending(t, j) PROVE Warmer(s, t, j)
      <4>1. Pending(u, j) => Warmer(s, u, j)
        <5> HIDE DEF Warm
        <5> QED BY <2>1 DEF u
      <4>2. CASE t.pending[j] = u.pending[j]
        BY <3>10, <4>1, <4>2 DEF Warmer, Pending
      <4>3. CASE j = k /\ kind = "join"
        <5>1. t.pending[k] = Joined(u.pending[k], PrefetchRequest) /\ Pending(u, k)
          BY <3>4, <3>8, <3>a, <4>3 DEF Schedules
        <5>2. u.pending[k] \in Task
          BY <2>2, <3>3, <5>1, SchParts DEF SchOK
        <5>3. t.pending[k].destination = u.pending[k].destination
              /\ t.pending[k].prefetch = u.pending[k].prefetch
          BY <5>1, <5>2 DEF Joined, Task
        <5> QED BY <4>1, <4>3, <5>1, <5>3 DEF Warmer
      <4>4. CASE j = k /\ kind = "new"
        <5>1. t.pending[k] = FreshTask(PrefetchRequest)
          BY <3>4, <3>a, <4>4 DEF Schedules
        <5> QED BY <3>2, <4>4, <5>1 DEF Warmer, FreshTask
      <4>5. j # k \/ kind \notin {"join", "new"} => t.pending[j] = u.pending[j]
        BY <3>4, <3>a DEF Schedules
      <4> QED BY <4>2, <4>3, <4>4, <4>5
    <3> QED BY <3>1, <3>4, <3>5, <3>6, <3>7, <3>9, <3>10
  <2>7. \/ after = before
        \/ after = [before EXCEPT !.predictor = Suppress(@)]
        \/ after = [before EXCEPT !.s = ScheduleOf(@, k, PrefetchRequest),
                                   !.kind = kind, !.ok = Accepts(kind)]
    BY <2>3, Zenon DEF OfferStep, k
  <2> HIDE DEF Good
  <2> QED BY <2>4, <2>5, <2>6, <2>7
<1>6. Good(g[m])
  <2> HIDE DEF Good
  <2>1. m \in P
    <3> HIDE DEF P
    <3> QED BY <1>0, <1>4, <1>5, NatSetInduction
  <2> QED BY <1>0, <2>1
<1> QED BY <1>1, <1>6

\* The predictions are offered while no handle is held.
LEMMA ObserveAndPrefetchOuter ==
  ASSUME Inv, Outer, ObserveAndPrefetch
  PROVE  Outer'
<1> DEFINE decision == run.decision.tokens[run.token]
           judged == Judge(predictor, decision, run.token)
<1>0. RunOK /\ SchOK(sch) /\ StoreOK /\ Accounts(predictor)
  BY DEF Inv
<1>1. PICK predictions \in PredictDetailed(database', run.layer, decision.selected) :
        LET offered == Offer(sch, Remember(judged, run.token, predictions), predictions)
        IN  IF offered.ok
              THEN sch' = offered.s /\ Advance /\ UNCHANGED <<handles, warm, leased, failure, faults>>
              ELSE Throw(offered.kind, offered.s)
  BY Zenon DEF ObserveAndPrefetch
<1>2. /\ pc = "observe" /\ database' = Record(database, decision, run.token)
      /\ UNCHANGED <<mode, mgr, offsets>>
  BY DEF ObserveAndPrefetch
<1> DEFINE remembered == Remember(judged, run.token, predictions)
           offered == Offer(sch, remembered, predictions)
<1>3. DOMAIN database'.frequency \subseteq Key
  <2>1. /\ decision.layer \in 0 .. LayerCount - 1
        /\ DOMAIN decision.selected = 1 .. RouterConfig.topK
        /\ ToSet(decision.selected) \subseteq Experts
    BY <1>0, <1>2 DEF RunOK, Routed
  <2>2. DOMAIN database.frequency \subseteq Key
    BY <1>0 DEF StoreOK
  <2> HIDE DEF decision
  <2> QED BY <1>2, <2>1, <2>2, RecordFacts
<1> HIDE DEF decision
<1>4. Predictions(predictions)
  BY <1>3, PredictFacts
<1>5. Accounts(judged)
  BY <1>0, JudgeAccounts
<1> HIDE DEF judged
<1>6. remembered = [pending |-> remembered.pending, quality |-> remembered.quality]
      /\ remembered.quality \in Quality
  <2>1. judged.quality \in Quality /\ Len(predictions) \in Nat
    BY <1>4, <1>5 DEF Accounts, Predictions
  <2> DEFINE q == judged.quality
             n == Len(predictions)
  <2>2. remembered = [pending |-> Put(judged.pending, run.token, predictions),
                      quality |-> [q EXCEPT !.predictions = @ + n]]
    BY DEF Remember
  <2> HIDE DEF q, n
  <2>3. [q EXCEPT !.predictions = @ + n] \in Quality
    BY <2>1 DEF Quality, q, n
  <2> HIDE DEF remembered
  <2> QED BY <2>2, <2>3
<1>7. IF offered.ok
        THEN sch' = offered.s /\ Advance /\ UNCHANGED <<handles, warm, leased, failure, faults>>
        ELSE Throw(offered.kind, offered.s)
  BY <1>1
<1> HIDE DEF remembered
<1>8. /\ Continues(sch, offered.s)
      /\ ~offered.ok => offered.kind \in {"pendingTarget", "transition"}
  BY <1>0, <1>4, <1>6, OfferFacts
<1>9. /\ SchCoupled(offered.s)
      /\ \A k \in offered.s.prefetched : offered.s.state[k].current = "Ram"
      /\ ~offered.ok /\ offered.kind = "transition" => \E k \in Key : InUse(offered.s, k)
  <2>1. SchCoupled(sch) /\ \A k \in sch.prefetched : sch.state[k].current = "Ram"
    BY <1>2 DEF Outer, SpeculativeOK
  <2> QED BY <1>0, <1>4, <2>1, OfferCoupled
<1>10. \A k \in Key : mgr'[k].location # "Nvme" => k \in offsets'
  BY <1>2 DEF Outer, BareOK
<1> HIDE DEF offered
<1>11. CASE offered.ok
  <2>1. sch' = offered.s /\ Advance /\ UNCHANGED <<handles, warm, leased, failure, faults>>
    BY <1>7, <1>11
  <2>2. /\ pc' \in {"observe", "dispatch"} /\ run'.decision = run.decision
        /\ run'.layer = run.layer /\ run'.index = run.index
    BY <1>2, <2>1 DEF Advance, Inv, RunOK
  <2>3. \A g \in DOMAIN handles : handles[g] = NoHandle
    BY <1>2 DEF Outer, OrderOK
  <2>4. OrderOK'
    BY <2>1, <2>2, <2>3 DEF OrderOK, Submitting
  <2>5. UseOK'
    BY <1>2, <2>1, <2>2 DEF Outer, UseOK, Current, KeyOf, Groups, Submitting
  <2>6. warm'.status # "ready"
    BY <1>2, <2>1 DEF Inv, HandlesOK, NoHandle
  <2> QED BY <1>2, <1>9, <1>10, <2>1, <2>2, <2>3, <2>4, <2>5, <2>6, LayerOuter
<1>12. CASE ~offered.ok
  <2>1. Throw(offered.kind, offered.s)
    BY <1>7, <1>12
  <2>2. leased = NoLease
    BY <1>2 DEF Inv, LeaseOK, HoldsLease, Submitting
  <2>3. offered.kind \in Refusals => \E j \in Key : InUse(sch, j) /\ leased.key # j
    BY <1>8, <1>9, <1>12, <2>2, KeyFinite DEF Refusals, Continues, NoLease
  <2> QED BY <1>8, <1>9, <1>10, <1>12, <2>1, <2>3, ThrowOuter
<1> QED BY <1>11, <1>12

\* expirePrefetches keeps the coupling.
LEMMA ExpireCoupled ==
  ASSUME NEW s, SchOK(s), SchCoupled(s), NEW gone, gone \subseteq s.prefetched
  PROVE  SchCoupled(Expire(s, gone)) /\ DroppedTo(s, gone, gone, Expire(s, gone))
<1> DEFINE t == Expire(s, gone)
<1>1. t = Dropped(s, gone, gone)
  BY Zenon DEF Expire, Dropped
<1>2. gone \subseteq gone /\ \A k \in gone \ gone : s.state[k].current # "Vram"
  OBVIOUS
<1> HIDE DEF t
<1>3. SchCoupled(t) /\ DroppedTo(s, gone, gone, t)
  BY <1>1, <1>2, DropCoupled
<1> QED BY <1>3 DEF t

\* What expires is ready and not in use, and the groups hold every assignment.
LEMMA BeginLayerOuter ==
  ASSUME Inv, Outer, NEW tokens \in Nat, BeginLayer(tokens)
  PROVE  Outer'
<1> DEFINE gone == Expired(sch, run.layer)
           s == Expire(sch, gone)
<1>0. RunOK /\ HandlesOK /\ SchOK(sch) /\ LeaseOK /\ StoreOK /\ SchCoupled(sch)
  BY DEF Inv, Outer
<1>1. pc = "idle" /\ UNCHANGED <<mode, mgr, offsets>>
  BY DEF BeginLayer
<1>2. leased = NoLease /\ warm = NoHandle
  BY <1>0, <1>1 DEF LeaseOK, HoldsLease, Submitting, HandlesOK
<1>3. gone \subseteq sch.prefetched /\ sch.prefetched \subseteq Key
  BY <1>0, SchParts DEF Expired, SchOK
<1>a. CASE \E k \in gone : ~CanReconcile(sch.state[k])
  <2>1. PICK k \in gone : ~CanReconcile(sch.state[k])
    BY <1>a
  <2>2. k \in Key /\ Speculative(sch.state[k], sch.pending[k])
    BY <1>0, <1>3 DEF SchCoupled
  <2>3. InUse(sch, k) /\ leased.key # k
    BY <1>2, <2>1, <2>2, KeyFinite DEF Speculative, InUse, CanReconcile, IsRegistered, NoLease
  <2>4. Throw("expire", sch)
    BY <1>a DEF BeginLayer
  <2> QED BY <1>1, <2>2, <2>3, <2>4, PlainThrow
<1>4. SUFFICES ASSUME \A k \in gone : CanReconcile(sch.state[k]) PROVE Outer'
  BY <1>a
<1>5. Continues(sch, s)
  BY <1>0, <1>4, ExpireContinues
<1>6. /\ SchCoupled(s) /\ s.prefetched = sch.prefetched \ gone
      /\ \A k \in Key : s.state[k] = IF k \in gone THEN ReconcileOf(sch.state[k], "Nvme")
                                     ELSE sch.state[k]
  <2> HIDE DEF gone
  <2> QED BY <1>0, <1>3, ExpireCoupled DEF DroppedTo
<1>7. PICK rows \in [1 .. tokens -> ScoresAt[run.layer]] :
        LET decision == Route(rows)
        IN  IF ~BatchValid(decision) THEN Throw("router", s)
            ELSE /\ pc' = "observe" /\ failure' = "none" /\ sch' = s
                 /\ run' = [AtRest(IF run.layer = 0 THEN run.pass + 1 ELSE run.pass,
                                   run.layer, tokens) EXCEPT !.decision = decision]
                 /\ handles' = [g \in DOMAIN decision.groups |-> NoHandle]
                 /\ UNCHANGED <<warm, leased>>
  BY <1>4, Zenon DEF BeginLayer
<1> HIDE DEF gone, s
<1>8. \A k \in s.prefetched : s.state[k].current = "Ram"
  BY <1>1, <1>3, <1>6 DEF Outer, SpeculativeOK
<1>9. \A k \in Key : mgr'[k].location # "Nvme" => k \in offsets'
  BY <1>1 DEF Outer, BareOK
<1> DEFINE decision == Route(rows)
           pass == IF run.layer = 0 THEN run.pass + 1 ELSE run.pass
<1>10. CASE ~BatchValid(decision)
  <2>1. Throw("router", s)
    BY <1>7, <1>10
  <2> QED BY <1>5, <1>6, <1>8, <1>9, <2>1, ThrowOuter DEF Refusals
<1>11. CASE BatchValid(decision)
  <2>1. /\ pc' = "observe" /\ failure' = "none" /\ sch' = s
        /\ run' = [AtRest(pass, run.layer, tokens) EXCEPT !.decision = decision]
        /\ handles' = [g \in DOMAIN decision.groups |-> NoHandle]
        /\ UNCHANGED <<warm, leased>>
    BY <1>7, <1>11
  <2>2. Dispatchable(decision)
    <3>1. rows \in [1 .. tokens -> [1 .. RouterConfig.expertCount -> Int]]
      <4>1. ScoresAt[run.layer] \subseteq [1 .. RouterConfig.expertCount -> Int]
        BY <1>0, MoEAssumption DEF RunOK
      <4> QED BY <4>1
    <3>2. decision \in {CpuRouteBatch(run.layer, rows, RouterConfig),
                        CudaRouteBatch(run.layer, rows, RouterConfig, mode.native)}
      BY DEF Route
    <3>3. decision # Refused
      BY <1>11 DEF BatchValid, Refused
    <3> HIDE DEF decision
    <3>4. Routed(decision, tokens) /\ Dealt(decision, tokens)
      <4>1. Routed(decision, tokens)
        <5> HIDE DEF pass
        <5>1. run'.decision = decision /\ run'.tokens = tokens
          BY <2>1 DEF AtRest
        <5>2. RunOK'
          BY BeginLayerOK DEF Inv
        <5> QED BY <2>1, <5>1, <5>2 DEF RunOK
      <4>2. Dealt(decision, tokens)
        BY <3>1, <3>2, <3>3, RouteDealt, Zenon
      <4> QED BY <4>1, <4>2
    <3> QED BY <1>11, <3>4, RoutedDispatches
  <2> HIDE DEF decision, pass
  <2>3. run'.decision = decision
    BY <2>1 DEF AtRest
  <2>4. /\ SchCoupled(sch)' /\ SpeculativeOK'
    BY <1>6, <1>8, <2>1 DEF SchCoupled, SpeculativeOK
  <2>5. /\ \A g \in DOMAIN handles' : handles'[g] = NoHandle
    BY <2>1
  <2>6. OrderOK'
    BY <2>1, <2>5 DEF OrderOK, Submitting
  <2>7. AnswersOK'
    BY <1>2, <2>1, <2>5 DEF AnswersOK, Answers, NoHandle
  <2>8. BareOK'
    BY <1>9, <2>1 DEF BareOK
  <2>9. UseOK'
    BY <1>2, <2>1, <2>2, <2>3 DEF UseOK, Submitting
  <2>10. RefusalsOK'
    BY <2>1 DEF RefusalsOK, Refusals
  <2> QED BY <2>4, <2>6, <2>7, <2>8, <2>9, <2>10 DEF Outer
<1> QED BY <1>10, <1>11

-----------------------------------------------------------------------------
(* The workers' steps keep Outer.                                           *)

\* A worker's step, from what it does to the task of its own key and to the
\* experts whose transfers it drops.
LEMMA WorkerOuter ==
  ASSUME Inv, Outer, Quiet, NEW k \in Key, Pending(sch, k), SchCoupled(sch'), OrderOK', AnswersOK',
         \A j \in sch'.prefetched :
           sch'.state[j].current = "Ram" \/ (pc = "request" /\ j = Submitted),
         pc \in {"stage", "reconcile", "request"} /\ Submitted \notin offsets =>
           Bare(sch'.state[Submitted], sch'.pending[Submitted], sch'.resident[Submitted],
                pc = "request"),
         \A j \in Key : j # k /\ sch.state[j].state = "Ready" => sch'.state[j].state = "Ready",
         \A j \in Key : InUse(sch, j) => InUse(sch', j)
  PROVE  Outer'
<1>1. UNCHANGED <<mode, pc, run, mgr, leased, offsets, failure>>
  BY DEF Quiet
<1>2. Submitted' = Submitted /\ Current' = Current /\ Destination' = Destination
      /\ Limit(Destination)' = Limit(Destination)
  BY <1>1 DEF Submitted, Current, KeyOf, Groups, Destination, Limit
<1>3. SchCoupled(sch)' /\ SpeculativeOK'
  BY <1>1, <1>2 DEF SchCoupled, SpeculativeOK
<1>4. BareOK'
  <2>1. \A j \in Key : mgr'[j].location # "Nvme" => j \in offsets'
    BY <1>1 DEF Outer, BareOK
  <2>2. pc' \in {"stage", "reconcile", "request"} /\ Submitted' \notin offsets' =>
          Bare(sch'.state[Submitted'], sch'.pending[Submitted'], sch'.resident[Submitted'],
               pc' = "request")
    BY <1>1, <1>2
  <2> QED BY <2>1, <2>2 DEF BareOK
<1>5. UseOK'
  <2>1. pc = "acquire" => sch'.state[Current].state = "Ready"
    <3> SUFFICES ASSUME pc = "acquire" PROVE sch'.state[Current].state = "Ready"
      OBVIOUS
    <3>1. Current \in Key /\ ~Pending(sch, Current) /\ sch.state[Current].state = "Ready"
      BY SubmittedFacts DEF Running, Inv, LeaseOK, Outer, UseOK
    <3> QED BY <3>1
  <2>2. /\ leased # NoLease => leased.key = Current
        /\ pc \in Submitting /\ run.resume = "execute" => Limit(Destination) >= 2
        /\ pc \in {"observe", "dispatch"} => Dispatchable(run.decision)
    BY DEF Outer, UseOK
  <2>3. /\ leased' # NoLease => leased'.key = Current'
        /\ pc' \in Submitting /\ run'.resume = "execute" => Limit(Destination)' >= 2
        /\ pc' = "acquire" => sch'.state[Current'].state = "Ready"
        /\ pc' \in {"observe", "dispatch"} => Dispatchable(run'.decision)
    BY <1>1, <1>2, <2>1, <2>2
  <2> QED BY <2>3 DEF UseOK
<1>6. RefusalsOK'
  <2>1. Abandoned \subseteq Abandoned'
    BY <1>1, AbandonedFacts
  <2> QED BY <1>1, <2>1 DEF Outer, RefusalsOK, Refusals
<1> QED BY <1>3, <1>4, <1>5, <1>6 DEF Outer

\* The handles while the task stays for the tier it was for.
LEMMA TaskAnswers ==
  ASSUME Inv, Outer, Quiet, UNCHANGED <<handles, warm>>, NEW k \in Key, Pending(sch, k),
         sch'.pending[k].destination = sch.pending[k].destination,
         \A j \in Key : j # k => sch'.pending[j] = sch.pending[j]
  PROVE  OrderOK' /\ AnswersOK'
<1>1. UNCHANGED <<mode, pc, run, offsets, handles, warm>>
  BY DEF Quiet
<1>2. Submitted' = Submitted /\ Destination' = Destination /\ \A g : KeyOf(g)' = KeyOf(g)
  BY <1>1 DEF Submitted, KeyOf, Groups, Destination
<1>3. OrderOK'
  BY <1>1 DEF Outer, OrderOK
<1>4. \A g \in DOMAIN handles : KeyOf(g) \in Key /\ Answers(handles[g], KeyOf(g))
  BY KeyOfFacts DEF Inv, HandlesOK, Outer, AnswersOK
<1>5. ASSUME NEW g \in DOMAIN handles PROVE Answers(handles[g], KeyOf(g))'
  <2> DEFINE h == handles[g]
             key == KeyOf(g)
  <2>1. key \in Key /\ Answers(h, key) /\ h' = h /\ key' = key
    BY <1>1, <1>2, <1>4, <1>5
  <2> HIDE DEF h, key
  <2>2. Answers(h, key)'
    BY <1>1, <1>2, <2>1 DEF Answers, Pending
  <2> QED BY <2>2 DEF h, key
<1>6. warm.status = "ready" => Submitted \in Key
  <2>1. warm.status = "ready" => pc \in Running
    BY DEF Inv, HandlesOK, Running, Submitting, NoHandle
  <2> QED BY <2>1, SubmittedFacts
<1>7. AnswersOK'
  <2>1. pc' = "adopt" => handles'[run'.index].ok
    BY <1>1 DEF Outer, AnswersOK
  <2>2. warm'.status = "ready" => ~Pending(sch', Submitted')
    BY <1>1, <1>2, <1>6 DEF Outer, AnswersOK, Pending
  <2> QED BY <1>1, <1>5, <2>1, <2>2 DEF AnswersOK, Pending
<1> QED BY <1>3, <1>7

\* A worker's update of the record and the task of its own key, before the
\* transfer is retained.
LEMMA OwnKeyOuter ==
  ASSUME Inv, Outer, Quiet, UNCHANGED <<handles, warm>>,
         NEW k \in Key, sch.pending[k].phase \in {"queued", "loading"},
         NEW x \in ExpertRecord, NEW p \in Task, p.phase \in {"loading", "loaded", "failed"},
         p.destination = sch.pending[k].destination,
         p.prefetch = sch.pending[k].prefetch, p.active = sch.pending[k].active,
         Coupled(x, p, sch.resident[k]),
         sch' = [state |-> [sch.state EXCEPT ![k] = x], pending |-> [sch.pending EXCEPT ![k] = p],
                 resident |-> sch.resident, prefetched |-> sch.prefetched]
  PROVE  Outer'
<1>1. Pending(sch, k)
  BY DEF Pending
<1>2. /\ sch'.resident = sch.resident /\ sch'.prefetched = sch.prefetched
      /\ sch.prefetched \subseteq Key
      /\ \A j \in Key : /\ sch'.state[j] = IF j = k THEN x ELSE sch.state[j]
                        /\ sch'.pending[j] = IF j = k THEN p ELSE sch.pending[j]
  BY <1>1, PendingFacts
<1>3. k \notin sch.prefetched
  BY DEF Outer, SchCoupled, Speculative
<1>4. SchCoupled(sch')
  <2> SUFFICES ASSUME NEW j \in Key
               PROVE  /\ Coupled(sch'.state[j], sch'.pending[j], sch'.resident[j])
                      /\ j \in sch'.prefetched => Speculative(sch'.state[j], sch'.pending[j])
    BY DEF SchCoupled
  <2>1. CASE j = k
    BY <1>2, <1>3, <2>1
  <2>2. CASE j # k
    BY <1>2, <2>2 DEF Outer, SchCoupled
  <2> QED BY <2>1, <2>2
<1>5. OrderOK' /\ AnswersOK'
  BY <1>1, <1>2, TaskAnswers
<1>6. \A j \in sch'.prefetched : sch'.state[j].current = "Ram" \/ (pc = "request" /\ j = Submitted)
  BY <1>2, <1>3 DEF Outer, SpeculativeOK
<1>7. ASSUME pc \in {"stage", "reconcile", "request"}, Submitted \notin offsets
      PROVE  Bare(sch'.state[Submitted], sch'.pending[Submitted], sch'.resident[Submitted],
                  pc = "request")
  <2>1. /\ Submitted \in Key
        /\ Bare(sch.state[Submitted], sch.pending[Submitted], sch.resident[Submitted],
                pc = "request")
    BY <1>7, SubmittedFacts DEF Running, Submitting, Outer, BareOK
  <2>2. CASE Submitted = k
    BY <1>2, <2>1, <2>2 DEF Bare, Coupled
  <2>3. CASE Submitted # k
    BY <1>2, <2>1, <2>3
  <2> QED BY <2>2, <2>3
<1>8. /\ \A j \in Key : j # k /\ sch.state[j].state = "Ready" => sch'.state[j].state = "Ready"
      /\ \A j \in Key : InUse(sch, j) => InUse(sch', j)
  BY <1>1, <1>2, PendingFacts DEF InUse
<1> QED BY <1>1, <1>4, <1>5, <1>6, <1>7, <1>8, WorkerOuter

\* A worker takes the task.
LEMMA StartTaskOuter ==
  ASSUME Inv, Outer, NEW k \in Key, StartTask(k)
  PROVE  Outer'
<1> DEFINE t == sch.pending[k]
           x == MarkLoadingOf(sch.state[k])
           p == [t EXCEPT !.phase = "loading"]
<1>1. Pending(sch, k) /\ t.phase = "queued" /\ UNCHANGED <<handles, warm>> /\ Quiet
  BY DEF StartTask, Phase, Pending
<1>2. t \in Task /\ sch.state[k] \in ExpertRecord /\ Coupled(sch.state[k], t, sch.resident[k])
  BY <1>1, PendingFacts DEF Outer, SchCoupled
<1>3. p.phase = "loading" /\ p.destination = t.destination /\ p.prefetch = t.prefetch
      /\ p.active = t.active /\ p \in Task
  BY <1>2 DEF Task
<1>4. Coupled(x, p, sch.resident[k])
  BY <1>1, <1>2, CoupledStart
<1>5. sch' = [state |-> [sch.state EXCEPT ![k] = x], pending |-> [sch.pending EXCEPT ![k] = p],
              resident |-> sch.resident, prefetched |-> sch.prefetched]
  <2>1. sch' = [sch EXCEPT !.state[k] = MarkLoadingOf(@), !.pending[k].phase = "loading"]
    BY DEF StartTask
  <2> QED BY <1>1, <2>1, PendingFacts
<1>6. x \in ExpertRecord
  BY <1>2 DEF MarkLoadingOf, ExpertRecord, LifecycleState
<1> HIDE DEF x, p
<1> QED BY <1>1, <1>3, <1>4, <1>5, <1>6, OwnKeyOuter

\* The transfer arrives.
LEMMA FinishLoadOuter ==
  ASSUME Inv, Outer, NEW k \in Key, FinishLoad(k)
  PROVE  Outer'
<1> DEFINE t == sch.pending[k]
           x == MarkReadyOf(sch.state[k], t.destination)
           out == Transferred(k)
           p == [t EXCEPT !.phase = "loaded", !.out = out]
<1>1. Pending(sch, k) /\ t.phase = "loading" /\ UNCHANGED <<handles, warm>> /\ Quiet
  BY DEF FinishLoad, Phase, Pending
<1>2. t \in Task /\ sch.state[k] \in ExpertRecord /\ Coupled(sch.state[k], t, sch.resident[k])
  BY <1>1, PendingFacts DEF Outer, SchCoupled
<1>3. HasBuffer(out, t.destination)
  <2>1. Fresh(k) # 0
    BY HandlesFinite, FreshFacts DEF Inv
  <2>2. t.destination \in {"Ram", "Vram"}
    BY <1>2 DEF Task
  <2> QED BY <2>1, <2>2 DEF Transferred, HasBuffer
<1>a. out \in Transfer
  <2>1. Fresh(k) \in Nat /\ t.source \in Transfer
    BY <1>2, HandlesFinite, FreshFacts DEF Inv, Task
  <2> QED BY <2>1 DEF Transferred, Transfer
<1> HIDE DEF out
<1>4. p.phase = "loaded" /\ p.destination = t.destination /\ p.prefetch = t.prefetch
      /\ p.active = t.active /\ p \in Task
  BY <1>2, <1>a DEF Task
<1>5. Coupled(x, p, sch.resident[k])
  BY <1>1, <1>2, <1>3, CoupledFinish
<1>6. sch' = [state |-> [sch.state EXCEPT ![k] = x], pending |-> [sch.pending EXCEPT ![k] = p],
              resident |-> sch.resident, prefetched |-> sch.prefetched]
  <2>1. sch' = [sch EXCEPT !.state[k] = MarkReadyOf(@, sch.pending[k].destination),
                           !.pending[k].phase = "loaded", !.pending[k].out = out]
    BY DEF FinishLoad, out
  <2> QED BY <1>1, <2>1, PendingFacts
<1>7. x \in ExpertRecord
  BY <1>2 DEF MarkReadyOf, ExpertRecord, LifecycleState, Tier, Task
<1> HIDE DEF x, p
<1> QED BY <1>1, <1>4, <1>5, <1>6, <1>7, OwnKeyOuter

\* The transfer fails.
LEMMA FailLoadOuter ==
  ASSUME Inv, Outer, NEW k \in Key, FailLoad(k)
  PROVE  Outer'
<1> DEFINE t == sch.pending[k]
           x == MarkFailedOf(sch.state[k])
           p == [t EXCEPT !.phase = "failed"]
<1>1. Pending(sch, k) /\ t.phase = "loading" /\ UNCHANGED <<handles, warm>> /\ Quiet
  BY DEF FailLoad, Phase, Pending
<1>2. t \in Task /\ sch.state[k] \in ExpertRecord /\ Coupled(sch.state[k], t, sch.resident[k])
  BY <1>1, PendingFacts DEF Outer, SchCoupled
<1>3. p.phase = "failed" /\ p.destination = t.destination /\ p.prefetch = t.prefetch
      /\ p.active = t.active /\ p \in Task
  BY <1>2 DEF Task
<1>4. Coupled(x, p, sch.resident[k])
  BY <1>2, CoupledFail
<1>5. sch' = [state |-> [sch.state EXCEPT ![k] = x], pending |-> [sch.pending EXCEPT ![k] = p],
              resident |-> sch.resident, prefetched |-> sch.prefetched]
  <2>1. sch' = [sch EXCEPT !.state[k] = MarkFailedOf(@), !.pending[k].phase = "failed"]
    BY DEF FailLoad
  <2> QED BY <1>1, <2>1, PendingFacts
<1>6. x \in ExpertRecord
  BY <1>2 DEF MarkFailedOf, ExpertRecord, LifecycleState
<1> HIDE DEF x, p
<1> QED BY <1>1, <1>3, <1>4, <1>5, <1>6, OwnKeyOuter

\* trimPrefetchCache keeps the coupling, the expert it runs for being in RAM.
LEMMA TrimCoupled ==
  ASSUME NEW s, SchOK(s), SchCoupled(s), NEW own, s.state[own].current # "Vram"
  PROVE  /\ SchCoupled(Trim(s, own)) /\ OverBound(s) \subseteq s.prefetched
         /\ DroppedTo(s, OverBound(s), OverBound(s) \ {own}, Trim(s, own))
<1> DEFINE t == Trim(s, own)
           over == OverBound(s)
           reset == over \ {own}
<1>1. t = Dropped(s, over, reset)
  BY Zenon DEF Trim, Dropped
<1>2. over \subseteq s.prefetched
  BY DEF OverBound
<1>3. reset \subseteq over /\ \A k \in over \ reset : s.state[k].current # "Vram"
  <2> HIDE DEF over
  <2> QED OBVIOUS
<1> HIDE DEF t, over, reset
<1>4. SchCoupled(t) /\ DroppedTo(s, over, reset, t)
  BY <1>1, <1>2, <1>3, DropCoupled
<1> QED BY <1>2, <1>4 DEF t, over, reset

\* The transfer is retained.  The expert on its way to a request is one whose
\* load cannot be dropped, or one whose offset is known.
LEMMA RetainTransferOuter ==
  ASSUME Inv, Outer, NEW k \in Key, RetainTransfer(k)
  PROVE  Outer'
<1> DEFINE t == sch.pending[k]
           x == sch.state[k]
           p == [t EXCEPT !.phase = "retained"]
           s == [sch EXCEPT !.resident[k] = t.out, !.pending[k].phase = "retained"]
           kept == [s EXCEPT !.prefetched = @ \cup {k}]
           With(q) == [state |-> sch.state, pending |-> [sch.pending EXCEPT ![k] = p],
                       resident |-> [sch.resident EXCEPT ![k] = t.out], prefetched |-> q]
<1>1. Pending(sch, k) /\ t.phase = "loaded" /\ UNCHANGED <<handles, warm>> /\ Quiet
  BY DEF RetainTransfer, Phase, Pending
<1>2. sch' = IF t.prefetch /\ ~t.active THEN Trim(kept, k) ELSE s
  BY Zenon DEF RetainTransfer
<1>3. t \in Task /\ p \in Task /\ t.out \in Transfer /\ p.phase = "retained"
      /\ p.destination = t.destination /\ p.prefetch = t.prefetch
  <2>1. t \in Task
    BY <1>1, PendingFacts
  <2> QED BY <2>1 DEF Task
<1>4. s = With(sch.prefetched) /\ kept = With(sch.prefetched \cup {k})
  <2>1. sch = [state |-> sch.state, pending |-> sch.pending, resident |-> sch.resident,
               prefetched |-> sch.prefetched]
        /\ sch.pending \in [Key -> {NoTask} \cup Task]
    BY <1>1, PendingFacts
  <2> DEFINE out == t.out
             now == [sch EXCEPT !.resident[k] = out]
  <2>2. s = [now EXCEPT !.pending[k].phase = "retained"]
    OBVIOUS
  <2> HIDE DEF out
  <2>3. now = [state |-> sch.state, pending |-> sch.pending,
               resident |-> [sch.resident EXCEPT ![k] = out], prefetched |-> sch.prefetched]
    BY <2>1
  <2> HIDE DEF now, s
  <2>4. s = [state |-> sch.state, pending |-> [sch.pending EXCEPT ![k] = p],
             resident |-> [sch.resident EXCEPT ![k] = out], prefetched |-> sch.prefetched]
    BY <2>2, <2>3
  <2>5. s = With(sch.prefetched)
    BY <2>4 DEF out
  <2> QED BY <2>5
<1>5. /\ Coupled(x, p, t.out) /\ x.current = t.destination /\ x.state = "Ready"
      /\ t.out # Nothing /\ (t.prefetch => t.destination = "Ram")
  <2>1. Coupled(x, t, sch.resident[k]) /\ x \in ExpertRecord
    BY <1>1, PendingFacts DEF Outer, SchCoupled
  <2>2. Coupled(x, p, t.out) /\ x.current = t.destination /\ x.state = "Ready" /\ t.out # Nothing
    BY <1>1, <1>3, <2>1, CoupledRetain
  <2> HIDE DEF x, t
  <2> QED BY <1>1, <2>1, <2>2 DEF Coupled
<1>6. sch.prefetched \subseteq Key
  BY <1>1, PendingFacts
<1> HIDE DEF s, kept, p, t, x
<1>7. ASSUME NEW q, q \in SUBSET Key, q \subseteq sch.prefetched \cup {k}
      PROVE  /\ Continues(sch, With(q)) /\ SchCoupled(With(q))
             /\ \A j \in Key : /\ With(q).pending[j] = IF j = k THEN p ELSE sch.pending[j]
                               /\ With(q).resident[j] = IF j = k THEN t.out ELSE sch.resident[j]
             /\ With(q).state = sch.state /\ With(q).prefetched = q
  <2>1. sch.state = [sch.state EXCEPT ![k] = sch.state[k]] /\ sch.state[k].state # "InUse"
    BY <1>1, PendingFacts DEF InUse
  <2>2. Continues(sch, [state |-> [sch.state EXCEPT ![k] = sch.state[k]],
                        pending |-> [sch.pending EXCEPT ![k] = p],
                        resident |-> [sch.resident EXCEPT ![k] = t.out], prefetched |-> q])
    BY <1>1, <1>3, <1>7, <2>1, PendingFacts, OneKey
  <2>3. Continues(sch, With(q))
    BY <2>1, <2>2
  <2> DEFINE u == With(q)
  <2>4. /\ \A j \in Key : /\ u.pending[j] = IF j = k THEN p ELSE sch.pending[j]
                          /\ u.resident[j] = IF j = k THEN t.out ELSE sch.resident[j]
        /\ u.state = sch.state /\ u.prefetched = q
    BY <1>1, PendingFacts
  <2> HIDE DEF u
  <2>5. SchCoupled(u)
    <3> SUFFICES ASSUME NEW j \in Key
                 PROVE  /\ Coupled(u.state[j], u.pending[j], u.resident[j])
                        /\ j \in u.prefetched => Speculative(u.state[j], u.pending[j])
      BY DEF SchCoupled
    <3>1. CASE j = k
      BY <1>3, <1>5, <2>4, <3>1 DEF Speculative, x
    <3>2. CASE j # k
      BY <1>7, <2>4, <3>2 DEF Outer, SchCoupled
    <3> QED BY <3>1, <3>2
  <2> QED BY <2>3, <2>4, <2>5 DEF u
<1> HIDE DEF With
<1>8. ASSUME pc \in {"stage", "reconcile", "request"}, Submitted \notin offsets
      PROVE  /\ Submitted \in Key
             /\ Bare(sch.state[Submitted], sch.pending[Submitted], sch.resident[Submitted],
                     pc = "request")
  BY <1>8, SubmittedFacts DEF Running, Submitting, Outer, BareOK
<1>9. CASE ~(t.prefetch /\ ~t.active)
  <2>1. sch' = With(sch.prefetched)
    BY <1>2, <1>4, <1>9
  <2>2. /\ SchCoupled(sch') /\ sch'.state = sch.state /\ sch'.prefetched = sch.prefetched
        /\ \A j \in Key : /\ sch'.pending[j] = IF j = k THEN p ELSE sch.pending[j]
                          /\ sch'.resident[j] = IF j = k THEN t.out ELSE sch.resident[j]
    BY <1>6, <1>7, <2>1
  <2>3. OrderOK' /\ AnswersOK'
    BY <1>1, <1>3, <2>2, TaskAnswers DEF t
  <2>4. \A j \in sch'.prefetched : sch'.state[j].current = "Ram" \/ (pc = "request" /\ j = Submitted)
    BY <2>2 DEF Outer, SpeculativeOK
  <2>5. ASSUME pc \in {"stage", "reconcile", "request"}, Submitted \notin offsets
        PROVE  Bare(sch'.state[Submitted], sch'.pending[Submitted], sch'.resident[Submitted],
                    pc = "request")
    <3>1. CASE Submitted = k
      BY <1>3, <1>5, <2>2, <3>1 DEF Bare, x
    <3>2. CASE Submitted # k
      BY <1>8, <2>2, <2>5, <3>2
    <3> QED BY <3>1, <3>2
  <2>6. /\ \A j \in Key : j # k /\ sch.state[j].state = "Ready" => sch'.state[j].state = "Ready"
        /\ \A j \in Key : InUse(sch, j) => InUse(sch', j)
    BY <2>2 DEF InUse
  <2> QED BY <1>1, <2>2, <2>3, <2>4, <2>5, <2>6, WorkerOuter
<1>10. CASE t.prefetch /\ ~t.active
  <2> DEFINE over == OverBound(kept)
  <2>1. sch' = Trim(kept, k) /\ kept = With(sch.prefetched \cup {k})
    BY <1>2, <1>4, <1>10
  <2>2. /\ SchOK(kept) /\ SchCoupled(kept) /\ kept.state = sch.state
        /\ kept.prefetched = sch.prefetched \cup {k}
        /\ \A j \in Key : /\ kept.pending[j] = IF j = k THEN p ELSE sch.pending[j]
                          /\ kept.resident[j] = IF j = k THEN t.out ELSE sch.resident[j]
    BY <1>6, <1>7, <2>1 DEF Continues
  <2>3. x.current = "Ram" /\ kept.state[k].current # "Vram"
    BY <1>5, <1>10, <2>2 DEF x
  <2>4. SchCoupled(sch') /\ over \subseteq kept.prefetched
        /\ DroppedTo(kept, over, over \ {k}, sch')
    BY <2>1, <2>2, <2>3, TrimCoupled
  <2> HIDE DEF over
  <2>5. /\ sch'.prefetched = kept.prefetched \ over
        /\ \A j \in Key : /\ sch'.pending[j] = IF j = k THEN p ELSE sch.pending[j]
                          /\ sch'.state[j] = IF j \in over \ {k} THEN ReconcileOf(sch.state[j], "Nvme")
                                             ELSE sch.state[j]
                          /\ sch'.resident[j] = IF j \in over THEN Nothing ELSE kept.resident[j]
    BY <2>2, <2>4 DEF DroppedTo
  <2>6. OrderOK' /\ AnswersOK'
    BY <1>1, <1>3, <2>5, TaskAnswers DEF t
  <2>7. \A j \in sch'.prefetched : sch'.state[j].current = "Ram" \/ (pc = "request" /\ j = Submitted)
    BY <1>6, <2>2, <2>3, <2>5 DEF Outer, SpeculativeOK, x
  <2>8. \A j \in Key : /\ ReconcileOf(sch.state[j], "Nvme").current = "Nvme"
                       /\ ReconcileOf(sch.state[j], "Nvme").state = "Ready"
    <3>1. \A y \in ExpertRecord : /\ ReconcileOf(y, "Nvme").current = "Nvme"
                                 /\ ReconcileOf(y, "Nvme").state = "Ready"
      BY DEF ReconcileOf, ExpertRecord
    <3> QED BY <1>1, <3>1, PendingFacts
  <2>9. ASSUME pc \in {"stage", "reconcile", "request"}, Submitted \notin offsets
        PROVE  Bare(sch'.state[Submitted], sch'.pending[Submitted], sch'.resident[Submitted],
                    pc = "request")
    <3> DEFINE j == Submitted
    <3>1. j \in Key /\ Bare(sch.state[j], sch.pending[j], sch.resident[j], pc = "request")
      BY <1>8, <2>9
    <3>2. j # k
      BY <1>1, <1>10, <3>1 DEF Bare, t
    <3> HIDE DEF j
    <3>3. CASE j \in over
      <4>1. sch.pending[j].phase \in {"none", "retained"}
        BY <2>2, <2>4, <3>1, <3>2, <3>3 DEF Outer, SchCoupled, Speculative
      <4>2. sch'.state[j].current = "Nvme" /\ sch'.state[j].state = "Ready"
            /\ sch'.pending[j] = sch.pending[j]
        BY <2>5, <2>8, <3>1, <3>2, <3>3
      <4>3. Bare(sch'.state[j], sch'.pending[j], sch'.resident[j], pc = "request")
        BY <4>1, <4>2 DEF Bare
      <4> QED BY <4>3 DEF j
    <3>4. CASE j \notin over
      <4>1. /\ sch'.state[j] = sch.state[j] /\ sch'.pending[j] = sch.pending[j]
            /\ sch'.resident[j] = sch.resident[j]
        BY <2>2, <2>5, <3>1, <3>2, <3>4
      <4> QED BY <3>1, <4>1 DEF j
    <3> QED BY <3>3, <3>4
  <2>10. /\ \A j \in Key : j # k /\ sch.state[j].state = "Ready" => sch'.state[j].state = "Ready"
         /\ \A j \in Key : InUse(sch, j) => InUse(sch', j)
    <3>1. Continues(kept, sch')
      BY <2>1, <2>2, TrimContinues
    <3> QED BY <2>2, <2>5, <2>8, <3>1 DEF Continues, InUse
  <2> QED BY <1>1, <2>4, <2>6, <2>7, <2>9, <2>10, WorkerOuter
<1> QED BY <1>9, <1>10

\* The promise is set: the handle gets what was loaded for the tier it waits
\* for, and the task is gone.
LEMMA CompleteTaskOuter ==
  ASSUME Inv, Outer, NEW k \in Key, CompleteTask(k)
  PROVE  Outer'
<1> DEFINE t == sch.pending[k]
           x == sch.state[k]
           done == Resolved(t.phase = "retained", t.out)
<1>1. /\ Pending(sch, k) /\ Quiet /\ t.phase \in {"retained", "failed"}
      /\ handles' = [g \in DOMAIN handles |-> Settle(handles[g], k, KeyOf(g), t)]
      /\ warm' = (IF warm.status = "waiting" THEN Settle(warm, k, Submitted, t) ELSE warm)
      /\ sch' = [sch EXCEPT !.pending[k] = NoTask]
  BY DEF CompleteTask, Phase, Pending
<1>2. UNCHANGED <<mode, pc, run, offsets>> /\ Submitted' = Submitted /\ Destination' = Destination
      /\ \A g : KeyOf(g)' = KeyOf(g)
  BY <1>1 DEF Quiet, Submitted, KeyOf, Groups, Destination
<1>3. done.status = "ready" /\ (done.ok <=> t.phase = "retained") /\ done.transfer = t.out
  BY DEF Resolved
<1>4. /\ sch'.state = sch.state /\ sch'.resident = sch.resident /\ sch'.prefetched = sch.prefetched
      /\ \A j \in Key : sch'.pending[j] = IF j = k THEN NoTask ELSE sch.pending[j]
  <2>1. sch' = [state |-> sch.state, pending |-> [sch.pending EXCEPT ![k] = NoTask],
                resident |-> sch.resident, prefetched |-> sch.prefetched]
        /\ sch.pending \in [Key -> {NoTask} \cup Task]
    BY <1>1, PendingFacts
  <2> QED BY <2>1
<1>5. NoTask.phase = "none"
  BY DEF NoTask
<1>6. Coupled(x, t, sch.resident[k]) /\ Coupled(x, NoTask, sch.resident[k])
  <2>1. Coupled(x, t, sch.resident[k])
    BY DEF Outer, SchCoupled
  <2> HIDE DEF x, t
  <2> QED BY <1>1, <2>1, CoupledDone
<1>7. \A h, key : Settle(h, k, key, t) = IF h.status = "waiting" /\ key = k THEN done ELSE h
  BY DEF Settle
<1> HIDE DEF done
<1>8. SchCoupled(sch')
  <2> SUFFICES ASSUME NEW j \in Key
               PROVE  /\ Coupled(sch'.state[j], sch'.pending[j], sch'.resident[j])
                      /\ j \in sch'.prefetched => Speculative(sch'.state[j], sch'.pending[j])
    BY DEF SchCoupled
  <2>1. CASE j = k
    BY <1>4, <1>5, <1>6, <2>1 DEF Outer, SchCoupled, Speculative
  <2>2. CASE j # k
    BY <1>4, <2>2 DEF Outer, SchCoupled
  <2> QED BY <2>1, <2>2
<1>9. /\ DOMAIN handles' = DOMAIN handles
      /\ \A g \in DOMAIN handles :
           handles'[g] = IF handles[g].status = "waiting" /\ KeyOf(g) = k THEN done ELSE handles[g]
      /\ warm' = IF warm.status = "waiting" /\ Submitted = k THEN done ELSE warm
  BY <1>1, <1>7
<1>10. OrderOK'
  <2>1. \A g \in DOMAIN handles : handles[g] = NoHandle => handles'[g] = NoHandle
    BY <1>9, NotWaiting
  <2> QED BY <1>2, <1>9, <2>1 DEF Outer, OrderOK
<1>11. \A g \in DOMAIN handles : KeyOf(g) \in Key /\ Answers(handles[g], KeyOf(g))
  BY KeyOfFacts DEF Inv, HandlesOK, Outer, AnswersOK
<1>12. ASSUME NEW g \in DOMAIN handles PROVE Answers(handles[g], KeyOf(g))'
  <2> DEFINE h == handles[g]
             key == KeyOf(g)
  <2>1. key \in Key /\ Answers(h, key) /\ key' = key
        /\ h' = IF h.status = "waiting" /\ key = k THEN done ELSE h
    BY <1>2, <1>9, <1>11, <1>12
  <2> HIDE DEF h, key
  <2>2. CASE h.status = "waiting" /\ key = k
    <3>1. h' = done /\ t.destination = Destination /\ ~Pending(sch', k)
      BY <1>4, <1>5, <2>1, <2>2 DEF Answers, Pending
    <3>2. t.phase = "retained" => HasBuffer(t.out, t.destination)
      BY <1>6 DEF Coupled
    <3>3. Answers(h, key)'
      <4>1. done.status # "waiting" /\ (done.ok => HasBuffer(done.transfer, Destination))
        BY <1>3, <3>1, <3>2
      <4> QED BY <1>2, <2>1, <2>2, <3>1, <4>1 DEF Answers, Pending
    <3> QED BY <3>3 DEF h, key
  <2>3. CASE ~(h.status = "waiting" /\ key = k)
    <3>1. Answers(h, key)'
      BY <1>2, <1>4, <1>5, <2>1, <2>3 DEF Answers, Pending
    <3> QED BY <3>1 DEF h, key
  <2> QED BY <2>2, <2>3
<1>13. AnswersOK'
  <2>1. pc' = "adopt" => handles'[run'.index].ok
    <3>1. pc = "adopt" => run.index \in DOMAIN handles /\ handles[run.index].status = "ready"
                          /\ handles[run.index].ok
      BY DEF Inv, HandlesOK, RunOK, Running, Outer, AnswersOK
    <3> QED BY <1>2, <1>9, <3>1
  <2>2. warm'.status = "ready" => ~Pending(sch', Submitted')
    <3>1. warm.status = "ready" => Submitted \in Key /\ ~Pending(sch, Submitted)
      <4>1. warm.status = "ready" => pc \in Running
        BY DEF Inv, HandlesOK, Running, Submitting, NoHandle
      <4> QED BY <4>1, SubmittedFacts DEF Outer, AnswersOK
    <3> QED BY <1>2, <1>4, <1>5, <1>9, <3>1 DEF Pending
  <2> QED BY <1>9, <1>12, <2>1, <2>2 DEF AnswersOK, Pending
<1>14. \A j \in sch'.prefetched : sch'.state[j].current = "Ram" \/ (pc = "request" /\ j = Submitted)
  BY <1>4 DEF Outer, SpeculativeOK
<1>15. ASSUME pc \in {"stage", "reconcile", "request"}, Submitted \notin offsets
       PROVE  Bare(sch'.state[Submitted], sch'.pending[Submitted], sch'.resident[Submitted],
                   pc = "request")
  <2>1. /\ Submitted \in Key
        /\ Bare(sch.state[Submitted], sch.pending[Submitted], sch.resident[Submitted],
                pc = "request")
    BY <1>15, SubmittedFacts DEF Running, Submitting, Outer, BareOK
  <2>2. CASE Submitted = k
    <3>1. Bare(x, t, sch.resident[k], pc = "request")
      BY <2>1, <2>2
    <3> HIDE DEF x, t
    <3>2. Bare(x, NoTask, sch.resident[k], pc = "request")
      BY <1>1, <1>5, <1>6, <3>1 DEF Bare, Coupled
    <3> QED BY <1>4, <2>2, <3>2 DEF x
  <2>3. CASE Submitted # k
    BY <1>4, <2>1, <2>3
  <2> QED BY <2>2, <2>3
<1>16. /\ \A j \in Key : j # k /\ sch.state[j].state = "Ready" => sch'.state[j].state = "Ready"
       /\ \A j \in Key : InUse(sch, j) => InUse(sch', j)
  BY <1>4 DEF InUse
<1> QED BY <1>1, <1>8, <1>10, <1>13, <1>14, <1>15, <1>16, WorkerOuter

-----------------------------------------------------------------------------
(* The two disagreements over a warm load take a predictor.  Demand says    *)
(* that without one every task is for the executing tier, and that the      *)
(* transfers of an expert the manager has there are in the manager's own    *)
(* buffer.                                                                  *)

\* The buffer of a transfer at the executing tier.
BufferAt(t) == IF mode.device THEN t.device ELSE t.host

\* A task is for the executing tier; a predictor also asks for loads into RAM.
Targeted(p) ==
  /\ p.destination = Destination \/ (mode.adaptive /\ p.destination = "Ram")
  /\ p.prefetch => mode.adaptive
TargetsOK == \A k \in Key : Pending(sch, k) => Targeted(sch.pending[k])

\* A warm load is only asked for while the manager has the expert on disk, and
\* on the device without a predictor it is there already.
WarmOK ==
  pc = "requestWarm" =>
    /\ mgr[Submitted].location = "Nvme"
    /\ mode.device /\ ~mode.adaptive =>
         /\ ~Pending(sch, Submitted)
         /\ sch.state[Submitted].state = "Ready" /\ sch.state[Submitted].current = "Ram"

\* The expert to be acquired has no handle left.
LeasingOK == pc = "acquire" => handles[run.index] = NoHandle

\* The transfers of expert k, where they have a buffer at the executing tier,
\* have the manager's.
Held(k) ==
  /\ mgr[k].buffer # 0
  /\ BufferAt(sch.resident[k]) \in {0, mgr[k].buffer}
  /\ Pending(sch, k) =>
       /\ BufferAt(sch.pending[k].source) = mgr[k].buffer
       /\ BufferAt(sch.pending[k].out) \in {0, mgr[k].buffer}
  /\ \A g \in DOMAIN handles :
       KeyOf(g) = k /\ handles[g].status = "ready" =>
         BufferAt(handles[g].transfer) \in {0, mgr[k].buffer}
SingleOK == ~mode.adaptive => \A k \in Key : mgr[k].location = Destination => Held(k)

DisagreementsOK ==
  /\ failure = "pendingTarget" => mode.adaptive /\ mode.device
  /\ failure = "differentBuffer" => mode.adaptive

Demand == TargetsOK /\ WarmOK /\ LeasingOK /\ SingleOK /\ DisagreementsOK

\* A step leaves the task of expert k for the tier it was for.
Aimed(k) ==
  Pending(sch', k) =>
    \/ Targeted(sch'.pending[k])
    \/ /\ Pending(sch, k) /\ sch'.pending[k].destination = sch.pending[k].destination
       /\ sch'.pending[k].prefetch = sch.pending[k].prefetch

\* A step brings no buffer of expert k, if the manager has it where it executes.
Steady(k) ==
  mgr'[k].location = Destination =>
    /\ mgr'[k] = mgr[k]
    /\ sch'.resident[k] \in {sch.resident[k], Nothing}
    /\ Pending(sch', k) =>
         /\ Pending(sch, k) /\ sch'.pending[k].source = sch.pending[k].source
         /\ sch'.pending[k].out = sch.pending[k].out
    /\ \A g \in DOMAIN handles' :
         KeyOf(g)' = k /\ handles'[g].status = "ready" =>
           g \in DOMAIN handles /\ KeyOf(g) = k /\ handles'[g] = handles[g]

\* What keeps Demand.
LEMMA DemandStep ==
  ASSUME Demand, mode' = mode, WarmOK', LeasingOK', DisagreementsOK',
         \A k \in Key : Aimed(k),
         ~mode.adaptive => \A k \in Key : Steady(k) \/ Held(k)'
  PROVE  Demand'
<1>1. Destination' = Destination
  BY DEF Destination
<1>2. TargetsOK'
  <2> SUFFICES ASSUME NEW k \in Key, Pending(sch', k) PROVE Targeted(sch.pending[k])'
    BY DEF TargetsOK, Pending
  <2>1. \/ Targeted(sch'.pending[k])
        \/ /\ Pending(sch, k) /\ sch'.pending[k].destination = sch.pending[k].destination
           /\ sch'.pending[k].prefetch = sch.pending[k].prefetch
    BY DEF Aimed
  <2>2. Pending(sch, k) => Targeted(sch.pending[k])
    BY DEF Demand, TargetsOK
  <2> QED BY <1>1, <2>1, <2>2 DEF Targeted
<1>3. SingleOK'
  <2> SUFFICES ASSUME ~mode.adaptive, NEW k \in Key, mgr'[k].location = Destination, Steady(k)
               PROVE  Held(k)'
    BY <1>1 DEF SingleOK
  <2>1. /\ mgr'[k] = mgr[k]
        /\ sch'.resident[k] \in {sch.resident[k], Nothing}
        /\ Pending(sch', k) =>
             /\ Pending(sch, k) /\ sch'.pending[k].source = sch.pending[k].source
             /\ sch'.pending[k].out = sch.pending[k].out
        /\ \A g \in DOMAIN handles' :
             KeyOf(g)' = k /\ handles'[g].status = "ready" =>
               g \in DOMAIN handles /\ KeyOf(g) = k /\ handles'[g] = handles[g]
    BY DEF Steady
  <2>2. Held(k)
    BY <2>1 DEF Demand, SingleOK
  <2>3. mgr'[k].buffer # 0 /\ BufferAt(sch.resident[k])' \in {0, mgr'[k].buffer}
    BY <2>1, <2>2 DEF Held, BufferAt, Nothing
  <2>4. Pending(sch', k) =>
          /\ BufferAt(sch.pending[k].source)' = mgr'[k].buffer
          /\ BufferAt(sch.pending[k].out)' \in {0, mgr'[k].buffer}
    BY <2>1, <2>2 DEF Held, BufferAt
  <2>5. \A g \in DOMAIN handles' :
          KeyOf(g)' = k /\ handles'[g].status = "ready" =>
            BufferAt(handles[g].transfer)' \in {0, mgr'[k].buffer}
    BY <2>1, <2>2 DEF Held, BufferAt
  <2> QED BY <2>3, <2>4, <2>5 DEF Held, Pending
<1> QED BY <1>2, <1>3 DEF Demand

\* An expert with no transfer and no task is held, whatever its buffer.
LEMMA NothingHeld ==
  ASSUME NEW k, mgr'[k].buffer # 0, sch'.resident[k] = Nothing, ~Pending(sch', k),
         \A g \in DOMAIN handles' : KeyOf(g)' = k => handles'[g].status # "ready"
  PROVE  Held(k)'
  BY DEF Held, Pending, BufferAt, Nothing

\* A step that leaves tasks, transfers and store alone.
LEMMA SameDemand ==
  ASSUME Demand, UNCHANGED <<mode, mgr>>,
         sch'.pending = sch.pending, sch'.resident = sch.resident,
         WarmOK', pc' # "acquire", DisagreementsOK',
         \A g \in DOMAIN handles' :
           handles'[g].status = "ready" =>
             g \in DOMAIN handles /\ handles'[g] = handles[g] /\ KeyOf(g)' = KeyOf(g)
  PROVE  Demand'
<1>1. \A k \in Key : Aimed(k) /\ Steady(k)
  BY DEF Aimed, Steady, Pending
<1> QED BY <1>1, DemandStep DEF LeasingOK

\* An exception leaves executeBatch, where the manager brought in at most an
\* expert nothing is loaded for.
LEMMA LeaveDemand ==
  ASSUME Inv, Demand, mode' = mode, NEW reason, NEW s, Continues(sch, s), SchCoupled(s),
         Leave(reason), sch' \in {s, Released(s)},
         \A k \in Key : Pending(s, k) => Targeted(s.pending[k]),
         ~mode.adaptive =>
           \A k \in Key :
             /\ s.pending[k] = sch.pending[k] /\ s.resident[k] \in {sch.resident[k], Nothing}
             /\ \/ mgr'[k].location = Destination => mgr'[k] = mgr[k]
                \/ mgr'[k].buffer # 0 /\ ~Pending(s, k) /\ s.resident[k] = Nothing,
         reason = "pendingTarget" => mode.adaptive /\ mode.device,
         reason = "differentBuffer" => mode.adaptive
  PROVE  Demand'
<1>1. failure' = reason /\ pc' = "idle" /\ handles' = <<>>
  BY DEF Leave
<1>2. leased # NoLease => leased.key \in Key /\ InUse(s, leased.key)
  BY LeaseFacts DEF Continues, Inv, LeaseOK
<1>3. sch'.pending = s.pending /\ sch'.resident = s.resident
  BY <1>1, <1>2, ReleasedCoupled DEF Continues
<1>4. WarmOK' /\ LeasingOK' /\ DisagreementsOK'
  BY <1>1 DEF WarmOK, LeasingOK, DisagreementsOK
<1>5. \A k \in Key : Aimed(k)
  BY <1>3 DEF Aimed, Pending
<1>6. DOMAIN handles' = {}
  BY <1>1
<1>7. ASSUME ~mode.adaptive, NEW k \in Key PROVE Steady(k) \/ Held(k)'
  <2>0. /\ s.pending[k] = sch.pending[k] /\ s.resident[k] \in {sch.resident[k], Nothing}
        /\ \/ mgr'[k].location = Destination => mgr'[k] = mgr[k]
           \/ mgr'[k].buffer # 0 /\ ~Pending(s, k) /\ s.resident[k] = Nothing
    BY <1>7
  <2>1. CASE mgr'[k].location = Destination => mgr'[k] = mgr[k]
    BY <1>3, <1>6, <2>0, <2>1 DEF Steady, Pending
  <2>2. CASE mgr'[k].buffer # 0 /\ ~Pending(s, k) /\ s.resident[k] = Nothing
    BY <1>3, <1>6, <2>2, NothingHeld DEF Pending
  <2> QED BY <2>0, <2>1, <2>2
<1> QED BY <1>4, <1>5, <1>7, DemandStep

\* A throw.
LEMMA ThrowDemand ==
  ASSUME Inv, Demand, mode' = mode, NEW reason, NEW s, Continues(sch, s), SchCoupled(s),
         Throw(reason, s),
         \A k \in Key : Pending(s, k) => Targeted(s.pending[k]),
         ~mode.adaptive =>
           \A k \in Key :
             /\ s.pending[k] = sch.pending[k] /\ s.resident[k] \in {sch.resident[k], Nothing}
             /\ \/ mgr'[k].location = Destination => mgr'[k] = mgr[k]
                \/ mgr'[k].buffer # 0 /\ ~Pending(s, k) /\ s.resident[k] = Nothing,
         reason = "pendingTarget" => mode.adaptive /\ mode.device,
         reason = "differentBuffer" => mode.adaptive
  PROVE  Demand'
<1>1. CASE sch' = Released(s) /\ Leave(reason)
  BY <1>1, LeaveDemand
<1>2. CASE sch' = s /\ Leave("synchronize")
  BY <1>2, LeaveDemand
<1> QED BY <1>1, <1>2 DEF Throw, Abandon

\* A throw that leaves the scheduler and the store as they are.
LEMMA PlainThrowDemand ==
  ASSUME Inv, Outer, Demand, NEW reason, Throw(reason, sch), UNCHANGED <<mode, mgr>>,
         reason = "pendingTarget" => mode.adaptive /\ mode.device,
         reason = "differentBuffer" => mode.adaptive
  PROVE  Demand'
  BY SchStays, ThrowDemand DEF Outer, Demand, TargetsOK

\* A step of the executor that leaves the scheduler, the store and the handles
\* alone.
LEMMA StayDemand ==
  ASSUME Demand, UNCHANGED <<mode, mgr, sch, handles, failure>>,
         run'.layer = run.layer, run'.decision = run.decision,
         pc' \notin {"requestWarm", "acquire"}
  PROVE  Demand'
<1>1. WarmOK' /\ DisagreementsOK'
  BY DEF Demand, WarmOK, DisagreementsOK
<1>2. \A g : KeyOf(g)' = KeyOf(g)
  BY DEF KeyOf, Groups
<1> QED BY <1>1, <1>2, SameDemand

\* Initially.
LEMMA InitDemand == Init => Demand
<1> SUFFICES ASSUME Init PROVE Demand
  OBVIOUS
<1>1. /\ pc = "idle" /\ failure = "none"
      /\ \A k \in Key : sch.pending[k] = NoTask /\ mgr[k] = OnDisk
  BY DEF Init
<1>2. NoTask.phase = "none" /\ OnDisk.location = "Nvme" /\ Destination # "Nvme"
  BY DEF NoTask, OnDisk, Destination
<1> QED BY <1>1, <1>2
        DEF Demand, TargetsOK, WarmOK, LeasingOK, SingleOK, DisagreementsOK, Pending

\* The steps that only move the executor on.
LEMMA DispatchDemand ==
  ASSUME Inv, Outer, Demand, Dispatch
  PROVE  Demand'
<1>1. /\ UNCHANGED <<run, handles, sch, mode, mgr, failure>> /\ pc' = "submit"
  BY DEF Dispatch, Goto, Outer, UseOK
<1> QED BY <1>1, StayDemand

LEMMA ObserveHistoryDemand ==
  ASSUME Inv, Outer, Demand, ObserveHistory
  PROVE  Demand'
<1>1. pc = "observe" /\ Advance /\ UNCHANGED <<handles, sch, mode, mgr, failure>>
  BY DEF ObserveHistory
<1>2. pc' \in {"observe", "dispatch"} /\ run'.decision = run.decision /\ run'.layer = run.layer
  BY <1>1 DEF Advance, Inv, RunOK
<1> QED BY <1>1, <1>2, StayDemand

LEMMA OverlapDemand ==
  ASSUME Inv, Outer, Demand, Overlap
  PROVE  Demand'
<1>1. UNCHANGED <<handles, sch, mode, mgr, failure>>
      /\ (run' = run \/ \E n : run' = [run EXCEPT !.submitting = n, !.resume = "execute"])
      /\ pc' \in {"submit", "execute"}
  BY DEF Overlap, Goto
<1>2. run'.decision = run.decision /\ run'.layer = run.layer
  BY <1>1 DEF Inv, RunOK
<1> QED BY <1>1, <1>2, StayDemand

\* The waits.
LEMMA AwaitWarmDemand ==
  ASSUME Inv, Outer, Demand, AwaitWarm
  PROVE  Demand'
<1>1. CASE warm.ok
  <2>1. UNCHANGED <<run, handles, sch, mode, mgr, failure>> /\ pc' = "stage"
    BY <1>1 DEF AwaitWarm, Goto
  <2> QED BY <2>1, StayDemand
<1>2. CASE ~warm.ok
  <2>1. Throw("transfer", sch) /\ UNCHANGED <<mode, mgr>>
    BY <1>2 DEF AwaitWarm
  <2> QED BY <2>1, PlainThrowDemand
<1> QED BY <1>1, <1>2

LEMMA AwaitExpertDemand ==
  ASSUME Inv, Outer, Demand, AwaitExpert
  PROVE  Demand'
<1> DEFINE h == handles[run.index]
<1>1. CASE h.status = "none"
  <2>1. /\ UNCHANGED <<handles, sch, mode, mgr, failure>> /\ pc' = "submit"
        /\ run' = [run EXCEPT !.submitting = run.index, !.resume = "await"]
    BY <1>1 DEF AwaitExpert, Goto
  <2>2. run'.decision = run.decision /\ run'.layer = run.layer
    BY <2>1 DEF Inv, RunOK
  <2> QED BY <2>1, <2>2, StayDemand
<1>2. CASE h.status # "none" /\ h.ok
  <2>1. UNCHANGED <<run, handles, sch, mode, mgr, failure>> /\ pc' = "adopt"
    BY <1>2 DEF AwaitExpert, Goto
  <2> QED BY <2>1, StayDemand
<1>3. CASE h.status # "none" /\ ~h.ok
  <2>1. Throw("transfer", sch) /\ UNCHANGED <<mode, mgr>>
    BY <1>3 DEF AwaitExpert
  <2> QED BY <2>1, PlainThrowDemand
<1> QED BY <1>1, <1>2, <1>3

\* The layer ends, or the expert fails.
LEMMA ExecuteExpertDemand ==
  ASSUME Inv, Outer, Demand, ExecuteExpert
  PROVE  Demand'
<1>1. /\ pc = "execute" /\ UNCHANGED <<handles, mode, mgr, failure>> /\ sch' = Released(sch)
      /\ run' = [run EXCEPT !.index = @ + 1] /\ pc' \in {"return", "await"}
  BY DEF ExecuteExpert, Goto
<1>2. run'.decision = run.decision /\ run'.layer = run.layer
  BY <1>1 DEF Inv, RunOK
<1>3. leased # NoLease => leased.key \in Key /\ InUse(sch, leased.key)
  BY LeaseFacts DEF Inv, LeaseOK
<1>4. sch'.pending = sch.pending /\ sch'.resident = sch.resident
  BY <1>1, <1>3, ReleasedCoupled DEF Inv, Outer
<1>5. WarmOK' /\ DisagreementsOK'
  BY <1>1 DEF Demand, WarmOK, DisagreementsOK
<1>6. \A g : KeyOf(g)' = KeyOf(g)
  BY <1>2 DEF KeyOf, Groups
<1> QED BY <1>1, <1>4, <1>5, <1>6, SameDemand

LEMMA FailExpertDemand ==
  ASSUME Inv, Outer, Demand, FailExpert
  PROVE  Demand'
<1>1. /\ UNCHANGED <<mode, mgr>> /\ sch' \in {sch, Released(sch)}
      /\ Leave("executor") \/ Leave("synchronize")
  BY DEF FailExpert, Abandon
<1>2. SchCoupled(sch) /\ \A k \in Key : Pending(sch, k) => Targeted(sch.pending[k])
  BY DEF Outer, Demand, TargetsOK
<1> QED BY <1>1, <1>2, SchStays, LeaveDemand

LEMMA ReturnLayerDemand ==
  ASSUME Inv, Outer, Demand, ReturnLayer
  PROVE  Demand'
<1>1. pc' = "idle" /\ handles' = <<>> /\ UNCHANGED <<mode, sch, mgr, failure>>
  BY DEF ReturnLayer, Goto
<1>2. WarmOK' /\ DisagreementsOK' /\ DOMAIN handles' = {}
  BY <1>1 DEF Demand, WarmOK, DisagreementsOK
<1> QED BY <1>1, <1>2, SameDemand

\* A load into RAM that is waited for on the device without a predictor is one
\* the lifecycle already calls ready, for every task is for the device.
LEMMA ReadExpertDemand ==
  ASSUME Inv, Outer, Demand, ReadExpert
  PROVE  Demand'
<1> DEFINE k == Submitted
           x == sch.state[k]
           t == sch.pending[k]
<1>1. /\ pc = "submit" /\ pc' \in {"requestWarm", "stage"}
      /\ UNCHANGED <<run, handles, sch, mode, mgr, failure>>
      /\ pc' = "requestWarm" => /\ mgr[k].location = "Nvme" /\ x.target = "Ram"
                                /\ x.state \in {"Queued", "Loading", "Ready"}
  BY DEF ReadExpert, Goto
<1>2. k \in Key /\ Submitted' = k /\ \A g : KeyOf(g)' = KeyOf(g)
  BY <1>1, SubmittedFacts DEF Running, Submitting, Submitted, KeyOf, Groups
<1>3. Coupled(x, t, sch.resident[k])
  BY <1>2 DEF Outer, SchCoupled
<1>4. ASSUME pc' = "requestWarm", mode.device, ~mode.adaptive
      PROVE  t.phase = "none" /\ x.state = "Ready" /\ x.current = "Ram"
  <2>1. t.phase # "none" => t.destination = "Vram"
    BY <1>2, <1>4 DEF Demand, TargetsOK, Targeted, Destination, Pending
  <2>2. x.target = "Ram" /\ x.state \in {"Queued", "Loading", "Ready"}
    BY <1>1, <1>4
  <2>3. t.phase \in {"none", "queued", "loading", "loaded", "retained", "failed"}
    <3>1. t = NoTask \/ t \in Task
      BY <1>2, SchParts DEF Inv, SchOK
    <3> HIDE DEF t
    <3> QED BY <3>1 DEF NoTask, Task
  <2> HIDE DEF x, t
  <2>4. t.phase \notin {"queued", "loading", "loaded"}
    BY <1>3, <2>1, <2>2 DEF Coupled
  <2>5. t.phase \notin {"retained", "failed"}
    BY <1>3, <2>1, <2>2 DEF Coupled
  <2> QED BY <1>3, <2>2, <2>3, <2>4, <2>5 DEF Coupled
<1> HIDE DEF x, t
<1>5. WarmOK'
  <2> SUFFICES ASSUME pc' = "requestWarm"
               PROVE  /\ mgr'[k].location = "Nvme"
                      /\ mode'.device /\ ~mode'.adaptive =>
                           /\ ~Pending(sch', k)
                           /\ sch'.state[k].state = "Ready" /\ sch'.state[k].current = "Ram"
    BY <1>2 DEF WarmOK, Pending
  <2> QED BY <1>1, <1>4 DEF Pending, x, t
<1>6. DisagreementsOK'
  BY <1>1 DEF Demand, DisagreementsOK
<1> QED BY <1>1, <1>2, <1>5, <1>6, SameDemand

\* What a request does to the expert it is asked for, if it is accepted.
LEMMA ScheduleAims ==
  ASSUME NEW s, s \in SchType, NEW t, NEW k \in Key, NEW request \in RequestType,
         Schedules(s, t, k, request, ScheduleKind(s, k, request)),
         ScheduleKind(s, k, request) # "new"
  PROVE  \A j \in Key :
           /\ Pending(t, j) <=> Pending(s, j)
           /\ Pending(s, j) =>
                /\ t.pending[j].destination = s.pending[j].destination
                /\ t.pending[j].prefetch = s.pending[j].prefetch
                /\ t.pending[j].source = s.pending[j].source
                /\ t.pending[j].out = s.pending[j].out
<1> DEFINE kind == ScheduleKind(s, k, request)
<1> SUFFICES ASSUME NEW j \in Key
             PROVE  /\ Pending(t, j) <=> Pending(s, j)
                    /\ Pending(s, j) =>
                         /\ t.pending[j].destination = s.pending[j].destination
                         /\ t.pending[j].prefetch = s.pending[j].prefetch
                         /\ t.pending[j].source = s.pending[j].source
                         /\ t.pending[j].out = s.pending[j].out
  OBVIOUS
<1>1. CASE j = k /\ kind = "join"
  <2>1. t.pending[k] = Joined(s.pending[k], request) /\ Pending(s, k)
    BY <1>1 DEF Schedules, ScheduleKind, Pending
  <2>2. s.pending[k] \in Task
    BY <2>1, SchParts
  <2> QED BY <1>1, <2>1, <2>2 DEF Joined, Task, Pending
<1>2. CASE ~(j = k /\ kind = "join")
  <2>1. t.pending[j] = s.pending[j]
    BY <1>2 DEF Schedules
  <2> QED BY <2>1 DEF Pending
<1> QED BY <1>1, <1>2

\* The warm load is requested: a load into RAM, which on the device without a
\* predictor is there.
LEMMA RequestWarmDemand ==
  ASSUME Inv, Outer, Demand, RequestWarm
  PROVE  Demand'
<1> DEFINE k == Submitted
           kind == ScheduleKind(sch, k, WarmRequest)
           s == ScheduleOf(sch, k, WarmRequest)
<1>1. pc = "requestWarm" /\ UNCHANGED <<mode, mgr>> /\ pc \in Submitting
  BY DEF RequestWarm, Submitting
<1>2. /\ k \in Key /\ SchOK(sch) /\ sch \in SchType /\ SchCoupled(sch)
      /\ WarmRequest \in RequestType /\ WarmRequest.prefetch = FALSE
      /\ WarmRequest.destination = "Ram"
  BY <1>1, SubmittedFacts, RequestFacts
     DEF Running, Inv, StoreOK, Outer, SchOK, WarmRequest, Request
<1>3. SchCoupled(s) /\ Continues(sch, s) /\ Schedules(sch, s, k, WarmRequest, kind)
      /\ kind \in {"pendingTarget", "join", "ready", "new", "transition"}
  BY <1>2, ScheduleCoupled, ScheduleContinues, ScheduleShape
<1>4. mgr[k].location = "Nvme" /\ Destination # "Nvme"
  BY <1>1 DEF Demand, WarmOK, Destination
<1>5. mode.device /\ ~mode.adaptive => kind = "ready"
  BY <1>1, <1>2 DEF Demand, WarmOK, ScheduleKind, Pending
<1>6. kind = "pendingTarget" => Pending(sch, k) /\ sch.pending[k].destination # "Ram"
  BY <1>2 DEF ScheduleKind, Pending
<1>7. kind = "pendingTarget" => mode.device /\ mode.adaptive
  BY <1>2, <1>5, <1>6 DEF Demand, TargetsOK, Targeted, Destination
<1>8. kind # "new" =>
        \A j \in Key :
          /\ Pending(s, j) <=> Pending(sch, j)
          /\ Pending(sch, j) =>
               /\ s.pending[j].destination = sch.pending[j].destination
               /\ s.pending[j].prefetch = sch.pending[j].prefetch
               /\ s.pending[j].source = sch.pending[j].source
               /\ s.pending[j].out = sch.pending[j].out
  BY <1>2, <1>3, ScheduleAims
<1>9. kind = "new" => /\ s.pending[k] = FreshTask(WarmRequest)
                      /\ \A j \in Key : j # k => s.pending[j] = sch.pending[j]
  BY <1>3 DEF Schedules
<1>10. s.resident = sch.resident /\ (kind \notin {"new", "join"} => \A j \in Key : s.pending[j] = sch.pending[j])
  BY <1>3 DEF Schedules
<1>11. \A j \in Key : Pending(s, j) => Targeted(s.pending[j])
  <2>1. CASE kind # "new"
    BY <1>8, <2>1 DEF Demand, TargetsOK, Targeted
  <2>2. CASE kind = "new"
    <3>1. Targeted(FreshTask(WarmRequest))
      BY <1>2, <1>5, <2>2 DEF Targeted, FreshTask, Destination
    <3> QED BY <1>9, <2>2, <3>1 DEF Demand, TargetsOK, Pending
  <2> QED BY <2>1, <2>2
<1>12. CASE Accepts(kind)
  <2>1. sch' = s /\ pc' = "warm" /\ failure' = failure /\ UNCHANGED <<run, handles>>
    BY <1>1, <1>12, Zenon DEF RequestWarm, Goto
  <2>2. WarmOK' /\ LeasingOK' /\ DisagreementsOK' /\ \A g : KeyOf(g)' = KeyOf(g)
    BY <1>1, <2>1 DEF Demand, WarmOK, LeasingOK, DisagreementsOK, KeyOf, Groups
  <2> HIDE DEF s, kind
  <2>3. \A j \in Key : Aimed(j)
    BY <1>11, <2>1 DEF Aimed
  <2>4. ASSUME NEW j \in Key PROVE Steady(j)
    <3>1. CASE j = k
      BY <1>1, <1>4, <3>1 DEF Steady
    <3>2. CASE j # k
      <4>1. Pending(s, j) => Pending(sch, j) /\ s.pending[j].source = sch.pending[j].source
                             /\ s.pending[j].out = sch.pending[j].out
        BY <1>8, <1>9, <3>2 DEF Pending
      <4> QED BY <1>1, <1>10, <2>1, <2>2, <4>1 DEF Steady
    <3> QED BY <3>1, <3>2
  <2> QED BY <1>1, <2>2, <2>3, <2>4, DemandStep
<1>13. CASE ~Accepts(kind)
  <2>1. Throw(kind, s) /\ kind \in {"pendingTarget", "transition"}
    BY <1>1, <1>3, <1>13 DEF RequestWarm, Accepts
  <2> HIDE DEF s, kind
  <2> QED BY <1>1, <1>3, <1>7, <1>10, <1>11, <2>1, ThrowDemand
<1> QED BY <1>12, <1>13

\* The retained warm buffer is the manager's.
LEMMA StageDemand ==
  ASSUME Inv, Outer, Demand, Stage
  PROVE  Demand'
<1> DEFINE k == Submitted
           buffer == CachedHost(sch, k)
           adopted == Adopt(k, "Ram", buffer)
<1>1. pc = "stage" /\ UNCHANGED mode /\ pc \in Submitting
  BY DEF Stage, Submitting
<1>2. /\ k \in Key /\ SchOK(sch) /\ SchCoupled(sch) /\ mode \in Modes /\ mgr \in [Key -> Placement]
      /\ IsFiniteSet(DOMAIN handles)
  BY <1>1, SubmittedFacts, HandlesFinite DEF Running, Inv, StoreOK, Outer
<1>3. CASE buffer = 0 \/ mgr[k].location # "Nvme"
  <2>1. pc' = "reconcile" /\ UNCHANGED <<run, handles, sch, mode, mgr, failure>>
    BY <1>1, <1>3 DEF Stage, Goto
  <2> QED BY <2>1, StayDemand
<1>4. CASE ~(buffer = 0 \/ mgr[k].location # "Nvme")
  <2>1. ~Pending(sch, k) /\ buffer \in Nat /\ ~InUse(sch, k)
    <3>1. sch.resident[k] \in Transfer
      BY <1>2, SchParts DEF SchOK
    <3>2. ~Pending(sch, k) /\ buffer \in Nat /\ sch.resident[k].host # 0
      BY <1>4, <3>1 DEF CachedHost, Pending, Transfer
    <3> QED BY <1>2, <3>2 DEF SchOK, Nothing
  <2>2. CanAcknowledge(sch, k)
    BY <1>1, <1>2, <2>1, FreeReconciles
  <2> HIDE DEF buffer
  <2>3. adopted # {}
    <3>1. leased.key \in Key /\ mgr[leased.key].location = "Ram" => Limit("Ram") >= 2
      BY <1>1, RoomHere DEF Outer
    <3> QED BY <1>2, <2>1, <3>1, AdoptSettled
  <2>4. /\ mgr' \in adopted /\ sch' = Acknowledge(sch, k, "Ram")
        /\ pc' = "reconcile" /\ failure' = failure /\ UNCHANGED <<run, handles>>
    <3> HIDE DEF adopted
    <3> QED BY <1>1, <1>4, <2>2, <2>3 DEF Stage, Goto, buffer, adopted
  <2>5. /\ \A j \in Key \ {k} : mgr'[j] = mgr[j] \/ mgr'[j].location \notin {"Ram", "Vram"}
        /\ mgr'[k] = [location |-> "Ram", buffer |-> buffer]
    BY <1>2, <1>4, <2>4, AdoptElsewhere
  <2> HIDE DEF adopted
  <2>6. sch'.pending = sch.pending /\ sch'.resident[k] = Nothing
        /\ \A j \in Key : j # k => sch'.resident[j] = sch.resident[j]
    BY <1>2, <2>2, <2>4, AcknowledgeCoupled
  <2>7. WarmOK' /\ LeasingOK' /\ DisagreementsOK' /\ Destination \in {"Ram", "Vram"}
        /\ \A g : KeyOf(g)' = KeyOf(g)
    BY <1>1, <2>4 DEF Demand, WarmOK, LeasingOK, DisagreementsOK, KeyOf, Groups, Destination
  <2>8. \A j \in Key : Aimed(j)
    BY <2>6 DEF Aimed, Pending
  <2>9. ASSUME NEW j \in Key PROVE Steady(j) \/ Held(j)'
    <3>1. CASE j = k
      <4>1. \A g \in DOMAIN handles' : KeyOf(g)' = k => handles'[g].status # "ready"
        BY <1>1, <2>4, <2>7, OtherHandles DEF NoHandle
      <4>2. mgr'[k].buffer # 0 /\ ~Pending(sch', k)
        BY <1>4, <2>1, <2>5, <2>6 DEF Pending
      <4> QED BY <2>6, <3>1, <4>1, <4>2, NothingHeld
    <3>2. CASE j # k
      BY <2>4, <2>5, <2>6, <2>7, <3>2 DEF Steady, Pending
    <3> QED BY <3>1, <3>2
  <2> QED BY <1>1, <2>7, <2>8, <2>9, DemandStep
<1> QED BY <1>3, <1>4

\* The lifecycle is brought in line with the manager.
LEMMA ReconcileDemand ==
  ASSUME Inv, Outer, Demand, Reconcile
  PROVE  Demand'
<1> DEFINE k == Submitted
           idle == sch.pending[k].phase = "none" /\ sch.resident[k] = Nothing
           x == ReconcileOf(sch.state[k], mgr[k].location)
<1>1. UNCHANGED <<mode, mgr>>
  BY DEF Reconcile
<1>2. CASE idle /\ ~CanReconcile(sch.state[k])
  <2>1. Throw("reconcile", sch)
    BY <1>2 DEF Reconcile
  <2> QED BY <1>1, <2>1, PlainThrowDemand
<1>3. CASE ~(idle /\ ~CanReconcile(sch.state[k]))
  <2>1. /\ sch' = IF idle THEN [sch EXCEPT !.state[k] = x] ELSE sch
        /\ pc' = "request" /\ failure' = failure /\ UNCHANGED <<run, handles>>
    BY <1>3, Zenon DEF Reconcile, Goto
  <2>2. sch = [state |-> sch.state, pending |-> sch.pending, resident |-> sch.resident,
               prefetched |-> sch.prefetched]
    BY DEF Inv, SchOK, SchType
  <2> HIDE DEF x, idle
  <2>3. sch'.pending = sch.pending /\ sch'.resident = sch.resident
    BY <2>1, <2>2
  <2>4. WarmOK' /\ DisagreementsOK' /\ \A g : KeyOf(g)' = KeyOf(g)
    BY <1>1, <2>1 DEF Demand, WarmOK, DisagreementsOK, KeyOf, Groups
  <2> QED BY <1>1, <2>1, <2>3, <2>4, SameDemand
<1> QED BY <1>2, <1>3

\* Room is made and the load requested, from the manager's own buffer if it has
\* the expert where it executes.
LEMMA RequestExpertDemand ==
  ASSUME Inv, Outer, Demand, RequestExpert
  PROVE  Demand'
<1> DEFINE k == Submitted
           at == mgr[k]
           source == [host |-> IF at.location = "Ram" THEN at.buffer ELSE 0,
                      device |-> IF at.location = "Vram" THEN at.buffer ELSE 0]
           request == Request(Destination, at.location, source, FALSE)
           kind == ScheduleKind(sch, k, request)
           s == ScheduleOf(sch, k, request)
           h == HandleOf(sch, k, request)
           rooms == PrepareResidency(k)
<1>1. pc = "request" /\ mode' = mode /\ pc \in Submitting
  BY DEF RequestExpert, Submitting
<1>2. /\ k \in Key /\ SchOK(sch) /\ sch \in SchType /\ SchCoupled(sch) /\ mode \in Modes
      /\ mgr \in [Key -> Placement] /\ IsFiniteSet(DOMAIN handles)
  BY <1>1, SubmittedFacts, HandlesFinite DEF Running, Inv, StoreOK, Outer, SchOK
<1>3. /\ request \in RequestType /\ request.prefetch = FALSE /\ request.destination = Destination
      /\ Destination \in {"Ram", "Vram"}
      /\ mgr[k].location = Destination => BufferAt(request.source) = mgr[k].buffer
  <2>1. at \in Placement
    BY <1>2
  <2>2. source \in Transfer /\ at.location \in {"Nvme", "Ram", "Vram"}
    BY <2>1 DEF Transfer, Placement
  <2>3. Destination \in {"Ram", "Vram"}
    BY DEF Destination
  <2>4. at.location = Destination => BufferAt(source) = at.buffer
    BY DEF BufferAt, Destination
  <2> HIDE DEF source, at
  <2>5. /\ request \in RequestType /\ request.prefetch = FALSE /\ request.destination = Destination
        /\ request.source = source
    BY <2>2, <2>3 DEF Request, RequestType
  <2> QED BY <2>3, <2>4, <2>5 DEF at
<1>4. /\ rooms # {}
      /\ \A r \in rooms, j \in Key : r[j].location = Destination => r[j] = mgr[j]
  <2>1. CASE mgr[k].location = Destination
    <3>1. rooms = {mgr}
      BY <2>1 DEF PrepareResidency
    <3> HIDE DEF rooms
    <3> QED BY <3>1
  <2>2. CASE mgr[k].location # Destination
    <3>1. rooms = MakeRoom(mgr, Destination, k)
      BY <2>2 DEF PrepareResidency
    <3>2. leased.key \in Key /\ mgr[leased.key].location = Destination => Limit(Destination) >= 2
      BY <1>1, RoomHere DEF Outer
    <3>3. rooms # {}
      BY <1>2, <1>3, <2>2, <3>1, <3>2, RoomExists
    <3>4. \A r \in rooms : Elsewhere(mgr, r, Destination)
      BY <1>2, <1>3, <3>1, MakeRoomElsewhere
    <3> HIDE DEF rooms
    <3> QED BY <3>3, <3>4 DEF Elsewhere
  <2> QED BY <2>1, <2>2
<1> HIDE DEF request, rooms
<1>5. /\ SchCoupled(s) /\ Continues(sch, s) /\ Schedules(sch, s, k, request, kind)
      /\ kind \in {"pendingTarget", "join", "ready", "new", "transition"}
      /\ Accepts(kind) /\ h.status = "ready" => h.transfer = sch.resident[k]
  BY <1>2, <1>3, ScheduleCoupled, ScheduleContinues, ScheduleShape
<1>6. kind = "pendingTarget" => mode.adaptive /\ mode.device
  <2>1. kind = "pendingTarget" => Pending(sch, k) /\ sch.pending[k].destination # Destination
    BY <1>3 DEF ScheduleKind, Pending
  <2> QED BY <1>2, <2>1 DEF Demand, TargetsOK, Targeted, Destination
<1>7. kind # "new" =>
        \A j \in Key :
          /\ Pending(s, j) <=> Pending(sch, j)
          /\ Pending(sch, j) =>
               /\ s.pending[j].destination = sch.pending[j].destination
               /\ s.pending[j].prefetch = sch.pending[j].prefetch
               /\ s.pending[j].source = sch.pending[j].source
               /\ s.pending[j].out = sch.pending[j].out
  BY <1>2, <1>3, <1>5, ScheduleAims
<1>8. /\ kind = "new" => s.pending[k] = FreshTask(request)
      /\ \A j \in Key : j # k => s.pending[j] = sch.pending[j]
      /\ kind \notin {"new", "join"} => \A j \in Key : s.pending[j] = sch.pending[j]
      /\ s.resident = sch.resident
  BY <1>5 DEF Schedules
<1>9. \A j \in Key : Pending(s, j) => Targeted(s.pending[j])
  <2>1. CASE kind # "new"
    BY <1>7, <2>1 DEF Demand, TargetsOK, Targeted
  <2>2. CASE kind = "new"
    <3>1. Targeted(FreshTask(request))
      BY <1>3 DEF Targeted, FreshTask
    <3> QED BY <1>8, <2>2, <3>1 DEF Demand, TargetsOK, Pending
  <2> QED BY <2>1, <2>2
<1>10. /\ mgr' \in rooms
       /\ IF Accepts(kind)
            THEN /\ handles' = [handles EXCEPT ![run.submitting] = h]
                 /\ sch' = s /\ pc' = run.resume /\ failure' = failure /\ UNCHANGED run
            ELSE Throw(kind, s)
  BY <1>1, <1>4, Zenon DEF RequestExpert, Goto, rooms, request
<1>11. \A j \in Key : mgr'[j].location = Destination => mgr'[j] = mgr[j]
  BY <1>4, <1>10
<1> HIDE DEF kind, s, h
<1>12. CASE Accepts(kind)
  <2>1. /\ handles' = [handles EXCEPT ![run.submitting] = h]
        /\ sch' = s /\ pc' = run.resume /\ failure' = failure /\ UNCHANGED run
    BY <1>10, <1>12
  <2>2. run.resume \in {"await", "execute"} /\ run.submitting \in DOMAIN handles
    BY <1>1 DEF Inv, RunOK, HandlesOK, Running, Submitting
  <2>3. DOMAIN handles' = DOMAIN handles
        /\ \A g \in DOMAIN handles : handles'[g] = IF g = run.submitting THEN h ELSE handles[g]
    BY <2>1, <2>2
  <2>4. WarmOK' /\ LeasingOK' /\ DisagreementsOK' /\ Destination' = Destination
        /\ \A g : KeyOf(g)' = KeyOf(g)
    BY <1>1, <2>1, <2>2
       DEF Demand, WarmOK, LeasingOK, DisagreementsOK, KeyOf, Groups, Destination
  <2>5. \A j \in Key : Aimed(j)
    BY <1>9, <2>1 DEF Aimed
  <2>6. KeyOf(run.submitting) = k
    BY DEF Submitted
  <2>7. ASSUME NEW j \in Key, j # k PROVE Steady(j)
    BY <1>8, <1>11, <2>1, <2>3, <2>4, <2>6, <2>7 DEF Steady, Pending
  <2>8. ASSUME ~mode.adaptive, NEW j \in Key, j = k, mgr'[j].location = Destination PROVE Held(j)'
    <3>1. mgr'[j] = mgr[j] /\ Held(j)
      BY <1>2, <1>11, <2>8 DEF Demand, SingleOK
    <3>2. mgr'[j].buffer # 0 /\ BufferAt(sch.resident[j])' \in {0, mgr'[j].buffer}
      BY <1>1, <1>8, <2>1, <3>1 DEF Held, BufferAt
    <3>3. Pending(sch', j) =>
            /\ BufferAt(sch.pending[j].source)' = mgr'[j].buffer
            /\ BufferAt(sch.pending[j].out)' \in {0, mgr'[j].buffer}
      <4>1. CASE kind = "new"
        <5>1. sch'.pending[j].source = request.source /\ sch'.pending[j].out = Nothing
          BY <1>8, <2>1, <2>8, <4>1 DEF FreshTask
        <5>2. BufferAt(request.source) = mgr[j].buffer
          BY <1>3, <2>8, <3>1
        <5> QED BY <1>1, <3>1, <5>1, <5>2 DEF BufferAt, Nothing
      <4>2. CASE kind # "new"
        BY <1>1, <1>2, <1>7, <2>1, <3>1, <4>2 DEF Held, BufferAt
      <4> QED BY <4>1, <4>2
    <3>4. \A g \in DOMAIN handles' :
            KeyOf(g)' = j /\ handles'[g].status = "ready" =>
              BufferAt(handles[g].transfer)' \in {0, mgr'[j].buffer}
      <4> SUFFICES ASSUME NEW g \in DOMAIN handles, KeyOf(g) = j, handles'[g].status = "ready"
                   PROVE  BufferAt(handles[g].transfer)' \in {0, mgr'[j].buffer}
        BY <2>3, <2>4
      <4>1. g = run.submitting
        <5>1. g # run.submitting => handles'[g] = handles[g] /\ handles[g] # NoHandle
          BY <2>3 DEF NoHandle
        <5> QED BY <1>1, <2>8, <5>1, OtherHandles
      <4>2. handles'[g].transfer = sch.resident[j]
        BY <1>5, <1>12, <2>3, <2>8, <4>1
      <4> QED BY <1>1, <3>1, <4>2 DEF Held, BufferAt
    <3> QED BY <3>2, <3>3, <3>4 DEF Held, Pending
  <2>9. ASSUME ~mode.adaptive, NEW j \in Key PROVE Steady(j) \/ Held(j)'
    <3>1. CASE j = k /\ mgr'[j].location = Destination
      BY <2>8, <2>9, <3>1
    <3>2. CASE j = k /\ mgr'[j].location # Destination
      BY <3>2 DEF Steady
    <3> QED BY <2>7, <2>9, <3>1, <3>2
  <2> QED BY <1>1, <2>4, <2>5, <2>9, DemandStep
<1>13. CASE ~Accepts(kind)
  <2>1. Throw(kind, s) /\ kind \in {"pendingTarget", "transition"}
    BY <1>5, <1>10, <1>13 DEF Accepts
  <2> QED BY <1>1, <1>5, <1>6, <1>8, <1>9, <1>11, <2>1, ThrowDemand
<1> QED BY <1>12, <1>13

\* The transferred buffer is adopted; without a predictor it is the manager's
\* if the manager has the expert there.
LEMMA AdoptExpertDemand ==
  ASSUME Inv, Outer, Demand, AdoptExpert
  PROVE  Demand'
<1> DEFINE k == Current
           i == run.index
           h == handles[i]
           t == h.transfer
           buffer == IF mode.device THEN t.device ELSE t.host
           adopted == IF buffer = 0 THEN {mgr} ELSE Adopt(k, Destination, buffer)
           known == IF buffer = 0 THEN offsets ELSE offsets \cup {k}
           s == Acknowledge(sch, k, Destination)
<1>1. pc = "adopt" /\ UNCHANGED mode
  BY DEF AdoptExpert
<1>2. /\ k \in Key /\ SchOK(sch) /\ SchCoupled(sch) /\ mode \in Modes /\ mgr \in [Key -> Placement]
      /\ IsFiniteSet(DOMAIN handles) /\ i \in DOMAIN handles /\ i \in DOMAIN Groups
      /\ Destination \in {"Ram", "Vram"} /\ DOMAIN handles = DOMAIN Groups
  BY <1>1, SubmittedFacts, HandlesFinite
     DEF Running, Inv, StoreOK, Outer, HandlesOK, RunOK, Destination
<1>3. h.status = "ready" /\ h.ok /\ h \in Handle /\ Answers(h, k)
  BY <1>1, <1>2 DEF Inv, HandlesOK, Outer, AnswersOK, Current
<1>4. t \in Transfer /\ buffer \in Nat /\ buffer = BufferAt(t)
  <2>1. h \in Ready
    BY <1>3 DEF Handle, NoHandle, Waiting
  <2> HIDE DEF h
  <2> QED BY <2>1 DEF Ready, Transfer, BufferAt
<1>5. ~Pending(sch, k) /\ (CanAcknowledge(sch, k) \/ InUse(sch, k))
  <2>1. ~Pending(sch, k)
    BY <1>2, <1>3 DEF Answers
  <2> QED BY <1>2, <2>1, FreeReconciles
<1>6. k \in known
  <2> HIDE DEF h, k
  <2> QED BY <1>3 DEF Answers, HasBuffer, Destination
<1>7. ~mode.adaptive => ~(buffer # 0 /\ Conflicts(k, Destination, buffer))
  <2> SUFFICES ASSUME ~mode.adaptive, mgr[k].location = Destination
               PROVE  buffer \in {0, mgr[k].buffer}
    <3> HIDE DEF buffer, k
    <3> QED BY DEF Conflicts
  <2>1. Held(k) /\ KeyOf(i) = k
    BY <1>2 DEF Demand, SingleOK, Current
  <2> QED BY <1>2, <1>3, <1>4, <2>1 DEF Held
<1>8. /\ adopted # {}
      /\ \A r \in adopted :
           /\ \A j \in Key \ {k} : r[j] = mgr[j] \/ r[j].location # Destination
           /\ \/ r[k] = mgr[k]
              \/ r[k].buffer = buffer /\ buffer # 0
  <2> HIDE DEF buffer, k
  <2>1. CASE buffer = 0
    <3>1. adopted = {mgr}
      BY <2>1
    <3> HIDE DEF adopted
    <3> QED BY <3>1
  <2>2. CASE buffer # 0
    <3>1. adopted = Adopt(k, Destination, buffer)
      BY <2>2
    <3>2. leased.key \in Key /\ mgr[leased.key].location = Destination => Limit(Destination) >= 2
      BY <1>1, RoomHere DEF Outer
    <3> HIDE DEF adopted
    <3>3. adopted # {}
      BY <1>2, <1>4, <2>2, <3>1, <3>2, AdoptSettled
    <3>4. ASSUME NEW r \in adopted
          PROVE  /\ \A j \in Key \ {k} : r[j] = mgr[j] \/ r[j].location \notin {Destination, "Vram"}
                 /\ r[k] = IF mgr[k].location = Destination THEN mgr[k]
                           ELSE [location |-> Destination, buffer |-> buffer]
      BY <1>2, <3>1, <3>4, AdoptElsewhere
    <3> QED BY <2>2, <3>3, <3>4
  <2> QED BY <2>1, <2>2
<1>9. CASE buffer # 0 /\ Conflicts(k, Destination, buffer)
  <2>1. Throw("differentBuffer", sch) /\ UNCHANGED <<mgr, offsets>>
    BY <1>1, <1>9 DEF AdoptExpert
  <2>2. mode.adaptive
    BY <1>7, <1>9
  <2> QED BY <1>1, <2>1, <2>2, PlainThrowDemand
<1>a. CASE ~(buffer # 0 /\ Conflicts(k, Destination, buffer)) /\ ~CanAcknowledge(sch, k)
  <2>1. mgr' \in adopted /\ Throw("reconcile", sch)
    BY <1>1, <1>8, <1>a, Zenon DEF AdoptExpert
  <2> HIDE DEF adopted, buffer
  <2>2. sch.resident[k] = Nothing
    BY <1>2, <1>5, <1>a DEF SchOK
  <2>3. \A j \in Key :
          \/ mgr'[j].location = Destination => mgr'[j] = mgr[j]
          \/ mgr'[j].buffer # 0 /\ ~Pending(sch, j) /\ sch.resident[j] = Nothing
    BY <1>5, <1>8, <2>1, <2>2
  <2>4. SchCoupled(sch) /\ \A j \in Key : Pending(sch, j) => Targeted(sch.pending[j])
    BY DEF Outer, Demand, TargetsOK
  <2> QED BY <1>1, <2>1, <2>3, <2>4, SchStays, ThrowDemand
<1>10. CASE ~(buffer # 0 /\ Conflicts(k, Destination, buffer)) /\ CanAcknowledge(sch, k)
  <2>1. /\ mgr' \in adopted /\ sch' = s
        /\ handles' = [handles EXCEPT ![i] = NoHandle]
        /\ pc' = "acquire" /\ failure' = failure /\ UNCHANGED run
    BY <1>1, <1>6, <1>8, <1>10, Zenon DEF AdoptExpert, Goto
  <2> HIDE DEF adopted, buffer
  <2>2. /\ s.pending = sch.pending /\ s.resident[k] = Nothing
        /\ \A j \in Key : j # k => s.resident[j] = sch.resident[j]
    BY <1>2, <1>10, AcknowledgeCoupled
  <2> HIDE DEF s
  <2>3. /\ DOMAIN handles' = DOMAIN handles
        /\ \A g \in DOMAIN handles : handles'[g] = IF g = i THEN NoHandle ELSE handles[g]
    BY <1>2, <2>1
  <2>4. WarmOK' /\ LeasingOK' /\ DisagreementsOK' /\ \A g : KeyOf(g)' = KeyOf(g)
    BY <1>1, <1>2, <2>1, <2>3 DEF Demand, WarmOK, LeasingOK, DisagreementsOK, KeyOf, Groups
  <2>5. \A j \in Key : Aimed(j)
    BY <2>1, <2>2 DEF Aimed, Pending
  <2>6. \A g \in DOMAIN handles' : handles'[g].status = "ready" => g # i /\ handles'[g] = handles[g]
    BY <2>3 DEF NoHandle
  <2>7. ASSUME NEW j \in Key PROVE Steady(j) \/ Held(j)'
    <3>1. CASE j # k \/ mgr'[k] = mgr[k]
      <4>1. mgr'[j].location = Destination => mgr'[j] = mgr[j]
        BY <1>8, <2>1, <3>1
      <4>2. sch'.resident[j] \in {sch.resident[j], Nothing} /\ sch'.pending[j] = sch.pending[j]
        BY <2>1, <2>2
      <4> QED BY <2>3, <2>4, <2>6, <4>1, <4>2 DEF Steady, Pending
    <3>2. CASE j = k /\ mgr'[k].buffer # 0
      <4>1. \A g \in DOMAIN handles' : KeyOf(g)' = k => handles'[g].status # "ready"
        <5>1. \A g \in DOMAIN handles : g # i => KeyOf(g) # k
          BY <1>1, <1>2, DistinctKeys DEF Current
        <5> QED BY <2>3, <2>4, <2>6, <5>1
      <4>2. sch'.resident[k] = Nothing /\ ~Pending(sch', k)
        BY <1>5, <2>1, <2>2 DEF Pending
      <4> QED BY <3>2, <4>1, <4>2, NothingHeld
    <3> QED BY <1>8, <2>1, <3>1, <3>2
  <2> QED BY <1>1, <2>4, <2>5, <2>7, DemandStep
<1> QED BY <1>9, <1>a, <1>10

\* The lease is found, in a buffer of its own if the manager had to load it.
LEMMA AcquireExpertDemand ==
  ASSUME Inv, Outer, Demand, AcquireExpert
  PROVE  Demand'
<1> DEFINE k == Current
           x == AcquireOf(sch.state[k])
           s == [sch EXCEPT !.state[k] = AcquireOf(@)]
<1>1. pc = "acquire" /\ UNCHANGED mode
  BY DEF AcquireExpert
<1>2. /\ k \in Key /\ mode \in Modes /\ mgr \in [Key -> Placement] /\ sch \in SchType
      /\ IsFiniteSet(DOMAIN handles) /\ Destination \in {"Ram", "Vram"}
      /\ DOMAIN handles = DOMAIN Groups /\ run.index \in DOMAIN Groups
  BY <1>1, SubmittedFacts, HandlesFinite
     DEF Running, Inv, StoreOK, Outer, Destination, SchOK, HandlesOK, RunOK
<1>3. /\ ~Pending(sch, k) /\ sch.resident[k] = Nothing /\ sch.state[k].state = "Ready"
      /\ handles[run.index] = NoHandle
  BY <1>1 DEF Inv, LeaseOK, Outer, UseOK, Demand, LeasingOK
<1>4. CanAcquire(sch.state[k])
  BY <1>3 DEF CanAcquire, IsRegistered
<1>5. /\ Leasable(k) # {}
      /\ \A r \in Leasable(k) :
           /\ \A j \in Key \ {k} : r[j] = mgr[j] \/ r[j].location # Destination
           /\ r[k] = mgr[k] \/ r[k].buffer # 0
  <2>1. CASE mgr[k].location = Destination
    <3>1. Leasable(k) = {mgr}
      BY <2>1 DEF Leasable
    <3> QED BY <3>1
  <2>2. CASE mgr[k].location # Destination
    <3>1. Leasable(k) = Adopt(k, Destination, Fresh(k)) /\ Fresh(k) \in Nat \ {0}
      BY <1>2, <2>2, FreshFacts DEF Leasable
    <3>2. leased.key \in Key /\ mgr[leased.key].location = Destination => Limit(Destination) >= 2
      BY <1>1, RoomHere DEF Outer
    <3> HIDE DEF k
    <3>3. Leasable(k) # {}
      BY <1>2, <3>1, <3>2, AdoptSettled
    <3>4. ASSUME NEW r \in Leasable(k)
          PROVE  /\ \A j \in Key \ {k} : r[j] = mgr[j] \/ r[j].location \notin {Destination, "Vram"}
                 /\ r[k] = [location |-> Destination, buffer |-> Fresh(k)]
      BY <1>2, <2>2, <3>1, <3>4, AdoptElsewhere
    <3> QED BY <3>1, <3>3, <3>4
  <2> QED BY <2>1, <2>2
<1>6. /\ mgr' \in Leasable(k) /\ sch' = s
      /\ pc' = "overlap" /\ failure' = failure /\ UNCHANGED <<run, handles>>
  BY <1>4, <1>5, Zenon DEF AcquireExpert, Goto
<1>7. sch' = [sch EXCEPT !.state[k] = x]
  BY <1>6
<1>8. sch = [state |-> sch.state, pending |-> sch.pending, resident |-> sch.resident,
             prefetched |-> sch.prefetched]
  BY <1>2 DEF SchType
<1> HIDE DEF x, s
<1>9. sch'.pending = sch.pending /\ sch'.resident = sch.resident
  BY <1>7, <1>8
<1>10. WarmOK' /\ LeasingOK' /\ DisagreementsOK' /\ \A g : KeyOf(g)' = KeyOf(g)
  BY <1>1, <1>6 DEF Demand, WarmOK, LeasingOK, DisagreementsOK, KeyOf, Groups
<1>11. \A j \in Key : Aimed(j)
  BY <1>9 DEF Aimed, Pending
<1>12. ASSUME NEW j \in Key PROVE Steady(j) \/ Held(j)'
  <2>1. CASE j # k \/ mgr'[k] = mgr[k]
    <3>1. mgr'[j].location = Destination => mgr'[j] = mgr[j]
      BY <1>5, <1>6, <2>1
    <3> QED BY <1>6, <1>9, <1>10, <3>1 DEF Steady, Pending
  <2>2. CASE j = k /\ mgr'[k].buffer # 0
    <3>1. \A g \in DOMAIN handles : KeyOf(g) = k => g = run.index
      BY <1>1, <1>2, DistinctKeys DEF Current
    <3>2. \A g \in DOMAIN handles' : KeyOf(g)' = k => handles'[g].status # "ready"
      BY <1>3, <1>6, <1>10, <3>1 DEF NoHandle
    <3> QED BY <1>3, <1>9, <2>2, <3>2, NothingHeld DEF Pending
  <2> QED BY <1>5, <1>6, <2>1, <2>2
<1> QED BY <1>1, <1>10, <1>11, <1>12, DemandStep

\* What expires only leaves.
LEMMA BeginLayerDemand ==
  ASSUME Inv, Outer, Demand, NEW tokens \in Nat, BeginLayer(tokens)
  PROVE  Demand'
<1> DEFINE gone == Expired(sch, run.layer)
           s == Expire(sch, gone)
<1>0. SchOK(sch) /\ SchCoupled(sch)
  BY DEF Inv, Outer
<1>1. pc = "idle" /\ UNCHANGED <<mode, mgr>>
  BY DEF BeginLayer
<1>2. gone \subseteq sch.prefetched /\ sch.prefetched \subseteq Key
  BY <1>0, SchParts DEF Expired, SchOK
<1>3. CASE \E k \in gone : ~CanReconcile(sch.state[k])
  <2>1. Throw("expire", sch)
    BY <1>3 DEF BeginLayer
  <2> QED BY <1>1, <2>1, PlainThrowDemand
<1>4. SUFFICES ASSUME \A k \in gone : CanReconcile(sch.state[k]) PROVE Demand'
  BY <1>3
<1>5. Continues(sch, s)
  BY <1>0, <1>4, ExpireContinues
<1>6. /\ SchCoupled(s) /\ s.pending = sch.pending
      /\ \A k \in Key : s.resident[k] \in {sch.resident[k], Nothing}
  <2> HIDE DEF gone
  <2> QED BY <1>0, <1>2, ExpireCoupled DEF DroppedTo
<1>7. PICK rows \in [1 .. tokens -> ScoresAt[run.layer]] :
        LET decision == Route(rows)
        IN  IF ~BatchValid(decision) THEN Throw("router", s)
            ELSE /\ pc' = "observe" /\ failure' = "none" /\ sch' = s
                 /\ handles' = [g \in DOMAIN decision.groups |-> NoHandle]
  BY <1>4, Zenon DEF BeginLayer
<1> HIDE DEF gone, s
<1>8. \A k \in Key : Pending(s, k) => Targeted(s.pending[k])
  BY <1>6 DEF Demand, TargetsOK, Pending
<1>9. CASE Throw("router", s)
  BY <1>1, <1>5, <1>6, <1>8, <1>9, ThrowDemand
<1>10. CASE \E D : /\ pc' = "observe" /\ failure' = "none" /\ sch' = s
                   /\ handles' = [g \in D |-> NoHandle]
  <2>1. pc' = "observe" /\ failure' = "none" /\ sch' = s
        /\ \A g \in DOMAIN handles' : handles'[g].status # "ready"
    BY <1>10 DEF NoHandle
  <2>2. WarmOK' /\ LeasingOK' /\ DisagreementsOK'
    BY <2>1 DEF WarmOK, LeasingOK, DisagreementsOK
  <2>3. \A k \in Key : Aimed(k) /\ Steady(k)
    BY <1>1, <1>6, <2>1 DEF Aimed, Steady, Pending
  <2> QED BY <1>1, <2>2, <2>3, DemandStep
<1> QED BY <1>7, <1>9, <1>10

\* The predictor's loads are for RAM, so one is refused only on the device.
LEMMA ObserveAndPrefetchDemand ==
  ASSUME Inv, Outer, Demand, ObserveAndPrefetch
  PROVE  Demand'
<1> DEFINE decision == run.decision.tokens[run.token]
           judged == Judge(predictor, decision, run.token)
<1>0. RunOK /\ SchOK(sch) /\ StoreOK /\ Accounts(predictor)
  BY DEF Inv
<1>1. PICK predictions \in PredictDetailed(database', run.layer, decision.selected) :
        LET offered == Offer(sch, Remember(judged, run.token, predictions), predictions)
        IN  IF offered.ok
              THEN sch' = offered.s /\ Advance /\ UNCHANGED <<handles, warm, leased, failure, faults>>
              ELSE Throw(offered.kind, offered.s)
  BY Zenon DEF ObserveAndPrefetch
<1>2. /\ pc = "observe" /\ database' = Record(database, decision, run.token)
      /\ UNCHANGED <<mode, mgr>> /\ mode.adaptive
  BY DEF ObserveAndPrefetch
<1> DEFINE remembered == Remember(judged, run.token, predictions)
           offered == Offer(sch, remembered, predictions)
           s == offered.s
<1>3. DOMAIN database'.frequency \subseteq Key
  <2>1. /\ decision.layer \in 0 .. LayerCount - 1
        /\ DOMAIN decision.selected = 1 .. RouterConfig.topK
        /\ ToSet(decision.selected) \subseteq Experts
    BY <1>0, <1>2 DEF RunOK, Routed
  <2>2. DOMAIN database.frequency \subseteq Key
    BY <1>0 DEF StoreOK
  <2> HIDE DEF decision
  <2> QED BY <1>2, <2>1, <2>2, RecordFacts
<1> HIDE DEF decision
<1>4. Predictions(predictions)
  BY <1>3, PredictFacts
<1>5. Accounts(judged)
  BY <1>0, JudgeAccounts
<1> HIDE DEF judged
<1>6. remembered = [pending |-> remembered.pending, quality |-> remembered.quality]
      /\ remembered.quality \in Quality
  <2>1. judged.quality \in Quality /\ Len(predictions) \in Nat
    BY <1>4, <1>5 DEF Accounts, Predictions
  <2> DEFINE q == judged.quality
             n == Len(predictions)
  <2>2. remembered = [pending |-> Put(judged.pending, run.token, predictions),
                      quality |-> [q EXCEPT !.predictions = @ + n]]
    BY DEF Remember
  <2> HIDE DEF q, n
  <2>3. [q EXCEPT !.predictions = @ + n] \in Quality
    BY <2>1, SMTT(40) DEF Quality, q, n
  <2> HIDE DEF remembered
  <2> QED BY <2>2, <2>3
<1>7. IF offered.ok
        THEN sch' = s /\ Advance /\ UNCHANGED <<handles, warm, leased, failure, faults>>
        ELSE Throw(offered.kind, s)
  BY <1>1
<1> HIDE DEF remembered
<1>8. /\ Continues(sch, s)
      /\ ~offered.ok => offered.kind \in {"pendingTarget", "transition"}
  BY <1>0, <1>4, <1>6, OfferFacts
<1>9. /\ SchCoupled(s)
      /\ ~offered.ok /\ offered.kind = "pendingTarget" =>
           \E k \in Key : Pending(s, k) /\ s.pending[k].destination # "Ram"
      /\ \A k \in Key : Pending(s, k) => Warmer(sch, s, k)
  <2>1. SchCoupled(sch) /\ \A k \in sch.prefetched : sch.state[k].current = "Ram"
    BY <1>2 DEF Outer, SpeculativeOK
  <2> QED BY <1>0, <1>4, <2>1, OfferCoupled
<1> HIDE DEF offered, s
<1>10. \A k \in Key : Pending(s, k) =>
         /\ Targeted(s.pending[k])
         /\ s.pending[k].destination # "Ram" => mode.device
  BY <1>2, <1>9 DEF Warmer, Demand, TargetsOK, Targeted, Destination
<1>11. CASE offered.ok
  <2>1. sch' = s /\ Advance /\ UNCHANGED <<handles, failure>>
    BY <1>7, <1>11
  <2>2. pc' \in {"observe", "dispatch"}
    BY <1>2, <2>1 DEF Advance
  <2>3. WarmOK' /\ LeasingOK' /\ DisagreementsOK'
    BY <1>2, <2>1, <2>2 DEF Demand, WarmOK, LeasingOK, DisagreementsOK
  <2>4. \A k \in Key : Aimed(k)
    BY <1>10, <2>1 DEF Aimed
  <2> QED BY <1>2, <2>3, <2>4, DemandStep
<1>12. CASE ~offered.ok
  <2>1. Throw(offered.kind, s)
    BY <1>7, <1>12
  <2>2. offered.kind = "pendingTarget" => mode.device
    BY <1>9, <1>10, <1>12
  <2> QED BY <1>2, <1>8, <1>9, <1>10, <2>1, <2>2, ThrowDemand
<1> QED BY <1>11, <1>12

\* A worker's step on the task of expert k.
LEMMA WorkerDemand ==
  ASSUME Inv, Demand, Quiet, NEW k \in Key, Pending(sch, k),
         \A j \in Key : Aimed(j),
         DOMAIN handles' = DOMAIN handles,
         \A g \in DOMAIN handles : handles[g] = NoHandle => handles'[g] = NoHandle,
         ~mode.adaptive =>
           /\ \A j \in Key : j # k => /\ sch'.state[j] = sch.state[j]
                                      /\ sch'.pending[j] = sch.pending[j]
           /\ \A j \in Key : Steady(j) \/ Held(j)'
  PROVE  Demand'
<1>1. UNCHANGED <<mode, pc, run, mgr, failure>> /\ Submitted' = Submitted
  BY DEF Quiet, Submitted, KeyOf, Groups
<1>2. WarmOK'
  <2> SUFFICES ASSUME pc = "requestWarm"
               PROVE  /\ mgr[Submitted].location = "Nvme"
                      /\ mode.device /\ ~mode.adaptive =>
                           /\ ~Pending(sch', Submitted)
                           /\ sch'.state[Submitted].state = "Ready"
                           /\ sch'.state[Submitted].current = "Ram"
    BY <1>1 DEF WarmOK, Pending
  <2>1. Submitted \in Key
    BY SubmittedFacts DEF Running, Submitting, Inv
  <2> QED BY <2>1 DEF Demand, WarmOK, Pending
<1>3. LeasingOK'
  <2>1. pc = "acquire" => run.index \in DOMAIN handles
    BY DEF Inv, RunOK, HandlesOK, Running
  <2> QED BY <1>1, <2>1 DEF Demand, LeasingOK
<1>4. DisagreementsOK'
  BY <1>1 DEF Demand, DisagreementsOK
<1> QED BY <1>1, <1>2, <1>3, <1>4, DemandStep

\* A worker's update of the record and the task of its own key, before the
\* transfer is retained.
LEMMA OwnKeyDemand ==
  ASSUME Inv, Demand, Quiet, UNCHANGED <<handles, warm>>,
         NEW k \in Key, Pending(sch, k), NEW x, NEW p,
         p.destination = sch.pending[k].destination, p.prefetch = sch.pending[k].prefetch,
         p.source = sch.pending[k].source,
         ~mode.adaptive /\ mgr[k].location = Destination =>
           BufferAt(p.out) \in {0, mgr[k].buffer},
         sch' = [state |-> [sch.state EXCEPT ![k] = x], pending |-> [sch.pending EXCEPT ![k] = p],
                 resident |-> sch.resident, prefetched |-> sch.prefetched]
  PROVE  Demand'
<1>1. /\ sch'.resident = sch.resident
      /\ \A j \in Key : /\ sch'.state[j] = IF j = k THEN x ELSE sch.state[j]
                        /\ sch'.pending[j] = IF j = k THEN p ELSE sch.pending[j]
  BY PendingFacts
<1>2. UNCHANGED <<mode, mgr, run>> /\ \A g : KeyOf(g)' = KeyOf(g)
  BY DEF Quiet, KeyOf, Groups
<1>3. \A j \in Key : Aimed(j)
  BY <1>1 DEF Aimed, Pending
<1>4. ASSUME ~mode.adaptive, mgr[k].location = Destination PROVE Held(k)'
  <2>1. Held(k) /\ BufferAt(p.out) \in {0, mgr[k].buffer}
    BY <1>4 DEF Demand, SingleOK
  <2>2. BufferAt(sch.resident[k])' \in {0, mgr'[k].buffer} /\ mgr'[k].buffer # 0
    BY <1>1, <1>2, <2>1 DEF Held, BufferAt
  <2>3. /\ BufferAt(sch.pending[k].source)' = mgr'[k].buffer
        /\ BufferAt(sch.pending[k].out)' \in {0, mgr'[k].buffer}
    BY <1>1, <1>2, <2>1 DEF Held, BufferAt
  <2>4. \A g \in DOMAIN handles' :
          KeyOf(g)' = k /\ handles'[g].status = "ready" =>
            BufferAt(handles[g].transfer)' \in {0, mgr'[k].buffer}
    BY <1>2, <2>1 DEF Held, BufferAt
  <2> QED BY <2>2, <2>3, <2>4 DEF Held
<1>5. \A j \in Key : j # k => Steady(j)
  BY <1>1, <1>2 DEF Steady, Pending
<1>6. mgr[k].location # Destination => Steady(k)
  BY <1>2 DEF Steady
<1>7. ~mode.adaptive => \A j \in Key : Steady(j) \/ Held(j)'
  BY <1>4, <1>5, <1>6
<1> QED BY <1>1, <1>3, <1>7, WorkerDemand

\* A worker takes the task.
LEMMA StartTaskDemand ==
  ASSUME Inv, Outer, Demand, NEW k \in Key, StartTask(k)
  PROVE  Demand'
<1> DEFINE t == sch.pending[k]
           x == MarkLoadingOf(sch.state[k])
           p == [t EXCEPT !.phase = "loading"]
<1>1. Pending(sch, k) /\ UNCHANGED <<handles, warm>> /\ Quiet
  BY DEF StartTask, Phase, Pending
<1>2. sch' = [state |-> [sch.state EXCEPT ![k] = x], pending |-> [sch.pending EXCEPT ![k] = p],
              resident |-> sch.resident, prefetched |-> sch.prefetched]
  <2>1. sch' = [sch EXCEPT !.state[k] = MarkLoadingOf(@), !.pending[k].phase = "loading"]
    BY DEF StartTask
  <2> QED BY <1>1, <2>1, PendingFacts
<1>3. p.destination = t.destination /\ p.prefetch = t.prefetch /\ p.source = t.source
      /\ p.out = t.out
  BY <1>1, PendingFacts DEF Task
<1>4. ~mode.adaptive /\ mgr[k].location = Destination => BufferAt(t.out) \in {0, mgr[k].buffer}
  BY <1>1 DEF Demand, SingleOK, Held
<1> HIDE DEF x, p
<1> QED BY <1>1, <1>2, <1>3, <1>4, OwnKeyDemand

\* The transfer arrives, in the manager's buffer if it has the expert there.
LEMMA FinishLoadDemand ==
  ASSUME Inv, Outer, Demand, NEW k \in Key, FinishLoad(k)
  PROVE  Demand'
<1> DEFINE t == sch.pending[k]
           x == MarkReadyOf(sch.state[k], t.destination)
           out == Transferred(k)
           p == [t EXCEPT !.phase = "loaded", !.out = out]
<1>1. Pending(sch, k) /\ UNCHANGED <<handles, warm>> /\ Quiet
  BY DEF FinishLoad, Phase, Pending
<1>2. ~mode.adaptive /\ mgr[k].location = Destination => BufferAt(out) \in {0, mgr[k].buffer}
  <2> SUFFICES ASSUME ~mode.adaptive, mgr[k].location = Destination
               PROVE  BufferAt(out) = mgr[k].buffer
    OBVIOUS
  <2>1. Held(k) /\ t.destination = Destination
    BY <1>1 DEF Demand, SingleOK, TargetsOK, Targeted
  <2>2. BufferAt(t.source) = mgr[k].buffer /\ mgr[k].buffer # 0
    BY <1>1, <2>1 DEF Held
  <2> QED BY <2>1, <2>2 DEF Transferred, BufferAt, Destination
<1> HIDE DEF out
<1>3. p.destination = t.destination /\ p.prefetch = t.prefetch /\ p.source = t.source
      /\ p.out = out
  BY <1>1, PendingFacts DEF Task
<1>4. sch' = [state |-> [sch.state EXCEPT ![k] = x], pending |-> [sch.pending EXCEPT ![k] = p],
              resident |-> sch.resident, prefetched |-> sch.prefetched]
  <2>1. sch' = [sch EXCEPT !.state[k] = MarkReadyOf(@, sch.pending[k].destination),
                           !.pending[k].phase = "loaded", !.pending[k].out = out]
    BY DEF FinishLoad, out
  <2> QED BY <1>1, <2>1, PendingFacts
<1> HIDE DEF x, p
<1> QED BY <1>1, <1>2, <1>3, <1>4, OwnKeyDemand

\* The transfer fails.
LEMMA FailLoadDemand ==
  ASSUME Inv, Outer, Demand, NEW k \in Key, FailLoad(k)
  PROVE  Demand'
<1> DEFINE t == sch.pending[k]
           x == MarkFailedOf(sch.state[k])
           p == [t EXCEPT !.phase = "failed"]
<1>1. Pending(sch, k) /\ UNCHANGED <<handles, warm>> /\ Quiet
  BY DEF FailLoad, Phase, Pending
<1>2. sch' = [state |-> [sch.state EXCEPT ![k] = x], pending |-> [sch.pending EXCEPT ![k] = p],
              resident |-> sch.resident, prefetched |-> sch.prefetched]
  <2>1. sch' = [sch EXCEPT !.state[k] = MarkFailedOf(@), !.pending[k].phase = "failed"]
    BY DEF FailLoad
  <2> QED BY <1>1, <2>1, PendingFacts
<1>3. p.destination = t.destination /\ p.prefetch = t.prefetch /\ p.source = t.source
      /\ p.out = t.out
  BY <1>1, PendingFacts DEF Task
<1>4. ~mode.adaptive /\ mgr[k].location = Destination => BufferAt(t.out) \in {0, mgr[k].buffer}
  BY <1>1 DEF Demand, SingleOK, Held
<1> HIDE DEF x, p
<1> QED BY <1>1, <1>2, <1>3, <1>4, OwnKeyDemand

\* The transfer is retained; without a predictor nothing is trimmed for it.
LEMMA RetainTransferDemand ==
  ASSUME Inv, Outer, Demand, NEW k \in Key, RetainTransfer(k)
  PROVE  Demand'
<1> DEFINE t == sch.pending[k]
           p == [t EXCEPT !.phase = "retained"]
           s == [sch EXCEPT !.resident[k] = t.out, !.pending[k].phase = "retained"]
           kept == [s EXCEPT !.prefetched = @ \cup {k}]
           With(q) == [state |-> sch.state, pending |-> [sch.pending EXCEPT ![k] = p],
                       resident |-> [sch.resident EXCEPT ![k] = t.out], prefetched |-> q]
<1>1. Pending(sch, k) /\ UNCHANGED <<handles, warm>> /\ Quiet
  BY DEF RetainTransfer, Phase, Pending
<1>2. sch' = IF t.prefetch /\ ~t.active THEN Trim(kept, k) ELSE s
  BY Zenon DEF RetainTransfer
<1>3. /\ p.destination = t.destination /\ p.prefetch = t.prefetch /\ p.source = t.source
      /\ p.out = t.out
  BY <1>1, PendingFacts DEF Task
<1>4. s = With(sch.prefetched) /\ kept = With(sch.prefetched \cup {k})
  <2>1. sch = [state |-> sch.state, pending |-> sch.pending, resident |-> sch.resident,
               prefetched |-> sch.prefetched]
        /\ sch.pending \in [Key -> {NoTask} \cup Task]
    BY <1>1, PendingFacts
  <2> DEFINE out == t.out
             now == [sch EXCEPT !.resident[k] = out]
  <2>2. s = [now EXCEPT !.pending[k].phase = "retained"]
    OBVIOUS
  <2> HIDE DEF out
  <2>3. now = [state |-> sch.state, pending |-> sch.pending,
               resident |-> [sch.resident EXCEPT ![k] = out], prefetched |-> sch.prefetched]
    BY <2>1
  <2> HIDE DEF now, s
  <2>4. s = [state |-> sch.state, pending |-> [sch.pending EXCEPT ![k] = p],
             resident |-> [sch.resident EXCEPT ![k] = out], prefetched |-> sch.prefetched]
    BY <2>2, <2>3
  <2>5. s = With(sch.prefetched)
    BY <2>4 DEF out
  <2> QED BY <2>5
<1>5. sch'.pending = [sch.pending EXCEPT ![k] = p]
  <2>1. CASE ~(t.prefetch /\ ~t.active)
    <3> HIDE DEF p, s, kept
    <3> QED BY <1>2, <1>4, <2>1
  <2>2. CASE t.prefetch /\ ~t.active
    <3> DEFINE over == OverBound(kept)
               R == [j \in Key |-> IF j \in over THEN Nothing ELSE kept.resident[j]]
               Q == kept.prefetched \ over
               S == [j \in Key |-> IF j \in over \ {k} THEN ReconcileOf(kept.state[j], "Nvme")
                                   ELSE kept.state[j]]
    <3> HIDE DEF p, s, kept
    <3>1. sch' = [kept EXCEPT !.resident = R, !.prefetched = Q, !.state = S]
      BY <1>2, <2>2, Zenon DEF Trim
    <3> HIDE DEF R, Q, S, over
    <3> QED BY <1>4, <3>1
  <2> QED BY <2>1, <2>2
<1>6. \A j \in Key : sch'.pending[j] = IF j = k THEN p ELSE sch.pending[j]
  <2> HIDE DEF p
  <2> QED BY <1>1, <1>5, PendingFacts
<1>7. UNCHANGED <<mode, mgr, run>> /\ \A g : KeyOf(g)' = KeyOf(g)
  BY <1>1 DEF Quiet, KeyOf, Groups
<1>8. ~mode.adaptive => /\ sch'.state = sch.state
                        /\ \A j \in Key : sch'.resident[j] = IF j = k THEN t.out ELSE sch.resident[j]
  <2> SUFFICES ASSUME ~mode.adaptive
               PROVE  /\ sch'.state = sch.state
                      /\ \A j \in Key :
                           sch'.resident[j] = IF j = k THEN t.out ELSE sch.resident[j]
    OBVIOUS
  <2>1. ~t.prefetch
    BY <1>1 DEF Demand, TargetsOK, Targeted
  <2> HIDE DEF p, s, kept
  <2>2. sch' = With(sch.prefetched)
    BY <1>2, <1>4, <2>1
  <2>3. sch.resident \in [Key -> Transfer]
    BY <1>1, PendingFacts
  <2> HIDE DEF t
  <2> QED BY <2>2, <2>3
<1> HIDE DEF p, s, kept
<1>9. \A j \in Key : Aimed(j)
  BY <1>3, <1>6, <1>1 DEF Aimed, Pending
<1>10. ASSUME ~mode.adaptive, NEW j \in Key, mgr[j].location = Destination PROVE Steady(j) \/ Held(j)'
  <2>1. Held(j) /\ (j = k => t.out = sch.pending[j].out /\ t.source = sch.pending[j].source)
    BY <1>10 DEF Demand, SingleOK
  <2>2. CASE j # k
    BY <1>1, <1>6, <1>7, <1>8, <1>10, <2>2 DEF Steady, Pending
  <2>3. CASE j = k
    <3>1. BufferAt(sch.resident[j])' \in {0, mgr'[j].buffer} /\ mgr'[j].buffer # 0
      BY <1>1, <1>7, <1>8, <1>10, <2>1, <2>3 DEF Held, BufferAt
    <3>2. /\ BufferAt(sch.pending[j].source)' = mgr'[j].buffer
          /\ BufferAt(sch.pending[j].out)' \in {0, mgr'[j].buffer}
      BY <1>1, <1>3, <1>6, <1>7, <2>1, <2>3 DEF Held, BufferAt
    <3>3. \A g \in DOMAIN handles' :
            KeyOf(g)' = j /\ handles'[g].status = "ready" =>
              BufferAt(handles[g].transfer)' \in {0, mgr'[j].buffer}
      BY <1>1, <1>7, <2>1 DEF Held, BufferAt
    <3> QED BY <3>1, <3>2, <3>3 DEF Held
  <2> QED BY <2>2, <2>3
<1>11. \A j \in Key : mgr[j].location # Destination => Steady(j)
  BY <1>7 DEF Steady
<1>12. ~mode.adaptive => \A j \in Key : Steady(j) \/ Held(j)'
  BY <1>10, <1>11
<1> QED BY <1>1, <1>6, <1>8, <1>9, <1>12, WorkerDemand

\* The promise is set with what was loaded.
LEMMA CompleteTaskDemand ==
  ASSUME Inv, Outer, Demand, NEW k \in Key, CompleteTask(k)
  PROVE  Demand'
<1> DEFINE t == sch.pending[k]
           done == Resolved(t.phase = "retained", t.out)
<1>1. /\ Pending(sch, k) /\ Quiet
      /\ handles' = [g \in DOMAIN handles |-> Settle(handles[g], k, KeyOf(g), t)]
      /\ sch' = [sch EXCEPT !.pending[k] = NoTask]
  BY DEF CompleteTask, Phase, Pending
<1>2. UNCHANGED <<mode, mgr, run>> /\ \A g : KeyOf(g)' = KeyOf(g)
  BY <1>1 DEF Quiet, KeyOf, Groups
<1>3. done.status = "ready" /\ done.transfer = t.out
  BY DEF Resolved
<1>4. /\ sch'.state = sch.state /\ sch'.resident = sch.resident
      /\ \A j \in Key : sch'.pending[j] = IF j = k THEN NoTask ELSE sch.pending[j]
  <2>1. sch' = [state |-> sch.state, pending |-> [sch.pending EXCEPT ![k] = NoTask],
                resident |-> sch.resident, prefetched |-> sch.prefetched]
        /\ sch.pending \in [Key -> {NoTask} \cup Task]
    BY <1>1, PendingFacts
  <2> QED BY <2>1
<1>5. \A h, key : Settle(h, k, key, t) = IF h.status = "waiting" /\ key = k THEN done ELSE h
  BY DEF Settle
<1> HIDE DEF done
<1>6. /\ DOMAIN handles' = DOMAIN handles
      /\ \A g \in DOMAIN handles :
           handles'[g] = IF handles[g].status = "waiting" /\ KeyOf(g) = k THEN done ELSE handles[g]
  BY <1>1, <1>5
<1>7. \A g \in DOMAIN handles : handles[g] = NoHandle => handles'[g] = NoHandle
  BY <1>6, NotWaiting
<1>8. NoTask.phase = "none"
  BY DEF NoTask
<1>9. \A j \in Key : Aimed(j)
  BY <1>4, <1>8 DEF Aimed, Pending
<1>10. ASSUME ~mode.adaptive, NEW j \in Key, mgr[j].location = Destination PROVE Steady(j) \/ Held(j)'
  <2>1. Held(j)
    BY <1>10 DEF Demand, SingleOK
  <2>2. CASE j # k
    BY <1>2, <1>4, <1>6, <1>10, <2>2 DEF Steady, Pending
  <2>3. CASE j = k
    <3>1. BufferAt(sch.resident[j])' \in {0, mgr'[j].buffer} /\ mgr'[j].buffer # 0
      BY <1>2, <1>4, <2>1 DEF Held, BufferAt
    <3>2. ~Pending(sch', j)
      BY <1>4, <1>8, <2>3 DEF Pending
    <3>3. BufferAt(t.out) \in {0, mgr[j].buffer}
      BY <1>1, <2>1, <2>3 DEF Held
    <3>4. ASSUME NEW g \in DOMAIN handles, KeyOf(g) = j, handles'[g].status = "ready"
          PROVE  BufferAt(handles'[g].transfer) \in {0, mgr[j].buffer}
      <4>1. CASE handles[g].status = "waiting"
        BY <1>3, <1>6, <2>3, <3>3, <3>4, <4>1
      <4>2. CASE handles[g].status # "waiting"
        BY <1>6, <2>1, <3>4, <4>2 DEF Held
      <4> QED BY <4>1, <4>2
    <3>5. \A g \in DOMAIN handles' :
            KeyOf(g)' = j /\ handles'[g].status = "ready" =>
              BufferAt(handles[g].transfer)' \in {0, mgr'[j].buffer}
      BY <1>2, <1>6, <3>4 DEF BufferAt
    <3> QED BY <3>1, <3>2, <3>5 DEF Held, Pending
  <2> QED BY <2>2, <2>3
<1>11. \A j \in Key : mgr[j].location # Destination => Steady(j)
  BY <1>2 DEF Steady
<1>12. ~mode.adaptive => \A j \in Key : Steady(j) \/ Held(j)'
  BY <1>10, <1>11
<1> QED BY <1>1, <1>4, <1>6, <1>7, <1>9, <1>12, WorkerDemand

-----------------------------------------------------------------------------
(* The theorems.                                                            *)

\* Every step keeps the invariant.
LEMMA NextOK == Inv /\ [Next]_vars => Inv'
<1> SUFFICES ASSUME Inv, [Next]_vars PROVE Inv'
  OBVIOUS
<1>1. CASE \E tokens \in UNION {TokensAt[p] : p \in 1 .. MaxPasses} : BeginLayer(tokens)
  <2>1. PICK tokens \in UNION {TokensAt[p] : p \in 1 .. MaxPasses} : BeginLayer(tokens)
    BY <1>1
  <2>2. tokens \in Nat
    BY MoEAssumption
  <2> QED BY <2>1, <2>2, BeginLayerOK
<1>2. CASE Executor
  BY <1>2, ObserveAndPrefetchOK, ObserveHistoryOK, DispatchOK, ReadExpertOK, RequestWarmOK,
     AwaitWarmOK, StageOK, ReconcileOK, RequestExpertOK, AwaitExpertOK, AdoptExpertOK,
     AcquireExpertOK, OverlapOK, ExecuteExpertOK, FailExpertOK, ReturnLayerOK DEF Executor
<1>3. CASE \E k \in Key : Worker(k)
  BY <1>3, StartTaskOK, FinishLoadOK, FailLoadOK, RetainTransferOK, CompleteTaskOK DEF Worker
<1>4. CASE UNCHANGED vars
  <2>1. /\ UNCHANGED <<handles, warm, faults>> /\ sch' = sch /\ Quiet
    BY <1>4 DEF vars, Quiet, observers
  <2>2. SchOK(sch') /\ HandlesOK' /\ faults' \in 0 .. MaxFaults
    BY <2>1, TasksStay DEF Inv, StoreOK
  <2> QED BY <2>1, <2>2, WorkerKeeps
<1> QED BY <1>1, <1>2, <1>3, <1>4 DEF Next

\* The inductive invariant holds in every reachable state, whatever the layers,
\* the experts, the scores, the budgets and the mode.
THEOREM Invariance == Spec => []Inv
<1>1. Init => Inv
  BY InitOK
<1>2. Inv /\ [Next]_vars => Inv'
  BY NextOK
<1> QED BY <1>1, <1>2, PTL DEF Spec

\* Type correctness of the composed state.
THEOREM TypeCorrect == Spec => []TypeOK
<1>1. Inv => TypeOK
  <2> SUFFICES ASSUME Inv PROVE TypeOK
    OBVIOUS
  <2>1. mode \in Modes /\ offsets \subseteq Key /\ failure \in Failures /\ faults \in 0 .. MaxFaults
        /\ mgr \in [Key -> [location : {"Nvme", "Ram", "Vram"}, buffer : Nat]]
    BY DEF Inv, StoreOK, Placement
  <2>2. /\ pc \in {"idle", "observe", "dispatch", "submit", "requestWarm", "warm", "stage",
                   "reconcile", "request", "await", "adopt", "acquire", "overlap", "execute",
                   "return"}
        /\ run.layer \in 0 .. LayerCount - 1 /\ run.pass \in 0 .. MaxPasses
    BY DEF Inv, RunOK, Running, Submitting
  <2>3. /\ sch.state \in [Key -> ExpertRecord] /\ sch.resident \in [Key -> Transfer]
        /\ sch.prefetched \subseteq Key
    BY SchParts DEF Inv, SchOK
  <2>4. leased.key \in Key \cup {NoKey}
    BY LeaseFacts DEF Inv, NoLease
  <2> QED BY <2>1, <2>2, <2>3, <2>4 DEF TypeOK
<1> QED BY <1>1, Invariance, PTL

\* A lease covers the use of an expert, and when executeBatch has returned or
\* thrown nothing is left behind but the experts whose release a failing
\* synchronizeExecution skipped, one per fault of the device; the two tiers stay
\* within their budgets.
THEOREM LeaseCorrect == Spec => []LeaseCoversUse
<1>1. Inv => LeaseCoversUse
  <2> SUFFICES ASSUME Inv PROVE LeaseCoversUse
    OBVIOUS
  <2>1. pc = "idle" => leased = NoLease /\ handles = <<>> /\ warm = NoHandle
    BY DEF Inv, LeaseOK, HoldsLease, Submitting, HandlesOK
  <2>2. /\ \A k \in Key : leased.key = k => sch.state[k].state = "InUse"
        /\ Cardinality(Abandoned) <= IF mode.device THEN faults ELSE 0
        /\ leased # NoLease =>
             /\ mgr[leased.key] = [location |-> Destination, buffer |-> leased.buffer]
             /\ leased.key \in offsets
    BY DEF Inv, LeaseOK, InUse, Charged
  <2>3. Used(mgr, "Ram") <= mode.ram /\ Used(mgr, "Vram") <= mode.vram
    BY DEF Inv, StoreOK, Fits
  <2> QED BY <2>1, <2>2, <2>3 DEF LeaseCoversUse
<1> QED BY <1>1, Invariance, PTL

\* The executor only waits for a task that a worker still has.
THEOREM AwaitCorrect == Spec => []AwaitsLiveTask
<1>1. Inv => AwaitsLiveTask
  BY DEF Inv, HandlesOK
<1> QED BY <1>1, Invariance, PTL

\* When executeBatch returns, every token has the output of each expert it was
\* routed to exactly once and of no other.
THEOREM CombineCorrect == Spec => []EachAssignmentOnce
<1>1. Inv => EachAssignmentOnce
  <2> SUFFICES ASSUME Inv, pc = "return", NEW t \in 1 .. run.tokens, NEW e \in Experts
               PROVE  combined[<<t, e>>] =
                        IF e \in ToSet(run.decision.tokens[t].selected) THEN 1 ELSE 0
    BY DEF EachAssignmentOnce, Experts
  <2>1. Routed(run.decision, run.tokens) /\ run.index = Len(Groups) + 1
    BY DEF Inv, RunOK
  <2>2. \A g \in DOMAIN Groups : g < run.index
    BY <2>1 DEF Routed, Groups
  <2>3. Added(run.index, t, e) <=> e \in ToSet(run.decision.tokens[t].selected)
    BY <2>1, <2>2 DEF Added, Routed, Groups
  <2> QED BY <2>3 DEF Inv, CombinedOK
<1> QED BY <1>1, Invariance, PTL

\* The predictor's counters account for every prediction at most once.
THEOREM QualityCorrect == Spec => []QualityAccounts
<1>1. Inv => QualityAccounts
  <2> SUFFICES ASSUME Inv PROVE QualityAccounts
    OBVIOUS
  <2> DEFINE lengths == [s \in DOMAIN predictor.pending |-> Len(predictor.pending[s])]
             q == predictor.quality
  <2>1. /\ q.usefulPredictions + q.wastedPredictions
             + SumOver(Lengths(predictor.pending), DOMAIN predictor.pending) <= q.predictions
        /\ q.suppressedPrefetches <= q.predictions
        /\ q.top1Correct <= q.topKCovered
        /\ q.topKCovered <= q.usefulPredictions
        /\ q.topKCovered <= q.opportunities
    BY DEF Inv, Accounts
  <2>2. DOMAIN lengths = DOMAIN predictor.pending
    OBVIOUS
  <2>3. SumOver(Lengths(predictor.pending), DOMAIN predictor.pending)
          = SumOver(lengths, DOMAIN lengths)
    BY <2>2, Zenon DEF Lengths
  <2>4. SumOver(lengths, DOMAIN lengths) = MapThenSumSet(LAMBDA s : lengths[s], DOMAIN lengths)
    BY Zenon DEF SumOver
  <2> QED BY <2>1, <2>3, <2>4, Zenon DEF QualityAccounts
<1> QED BY <1>1, Invariance, PTL

\* Every step keeps Outer.
LEMMA NextOuter == Inv /\ Outer /\ [Next]_vars => Outer'
<1> SUFFICES ASSUME Inv, Outer, [Next]_vars PROVE Outer'
  OBVIOUS
<1>1. CASE \E tokens \in UNION {TokensAt[p] : p \in 1 .. MaxPasses} : BeginLayer(tokens)
  <2>1. PICK tokens \in UNION {TokensAt[p] : p \in 1 .. MaxPasses} : BeginLayer(tokens)
    BY <1>1
  <2>2. tokens \in Nat
    BY MoEAssumption
  <2> QED BY <2>1, <2>2, BeginLayerOuter
<1>2. CASE Executor
  BY <1>2, ObserveAndPrefetchOuter, ObserveHistoryOuter, DispatchOuter, ReadExpertOuter,
     RequestWarmOuter, AwaitWarmOuter, StageOuter, ReconcileOuter, RequestExpertOuter,
     AwaitExpertOuter, AdoptExpertOuter, AcquireExpertOuter, OverlapOuter, ExecuteExpertOuter,
     FailExpertOuter, ReturnLayerOuter DEF Executor
<1>3. CASE \E k \in Key : Worker(k)
  BY <1>3, StartTaskOuter, FinishLoadOuter, FailLoadOuter, RetainTransferOuter,
     CompleteTaskOuter DEF Worker
<1>4. CASE UNCHANGED vars
  <2>1. UNCHANGED <<mode, pc, run, handles, warm, sch, mgr, leased, offsets, failure>>
    BY <1>4 DEF vars
  <2>2. /\ Submitted' = Submitted /\ Current' = Current /\ Destination' = Destination
        /\ Limit(Destination)' = Limit(Destination) /\ \A g : KeyOf(g)' = KeyOf(g)
    BY <2>1 DEF Submitted, Current, KeyOf, Groups, Destination, Limit
  <2>3. SchCoupled(sch)' /\ SpeculativeOK' /\ OrderOK'
    BY <2>1, <2>2 DEF Outer, SchCoupled, SpeculativeOK, OrderOK
  <2>4. AnswersOK'
    <3>1. \A g \in DOMAIN handles' : Answers(handles[g], KeyOf(g))'
      BY <2>1, <2>2 DEF Outer, AnswersOK, Answers, Pending
    <3> QED BY <2>1, <2>2, <3>1 DEF Outer, AnswersOK, Pending
  <2>5. BareOK' /\ UseOK' /\ RefusalsOK'
    BY <2>1, <2>2 DEF Outer, BareOK, UseOK, RefusalsOK, Refusals, Abandoned
  <2> QED BY <2>3, <2>4, <2>5 DEF Outer
<1> QED BY <1>1, <1>2, <1>3, <1>4 DEF Next

\* The runtime's bookkeeping and the scheduler's agree in every reachable
\* state: the coupling of lifecycle, task and retained transfer, the order of
\* the submissions, what the handles answer and where an expert without a known
\* offset can be.
THEOREM OuterInvariance == Spec => [](Inv /\ Outer)
<1>1. Init => Inv /\ Outer
  BY InitOK, InitOuter
<1>2. Inv /\ Outer /\ [Next]_vars => (Inv /\ Outer)'
  BY NextOK, NextOuter
<1> QED BY <1>1, <1>2, PTL DEF Spec

\* Every step keeps Demand.
LEMMA NextDemand == Inv /\ Outer /\ Demand /\ [Next]_vars => Demand'
<1> SUFFICES ASSUME Inv, Outer, Demand, [Next]_vars PROVE Demand'
  OBVIOUS
<1>1. CASE \E tokens \in UNION {TokensAt[p] : p \in 1 .. MaxPasses} : BeginLayer(tokens)
  <2>1. PICK tokens \in UNION {TokensAt[p] : p \in 1 .. MaxPasses} : BeginLayer(tokens)
    BY <1>1
  <2>2. tokens \in Nat
    BY MoEAssumption
  <2> QED BY <2>1, <2>2, BeginLayerDemand
<1>2. CASE Executor
  BY <1>2, ObserveAndPrefetchDemand, ObserveHistoryDemand, DispatchDemand, ReadExpertDemand,
     RequestWarmDemand, AwaitWarmDemand, StageDemand, ReconcileDemand, RequestExpertDemand,
     AwaitExpertDemand, AdoptExpertDemand, AcquireExpertDemand, OverlapDemand,
     ExecuteExpertDemand, FailExpertDemand, ReturnLayerDemand DEF Executor
<1>3. CASE \E k \in Key : Worker(k)
  BY <1>3, StartTaskDemand, FinishLoadDemand, FailLoadDemand, RetainTransferDemand,
     CompleteTaskDemand DEF Worker
<1>4. CASE UNCHANGED vars
  <2>1. UNCHANGED <<mode, pc, run, handles, sch, mgr, failure>>
    BY <1>4 DEF vars
  <2>2. \A g : KeyOf(g)' = KeyOf(g)
    BY <2>1 DEF KeyOf, Groups
  <2>3. WarmOK' /\ LeasingOK' /\ DisagreementsOK'
    BY <2>1 DEF Demand, WarmOK, LeasingOK, DisagreementsOK, Submitted, KeyOf, Groups, Pending
  <2>4. \A k \in Key : Aimed(k) /\ Steady(k)
    BY <2>1, <2>2 DEF Aimed, Steady, Pending
  <2> QED BY <2>1, <2>3, <2>4, DemandStep
<1> QED BY <1>1, <1>2, <1>3, <1>4 DEF Next

\* How a layer can fail, whatever the scores, the budgets of at least one expert,
\* the predictions and the interleaving with the scheduler's workers: never for
\* want of room, for an expert that cannot be acquired, for an unknown offset or
\* for a lost token; for a transition, a reconciliation or an expiry the
\* scheduler refuses only once an expert was abandoned in use; and for the two
\* disagreements over a warm load only with a predictor (MoERuntime.cpp:128-302).
THEOREM FailuresCorrect == Spec => []FailuresExplained
<1>1. Init => Demand
  BY InitDemand
<1>2. Inv /\ Outer /\ Demand /\ [Next]_vars => Demand'
  BY NextDemand
<1>3. Outer /\ Demand => FailuresExplained
  BY DEF Outer, RefusalsOK, Refusals, Demand, DisagreementsOK, FailuresExplained
<1> QED BY <1>1, <1>2, <1>3, OuterInvariance, PTL DEF Spec
=============================================================================
