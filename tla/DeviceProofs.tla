---------------------------- MODULE DeviceProofs ----------------------------
(***************************************************************************)
(* Proofs about Device for every device size, alignment, cache limit and   *)
(* number of experts, tensors, calls and faults.                           *)
(*                                                                         *)
(* HeapOK is what the pools keep true of any heap: each operation of a     *)
(* pool preserves it, and so do the loops made of them.  Inv adds that the *)
(* blocks in use are those somebody refers to, which every step of the     *)
(* executor, the transfer workers and the manager preserves.  Ordered says *)
(* what the work in each queue will find when it runs, who keeps it there  *)
(* and who else may write it.                                              *)
(***************************************************************************)
EXTENDS Device, FiniteSums, SequenceTheorems

IsRecord(r, fields) == r = [f \in fields |-> r[f]]

-----------------------------------------------------------------------------
(* Sequences and sums, as the pools use them. *)

\* What stands in a list is in its set, and a list with a position is not empty.
LEMMA ListedAt ==
  ASSUME NEW S, NEW s \in Seq(S), NEW i \in 1 .. Len(s)
  PROVE  s[i] \in ToSet(s) /\ s # <<>>
<1>1. DOMAIN s = 1 .. Len(s)
  BY LenProperties
<1>2. s[i] \in ToSet(s)
  BY <1>1 DEF ToSet
<1>3. s # <<>>
  <2> SUFFICES ASSUME s = <<>> PROVE FALSE
    OBVIOUS
  <2>1. Len(s) = 0
    OBVIOUS
  <2> QED BY <2>1
<1> QED BY <1>2, <1>3

\* A longer list holds what the shorter one did, and its last element.
LEMMA ExtendedSet ==
  ASSUME NEW s, NEW t, NEW n \in Nat, DOMAIN s = 1 .. n, DOMAIN t = 1 .. n + 1,
         \A j \in 1 .. n : t[j] = s[j]
  PROVE  ToSet(s) \subseteq ToSet(t) /\ t[n + 1] \in ToSet(t)
<1>1. \A j \in DOMAIN s : j \in DOMAIN t /\ t[j] = s[j]
  OBVIOUS
<1>2. n + 1 \in DOMAIN t
  OBVIOUS
<1>3. ToSet(s) \subseteq ToSet(t)
  <2> SUFFICES ASSUME NEW x \in ToSet(s) PROVE x \in ToSet(t)
    OBVIOUS
  <2>1. PICK j \in DOMAIN s : x = s[j]
    BY DEF ToSet
  <2>2. j \in DOMAIN t /\ x = t[j]
    BY <1>1, <2>1
  <2> QED BY <2>2 DEF ToSet
<1>4. t[n + 1] \in ToSet(t)
  BY <1>2 DEF ToSet
<1> QED BY <1>3, <1>4

\* The sequence without its i-th element.
LEMMA RemoveAtFacts ==
  ASSUME NEW S, NEW s \in Seq(S), NEW i \in 1 .. Len(s)
  PROVE  /\ RemoveAt(s, i) \in Seq(S)
         /\ Len(RemoveAt(s, i)) = Len(s) - 1
         /\ \A j \in 1 .. Len(s) - 1 :
              RemoveAt(s, i)[j] = IF j < i THEN s[j] ELSE s[j + 1]
<1> DEFINE left == SubSeq(s, 1, i - 1)
           right == SubSeq(s, i + 1, Len(s))
<1>0. Len(s) \in Nat /\ \A j \in 1 .. Len(s) : s[j] \in S
  BY LenProperties, ElementOfSeq
<1>1. /\ left \in Seq(S) /\ Len(left) = i - 1
      /\ \A j \in 1 .. i - 1 : left[j] = s[j]
  <2>1. \A j \in 1 .. i - 1 : s[j] \in S
    BY <1>0
  <2> QED BY <1>0, <2>1, SubSeqProperties
<1>2. /\ right \in Seq(S) /\ Len(right) = Len(s) - i
      /\ \A j \in 1 .. Len(s) - i : right[j] = s[i + j]
  <2>1. \A j \in i + 1 .. Len(s) : s[j] \in S
    BY <1>0
  <2>2. i + 1 \in Int /\ Len(s) \in Int
    BY <1>0
  <2>3. /\ right \in Seq(S)
        /\ Len(right) = IF i + 1 <= Len(s) THEN Len(s) - (i + 1) + 1 ELSE 0
        /\ \A j \in 1 .. Len(s) - (i + 1) + 1 : right[j] = s[(i + 1) + j - 1]
    BY <2>1, <2>2, SubSeqProperties
  <2> HIDE DEF right
  <2> QED BY <1>0, <2>3
<1>3. RemoveAt(s, i) = left \o right
  BY DEF RemoveAt
<1> HIDE DEF left, right
<1>4. /\ left \o right \in Seq(S)
      /\ Len(left \o right) = Len(left) + Len(right)
      /\ \A j \in 1 .. Len(left) + Len(right) :
           (left \o right)[j] = IF j <= Len(left) THEN left[j] ELSE right[j - Len(left)]
  BY <1>1, <1>2, ConcatProperties
<1> QED BY <1>0, <1>1, <1>2, <1>3, <1>4

\* A cached block that is taken out of an injective list is gone from it.
LEMMA RemoveAtSet ==
  ASSUME NEW S, NEW s \in Seq(S), IsInjective(s), NEW i \in 1 .. Len(s)
  PROVE  /\ ToSet(RemoveAt(s, i)) = ToSet(s) \ {s[i]}
         /\ IsInjective(RemoveAt(s, i))
<1> DEFINE r == RemoveAt(s, i)
<1>1. /\ r \in Seq(S) /\ Len(r) = Len(s) - 1 /\ Len(s) \in Nat
      /\ \A j \in 1 .. Len(s) - 1 : r[j] = IF j < i THEN s[j] ELSE s[j + 1]
      /\ DOMAIN r = 1 .. Len(s) - 1 /\ DOMAIN s = 1 .. Len(s)
  BY RemoveAtFacts, LenProperties
<1> HIDE DEF r
<1>2. \A a, b \in 1 .. Len(s) : s[a] = s[b] => a = b
  BY <1>1 DEF IsInjective
<1>3. IsInjective(r)
  BY <1>1, <1>2 DEF IsInjective
<1>4. ASSUME NEW x \in ToSet(r) PROVE x \in ToSet(s) \ {s[i]}
  BY <1>1, <1>2 DEF ToSet
<1>5. ASSUME NEW x \in ToSet(s) \ {s[i]} PROVE x \in ToSet(r)
  <2>1. PICK j \in 1 .. Len(s) : x = s[j]
    BY <1>1 DEF ToSet
  <2>2. j # i
    BY <2>1
  <2>3. CASE j < i
    BY <1>1, <2>1, <2>3, SMTT(40) DEF ToSet
  <2>4. CASE j > i
    <3>1. j - 1 \in 1 .. Len(s) - 1 /\ r[j - 1] = s[j]
      BY <1>1, <2>1, <2>4
    <3> QED BY <1>1, <2>1, <3>1 DEF ToSet
  <2> QED BY <2>2, <2>3, <2>4
<1> QED BY <1>3, <1>4, <1>5 DEF r

\* A block that is appended to an injective list without it.
LEMMA AppendSet ==
  ASSUME NEW S, NEW s \in Seq(S), IsInjective(s), NEW x \in S, x \notin ToSet(s)
  PROVE  /\ Append(s, x) \in Seq(S)
         /\ ToSet(Append(s, x)) = ToSet(s) \cup {x}
         /\ IsInjective(Append(s, x))
<1>1. /\ Append(s, x) \in Seq(S) /\ Len(s) \in Nat
      /\ DOMAIN Append(s, x) = 1 .. Len(s) + 1 /\ DOMAIN s = 1 .. Len(s)
      /\ \A j \in 1 .. Len(s) : Append(s, x)[j] = s[j]
      /\ Append(s, x)[Len(s) + 1] = x
  BY LenProperties
<1>2. ToSet(Append(s, x)) = ToSet(s) \cup {x}
  BY <1>1 DEF ToSet
<1>3. IsInjective(Append(s, x))
  BY <1>1 DEF IsInjective, ToSet
<1> QED BY <1>1, <1>2, <1>3

\* The blocks are finitely many, and their bytes are a sum.
LEMMA BlocksFinite ==
  /\ DeviceBytes \div Alignment \in Nat
  /\ IsFiniteSet(Blocks) /\ \A S \in SUBSET Blocks : IsFiniteSet(S)
  /\ Cardinality(Blocks) = DeviceBytes \div Alignment
  /\ NoBlock \notin Blocks
<1>1. DeviceBytes \div Alignment \in Nat
  BY DeviceAssumption
<1>2. IsFiniteSet(Blocks) /\ Cardinality(Blocks) = DeviceBytes \div Alignment
  BY <1>1, FS_Interval DEF Blocks
<1>3. \A S \in SUBSET Blocks : IsFiniteSet(S)
  BY <1>2, FS_Subset
<1> QED BY <1>1, <1>2, <1>3 DEF Blocks, NoBlock

\* BytesOf is the sum of the capacities.
LEMMA BytesAreSums == ASSUME NEW h, NEW S PROVE BytesOf(h, S) = SumOver(h.capacity, S)
  BY DEF BytesOf, SumOver

\* A request is rounded up to a positive size.
LEMMA AlignedPositive ==
  ASSUME NEW n \in Nat \ {0}
  PROVE  AlignedSize(n) \in Nat \ {0} /\ AlignedSize(n) % Alignment = 0
<1> DEFINE units == (n + Alignment - 1) \div Alignment
<1>1. units \in Nat \ {0} /\ Alignment \in Nat \ {0}
  BY DeviceAssumption
<1>2. \A u, a \in Nat \ {0} : u * a \in Nat \ {0} /\ (u * a) % a = 0
  OBVIOUS
<1> QED BY <1>1, <1>2 DEF AlignedSize

-----------------------------------------------------------------------------
(* The heap: what CudaMemoryPool and CudaBackend keep. *)

PoolFields == {"free", "active", "accepting", "allocatedBytes", "activeBytes", "freeBytes"}
HeapFields == {"capacity", "pool", "refused"}

\* One pool: its list and its set are apart, and its statistics agree.
PoolOK(h, p) ==
  /\ IsRecord(h.pool[p], PoolFields)
  /\ h.pool[p].free \in Seq(Blocks) /\ IsInjective(h.pool[p].free)
  /\ h.pool[p].active \subseteq Blocks
  /\ h.pool[p].active \cap ToSet(h.pool[p].free) = {}
  /\ h.pool[p].accepting \in BOOLEAN
  /\ h.pool[p].activeBytes = SumOver(h.capacity, h.pool[p].active)
  /\ h.pool[p].freeBytes = SumOver(h.capacity, ToSet(h.pool[p].free))
  /\ h.pool[p].allocatedBytes = h.pool[p].activeBytes + h.pool[p].freeBytes
  /\ h.pool[p].freeBytes <= MaximumCachedBytes
  /\ ~h.pool[p].accepting => h.pool[p].free = <<>>

\* A heap is a record of capacities, pools and blocks that are refused.
HeapShape(h) ==
  /\ IsRecord(h, HeapFields)
  /\ IsRecord(h.pool, Pools)
  /\ h.capacity \in [Blocks -> Nat]
  /\ \A b \in Blocks : h.capacity[b] % Alignment = 0
  /\ h.refused \subseteq Blocks

\* What a pool holds is allocated, and what is allocated is held by a pool or was
\* not taken back.
Placed(h, b) ==
  /\ (\E p \in Pools : b \in Held(h, p)) => h.capacity[b] # 0
  /\ h.capacity[b] # 0 => b \in h.refused \/ \E p \in Pools : b \in Held(h, p)

\* Every allocation is in one pool or lost, and together they fit the device.
HeapOK(h) ==
  /\ HeapShape(h)
  /\ \A p \in Pools : PoolOK(h, p)
  /\ \A p, q \in Pools : p # q => Held(h, p) \cap Held(h, q) = {}
  /\ \A b \in Blocks : Placed(h, b)
  /\ SumOver(h.capacity, Allocated(h)) <= DeviceBytes

\* Sums over blocks are naturals.
LEMMA SumsOfBlocks ==
  ASSUME NEW c \in [Blocks -> Nat], NEW S \in SUBSET Blocks
  PROVE  /\ SumOver(c, S) \in Nat
         /\ \A b \in S : SumOver(c, S) = c[b] + SumOver(c, S \ {b})
         /\ \A b \in Blocks \ S : SumOver(c, S \cup {b}) = SumOver(c, S) + c[b]
         /\ \A d \in [Blocks -> Nat] :
              (\A b \in S : c[b] = d[b]) => SumOver(c, S) = SumOver(d, S)
<1>1. IsFiniteSet(S) /\ \A b \in Blocks : c[b] \in Nat
  BY BlocksFinite
<1>2. SumOver(c, S) \in Nat
  BY <1>1, SumType
<1>3. ASSUME NEW b \in S PROVE SumOver(c, S) = c[b] + SumOver(c, S \ {b})
  <2>1. \A x \in S : c[x] \in Int
    BY <1>1
  <2> QED BY <1>1, <2>1, SumRemove
<1>4. ASSUME NEW b \in Blocks \ S PROVE SumOver(c, S \cup {b}) = SumOver(c, S) + c[b]
  <2>1. b \notin S /\ \A x \in S \cup {b} : c[x] \in Int
    BY <1>1
  <2> QED BY <1>1, <2>1, SumAdd
<1>5. ASSUME NEW d \in [Blocks -> Nat], \A b \in S : c[b] = d[b]
      PROVE  SumOver(c, S) = SumOver(d, S)
  BY <1>1, <1>5, SumSame
<1> QED BY <1>2, <1>3, <1>4, <1>5

\* The two of them that give and take a block.
LEMMA SumWith ==
  ASSUME NEW c \in [Blocks -> Nat], NEW S \in SUBSET Blocks, NEW b \in Blocks \ S
  PROVE  SumOver(c, S \cup {b}) = SumOver(c, S) + c[b]
  BY SumsOfBlocks

LEMMA SumWithout ==
  ASSUME NEW c \in [Blocks -> Nat], NEW S \in SUBSET Blocks, NEW b \in S
  PROVE  SumOver(c, S) = c[b] + SumOver(c, S \ {b})
  BY SumsOfBlocks

\* A step that changes one pool and leaves the capacities of the other's
\* blocks alone.
LEMMA OnePool ==
  ASSUME NEW h, HeapOK(h), NEW g, HeapShape(g), NEW p \in Pools, PoolOK(g, p),
         \A q \in Pools \ {p} :
           /\ g.pool[q] = h.pool[q]
           /\ \A b \in Held(h, q) : g.capacity[b] = h.capacity[b]
           /\ Held(g, p) \cap Held(h, q) = {},
         \A b \in Blocks : Placed(g, b),
         SumOver(g.capacity, Allocated(g)) <= DeviceBytes
  PROVE  HeapOK(g)
<1>1. ASSUME NEW q \in Pools \ {p} PROVE PoolOK(g, q) /\ Held(g, q) = Held(h, q)
  <2>1. g.pool[q] = h.pool[q] /\ PoolOK(h, q)
    BY DEF HeapOK
  <2>2. /\ h.capacity \in [Blocks -> Nat] /\ g.capacity \in [Blocks -> Nat]
        /\ h.pool[q].active \subseteq Blocks /\ ToSet(h.pool[q].free) \subseteq Blocks
    <3>1. h.pool[q].free \in Seq(Blocks)
      BY <2>1 DEF PoolOK
    <3>2. ToSet(h.pool[q].free) \subseteq Blocks
      BY <3>1 DEF ToSet
    <3> QED BY <2>1, <3>2 DEF PoolOK, HeapOK, HeapShape
  <2>3. \A b \in h.pool[q].active \cup ToSet(h.pool[q].free) : h.capacity[b] = g.capacity[b]
    BY DEF Held
  <2>4. /\ SumOver(h.capacity, h.pool[q].active) = SumOver(g.capacity, h.pool[q].active)
        /\ SumOver(h.capacity, ToSet(h.pool[q].free)) = SumOver(g.capacity, ToSet(h.pool[q].free))
    BY <2>2, <2>3, SumsOfBlocks
  <2>5. PoolOK(g, q)
    BY <2>1, <2>4 DEF PoolOK
  <2> QED BY <2>1, <2>5 DEF Held
<1>2. \A q \in Pools : PoolOK(g, q)
  BY <1>1
<1>3. \A q, r \in Pools : q # r => Held(g, q) \cap Held(g, r) = {}
  <2>1. \A q \in Pools \ {p} : Held(g, p) \cap Held(g, q) = {}
    BY <1>1
  <2>2. \A q, r \in Pools : q # r => q = p \/ r = p
    BY DEF Pools
  <2> QED BY <2>1, <2>2
<1> QED BY <1>2, <1>3 DEF HeapOK

\* What is known of one pool of a heap.
Known(h, p) ==
  /\ h.capacity \in [Blocks -> Nat]
  /\ IsRecord(h.pool[p], PoolFields)
  /\ h.pool[p].free \in Seq(Blocks) /\ IsInjective(h.pool[p].free)
  /\ DOMAIN h.pool[p].free = 1 .. Len(h.pool[p].free) /\ Len(h.pool[p].free) \in Nat
  /\ ToSet(h.pool[p].free) \subseteq Blocks /\ h.pool[p].active \subseteq Blocks
  /\ h.pool[p].active \cap ToSet(h.pool[p].free) = {}
  /\ h.pool[p].accepting \in BOOLEAN
  /\ h.pool[p].activeBytes = SumOver(h.capacity, h.pool[p].active)
  /\ h.pool[p].freeBytes = SumOver(h.capacity, ToSet(h.pool[p].free))
  /\ h.pool[p].activeBytes \in Nat /\ h.pool[p].freeBytes \in Nat
  /\ h.pool[p].allocatedBytes = h.pool[p].activeBytes + h.pool[p].freeBytes
  /\ h.pool[p].freeBytes <= MaximumCachedBytes
  /\ \A b \in Held(h, p) : b \in Blocks /\ h.capacity[b] # 0

\* All of it follows from the invariant of the heap.
LEMMA PoolFacts == ASSUME NEW h, HeapOK(h), NEW p \in Pools PROVE Known(h, p)
<1>1. PoolOK(h, p) /\ h.capacity \in [Blocks -> Nat]
  BY DEF HeapOK, HeapShape
<1>2. /\ DOMAIN h.pool[p].free = 1 .. Len(h.pool[p].free) /\ Len(h.pool[p].free) \in Nat
      /\ ToSet(h.pool[p].free) \subseteq Blocks
  BY <1>1, LenProperties, ElementOfSeq DEF PoolOK, ToSet
<1>3. h.pool[p].activeBytes \in Nat /\ h.pool[p].freeBytes \in Nat
  BY <1>1, <1>2, SumsOfBlocks DEF PoolOK
<1>4. \A b \in Held(h, p) : b \in Blocks /\ h.capacity[b] # 0
  BY <1>1, <1>2 DEF HeapOK, Held, Placed, PoolOK
<1> QED BY <1>1, <1>2, <1>3, <1>4 DEF PoolOK, Known

\* The heap g has the other pools of h, and the pool p as given.
Shaped(h, p) ==
  IsRecord(h, HeapFields) /\ IsRecord(h.pool, Pools) /\ IsRecord(h.pool[p], PoolFields)
Others(g, h, p) ==
  Shaped(g, p) /\ g.refused = h.refused /\ \A r \in Pools \ {p} : g.pool[r] = h.pool[r]
PoolIs(g, p, free, active, accepting, allocatedBytes, activeBytes, freeBytes) ==
  /\ g.pool[p].free = free /\ g.pool[p].active = active /\ g.pool[p].accepting = accepting
  /\ g.pool[p].allocatedBytes = allocatedBytes
  /\ g.pool[p].activeBytes = activeBytes /\ g.pool[p].freeBytes = freeBytes

\* Activate moves a block of the heap into the set of those in use.
LEMMA ActivateIs ==
  ASSUME NEW h, NEW p \in Pools, Shaped(h, p), NEW b, NEW g, g = Activate(h, p, b)
  PROVE  /\ Others(g, h, p) /\ g.capacity = h.capacity
         /\ PoolIs(g, p, h.pool[p].free, h.pool[p].active \cup {b}, h.pool[p].accepting,
                   h.pool[p].allocatedBytes, h.pool[p].activeBytes + h.capacity[b],
                   h.pool[p].freeBytes)
<1>1. Others(g, h, p) /\ g.capacity = h.capacity
  BY DEF Activate, Shaped, Others, IsRecord, PoolFields, HeapFields
<1>2. PoolIs(g, p, h.pool[p].free, h.pool[p].active \cup {b}, h.pool[p].accepting,
             h.pool[p].allocatedBytes, h.pool[p].activeBytes + h.capacity[b],
             h.pool[p].freeBytes)
  BY DEF Activate, Shaped, PoolIs, IsRecord, PoolFields, HeapFields
<1> QED BY <1>1, <1>2

\* A cached block that moves into the set of those in use.
LEMMA ReuseOK ==
  ASSUME NEW h, HeapOK(h), NEW p \in Pools, NEW i \in 1 .. Len(h.pool[p].free), NEW b,
         b = h.pool[p].free[i], NEW g, Others(g, h, p), g.capacity = h.capacity,
         PoolIs(g, p, RemoveAt(h.pool[p].free, i), h.pool[p].active \cup {b},
                h.pool[p].accepting, h.pool[p].allocatedBytes,
                h.pool[p].activeBytes + h.capacity[b], h.pool[p].freeBytes - h.capacity[b])
  PROVE  /\ HeapOK(g)
         /\ b \in Blocks \ Active(h) /\ Active(g) = Active(h) \cup {b}
<1>0. HeapShape(h) /\ Known(h, p)
  BY PoolFacts DEF HeapOK
<1>1. /\ b \in ToSet(h.pool[p].free) /\ b \in Blocks /\ b \notin h.pool[p].active
      /\ b \in Held(h, p) /\ h.capacity[b] \in Nat /\ h.pool[p].free # <<>>
  <2>1. b \in ToSet(h.pool[p].free) /\ h.pool[p].free # <<>>
    <3>1. h.pool[p].free \in Seq(Blocks)
      BY <1>0 DEF Known
    <3> QED BY <3>1, ListedAt
  <2>2. b \in Blocks /\ b \notin h.pool[p].active /\ b \in Held(h, p)
    BY <1>0, <2>1 DEF Known, Held
  <2>3. h.capacity[b] \in Nat
    BY <1>0, <2>2 DEF Known
  <2> QED BY <2>1, <2>2, <2>3
<1>2. /\ g.pool[p].free \in Seq(Blocks) /\ IsInjective(g.pool[p].free)
      /\ ToSet(g.pool[p].free) = ToSet(h.pool[p].free) \ {b}
  <2>1. h.pool[p].free \in Seq(Blocks) /\ IsInjective(h.pool[p].free)
    BY <1>0 DEF Known
  <2>2. g.pool[p].free = RemoveAt(h.pool[p].free, i)
    BY DEF PoolIs
  <2> QED BY <2>1, <2>2, RemoveAtFacts, RemoveAtSet, SMTT(40)
<1>3. /\ SumOver(h.capacity, g.pool[p].active)
           = SumOver(h.capacity, h.pool[p].active) + h.capacity[b]
      /\ SumOver(h.capacity, ToSet(h.pool[p].free))
           = h.capacity[b] + SumOver(h.capacity, ToSet(g.pool[p].free))
      /\ SumOver(h.capacity, ToSet(g.pool[p].free)) \in Nat
  <2>1. /\ h.capacity \in [Blocks -> Nat] /\ h.pool[p].active \in SUBSET Blocks
        /\ ToSet(h.pool[p].free) \in SUBSET Blocks /\ ToSet(g.pool[p].free) \in SUBSET Blocks
        /\ b \in Blocks \ h.pool[p].active /\ g.pool[p].active = h.pool[p].active \cup {b}
    BY <1>0, <1>1, <1>2 DEF Known, PoolIs
  <2>2. SumOver(h.capacity, h.pool[p].active \cup {b})
          = SumOver(h.capacity, h.pool[p].active) + h.capacity[b]
    <3> DEFINE c == h.capacity
               S == h.pool[p].active
    <3>1. c \in [Blocks -> Nat] /\ S \in SUBSET Blocks /\ b \in Blocks \ S
      BY <2>1
    <3> HIDE DEF c, S
    <3>2. SumOver(c, S \cup {b}) = SumOver(c, S) + c[b]
      BY <3>1, SumWith, Zenon
    <3> QED BY <3>2 DEF c, S
  <2>3. SumOver(h.capacity, ToSet(h.pool[p].free))
          = h.capacity[b] + SumOver(h.capacity, ToSet(h.pool[p].free) \ {b})
    <3> DEFINE c == h.capacity
               S == ToSet(h.pool[p].free)
    <3>1. c \in [Blocks -> Nat] /\ S \in SUBSET Blocks /\ b \in S
      BY <1>1, <2>1
    <3> HIDE DEF c, S
    <3>2. SumOver(c, S) = c[b] + SumOver(c, S \ {b})
      BY <3>1, SumWithout, Zenon
    <3> QED BY <3>2 DEF c, S
  <2>4. SumOver(h.capacity, ToSet(g.pool[p].free)) \in Nat
    BY <2>1, SumsOfBlocks
  <2> QED BY <1>2, <2>1, <2>2, <2>3, <2>4
<1>4. PoolOK(g, p)
  <2>1. h.pool[p].accepting
    BY <1>1 DEF HeapOK, PoolOK
  <2>2. IsRecord(g.pool[p], PoolFields) /\ g.pool[p].accepting = TRUE
    BY <1>0, <2>1 DEF Others, Shaped, PoolIs, Known
  <2>3. /\ g.pool[p].active \subseteq Blocks
        /\ g.pool[p].active \cap ToSet(g.pool[p].free) = {}
    BY <1>0, <1>1, <1>2 DEF Known, PoolIs
  <2>6. /\ g.pool[p].activeBytes = h.pool[p].activeBytes + h.capacity[b]
        /\ g.pool[p].freeBytes = h.pool[p].freeBytes - h.capacity[b]
        /\ g.pool[p].allocatedBytes = h.pool[p].allocatedBytes
    BY DEF PoolIs
  <2>7. /\ h.pool[p].activeBytes = SumOver(h.capacity, h.pool[p].active)
        /\ h.pool[p].freeBytes = SumOver(h.capacity, ToSet(h.pool[p].free))
        /\ h.pool[p].activeBytes \in Nat /\ h.pool[p].freeBytes \in Nat
        /\ h.pool[p].allocatedBytes = h.pool[p].activeBytes + h.pool[p].freeBytes
        /\ h.pool[p].freeBytes <= MaximumCachedBytes
    BY <1>0 DEF Known
  <2>9. /\ h.pool[p].freeBytes - h.capacity[b] = SumOver(h.capacity, ToSet(g.pool[p].free))
        /\ (h.pool[p].activeBytes + h.capacity[b]) + (h.pool[p].freeBytes - h.capacity[b])
             = h.pool[p].activeBytes + h.pool[p].freeBytes
        /\ h.pool[p].freeBytes - h.capacity[b] <= MaximumCachedBytes
    <3> DEFINE a == h.pool[p].activeBytes
               f == h.pool[p].freeBytes
               c == h.capacity[b]
               r == SumOver(h.capacity, ToSet(g.pool[p].free))
    <3>1. /\ a \in Nat /\ f \in Nat /\ c \in Nat /\ r \in Nat /\ MaximumCachedBytes \in Nat
          /\ f = c + r /\ f <= MaximumCachedBytes
      BY <1>1, <1>3, <2>7, DeviceAssumption
    <3> HIDE DEF a, f, c, r
    <3>2. f - c = r /\ (a + c) + (f - c) = a + f /\ f - c <= MaximumCachedBytes
      BY <3>1
    <3> QED BY <3>2 DEF a, f, c, r
  <2>4. /\ g.pool[p].activeBytes = SumOver(g.capacity, g.pool[p].active)
        /\ g.pool[p].freeBytes = SumOver(g.capacity, ToSet(g.pool[p].free))
    BY <1>3, <2>6, <2>7, <2>9
  <2>5. /\ g.pool[p].allocatedBytes = g.pool[p].activeBytes + g.pool[p].freeBytes
        /\ g.pool[p].freeBytes <= MaximumCachedBytes
    BY <2>6, <2>7, <2>9
  <2> QED BY <1>2, <2>2, <2>3, <2>4, <2>5 DEF PoolOK
<1>5. \A r \in Pools : Held(g, r) = Held(h, r)
  BY <1>1, <1>2 DEF Held, PoolIs, Others
<1>6. HeapShape(g) /\ Allocated(g) = Allocated(h)
  BY <1>0 DEF HeapShape, Allocated, Others, Shaped
<1>7. HeapOK(g)
  <2>1. \A r \in Pools \ {p} : /\ g.pool[r] = h.pool[r]
                               /\ \A x \in Held(h, r) : g.capacity[x] = h.capacity[x]
                               /\ Held(g, p) \cap Held(h, r) = {}
    BY <1>5 DEF HeapOK, Others
  <2>2. \A x \in Blocks : Placed(g, x)
    BY <1>5 DEF HeapOK, Placed, Others
  <2>3. SumOver(g.capacity, Allocated(g)) <= DeviceBytes
    BY <1>6 DEF HeapOK
  <2> QED BY <1>4, <1>6, <2>1, <2>2, <2>3, OnePool
<1>8. b \notin Active(h)
  <2>1. \A r \in Pools \ {p} : b \notin h.pool[r].active
    BY <1>1 DEF HeapOK, Held
  <2> QED BY <1>1, <2>1 DEF Active, Pools
<1>9. Active(g) = Active(h) \cup {b}
  BY DEF Active, Pools, PoolIs, Others
<1> QED BY <1>1, <1>7, <1>8, <1>9

\* What the driver hands out is aligned and within the device's memory.
Fits(h, size) ==
  /\ size \in Nat \ {0} /\ size % Alignment = 0
  /\ SumOver(h.capacity, Allocated(h)) + size <= DeviceBytes

\* The heap g is h with block b fresh in pool p.
Adds(g, h, p, b, size) ==
  /\ Others(g, h, p) /\ g.capacity = [h.capacity EXCEPT ![b] = size]
  /\ PoolIs(g, p, h.pool[p].free, h.pool[p].active \cup {b}, h.pool[p].accepting,
            h.pool[p].allocatedBytes + size, h.pool[p].activeBytes + size,
            h.pool[p].freeBytes)

\* A block fresh from the driver.
LEMMA FreshOK ==
  ASSUME NEW h, HeapOK(h), NEW p \in Pools, h.pool[p].accepting,
         NEW b \in Blocks, h.capacity[b] = 0, NEW size, Fits(h, size),
         NEW g, Adds(g, h, p, b, size)
  PROVE  /\ HeapOK(g)
         /\ b \in Blocks \ Active(h) /\ Active(g) = Active(h) \cup {b}
<1> USE DEF Fits, Adds
<1>0. HeapShape(h) /\ Known(h, p) /\ h.capacity \in [Blocks -> Nat]
  BY PoolFacts DEF HeapOK, Known
<1>1. \A r \in Pools : b \notin Held(h, r)
  BY DEF HeapOK, Placed
<1>2. /\ g.capacity \in [Blocks -> Nat] /\ g.capacity[b] = size
      /\ \A x \in Blocks \ {b} : g.capacity[x] = h.capacity[x]
  BY <1>0
<1>3. ASSUME NEW S \in SUBSET Blocks, b \notin S
      PROVE  /\ SumOver(g.capacity, S) = SumOver(h.capacity, S)
             /\ SumOver(g.capacity, S \cup {b}) = SumOver(h.capacity, S) + size
  <2>1. \A x \in S : h.capacity[x] = g.capacity[x]
    BY <1>2, <1>3
  <2>2. SumOver(h.capacity, S) = SumOver(g.capacity, S)
    BY <1>0, <1>2, <2>1, SumsOfBlocks
  <2>3. SumOver(g.capacity, S \cup {b}) = SumOver(g.capacity, S) + g.capacity[b]
    BY <1>2, <1>3, SumsOfBlocks
  <2> QED BY <1>2, <2>2, <2>3
<1>4. PoolOK(g, p)
  <2>1. /\ h.pool[p].active \in SUBSET Blocks /\ b \notin h.pool[p].active
        /\ ToSet(h.pool[p].free) \in SUBSET Blocks /\ b \notin ToSet(h.pool[p].free)
    BY <1>0, <1>1 DEF Known, Held
  <2>2. /\ IsRecord(g.pool[p], PoolFields) /\ g.pool[p].accepting = TRUE
        /\ g.pool[p].free = h.pool[p].free /\ g.pool[p].active = h.pool[p].active \cup {b}
        /\ g.pool[p].activeBytes = h.pool[p].activeBytes + size
        /\ g.pool[p].freeBytes = h.pool[p].freeBytes
        /\ g.pool[p].allocatedBytes = h.pool[p].allocatedBytes + size
    BY <1>0 DEF Others, Shaped, PoolIs, Known
  <2>3. /\ h.pool[p].activeBytes = SumOver(h.capacity, h.pool[p].active)
        /\ h.pool[p].freeBytes = SumOver(h.capacity, ToSet(h.pool[p].free))
        /\ h.pool[p].activeBytes \in Nat /\ h.pool[p].freeBytes \in Nat
        /\ h.pool[p].allocatedBytes = h.pool[p].activeBytes + h.pool[p].freeBytes
        /\ h.pool[p].freeBytes <= MaximumCachedBytes
        /\ h.pool[p].free \in Seq(Blocks) /\ IsInjective(h.pool[p].free)
        /\ h.pool[p].active \cap ToSet(h.pool[p].free) = {}
    BY <1>0 DEF Known
  <2>4. /\ g.pool[p].activeBytes = SumOver(g.capacity, g.pool[p].active)
        /\ g.pool[p].freeBytes = SumOver(g.capacity, ToSet(g.pool[p].free))
    <3>1. /\ SumOver(g.capacity, h.pool[p].active \cup {b})
               = SumOver(h.capacity, h.pool[p].active) + size
          /\ SumOver(g.capacity, ToSet(h.pool[p].free))
               = SumOver(h.capacity, ToSet(h.pool[p].free))
      BY <1>3, <2>1
    <3> QED BY <2>2, <2>3, <3>1
  <2>5. g.pool[p].allocatedBytes = g.pool[p].activeBytes + g.pool[p].freeBytes
    <3> DEFINE a == h.pool[p].activeBytes
               f == h.pool[p].freeBytes
    <3>1. a \in Nat /\ f \in Nat
      BY <2>3
    <3> HIDE DEF a, f
    <3>2. (a + f) + size = (a + size) + f
      BY <3>1
    <3> QED BY <2>2, <2>3, <3>2 DEF a, f
  <2>6. /\ g.pool[p].active \subseteq Blocks
        /\ g.pool[p].active \cap ToSet(g.pool[p].free) = {}
    BY <2>1, <2>2, <2>3
  <2> QED BY <2>2, <2>3, <2>4, <2>5, <2>6 DEF PoolOK
<1>5. /\ Held(g, p) = Held(h, p) \cup {b}
      /\ \A r \in Pools \ {p} : Held(g, r) = Held(h, r)
  BY DEF Held, PoolIs, Others
<1>6. HeapShape(g) /\ Allocated(g) = Allocated(h) \cup {b} /\ b \notin Allocated(h)
  <2>1. \A x \in Blocks : g.capacity[x] % Alignment = 0
    BY <1>0, <1>2 DEF HeapShape
  <2> QED BY <1>0, <1>2, <2>1 DEF HeapShape, Allocated, Others, Shaped
<1>7. HeapOK(g)
  <2>1. \A r \in Pools \ {p} : /\ g.pool[r] = h.pool[r]
                               /\ \A x \in Held(h, r) : g.capacity[x] = h.capacity[x]
                               /\ Held(g, p) \cap Held(h, r) = {}
    <3> SUFFICES ASSUME NEW r \in Pools \ {p}
                 PROVE  /\ g.pool[r] = h.pool[r]
                        /\ \A x \in Held(h, r) : g.capacity[x] = h.capacity[x]
                        /\ Held(g, p) \cap Held(h, r) = {}
      OBVIOUS
    <3>1. Held(h, r) \subseteq Blocks \ {b}
      BY <1>1, PoolFacts DEF Known
    <3>2. Held(h, p) \cap Held(h, r) = {}
      BY DEF HeapOK
    <3> QED BY <1>2, <1>5, <3>1, <3>2 DEF Others
  <2>2. \A x \in Blocks : Placed(g, x)
    <3> SUFFICES ASSUME NEW x \in Blocks PROVE Placed(g, x)
      OBVIOUS
    <3>1. CASE x = b
      BY <1>2, <1>5, <3>1 DEF Placed
    <3>2. CASE x # b
      <4>1. g.capacity[x] = h.capacity[x]
        BY <1>2, <3>2
      <4>2. \A r \in Pools : x \in Held(g, r) <=> x \in Held(h, r)
        BY <1>5, <3>2
      <4> QED BY <4>1, <4>2 DEF HeapOK, Placed, Others
    <3> QED BY <3>1, <3>2
  <2>3. SumOver(g.capacity, Allocated(g)) <= DeviceBytes
    <3>1. Allocated(h) \in SUBSET Blocks
      BY DEF Allocated
    <3> QED BY <1>3, <1>6, <3>1
  <2> QED BY <1>4, <1>6, <2>1, <2>2, <2>3, OnePool
<1>8. b \notin Active(h)
  BY <1>1 DEF Active, Held, Pools
<1>9. Active(g) = Active(h) \cup {b}
  BY DEF Active, Pools, PoolIs, Others
<1> QED BY <1>7, <1>8, <1>9

\* A block that goes from use into the cache.
LEMMA CacheOK ==
  ASSUME NEW h, HeapOK(h), NEW p \in Pools, NEW b \in h.pool[p].active,
         Caches(h.pool[p], h.capacity[b]),
         NEW g, Others(g, h, p), g.capacity = h.capacity,
         PoolIs(g, p, Append(h.pool[p].free, b), h.pool[p].active \ {b}, h.pool[p].accepting,
                h.pool[p].allocatedBytes, h.pool[p].activeBytes - h.capacity[b],
                h.pool[p].freeBytes + h.capacity[b])
  PROVE  HeapOK(g) /\ Active(g) = Active(h) \ {b}
<1>0. HeapShape(h) /\ Known(h, p) /\ h.capacity \in [Blocks -> Nat]
  BY PoolFacts DEF HeapOK, Known
<1>1. /\ b \in Blocks /\ h.capacity[b] \in Nat /\ b \notin ToSet(h.pool[p].free)
      /\ h.pool[p].active \in SUBSET Blocks /\ ToSet(h.pool[p].free) \in SUBSET Blocks
      /\ b \in Held(h, p)
  BY <1>0 DEF Known, Held
<1>2. /\ g.pool[p].free \in Seq(Blocks) /\ IsInjective(g.pool[p].free)
      /\ ToSet(g.pool[p].free) = ToSet(h.pool[p].free) \cup {b}
  <2>1. h.pool[p].free \in Seq(Blocks) /\ IsInjective(h.pool[p].free)
    BY <1>0 DEF Known
  <2>2. g.pool[p].free = Append(h.pool[p].free, b)
    BY DEF PoolIs
  <2> QED BY <1>1, <2>1, <2>2, AppendSet
<1>3. /\ SumOver(h.capacity, h.pool[p].active)
           = h.capacity[b] + SumOver(h.capacity, h.pool[p].active \ {b})
      /\ SumOver(h.capacity, h.pool[p].active \ {b}) \in Nat
      /\ SumOver(h.capacity, ToSet(h.pool[p].free) \cup {b})
           = SumOver(h.capacity, ToSet(h.pool[p].free)) + h.capacity[b]
  <2>1. h.pool[p].active \ {b} \in SUBSET Blocks /\ b \in Blocks \ ToSet(h.pool[p].free)
    BY <1>1
  <2>2. SumOver(h.capacity, h.pool[p].active \ {b}) \in Nat
    BY <1>0, <2>1, SumsOfBlocks
  <2>3. SumOver(h.capacity, h.pool[p].active)
           = h.capacity[b] + SumOver(h.capacity, h.pool[p].active \ {b})
    BY <1>0, <1>1, SumsOfBlocks
  <2>4. SumOver(h.capacity, ToSet(h.pool[p].free) \cup {b})
           = SumOver(h.capacity, ToSet(h.pool[p].free)) + h.capacity[b]
    BY <1>0, <1>1, <2>1, SumsOfBlocks
  <2> QED BY <2>2, <2>3, <2>4
<1>4. PoolOK(g, p)
  <2>2. /\ IsRecord(g.pool[p], PoolFields) /\ g.pool[p].accepting = TRUE
        /\ g.pool[p].active = h.pool[p].active \ {b}
        /\ g.pool[p].activeBytes = h.pool[p].activeBytes - h.capacity[b]
        /\ g.pool[p].freeBytes = h.pool[p].freeBytes + h.capacity[b]
        /\ g.pool[p].allocatedBytes = h.pool[p].allocatedBytes
    BY <1>0 DEF Others, Shaped, PoolIs, Known, Caches
  <2>3. /\ h.pool[p].activeBytes = SumOver(h.capacity, h.pool[p].active)
        /\ h.pool[p].freeBytes = SumOver(h.capacity, ToSet(h.pool[p].free))
        /\ h.pool[p].freeBytes \in Nat
        /\ h.pool[p].allocatedBytes = h.pool[p].activeBytes + h.pool[p].freeBytes
        /\ h.pool[p].active \cap ToSet(h.pool[p].free) = {}
    BY <1>0 DEF Known
  <2>4. /\ h.pool[p].activeBytes - h.capacity[b] = SumOver(h.capacity, h.pool[p].active \ {b})
        /\ h.pool[p].activeBytes + h.pool[p].freeBytes
             = (h.pool[p].activeBytes - h.capacity[b]) + (h.pool[p].freeBytes + h.capacity[b])
        /\ h.pool[p].freeBytes + h.capacity[b] <= MaximumCachedBytes
    <3> DEFINE a == h.pool[p].activeBytes
               f == h.pool[p].freeBytes
               c == h.capacity[b]
               r == SumOver(h.capacity, h.pool[p].active \ {b})
    <3>1. /\ a = c + r /\ f \in Nat /\ c \in Nat /\ r \in Nat /\ MaximumCachedBytes \in Nat
          /\ c <= MaximumCachedBytes - f
      BY <1>1, <1>3, <2>3, DeviceAssumption DEF Caches
    <3> HIDE DEF a, f, c, r
    <3>2. a - c = r /\ a + f = (a - c) + (f + c) /\ f + c <= MaximumCachedBytes
      BY <3>1
    <3> QED BY <3>2 DEF a, f, c, r
  <2>5. /\ g.pool[p].active \subseteq Blocks
        /\ g.pool[p].active \cap ToSet(g.pool[p].free) = {}
    BY <1>1, <1>2, <2>2, <2>3
  <2>6. /\ g.pool[p].activeBytes = SumOver(g.capacity, g.pool[p].active)
        /\ g.pool[p].freeBytes = SumOver(g.capacity, ToSet(g.pool[p].free))
        /\ g.pool[p].allocatedBytes = g.pool[p].activeBytes + g.pool[p].freeBytes
        /\ g.pool[p].freeBytes <= MaximumCachedBytes
    BY <1>2, <1>3, <2>2, <2>3, <2>4
  <2> QED BY <1>2, <2>2, <2>5, <2>6 DEF PoolOK
<1>5. \A r \in Pools : Held(g, r) = Held(h, r)
  BY <1>1, <1>2 DEF Held, PoolIs, Others
<1>6. HeapShape(g) /\ Allocated(g) = Allocated(h)
  BY <1>0 DEF HeapShape, Allocated, Others, Shaped
<1>7. HeapOK(g)
  <2>1. \A r \in Pools \ {p} : /\ g.pool[r] = h.pool[r]
                               /\ \A x \in Held(h, r) : g.capacity[x] = h.capacity[x]
                               /\ Held(g, p) \cap Held(h, r) = {}
    BY <1>5 DEF HeapOK, Others
  <2>2. \A x \in Blocks : Placed(g, x)
    BY <1>5 DEF HeapOK, Placed, Others
  <2>3. SumOver(g.capacity, Allocated(g)) <= DeviceBytes
    BY <1>6 DEF HeapOK
  <2> QED BY <1>4, <1>6, <2>1, <2>2, <2>3, OnePool
<1>8. \A r \in Pools \ {p} : b \notin h.pool[r].active
  BY <1>1 DEF HeapOK, Held
<1>9. Active(g) = Active(h) \ {b}
  BY <1>8 DEF Active, Pools, PoolIs, Others
<1> QED BY <1>7, <1>9

\* Blocks that pool p drops: the driver takes them back, or refuses to.
LEMMA GoneOK ==
  ASSUME NEW h, HeapOK(h), NEW p \in Pools, NEW dropped, dropped \subseteq Held(h, p),
         NEW gone, gone = dropped \ h.refused, NEW g, Others(g, h, p),
         g.capacity = [b \in Blocks |-> IF b \in gone THEN 0 ELSE h.capacity[b]],
         Held(g, p) = Held(h, p) \ dropped, PoolOK(g, p)
  PROVE  HeapOK(g)
<1>0. HeapShape(h) /\ Known(h, p) /\ h.capacity \in [Blocks -> Nat]
  BY PoolFacts DEF HeapOK, Known
<1>1. /\ gone \subseteq Blocks
      /\ \A r \in Pools \ {p} : dropped \cap Held(h, r) = {} /\ Held(g, r) = Held(h, r)
      /\ \A r \in Pools : Held(h, r) \subseteq Blocks
  <2>1. \A r \in Pools : Held(h, r) \subseteq Blocks
    BY PoolFacts DEF Known
  <2> QED BY <2>1 DEF HeapOK, Others, Held
<1>2. /\ g.capacity \in [Blocks -> Nat]
      /\ \A x \in Blocks \ gone : g.capacity[x] = h.capacity[x]
      /\ \A x \in gone : g.capacity[x] = 0
  BY <1>0, <1>1
<1>3. HeapShape(g)
  <2>1. 0 % Alignment = 0
    BY DeviceAssumption
  <2>2. \A x \in Blocks : g.capacity[x] % Alignment = 0
    BY <1>0, <1>2, <2>1 DEF HeapShape
  <2> QED BY <1>0, <1>2, <2>2 DEF HeapShape, Others, Shaped
<1>4. Allocated(g) = Allocated(h) \ gone /\ Allocated(h) \in SUBSET Blocks
  BY <1>1, <1>2 DEF Allocated
<1>5. SumOver(g.capacity, Allocated(g)) <= DeviceBytes
  <2>1. Allocated(g) \in SUBSET Allocated(h) /\ Allocated(g) \in SUBSET Blocks
    BY <1>4
  <2>2. \A x \in Allocated(g) : h.capacity[x] = g.capacity[x]
    BY <1>2, <1>4
  <2>3. SumOver(h.capacity, Allocated(g)) = SumOver(g.capacity, Allocated(g))
    <3>1. h.capacity \in [Blocks -> Nat] /\ g.capacity \in [Blocks -> Nat]
      BY <1>0, <1>2
    <3> QED BY <2>1, <2>2, <3>1, SumsOfBlocks, SMTT(30)
  <2>4. IsFiniteSet(Allocated(h)) /\ \A x \in Allocated(h) : h.capacity[x] \in Nat
    BY <1>0, <1>4, BlocksFinite
  <2>5. SumOver(h.capacity, Allocated(g)) <= SumOver(h.capacity, Allocated(h))
    BY <2>1, <2>4, SumMonotonic
  <2>6. /\ SumOver(h.capacity, Allocated(g)) \in Nat /\ SumOver(h.capacity, Allocated(h)) \in Nat
        /\ SumOver(h.capacity, Allocated(h)) <= DeviceBytes /\ DeviceBytes \in Nat
    BY <1>0, <1>4, <2>1, SumsOfBlocks, DeviceAssumption DEF HeapOK
  <2> QED BY <2>3, <2>5, <2>6
<1>6. \A r \in Pools \ {p} : /\ g.pool[r] = h.pool[r]
                             /\ \A x \in Held(h, r) : g.capacity[x] = h.capacity[x]
                             /\ Held(g, p) \cap Held(h, r) = {}
  <2> SUFFICES ASSUME NEW r \in Pools \ {p}
               PROVE  /\ g.pool[r] = h.pool[r]
                      /\ \A x \in Held(h, r) : g.capacity[x] = h.capacity[x]
                      /\ Held(g, p) \cap Held(h, r) = {}
    OBVIOUS
  <2>1. Held(h, r) \subseteq Blocks \ gone /\ Held(h, p) \cap Held(h, r) = {}
    BY <1>1 DEF HeapOK
  <2> QED BY <1>2, <2>1 DEF Others
<1>7. \A x \in Blocks : Placed(g, x)
  <2> SUFFICES ASSUME NEW x \in Blocks PROVE Placed(g, x)
    OBVIOUS
  <2>1. CASE x \in dropped
    <3>1. \A r \in Pools : x \notin Held(g, r)
      BY <1>1, <2>1
    <3>2. g.capacity[x] # 0 => x \in g.refused
      BY <1>2, <2>1 DEF Others
    <3> QED BY <3>1, <3>2 DEF Placed
  <2>2. CASE x \notin dropped
    <3>1. g.capacity[x] = h.capacity[x] /\ g.refused = h.refused
      BY <1>2, <2>2 DEF Others
    <3>2. \A r \in Pools : x \in Held(g, r) <=> x \in Held(h, r)
      BY <1>1, <2>2
    <3> QED BY <3>1, <3>2 DEF HeapOK, Placed
  <2> QED BY <2>1, <2>2
<1> QED BY <1>3, <1>5, <1>6, <1>7, OnePool

\* A block in use that its pool hands to CudaBackend::free.
LEMMA FreeOK ==
  ASSUME NEW h, HeapOK(h), NEW p \in Pools, NEW b \in h.pool[p].active,
         NEW g, Others(g, h, p),
         g.capacity = IF b \in h.refused THEN h.capacity ELSE [h.capacity EXCEPT ![b] = 0],
         PoolIs(g, p, h.pool[p].free, h.pool[p].active \ {b}, h.pool[p].accepting,
                h.pool[p].allocatedBytes - h.capacity[b],
                h.pool[p].activeBytes - h.capacity[b], h.pool[p].freeBytes)
  PROVE  HeapOK(g) /\ Active(g) = Active(h) \ {b}
<1>0. HeapShape(h) /\ Known(h, p) /\ h.capacity \in [Blocks -> Nat]
  BY PoolFacts DEF HeapOK, Known
<1>1. /\ b \in Blocks /\ h.capacity[b] \in Nat /\ b \notin ToSet(h.pool[p].free)
      /\ h.pool[p].active \in SUBSET Blocks /\ ToSet(h.pool[p].free) \in SUBSET Blocks
      /\ b \in Held(h, p)
  BY <1>0 DEF Known, Held
<1>2. /\ g.capacity \in [Blocks -> Nat]
      /\ \A x \in Blocks \ {b} : g.capacity[x] = h.capacity[x]
      /\ g.capacity = [x \in Blocks |-> IF x \in {b} \ h.refused THEN 0 ELSE h.capacity[x]]
  BY <1>0, <1>1
<1>3. /\ SumOver(h.capacity, h.pool[p].active)
           = h.capacity[b] + SumOver(h.capacity, h.pool[p].active \ {b})
      /\ SumOver(h.capacity, h.pool[p].active \ {b}) \in Nat
      /\ SumOver(g.capacity, h.pool[p].active \ {b})
           = SumOver(h.capacity, h.pool[p].active \ {b})
      /\ SumOver(g.capacity, ToSet(h.pool[p].free)) = SumOver(h.capacity, ToSet(h.pool[p].free))
  <2>1. /\ h.pool[p].active \ {b} \in SUBSET Blocks
        /\ \A x \in h.pool[p].active \ {b} : h.capacity[x] = g.capacity[x]
        /\ \A x \in ToSet(h.pool[p].free) : h.capacity[x] = g.capacity[x]
    BY <1>1, <1>2
  <2>2. SumOver(h.capacity, h.pool[p].active \ {b}) \in Nat
    BY <1>0, <2>1, SumsOfBlocks
  <2>3. SumOver(h.capacity, h.pool[p].active)
           = h.capacity[b] + SumOver(h.capacity, h.pool[p].active \ {b})
    BY <1>0, <1>1, SumsOfBlocks
  <2>4. SumOver(h.capacity, h.pool[p].active \ {b}) = SumOver(g.capacity, h.pool[p].active \ {b})
    BY <1>0, <1>2, <2>1, SumsOfBlocks
  <2>5. SumOver(h.capacity, ToSet(h.pool[p].free)) = SumOver(g.capacity, ToSet(h.pool[p].free))
    BY <1>0, <1>1, <1>2, <2>1, SumsOfBlocks
  <2> QED BY <2>2, <2>3, <2>4, <2>5
<1>4. PoolOK(g, p)
  <2>2. /\ IsRecord(g.pool[p], PoolFields) /\ g.pool[p].accepting = h.pool[p].accepting
        /\ g.pool[p].free = h.pool[p].free /\ g.pool[p].active = h.pool[p].active \ {b}
        /\ g.pool[p].activeBytes = h.pool[p].activeBytes - h.capacity[b]
        /\ g.pool[p].freeBytes = h.pool[p].freeBytes
        /\ g.pool[p].allocatedBytes = h.pool[p].allocatedBytes - h.capacity[b]
    BY <1>0 DEF Others, Shaped, PoolIs, Known
  <2>3. /\ h.pool[p].activeBytes = SumOver(h.capacity, h.pool[p].active)
        /\ h.pool[p].freeBytes = SumOver(h.capacity, ToSet(h.pool[p].free))
        /\ h.pool[p].freeBytes \in Nat /\ h.pool[p].freeBytes <= MaximumCachedBytes
        /\ h.pool[p].allocatedBytes = h.pool[p].activeBytes + h.pool[p].freeBytes
        /\ h.pool[p].active \cap ToSet(h.pool[p].free) = {}
        /\ h.pool[p].free \in Seq(Blocks) /\ IsInjective(h.pool[p].free)
        /\ h.pool[p].accepting \in BOOLEAN
    BY <1>0 DEF Known
  <2>4. /\ h.pool[p].activeBytes - h.capacity[b] = SumOver(h.capacity, h.pool[p].active \ {b})
        /\ (h.pool[p].activeBytes + h.pool[p].freeBytes) - h.capacity[b]
             = (h.pool[p].activeBytes - h.capacity[b]) + h.pool[p].freeBytes
    <3> DEFINE a == h.pool[p].activeBytes
               f == h.pool[p].freeBytes
               c == h.capacity[b]
               r == SumOver(h.capacity, h.pool[p].active \ {b})
    <3>1. a = c + r /\ f \in Nat /\ c \in Nat /\ r \in Nat
      BY <1>1, <1>3, <2>3
    <3> HIDE DEF a, f, c, r
    <3>2. a - c = r /\ (a + f) - c = (a - c) + f
      BY <3>1
    <3> QED BY <3>2 DEF a, f, c, r
  <2>5. /\ g.pool[p].active \subseteq Blocks
        /\ g.pool[p].active \cap ToSet(g.pool[p].free) = {}
    BY <1>1, <2>2, <2>3
  <2>6. /\ g.pool[p].activeBytes = SumOver(g.capacity, g.pool[p].active)
        /\ g.pool[p].freeBytes = SumOver(g.capacity, ToSet(g.pool[p].free))
        /\ g.pool[p].allocatedBytes = g.pool[p].activeBytes + g.pool[p].freeBytes
    BY <1>3, <2>2, <2>3, <2>4
  <2>7. ~g.pool[p].accepting => g.pool[p].free = <<>>
    BY <2>2 DEF HeapOK, PoolOK
  <2> QED BY <2>2, <2>3, <2>5, <2>6, <2>7 DEF PoolOK
<1>5. Held(g, p) = Held(h, p) \ {b} /\ {b} \subseteq Held(h, p)
  BY <1>1 DEF Held, PoolIs
<1>6. HeapOK(g)
  BY <1>2, <1>4, <1>5, GoneOK
<1>8. \A r \in Pools \ {p} : b \notin h.pool[r].active
  BY <1>1 DEF HeapOK, Held
<1>9. Active(g) = Active(h) \ {b}
  BY <1>8 DEF Active, Pools, PoolIs, Others
<1> QED BY <1>6, <1>9

-----------------------------------------------------------------------------
(* The operations of the pools. *)

\* A heap has the fields of its records.
LEMMA HeapShaped == ASSUME NEW h, HeapOK(h), NEW p \in Pools PROVE Shaped(h, p)
  BY DEF HeapOK, HeapShape, PoolOK, Shaped

\* An allocation from p leaves the other pool alone; the block was cached in p, or
\* is memory no queued work touches.
Allocates(g, h, p, b) ==
  /\ \A q \in Pools \ {p} : g.pool[q] = h.pool[q]
  /\ Held(g, p) = Held(h, p) \cup {b}
  /\ b \in Held(h, p) \/ (h.capacity[b] = 0 /\ ~Touched(b))

\* allocateDeviceBuffer hands out a block nobody has, or leaves the heap alone.
LEMMA AcquireOK ==
  ASSUME NEW h, HeapOK(h), NEW p \in Pools, NEW request \in Nat \ {0},
         NEW a, a = Acquire(h, p, request)
  PROVE  /\ HeapOK(a.heap)
         /\ a.block = NoBlock => a.heap = h
         /\ a.block # NoBlock =>
              /\ a.block \in Blocks \ Active(h) /\ Active(a.heap) = Active(h) \cup {a.block}
              /\ Allocates(a.heap, h, p, a.block)
<1> DEFINE size == AlignedSize(request)
           reuse == Reusable(h, p, size)
           fresh == {b \in Blocks : h.capacity[b] = 0 /\ ~Touched(b)}
           i == CHOOSE n \in reuse : TRUE
           b == h.pool[p].free[i]
           taken == [h EXCEPT !.pool[p].free = RemoveAt(@, i),
                              !.pool[p].freeBytes = @ - h.capacity[b]]
           made == [CudaMalloc(h, Min(fresh), size) EXCEPT !.pool[p].allocatedBytes = @ + size]
<1>0. Shaped(h, p) /\ Known(h, p) /\ h.pool[p].accepting \in BOOLEAN
  BY HeapShaped, PoolFacts DEF Known
<1>1. CASE ~h.pool[p].accepting
  <2>1. a = [heap |-> h, block |-> NoBlock]
    BY <1>1 DEF Acquire
  <2> QED BY <2>1
<1>2. CASE h.pool[p].accepting /\ reuse # {}
  <2>1. a = [heap |-> Activate(taken, p, b), block |-> b]
    BY <1>2 DEF Acquire
  <2>2. i \in 1 .. Len(h.pool[p].free)
    <3>1. i \in reuse
      BY <1>2
    <3>2. reuse \subseteq DOMAIN h.pool[p].free
      BY DEF Reusable
    <3> HIDE DEF reuse
    <3> QED BY <1>0, <3>1, <3>2 DEF Known
  <2> HIDE DEF i
  <2>3. /\ Others(taken, h, p) /\ taken.capacity = h.capacity
        /\ PoolIs(taken, p, RemoveAt(h.pool[p].free, i), h.pool[p].active, h.pool[p].accepting,
                  h.pool[p].allocatedBytes, h.pool[p].activeBytes,
                  h.pool[p].freeBytes - h.capacity[b])
    <3> HIDE DEF b
    <3>1. Others(taken, h, p) /\ taken.capacity = h.capacity
      BY <1>0 DEF Shaped, Others, IsRecord, PoolFields, HeapFields
    <3>2. PoolIs(taken, p, RemoveAt(h.pool[p].free, i), h.pool[p].active, h.pool[p].accepting,
                 h.pool[p].allocatedBytes, h.pool[p].activeBytes,
                 h.pool[p].freeBytes - h.capacity[b])
      BY <1>0 DEF Shaped, PoolIs, IsRecord, PoolFields, HeapFields
    <3> QED BY <3>1, <3>2
  <2> DEFINE g == Activate(taken, p, b)
  <2> HIDE DEF taken
  <2>4. /\ Others(g, taken, p) /\ g.capacity = taken.capacity
        /\ PoolIs(g, p, taken.pool[p].free, taken.pool[p].active \cup {b},
                  taken.pool[p].accepting, taken.pool[p].allocatedBytes,
                  taken.pool[p].activeBytes + taken.capacity[b], taken.pool[p].freeBytes)
    <3>1. Shaped(taken, p)
      BY <2>3 DEF Others
    <3> HIDE DEF b
    <3> QED BY <3>1, ActivateIs
  <2> HIDE DEF g
  <2>5. /\ Others(g, h, p) /\ g.capacity = h.capacity
        /\ PoolIs(g, p, RemoveAt(h.pool[p].free, i), h.pool[p].active \cup {b},
                  h.pool[p].accepting, h.pool[p].allocatedBytes,
                  h.pool[p].activeBytes + h.capacity[b], h.pool[p].freeBytes - h.capacity[b])
    <3> HIDE DEF b
    <3> QED BY <2>3, <2>4 DEF Others, PoolIs
  <2>6. HeapOK(g) /\ b \in Blocks \ Active(h) /\ Active(g) = Active(h) \cup {b}
    <3>1. b = h.pool[p].free[i]
      OBVIOUS
    <3> HIDE DEF b
    <3> QED BY <2>2, <2>5, <3>1, ReuseOK DEF PoolIs
  <2>7. a.heap = g /\ a.block = b
    BY <2>1 DEF g
  <2>8. b # NoBlock
    BY <2>6, BlocksFinite
  <2>9. Allocates(g, h, p, b)
    <3>1. b = h.pool[p].free[i]
      OBVIOUS
    <3> HIDE DEF b
    <3>2. ToSet(RemoveAt(h.pool[p].free, i)) = ToSet(h.pool[p].free) \ {b}
      BY <1>0, <2>2, <3>1, RemoveAtSet DEF Known
    <3>3. b \in ToSet(h.pool[p].free)
      BY <1>0, <2>2, <3>1 DEF Known, ToSet
    <3>4. Held(g, p) = Held(h, p) \cup {b}
      BY <2>5, <3>2, <3>3 DEF PoolIs, Held
    <3> QED BY <2>5, <3>3, <3>4 DEF Allocates, Others, Held
  <2> HIDE DEF b
  <2> QED BY <2>6, <2>7, <2>8, <2>9
<1>3. CASE /\ h.pool[p].accepting /\ reuse = {}
           /\ fresh = {} \/ BytesOf(h, Allocated(h)) + size > DeviceBytes
  <2>1. a = [heap |-> h, block |-> NoBlock]
    BY <1>3 DEF Acquire
  <2> QED BY <2>1
<1>4. CASE /\ h.pool[p].accepting /\ reuse = {}
           /\ ~(fresh = {} \/ BytesOf(h, Allocated(h)) + size > DeviceBytes)
  <2> DEFINE x == Min(fresh)
             g == Activate(made, p, x)
  <2>1. a = [heap |-> g, block |-> x]
    BY <1>4 DEF Acquire
  <2>2. x \in fresh
    <3>1. \E n \in fresh : \A m \in fresh : n <= m
      <4>1. fresh \subseteq Nat
        BY BlocksFinite DEF Blocks
      <4> DEFINE F == fresh
      <4> HIDE DEF fresh
      <4> QED BY <1>4, <4>1, LeastNat
    <3> HIDE DEF fresh
    <3> QED BY <3>1 DEF Min
  <2>3. x \in Blocks /\ h.capacity[x] = 0 /\ ~Touched(x)
    BY <2>2
  <2> HIDE DEF x
  <2>4. size \in Nat \ {0} /\ size % Alignment = 0
    BY AlignedPositive
  <2> HIDE DEF size
  <2>5. /\ Others(made, h, p) /\ made.capacity = [h.capacity EXCEPT ![x] = size]
        /\ PoolIs(made, p, h.pool[p].free, h.pool[p].active, h.pool[p].accepting,
                  h.pool[p].allocatedBytes + size, h.pool[p].activeBytes, h.pool[p].freeBytes)
    <3>1. Others(made, h, p) /\ made.capacity = [h.capacity EXCEPT ![x] = size]
      BY <1>0 DEF Shaped, Others, IsRecord, PoolFields, HeapFields, CudaMalloc, x
    <3>2. PoolIs(made, p, h.pool[p].free, h.pool[p].active, h.pool[p].accepting,
                 h.pool[p].allocatedBytes + size, h.pool[p].activeBytes, h.pool[p].freeBytes)
      BY <1>0 DEF Shaped, PoolIs, IsRecord, PoolFields, HeapFields, CudaMalloc, x
    <3> QED BY <3>1, <3>2
  <2> HIDE DEF made
  <2>6. /\ Others(g, made, p) /\ g.capacity = made.capacity
        /\ PoolIs(g, p, made.pool[p].free, made.pool[p].active \cup {x},
                  made.pool[p].accepting, made.pool[p].allocatedBytes,
                  made.pool[p].activeBytes + made.capacity[x], made.pool[p].freeBytes)
    <3>1. Shaped(made, p)
      BY <2>5 DEF Others
    <3> QED BY <3>1, ActivateIs
  <2> HIDE DEF g
  <2>7. made.capacity[x] = size
    BY <1>0, <2>3, <2>5 DEF Known
  <2>8. /\ Others(g, h, p) /\ g.capacity = [h.capacity EXCEPT ![x] = size]
        /\ PoolIs(g, p, h.pool[p].free, h.pool[p].active \cup {x}, h.pool[p].accepting,
                  h.pool[p].allocatedBytes + size, h.pool[p].activeBytes + size,
                  h.pool[p].freeBytes)
    BY <2>5, <2>6, <2>7 DEF Others, PoolIs
  <2>9. SumOver(h.capacity, Allocated(h)) + size <= DeviceBytes
    <3>1. SumOver(h.capacity, Allocated(h)) \in Nat
      BY <1>0, SumsOfBlocks DEF Known, Allocated
    <3>2. ~(SumOver(h.capacity, Allocated(h)) + size > DeviceBytes)
      BY <1>4, BytesAreSums
    <3> QED BY <2>4, <3>1, <3>2, DeviceAssumption
  <2>10. HeapOK(g) /\ x \in Blocks \ Active(h) /\ Active(g) = Active(h) \cup {x}
    <3>1. h.pool[p].accepting
      BY <1>4
    <3>2. Fits(h, size)
      BY <2>4, <2>9 DEF Fits
    <3>3. Adds(g, h, p, x, size)
      BY <2>8 DEF Adds
    <3> QED BY <2>3, <3>1, <3>2, <3>3, FreshOK
  <2>11. x # NoBlock
    BY <2>3, BlocksFinite
  <2>12. Allocates(g, h, p, x)
    <3>1. Held(g, p) = Held(h, p) \cup {x}
      BY <2>8 DEF PoolIs, Held
    <3> QED BY <2>3, <2>8, <3>1 DEF Allocates, Others
  <2> QED BY <2>1, <2>10, <2>11, <2>12
<1> HIDE DEF reuse, fresh, size
<1> QED BY <1>0, <1>1, <1>2, <1>3, <1>4

\* Blocks go out of use, and no pool has a block it did not have.
LetsGo(g, h, blocks) ==
  \A q \in Pools :
    g.pool[q].active = h.pool[q].active \ blocks /\ Held(g, q) \subseteq Held(h, q)

\* release takes the block out of use, into the cache or to the driver.
LEMMA ReleaseOK ==
  ASSUME NEW h, HeapOK(h), NEW b \in Active(h), NEW g, g = Release(h, b)
  PROVE  HeapOK(g) /\ Active(g) = Active(h) \ {b} /\ LetsGo(g, h, {b})
<1> DEFINE p == CHOOSE p \in Pools : b \in h.pool[p].active
           capacity == h.capacity[b]
           inactive == [h EXCEPT !.pool[p].active = @ \ {b}, !.pool[p].activeBytes = @ - capacity]
           cached == [inactive EXCEPT !.pool[p].free = Append(@, b),
                                      !.pool[p].freeBytes = @ + capacity]
           less == [inactive EXCEPT !.pool[p].allocatedBytes = @ - capacity]
<1>1. p \in Pools /\ b \in h.pool[p].active
  <2>1. \E r \in Pools : b \in h.pool[r].active
    BY DEF Active, Pools
  <2> QED BY <2>1
<1>2. g = IF Caches(h.pool[p], capacity) THEN cached ELSE CudaFree(less, b)
  BY DEF Release
<1> HIDE DEF p, capacity
<1>3. Shaped(h, p) /\ Known(h, p)
  BY <1>1, HeapShaped, PoolFacts
<1>4. /\ Others(inactive, h, p) /\ inactive.capacity = h.capacity
      /\ PoolIs(inactive, p, h.pool[p].free, h.pool[p].active \ {b}, h.pool[p].accepting,
                h.pool[p].allocatedBytes, h.pool[p].activeBytes - capacity, h.pool[p].freeBytes)
  <2>1. Others(inactive, h, p) /\ inactive.capacity = h.capacity
    BY <1>1, <1>3 DEF Shaped, Others, IsRecord, PoolFields, HeapFields
  <2>2. PoolIs(inactive, p, h.pool[p].free, h.pool[p].active \ {b}, h.pool[p].accepting,
               h.pool[p].allocatedBytes, h.pool[p].activeBytes - capacity, h.pool[p].freeBytes)
    BY <1>1, <1>3 DEF Shaped, PoolIs, IsRecord, PoolFields, HeapFields
  <2> QED BY <2>1, <2>2
<1>5. Shaped(inactive, p)
  BY <1>4 DEF Others
<1> HIDE DEF inactive
<1>8. ASSUME Others(g, h, p), g.pool[p].active = h.pool[p].active \ {b},
             ToSet(g.pool[p].free) \subseteq ToSet(h.pool[p].free) \cup {b}
      PROVE  LetsGo(g, h, {b})
  <2>1. \A q \in Pools \ {p} : g.pool[q] = h.pool[q] /\ b \notin h.pool[q].active
    <3>1. \A q \in Pools \ {p} : Held(h, q) \cap Held(h, p) = {}
      BY <1>1 DEF HeapOK
    <3> QED BY <1>1, <1>8, <3>1 DEF Others, Held
  <2> QED BY <1>1, <1>8, <2>1 DEF LetsGo, Held
<1>6. CASE Caches(h.pool[p], capacity)
  <2>1. Others(cached, inactive, p) /\ cached.capacity = inactive.capacity
    BY <1>1, <1>5 DEF Shaped, Others, IsRecord, PoolFields, HeapFields
  <2>2. PoolIs(cached, p, Append(inactive.pool[p].free, b), inactive.pool[p].active,
               inactive.pool[p].accepting, inactive.pool[p].allocatedBytes,
               inactive.pool[p].activeBytes, inactive.pool[p].freeBytes + capacity)
    BY <1>1, <1>5 DEF Shaped, PoolIs, IsRecord, PoolFields, HeapFields
  <2>3. g = cached
    BY <1>2, <1>6
  <2> HIDE DEF cached
  <2>4. /\ Others(cached, h, p) /\ cached.capacity = h.capacity
        /\ PoolIs(cached, p, Append(h.pool[p].free, b), h.pool[p].active \ {b},
                  h.pool[p].accepting, h.pool[p].allocatedBytes,
                  h.pool[p].activeBytes - capacity, h.pool[p].freeBytes + capacity)
    BY <1>4, <2>1, <2>2 DEF Others, PoolIs
  <2>5. HeapOK(cached) /\ Active(cached) = Active(h) \ {b}
    BY <1>1, <1>6, <2>4, CacheOK DEF capacity
  <2>6. ToSet(Append(h.pool[p].free, b)) = ToSet(h.pool[p].free) \cup {b}
    <3>1. b \in Blocks /\ b \notin ToSet(h.pool[p].free)
      BY <1>1, <1>3 DEF Known
    <3> QED BY <1>3, <3>1, AppendSet DEF Known
  <2>7. LetsGo(g, h, {b})
    BY <1>8, <2>3, <2>4, <2>6 DEF PoolIs
  <2> QED BY <2>3, <2>5, <2>7
<1>7. CASE ~Caches(h.pool[p], capacity)
  <2>1. Others(less, inactive, p) /\ less.capacity = inactive.capacity
    BY <1>1, <1>5 DEF Shaped, Others, IsRecord, PoolFields, HeapFields
  <2>2. PoolIs(less, p, inactive.pool[p].free, inactive.pool[p].active,
               inactive.pool[p].accepting, inactive.pool[p].allocatedBytes - capacity,
               inactive.pool[p].activeBytes, inactive.pool[p].freeBytes)
    BY <1>1, <1>5 DEF Shaped, PoolIs, IsRecord, PoolFields, HeapFields
  <2>3. g = CudaFree(less, b)
    BY <1>2, <1>7
  <2> HIDE DEF less
  <2>4. /\ Others(less, h, p) /\ less.capacity = h.capacity
        /\ PoolIs(less, p, h.pool[p].free, h.pool[p].active \ {b}, h.pool[p].accepting,
                  h.pool[p].allocatedBytes - capacity, h.pool[p].activeBytes - capacity,
                  h.pool[p].freeBytes)
    BY <1>4, <2>1, <2>2 DEF Others, PoolIs
  <2>5. /\ g.pool = less.pool /\ g.refused = h.refused
        /\ g.capacity = IF b \in h.refused THEN h.capacity ELSE [h.capacity EXCEPT ![b] = 0]
        /\ IsRecord(g, HeapFields)
    BY <2>3, <2>4 DEF CudaFree, Others, Shaped, IsRecord, HeapFields
  <2>6. /\ Others(g, h, p)
        /\ PoolIs(g, p, h.pool[p].free, h.pool[p].active \ {b}, h.pool[p].accepting,
                  h.pool[p].allocatedBytes - capacity, h.pool[p].activeBytes - capacity,
                  h.pool[p].freeBytes)
    BY <2>4, <2>5 DEF Others, Shaped, PoolIs
  <2>7. LetsGo(g, h, {b})
    BY <1>8, <2>6 DEF PoolIs
  <2> QED BY <1>1, <2>5, <2>6, <2>7, FreeOK, SMTT(60) DEF capacity
<1> QED BY <1>6, <1>7

\* The function of ReleaseAll, up to block m.
Releases(f, h, blocks, m) ==
  f = [n \in 0 .. m |-> IF n = 0 THEN h
                        ELSE IF n \in blocks THEN Release(f[n - 1], n) ELSE f[n - 1]]

\* It exists, by induction on m.
LEMMA ReleasesExist == ASSUME NEW h, NEW blocks PROVE \A m \in Nat : \E f : Releases(f, h, blocks, m)
<1> DEFINE P == {m \in Nat : \E f : Releases(f, h, blocks, m)}
           Value(f, n) == IF n = 0 THEN h
                          ELSE IF n \in blocks THEN Release(f[n - 1], n) ELSE f[n - 1]
<1>1. 0 \in P
  <2> DEFINE f == [n \in 0 .. 0 |-> h]
  <2>1. f = [n \in 0 .. 0 |-> Value(f, n)]
    OBVIOUS
  <2> QED BY <2>1 DEF Releases
<1>2. ASSUME NEW m \in Nat, m \in P PROVE m + 1 \in P
  <2>1. PICK f : f = [n \in 0 .. m |-> Value(f, n)]
    BY <1>2 DEF Releases
  <2> DEFINE g == [n \in 0 .. m + 1 |-> Value(f, n)]
  <2>2. \A n \in 0 .. m : g[n] = f[n]
    <3> SUFFICES ASSUME NEW n \in 0 .. m PROVE g[n] = f[n]
      OBVIOUS
    <3>1. f[n] = Value(f, n)
      <4> HIDE DEF Value
      <4> QED BY <2>1
    <3>2. g[n] = Value(f, n)
      <4> HIDE DEF Value
      <4> QED OBVIOUS
    <3> QED BY <3>1, <3>2
  <2>3. \A n \in 0 .. m + 1 : Value(f, n) = Value(g, n)
    <3> SUFFICES ASSUME NEW n \in 0 .. m + 1, n # 0 PROVE Value(f, n) = Value(g, n)
      OBVIOUS
    <3>1. n - 1 \in 0 .. m
      OBVIOUS
    <3>2. g[n - 1] = f[n - 1]
      BY <2>2, <3>1
    <3> HIDE DEF g
    <3> QED BY <3>2
  <2>4. g = [n \in 0 .. m + 1 |-> Value(g, n)]
    <3> HIDE DEF Value
    <3> QED BY <2>3
  <2>5. Releases(g, h, blocks, m + 1)
    <3> HIDE DEF g
    <3> QED BY <2>4 DEF Releases
  <2> QED BY <2>5
<1>3. \A m \in Nat : m \in P
  <2> HIDE DEF P
  <2> QED BY <1>1, <1>2, NatSetInduction
<1> QED BY <1>3

\* ReleaseAll takes the blocks out of use, one after the other.
LEMMA ReleaseAllOK ==
  ASSUME NEW h, HeapOK(h), NEW blocks \in SUBSET Active(h)
  PROVE  /\ HeapOK(ReleaseAll(h, blocks))
         /\ Active(ReleaseAll(h, blocks)) = Active(h) \ blocks
         /\ LetsGo(ReleaseAll(h, blocks), h, blocks)
<1> DEFINE m == Cardinality(Blocks)
           f == CHOOSE x : Releases(x, h, blocks, m)
<1>0. m \in Nat /\ Blocks = 1 .. m
  BY BlocksFinite DEF Blocks
<1>1. ReleaseAll(h, blocks) = IF blocks = {} THEN h ELSE f[m]
  BY DEF ReleaseAll, Releases
<1>2. Releases(f, h, blocks, m)
  BY <1>0, ReleasesExist
<1> HIDE DEF f, m
<1>3. /\ f[0] = h
      /\ \A n \in 1 .. m : f[n] = IF n \in blocks THEN Release(f[n - 1], n) ELSE f[n - 1]
  BY <1>0, <1>2 DEF Releases
<1> DEFINE Upto(n) == {b \in blocks : b <= n}
           Done(n) == Active(h) \ Upto(n)
           P == {n \in Nat : n <= m => /\ HeapOK(f[n]) /\ Active(f[n]) = Done(n)
                                      /\ LetsGo(f[n], h, Upto(n))}
<1>4. Active(h) \subseteq 1 .. m
  BY <1>0, PoolFacts DEF Active, Known, Pools
<1>5. 0 \in P
  <2>1. Done(0) = Active(h) /\ Upto(0) = {}
    BY <1>4
  <2>2. LetsGo(h, h, {})
    BY DEF LetsGo
  <2> QED BY <1>3, <2>1, <2>2
<1>6. ASSUME NEW n \in Nat, n \in P PROVE n + 1 \in P
  <2> SUFFICES ASSUME n + 1 <= m
               PROVE  /\ HeapOK(f[n + 1]) /\ Active(f[n + 1]) = Done(n + 1)
                      /\ LetsGo(f[n + 1], h, Upto(n + 1))
    OBVIOUS
  <2>1. HeapOK(f[n]) /\ Active(f[n]) = Done(n) /\ LetsGo(f[n], h, Upto(n))
    BY <1>0, <1>6
  <2>2. f[n + 1] = IF n + 1 \in blocks THEN Release(f[n], n + 1) ELSE f[n]
    <3>1. n + 1 \in 1 .. m /\ (n + 1) - 1 = n
      BY <1>0
    <3> QED BY <1>3, <3>1
  <2>3. CASE n + 1 \in blocks
    <3>1. /\ n + 1 \in Done(n) /\ Done(n + 1) = Done(n) \ {n + 1}
          /\ Upto(n + 1) = Upto(n) \cup {n + 1}
      BY <1>4, <2>3
    <3> HIDE DEF Done, Upto
    <3>2. /\ HeapOK(f[n + 1]) /\ Active(f[n + 1]) = Done(n + 1)
          /\ LetsGo(f[n + 1], f[n], {n + 1})
      BY <2>1, <2>2, <2>3, <3>1, ReleaseOK
    <3>3. LetsGo(f[n + 1], h, Upto(n + 1))
      BY <2>1, <3>1, <3>2 DEF LetsGo
    <3> QED BY <3>2, <3>3
  <2>4. CASE n + 1 \notin blocks
    <3>1. Done(n + 1) = Done(n) /\ Upto(n + 1) = Upto(n)
      BY <1>4, <2>4
    <3> QED BY <2>1, <2>2, <2>4, <3>1
  <2> QED BY <2>3, <2>4
<1>7. \A n \in Nat : n \in P
  <2> HIDE DEF P
  <2> QED BY <1>5, <1>6, NatSetInduction
<1>8. HeapOK(f[m]) /\ Active(f[m]) = Done(m) /\ LetsGo(f[m], h, Upto(m))
  BY <1>0, <1>7
<1>9. Done(m) = Active(h) \ blocks /\ Upto(m) = blocks
  BY <1>0, <1>4
<1>10. LetsGo(h, h, {})
  BY DEF LetsGo
<1> QED BY <1>1, <1>8, <1>9, <1>10

\* What is not referenced goes, the rest stays.
LEMMA ReclaimedOK ==
  ASSUME NEW h, HeapOK(h), NEW referenced
  PROVE  /\ HeapOK(Reclaimed(h, referenced))
         /\ Active(Reclaimed(h, referenced)) = Active(h) \cap referenced
         /\ LetsGo(Reclaimed(h, referenced), h, Active(h) \ referenced)
<1>1. Active(h) \ referenced \in SUBSET Active(h)
  OBVIOUS
<1>2. Active(h) \ (Active(h) \ referenced) = Active(h) \cap referenced
  OBVIOUS
<1> QED BY <1>1, <1>2, ReleaseAllOK DEF Reclaimed

\* shutdown frees the cached blocks and leaves those in use.
LEMMA ShutDownOK ==
  ASSUME NEW h, HeapOK(h), NEW p \in Pools, NEW g, g = ShutDown(h, p)
  PROVE  HeapOK(g) /\ Active(g) = Active(h) /\ LetsGo(g, h, {})
<1>0. Shaped(h, p) /\ Known(h, p) /\ h.capacity \in [Blocks -> Nat]
  BY HeapShaped, PoolFacts DEF Known
<1> DEFINE dropped == ToSet(h.pool[p].free)
           gone == dropped \ h.refused
           pools == [h.pool EXCEPT
                       ![p].accepting = FALSE, ![p].free = <<>>, ![p].freeBytes = 0,
                       ![p].allocatedBytes = @ - h.pool[p].freeBytes]
           q == g.pool[p]
<1>1. /\ g.capacity = [b \in Blocks |-> IF b \in gone THEN 0 ELSE h.capacity[b]]
      /\ g.pool = pools /\ g.refused = h.refused /\ IsRecord(g, HeapFields)
  <2>1. g = [capacity |-> [b \in Blocks |-> IF b \in gone THEN 0 ELSE h.capacity[b]],
             refused |-> h.refused, pool |-> pools]
    BY DEF ShutDown
  <2> HIDE DEF pools, gone
  <2> QED BY <2>1 DEF IsRecord, HeapFields
<1>2. /\ IsRecord(pools, Pools) /\ \A r \in Pools \ {p} : pools[r] = h.pool[r]
      /\ IsRecord(pools[p], PoolFields) /\ pools[p].accepting = FALSE /\ pools[p].free = <<>>
      /\ pools[p].allocatedBytes = h.pool[p].allocatedBytes - h.pool[p].freeBytes
      /\ pools[p].freeBytes = 0
      /\ pools[p].active = h.pool[p].active /\ pools[p].activeBytes = h.pool[p].activeBytes
  BY <1>0 DEF Shaped, IsRecord, PoolFields, HeapFields
<1> HIDE DEF pools
<1>3. /\ Others(g, h, p)
      /\ IsRecord(q, PoolFields) /\ q.accepting = FALSE /\ q.free = <<>>
      /\ q.allocatedBytes = h.pool[p].allocatedBytes - h.pool[p].freeBytes /\ q.freeBytes = 0
      /\ q.active = h.pool[p].active /\ q.activeBytes = h.pool[p].activeBytes
  BY <1>1, <1>2 DEF Others, Shaped
<1>4. /\ dropped \in SUBSET Blocks /\ h.pool[p].active \in SUBSET Blocks
      /\ h.pool[p].active \cap dropped = {} /\ ToSet(q.free) = {} /\ dropped \subseteq Held(h, p)
  <2>1. ToSet(q.free) = {}
    BY <1>3 DEF ToSet
  <2> HIDE DEF dropped
  <2> QED BY <1>0, <2>1 DEF Known, Held, dropped
<1>5. Held(g, p) = Held(h, p) \ dropped
  BY <1>3, <1>4 DEF Held
<1>6. PoolOK(g, p)
  <2>1. g.capacity \in [Blocks -> Nat] /\ \A x \in h.pool[p].active : h.capacity[x] = g.capacity[x]
    BY <1>0, <1>1, <1>4
  <2>2. SumOver(h.capacity, h.pool[p].active) = SumOver(g.capacity, h.pool[p].active)
    BY <1>0, <1>4, <2>1, SumsOfBlocks
  <2>3. SumOver(g.capacity, {}) = 0
    BY SumEmpty
  <2>4. /\ h.pool[p].activeBytes = SumOver(h.capacity, h.pool[p].active)
        /\ h.pool[p].activeBytes \in Nat /\ h.pool[p].freeBytes \in Nat
        /\ h.pool[p].allocatedBytes = h.pool[p].activeBytes + h.pool[p].freeBytes
    BY <1>0 DEF Known
  <2>5. q.allocatedBytes = q.activeBytes + q.freeBytes
    <3> DEFINE a == h.pool[p].activeBytes
               f == h.pool[p].freeBytes
    <3>1. a \in Nat /\ f \in Nat
      BY <2>4
    <3> HIDE DEF a, f
    <3>2. (a + f) - f = a + 0
      BY <3>1
    <3> QED BY <1>3, <2>4, <3>2 DEF a, f
  <2>6. IsInjective(q.free) /\ q.free \in Seq(Blocks) /\ 0 <= MaximumCachedBytes
    BY <1>3, DeviceAssumption DEF IsInjective
  <2> QED BY <1>3, <1>4, <2>2, <2>3, <2>4, <2>5, <2>6 DEF PoolOK
<1>7. HeapOK(g)
  BY <1>1, <1>3, <1>4, <1>5, <1>6, GoneOK
<1>8. Active(g) = Active(h)
  BY <1>3 DEF Active, Pools, Others
<1>9. LetsGo(g, h, {})
  BY <1>3, <1>5 DEF LetsGo, Held, Others
<1> QED BY <1>7, <1>8, <1>9

\* The function of Scratch, up to the m-th temporary.
Takes(f, h, m) ==
  f = [n \in 0 .. m |->
         IF n = 0 THEN [heap |-> h, blocks |-> {}]
         ELSE LET a == Acquire(f[n - 1].heap, "tensor", ScratchSize)
              IN  [heap |-> a.heap, blocks |-> f[n - 1].blocks \cup ({a.block} \ {NoBlock})]]

\* It exists, by induction on m.
LEMMA TakesExist == ASSUME NEW h PROVE \A m \in Nat : \E f : Takes(f, h, m)
<1> DEFINE P == {m \in Nat : \E f : Takes(f, h, m)}
           Taken(t) == LET a == Acquire(t.heap, "tensor", ScratchSize)
                       IN  [heap |-> a.heap, blocks |-> t.blocks \cup ({a.block} \ {NoBlock})]
           Value(f, n) == IF n = 0 THEN [heap |-> h, blocks |-> {}] ELSE Taken(f[n - 1])
<1>0. \A f, m : Takes(f, h, m) <=> f = [n \in 0 .. m |-> Value(f, n)]
  BY DEF Takes
<1> HIDE DEF Taken
<1>1. 0 \in P
  <2> DEFINE f == [n \in 0 .. 0 |-> [heap |-> h, blocks |-> {}]]
  <2>1. f = [n \in 0 .. 0 |-> Value(f, n)]
    OBVIOUS
  <2> QED BY <1>0, <2>1
<1>2. ASSUME NEW m \in Nat, m \in P PROVE m + 1 \in P
  <2>1. PICK f : f = [n \in 0 .. m |-> Value(f, n)]
    BY <1>0, <1>2
  <2> DEFINE g == [n \in 0 .. m + 1 |-> Value(f, n)]
  <2>2. \A n \in 0 .. m : g[n] = f[n]
    <3> SUFFICES ASSUME NEW n \in 0 .. m PROVE g[n] = f[n]
      OBVIOUS
    <3>1. f[n] = Value(f, n)
      <4> HIDE DEF Value
      <4> QED BY <2>1
    <3>2. g[n] = Value(f, n)
      <4> HIDE DEF Value
      <4> QED OBVIOUS
    <3> QED BY <3>1, <3>2
  <2>3. \A n \in 0 .. m + 1 : Value(f, n) = Value(g, n)
    <3> SUFFICES ASSUME NEW n \in 0 .. m + 1, n # 0 PROVE Value(f, n) = Value(g, n)
      OBVIOUS
    <3>1. n - 1 \in 0 .. m
      OBVIOUS
    <3>2. g[n - 1] = f[n - 1]
      BY <2>2, <3>1
    <3> HIDE DEF g
    <3> QED BY <3>2
  <2>4. g = [n \in 0 .. m + 1 |-> Value(g, n)]
    <3> HIDE DEF Value
    <3> QED BY <2>3
  <2>5. Takes(g, h, m + 1)
    <3> HIDE DEF g, Value
    <3> QED BY <1>0, <2>4
  <2> QED BY <2>5
<1>3. \A m \in Nat : m \in P
  <2> HIDE DEF P
  <2> QED BY <1>1, <1>2, NatSetInduction
<1> QED BY <1>3

\* The temporaries of an operation are blocks nobody else has.
LEMMA ScratchOK ==
  ASSUME NEW h, HeapOK(h), NEW op, op.scratch \in Nat, NEW s, s = Scratch(h, op)
  PROVE  /\ HeapOK(s.heap) /\ s.blocks \subseteq Blocks
         /\ Active(s.heap) = Active(h) \cup s.blocks /\ s.blocks \cap Active(h) = {}
         /\ s.heap.pool["transfer"] = h.pool["transfer"]
<1> DEFINE m == op.scratch
           f == CHOOSE x : Takes(x, h, m)
<1>1. s = f[m]
  BY DEF Scratch, Takes
<1>2. Takes(f, h, m)
  BY TakesExist
<1> HIDE DEF f
<1>3. f[0] = [heap |-> h, blocks |-> {}]
  BY <1>2 DEF Takes
<1>4. ASSUME NEW n \in 1 .. m, NEW a, a = Acquire(f[n - 1].heap, "tensor", ScratchSize)
      PROVE  f[n].heap = a.heap /\ f[n].blocks = f[n - 1].blocks \cup ({a.block} \ {NoBlock})
  <2> DEFINE Taken(t) == LET x == Acquire(t.heap, "tensor", ScratchSize)
                         IN  [heap |-> x.heap, blocks |-> t.blocks \cup ({x.block} \ {NoBlock})]
  <2>1. f = [k \in 0 .. m |-> IF k = 0 THEN [heap |-> h, blocks |-> {}] ELSE Taken(f[k - 1])]
    BY <1>2 DEF Takes
  <2>2. f[n] = Taken(f[n - 1])
    <3>1. n \in 0 .. m /\ n # 0
      OBVIOUS
    <3> HIDE DEF Taken, m
    <3> QED BY <2>1, <3>1
  <2>3. f[n] = [heap |-> a.heap, blocks |-> f[n - 1].blocks \cup ({a.block} \ {NoBlock})]
    BY <1>4, <2>2
  <2> QED BY <2>3
<1> DEFINE Good(n) == /\ HeapOK(f[n].heap) /\ f[n].blocks \subseteq Blocks
                      /\ Active(f[n].heap) = Active(h) \cup f[n].blocks
                      /\ f[n].blocks \cap Active(h) = {}
                      /\ f[n].heap.pool["transfer"] = h.pool["transfer"]
           P == {n \in Nat : n <= m => Good(n)}
<1>5. 0 \in P
  BY <1>3
<1>6. ASSUME NEW n \in Nat, n \in P PROVE n + 1 \in P
  <2> SUFFICES ASSUME n + 1 <= m PROVE Good(n + 1)
    OBVIOUS
  <2>1. Good(n)
    BY <1>6
  <2> DEFINE a == Acquire(f[n].heap, "tensor", ScratchSize)
  <2>2. /\ f[n + 1].heap = a.heap
        /\ f[n + 1].blocks = f[n].blocks \cup ({a.block} \ {NoBlock})
    <3>1. n + 1 \in 1 .. m /\ (n + 1) - 1 = n
      OBVIOUS
    <3> QED BY <1>4, <3>1
  <2>3. /\ HeapOK(a.heap)
        /\ a.block = NoBlock => a.heap = f[n].heap
        /\ a.block # NoBlock => /\ a.block \in Blocks \ Active(f[n].heap)
                                /\ Active(a.heap) = Active(f[n].heap) \cup {a.block}
                                /\ Allocates(a.heap, f[n].heap, "tensor", a.block)
    <3>1. ScratchSize \in Nat \ {0} /\ "tensor" \in Pools
      BY DeviceAssumption DEF Pools
    <3> QED BY <2>1, <3>1, AcquireOK
  <2> HIDE DEF a
  <2>4. a.heap.pool["transfer"] = f[n].heap.pool["transfer"]
    BY <2>3 DEF Allocates, Pools
  <2> QED BY <2>1, <2>2, <2>3, <2>4
<1>7. \A n \in Nat : n \in P
  <2> HIDE DEF P
  <2> QED BY <1>5, <1>6, NatSetInduction
<1>8. Good(m)
  BY <1>7
<1> QED BY <1>1, <1>8

-----------------------------------------------------------------------------
(* The records of the event queue. *)

\* The function of Kept, up to the m-th record.
Keeps(f, s, m) ==
  f = [n \in 0 .. m |->
         IF n = 0 THEN <<>>
         ELSE IF Unfinished(s[n]) THEN Append(f[n - 1], s[n]) ELSE f[n - 1]]

\* It exists, by induction on m.
LEMMA KeepsExist == ASSUME NEW s PROVE \A m \in Nat : \E f : Keeps(f, s, m)
<1> DEFINE P == {m \in Nat : \E f : Keeps(f, s, m)}
           Value(f, n) == IF n = 0 THEN <<>>
                          ELSE IF Unfinished(s[n]) THEN Append(f[n - 1], s[n]) ELSE f[n - 1]
<1>0. \A f, m : Keeps(f, s, m) <=> f = [n \in 0 .. m |-> Value(f, n)]
  BY DEF Keeps
<1>1. 0 \in P
  <2> DEFINE f == [n \in 0 .. 0 |-> <<>>]
  <2>1. f = [n \in 0 .. 0 |-> Value(f, n)]
    OBVIOUS
  <2> QED BY <1>0, <2>1
<1>2. ASSUME NEW m \in Nat, m \in P PROVE m + 1 \in P
  <2>1. PICK f : f = [n \in 0 .. m |-> Value(f, n)]
    BY <1>0, <1>2
  <2> DEFINE g == [n \in 0 .. m + 1 |-> Value(f, n)]
  <2>2. \A n \in 0 .. m : g[n] = f[n]
    <3> SUFFICES ASSUME NEW n \in 0 .. m PROVE g[n] = f[n]
      OBVIOUS
    <3>1. f[n] = Value(f, n)
      <4> HIDE DEF Value
      <4> QED BY <2>1
    <3>2. g[n] = Value(f, n)
      <4> HIDE DEF Value
      <4> QED OBVIOUS
    <3> QED BY <3>1, <3>2
  <2>3. \A n \in 0 .. m + 1 : Value(f, n) = Value(g, n)
    <3> SUFFICES ASSUME NEW n \in 0 .. m + 1, n # 0 PROVE Value(f, n) = Value(g, n)
      OBVIOUS
    <3>1. n - 1 \in 0 .. m
      OBVIOUS
    <3>2. g[n - 1] = f[n - 1]
      BY <2>2, <3>1
    <3> HIDE DEF g
    <3> QED BY <3>2
  <2>4. g = [n \in 0 .. m + 1 |-> Value(g, n)]
    <3> HIDE DEF Value
    <3> QED BY <2>3
  <2>5. Keeps(g, s, m + 1)
    <3> HIDE DEF g, Value
    <3> QED BY <1>0, <2>4
  <2> QED BY <2>5
<1>3. \A m \in Nat : m \in P
  <2> HIDE DEF P
  <2> QED BY <1>1, <1>2, NatSetInduction
<1> QED BY <1>3

\* collect() keeps records and makes none.
LEMMA KeptOK == ASSUME NEW S, NEW s \in Seq(S) PROVE Kept(s) \in Seq(S)
<1> DEFINE m == Len(s)
           f == CHOOSE x : Keeps(x, s, m)
<1>0. m \in Nat /\ \A n \in 1 .. m : s[n] \in S
  BY LenProperties, ElementOfSeq
<1>1. Kept(s) = f[m]
  BY DEF Kept, Keeps
<1>2. Keeps(f, s, m)
  BY <1>0, KeepsExist
<1> HIDE DEF f, m
<1>3. /\ f[0] = <<>>
      /\ \A n \in 1 .. m :
           f[n] = IF Unfinished(s[n]) THEN Append(f[n - 1], s[n]) ELSE f[n - 1]
  <2> DEFINE More(n) == IF Unfinished(s[n]) THEN Append(f[n - 1], s[n]) ELSE f[n - 1]
  <2>1. f = [n \in 0 .. m |-> IF n = 0 THEN <<>> ELSE More(n)]
    BY <1>2 DEF Keeps
  <2> HIDE DEF More
  <2>2. f[0] = <<>> /\ \A n \in 1 .. m : f[n] = More(n)
    BY <1>0, <2>1
  <2> QED BY <2>2 DEF More
<1> DEFINE P == {n \in Nat : n <= m => f[n] \in Seq(S)}
<1>4. 0 \in P
  <2>1. f[0] = <<>>
    BY <1>3
  <2>2. f[0] \in Seq(S)
    BY <2>1
  <2> QED BY <2>2
<1>5. ASSUME NEW n \in Nat, n \in P PROVE n + 1 \in P
  <2> SUFFICES ASSUME n + 1 <= m PROVE f[n + 1] \in Seq(S)
    OBVIOUS
  <2>1. f[n] \in Seq(S) /\ s[n + 1] \in S
    BY <1>0, <1>5
  <2>2. f[n + 1] = IF Unfinished(s[n + 1]) THEN Append(f[n], s[n + 1]) ELSE f[n]
    <3>1. n + 1 \in 1 .. m /\ (n + 1) - 1 = n
      BY <1>0
    <3> QED BY <1>3, <3>1
  <2>3. Append(f[n], s[n + 1]) \in Seq(S)
    BY <2>1
  <2> QED BY <2>1, <2>2, <2>3
<1>6. \A n \in Nat : n \in P
  <2> HIDE DEF P
  <2> QED BY <1>4, <1>5, NatSetInduction
<1> QED BY <1>0, <1>1, <1>6

\* A queue of records, told without naming their set.
IsQueue(s) == s \in Seq(ToSet(s))

\* A queue over some of the records of another keeps some of its owners.
LEMMA QueueWithin ==
  ASSUME NEW s, IsQueue(s), NEW r \in Seq(ToSet(s))
  PROVE  IsQueue(r) /\ Owned(r) \subseteq Owned(s)
<1>1. /\ DOMAIN r = 1 .. Len(r) /\ \A i \in DOMAIN r : r[i] \in ToSet(s)
      /\ Len(r) \in Nat
  BY LenProperties, ElementOfSeq
<1>2. IsQueue(r)
  <2>1. r = [i \in 1 .. Len(r) |-> r[i]]
    BY <1>1
  <2>2. \A i \in 1 .. Len(r) : r[i] \in ToSet(r)
    BY <1>1 DEF ToSet
  <2> QED BY <1>1, <2>1, <2>2, IsASeq DEF IsQueue
<1>3. ASSUME NEW i \in DOMAIN r PROVE \E j \in DOMAIN s : r[i] = s[j]
  BY <1>1 DEF ToSet
<1> QED BY <1>2, <1>3 DEF Owned

\* A record put behind a queue.
LEMMA QueueAppend ==
  ASSUME NEW s, IsQueue(s), NEW r
  PROVE  IsQueue(Append(s, r)) /\ Owned(Append(s, r)) = Owned(s) \cup r.owners
<1> DEFINE S == ToSet(s)
           t == Append(s, r)
<1>1. /\ s \in Seq(S \cup {r}) /\ Len(s) \in Nat /\ DOMAIN s = 1 .. Len(s)
      /\ \A i \in 1 .. Len(s) : s[i] \in S
  <2>1. s \in Seq(S)
    BY DEF IsQueue
  <2> HIDE DEF S
  <2> QED BY <2>1, LenProperties, ElementOfSeq
<1>2. /\ t \in Seq(S \cup {r}) /\ DOMAIN t = 1 .. Len(s) + 1
      /\ \A i \in 1 .. Len(s) : t[i] = s[i]
      /\ t[Len(s) + 1] = r
  <2> HIDE DEF S
  <2> QED BY <1>1, LenProperties
<1> HIDE DEF t
<1>3. /\ \A i \in DOMAIN t : (i \in DOMAIN s /\ t[i] = s[i]) \/ t[i] = r
      /\ \A i \in DOMAIN s : i \in DOMAIN t /\ t[i] = s[i]
      /\ Len(s) + 1 \in DOMAIN t /\ t[Len(s) + 1] = r
  BY <1>1, <1>2
<1>4. Owned(t) = Owned(s) \cup r.owners /\ ToSet(t) = S \cup {r}
  <2>1. Owned(t) = Owned(s) \cup r.owners
    BY <1>3 DEF Owned
  <2>2. ToSet(t) = S \cup {r}
    BY <1>3 DEF ToSet
  <2> QED BY <2>1, <2>2
<1>5. IsQueue(t)
  BY <1>2, <1>4 DEF IsQueue
<1> QED BY <1>4, <1>5 DEF t

\* What a call of collect() leaves, whether or not it throws.
LEMMA CollectedOK ==
  ASSUME IsQueue(pending), NEW c \in Collected
  PROVE  IsQueue(c.records) /\ Owned(c.records) \subseteq Owned(pending)
<1> DEFINE S == ToSet(pending)
           Rest(i) == Kept(SubSeq(pending, 1, i - 1)) \o SubSeq(pending, i, Len(pending))
<1>1. /\ pending \in Seq(S) /\ Len(pending) \in Nat
      /\ DOMAIN pending = 1 .. Len(pending)
      /\ \A j \in 1 .. Len(pending) : pending[j] \in S
  BY LenProperties, ElementOfSeq DEF IsQueue
<1> HIDE DEF S
<1>2. CASE c = [records |-> Kept(pending), threw |-> FALSE]
  BY <1>1, <1>2, KeptOK, QueueWithin DEF S
<1>3. CASE \E i \in 1 .. Len(pending) : c.records = Rest(i)
  <2>1. PICK i \in 1 .. Len(pending) : c.records = Rest(i)
    BY <1>3
  <2>2. SubSeq(pending, 1, i - 1) \in Seq(S)
    BY <1>1, SubSeqProperties
  <2>3. SubSeq(pending, i, Len(pending)) \in Seq(S)
    BY <1>1, SubSeqProperties
  <2>4. c.records \in Seq(S)
    BY <2>1, <2>2, <2>3, KeptOK, ConcatProperties
  <2> QED BY <2>4, QueueWithin DEF S
<1>4. \/ c = [records |-> Kept(pending), threw |-> FALSE]
      \/ \E i \in DOMAIN pending : c = [records |-> Rest(i), threw |-> TRUE]
  BY DEF Collected, MayThrow
<1> HIDE DEF Rest
<1> QED BY <1>1, <1>2, <1>3, <1>4

-----------------------------------------------------------------------------
(* The operations of the tensor backend. *)

\* Every operation takes a natural number of temporaries.
LEMMA OperationsOK == \A op \in Operations : op.scratch \in Nat
<1>1. \A n : /\ IsRecord(Kernel(n), DOMAIN Kernel(n)) /\ "scratch" \in DOMAIN Kernel(n)
             /\ Kernel(n).scratch = 0
  BY DEF Kernel, IsRecord
<1> USE DEF IsRecord
<1>2. /\ Matmul.scratch = 0 /\ MatmulExpert.scratch = 0
      /\ "scratch" \in DOMAIN MatmulExpert
  BY <1>1 DEF Matmul, MatmulExpert
<1>3. MatmulInt8Expert.scratch = 1
  BY <1>2 DEF MatmulInt8Expert
<1>4. Add.scratch = 0 /\ Mul.scratch = 0 /\ RmsNorm.scratch = 0 /\ ApplyActivation.scratch = 0
  BY <1>1 DEF Add, Mul, RmsNorm, ApplyActivation
<1>5. ApplyRoPE.scratch = 0 /\ CausalAttention.scratch = 0 /\ Zero.scratch = 0
  BY <1>1 DEF ApplyRoPE, CausalAttention, Zero
<1>6. RouteTopK.scratch = 2
  BY <1>1 DEF RouteTopK
<1>7. GatherRows.scratch = 1 /\ "scratch" \in DOMAIN GatherRows
  BY <1>1 DEF GatherRows
<1>8. ScatterAddRows.scratch = 2
  BY <1>7 DEF ScatterAddRows
<1> QED BY <1>2, <1>3, <1>4, <1>5, <1>6, <1>7, <1>8 DEF Operations

\* What a call has pinned, collected and allocated when its work starts.
Begun(op, ins, outs, views, c, s) ==
  LET h == Reclaimed(heap, Elsewhere \cup Pinned(ins, outs, views) \cup Owned(c.records))
  IN  /\ Operands(op, ins, outs)
      /\ c \in IF op.collects THEN Collected ELSE {[records |-> pending, threw |-> FALSE]}
      /\ s = IF c.threw THEN [heap |-> h, blocks |-> {}] ELSE Scratch(h, op)

\* The work a call queues: all of it, or what it had queued when it failed.
Issued(op, ins, outs, views, s, items) ==
  LET n == exec.calls + 1
      uploads == Uploads(op, s.blocks, n)
      launches == Launches(op, Now(ins) \cup views, outs, s.blocks, n)
  IN  \/ items = (uploads \o launches) \o ReadBacks(op, s.blocks, n)
      \/ \E k \in 0 .. op.launches : items = uploads \o SubSeq(launches, 1, k)
      \/ /\ op.uploads /\ Cardinality(s.blocks) = op.scratch
         /\ \E k \in 0 .. op.scratch : items = SubSeq(uploads, 1, k)
      \/ items = Launches(op, Now(ins), outs, s.blocks, n)

\* Who guards the work it queued: nobody is needed where it queued nothing or only
\* uploads; the record of its end event, with the executor where it waits; the
\* executor where the scope was aborted; the record where a copy to the host failed.
Guards(op, ins, outs, views, c, s) ==
  LET n == exec.calls + 1
      mine == Pinned(ins, outs, views) \cup s.blocks
      uploads == Uploads(op, s.blocks, n)
      launches == Launches(op, Now(ins) \cup views, outs, s.blocks, n)
      alone == Launches(op, Now(ins), outs, s.blocks, n)
      Waits(pc) == exec'.pc = pc /\ exec'.owners = mine
      Records(items) == pending' = Append(c.records, Finished(RecordEvent(items), mine))
  IN  \/ streams' = streams /\ pending' = c.records
      \/ /\ Queue("compute", (uploads \o launches) \o ReadBacks(op, s.blocks, n))
         /\ Records(uploads \o launches)
         /\ op.syncs => Waits("syncing")
      \/ /\ \E k \in 0 .. op.launches : Queue("compute", uploads \o SubSeq(launches, 1, k))
         /\ pending' = c.records /\ Waits("aborting")
      \/ /\ op.uploads /\ Cardinality(s.blocks) = op.scratch
         /\ \E k \in 0 .. op.scratch : Queue("compute", SubSeq(uploads, 1, k))
         /\ pending' = c.records
      \/ op.readsBack /\ Queue("compute", alone) /\ Records(alone)

\* What it leaves: at most its operands and temporaries are kept, by the event
\* queue and by the executor.
Ended(op, ins, outs, views, c, s) ==
  LET mine == Pinned(ins, outs, views) \cup s.blocks
  IN  /\ Guards(op, ins, outs, views, c, s)
      /\ \/ pending' = c.records
         \/ \E event, owners : /\ owners \subseteq mine
                               /\ pending' = Append(c.records, Finished(event, owners))
      /\ \E pc \in {"idle", "syncing", "aborting"}, owners \in SUBSET mine :
           /\ pc = "idle" => owners = {}
           /\ Finish(pc, owners)
      /\ Reclaim(s.heap)
      /\ UNCHANGED <<tensors, weights, copier>>
      /\ \/ streams' = streams
         \/ \E items : Issued(op, ins, outs, views, s, items) /\ Queue("compute", items)
      /\ written' = written \/ written' = written \cup outs
      /\ Charged(c) \/ Fault

\* A call that queues its work, or throws before it.
LEMMA CallIs ==
  ASSUME NEW op, NEW ins, NEW outs, NEW views, NEW c, NEW s, Call(op, ins, outs, views, c, s)
  PROVE  Ended(op, ins, outs, views, c, s)
<1> DEFINE n == exec.calls + 1
           mine == Pinned(ins, outs, views) \cup s.blocks
           items == Uploads(op, s.blocks, n)
                      \o Launches(op, Now(ins) \cup views, outs, s.blocks, n)
           all == items \o ReadBacks(op, s.blocks, n)
<1>1. /\ UNCHANGED <<tensors, weights, copier>> /\ Charged(c) /\ Reclaim(s.heap)
      /\ IF c.threw \/ Cardinality(s.blocks) < op.scratch
           THEN /\ pending' = c.records
                /\ Finish("idle", {})
                /\ UNCHANGED <<written, streams>>
           ELSE /\ Queue("compute", all)
                /\ pending' = Append(c.records, Finished(RecordEvent(items), mine))
                /\ written' = written \cup outs
                /\ IF op.syncs THEN Finish("syncing", mine) ELSE Finish("idle", {})
  BY DEF Call
<1>2. Issued(op, ins, outs, views, s, all)
  BY DEF Issued
<1>3. Guards(op, ins, outs, views, c, s)
  <2>1. CASE c.threw \/ Cardinality(s.blocks) < op.scratch
    BY <1>1, <2>1 DEF Guards
  <2>2. CASE ~(c.threw \/ Cardinality(s.blocks) < op.scratch)
    BY <1>1, <2>2 DEF Guards, Finish
  <2> QED BY <2>1, <2>2
<1> HIDE DEF items, all
<1>4. CASE c.threw \/ Cardinality(s.blocks) < op.scratch
  BY <1>1, <1>3, <1>4 DEF Ended
<1>5. CASE ~(c.threw \/ Cardinality(s.blocks) < op.scratch)
  BY <1>1, <1>2, <1>3, <1>5 DEF Ended
<1> QED BY <1>4, <1>5

\* A call whose scope ends before its end event is recorded.
LEMMA FailCallIs ==
  ASSUME NEW op, NEW ins, NEW outs, NEW views, NEW c, NEW s, FailCall(op, ins, outs, views, c, s)
  PROVE  Ended(op, ins, outs, views, c, s)
<1> DEFINE n == exec.calls + 1
           mine == Pinned(ins, outs, views) \cup s.blocks
           Items(k) == Uploads(op, s.blocks, n)
                         \o SubSeq(Launches(op, Now(ins) \cup views, outs, s.blocks, n), 1, k)
<1>1. /\ Fault
      /\ \E k \in 0 .. op.launches :
           /\ Queue("compute", Items(k))
           /\ written' = IF k = 0 THEN written ELSE written \cup outs
      /\ pending' = c.records
      /\ Finish("aborting", mine)
      /\ UNCHANGED <<tensors, weights, copier>> /\ Reclaim(s.heap)
  BY DEF FailCall, AbortPins
<1>2. \A k \in 0 .. op.launches : Issued(op, ins, outs, views, s, Items(k))
  BY DEF Issued
<1>3. Guards(op, ins, outs, views, c, s)
  BY <1>1 DEF Guards, Finish
<1> HIDE DEF Items
<1> QED BY <1>1, <1>2, <1>3 DEF Ended

\* A call that fails before any scope guards its temporaries.
LEMMA FailUploadIs ==
  ASSUME NEW op, NEW ins, NEW outs, NEW views, NEW c, NEW s, FailUpload(op, ins, outs, views, c, s)
  PROVE  Ended(op, ins, outs, views, c, s)
<1> DEFINE Items(k) == SubSeq(Uploads(op, s.blocks, exec.calls + 1), 1, k)
<1>1. /\ op.uploads /\ Cardinality(s.blocks) = op.scratch
      /\ Fault
      /\ \E k \in 0 .. op.scratch : Queue("compute", Items(k))
      /\ pending' = c.records
      /\ Finish("idle", {})
      /\ UNCHANGED <<written, tensors, weights, copier>> /\ Reclaim(s.heap)
  BY DEF FailUpload
<1>2. \A k \in 0 .. op.scratch : Issued(op, ins, outs, views, s, Items(k))
  BY <1>1 DEF Issued
<1>3. Guards(op, ins, outs, views, c, s)
  BY <1>1 DEF Guards
<1> HIDE DEF Items
<1> QED BY <1>1, <1>2, <1>3 DEF Ended

\* A call that fails once its record is in the event queue.
LEMMA FailReadBackIs ==
  ASSUME NEW op, NEW ins, NEW outs, NEW views, NEW c, NEW s,
         FailReadBack(op, ins, outs, views, c, s)
  PROVE  Ended(op, ins, outs, views, c, s)
<1> DEFINE mine == Pinned(ins, outs, views) \cup s.blocks
           items == Launches(op, Now(ins), outs, s.blocks, exec.calls + 1)
<1>1. /\ op.readsBack
      /\ Fault
      /\ Queue("compute", items)
      /\ pending' = Append(c.records, Finished(RecordEvent(items), mine))
      /\ written' = written \cup outs
      /\ Finish("idle", {})
      /\ UNCHANGED <<tensors, weights, copier>> /\ Reclaim(s.heap)
  BY DEF FailReadBack
<1>2. Issued(op, ins, outs, views, s, items)
  BY DEF Issued
<1>3. Guards(op, ins, outs, views, c, s)
  BY <1>1 DEF Guards
<1> HIDE DEF items
<1> QED BY <1>1, <1>2, <1>3 DEF Ended

\* An operation begins with operands that pass its checks and ends in one of
\* those ways.
LEMMA OperateIs ==
  ASSUME Operate
  PROVE  \E op \in Operations, ins \in SUBSET tensors, outs \in SUBSET tensors :
           \E views \in WeightViews(op) : \E c, s :
             Begun(op, ins, outs, views, c, s) /\ Ended(op, ins, outs, views, c, s)
<1>1. PICK op \in Operations, ins \in SUBSET tensors, outs \in SUBSET tensors :
        /\ Operands(op, ins, outs)
        /\ \E views \in WeightViews(op), c \in Collects(op) :
             \E s \in {Begin(op, Pinned(ins, outs, views), c)} :
               \/ Call(op, ins, outs, views, c, s)
               \/ FailCall(op, ins, outs, views, c, s)
               \/ FailUpload(op, ins, outs, views, c, s)
               \/ FailReadBack(op, ins, outs, views, c, s)
  BY DEF Operate
<1>2. PICK views \in WeightViews(op), c \in Collects(op) :
        \E s \in {Begin(op, Pinned(ins, outs, views), c)} : Ended(op, ins, outs, views, c, s)
  BY <1>1, CallIs, FailCallIs, FailUploadIs, FailReadBackIs
<1>3. Begun(op, ins, outs, views, c, Begin(op, Pinned(ins, outs, views), c))
  BY <1>1 DEF Begun, Begin, Collects
<1> QED BY <1>2, <1>3

-----------------------------------------------------------------------------
(* Who owns the blocks in use. *)

\* The shapes of the owners' state.
Shapes ==
  /\ IsQueue(pending)
  /\ tensors \subseteq Blocks
  /\ IsRecord(exec, {"pc", "owners", "calls"})
  /\ exec.pc \in {"idle", "closing", "closed"} => exec.owners = {}
  /\ weights \in [Experts -> Blocks \cup {NoBlock}]
  /\ copier \in [Copiers -> [expert : Experts \cup {Unwritten}, block : Blocks \cup {NoBlock}]]
  /\ \A c \in Copiers : copier[c] # NoTransfer => copier[c].expert \in Experts

\* The blocks in use are exactly those somebody refers to.
Owns == HeapOK(heap) /\ Active(heap) = References

Inv == Shapes /\ Owns

\* What is no longer referred to goes back; a step may give no block up that
\* it still refers to.
LEMMA ReclaimOK ==
  ASSUME NEW h, HeapOK(h), References' \subseteq Active(h), Reclaim(h)
  PROVE  Owns'
<1>1. heap' = Reclaimed(h, References')
  BY DEF Reclaim
<1>2. HeapOK(heap') /\ Active(heap') = Active(h) \cap References'
  BY <1>1, ReclaimedOK
<1>3. Active(h) \cap References' = References'
  OBVIOUS
<1> QED BY <1>2, <1>3 DEF Owns, HeapOK, HeapShape, PoolOK, Held, Placed, Active, Allocated

\* The operands an operation is given.
Takeable(op, ins, outs, views) ==
  op \in Operations /\ ins \subseteq tensors /\ outs \subseteq tensors /\ views \in WeightViews(op)

\* Nothing in use is missed: a call's operands are owned by the executor's
\* tensors and by resident weights.
LEMMA BegunOK ==
  ASSUME Inv, NEW op, NEW ins, NEW outs, NEW views, Takeable(op, ins, outs, views),
         NEW c, NEW s, Begun(op, ins, outs, views, c, s)
  PROVE  /\ HeapOK(s.heap) /\ IsQueue(c.records)
         /\ Pinned(ins, outs, views) \subseteq Elsewhere /\ s.blocks \subseteq Blocks
         /\ Active(s.heap) = Elsewhere \cup Owned(c.records) \cup s.blocks
<1> DEFINE pinned == Pinned(ins, outs, views)
           h == Reclaimed(heap, Elsewhere \cup pinned \cup Owned(c.records))
<1>1. IsQueue(c.records) /\ Owned(c.records) \subseteq Owned(pending)
  <2>1. c \in Collected \/ c = [records |-> pending, threw |-> FALSE]
    BY DEF Begun
  <2>2. CASE c \in Collected
    BY <2>2, CollectedOK DEF Inv, Shapes
  <2>3. CASE c = [records |-> pending, threw |-> FALSE]
    BY <2>3 DEF Inv, Shapes
  <2> QED BY <2>1, <2>2, <2>3
<1>2. pinned \subseteq Elsewhere
  <2>1. ins \cup outs \subseteq Elsewhere
    BY BlocksFinite DEF Inv, Shapes, Elsewhere, Takeable
  <2>2. \A x \in views : x[1] \in Elsewhere
    <3>1. CASE views = {}
      BY <3>1
    <3>2. CASE \E e \in Experts : weights[e] # NoBlock /\ views = {<<weights[e], e>>}
      BY <3>2 DEF Elsewhere
    <3> QED BY <3>1, <3>2 DEF WeightViews, Takeable
  <2> QED BY <2>1, <2>2 DEF Pinned
<1>3. HeapOK(h) /\ Active(h) = Elsewhere \cup Owned(c.records)
  <2>1. HeapOK(heap) /\ Active(heap) = Elsewhere \cup exec.owners \cup Owned(pending)
    BY DEF Inv, Owns, References
  <2>2. /\ HeapOK(h)
        /\ Active(h) = Active(heap) \cap (Elsewhere \cup pinned \cup Owned(c.records))
    <3> HIDE DEF pinned
    <3> QED BY <2>1, ReclaimedOK
  <2> HIDE DEF h, pinned
  <2> QED BY <1>1, <1>2, <2>1, <2>2
<1>4. s = IF c.threw THEN [heap |-> h, blocks |-> {}] ELSE Scratch(h, op)
  BY DEF Begun
<1> HIDE DEF h
<1>5. CASE c.threw
  BY <1>1, <1>2, <1>3, <1>4, <1>5
<1>6. CASE ~c.threw
  <2>1. op.scratch \in Nat /\ s = Scratch(h, op)
    BY <1>4, <1>6, OperationsOK DEF Takeable
  <2>2. HeapOK(s.heap) /\ s.blocks \subseteq Blocks /\ Active(s.heap) = Active(h) \cup s.blocks
    BY <1>3, <2>1, ScratchOK
  <2> QED BY <1>1, <1>2, <1>3, <2>2
<1> QED BY <1>5, <1>6

\* An operation keeps what it still refers to, however it ends.
LEMMA OperateOK == Inv /\ Operate => Inv'
<1> SUFFICES ASSUME Inv, Operate PROVE Inv'
  OBVIOUS
<1>1. PICK op \in Operations, ins \in SUBSET tensors, outs \in SUBSET tensors :
        \E views \in WeightViews(op) : \E c, s :
          Begun(op, ins, outs, views, c, s) /\ Ended(op, ins, outs, views, c, s)
  BY OperateIs
<1>a. PICK views \in WeightViews(op) :
        \E c, s : Begun(op, ins, outs, views, c, s) /\ Ended(op, ins, outs, views, c, s)
  BY <1>1
<1>2. PICK c, s : Begun(op, ins, outs, views, c, s) /\ Ended(op, ins, outs, views, c, s)
  BY <1>a
<1> DEFINE pinned == Pinned(ins, outs, views)
<1>3. /\ HeapOK(s.heap) /\ IsQueue(c.records)
      /\ pinned \subseteq Elsewhere /\ s.blocks \subseteq Blocks
      /\ Active(s.heap) = Elsewhere \cup Owned(c.records) \cup s.blocks
  <2>1. Begun(op, ins, outs, views, c, s) /\ Takeable(op, ins, outs, views)
    BY <1>2 DEF Takeable
  <2> QED BY <2>1, BegunOK
<1>4. /\ \/ pending' = c.records
         \/ \E event, owners : /\ owners \subseteq pinned \cup s.blocks
                               /\ pending' = Append(c.records, Finished(event, owners))
      /\ \E pc \in {"idle", "syncing", "aborting"}, owners \in SUBSET (pinned \cup s.blocks) :
           /\ pc = "idle" => owners = {}
           /\ Finish(pc, owners)
      /\ Reclaim(s.heap)
      /\ UNCHANGED <<tensors, weights, copier>>
  BY <1>2 DEF Ended
<1> HIDE DEF pinned
<1>5. IsQueue(pending') /\ Owned(pending') \subseteq Owned(c.records) \cup pinned \cup s.blocks
  <2>1. CASE pending' = c.records
    BY <1>3, <2>1
  <2>2. CASE \E event, owners : /\ owners \subseteq pinned \cup s.blocks
                                /\ pending' = Append(c.records, Finished(event, owners))
    <3>1. PICK event, owners : /\ owners \subseteq pinned \cup s.blocks
                               /\ pending' = Append(c.records, Finished(event, owners))
      BY <2>2
    <3> DEFINE r == Finished(event, owners)
    <3>2. r.owners \subseteq pinned \cup s.blocks
      BY <3>1 DEF Finished
    <3> HIDE DEF r
    <3>3. IsQueue(pending') /\ Owned(pending') = Owned(c.records) \cup r.owners
      <4>1. pending' = Append(c.records, r)
        BY <3>1 DEF r
      <4> QED BY <1>3, <4>1, QueueAppend
    <3> QED BY <3>2, <3>3
  <2> QED BY <1>4, <2>1, <2>2
<1>6. /\ IsRecord(exec', {"pc", "owners", "calls"})
      /\ exec'.owners \subseteq pinned \cup s.blocks
      /\ exec'.pc \in {"idle", "closing", "closed"} => exec'.owners = {}
  BY <1>4 DEF Finish, IsRecord
<1>7. UNCHANGED <<tensors, weights, copier>> /\ Elsewhere' = Elsewhere /\ Reclaim(s.heap)
  BY <1>4 DEF Elsewhere
<1>8. References' \subseteq Active(s.heap)
  BY <1>3, <1>5, <1>6, <1>7 DEF References
<1>9. Owns'
  BY <1>3, <1>7, <1>8, ReclaimOK
<1>10. Shapes'
  BY <1>5, <1>6, <1>7 DEF Inv, Shapes
<1> QED BY <1>9, <1>10 DEF Inv

\* A step that only lets go: nobody refers to a block nobody had.
LEMMA LetGoOK ==
  ASSUME Inv, Reclaim(heap), Elsewhere' \subseteq Elsewhere,
         exec'.owners \subseteq exec.owners, Owned(pending') \subseteq Owned(pending)
  PROVE  Owns'
<1>1. HeapOK(heap) /\ References' \subseteq Active(heap)
  BY DEF Inv, Owns, References
<1> QED BY <1>1, ReclaimOK

\* The executor's call returns, having collected or not.
LEMMA ReturnOK ==
  ASSUME Inv, Return, IsQueue(pending'), Owned(pending') \subseteq Owned(pending)
  PROVE  Inv'
<1>1. /\ IsRecord(exec', {"pc", "owners", "calls"}) /\ exec'.owners = {}
      /\ UNCHANGED <<tensors, weights, copier>> /\ Reclaim(heap)
  BY DEF Return, Inv, Shapes, IsRecord
<1>2. Elsewhere' \subseteq Elsewhere
  BY <1>1 DEF Elsewhere
<1>3. Owns'
  BY <1>1, <1>2, LetGoOK
<1>4. Shapes'
  BY <1>1 DEF Inv, Shapes
<1> QED BY <1>3, <1>4 DEF Inv

\* The waits of the executor end.
LEMMA EndsOK == Inv /\ (AbortEnds \/ SyncEnds \/ CopyEnds \/ BarrierEnds) => Inv'
<1> SUFFICES ASSUME Inv, AbortEnds \/ SyncEnds \/ CopyEnds \/ BarrierEnds PROVE Inv'
  OBVIOUS
<1>1. Return
  BY DEF AbortEnds, SyncEnds, CopyEnds, BarrierEnds
<1>2. pending' = pending \/ \E c \in Collected : pending' = c.records
  BY DEF AbortEnds, SyncEnds, CopyEnds, BarrierEnds
<1>3. IsQueue(pending') /\ Owned(pending') \subseteq Owned(pending)
  BY <1>2, CollectedOK DEF Inv, Shapes
<1> QED BY <1>1, <1>3, ReturnOK

\* A call of the idle executor that allocates nothing pins its own tensors.
LEMMA PinOK ==
  ASSUME Inv, exec.pc = "idle", NEW pc, pc \notin {"idle", "closing", "closed"},
         NEW owners \in SUBSET tensors, Finish(pc, owners),
         UNCHANGED <<heap, pending, tensors, weights, copier>>
  PROVE  Inv'
<1>1. /\ IsRecord(exec', {"pc", "owners", "calls"}) /\ exec'.pc = pc /\ exec'.owners = owners
      /\ exec.owners = {}
  BY DEF Finish, IsRecord, Inv, Shapes
<1>2. Elsewhere' = Elsewhere /\ owners \subseteq Elsewhere
  BY BlocksFinite DEF Elsewhere, Inv, Shapes
<1>3. References' = References
  BY <1>1, <1>2 DEF References
<1>4. Owns'
  BY <1>3 DEF Inv, Owns, HeapOK, HeapShape, PoolOK, Held, Placed, Active, Allocated
<1>5. Shapes'
  BY <1>1 DEF Inv, Shapes
<1> QED BY <1>4, <1>5 DEF Inv

\* Copies and the executor's own synchronization.
LEMMA CopyOK == Inv /\ (Copy \/ Synchronize) => Inv'
<1> SUFFICES ASSUME Inv, Copy \/ Synchronize PROVE Inv'
  OBVIOUS
<1>1. CASE Synchronize
  <2>1. /\ exec.pc = "idle" /\ Finish("syncing", {})
        /\ UNCHANGED <<heap, pending, tensors, weights, copier>>
    BY <1>1 DEF Synchronize
  <2> QED BY <2>1, PinOK
<1>2. CASE Copy
  <2>1. PICK ins \in SUBSET tensors, outs \in SUBSET tensors :
          CopyTensor(ins, outs) \/ FailCopy(ins, outs)
    BY <1>2 DEF Copy
  <2>2. /\ exec.pc = "idle"
        /\ Finish("copying", ins \cup outs) \/ Finish("barrier", ins \cup outs)
        /\ UNCHANGED <<heap, pending, tensors, weights, copier>>
    BY <1>2, <2>1 DEF Copy, CopyTensor, FailCopy
  <2>3. ins \cup outs \in SUBSET tensors
    OBVIOUS
  <2> QED BY <2>2, <2>3, PinOK
<1> QED BY <1>1, <1>2

\* What an allocation adds, somebody refers to.
LEMMA AddOK ==
  ASSUME Inv, NEW p \in Pools, NEW size \in Nat \ {0}, NEW a, a = Acquire(heap, p, size),
         a.block # NoBlock, heap' = a.heap, References' = References \cup {a.block}
  PROVE  Owns' /\ a.block \in Blocks
<1>1. HeapOK(heap) /\ Active(heap) = References
  BY DEF Inv, Owns
<1>2. /\ HeapOK(a.heap) /\ a.block \in Blocks
      /\ Active(a.heap) = Active(heap) \cup {a.block}
  BY <1>1, AcquireOK
<1>3. HeapOK(heap') /\ Active(heap') = References'
  BY <1>1, <1>2
<1> QED BY <1>2, <1>3 DEF Owns, HeapOK, HeapShape, PoolOK, Held, Placed, Active, Allocated

\* Tensors are made and dropped.
LEMMA TensorsOK ==
  ASSUME Inv, \/ \E size \in TensorSizes : AllocateTensor(size)
              \/ \E b \in Blocks : DropTensor(b)
  PROVE  Inv'
<1>1. CASE \E size \in TensorSizes : AllocateTensor(size)
  <2>1. PICK size \in TensorSizes : AllocateTensor(size)
    BY <1>1
  <2>2. size \in Nat \ {0} /\ "tensor" \in Pools
    BY DeviceAssumption DEF Pools
  <2> DEFINE a == Acquire(heap, "tensor", size)
  <2>3. /\ a.block # NoBlock /\ heap' = a.heap /\ tensors' = tensors \cup {a.block}
        /\ UNCHANGED <<pending, exec, weights, copier>>
    BY <2>1 DEF AllocateTensor
  <2> HIDE DEF a
  <2>4. References' = References \cup {a.block}
    BY <2>3 DEF References, Elsewhere
  <2>5. Owns' /\ a.block \in Blocks
    BY <2>2, <2>3, <2>4, AddOK DEF a
  <2>6. Shapes'
    BY <2>3, <2>5 DEF Inv, Shapes
  <2> QED BY <2>5, <2>6 DEF Inv
<1>2. CASE \E b \in Blocks : DropTensor(b)
  <2>1. PICK b \in Blocks : DropTensor(b)
    BY <1>2
  <2>2. /\ tensors' = tensors \ {b} /\ UNCHANGED <<pending, exec, weights, copier>>
        /\ Reclaim(heap)
    BY <2>1 DEF DropTensor
  <2>3. Elsewhere' \subseteq Elsewhere
    BY <2>2 DEF Elsewhere
  <2>4. Owns'
    BY <2>2, <2>3, LetGoOK
  <2>5. Shapes'
    BY <2>2 DEF Inv, Shapes
  <2> QED BY <2>4, <2>5 DEF Inv
<1> QED BY <1>1, <1>2

\* A pool that is shut down keeps the blocks its late owners have.
LEMMA CloseOK ==
  ASSUME Inv, NEW p \in Pools, Close(p), References' \subseteq References
  PROVE  Owns'
<1> DEFINE h == Reclaimed(heap, References')
<1>1. HeapOK(heap) /\ Active(heap) = References
  BY DEF Inv, Owns
<1>2. HeapOK(h) /\ Active(h) = Active(heap) \cap References'
  BY <1>1, ReclaimedOK
<1>3. heap' = ShutDown(h, p)
  BY DEF Close
<1> HIDE DEF h
<1>4. HeapOK(heap') /\ Active(heap') = Active(h)
  BY <1>2, <1>3, ShutDownOK
<1>5. Active(heap') = References'
  BY <1>1, <1>2, <1>4
<1> QED BY <1>4, <1>5 DEF Owns, HeapOK, HeapShape, PoolOK, Held, Placed, Active, Allocated

\* The teardown.
LEMMA ClosingOK == Inv /\ (CloseTransfers \/ CloseBackend) => Inv'
<1> SUFFICES ASSUME Inv, CloseTransfers \/ CloseBackend PROVE Inv'
  OBVIOUS
<1>1. CASE CloseTransfers
  <2>1. /\ weights' = [e \in Experts |-> NoBlock] /\ exec' = [exec EXCEPT !.pc = "closing"]
        /\ UNCHANGED <<pending, tensors, copier>> /\ Close("transfer") /\ exec.pc = "idle"
    BY <1>1 DEF CloseTransfers
  <2>2. IsRecord(exec', {"pc", "owners", "calls"}) /\ exec'.owners = exec.owners /\ exec.owners = {}
    BY <2>1 DEF Inv, Shapes, IsRecord
  <2>3. References' \subseteq References
    BY <2>1, <2>2 DEF References, Elsewhere
  <2>4. Owns'
    BY <2>1, <2>3, CloseOK DEF Pools
  <2>5. Shapes'
    BY <2>1, <2>2 DEF Inv, Shapes
  <2> QED BY <2>4, <2>5 DEF Inv
<1>2. CASE CloseBackend
  <2>1. /\ pending' = <<>> /\ exec' = [exec EXCEPT !.pc = "closed"] /\ exec.pc = "closing"
        /\ UNCHANGED <<tensors, weights, copier>> /\ Close("tensor")
    BY <1>2 DEF CloseBackend
  <2>2. IsRecord(exec', {"pc", "owners", "calls"}) /\ exec'.owners = exec.owners /\ exec.owners = {}
    BY <2>1 DEF Inv, Shapes, IsRecord
  <2>3. IsQueue(pending') /\ Owned(pending') = {}
    BY <2>1 DEF IsQueue, Owned, ToSet
  <2>4. References' \subseteq References
    BY <2>1, <2>2, <2>3 DEF References, Elsewhere
  <2>5. Owns'
    BY <2>1, <2>4, CloseOK DEF Pools
  <2>6. Shapes'
    BY <2>1, <2>2, <2>3 DEF Inv, Shapes
  <2> QED BY <2>5, <2>6 DEF Inv
<1> QED BY <1>1, <1>2

\* Transfers start, fail and finish; weights are evicted.
LEMMA TransfersOK == Inv /\ Transfers => Inv'
<1> SUFFICES ASSUME Inv, Transfers PROVE Inv'
  OBVIOUS
<1>0. ExpertSize \in Nat \ {0} /\ "transfer" \in Pools
  BY DeviceAssumption DEF Pools
<1> DEFINE a == Acquire(heap, "transfer", ExpertSize)
<1>1. ASSUME NEW c \in Copiers, NEW e \in Experts, StartTransfer(c, e) PROVE Inv'
  <2>1. /\ copier[c] = NoTransfer /\ a.block # NoBlock /\ heap' = a.heap
        /\ copier' = [copier EXCEPT ![c] = [expert |-> e, block |-> a.block]]
        /\ UNCHANGED <<pending, tensors, exec, weights>>
    BY <1>1 DEF StartTransfer, Loadable
  <2> HIDE DEF a
  <2>2. /\ copier'[c].block = a.block /\ copier'[c].expert = e /\ copier[c].block = NoBlock
        /\ \A d \in Copiers \ {c} : copier'[d] = copier[d]
    BY <2>1 DEF Inv, Shapes, NoTransfer
  <2>3. References' = References \cup {a.block}
    <3>1. {copier'[d].block : d \in Copiers} \ {NoBlock}
            = ({copier[d].block : d \in Copiers} \ {NoBlock}) \cup {a.block}
      BY <2>1, <2>2
    <3> QED BY <2>1, <3>1 DEF References, Elsewhere
  <2>4. Owns' /\ a.block \in Blocks
    BY <1>0, <2>1, <2>3, AddOK DEF a
  <2>5. Shapes'
    <3>1. [expert |-> e, block |-> a.block]
            \in [expert : Experts \cup {Unwritten}, block : Blocks \cup {NoBlock}]
      BY <2>4
    <3>2. copier' \in [Copiers -> [expert : Experts \cup {Unwritten}, block : Blocks \cup {NoBlock}]]
      BY <2>1, <3>1 DEF Inv, Shapes
    <3> QED BY <2>1, <2>2, <3>2 DEF Inv, Shapes
  <2> QED BY <2>4, <2>5 DEF Inv
<1>2. ASSUME NEW c \in Copiers, NEW e \in Experts, FailTransfer(c, e) PROVE Inv'
  <2>1. a.block # NoBlock /\ Reclaim(a.heap) /\ UNCHANGED <<pending, tensors, exec, weights, copier>>
    BY <1>2 DEF FailTransfer
  <2> HIDE DEF a
  <2>2. HeapOK(heap) /\ Active(heap) = References /\ References' = References
    BY <2>1 DEF Inv, Owns, References, Elsewhere
  <2>3. HeapOK(a.heap) /\ Active(a.heap) = Active(heap) \cup {a.block}
    BY <1>0, <2>1, <2>2, AcquireOK DEF a
  <2>4. References' \subseteq Active(a.heap)
    BY <2>2, <2>3
  <2>5. Owns'
    BY <2>1, <2>3, <2>4, ReclaimOK
  <2>6. Shapes'
    BY <2>1 DEF Inv, Shapes
  <2> QED BY <2>5, <2>6 DEF Inv
<1>3. ASSUME NEW c \in Copiers, NEW adopt \in BOOLEAN, FinishTransfer(c, adopt) PROVE Inv'
  <2>1. /\ copier[c] # NoTransfer
        /\ weights' = IF adopt THEN [weights EXCEPT ![copier[c].expert] = copier[c].block]
                      ELSE weights
        /\ copier' = [copier EXCEPT ![c] = NoTransfer]
        /\ UNCHANGED <<pending, tensors, exec>> /\ Reclaim(heap)
    BY <1>3 DEF FinishTransfer
  <2>2. /\ copier[c].expert \in Experts /\ copier[c].block \in Blocks \cup {NoBlock}
        /\ copier'[c].block = NoBlock /\ \A d \in Copiers \ {c} : copier'[d] = copier[d]
    BY <2>1 DEF Inv, Shapes, NoTransfer
  <2>3. \A e \in Experts : weights'[e] = weights[e] \/ weights'[e] = copier[c].block
    BY <2>1 DEF Inv, Shapes
  <2>4. Elsewhere' \subseteq Elsewhere
    BY <2>1, <2>2, <2>3 DEF Elsewhere
  <2>5. Owns'
    BY <2>1, <2>4, LetGoOK
  <2>6. Shapes'
    <3>1. weights' \in [Experts -> Blocks \cup {NoBlock}]
      BY <2>1, <2>2 DEF Inv, Shapes
    <3>2. NoTransfer \in [expert : Experts \cup {Unwritten}, block : Blocks \cup {NoBlock}]
      BY DEF NoTransfer
    <3>3. /\ copier' \in [Copiers -> [expert : Experts \cup {Unwritten},
                                      block : Blocks \cup {NoBlock}]]
          /\ \A d \in Copiers : copier'[d] # NoTransfer => copier'[d].expert \in Experts
      <4> HIDE DEF NoTransfer
      <4> QED BY <2>1, <3>2 DEF Inv, Shapes
    <3> QED BY <2>1, <3>1, <3>3 DEF Inv, Shapes
  <2> QED BY <2>5, <2>6 DEF Inv
<1>4. ASSUME NEW e \in Experts, Evict(e) PROVE Inv'
  <2>1. /\ weights' = [weights EXCEPT ![e] = NoBlock]
        /\ UNCHANGED <<pending, tensors, exec, copier>> /\ Reclaim(heap)
    BY <1>4 DEF Evict
  <2>2. \A x \in Experts : weights'[x] = weights[x] \/ weights'[x] = NoBlock
    BY <2>1 DEF Inv, Shapes
  <2>3. Elsewhere' \subseteq Elsewhere
    BY <2>1, <2>2 DEF Elsewhere
  <2>4. Owns'
    BY <2>1, <2>3, LetGoOK
  <2>5. Shapes'
    BY <2>1 DEF Inv, Shapes
  <2> QED BY <2>4, <2>5 DEF Inv
<1> QED BY <1>1, <1>2, <1>3, <1>4 DEF Transfers

\* A stream's work moves no ownership.
LEMMA SameOK ==
  ASSUME Inv, UNCHANGED <<heap, pending, tensors, exec, weights, copier>>
  PROVE  Inv'
<1>1. References' = References
  BY DEF References, Elsewhere
<1>2. Owns'
  BY <1>1 DEF Inv, Owns, HeapOK, HeapShape, PoolOK, Held, Placed, Active, Allocated
<1>3. Shapes'
  BY DEF Inv, Shapes
<1> QED BY <1>2, <1>3 DEF Inv

\* That the driver will not take a block back moves none.
LEMMA RefuseIs ==
  ASSUME NEW h, HeapOK(h), NEW b \in Blocks, NEW g, g = [h EXCEPT !.refused = @ \cup {b}]
  PROVE  HeapOK(g) /\ g.pool = h.pool /\ g.capacity = h.capacity
<1>1. /\ g.pool = h.pool /\ g.capacity = h.capacity /\ g.refused = h.refused \cup {b}
      /\ IsRecord(g, HeapFields)
  BY DEF HeapOK, HeapShape, IsRecord, HeapFields
<1>2. HeapShape(g)
  BY <1>1 DEF HeapOK, HeapShape
<1>3. /\ \A p \in Pools : PoolOK(g, p) /\ Held(g, p) = Held(h, p)
      /\ Allocated(g) = Allocated(h)
  BY <1>1 DEF HeapOK, PoolOK, Held, Allocated
<1>4. \A x \in Blocks : Placed(g, x)
  BY <1>1, <1>3 DEF HeapOK, Placed
<1>5. /\ \A p, q \in Pools : p # q => Held(g, p) \cap Held(g, q) = {}
      /\ SumOver(g.capacity, Allocated(g)) <= DeviceBytes
  BY <1>1, <1>3 DEF HeapOK
<1> QED BY <1>1, <1>2, <1>3, <1>4, <1>5 DEF HeapOK

LEMMA RefuseOK == ASSUME Inv, NEW b \in Blocks, Refuse(b) PROVE Inv'
<1>1. /\ heap' = [heap EXCEPT !.refused = @ \cup {b}]
      /\ UNCHANGED <<pending, tensors, exec, weights, copier>>
  BY DEF Refuse
<1>2. HeapOK(heap') /\ heap'.pool = heap.pool
  BY <1>1, RefuseIs DEF Inv, Owns
<1>3. References' = References /\ Active(heap') = Active(heap)
  BY <1>1, <1>2 DEF References, Elsewhere, Active
<1>4. Owns'
  BY <1>2, <1>3 DEF Inv, Owns, HeapOK, HeapShape, PoolOK, Held, Placed, Active, Allocated
<1>5. Shapes'
  BY <1>1 DEF Inv, Shapes
<1> QED BY <1>4, <1>5 DEF Inv

\* At the start the pools are empty and nobody owns anything.
LEMMA InitOK == Init => Inv
<1> SUFFICES ASSUME Init PROVE Inv
  OBVIOUS
<1>1. /\ heap.capacity = [b \in Blocks |-> 0] /\ heap.pool = [p \in Pools |-> EmptyPool]
      /\ heap.refused = {} /\ IsRecord(heap, HeapFields)
  <2> DEFINE C == [b \in Blocks |-> 0]
             P == [p \in Pools |-> EmptyPool]
  <2>1. heap = [capacity |-> C, pool |-> P, refused |-> {}]
    BY DEF Init
  <2> HIDE DEF C, P
  <2>2. heap.capacity = C /\ heap.pool = P /\ heap.refused = {} /\ IsRecord(heap, HeapFields)
    BY <2>1 DEF IsRecord, HeapFields
  <2> QED BY <2>2 DEF C, P
<1>2. \A p \in Pools : /\ heap.pool[p].free = <<>> /\ heap.pool[p].active = {}
                       /\ heap.pool[p].accepting = TRUE /\ heap.pool[p].allocatedBytes = 0
                       /\ heap.pool[p].activeBytes = 0 /\ heap.pool[p].freeBytes = 0
                       /\ IsRecord(heap.pool[p], PoolFields)
  BY <1>1 DEF EmptyPool, IsRecord, PoolFields, HeapFields
<1>3. \A b \in Blocks : heap.capacity[b] = 0
  BY <1>1
<1>4. SumOver(heap.capacity, {}) = 0
  BY SumEmpty
<1>5. \A p \in Pools : ToSet(heap.pool[p].free) = {} /\ Held(heap, p) = {}
  BY <1>2 DEF ToSet, Held
<1>6. \A p \in Pools : PoolOK(heap, p)
  <2> SUFFICES ASSUME NEW p \in Pools PROVE PoolOK(heap, p)
    OBVIOUS
  <2>1. heap.pool[p].free \in Seq(Blocks) /\ IsInjective(heap.pool[p].free)
    <3>1. heap.pool[p].free = <<>>
      BY <1>2
    <3>2. <<>> \in Seq(Blocks) /\ IsInjective(<<>>)
      BY DEF IsInjective
    <3> QED BY <3>1, <3>2
  <2>2. 0 <= MaximumCachedBytes /\ 0 = 0 + 0
    BY DeviceAssumption
  <2>3. heap.pool[p].active \subseteq Blocks /\ heap.pool[p].accepting = TRUE
    BY <1>2
  <2>4. /\ heap.pool[p].activeBytes = SumOver(heap.capacity, heap.pool[p].active)
        /\ heap.pool[p].freeBytes = SumOver(heap.capacity, ToSet(heap.pool[p].free))
    BY <1>2, <1>4, <1>5
  <2>5. /\ heap.pool[p].allocatedBytes = heap.pool[p].activeBytes + heap.pool[p].freeBytes
        /\ heap.pool[p].freeBytes <= MaximumCachedBytes
    BY <1>2, <2>2
  <2> QED BY <1>2, <1>5, <2>1, <2>3, <2>4, <2>5 DEF PoolOK
<1>7. HeapShape(heap)
  <2>1. 0 % Alignment = 0
    BY DeviceAssumption
  <2> QED BY <1>1, <1>3, <2>1 DEF HeapShape, IsRecord
<1>8. Allocated(heap) = {}
  BY <1>3 DEF Allocated
<1>9. HeapOK(heap)
  BY <1>3, <1>4, <1>5, <1>6, <1>7, <1>8, DeviceAssumption DEF HeapOK, Placed
<1>10. Active(heap) = {}
  BY <1>2 DEF Active, Pools
<1>11. pending = <<>> /\ exec = Idle /\ tensors = {}
  BY DEF Init
<1>12. Owned(pending) = {} /\ IsQueue(pending)
  BY <1>11 DEF Owned, IsQueue, ToSet
<1>13. Elsewhere = {}
  BY DEF Init, Elsewhere, NoTransfer
<1>14. References = {}
  BY <1>11, <1>12, <1>13 DEF References, Idle
<1>15. Shapes
  <2>1. IsRecord(exec, {"pc", "owners", "calls"}) /\ exec.owners = {}
    BY <1>11 DEF Idle, IsRecord
  <2> QED BY <1>12, <2>1 DEF Init, Shapes, NoTransfer
<1> QED BY <1>9, <1>10, <1>14, <1>15 DEF Inv, Owns

\* The invariant holds in every state: whichever call fails where, and in any
\* order of the executor, the transfer workers, the evictions and the streams,
\* the blocks in use are those somebody owns, each in one pool.
THEOREM Invariance == Spec => []Inv
<1>1. Inv /\ [Next]_vars => Inv'
  <2> SUFFICES ASSUME Inv, [Next]_vars PROVE Inv'
    OBVIOUS
  <2>1. CASE Executor
    BY <2>1, OperateOK, EndsOK, CopyOK, TensorsOK, ClosingOK DEF Executor
  <2>2. CASE Transfers
    BY <2>2, TransfersOK
  <2>3. CASE \E s \in Streams : RunItem(s)
    BY <2>3, SameOK DEF RunItem
  <2>4. CASE \E b \in Blocks : Refuse(b)
    BY <2>4, RefuseOK
  <2>5. CASE UNCHANGED vars
    BY <2>5, SameOK DEF vars
  <2> QED BY <2>1, <2>2, <2>3, <2>4, <2>5 DEF Next
<1> QED BY <1>1, InitOK, PTL DEF Spec

\* The pools account for the device's memory, for every device and however many
\* calls of cudaFree fail: each allocation is in one pool, in use exactly while
\* somebody owns it, or is lost because the driver did not take it back; and the
\* statistics are the sums (CudaMemoryPool.cpp:47-127, CudaMemoryManager.cpp:152-166).
THEOREM PoolsCorrect == Spec => []PoolsAccount
<1>1. Inv => PoolsAccount
  <2> SUFFICES ASSUME Inv PROVE PoolsAccount
    OBVIOUS
  <2>1. HeapOK(heap) /\ Active(heap) = References
    BY DEF Inv, Owns
  <2>2. \A p \in Pools : Known(heap, p) /\ PoolOK(heap, p)
    BY <2>1, PoolFacts DEF HeapOK
  <2>3. /\ \A p \in Pools : Held(heap, p) \subseteq Allocated(heap)
        /\ \A p, q \in Pools : p # q => Held(heap, p) \cap Held(heap, q) = {}
        /\ Allocated(heap) \ UNION {Held(heap, p) : p \in Pools} \subseteq heap.refused
    <3>1. \A b \in Blocks : Placed(heap, b)
      BY <2>1 DEF HeapOK
    <3>2. \A p \in Pools : Held(heap, p) \subseteq Blocks
      BY <2>2 DEF Known
    <3>3. \A p, q \in Pools : p # q => Held(heap, p) \cap Held(heap, q) = {}
      BY <2>1 DEF HeapOK
    <3> QED BY <3>1, <3>2, <3>3 DEF Allocated, Placed
  <2>4. Active(heap) = References
    BY <2>1
  <2>5. ASSUME NEW p \in Pools
        PROVE  LET q == heap.pool[p]
               IN  /\ IsInjective(q.free) /\ q.active \cap ToSet(q.free) = {}
                   /\ q.activeBytes = BytesOf(heap, q.active)
                   /\ q.freeBytes = BytesOf(heap, ToSet(q.free))
                   /\ q.allocatedBytes = q.activeBytes + q.freeBytes
                   /\ q.freeBytes <= (IF q.accepting THEN MaximumCachedBytes ELSE 0)
    <3>1. ~heap.pool[p].accepting => heap.pool[p].freeBytes = 0
      <4> SUFFICES ASSUME ~heap.pool[p].accepting PROVE heap.pool[p].freeBytes = 0
        OBVIOUS
      <4>1. ToSet(heap.pool[p].free) = {}
        <5>1. heap.pool[p].free = <<>>
          BY <2>2 DEF PoolOK
        <5> QED BY <5>1 DEF ToSet
      <4>2. SumOver(heap.capacity, {}) = 0
        BY SumEmpty
      <4> QED BY <2>2, <4>1, <4>2 DEF PoolOK
    <3> QED BY <2>2, <3>1, BytesAreSums DEF PoolOK
  <2>6. BytesOf(heap, Allocated(heap)) <= DeviceBytes
    BY <2>1, BytesAreSums DEF HeapOK
  <2> QED BY <2>3, <2>4, <2>5, <2>6 DEF PoolsAccount
<1> QED BY <1>1, Invariance, PTL

-----------------------------------------------------------------------------
(* Type correctness. *)

\* The list of a finite set has its elements, each once.
LEMMA ListOf ==
  ASSUME NEW S, IsFiniteSet(S)
  PROVE  /\ IsQueue(SetToSeq(S)) /\ Len(SetToSeq(S)) = Cardinality(S)
         /\ DOMAIN SetToSeq(S) = 1 .. Cardinality(S)
         /\ \A i \in DOMAIN SetToSeq(S) : SetToSeq(S)[i] \in S
         /\ \A x \in S : \E i \in DOMAIN SetToSeq(S) : SetToSeq(S)[i] = x
<1> DEFINE n == Cardinality(S)
           q == SetToSeq(S)
<1>1. n \in Nat /\ ExistsBijection(1 .. n, S)
  BY FS_CardinalityType
<1>2. \E f \in [1 .. n -> S] : IsInjective(f)
  BY <1>1 DEF ExistsBijection, Bijection, Injection, IsInjective
<1>3. q \in [1 .. n -> S] /\ IsInjective(q)
  BY <1>2 DEF SetToSeq
<1> HIDE DEF n, q
<1>4. q \in Seq(ToSet(q)) /\ Len(q) = n /\ DOMAIN q = 1 .. n
  <2>1. q = [i \in 1 .. n |-> q[i]] /\ \A i \in 1 .. n : q[i] \in ToSet(q)
    BY <1>3 DEF ToSet
  <2> QED BY <1>1, <2>1, <1>3
<1>5. \A i \in DOMAIN q : q[i] \in S
  BY <1>3, <1>4
<1>6. \A x \in S : \E i \in DOMAIN q : q[i] = x
  <2>1. q \in Injection(1 .. n, S)
    BY <1>3 DEF Injection, IsInjective
  <2>2. Cardinality(1 .. n) = n
    BY <1>1, FS_Interval
  <2>3. q \in Surjection(1 .. n, S)
    BY <2>1, <2>2, FS_Injection DEF n
  <2> QED BY <1>4, <2>3 DEF Surjection
<1> QED BY <1>4, <1>5, <1>6 DEF IsQueue, n, q

\* A list made by a function of 1 .. n.
LEMMA QueueOfFunction ==
  ASSUME NEW q, NEW n \in Nat, IsRecord(q, 1 .. n)
  PROVE  IsQueue(q) /\ Len(q) = n
<1>1. q = [i \in 1 .. n |-> q[i]] /\ \A i \in 1 .. n : q[i] \in ToSet(q)
  BY DEF ToSet, IsRecord
<1>2. q \in [1 .. n -> ToSet(q)]
  BY <1>1
<1> QED BY <1>2 DEF IsQueue

\* Queues of well-formed work.
Typed(q) == IsQueue(q) /\ \A i \in DOMAIN q : q[i].writes \subseteq Blocks \X Labels

\* A queue of one item.
LEMMA TypedSingle ==
  ASSUME NEW w, w.writes \subseteq Blocks \X Labels
  PROVE  Typed(<<w>>)
<1> DEFINE q == <<w>>
<1>1. q \in Seq({w}) /\ DOMAIN q = 1 .. 1 /\ q[1] = w
  OBVIOUS
<1> HIDE DEF q
<1>2. ToSet(q) = {w}
  <2>1. 1 \in DOMAIN q /\ \A i \in DOMAIN q : i = 1
    BY <1>1
  <2> QED BY <1>1, <2>1 DEF ToSet
<1>3. \A i \in DOMAIN q : q[i] = w
  BY <1>1
<1> QED BY <1>1, <1>2, <1>3 DEF Typed, IsQueue, q

\* One queue behind another.
LEMMA TypedConcat == ASSUME NEW q, Typed(q), NEW r, Typed(r) PROVE Typed(q \o r)
<1> DEFINE S == ToSet(q) \cup ToSet(r)
           t == q \o r
<1>1. q \in Seq(S) /\ r \in Seq(S)
  <2>1. q \in Seq(ToSet(q)) /\ r \in Seq(ToSet(r))
    BY DEF Typed, IsQueue
  <2> QED BY <2>1
<1> HIDE DEF S
<1>2. /\ t \in Seq(S) /\ Len(q) \in Nat /\ Len(r) \in Nat
      /\ DOMAIN q = 1 .. Len(q) /\ DOMAIN r = 1 .. Len(r) /\ DOMAIN t = 1 .. Len(q) + Len(r)
      /\ \A i \in 1 .. Len(q) + Len(r) : t[i] = IF i <= Len(q) THEN q[i] ELSE r[i - Len(q)]
  BY <1>1, ConcatProperties, LenProperties
<1> HIDE DEF t
<1>3. \A i \in DOMAIN t : (\E j \in DOMAIN q : t[i] = q[j]) \/ (\E j \in DOMAIN r : t[i] = r[j])
  <2> SUFFICES ASSUME NEW i \in DOMAIN t
               PROVE  (\E j \in DOMAIN q : t[i] = q[j]) \/ (\E j \in DOMAIN r : t[i] = r[j])
    OBVIOUS
  <2>1. CASE i <= Len(q)
    BY <1>2, <2>1
  <2>2. CASE ~(i <= Len(q))
    <3>1. i - Len(q) \in 1 .. Len(r) /\ t[i] = r[i - Len(q)]
      BY <1>2, <2>2
    <3> QED BY <1>2, <3>1
  <2> QED BY <2>1, <2>2
<1>4. \A i \in DOMAIN t : t[i].writes \subseteq Blocks \X Labels
  BY <1>3 DEF Typed
<1>5. IsQueue(t)
  <2>1. t = [i \in 1 .. Len(q) + Len(r) |-> t[i]] /\ Len(q) + Len(r) \in Nat
    BY <1>2
  <2> QED BY <2>1, QueueOfFunction DEF IsRecord
<1> QED BY <1>4, <1>5 DEF Typed, t

\* The first items of a queue.
LEMMA TypedPrefix ==
  ASSUME NEW q, Typed(q), NEW k \in 0 .. Len(q)
  PROVE  Typed(SubSeq(q, 1, k))
<1> DEFINE t == SubSeq(q, 1, k)
<1>1. q \in Seq(ToSet(q))
  BY DEF Typed, IsQueue
<1>2. /\ Len(q) \in Nat /\ DOMAIN q = 1 .. Len(q)
      /\ \A i \in 1 .. k : q[i] \in ToSet(q)
  BY <1>1, LenProperties DEF ToSet
<1>3. /\ Len(t) = k /\ DOMAIN t = 1 .. k /\ k \in Nat
      /\ \A i \in 1 .. k : t[i] = q[i]
      /\ t = [i \in 1 .. k |-> t[i]]
  BY <1>1, <1>2, SubSeqProperties, LenProperties
<1> HIDE DEF t
<1>4. IsQueue(t)
  BY <1>3, QueueOfFunction DEF IsRecord
<1>5. \A i \in DOMAIN t : t[i].writes \subseteq Blocks \X Labels
  BY <1>2, <1>3 DEF Typed
<1> QED BY <1>4, <1>5 DEF Typed, t

\* The rest of a queue.
LEMMA TypedTail ==
  ASSUME NEW q, Typed(q), q # <<>>
  PROVE  Typed(Tail(q)) /\ Head(q).writes \subseteq Blocks \X Labels
<1> DEFINE t == Tail(q)
<1>1. q \in Seq(ToSet(q)) /\ Len(q) \in Nat \ {0} /\ DOMAIN q = 1 .. Len(q)
  <2>1. q \in Seq(ToSet(q))
    BY DEF Typed, IsQueue
  <2> QED BY <2>1, LenProperties, EmptySeq
<1>2. /\ Head(q) = q[1] /\ Len(t) = Len(q) - 1 /\ DOMAIN t = 1 .. Len(q) - 1
      /\ \A i \in 1 .. Len(q) - 1 : t[i] = q[i + 1]
      /\ t = [i \in 1 .. Len(q) - 1 |-> t[i]]
  <2>1. t \in Seq(ToSet(q)) /\ Len(t) = Len(q) - 1 /\ Head(q) = q[1]
    BY <1>1, HeadTailProperties
  <2>2. \A i \in 1 .. Len(q) - 1 : t[i] = q[i + 1]
    BY <1>1
  <2> HIDE DEF t
  <2>3. DOMAIN t = 1 .. Len(q) - 1
    BY <2>1, LenProperties
  <2>4. t = [i \in DOMAIN t |-> t[i]]
    BY <2>1
  <2> QED BY <2>1, <2>2, <2>3, <2>4
<1> HIDE DEF t
<1>3. IsQueue(t)
  <2>1. Len(q) - 1 \in Nat
    BY <1>1
  <2> QED BY <1>2, <2>1, QueueOfFunction DEF IsRecord
<1>4. \A i \in DOMAIN t : t[i].writes \subseteq Blocks \X Labels
  <2>1. \A i \in 1 .. Len(q) - 1 : i + 1 \in DOMAIN q
    BY <1>1
  <2> QED BY <1>2, <2>1 DEF Typed
<1>5. Head(q).writes \subseteq Blocks \X Labels
  BY <1>1, <1>2 DEF Typed
<1> QED BY <1>3, <1>4, <1>5 DEF Typed, t

\* The image of a finite set under an injective function has its size.
LEMMA ImageOf ==
  ASSUME NEW S, IsFiniteSet(S), NEW f, IsRecord(f, S),
         \A x, y \in S : f[x] = f[y] => x = y
  PROVE  /\ IsFiniteSet({f[x] : x \in S})
         /\ Cardinality({f[x] : x \in S}) = Cardinality(S)
<1> DEFINE T == {f[x] : x \in S}
<1>1. f \in Surjection(S, T) /\ f \in Injection(S, T)
  <2>1. f \in [S -> T]
    BY DEF IsRecord
  <2> QED BY <2>1 DEF Surjection, Injection, IsInjective
<1> HIDE DEF T
<1>2. IsFiniteSet(T) /\ Cardinality(T) = Cardinality(S)
  BY <1>1, FS_Surjection
<1> QED BY <1>2 DEF T

\* A call's number is a label.
LEMMA NextLabel == ASSUME exec.calls \in 0 .. MaxCalls, exec.calls < MaxCalls
                   PROVE  exec.calls + 1 \in Labels /\ exec.calls + 1 \in 0 .. MaxCalls
  BY BoundsAssumption DEF Labels

\* What the work of a call reads and writes: an upload per temporary, the launches,
\* and the copies to the host.
Fill(op, u, blocks, n) ==
  /\ ~op.uploads => u = <<>>
  /\ \A i \in DOMAIN u : \E b \in blocks : u[i].reads = {} /\ u[i].writes = {<<b, n>>}
  /\ op.uploads => \A b \in blocks : \E i \in DOMAIN u : u[i].writes = {<<b, n>>}
Inputs(op, reads, outs, blocks, n) ==
  reads \cup (IF op.inPlace THEN Now(outs) ELSE {})
    \cup (IF op.uploads THEN {<<b, n>> : b \in blocks} ELSE {})
Outputs(op, outs, blocks, n) ==
  {<<b, n>> : b \in outs} \cup (IF op.uploads THEN {} ELSE {<<b, n>> : b \in blocks})
Does(q, inputs, outputs) == \A i \in DOMAIN q : q[i].reads = inputs /\ q[i].writes = outputs
ReadBack(op, r, blocks, n) ==
  /\ ~op.readsBack => r = <<>>
  /\ \A i \in DOMAIN r : \E b \in blocks : r[i].reads = {<<b, n>>} /\ r[i].writes = {}

\* The work of a call is well-formed, and an upload is queued per temporary.
LEMMA UploadsTyped ==
  ASSUME NEW op, NEW blocks \in SUBSET Blocks, NEW n \in Labels
  PROVE  /\ Typed(Uploads(op, blocks, n))
         /\ op.uploads => Len(Uploads(op, blocks, n)) = Cardinality(blocks)
         /\ Fill(op, Uploads(op, blocks, n), blocks, n)
<1>1. CASE op.uploads
  <2> DEFINE f == [b \in blocks |-> Work(<<n, -b>>, NoEvent, {}, {<<b, n>>})]
             S == {f[b] : b \in blocks}
  <2>1. IsFiniteSet(blocks) /\ blocks \subseteq Nat
    BY BlocksFinite DEF Blocks
  <2>2. \A x, y \in blocks : f[x] = f[y] => x = y
    <3> SUFFICES ASSUME NEW x \in blocks, NEW y \in blocks, f[x] = f[y] PROVE x = y
      OBVIOUS
    <3>1. f[x].id = <<n, -x>> /\ f[y].id = <<n, -y>>
      BY DEF Work
    <3>2. <<n, -x>> = <<n, -y>>
      BY <3>1
    <3>3. -x = -y
      BY <3>2
    <3> QED BY <2>1, <3>3
  <2>3. \A b \in blocks : f[b].writes = {<<b, n>>} /\ f[b].reads = {}
    BY DEF Work
  <2>4. Uploads(op, blocks, n) = SetToSeq(S)
    BY <1>1 DEF Uploads
  <2>5. IsRecord(f, blocks)
    BY DEF IsRecord
  <2> HIDE DEF f
  <2>6. IsFiniteSet(S) /\ Cardinality(S) = Cardinality(blocks)
    BY <2>1, <2>2, <2>5, ImageOf
  <2>7. \A w \in S : w.writes \subseteq Blocks \X Labels
    BY <2>3
  <2>8. /\ \A w \in S : \E b \in blocks : w.reads = {} /\ w.writes = {<<b, n>>}
        /\ \A b \in blocks : \E w \in S : w.writes = {<<b, n>>}
    BY <2>3
  <2> DEFINE u == Uploads(op, blocks, n)
  <2> HIDE DEF S, u
  <2>9. /\ IsQueue(u) /\ Len(u) = Cardinality(S)
        /\ \A i \in DOMAIN u : u[i] \in S
        /\ \A w \in S : \E i \in DOMAIN u : u[i] = w
    BY <2>4, <2>6, ListOf DEF u
  <2>10. \A i \in DOMAIN u : \E b \in blocks : u[i].reads = {} /\ u[i].writes = {<<b, n>>}
    BY <2>8, <2>9
  <2>11. \A b \in blocks : \E i \in DOMAIN u : u[i].writes = {<<b, n>>}
    BY <2>8, <2>9
  <2>12. Fill(op, u, blocks, n)
    BY <1>1, <2>10, <2>11 DEF Fill
  <2> QED BY <2>6, <2>7, <2>9, <2>12 DEF Typed, u
<1>2. CASE ~op.uploads
  <2>1. Uploads(op, blocks, n) = <<>> /\ DOMAIN <<>> = {}
    BY <1>2 DEF Uploads
  <2>2. Typed(<<>>)
    BY DEF Typed, IsQueue
  <2>3. Fill(op, <<>>, blocks, n)
    BY <1>2 DEF Fill
  <2> QED BY <1>2, <2>1, <2>2, <2>3
<1> QED BY <1>1, <1>2

\* The copies to the host write nothing on the device.
LEMMA ReadBacksTyped ==
  ASSUME NEW op, NEW blocks \in SUBSET Blocks, NEW n, op.launches \in Nat
  PROVE  /\ Typed(ReadBacks(op, blocks, n))
         /\ ReadBack(op, ReadBacks(op, blocks, n), blocks, n)
<1>1. CASE op.readsBack
  <2> DEFINE f == [b \in blocks |-> Work(<<n, op.launches + b>>, NoEvent, {<<b, n>>}, {})]
             S == {f[b] : b \in blocks}
  <2>1. IsFiniteSet(blocks) /\ blocks \subseteq Nat
    BY BlocksFinite DEF Blocks
  <2>2. \A x, y \in blocks : f[x] = f[y] => x = y
    <3> SUFFICES ASSUME NEW x \in blocks, NEW y \in blocks, f[x] = f[y] PROVE x = y
      OBVIOUS
    <3>1. f[x].id = <<n, op.launches + x>> /\ f[y].id = <<n, op.launches + y>>
      BY DEF Work
    <3>2. <<n, op.launches + x>> = <<n, op.launches + y>>
      BY <3>1
    <3>3. op.launches + x = op.launches + y
      BY <3>2
    <3> QED BY <2>1, <3>3
  <2>3. \A b \in blocks : f[b].writes = {} /\ f[b].reads = {<<b, n>>}
    BY DEF Work
  <2>4. ReadBacks(op, blocks, n) = SetToSeq(S)
    BY <1>1 DEF ReadBacks
  <2>5. IsRecord(f, blocks)
    BY DEF IsRecord
  <2> HIDE DEF f
  <2>6. IsFiniteSet(S)
    BY <2>1, <2>2, <2>5, ImageOf
  <2>7. /\ \A w \in S : w.writes \subseteq Blocks \X Labels
        /\ \A w \in S : \E b \in blocks : w.reads = {<<b, n>>} /\ w.writes = {}
    BY <2>3
  <2> DEFINE u == ReadBacks(op, blocks, n)
  <2> HIDE DEF S, u
  <2>8. IsQueue(u) /\ \A i \in DOMAIN u : u[i] \in S
    BY <2>4, <2>6, ListOf DEF u
  <2>9. \A i \in DOMAIN u : \E b \in blocks : u[i].reads = {<<b, n>>} /\ u[i].writes = {}
    BY <2>7, <2>8
  <2>10. ReadBack(op, u, blocks, n)
    BY <1>1, <2>9 DEF ReadBack
  <2> QED BY <2>7, <2>8, <2>10 DEF Typed, u
<1>2. CASE ~op.readsBack
  <2>1. ReadBacks(op, blocks, n) = <<>> /\ DOMAIN <<>> = {}
    BY <1>2 DEF ReadBacks
  <2>2. Typed(<<>>)
    BY DEF Typed, IsQueue
  <2>3. ReadBack(op, <<>>, blocks, n)
    BY DEF ReadBack
  <2> QED BY <2>1, <2>2, <2>3
<1> QED BY <1>1, <1>2

\* The launches write their outputs and temporaries.
LEMMA LaunchesTyped ==
  ASSUME NEW op, op.launches \in Nat, NEW reads, NEW outs \in SUBSET Blocks,
         NEW blocks \in SUBSET Blocks, NEW n \in Labels
  PROVE  /\ Typed(Launches(op, reads, outs, blocks, n))
         /\ Len(Launches(op, reads, outs, blocks, n)) = op.launches
         /\ Does(Launches(op, reads, outs, blocks, n), Inputs(op, reads, outs, blocks, n),
                Outputs(op, outs, blocks, n))
<1> DEFINE filled == {<<b, n>> : b \in blocks}
           inputs == reads \cup (IF op.inPlace THEN Now(outs) ELSE {})
                       \cup (IF op.uploads THEN filled ELSE {})
           writes == {<<b, n>> : b \in outs} \cup (IF op.uploads THEN {} ELSE filled)
           q == Launches(op, reads, outs, blocks, n)
<1>1. writes \subseteq Blocks \X Labels
  OBVIOUS
<1>2. q = [k \in 1 .. op.launches |-> Work(<<n, k>>, NoEvent, inputs, writes)]
  BY DEF Launches
<1> HIDE DEF q, inputs, writes
<1>3. IsRecord(q, 1 .. op.launches) /\ DOMAIN q = 1 .. op.launches
  BY <1>2 DEF IsRecord
<1>4. \A k \in DOMAIN q : q[k].reads = inputs /\ q[k].writes = writes
  BY <1>2 DEF Work
<1>5. IsQueue(q) /\ Len(q) = op.launches
  BY <1>3, QueueOfFunction
<1>6. Typed(q)
  BY <1>1, <1>4, <1>5 DEF Typed
<1>7. Does(q, inputs, writes)
  BY <1>4 DEF Does
<1>8. inputs = Inputs(op, reads, outs, blocks, n) /\ writes = Outputs(op, outs, blocks, n)
  BY DEF inputs, writes, Inputs, Outputs
<1> QED BY <1>5, <1>6, <1>7, <1>8 DEF q

\* Every operation launches its kernels some number of times.
LEMMA OperationsLaunch == \A op \in Operations : op.launches \in Nat
<1>1. \A n : /\ IsRecord(Kernel(n), DOMAIN Kernel(n)) /\ "launches" \in DOMAIN Kernel(n)
             /\ Kernel(n).launches = 1
  BY DEF Kernel, IsRecord
<1> USE DEF IsRecord
<1>2. /\ Matmul.launches = 1 /\ MatmulExpert.launches = 1
      /\ "launches" \in DOMAIN MatmulExpert
  BY <1>1 DEF Matmul, MatmulExpert
<1>3. MatmulInt8Expert.launches = 1
  BY <1>2 DEF MatmulInt8Expert
<1>4. Add.launches = 2 /\ Mul.launches = 1 /\ RmsNorm.launches = 1 /\ ApplyActivation.launches = 1
  BY <1>1 DEF Add, Mul, RmsNorm, ApplyActivation
<1>5. ApplyRoPE.launches = 1 /\ CausalAttention.launches = 1 /\ Zero.launches = 1
  BY <1>1 DEF ApplyRoPE, CausalAttention, Zero
<1>6. RouteTopK.launches = 1
  BY <1>1 DEF RouteTopK
<1>7. GatherRows.launches = 1 /\ "launches" \in DOMAIN GatherRows
  BY <1>1 DEF GatherRows
<1>8. ScatterAddRows.launches = 1
  BY <1>7 DEF ScatterAddRows
<1> QED BY <1>2, <1>3, <1>4, <1>5, <1>6, <1>7, <1>8 DEF Operations

\* Whatever part of its work a call has queued, it is well-formed.
LEMMA IssuedTyped ==
  ASSUME NEW op \in Operations, NEW ins, NEW outs \in SUBSET Blocks, NEW views, NEW s,
         s.blocks \subseteq Blocks, exec.calls + 1 \in Labels,
         NEW items, Issued(op, ins, outs, views, s, items)
  PROVE  Typed(items)
<1> DEFINE n == exec.calls + 1
           uploads == Uploads(op, s.blocks, n)
           launches == Launches(op, Now(ins) \cup views, outs, s.blocks, n)
           alone == Launches(op, Now(ins), outs, s.blocks, n)
           backs == ReadBacks(op, s.blocks, n)
<1>0. n \in Labels /\ op.launches \in Nat
  BY OperationsLaunch
<1> HIDE DEF n
<1>1. Typed(uploads) /\ (op.uploads => Len(uploads) = Cardinality(s.blocks))
  BY <1>0, UploadsTyped
<1>2. Typed(launches) /\ Len(launches) = op.launches
  BY <1>0, LaunchesTyped
<1>3. Typed(backs)
  BY <1>0, ReadBacksTyped
<1>4. Typed(alone)
  BY <1>0, LaunchesTyped
<1>5. \/ items = (uploads \o launches) \o backs
      \/ \E k \in 0 .. op.launches : items = uploads \o SubSeq(launches, 1, k)
      \/ /\ op.uploads /\ Cardinality(s.blocks) = op.scratch
         /\ \E k \in 0 .. op.scratch : items = SubSeq(uploads, 1, k)
      \/ items = alone
  BY DEF Issued, n
<1> HIDE DEF uploads, launches, backs, alone
<1>6. CASE items = (uploads \o launches) \o backs
  <2>1. Typed(uploads \o launches)
    BY <1>1, <1>2, TypedConcat
  <2> QED BY <1>3, <1>6, <2>1, TypedConcat
<1>7. ASSUME NEW k \in 0 .. op.launches, items = uploads \o SubSeq(launches, 1, k)
      PROVE  Typed(items)
  <2>1. Typed(SubSeq(launches, 1, k))
    BY <1>2, <1>7, TypedPrefix
  <2> QED BY <1>1, <1>7, <2>1, TypedConcat
<1>8. ASSUME op.uploads, Cardinality(s.blocks) = op.scratch,
             NEW k \in 0 .. op.scratch, items = SubSeq(uploads, 1, k)
      PROVE  Typed(items)
  BY <1>1, <1>8, TypedPrefix
<1>9. CASE items = alone
  BY <1>4, <1>9
<1> QED BY <1>5, <1>6, <1>7, <1>8, <1>9

Pcs == {"idle", "syncing", "aborting", "copying", "barrier", "closing", "closed"}

\* The part of the type invariant that is not about the heap.
Types ==
  /\ holds \in [Blocks -> Labels] /\ written \subseteq tensors
  /\ IsRecord(streams, Streams) /\ \A s \in Streams : Typed(streams[s])
  /\ exec.pc \in Pcs /\ exec.calls \in 0 .. MaxCalls
  /\ faults \in 0 .. MaxFaults

\* A heap's capacities and statistics fit the device.
LEMMA HeapTypes ==
  ASSUME NEW h, HeapOK(h)
  PROVE  /\ \A b \in Blocks : h.capacity[b] \in 0 .. DeviceBytes /\ h.capacity[b] % Alignment = 0
         /\ \A p \in Pools :
              /\ h.pool[p].active \subseteq Blocks /\ ToSet(h.pool[p].free) \subseteq Blocks
              /\ {h.pool[p].allocatedBytes, h.pool[p].activeBytes,
                  h.pool[p].freeBytes} \subseteq 0 .. DeviceBytes
<1> DEFINE c == h.capacity
           A == Allocated(h)
<1>1. /\ c \in [Blocks -> Nat] /\ SumOver(c, A) <= DeviceBytes /\ DeviceBytes \in Nat
      /\ \A b \in Blocks : c[b] % Alignment = 0
      /\ A \in SUBSET Blocks
  BY DeviceAssumption DEF HeapOK, HeapShape, Allocated
<1>2. SumOver(c, A) \in Nat /\ \A S \in SUBSET A : SumOver(c, S) \in Nat
  BY <1>1, SumsOfBlocks
<1>3. \A S \in SUBSET A : SumOver(c, S) <= SumOver(c, A)
  <2>1. IsFiniteSet(A) /\ \A b \in A : c[b] \in Nat
    BY <1>1, BlocksFinite
  <2> HIDE DEF c, A
  <2> QED BY <2>1, SumMonotonic
<1>4. ASSUME NEW b \in Blocks PROVE c[b] \in 0 .. DeviceBytes
  <2>1. CASE b \in A
    <3>1. SumOver(c, A) = c[b] + SumOver(c, A \ {b}) /\ SumOver(c, A \ {b}) \in Nat
      BY <1>1, <1>2, <2>1, SumsOfBlocks
    <3> QED BY <1>1, <1>2, <3>1
  <2>2. CASE b \notin A
    BY <1>1, <2>2 DEF Allocated
  <2> QED BY <2>1, <2>2
<1>5. ASSUME NEW p \in Pools
      PROVE  /\ h.pool[p].active \subseteq Blocks /\ ToSet(h.pool[p].free) \subseteq Blocks
             /\ {h.pool[p].allocatedBytes, h.pool[p].activeBytes,
                 h.pool[p].freeBytes} \subseteq 0 .. DeviceBytes
  <2> DEFINE a == h.pool[p].activeBytes
             f == h.pool[p].freeBytes
             X == h.pool[p].active
             F == ToSet(h.pool[p].free)
  <2>1. /\ X \subseteq Blocks /\ F \subseteq Blocks /\ X \cap F = {}
        /\ a = SumOver(c, X) /\ f = SumOver(c, F) /\ a \in Nat /\ f \in Nat
        /\ h.pool[p].allocatedBytes = a + f
        /\ X \cup F \subseteq A
    <3>1. Known(h, p)
      BY PoolFacts
    <3> QED BY <3>1 DEF Known, Held, Allocated
  <2>2. SumOver(c, X \cup F) = a + f
    <3>1. IsFiniteSet(X) /\ IsFiniteSet(F) /\ \A b \in X \cup F : c[b] \in Int
      BY <1>1, <2>1, BlocksFinite
    <3> HIDE DEF X, F, a, f, c
    <3> QED BY <2>1, <3>1, SumUnion
  <2>3. a + f <= DeviceBytes
    <3>1. SumOver(c, X \cup F) <= SumOver(c, A)
      BY <1>3, <2>1
    <3> HIDE DEF X, F, a, f, c, A
    <3> QED BY <1>1, <1>2, <2>1, <2>2, <3>1
  <2>4. a \in 0 .. DeviceBytes /\ f \in 0 .. DeviceBytes /\ a + f \in 0 .. DeviceBytes
    <3>1. a \in Nat /\ f \in Nat
      BY <2>1
    <3> HIDE DEF a, f
    <3> QED BY <1>1, <2>3, <3>1
  <2> QED BY <2>1, <2>4
<1> QED BY <1>1, <1>4, <1>5

\* Blocks that are let go hold nothing to rely on; the others keep their data.
LEMMA ReclaimTypes ==
  ASSUME Types, NEW h, Reclaim(h)
  PROVE  holds' \in [Blocks -> Labels]
<1>1. Unwritten \in Labels
  BY BoundsAssumption DEF Unwritten, Labels
<1> QED BY <1>1 DEF Reclaim, Types

\* Work is put behind a stream's queue.
LEMMA QueueTypes ==
  ASSUME Types, NEW s \in Streams, NEW items, Typed(items), Queue(s, items)
  PROVE  IsRecord(streams', Streams) /\ \A t \in Streams : Typed(streams'[t])
<1>1. IsRecord(streams', Streams)
  BY DEF Queue, Types, IsRecord
<1>2. streams'[s] = streams[s] \o items /\ \A t \in Streams \ {s} : streams'[t] = streams[t]
  BY DEF Queue, Types, IsRecord
<1>3. Typed(streams[s] \o items)
  BY TypedConcat DEF Types
<1> QED BY <1>1, <1>2, <1>3 DEF Types

\* A fault is counted while there are any left.
LEMMA FaultTypes ==
  ASSUME faults \in 0 .. MaxFaults,
         Fault \/ faults' = faults \/ (faults < MaxFaults /\ faults' = faults + 1)
  PROVE  faults' \in 0 .. MaxFaults
  BY BoundsAssumption DEF Fault

\* collect() throws where a CUDA call fails.
LEMMA ChargedTypes ==
  ASSUME faults \in 0 .. MaxFaults, NEW c,
         c \in Collected \/ c = [records |-> pending, threw |-> FALSE], Charged(c)
  PROVE  faults' \in 0 .. MaxFaults
<1> DEFINE Rest(i) == Kept(SubSeq(pending, 1, i - 1)) \o SubSeq(pending, i, Len(pending))
<1>1. \/ c.threw = FALSE
      \/ faults < MaxFaults /\ c.threw = TRUE
  <2>1. \/ c = [records |-> pending, threw |-> FALSE]
        \/ c = [records |-> Kept(pending), threw |-> FALSE]
        \/ faults < MaxFaults /\ \E i \in DOMAIN pending : c = [records |-> Rest(i), threw |-> TRUE]
    BY DEF Collected, MayThrow
  <2> HIDE DEF Rest
  <2> QED BY <2>1
<1> QED BY <1>1, FaultTypes DEF Charged

\* Operations keep the types.
LEMMA OperateTypes == Inv /\ Types /\ Operate => Types'
<1> SUFFICES ASSUME Inv, Types, Operate PROVE Types'
  OBVIOUS
<1>1. PICK op \in Operations, ins \in SUBSET tensors, outs \in SUBSET tensors :
        \E views \in WeightViews(op) : \E c, s :
          Begun(op, ins, outs, views, c, s) /\ Ended(op, ins, outs, views, c, s)
  BY OperateIs
<1>a. PICK views \in WeightViews(op) :
        \E c, s : Begun(op, ins, outs, views, c, s) /\ Ended(op, ins, outs, views, c, s)
  BY <1>1
<1>2. PICK c, s : Begun(op, ins, outs, views, c, s) /\ Ended(op, ins, outs, views, c, s)
  BY <1>a
<1>3. s.blocks \subseteq Blocks
  <2>1. Begun(op, ins, outs, views, c, s) /\ Takeable(op, ins, outs, views)
    BY <1>2 DEF Takeable
  <2> QED BY <2>1, BegunOK
<1>4. exec.calls \in 0 .. MaxCalls /\ exec.calls < MaxCalls
  BY DEF Operate, MayCall, Types
<1>5. exec.calls + 1 \in Labels /\ exec.calls + 1 \in 0 .. MaxCalls
  BY <1>4, NextLabel
<1>6. IsRecord(streams', Streams) /\ \A t \in Streams : Typed(streams'[t])
  <2>1. CASE streams' = streams
    BY <2>1 DEF Types
  <2>2. CASE \E items : Issued(op, ins, outs, views, s, items) /\ Queue("compute", items)
    <3>1. PICK items : Issued(op, ins, outs, views, s, items) /\ Queue("compute", items)
      BY <2>2
    <3>2. outs \in SUBSET Blocks
      BY DEF Inv, Shapes
    <3>3. Typed(items)
      BY <1>3, <1>5, <3>1, <3>2, IssuedTyped
    <3>4. "compute" \in Streams
      BY DEF Streams
    <3> QED BY <3>1, <3>3, <3>4, QueueTypes
  <2> QED BY <1>2, <2>1, <2>2 DEF Ended
<1>7. exec'.pc \in Pcs /\ exec'.calls = exec.calls + 1
  BY <1>2 DEF Ended, Finish, Pcs
<1>8. faults' \in 0 .. MaxFaults
  <2>1. Charged(c) \/ Fault
    BY <1>2 DEF Ended
  <2>2. c \in Collected \/ c = [records |-> pending, threw |-> FALSE]
    BY <1>2 DEF Begun
  <2>3. faults \in 0 .. MaxFaults
    BY DEF Types
  <2> QED BY <2>1, <2>2, <2>3, ChargedTypes, FaultTypes
<1>9. holds' \in [Blocks -> Labels]
  BY <1>2, ReclaimTypes DEF Ended
<1>10. written' \subseteq tensors'
  BY <1>2 DEF Ended, Types
<1> QED BY <1>5, <1>6, <1>7, <1>8, <1>9, <1>10 DEF Types

\* So do the ends of the executor's waits.
LEMMA EndsTypes ==
  ASSUME Inv, Types, AbortEnds \/ SyncEnds \/ CopyEnds \/ BarrierEnds
  PROVE  Types'
<1>1. /\ exec' = [exec EXCEPT !.pc = "idle", !.owners = {}]
      /\ UNCHANGED <<written, streams, tensors>> /\ Reclaim(heap)
  BY DEF AbortEnds, SyncEnds, CopyEnds, BarrierEnds, Return
<1>2. faults' = faults \/ \E c \in Collected : Charged(c)
  BY DEF AbortEnds, SyncEnds, CopyEnds, BarrierEnds
<1>3. faults' \in 0 .. MaxFaults
  BY <1>2, ChargedTypes DEF Types
<1>4. holds' \in [Blocks -> Labels]
  BY <1>1, ReclaimTypes
<1>5. exec'.pc = "idle" /\ exec'.calls = exec.calls
  BY <1>1 DEF Inv, Shapes, IsRecord
<1> QED BY <1>1, <1>3, <1>4, <1>5 DEF Types, Pcs

\* Copies write one tensor at most.
LEMMA CopyTypes == ASSUME Inv, Types, Copy \/ Synchronize PROVE Types'
<1>1. CASE Synchronize
  <2>1. /\ exec.calls < MaxCalls /\ Finish("syncing", {})
        /\ UNCHANGED <<holds, written, streams, tensors, faults>>
    BY <1>1 DEF Synchronize, MayCall
  <2>2. exec'.pc = "syncing" /\ exec'.calls \in 0 .. MaxCalls
    BY <2>1, NextLabel DEF Finish, Types
  <2> QED BY <2>1, <2>2 DEF Types, Pcs
<1>2. CASE Copy
  <2>1. PICK ins \in SUBSET tensors, outs \in SUBSET tensors :
          CopyTensor(ins, outs) \/ FailCopy(ins, outs)
    BY <1>2 DEF Copy
  <2> DEFINE n == exec.calls + 1
             w == CopyAfter(RecordEvent(streams["compute"]), ins, outs, n)
  <2>2. /\ exec.calls < MaxCalls
        /\ Finish("copying", ins \cup outs) \/ Finish("barrier", ins \cup outs)
        /\ \/ Queue("copy", <<w>>) /\ written' = written \cup outs
           \/ UNCHANGED <<streams, written>>
        /\ UNCHANGED <<holds, tensors>>
        /\ faults' = faults \/ Fault
    BY <1>2, <2>1 DEF Copy, CopyTensor, FailCopy, MayCall
  <2>3. exec'.pc \in Pcs /\ exec'.calls \in 0 .. MaxCalls /\ n \in Labels
    BY <2>2, NextLabel DEF Finish, Types, Pcs
  <2>4. faults' \in 0 .. MaxFaults
    BY <2>2, FaultTypes DEF Types
  <2>5. IsRecord(streams', Streams) /\ \A t \in Streams : Typed(streams'[t])
    <3>1. CASE Queue("copy", <<w>>)
      <4>1. w.writes \subseteq Blocks \X Labels
        BY <2>3 DEF CopyAfter, Work, Inv, Shapes
      <4> HIDE DEF w
      <4>2. Typed(<<w>>)
        BY <4>1, TypedSingle
      <4>3. "copy" \in Streams
        BY DEF Streams
      <4> QED BY <3>1, <4>2, <4>3, QueueTypes
    <3>2. CASE streams' = streams
      BY <3>2 DEF Types
    <3> QED BY <2>2, <3>1, <3>2
  <2> HIDE DEF w, n
  <2> QED BY <2>2, <2>3, <2>4, <2>5 DEF Types
<1> QED BY <1>1, <1>2

\* Tensors and the teardown.
LEMMA RestTypes ==
  ASSUME Inv, Types, \/ \E size \in TensorSizes : AllocateTensor(size)
                     \/ \E b \in Blocks : DropTensor(b)
                     \/ CloseTransfers \/ CloseBackend
  PROVE  Types'
<1>1. CASE \E size \in TensorSizes : AllocateTensor(size)
  <2>1. tensors \subseteq tensors' /\ UNCHANGED <<holds, written, streams, exec, faults>>
    BY <1>1 DEF AllocateTensor
  <2> QED BY <2>1 DEF Types
<1>2. CASE \E b \in Blocks : DropTensor(b)
  <2>1. PICK b \in Blocks : DropTensor(b)
    BY <1>2
  <2>2. /\ tensors' = tensors \ {b} /\ written' = written \ {b}
        /\ UNCHANGED <<streams, exec, faults>> /\ Reclaim(heap)
    BY <2>1 DEF DropTensor
  <2>3. holds' \in [Blocks -> Labels]
    BY <2>2, ReclaimTypes
  <2> QED BY <2>2, <2>3 DEF Types
<1>3. CASE CloseTransfers \/ CloseBackend
  <2>1. /\ exec' = [exec EXCEPT !.pc = "closing"] \/ exec' = [exec EXCEPT !.pc = "closed"]
        /\ UNCHANGED <<holds, written, streams, tensors, faults>>
    BY <1>3 DEF CloseTransfers, CloseBackend
  <2>2. exec'.pc \in Pcs /\ exec'.calls = exec.calls
    BY <2>1 DEF Inv, Shapes, IsRecord, Pcs
  <2> QED BY <2>1, <2>2 DEF Types
<1> QED BY <1>1, <1>2, <1>3

\* Transfers write the expert's weights into their block.
LEMMA TransfersTypes == ASSUME Inv, Types, Transfers PROVE Types'
<1>1. ASSUME NEW c \in Copiers, NEW e \in Experts, StartTransfer(c, e) PROVE Types'
  <2> DEFINE a == Acquire(heap, "transfer", ExpertSize)
             w == Work(Transfer(c), NoEvent, {}, {<<a.block, e>>})
  <2>1. /\ a.block # NoBlock /\ Queue(c, <<w>>)
        /\ UNCHANGED <<holds, written, tensors, exec, faults>>
    BY <1>1 DEF StartTransfer
  <2>2. a.block \in Blocks
    <3>1. HeapOK(heap) /\ ExpertSize \in Nat \ {0} /\ "transfer" \in Pools
      BY DeviceAssumption DEF Inv, Owns, Pools
    <3> QED BY <2>1, <3>1, AcquireOK
  <2>3. w.writes \subseteq Blocks \X Labels
    <3> HIDE DEF a
    <3> QED BY <2>2 DEF Work, Labels
  <2> HIDE DEF w
  <2>4. Typed(<<w>>)
    BY <2>3, TypedSingle
  <2>5. IsRecord(streams', Streams) /\ \A t \in Streams : Typed(streams'[t])
    BY <2>1, <2>4, QueueTypes DEF Streams
  <2> QED BY <2>1, <2>5 DEF Types
<1>2. ASSUME NEW c \in Copiers, NEW e \in Experts, FailTransfer(c, e) PROVE Types'
  <2>1. /\ Fault /\ UNCHANGED <<written, streams, tensors, exec>> /\ \E h : Reclaim(h)
    BY <1>2 DEF FailTransfer
  <2> QED BY <2>1, ReclaimTypes, FaultTypes DEF Types
<1>3. CASE \/ \E c \in Copiers, adopt \in BOOLEAN : FinishTransfer(c, adopt)
           \/ \E e \in Experts : Evict(e)
  <2>1. UNCHANGED <<written, streams, tensors, exec, faults>> /\ Reclaim(heap)
    BY <1>3 DEF FinishTransfer, Evict
  <2> QED BY <2>1, ReclaimTypes DEF Types
<1> QED BY <1>1, <1>2, <1>3 DEF Transfers

\* Work that runs labels the blocks it writes.
LEMMA RunTypes == ASSUME Types, NEW s \in Streams, RunItem(s) PROVE Types'
<1>1. /\ streams[s] # <<>> /\ Typed(streams[s])
      /\ streams' = [streams EXCEPT ![s] = Tail(streams[s])]
      /\ UNCHANGED <<written, tensors, exec, faults>>
  BY DEF RunItem, Runnable, Types
<1>2. Typed(Tail(streams[s])) /\ Head(streams[s]).writes \subseteq Blocks \X Labels
  BY <1>1, TypedTail
<1>3. IsRecord(streams', Streams) /\ \A t \in Streams : Typed(streams'[t])
  BY <1>1, <1>2 DEF Types, IsRecord
<1>4. holds' \in [Blocks -> Labels]
  <2> DEFINE W == Head(streams[s]).writes
             New(b) == {x \in W : x[1] = b}
             Value(b) == IF New(b) = {} THEN holds[b] ELSE (CHOOSE x \in New(b) : TRUE)[2]
  <2>1. holds' = [b \in Blocks |-> Value(b)]
    BY DEF RunItem
  <2>2. \A b \in Blocks : Value(b) \in Labels
    <3> SUFFICES ASSUME NEW b \in Blocks PROVE Value(b) \in Labels
      OBVIOUS
    <3>1. CASE New(b) = {}
      BY <3>1 DEF Types
    <3>2. CASE New(b) # {}
      <4>1. (CHOOSE x \in New(b) : TRUE) \in Blocks \X Labels
        BY <1>2, <3>2
      <4> QED BY <3>2, <4>1
    <3> QED BY <3>1, <3>2
  <2> HIDE DEF Value
  <2> QED BY <2>1, <2>2
<1> QED BY <1>1, <1>3, <1>4 DEF Types

\* Types holds in every state.
THEOREM TypesHold == Spec => []Types
<1>1. Init => Types
  <2> SUFFICES ASSUME Init PROVE Types
    OBVIOUS
  <2>1. 0 \in 0 .. MaxCalls /\ 0 \in 0 .. MaxFaults /\ 0 \in Labels
    BY BoundsAssumption DEF Labels
  <2>2. Typed(<<>>)
    BY DEF Typed, IsQueue
  <2>3. IsRecord(streams, Streams) /\ \A s \in Streams : streams[s] = <<>>
    BY DEF Init, IsRecord
  <2>4. holds \in [Blocks -> Labels] /\ written \subseteq tensors
    BY <2>1 DEF Init, Unwritten
  <2>5. exec.pc = "idle" /\ exec.calls = 0 /\ faults = 0
    BY DEF Init, Idle
  <2> QED BY <2>1, <2>2, <2>3, <2>4, <2>5 DEF Types, Pcs
<1>2. Inv /\ Types /\ [Next]_vars => Types'
  <2> SUFFICES ASSUME Inv, Types, [Next]_vars PROVE Types'
    OBVIOUS
  <2>1. CASE Executor
    BY <2>1, OperateTypes, EndsTypes, CopyTypes, RestTypes DEF Executor
  <2>2. CASE Transfers
    BY <2>2, TransfersTypes
  <2>3. CASE \E s \in Streams : RunItem(s)
    BY <2>3, RunTypes
  <2>4. CASE \E b \in Blocks : Refuse(b)
    <3>1. UNCHANGED <<holds, written, streams, tensors, exec>> /\ Fault
      BY <2>4 DEF Refuse
    <3>2. faults' \in 0 .. MaxFaults
      BY <3>1, FaultTypes DEF Types
    <3> QED BY <3>1, <3>2 DEF Types
  <2>5. CASE UNCHANGED vars
    BY <2>5 DEF vars, Types
  <2> QED BY <2>1, <2>2, <2>3, <2>4, <2>5 DEF Next
<1> QED BY <1>1, <1>2, Invariance, PTL DEF Spec

\* Type correctness: the pools' counters stay within the device's bytes and
\* never wrap, and every queued write is a label for a block.
THEOREM TypeCorrect == Spec => []TypeOK
<1>1. Inv /\ Types => TypeOK
  <2> SUFFICES ASSUME Inv, Types PROVE TypeOK
    OBVIOUS
  <2>1. HeapOK(heap) /\ Active(heap) = References
    BY DEF Inv, Owns
  <2>2. exec.owners \subseteq Blocks
    <3>1. Active(heap) \subseteq Blocks
      BY <2>1, PoolFacts DEF Active, Known, Pools
    <3> QED BY <2>1, <3>1 DEF References
  <2>3. /\ \A b \in Blocks : heap.capacity[b] \in 0 .. DeviceBytes /\ heap.capacity[b] % Alignment = 0
        /\ \A p \in Pools :
             /\ heap.pool[p].active \subseteq Blocks /\ ToSet(heap.pool[p].free) \subseteq Blocks
             /\ {heap.pool[p].allocatedBytes, heap.pool[p].activeBytes,
                 heap.pool[p].freeBytes} \subseteq 0 .. DeviceBytes
    BY <2>1, HeapTypes
  <2>4. heap.refused \subseteq Blocks
    BY <2>1 DEF HeapOK, HeapShape
  <2> QED BY <2>2, <2>3, <2>4 DEF TypeOK, Types, Typed, Pcs, Inv, Shapes
<1> QED BY <1>1, Invariance, TypesHold, PTL

-----------------------------------------------------------------------------
(* What the work in a queue finds, told of any queue and any contents d of *)
(* the blocks.                                                              *)

\* After the first n items of q block x[1] holds x[2]: an item wrote it there, or it
\* was there, and whoever writes the block later writes the same.
Leaves(d, q, n, x) ==
  \E j \in 0 .. n :
    /\ j = 0 => d[x[1]] = x[2]
    /\ j # 0 => x \in q[j].writes
    /\ \A k \in 1 .. n : k >= j => \A y \in q[k].writes : y[1] = x[1] => y[2] = x[2]

\* Block b is kept for item i: by the call that waits for the stream, or by the
\* record of an event at or behind the item.
KeptFor(q, records, call, i, b) ==
  \/ call.pc \in {"syncing", "aborting"} /\ b \in call.owners
  \/ \E r \in ToSet(records) :
       b \in r.owners /\ \E j \in DOMAIN q : j >= i /\ q[j].id = r.event

\* An item of the backend writes one label, and into no block of the transfers' pool.
Tidy(w, h) ==
  /\ \A y, z \in w.writes : y[2] = z[2]
  /\ \A y \in w.writes : y[1] \notin Held(h, "transfer")

\* What each item of the compute stream reads is kept for it, and the items before it
\* leave there what it is to read.
ComputeSound(q, d, h, records, call) ==
  \A i \in DOMAIN q :
    /\ Tidy(q[i], h)
    /\ \A x \in q[i].reads :
         x[1] \in Blocks /\ Leaves(d, q, i - 1, x) /\ KeptFor(q, records, call, i, x[1])

\* At most one copy is queued; its call owns what it touches, and it waits for the last
\* of the compute work there was.
CopySound(copy, q, d, h, call) ==
  copy # <<>> =>
    /\ call.pc \in {"copying", "barrier"} /\ Len(copy) = 1
    /\ call.pc = "copying" => copy[1].id = <<call.calls, 1>>
    /\ q # <<>> => copy[1].after = q[Len(q)].id
    /\ Tidy(copy[1], h)
    /\ \A x \in copy[1].reads : Leaves(d, q, Len(q), x)
    /\ BlocksOf(copy[1].reads \cup copy[1].writes) \subseteq call.owners

\* A block being filled is its transfer's alone, until the copy has run and it holds
\* the expert.
TransferSound(st, d, h, owned, w, cp) ==
  \A c \in Copiers :
    /\ st[c] # <<>> =>
         /\ cp[c].block # NoBlock
         /\ st[c] = <<Work(Transfer(c), NoEvent, {}, {<<cp[c].block, cp[c].expert>>})>>
    /\ cp[c].block # NoBlock =>
         /\ cp[c].block \in h.pool["transfer"].active
         /\ st[c] = <<>> => d[cp[c].block] = cp[c].expert
         /\ cp[c].block \notin owned
         /\ \A e \in Experts : w[e] # cp[c].block
         /\ \A o \in Copiers \ {c} : cp[o].block # cp[c].block

\* Resident weights hold their expert; tensors are of the backend's pool.
DataSound(d, h, w, ts) ==
  /\ \A e \in Experts : w[e] # NoBlock => w[e] \in h.pool["transfer"].active /\ d[w[e]] = e
  /\ ts \subseteq h.pool["tensor"].active

Ordered ==
  /\ ComputeSound(streams["compute"], holds, heap, pending, exec)
  /\ CopySound(streams["copy"], streams["compute"], holds, heap, exec)
  /\ TransferSound(streams, holds, heap, exec.owners \cup Owned(pending), weights, copier)
  /\ DataSound(holds, heap, weights, tensors)

\* The invariant of the next state, told of its values.
LEMMA OrderedNext ==
  ASSUME /\ ComputeSound(streams'["compute"], holds', heap', pending', exec')
         /\ CopySound(streams'["copy"], streams'["compute"], holds', heap', exec')
         /\ TransferSound(streams', holds', heap', exec'.owners \cup Owned(pending'), weights', copier')
         /\ DataSound(holds', heap', weights', tensors')
  PROVE  Ordered'
BY DEF Ordered, ComputeSound, CopySound, TransferSound, DataSound, Leaves, KeptFor, Tidy, Held,
       BlocksOf, Owned

\* The indices of a queue.
LEMMA QueueFacts ==
  ASSUME NEW q, IsQueue(q)
  PROVE  /\ Len(q) \in Nat /\ DOMAIN q = 1 .. Len(q)
         /\ q = <<>> <=> Len(q) = 0
BY LenProperties, EmptySeq DEF IsQueue

\* Only the block's own contents and writers matter.
LEMMA LeavesStays ==
  ASSUME NEW d, NEW e, NEW q, NEW n, NEW x, Leaves(d, q, n, x), e[x[1]] = d[x[1]]
  PROVE  Leaves(e, q, n, x)
BY DEF Leaves

\* The compute stream through a step that does not queue or run its work.
LEMMA ComputeStays ==
  ASSUME NEW q, NEW d, NEW h, NEW records, NEW call, ComputeSound(q, d, h, records, call),
         NEW e, NEW g, NEW kept, NEW next,
         \A i \in DOMAIN q : \A b \in Blocks : KeptFor(q, records, call, i, b) =>
           KeptFor(q, kept, next, i, b) /\ e[b] = d[b],
         \A i \in DOMAIN q : \A y \in q[i].writes :
           y[1] \in Held(g, "transfer") => y[1] \in Held(h, "transfer")
  PROVE  ComputeSound(q, e, g, kept, next)
<1> SUFFICES ASSUME NEW i \in DOMAIN q
             PROVE  /\ Tidy(q[i], g)
                    /\ \A x \in q[i].reads : /\ x[1] \in Blocks /\ Leaves(e, q, i - 1, x)
                                             /\ KeptFor(q, kept, next, i, x[1])
  BY DEF ComputeSound
<1>1. /\ Tidy(q[i], h)
      /\ \A x \in q[i].reads : /\ x[1] \in Blocks /\ Leaves(d, q, i - 1, x)
                               /\ KeptFor(q, records, call, i, x[1])
  BY DEF ComputeSound
<1>2. Tidy(q[i], g)
  BY <1>1 DEF Tidy
<1> QED BY <1>1, <1>2, LeavesStays

\* The copy stream through a step that leaves both queues and the call alone.
LEMMA CopyStays ==
  ASSUME NEW copy, NEW q, NEW d, NEW h, NEW call, CopySound(copy, q, d, h, call),
         NEW e, NEW g,
         \A b \in call.owners : e[b] = d[b],
         copy # <<>> => \A y \in copy[1].writes :
           y[1] \in Held(g, "transfer") => y[1] \in Held(h, "transfer")
  PROVE  CopySound(copy, q, e, g, call)
<1> SUFFICES ASSUME copy # <<>> PROVE CopySound(copy, q, e, g, call)
  BY DEF CopySound
<1>1. \A x \in copy[1].reads : x[1] \in call.owners /\ Leaves(d, q, Len(q), x)
  BY DEF CopySound, BlocksOf
<1>2. \A x \in copy[1].reads : Leaves(e, q, Len(q), x)
  BY <1>1, LeavesStays
<1>3. Tidy(copy[1], g)
  BY DEF CopySound, Tidy
<1> QED BY <1>2, <1>3 DEF CopySound

\* The two pools have no block in common, and what is in use is allocated.
LEMMA PoolSides ==
  ASSUME NEW h, HeapOK(h)
  PROVE  /\ Held(h, "tensor") \cap Held(h, "transfer") = {}
         /\ Active(h) = h.pool["tensor"].active \cup h.pool["transfer"].active
         /\ Active(h) \subseteq Blocks
         /\ h.pool["tensor"].active \subseteq Held(h, "tensor")
         /\ h.pool["transfer"].active \subseteq Held(h, "transfer")
         /\ \A b \in Active(h) : h.capacity[b] # 0
<1>1. "tensor" \in Pools /\ "transfer" \in Pools /\ "tensor" # "transfer"
  BY DEF Pools
<1>2. Held(h, "tensor") \cap Held(h, "transfer") = {}
  BY <1>1 DEF HeapOK
<1>3. Known(h, "tensor") /\ Known(h, "transfer")
  BY <1>1, PoolFacts
<1> QED BY <1>2, <1>3 DEF Known, Held, Active

\* What is referred to keeps its contents and its place.
LEMMA ReclaimFacts ==
  ASSUME NEW h, HeapOK(h), Reclaim(h)
  PROVE  /\ \A b \in Blocks : b \in References' => holds'[b] = holds[b]
         /\ \A p \in Pools : /\ heap'.pool[p].active = h.pool[p].active \cap References'
                             /\ Held(heap', p) \subseteq Held(h, p)
<1>1. heap' = Reclaimed(h, References')
  BY DEF Reclaim
<1>2. LetsGo(heap', h, Active(h) \ References')
  BY <1>1, ReclaimedOK
<1>3. \A p \in Pools : h.pool[p].active \subseteq Active(h)
  BY DEF Pools, Active
<1>4. \A b \in Blocks : b \in References' => holds'[b] = holds[b]
  BY DEF Reclaim
<1> QED BY <1>2, <1>3, <1>4 DEF LetsGo

\* A block that is kept is owned.
LEMMA KeptOwned ==
  ASSUME NEW q, NEW records, NEW call, NEW i, NEW b, KeptFor(q, records, call, i, b)
  PROVE  b \in call.owners \cup Owned(records)
BY DEF KeptFor, Owned, ToSet

\* collect() keeps the records of unfinished operations.
LEMMA KeptAll ==
  ASSUME NEW S, NEW s \in Seq(S)
  PROVE  \A i \in 1 .. Len(s) : Unfinished(s[i]) => s[i] \in ToSet(Kept(s))
<1> DEFINE m == Len(s)
           f == CHOOSE x : Keeps(x, s, m)
<1>0. m \in Nat /\ \A n \in 1 .. m : s[n] \in S
  BY LenProperties, ElementOfSeq
<1>1. Kept(s) = f[m]
  BY DEF Kept, Keeps
<1>2. Keeps(f, s, m)
  BY <1>0, KeepsExist
<1> HIDE DEF f, m
<1>3. /\ f[0] = <<>>
      /\ \A n \in 1 .. m :
           f[n] = IF Unfinished(s[n]) THEN Append(f[n - 1], s[n]) ELSE f[n - 1]
  <2> DEFINE More(n) == IF Unfinished(s[n]) THEN Append(f[n - 1], s[n]) ELSE f[n - 1]
  <2>1. f = [n \in 0 .. m |-> IF n = 0 THEN <<>> ELSE More(n)]
    BY <1>2 DEF Keeps
  <2> HIDE DEF More
  <2>2. f[0] = <<>> /\ \A n \in 1 .. m : f[n] = More(n)
    BY <1>0, <2>1
  <2> QED BY <2>2 DEF More
<1> DEFINE Good(n) == /\ f[n] \in Seq(S)
                      /\ \A i \in 1 .. n : Unfinished(s[i]) => s[i] \in ToSet(f[n])
           P == {n \in Nat : n <= m => Good(n)}
<1>4. 0 \in P
  <2>1. f[0] \in Seq(S) /\ \A i \in 1 .. 0 : FALSE
    BY <1>3
  <2> QED BY <2>1
<1>5. ASSUME NEW n \in Nat, n \in P PROVE n + 1 \in P
  <2> SUFFICES ASSUME n + 1 <= m PROVE Good(n + 1)
    OBVIOUS
  <2>1. f[n] \in Seq(S) /\ s[n + 1] \in S
        /\ \A i \in 1 .. n : Unfinished(s[i]) => s[i] \in ToSet(f[n])
    BY <1>0, <1>5
  <2>2. f[n + 1] = IF Unfinished(s[n + 1]) THEN Append(f[n], s[n + 1]) ELSE f[n]
    <3>1. n + 1 \in 1 .. m /\ (n + 1) - 1 = n
      BY <1>0
    <3> QED BY <1>3, <3>1
  <2>3. \A i \in 1 .. n + 1 : i \in 1 .. n \/ i = n + 1
    OBVIOUS
  <2>4. CASE Unfinished(s[n + 1])
    <3> DEFINE t == Append(f[n], s[n + 1])
    <3>1. /\ t \in Seq(S) /\ DOMAIN t = 1 .. Len(f[n]) + 1 /\ DOMAIN f[n] = 1 .. Len(f[n])
          /\ Len(f[n]) \in Nat /\ t[Len(f[n]) + 1] = s[n + 1]
          /\ \A j \in 1 .. Len(f[n]) : t[j] = f[n][j]
      BY <2>1, AppendProperties, LenProperties
    <3> HIDE DEF t
    <3>2. ToSet(f[n]) \subseteq ToSet(t) /\ s[n + 1] \in ToSet(t)
      <4>1. ToSet(f[n]) \subseteq ToSet(t) /\ t[Len(f[n]) + 1] \in ToSet(t)
        BY <3>1, ExtendedSet
      <4> QED BY <3>1, <4>1
    <3>3. f[n + 1] = t
      BY <2>2, <2>4 DEF t
    <3> QED BY <2>1, <2>3, <3>1, <3>2, <3>3
  <2>5. CASE ~Unfinished(s[n + 1])
    <3>1. f[n + 1] = f[n]
      BY <2>2, <2>5
    <3> QED BY <2>1, <2>3, <2>5, <3>1
  <2> QED BY <2>4, <2>5
<1>6. \A n \in Nat : n \in P
  <2> HIDE DEF P
  <2> QED BY <1>4, <1>5, NatSetInduction
<1>7. Good(m)
  BY <1>0, <1>6
<1> QED BY <1>1, <1>7 DEF m

\* Whether or not it throws.
LEMMA CollectKeeps ==
  ASSUME IsQueue(pending), NEW c \in Collected, NEW r \in ToSet(pending), Unfinished(r)
  PROVE  r \in ToSet(c.records)
<1> DEFINE S == ToSet(pending)
           Before(i) == SubSeq(pending, 1, i - 1)
           Behind(i) == SubSeq(pending, i, Len(pending))
           Rest(i) == Kept(Before(i)) \o Behind(i)
<1>1. /\ pending \in Seq(S) /\ Len(pending) \in Nat
      /\ DOMAIN pending = 1 .. Len(pending)
      /\ \A j \in 1 .. Len(pending) : pending[j] \in S
  BY LenProperties, ElementOfSeq DEF IsQueue
<1>2. PICK j \in 1 .. Len(pending) : r = pending[j]
  BY <1>1 DEF ToSet
<1> HIDE DEF S
<1>3. CASE c = [records |-> Kept(pending), threw |-> FALSE]
  BY <1>1, <1>2, <1>3, KeptAll
<1>4. ASSUME NEW i \in 1 .. Len(pending), c.records = Rest(i)
      PROVE  r \in ToSet(c.records)
  <2>1. /\ Before(i) \in Seq(S) /\ Len(Before(i)) = i - 1
        /\ \A k \in 1 .. i - 1 : Before(i)[k] = pending[k]
    BY <1>1, SubSeqProperties
  <2>2. /\ Behind(i) \in Seq(S) /\ Len(Behind(i)) = Len(pending) - i + 1
        /\ \A k \in 1 .. Len(pending) - i + 1 : Behind(i)[k] = pending[i + k - 1]
    BY <1>1, SubSeqProperties
  <2> HIDE DEF Before, Behind
  <2> DEFINE front == Kept(Before(i))
             back == Behind(i)
  <2>3. front \in Seq(S) /\ Len(front) \in Nat /\ DOMAIN front = 1 .. Len(front)
    BY <2>1, KeptOK, LenProperties
  <2>4. /\ DOMAIN (front \o back) = 1 .. Len(front) + Len(back)
        /\ \A k \in 1 .. Len(front) + Len(back) :
             (front \o back)[k] = IF k <= Len(front) THEN front[k] ELSE back[k - Len(front)]
        /\ Len(back) \in Nat
    <3>1. front \o back \in Seq(S) /\ Len(front \o back) = Len(front) + Len(back)
      BY <2>2, <2>3, ConcatProperties
    <3>2. DOMAIN (front \o back) = 1 .. Len(front \o back)
      BY <3>1, LenProperties
    <3> QED BY <2>2, <2>3, <3>1, <3>2, ConcatProperties, LenProperties
  <2>5. CASE j < i
    <3>1. r \in ToSet(front)
      BY <1>2, <2>1, <2>5, KeptAll
    <3> HIDE DEF front, back
    <3> QED BY <1>4, <2>3, <2>4, <3>1 DEF ToSet, front, back
  <2>6. CASE j >= i
    <3> DEFINE k == Len(front) + (j - i + 1)
    <3>1. back[j - i + 1] = r /\ j - i + 1 \in 1 .. Len(back)
      BY <1>1, <1>2, <2>2, <2>6
    <3> HIDE DEF front, back
    <3>2. k \in 1 .. Len(front) + Len(back) /\ ~(k <= Len(front)) /\ k - Len(front) = j - i + 1
      BY <2>3, <2>4, <3>1
    <3> HIDE DEF k
    <3>3. (front \o back)[k] = r /\ k \in DOMAIN (front \o back)
      BY <2>4, <3>1, <3>2
    <3> QED BY <1>4, <3>3 DEF ToSet, front, back
  <2> QED BY <2>5, <2>6
<1>5. \/ c = [records |-> Kept(pending), threw |-> FALSE]
      \/ \E i \in DOMAIN pending : c = [records |-> Rest(i), threw |-> TRUE]
  BY DEF Collected, MayThrow
<1> HIDE DEF Rest
<1>6. ASSUME NEW i \in DOMAIN pending, c = [records |-> Rest(i), threw |-> TRUE]
      PROVE  r \in ToSet(c.records)
  BY <1>1, <1>4, <1>6
<1> QED BY <1>3, <1>5, <1>6

\* So a record that an item of the compute stream is kept by is not removed.
LEMMA KeptCollected ==
  ASSUME IsQueue(pending), NEW c \in Collected \cup {[records |-> pending, threw |-> FALSE]},
         NEW i, NEW b, NEW call, KeptFor(streams["compute"], pending, call, i, b)
  PROVE  KeptFor(streams["compute"], c.records, call, i, b)
<1>1. ASSUME NEW r \in ToSet(pending), NEW j \in DOMAIN streams["compute"],
             streams["compute"][j].id = r.event
      PROVE  r \in ToSet(c.records)
  <2>1. Unfinished(r)
    BY <1>1 DEF Unfinished, EventComplete, Streams
  <2>2. CASE c \in Collected
    BY <2>1, <2>2, CollectKeeps
  <2>3. CASE c = [records |-> pending, threw |-> FALSE]
    BY <2>3
  <2> QED BY <2>2, <2>3
<1> QED BY <1>1 DEF KeptFor

\* The streams of the backend are not the transfers'.
LEMMA StreamNames ==
  /\ "compute" \in Streams /\ "copy" \in Streams /\ Copiers \subseteq Streams
  /\ "compute" \notin Copiers /\ "copy" \notin Copiers /\ "compute" # "copy"
  /\ Streams = {"compute", "copy"} \cup Copiers
BY CopiersAssumption DEF Streams

\* What the owners keep alive is referred to.
LEMMA Referred ==
  ASSUME Inv
  PROVE  /\ exec.owners \cup Owned(pending) \subseteq References
         /\ tensors \subseteq References
         /\ \A e \in Experts : weights[e] # NoBlock => weights[e] \in References
         /\ \A c \in Copiers : copier[c].block # NoBlock => copier[c].block \in References
         /\ References \subseteq Blocks /\ References = Active(heap) /\ HeapOK(heap)
<1>1. HeapOK(heap) /\ Active(heap) = References
  BY DEF Inv, Owns
<1>2. Active(heap) \subseteq Blocks
  BY <1>1, PoolSides
<1>3. NoBlock \notin tensors
  BY BlocksFinite DEF Inv, Shapes
<1> QED BY <1>1, <1>2, <1>3 DEF References, Elsewhere

\* The same of the next state.
LEMMA ReferredNext ==
  ASSUME Inv'
  PROVE  /\ exec'.owners \cup Owned(pending') \subseteq References'
         /\ Elsewhere' \subseteq References' /\ tensors' \subseteq Elsewhere'
         /\ \A e \in Experts : weights'[e] # NoBlock => weights'[e] \in Elsewhere'
         /\ \A c \in Copiers : copier'[c].block # NoBlock => copier'[c].block \in Elsewhere'
         /\ References' \subseteq Blocks /\ References' = Active(heap') /\ HeapOK(heap')
<1>1. HeapOK(heap') /\ Active(heap') = References'
  BY DEF Inv, Owns, HeapOK, HeapShape, PoolOK, Held, Placed, Active, Allocated
<1>2. Active(heap') \subseteq Blocks
  BY <1>1, PoolSides
<1>3. NoBlock \notin tensors'
  BY BlocksFinite DEF Inv, Shapes
<1> QED BY <1>1, <1>2, <1>3 DEF References, Elsewhere, Owned

\* What a step leaves to whoever refers to a block: its contents, and its pool where
\* not only a call refers to it.
Lasting ==
  /\ \A b \in References' : holds'[b] = holds[b]
  /\ \A p \in Pools : heap.pool[p].active \cap Elsewhere' \subseteq heap'.pool[p].active

\* The transfers' blocks and the resident weights through such a step.
LEMMA TransfersStay ==
  ASSUME Inv', Ordered, Lasting,
         \A c \in Copiers : streams'[c] = streams[c],
         \A c \in Copiers : /\ copier'[c].block # NoBlock => copier'[c] = copier[c]
                            /\ copier'[c].block = NoBlock => streams[c] = <<>>
                            /\ copier'[c].block # NoBlock =>
                                 copier'[c].block \notin exec'.owners \cup Owned(pending'),
         \A e \in Experts : weights'[e] # NoBlock =>
           \/ weights'[e] = weights[e]
           \/ \E c \in Copiers : /\ weights'[e] = copier[c].block /\ copier[c].expert = e
                                 /\ streams[c] = <<>> /\ copier'[c].block = NoBlock
  PROVE  /\ TransferSound(streams', holds', heap', exec'.owners \cup Owned(pending'),
                          weights', copier')
         /\ \A e \in Experts : weights'[e] # NoBlock =>
              weights'[e] \in heap'.pool["transfer"].active /\ holds'[weights'[e]] = e
<1> DEFINE owned == exec'.owners \cup Owned(pending')
           old == exec.owners \cup Owned(pending)
<1>0. /\ \A e \in Experts : weights'[e] # NoBlock => weights'[e] \in Elsewhere'
      /\ \A c \in Copiers : copier'[c].block # NoBlock => copier'[c].block \in Elsewhere'
      /\ Elsewhere' \subseteq References'
      /\ "transfer" \in Pools
  BY ReferredNext DEF Pools
<1>1. TransferSound(streams, holds, heap, old, weights, copier)
      /\ DataSound(holds, heap, weights, tensors)
  BY DEF Ordered
<1>2. ASSUME NEW c \in Copiers
      PROVE  /\ streams[c] # <<>> =>
                  /\ copier[c].block # NoBlock
                  /\ streams[c] = <<Work(Transfer(c), NoEvent, {}, {<<copier[c].block, copier[c].expert>>})>>
             /\ copier[c].block # NoBlock =>
                  /\ copier[c].block \in heap.pool["transfer"].active
                  /\ streams[c] = <<>> => holds[copier[c].block] = copier[c].expert
                  /\ \A e \in Experts : weights[e] # copier[c].block
                  /\ \A o \in Copiers \ {c} : copier[o].block # copier[c].block
  BY <1>1 DEF TransferSound
<1>3. ASSUME NEW c \in Copiers
      PROVE  /\ streams'[c] # <<>> =>
                  /\ copier'[c].block # NoBlock
                  /\ streams'[c] = <<Work(Transfer(c), NoEvent, {}, {<<copier'[c].block, copier'[c].expert>>})>>
             /\ copier'[c].block # NoBlock =>
                  /\ copier'[c].block \in heap'.pool["transfer"].active
                  /\ streams'[c] = <<>> => holds'[copier'[c].block] = copier'[c].expert
                  /\ copier'[c].block \notin owned
                  /\ \A e \in Experts : weights'[e] # copier'[c].block
                  /\ \A o \in Copiers \ {c} : copier'[o].block # copier'[c].block
  <2>1. CASE copier'[c].block = NoBlock
    BY <2>1
  <2>2. CASE copier'[c].block # NoBlock
    <3>1. copier'[c] = copier[c] /\ streams'[c] = streams[c] /\ copier[c].block # NoBlock
      BY <2>2
    <3>0. \A o \in Copiers \ {c} : copier[o].block # copier[c].block
      BY <1>2, <3>1
    <3>2. copier[c].block \in Elsewhere'
      BY <1>0, <2>2, <3>1
    <3>3. copier[c].block \in heap'.pool["transfer"].active /\ holds'[copier[c].block] = holds[copier[c].block]
      BY <1>0, <1>2, <3>1, <3>2 DEF Lasting
    <3>6. \A e \in Experts : weights[e] # copier[c].block
      BY <1>2, <3>1
    <3>4. ASSUME NEW e \in Experts, weights'[e] = copier[c].block PROVE FALSE
      <4>1. weights'[e] # NoBlock /\ weights'[e] # weights[e]
        BY <3>1, <3>4, <3>6
      <4>2. PICK o \in Copiers : weights'[e] = copier[o].block /\ copier'[o].block = NoBlock
        BY <4>1
      <4>3. o # c
        BY <2>2, <4>2
      <4>4. copier[o].block # copier[c].block
        BY <3>0, <4>3
      <4> QED BY <3>4, <4>2, <4>4
    <3>5. ASSUME NEW o \in Copiers \ {c}, copier'[o].block = copier[c].block PROVE FALSE
      <4>1. copier'[o] = copier[o]
        BY <3>1, <3>5
      <4>2. copier[o].block # copier[c].block
        BY <3>0
      <4> QED BY <3>5, <4>1, <4>2
    <3> QED BY <1>2, <2>2, <3>1, <3>3, <3>4, <3>5, ZenonT(60)
  <2> QED BY <2>1, <2>2
<1>4. TransferSound(streams', holds', heap', owned, weights', copier')
  BY <1>3 DEF TransferSound
<1>5. ASSUME NEW e \in Experts, weights'[e] # NoBlock
      PROVE  weights'[e] \in heap'.pool["transfer"].active /\ holds'[weights'[e]] = e
  <2>1. weights'[e] \in Elsewhere'
    BY <1>0, <1>5
  <2>2. CASE weights'[e] = weights[e]
    <3>1. weights[e] \in heap.pool["transfer"].active /\ holds[weights[e]] = e
      BY <1>1, <1>5, <2>2 DEF DataSound
    <3> QED BY <1>0, <2>1, <2>2, <3>1 DEF Lasting
  <2>3. CASE weights'[e] # weights[e]
    <3>1. PICK c \in Copiers : /\ weights'[e] = copier[c].block /\ copier[c].expert = e
                               /\ streams[c] = <<>>
      BY <1>5, <2>3
    <3>2. copier[c].block \in heap.pool["transfer"].active /\ holds[copier[c].block] = e
      BY <1>2, <1>5, <3>1
    <3> QED BY <1>0, <2>1, <3>1, <3>2 DEF Lasting
  <2> QED BY <2>2, <2>3
<1> QED BY <1>4, <1>5

\* A step that moves no transfer.
LEMMA TransfersSame ==
  ASSUME Inv', Ordered, Lasting,
         \A c \in Copiers : streams'[c] = streams[c],
         \A c \in Copiers : copier[c].block # NoBlock =>
                                 copier[c].block \notin exec'.owners \cup Owned(pending'),
         copier' = copier,
         \A e \in Experts : weights'[e] # NoBlock => weights'[e] = weights[e]
  PROVE  /\ TransferSound(streams', holds', heap', exec'.owners \cup Owned(pending'),
                          weights', copier')
         /\ \A e \in Experts : weights'[e] # NoBlock =>
              weights'[e] \in heap'.pool["transfer"].active /\ holds'[weights'[e]] = e
<1>1. \A c \in Copiers : copier[c].block = NoBlock => streams[c] = <<>>
  BY DEF Ordered, TransferSound
<1> QED BY <1>1, TransfersStay

\* The work queued on the compute stream so far, through such a step.
LEMMA ComputeLasts ==
  ASSUME Inv', Ordered, Lasting,
         \A i \in DOMAIN streams["compute"], b \in Blocks :
           KeptFor(streams["compute"], pending, exec, i, b) =>
             KeptFor(streams["compute"], pending', exec', i, b),
         \A b \in Held(heap', "transfer") : b \in Held(heap, "transfer") \/ ~Touched(b)
  PROVE  ComputeSound(streams["compute"], holds', heap', pending', exec')
<1> DEFINE q == streams["compute"]
<1>1. ComputeSound(q, holds, heap, pending, exec)
  BY DEF Ordered
<1>2. ASSUME NEW i \in DOMAIN q, NEW b \in Blocks, KeptFor(q, pending, exec, i, b)
      PROVE  KeptFor(q, pending', exec', i, b) /\ holds'[b] = holds[b]
  <2>1. KeptFor(q, pending', exec', i, b)
    BY <1>2
  <2>2. b \in exec'.owners \cup Owned(pending')
    BY <2>1, KeptOwned
  <2> QED BY <2>1, <2>2, ReferredNext DEF Lasting
<1>3. ASSUME NEW i \in DOMAIN q, NEW y \in q[i].writes, y[1] \in Held(heap', "transfer")
      PROVE  y[1] \in Held(heap, "transfer")
  <2>1. Touched(y[1])
    BY <1>3, StreamNames DEF Touched
  <2> QED BY <1>3, <2>1
<1> HIDE DEF q
<1>4. ComputeSound(q, holds', heap', pending', exec')
  BY <1>1, <1>2, <1>3, ComputeStays
<1> QED BY <1>4 DEF q

\* The same where nothing is queued.
LEMMA ComputeSame ==
  ASSUME Inv', Ordered, Lasting, streams'["compute"] = streams["compute"],
         \A i \in DOMAIN streams["compute"], b \in Blocks :
           KeptFor(streams["compute"], pending, exec, i, b) =>
             KeptFor(streams["compute"], pending', exec', i, b),
         \A b \in Held(heap', "transfer") : b \in Held(heap, "transfer") \/ ~Touched(b)
  PROVE  ComputeSound(streams'["compute"], holds', heap', pending', exec')
BY ComputeLasts

\* The copy stream through a step of others.
LEMMA CopySame ==
  ASSUME Inv', Ordered, Lasting, streams'["compute"] = streams["compute"],
         streams'["copy"] = streams["copy"], exec' = exec,
         \A b \in Held(heap', "transfer") : b \in Held(heap, "transfer") \/ ~Touched(b),
         Types
  PROVE  CopySound(streams'["copy"], streams'["compute"], holds', heap', exec')
<1> DEFINE copy == streams["copy"]
           q == streams["compute"]
<1>1. CopySound(copy, q, holds, heap, exec)
  BY DEF Ordered
<1>2. \A b \in exec.owners : holds'[b] = holds[b]
  BY ReferredNext DEF Lasting
<1>3. copy # <<>> => 1 \in DOMAIN copy
  <2>1. IsQueue(copy)
    BY StreamNames DEF Types, Typed
  <2> QED BY <2>1, QueueFacts
<1>4. ASSUME copy # <<>>, NEW y \in copy[1].writes, y[1] \in Held(heap', "transfer")
      PROVE  y[1] \in Held(heap, "transfer")
  <2>1. Touched(y[1])
    BY <1>3, <1>4, StreamNames DEF Touched
  <2> QED BY <1>4, <2>1
<1> HIDE DEF copy, q
<1>5. CopySound(copy, q, holds', heap', exec)
  BY <1>1, <1>2, <1>4, CopyStays
<1> QED BY <1>5 DEF copy, q

\* What is referred to lasts through a step that reclaims the rest.
LEMMA ReclaimLasts ==
  ASSUME NEW h, HeapOK(h), Reclaim(h), References' \subseteq Blocks,
         \A p \in Pools : heap.pool[p].active \cap Elsewhere' \subseteq h.pool[p].active
  PROVE  Lasting /\ \A p \in Pools : Held(heap', p) \subseteq Held(h, p)
<1>1. Elsewhere' \subseteq References'
  BY DEF References
<1> QED BY <1>1, ReclaimFacts DEF Lasting

\* Tensors stay in the backend's pool.
LEMMA TensorsStay ==
  ASSUME Inv', Ordered, Lasting, tensors' \subseteq tensors
  PROVE  tensors' \subseteq heap'.pool["tensor"].active
<1>1. tensors \subseteq heap.pool["tensor"].active
  BY DEF Ordered, DataSound
<1>2. tensors' \subseteq Elsewhere'
  BY ReferredNext
<1> QED BY <1>1, <1>2 DEF Lasting, Pools

\* A transfer's block is owned by nobody else.
LEMMA TransferAlone ==
  ASSUME Ordered
  PROVE  \A c \in Copiers : copier[c].block # NoBlock =>
           /\ copier[c].block \notin exec.owners \cup Owned(pending)
           /\ copier[c].block \in heap.pool["transfer"].active
BY DEF Ordered, TransferSound

\* A copy is queued only while its call waits for it.
LEMMA CopyWaits ==
  ASSUME Ordered, exec.pc \notin {"copying", "barrier"}
  PROVE  streams["copy"] = <<>>
BY DEF Ordered, CopySound

\* An empty queue asks for nothing.
LEMMA NothingQueued ==
  ASSUME NEW q, NEW d, NEW h, NEW records, NEW call
  PROVE  /\ ComputeSound(<<>>, d, h, records, call)
         /\ CopySound(<<>>, q, d, h, call)
BY DEF ComputeSound, CopySound

\* The executor's waits end when the stream has run what they kept alive.
LEMMA EndsOrder ==
  ASSUME Inv, Inv', Types, Ordered, AbortEnds \/ SyncEnds \/ CopyEnds \/ BarrierEnds
  PROVE  Ordered'
<1> DEFINE q == streams["compute"]
<1>1. /\ UNCHANGED <<streams, tensors, weights, copier>> /\ Reclaim(heap)
      /\ exec' = [exec EXCEPT !.pc = "idle", !.owners = {}]
  BY DEF AbortEnds, SyncEnds, CopyEnds, BarrierEnds, Return
<1>2. exec'.owners = {}
  BY <1>1 DEF Inv, Shapes, IsRecord
<1>3. PICK c \in Collected \cup {[records |-> pending, threw |-> FALSE]} : pending' = c.records
  <2>1. CASE SyncEnds \/ CopyEnds
    BY <2>1 DEF SyncEnds, CopyEnds
  <2>2. CASE AbortEnds \/ BarrierEnds
    <3> DEFINE c == [records |-> pending, threw |-> FALSE]
    <3>1. pending' = c.records
      BY <2>2 DEF AbortEnds, BarrierEnds
    <3> QED BY <3>1
  <2> QED BY <2>1, <2>2
<1>4. Owned(pending') \subseteq Owned(pending)
  BY <1>3, CollectedOK DEF Inv, Shapes
<1>5. HeapOK(heap) /\ IsQueue(pending) /\ References' \subseteq Blocks
  BY Referred, ReferredNext DEF Inv, Shapes
<1>6. Lasting /\ \A p \in Pools : Held(heap', p) \subseteq Held(heap, p)
  BY <1>1, <1>5, ReclaimLasts
<1>7. \/ exec.pc \in {"aborting", "syncing"} /\ q = <<>>
      \/ exec.pc \in {"copying", "barrier"}
  BY DEF AbortEnds, SyncEnds, CopyEnds, BarrierEnds, Synchronized
<1>8. streams["copy"] = <<>>
  <2>1. CASE exec.pc \in {"aborting", "syncing"}
    BY <2>1, CopyWaits
  <2>2. CASE exec.pc = "copying"
    <3>1. EventComplete(<<exec.calls, 1>>)
      BY <2>2 DEF AbortEnds, SyncEnds, CopyEnds, BarrierEnds
    <3> SUFFICES ASSUME streams["copy"] # <<>> PROVE FALSE
      OBVIOUS
    <3>2. streams["copy"][1].id = <<exec.calls, 1>>
      BY <2>2 DEF Ordered, CopySound
    <3>3. IsQueue(streams["copy"])
      BY StreamNames DEF Types, Typed
    <3>4. 1 \in DOMAIN streams["copy"]
      BY <3>3, QueueFacts
    <3> QED BY <3>1, <3>2, <3>4, StreamNames DEF EventComplete
  <2>3. CASE exec.pc = "barrier"
    BY <2>3 DEF AbortEnds, SyncEnds, CopyEnds, BarrierEnds, Synchronized
  <2> QED BY <1>7, <2>1, <2>2, <2>3
<1>9. CopySound(streams'["copy"], streams'["compute"], holds', heap', exec')
  BY <1>1, <1>8, NothingQueued
<1>10. ComputeSound(streams'["compute"], holds', heap', pending', exec')
  <2>1. ASSUME NEW i \in DOMAIN q, NEW b \in Blocks, KeptFor(q, pending, exec, i, b)
        PROVE  KeptFor(q, pending', exec', i, b)
    <3>1. exec.pc \in {"copying", "barrier"}
      BY <1>7, <2>1
    <3>2. KeptFor(q, c.records, exec, i, b)
      BY <1>5, <2>1, KeptCollected
    <3> QED BY <1>3, <3>1, <3>2 DEF KeptFor
  <2>2. \A b \in Held(heap', "transfer") : b \in Held(heap, "transfer")
    BY <1>6 DEF Pools
  <2> HIDE DEF q
  <2> QED BY <1>1, <1>6, <2>1, <2>2, ComputeSame DEF q
<1>11. /\ TransferSound(streams', holds', heap', exec'.owners \cup Owned(pending'), weights', copier')
       /\ \A e \in Experts : weights'[e] # NoBlock =>
            weights'[e] \in heap'.pool["transfer"].active /\ holds'[weights'[e]] = e
  <2>1. \A x \in Copiers : copier[x].block # NoBlock =>
          copier[x].block \notin exec'.owners \cup Owned(pending')
    BY <1>2, <1>4, TransferAlone
  <2> QED BY <1>1, <1>6, <2>1, TransfersSame
<1>12. tensors' \subseteq heap'.pool["tensor"].active
  BY <1>1, <1>6, TensorsStay
<1>13. DataSound(holds', heap', weights', tensors')
  BY <1>11, <1>12 DEF DataSound
<1> QED BY <1>9, <1>10, <1>11, <1>13, OrderedNext

\* A queue's last writer of a block.
LEMMA LastOf ==
  \A n \in Nat : \A S \in SUBSET (1 .. n) : S # {} => Max(S) \in S /\ \A y \in S : Max(S) >= y
<1> DEFINE P == {n \in Nat : \A S \in SUBSET (1 .. n) :
                   S # {} => \E x \in S : \A y \in S : x >= y}
<1>1. 0 \in P
  <2>1. \A S \in SUBSET (1 .. 0) : S = {}
    OBVIOUS
  <2> QED BY <2>1
<1>2. ASSUME NEW n \in Nat, n \in P PROVE n + 1 \in P
  <2> SUFFICES ASSUME NEW S \in SUBSET (1 .. n + 1), S # {}
               PROVE  \E x \in S : \A y \in S : x >= y
    OBVIOUS
  <2>1. CASE n + 1 \in S
    <3>1. \A y \in S : n + 1 >= y
      OBVIOUS
    <3> QED BY <2>1, <3>1
  <2>2. CASE n + 1 \notin S
    <3>1. S \in SUBSET (1 .. n)
      <4>1. \A y \in S : y \in 1 .. n + 1 /\ y # n + 1
        BY <2>2
      <4>2. \A y \in S : y \in 1 .. n
        BY <4>1
      <4> QED BY <4>2
    <3> QED BY <1>2, <3>1
  <2> QED BY <2>1, <2>2
<1>3. \A n \in Nat : n \in P
  <2> HIDE DEF P
  <2> QED BY <1>1, <1>2, NatSetInduction
<1>4. ASSUME NEW n \in Nat, NEW S \in SUBSET (1 .. n), S # {}
      PROVE  Max(S) \in S /\ \A y \in S : Max(S) >= y
  <2>1. \E x \in S : \A y \in S : x >= y
    BY <1>3, <1>4
  <2> QED BY <2>1 DEF Max
<1> QED BY <1>4

\* Now names what the compute work queued so far leaves in a block.
LEMMA NowLeaves ==
  ASSUME Types, Ordered, NEW b \in Blocks
  PROVE  Leaves(holds, streams["compute"], Len(streams["compute"]), <<b, Latest(b)>>)
<1> DEFINE q == streams["compute"]
           n == Len(q)
           W == {i \in DOMAIN q : \E x \in q[i].writes : x[1] = b}
           x == <<b, Latest(b)>>
<1>0. x[1] = b /\ x[2] = Latest(b)
  OBVIOUS
<1>1. n \in Nat /\ DOMAIN q = 1 .. n /\ \A i \in 1 .. n : q[i].writes \subseteq Blocks \X Labels
  <2>1. Typed(q)
    BY StreamNames DEF Types
  <2> QED BY <2>1, QueueFacts DEF Typed
<1>2. \A i \in 1 .. n : \A y, z \in q[i].writes : y[2] = z[2]
  BY <1>1 DEF Ordered, ComputeSound, Tidy
<1>3. CASE W = {}
  <2>1. Latest(b) = holds[b]
    BY <1>3 DEF Latest
  <2>2. \A k \in 1 .. n : \A y \in q[k].writes : y[1] # b
    BY <1>1, <1>3
  <2>3. 0 \in 0 .. n
    BY <1>1
  <2> HIDE DEF q, n, x
  <2>4. Leaves(holds, q, n, x)
    BY <1>0, <2>1, <2>2, <2>3 DEF Leaves
  <2> QED BY <2>4 DEF q, n, x
<1>4. CASE W # {}
  <2> DEFINE j == Max(W)
             w == CHOOSE y \in q[j].writes : y[1] = b
  <2>1. Latest(b) = w[2]
    BY <1>4 DEF Latest
  <2>2. j \in W /\ \A k \in W : j >= k
    BY <1>1, <1>4, LastOf
  <2>3. w \in q[j].writes /\ w[1] = b /\ j \in 1 .. n
    BY <1>1, <2>2
  <2>4. w = x
    <3>1. w \in Blocks \X Labels
      BY <1>1, <2>3
    <3> HIDE DEF w
    <3> QED BY <2>1, <2>3, <3>1
  <2> HIDE DEF j, w
  <2>5. ASSUME NEW k \in 1 .. n, k >= j, NEW y \in q[k].writes, y[1] = b
        PROVE  y[2] = Latest(b)
    <3>1. k \in W
      BY <1>1, <2>5
    <3>2. k = j
      BY <1>1, <2>2, <2>3, <2>5, <3>1
    <3>3. y \in q[j].writes
      BY <2>5, <3>2
    <3> HIDE DEF q
    <3> QED BY <1>2, <2>1, <2>3, <3>3
  <2>6. j \in 0 .. n /\ j # 0 /\ x \in q[j].writes
    <3> HIDE DEF q, n, x
    <3> QED BY <1>1, <2>3, <2>4
  <2> HIDE DEF q, n, x
  <2>7. Leaves(holds, q, n, x)
    BY <1>0, <2>5, <2>6 DEF Leaves
  <2> QED BY <2>7 DEF q, n, x
<1> QED BY <1>3, <1>4

\* No work of the backend writes resident weights.
LEMMA ViewLeaves ==
  ASSUME Inv, Types, Ordered, NEW e \in Experts, weights[e] # NoBlock
  PROVE  Leaves(holds, streams["compute"], Len(streams["compute"]), <<weights[e], e>>)
<1> DEFINE q == streams["compute"]
           n == Len(q)
           x == <<weights[e], e>>
<1>1. weights[e] \in heap.pool["transfer"].active /\ holds[weights[e]] = e
  BY DEF Ordered, DataSound
<1>2. weights[e] \in Held(heap, "transfer")
  BY <1>1 DEF Held
<1>3. n \in Nat /\ DOMAIN q = 1 .. n
  BY StreamNames, QueueFacts DEF Types, Typed
<1>4. \A k \in 1 .. n : \A y \in q[k].writes : y[1] # weights[e]
  BY <1>2, <1>3 DEF Ordered, ComputeSound, Tidy
<1>5. x[1] = weights[e] /\ x[2] = e /\ 0 \in 0 .. n
  BY <1>3
<1> HIDE DEF q, n, x
<1>6. Leaves(holds, q, n, x)
  BY <1>1, <1>4, <1>5 DEF Leaves
<1> QED BY <1>6 DEF q, n, x

\* The executor waits for the compute stream, or copies a tensor behind its work.
LEMMA CopyOrder ==
  ASSUME Inv, Inv', Types, Ordered, Copy \/ Synchronize
  PROVE  Ordered'
<1> DEFINE q == streams["compute"]
           n == exec.calls + 1
           ready == RecordEvent(q)
           W(ins, outs) == CopyAfter(ready, ins, outs, n)
<1>1. exec.pc = "idle" /\ UNCHANGED <<heap, holds, pending, tensors, weights, copier>>
  BY DEF Copy, Synchronize, CopyTensor, FailCopy
<1>2. PICK ins \in SUBSET tensors, outs \in SUBSET tensors :
        /\ exec'.owners = ins \cup outs /\ exec'.calls = n
        /\ \/ streams' = streams
           \/ exec'.pc \in {"copying", "barrier"} /\ Queue("copy", <<W(ins, outs)>>)
  <2>1. CASE Synchronize
    <3>1. Finish("syncing", {}) /\ streams' = streams
      BY <2>1 DEF Synchronize
    <3>2. {} \in SUBSET tensors /\ exec'.owners = {} \cup {} /\ exec'.calls = n
      BY <3>1 DEF Finish
    <3> QED BY <3>1, <3>2
  <2>2. CASE Copy
    <3>1. PICK ins \in SUBSET tensors, outs \in SUBSET tensors :
            CopyTensor(ins, outs) \/ FailCopy(ins, outs)
      BY <2>2 DEF Copy
    <3>2. /\ Finish("copying", ins \cup outs) \/ Finish("barrier", ins \cup outs)
          /\ Queue("copy", <<W(ins, outs)>>) \/ streams' = streams
      BY <3>1 DEF CopyTensor, FailCopy
    <3> HIDE DEF W
    <3>3. exec'.owners = ins \cup outs /\ exec'.calls = n /\ exec'.pc \in {"copying", "barrier"}
      BY <3>2 DEF Finish
    <3> QED BY <3>2, <3>3
  <2> QED BY <2>1, <2>2
<1>3. /\ IsRecord(streams, Streams) /\ Typed(q) /\ Len(q) \in Nat /\ DOMAIN q = 1 .. Len(q)
      /\ (q = <<>> <=> Len(q) = 0)
  BY StreamNames, QueueFacts DEF Types, Typed
<1>4. streams["copy"] = <<>>
  BY <1>1, CopyWaits
<1>5. /\ \A s \in Streams \ {"copy"} : streams'[s] = streams[s]
      /\ \/ streams'["copy"] = <<>>
         \/ exec'.pc \in {"copying", "barrier"} /\ streams'["copy"] = <<W(ins, outs)>>
  <2>1. CASE streams' = streams
    BY <1>4, <2>1
  <2>2. CASE exec'.pc \in {"copying", "barrier"} /\ Queue("copy", <<W(ins, outs)>>)
    <3>1. streams'["copy"] = <<>> \o <<W(ins, outs)>>
      BY <1>3, <1>4, <2>2, StreamNames DEF Queue, IsRecord
    <3>2. <<>> \o <<W(ins, outs)>> = <<W(ins, outs)>>
      <4> HIDE DEF W
      <4> QED OBVIOUS
    <3>3. \A s \in Streams \ {"copy"} : streams'[s] = streams[s]
      BY <1>3, <2>2 DEF Queue, IsRecord
    <3> QED BY <2>2, <3>1, <3>2, <3>3
  <2> QED BY <1>2, <2>1, <2>2
<1>6. Lasting
  BY <1>1 DEF Lasting
<1>7. ComputeSound(streams'["compute"], holds', heap', pending', exec')
  <2>1. ASSUME NEW i \in DOMAIN q, NEW b \in Blocks, KeptFor(q, pending, exec, i, b)
        PROVE  KeptFor(q, pending', exec', i, b)
    BY <1>1, <2>1 DEF KeptFor
  <2>2. streams'["compute"] = streams["compute"]
    BY <1>5, StreamNames
  <2> QED BY <1>1, <1>6, <2>1, <2>2, ComputeSame
<1>8. /\ TransferSound(streams', holds', heap', exec'.owners \cup Owned(pending'), weights', copier')
      /\ \A e \in Experts : weights'[e] # NoBlock =>
           weights'[e] \in heap'.pool["transfer"].active /\ holds'[weights'[e]] = e
  <2>1. ASSUME NEW c \in Copiers, copier[c].block # NoBlock
        PROVE  copier[c].block \notin exec'.owners \cup Owned(pending')
    <3>1. copier[c].block \in Held(heap, "transfer") /\ copier[c].block \notin Owned(pending)
      BY <2>1, TransferAlone DEF Held
    <3>2. tensors \subseteq Held(heap, "tensor")
      BY DEF Ordered, DataSound, Held
    <3>3. copier[c].block \notin tensors
      BY <3>1, <3>2, Referred, PoolSides
    <3> QED BY <1>1, <1>2, <3>1, <3>3
  <2>2. \A c \in Copiers : streams'[c] = streams[c]
    BY <1>5, StreamNames
  <2> QED BY <1>1, <1>6, <2>1, <2>2, TransfersSame
<1>9. DataSound(holds', heap', weights', tensors')
  BY <1>1, <1>8 DEF DataSound, Ordered
<1>10. CopySound(streams'["copy"], streams'["compute"], holds', heap', exec')
  <2>1. streams'["compute"] = q
    BY <1>5, StreamNames
  <2>2. CASE streams'["copy"] = <<>>
    BY <2>2, NothingQueued
  <2>3. CASE exec'.pc \in {"copying", "barrier"} /\ streams'["copy"] = <<W(ins, outs)>>
    <3> DEFINE w == W(ins, outs)
    <3>1. /\ w.id = <<n, 1>> /\ w.after = ready /\ w.reads = Now(ins)
          /\ w.writes = {<<b, n>> : b \in outs}
      BY DEF CopyAfter, Work
    <3> HIDE DEF w, W
    <3>2. streams'["copy"] = <<w>> /\ Len(<<w>>) = 1 /\ <<w>>[1] = w
      BY <2>3 DEF w
    <3>3. q # <<>> => w.after = q[Len(q)].id
      BY <3>1 DEF RecordEvent, Last
    <3>4. Tidy(w, heap)
      <4>1. \A y \in w.writes : y[2] = n /\ y[1] \in tensors
        BY <3>1
      <4>2. tensors \subseteq Held(heap, "tensor")
        BY DEF Ordered, DataSound, Held
      <4>3. Held(heap, "tensor") \cap Held(heap, "transfer") = {}
        BY Referred, PoolSides
      <4> QED BY <4>1, <4>2, <4>3 DEF Tidy
    <3>5. \A x \in w.reads : x[1] \in ins /\ Leaves(holds, q, Len(q), x)
      <4> SUFFICES ASSUME NEW x \in w.reads PROVE x[1] \in ins /\ Leaves(holds, q, Len(q), x)
        OBVIOUS
      <4>1. PICK b \in ins : x = <<b, Latest(b)>>
        BY <3>1 DEF Now
      <4>2. b \in Blocks
        BY DEF Inv, Shapes
      <4>3. Leaves(holds, q, Len(q), <<b, Latest(b)>>)
        BY <4>2, NowLeaves
      <4> QED BY <4>1, <4>3
    <3>6. BlocksOf(w.reads \cup w.writes) \subseteq exec'.owners
      <4>1. \A x \in w.writes : x[1] \in outs
        BY <3>1
      <4> QED BY <1>2, <3>5, <4>1 DEF BlocksOf
    <3> HIDE DEF q, n, ready
    <3>7. CopySound(<<w>>, q, holds, heap, exec')
      BY <1>2, <2>3, <3>1, <3>2, <3>3, <3>4, <3>5, <3>6 DEF CopySound
    <3> QED BY <1>1, <2>1, <3>2, <3>7
  <2> QED BY <1>5, <2>2, <2>3
<1> QED BY <1>7, <1>8, <1>9, <1>10, OrderedNext

\* Steps that give up blocks but move no work, transfer or call.
LEMMA GiveUpOrder ==
  ASSUME Inv, Inv', Types, Ordered, Lasting,
         UNCHANGED <<streams, copier>>,
         exec' = exec \/ (exec.pc \in {"idle", "closing"} /\ exec'.owners = {}),
         tensors' \subseteq tensors \/ tensors' \subseteq heap'.pool["tensor"].active,
         \A e \in Experts : weights'[e] # NoBlock => weights'[e] = weights[e],
         pending' = pending \/ (streams["compute"] = <<>> /\ pending' = <<>>),
         \A b \in Held(heap', "transfer") : b \in Held(heap, "transfer") \/ ~Touched(b)
  PROVE  Ordered'
<1> DEFINE q == streams["compute"]
<1>1. ComputeSound(streams'["compute"], holds', heap', pending', exec')
  <2>1. ASSUME NEW i \in DOMAIN q, NEW b \in Blocks, KeptFor(q, pending, exec, i, b)
        PROVE  KeptFor(q, pending', exec', i, b)
    BY <2>1 DEF KeptFor
  <2> QED BY <2>1, ComputeSame
<1>2. CopySound(streams'["copy"], streams'["compute"], holds', heap', exec')
  <2>1. CASE exec' = exec
    BY <2>1, CopySame
  <2>2. CASE exec.pc \in {"idle", "closing"}
    BY <2>2, CopyWaits, NothingQueued
  <2> QED BY <2>1, <2>2
<1>3. /\ TransferSound(streams', holds', heap', exec'.owners \cup Owned(pending'), weights', copier')
      /\ \A e \in Experts : weights'[e] # NoBlock =>
           weights'[e] \in heap'.pool["transfer"].active /\ holds'[weights'[e]] = e
  <2>1. Owned(pending') \subseteq Owned(pending)
    BY DEF Owned
  <2>2. \A c \in Copiers : copier[c].block # NoBlock =>
          copier[c].block \notin exec'.owners \cup Owned(pending')
    BY <2>1, TransferAlone
  <2> QED BY <2>2, TransfersSame
<1>4. DataSound(holds', heap', weights', tensors')
  <2>1. tensors' \subseteq heap'.pool["tensor"].active
    BY TensorsStay
  <2> QED BY <1>3, <2>1 DEF DataSound
<1> QED BY <1>1, <1>2, <1>3, <1>4, OrderedNext

\* An allocation and the two pools.
LEMMA AcquirePools ==
  ASSUME NEW h, HeapOK(h), NEW p \in Pools, NEW request \in Nat \ {0},
         NEW a, a = Acquire(h, p, request), a.block # NoBlock
  PROVE  /\ HeapOK(a.heap) /\ a.block \in Blocks \ Active(h)
         /\ \A o \in Pools : h.pool[o].active \subseteq a.heap.pool[o].active
         /\ a.block \in a.heap.pool[p].active
         /\ \A o \in Pools : \A b \in Held(a.heap, o) : b \in Held(h, o) \/ (o = p /\ b = a.block)
         /\ a.block \in Held(h, p) \/ ~Touched(a.block)
<1> DEFINE g == a.heap
           x == a.block
<1>1. /\ HeapOK(g) /\ x \in Blocks \ Active(h) /\ Active(g) = Active(h) \cup {x}
      /\ Allocates(g, h, p, x)
  BY AcquireOK
<1> HIDE DEF g, x
<1>2. /\ \A o \in Pools \ {p} : g.pool[o] = h.pool[o] /\ Held(g, o) = Held(h, o)
      /\ Held(g, p) = Held(h, p) \cup {x}
      /\ x \in Held(h, p) \/ ~Touched(x)
  BY <1>1 DEF Allocates, Held
<1>3. PICK o \in Pools \ {p} : Pools = {p, o}
  <2>1. p = "tensor" \/ p = "transfer"
    BY DEF Pools
  <2>2. CASE p = "tensor"
    <3>1. "transfer" \in Pools \ {p} /\ Pools = {p, "transfer"}
      BY <2>2 DEF Pools
    <3> QED BY <3>1
  <2>3. CASE p = "transfer"
    <3>1. "tensor" \in Pools \ {p} /\ Pools = {p, "tensor"}
      BY <2>3 DEF Pools
    <3> QED BY <3>1
  <2> QED BY <2>1, <2>2, <2>3
<1>4. Active(g) = g.pool[p].active \cup g.pool[o].active /\ Active(h) = h.pool[p].active \cup h.pool[o].active
  <2>1. (p = "tensor" /\ o = "transfer") \/ (p = "transfer" /\ o = "tensor")
    BY <1>3 DEF Pools
  <2> QED BY <2>1 DEF Active
<1>5. h.pool[p].active \cap h.pool[o].active = {}
  <2>1. Held(h, p) \cap Held(h, o) = {}
    BY <1>3 DEF HeapOK
  <2> QED BY <2>1 DEF Held
<1>6. g.pool[o].active = h.pool[o].active
  BY <1>2
<1>7. h.pool[p].active \subseteq g.pool[p].active /\ x \in g.pool[p].active
  BY <1>1, <1>4, <1>5, <1>6
<1>8. \A u \in Pools : h.pool[u].active \subseteq g.pool[u].active
  BY <1>3, <1>6, <1>7
<1>9. \A u \in Pools : \A b \in Held(g, u) : b \in Held(h, u) \/ (u = p /\ b = x)
  BY <1>2
<1>10. /\ HeapOK(g) /\ x \in Blocks \ Active(h) /\ x \in g.pool[p].active
       /\ x \in Held(h, p) \/ ~Touched(x)
  BY <1>1, <1>2, <1>7
<1> QED BY <1>8, <1>9, <1>10 DEF g, x

\* Tensors are made and dropped.
LEMMA TensorsOrder ==
  ASSUME Inv, Inv', Types, Ordered,
         \/ \E size \in TensorSizes : AllocateTensor(size)
         \/ \E b \in Blocks : DropTensor(b)
  PROVE  Ordered'
<1>0. HeapOK(heap) /\ "tensor" \in Pools /\ "transfer" \in Pools /\ "tensor" # "transfer"
      /\ References' \subseteq Blocks
  BY Referred, ReferredNext DEF Pools
<1>1. CASE \E size \in TensorSizes : AllocateTensor(size)
  <2>1. PICK size \in TensorSizes : AllocateTensor(size)
    BY <1>1
  <2>2. size \in Nat \ {0}
    BY DeviceAssumption
  <2> DEFINE a == Acquire(heap, "tensor", size)
  <2>3. /\ a.block # NoBlock /\ heap' = a.heap /\ tensors' = tensors \cup {a.block}
        /\ UNCHANGED <<holds, streams, pending, exec, weights, copier>>
    BY <2>1 DEF AllocateTensor
  <2>4. /\ \A o \in Pools : heap.pool[o].active \subseteq a.heap.pool[o].active
        /\ a.block \in a.heap.pool["tensor"].active
        /\ \A b \in Held(a.heap, "transfer") : b \in Held(heap, "transfer")
    BY <1>0, <2>2, <2>3, AcquirePools
  <2> HIDE DEF a
  <2>5. Lasting
    BY <2>3, <2>4 DEF Lasting
  <2>6. tensors' \subseteq heap'.pool["tensor"].active
    BY <1>0, <2>3, <2>4 DEF Ordered, DataSound
  <2>7. /\ UNCHANGED <<streams, copier>> /\ exec' = exec /\ pending' = pending
        /\ \A e \in Experts : weights'[e] # NoBlock => weights'[e] = weights[e]
    BY <2>3
  <2>8. \A b \in Held(heap', "transfer") : b \in Held(heap, "transfer")
    BY <2>3, <2>4
  <2> QED BY <2>5, <2>6, <2>7, <2>8, GiveUpOrder
<1>2. CASE \E b \in Blocks : DropTensor(b)
  <2>1. /\ tensors' \subseteq tensors /\ UNCHANGED <<streams, pending, exec, weights, copier>>
        /\ Reclaim(heap)
    BY <1>2 DEF DropTensor
  <2>2. Lasting /\ \A p \in Pools : Held(heap', p) \subseteq Held(heap, p)
    BY <1>0, <2>1, ReclaimLasts
  <2>3. /\ UNCHANGED <<streams, copier>> /\ exec' = exec /\ pending' = pending
        /\ \A e \in Experts : weights'[e] # NoBlock => weights'[e] = weights[e]
    BY <2>1
  <2>4. \A b \in Held(heap', "transfer") : b \in Held(heap, "transfer")
    BY <1>0, <2>2
  <2> QED BY <2>1, <2>2, <2>3, <2>4, GiveUpOrder
<1> QED BY <1>1, <1>2

\* The teardown.
LEMMA ClosingOrder ==
  ASSUME Inv, Inv', Types, Ordered, CloseTransfers \/ CloseBackend
  PROVE  Ordered'
<1>1. PICK p \in Pools : Close(p)
  BY DEF CloseTransfers, CloseBackend, Pools
<1> DEFINE h == Reclaimed(heap, References')
<1>2. HeapOK(h) /\ LetsGo(h, heap, Active(heap) \ References')
  BY Referred, ReclaimedOK
<1>3. heap' = ShutDown(h, p)
  BY <1>1 DEF Close
<1> HIDE DEF h
<1>4. LetsGo(heap', h, {})
  BY <1>2, <1>3, ShutDownOK
<1>5. \A o \in Pools : /\ heap'.pool[o].active = heap.pool[o].active \ (Active(heap) \ References')
                       /\ Held(heap', o) \subseteq Held(heap, o)
  BY <1>2, <1>4 DEF LetsGo
<1>6. /\ UNCHANGED <<holds, streams, tensors, copier>>
      /\ exec.pc \in {"idle", "closing"} /\ exec'.owners = exec.owners
      /\ \A e \in Experts : weights'[e] # NoBlock => weights'[e] = weights[e]
      /\ pending' = pending \/ (streams["compute"] = <<>> /\ pending' = <<>>)
  <2>1. CASE CloseTransfers
    <3>1. /\ UNCHANGED <<holds, streams, tensors, copier, pending>> /\ exec.pc = "idle"
          /\ weights' = [e \in Experts |-> NoBlock] /\ exec' = [exec EXCEPT !.pc = "closing"]
      BY <2>1 DEF CloseTransfers
    <3>2. exec'.owners = exec.owners
      BY <3>1 DEF Inv, Shapes, IsRecord
    <3>3. \A e \in Experts : weights'[e] = NoBlock
      BY <3>1
    <3> QED BY <3>1, <3>2, <3>3
  <2>2. CASE CloseBackend
    <3>1. /\ UNCHANGED <<holds, streams, tensors, copier, weights>> /\ exec.pc = "closing"
          /\ streams["compute"] = <<>> /\ pending' = <<>> /\ exec' = [exec EXCEPT !.pc = "closed"]
      BY <2>2 DEF CloseBackend, Synchronized
    <3>2. exec'.owners = exec.owners
      BY <3>1 DEF Inv, Shapes, IsRecord
    <3> QED BY <3>1, <3>2
  <2> QED BY <2>1, <2>2
<1>7. exec'.owners = {}
  BY <1>6 DEF Inv, Shapes
<1>8. Lasting
  <2>1. Elsewhere' \subseteq References'
    BY DEF References
  <2> QED BY <1>5, <1>6, <2>1 DEF Lasting
<1>9. \A b \in Held(heap', "transfer") : b \in Held(heap, "transfer")
  BY <1>5 DEF Pools
<1> QED BY <1>6, <1>7, <1>8, <1>9, GiveUpOrder

\* A transfer starts: its block was nobody's, and no queued work writes it.
LEMMA StartOrder ==
  ASSUME Inv, Inv', Types, Ordered, NEW c \in Copiers, NEW e \in Experts, StartTransfer(c, e)
  PROVE  Ordered'
<1> DEFINE a == Acquire(heap, "transfer", ExpertSize)
           w == Work(Transfer(c), NoEvent, {}, {<<a.block, e>>})
<1>1. /\ copier[c] = NoTransfer /\ a.block # NoBlock /\ heap' = a.heap
      /\ copier' = [copier EXCEPT ![c] = [expert |-> e, block |-> a.block]]
      /\ Queue(c, <<w>>)
      /\ UNCHANGED <<holds, pending, tensors, exec, weights>>
  BY DEF StartTransfer, Loadable
<1>2. /\ a.block \in Blocks \ Active(heap)
      /\ \A o \in Pools : heap.pool[o].active \subseteq a.heap.pool[o].active
      /\ a.block \in a.heap.pool["transfer"].active
      /\ \A b \in Held(a.heap, "transfer") : b \in Held(heap, "transfer") \/ ~Touched(b)
  <2>1. HeapOK(heap) /\ ExpertSize \in Nat \ {0} /\ "transfer" \in Pools
    BY Referred, DeviceAssumption DEF Pools
  <2> HIDE DEF w
  <2>2. /\ a.block \in Blocks \ Active(heap)
        /\ \A o \in Pools : heap.pool[o].active \subseteq a.heap.pool[o].active
        /\ a.block \in a.heap.pool["transfer"].active
        /\ \A o \in Pools : \A b \in Held(a.heap, o) :
             b \in Held(heap, o) \/ (o = "transfer" /\ b = a.block)
        /\ a.block \in Held(heap, "transfer") \/ ~Touched(a.block)
    BY <1>1, <2>1, AcquirePools
  <2> HIDE DEF a
  <2> QED BY <2>1, <2>2
<1>3. w = Work(Transfer(c), NoEvent, {}, {<<a.block, e>>})
  OBVIOUS
<1> HIDE DEF a, w
<1>4. /\ copier'[c].block = a.block /\ copier'[c].expert = e /\ copier[c].block = NoBlock
      /\ \A o \in Copiers \ {c} : copier'[o] = copier[o]
  BY <1>1 DEF Inv, Shapes, NoTransfer
<1>5. streams[c] = <<>>
  BY <1>4 DEF Ordered, TransferSound
<1>6. streams'[c] = <<w>> /\ \A s \in Streams \ {c} : streams'[s] = streams[s]
  <2>1. streams'[c] = <<>> \o <<w>> /\ \A s \in Streams \ {c} : streams'[s] = streams[s]
    BY <1>1, <1>5, StreamNames DEF Queue, Types, IsRecord
  <2>2. <<>> \o <<w>> = <<w>>
    OBVIOUS
  <2> QED BY <2>1, <2>2
<1>7. Lasting
  BY <1>1, <1>2 DEF Lasting
<1>8. streams'["compute"] = streams["compute"] /\ streams'["copy"] = streams["copy"]
  BY <1>6, StreamNames
<1>9. ComputeSound(streams'["compute"], holds', heap', pending', exec')
  BY <1>1, <1>2, <1>7, <1>8, ComputeSame
<1>10. CopySound(streams'["copy"], streams'["compute"], holds', heap', exec')
  BY <1>1, <1>2, <1>7, <1>8, CopySame
<1> DEFINE owned == exec.owners \cup Owned(pending)
<1>11. /\ a.block \notin owned /\ \A x \in Experts : weights[x] # a.block
       /\ \A o \in Copiers : copier[o].block # a.block
  BY <1>1, <1>2, Referred
<1>12. TransferSound(streams', holds', heap', owned, weights', copier')
  <2> SUFFICES ASSUME NEW o \in Copiers
               PROVE  /\ streams'[o] # <<>> =>
                           /\ copier'[o].block # NoBlock
                           /\ streams'[o] = <<Work(Transfer(o), NoEvent, {}, {<<copier'[o].block, copier'[o].expert>>})>>
                      /\ copier'[o].block # NoBlock =>
                           /\ copier'[o].block \in heap'.pool["transfer"].active
                           /\ streams'[o] = <<>> => holds'[copier'[o].block] = copier'[o].expert
                           /\ copier'[o].block \notin owned
                           /\ \A x \in Experts : weights'[x] # copier'[o].block
                           /\ \A u \in Copiers \ {o} : copier'[u].block # copier'[o].block
    BY DEF TransferSound
  <2>1. CASE o = c
    <3>1. streams'[o] = <<w>> /\ copier'[o].block = a.block /\ copier'[o].expert = e /\ <<w>> # <<>>
      BY <1>4, <1>6, <2>1
    <3>2. \A u \in Copiers \ {o} : copier'[u].block # a.block
      BY <1>4, <1>11, <2>1
    <3>3. a.block \in heap'.pool["transfer"].active
      BY <1>1, <1>2
    <3> HIDE DEF owned
    <3> QED BY <1>1, <1>3, <1>11, <2>1, <3>1, <3>2, <3>3
  <2>2. CASE o # c
    <3>1. copier'[o] = copier[o] /\ streams'[o] = streams[o]
      BY <1>4, <1>6, <2>2, StreamNames
    <3>2. /\ streams[o] # <<>> =>
               /\ copier[o].block # NoBlock
               /\ streams[o] = <<Work(Transfer(o), NoEvent, {}, {<<copier[o].block, copier[o].expert>>})>>
          /\ copier[o].block # NoBlock =>
               /\ copier[o].block \in heap.pool["transfer"].active
               /\ streams[o] = <<>> => holds[copier[o].block] = copier[o].expert
               /\ copier[o].block \notin owned
               /\ \A x \in Experts : weights[x] # copier[o].block
               /\ \A u \in Copiers \ {o} : copier[u].block # copier[o].block
      BY DEF Ordered, TransferSound
    <3>3. heap.pool["transfer"].active \subseteq heap'.pool["transfer"].active
      BY <1>1, <1>2 DEF Pools
    <3>4. copier[o].block # NoBlock => \A u \in Copiers \ {o} : copier'[u].block # copier[o].block
      <4>1. ASSUME copier[o].block # NoBlock, NEW u \in Copiers \ {o}
            PROVE  copier'[u].block # copier[o].block
        <5>1. CASE u = c
          BY <1>4, <1>11, <5>1
        <5>2. CASE u # c
          BY <1>4, <3>2, <4>1, <5>2
        <5> QED BY <5>1, <5>2
      <4> QED BY <4>1
    <3> HIDE DEF owned
    <3> QED BY <1>1, <3>1, <3>2, <3>3, <3>4
  <2> QED BY <2>1, <2>2
<1>13. DataSound(holds', heap', weights', tensors')
  <2>1. /\ heap.pool["transfer"].active \subseteq heap'.pool["transfer"].active
        /\ heap.pool["tensor"].active \subseteq heap'.pool["tensor"].active
    BY <1>1, <1>2 DEF Pools
  <2> QED BY <1>1, <2>1 DEF Ordered, DataSound
<1>14. owned = exec'.owners \cup Owned(pending')
  BY <1>1
<1> QED BY <1>9, <1>10, <1>12, <1>13, <1>14, OrderedNext

\* Transfers start, fail and finish; weights are evicted.
LEMMA TransfersOrder ==
  ASSUME Inv, Inv', Types, Ordered, Transfers
  PROVE  Ordered'
<1>0. HeapOK(heap) /\ "transfer" \in Pools /\ References' \subseteq Blocks
  BY Referred, ReferredNext DEF Pools
<1>1. ASSUME NEW c \in Copiers, NEW e \in Experts, StartTransfer(c, e) PROVE Ordered'
  BY <1>1, StartOrder
<1>2. ASSUME NEW c \in Copiers, NEW e \in Experts, FailTransfer(c, e) PROVE Ordered'
  <2> DEFINE a == Acquire(heap, "transfer", ExpertSize)
  <2>1. /\ a.block # NoBlock /\ Reclaim(a.heap)
        /\ UNCHANGED <<streams, pending, tensors, exec, weights, copier>>
    BY <1>2 DEF FailTransfer
  <2>2. ExpertSize \in Nat \ {0}
    BY DeviceAssumption
  <2>3. /\ HeapOK(a.heap)
        /\ \A o \in Pools : heap.pool[o].active \subseteq a.heap.pool[o].active
        /\ \A o \in Pools : \A b \in Held(a.heap, o) :
             b \in Held(heap, o) \/ (o = "transfer" /\ b = a.block)
        /\ a.block \in Held(heap, "transfer") \/ ~Touched(a.block)
    BY <1>0, <2>1, <2>2, AcquirePools
  <2> HIDE DEF a
  <2>4. Lasting /\ \A p \in Pools : Held(heap', p) \subseteq Held(a.heap, p)
    BY <1>0, <2>1, <2>3, ReclaimLasts
  <2>5. \A b \in Held(heap', "transfer") : b \in Held(heap, "transfer") \/ ~Touched(b)
    BY <1>0, <2>3, <2>4
  <2>6. /\ UNCHANGED <<streams, copier>> /\ exec' = exec /\ pending' = pending
        /\ \A x \in Experts : weights'[x] # NoBlock => weights'[x] = weights[x]
        /\ tensors' \subseteq tensors
    BY <2>1
  <2> QED BY <2>4, <2>5, <2>6, GiveUpOrder
<1>3. ASSUME NEW c \in Copiers, NEW adopt \in BOOLEAN, FinishTransfer(c, adopt) PROVE Ordered'
  <2>1. /\ copier[c] # NoTransfer /\ EventComplete(Transfer(c))
        /\ weights' = IF adopt THEN [weights EXCEPT ![copier[c].expert] = copier[c].block]
                      ELSE weights
        /\ copier' = [copier EXCEPT ![c] = NoTransfer]
        /\ UNCHANGED <<streams, pending, tensors, exec>> /\ Reclaim(heap)
    BY <1>3 DEF FinishTransfer
  <2>2. Lasting /\ \A p \in Pools : Held(heap', p) \subseteq Held(heap, p)
    BY <1>0, <2>1, ReclaimLasts
  <2>3. \A b \in Held(heap', "transfer") : b \in Held(heap, "transfer")
    BY <1>0, <2>2
  <2>4. streams[c] = <<>>
    <3> SUFFICES ASSUME streams[c] # <<>> PROVE FALSE
      OBVIOUS
    <3> DEFINE w == Work(Transfer(c), NoEvent, {}, {<<copier[c].block, copier[c].expert>>})
    <3>1. streams[c] = <<w>>
      BY DEF Ordered, TransferSound
    <3>2. w.id = Transfer(c)
      BY DEF Work
    <3> HIDE DEF w
    <3>3. 1 \in DOMAIN streams[c] /\ streams[c][1].id = Transfer(c)
      BY <3>1, <3>2
    <3> QED BY <2>1, <3>3, StreamNames DEF EventComplete
  <2>5. /\ copier[c].expert \in Experts /\ copier'[c].block = NoBlock
        /\ \A o \in Copiers \ {c} : copier'[o] = copier[o]
    BY <2>1 DEF Inv, Shapes, NoTransfer
  <2>6. \A x \in Experts : weights'[x] # NoBlock =>
          \/ weights'[x] = weights[x]
          \/ weights'[x] = copier[c].block /\ copier[c].expert = x
    BY <2>1, <2>5 DEF Inv, Shapes
  <2>7. ASSUME NEW o \in Copiers
        PROVE  /\ copier'[o].block # NoBlock => copier'[o] = copier[o]
               /\ copier'[o].block = NoBlock => streams[o] = <<>>
               /\ copier'[o].block # NoBlock =>
                    copier'[o].block \notin exec'.owners \cup Owned(pending')
    <3>1. CASE o = c
      BY <2>4, <2>5, <3>1
    <3>2. CASE o # c
      <4>1. copier'[o] = copier[o]
        BY <2>5, <3>2
      <4>2. copier[o].block = NoBlock => streams[o] = <<>>
        BY DEF Ordered, TransferSound
      <4> QED BY <2>1, <4>1, <4>2, TransferAlone
    <3> QED BY <3>1, <3>2
  <2>8. /\ TransferSound(streams', holds', heap', exec'.owners \cup Owned(pending'), weights', copier')
        /\ \A e \in Experts : weights'[e] # NoBlock =>
             weights'[e] \in heap'.pool["transfer"].active /\ holds'[weights'[e]] = e
    <3>1. \A s \in Copiers : streams'[s] = streams[s]
      BY <2>1
    <3> QED BY <2>2, <2>4, <2>5, <2>6, <2>7, <3>1, TransfersStay
  <2>9. /\ streams'["compute"] = streams["compute"] /\ streams'["copy"] = streams["copy"]
        /\ pending' = pending /\ exec' = exec /\ tensors' = tensors
    BY <2>1
  <2>10. ComputeSound(streams'["compute"], holds', heap', pending', exec')
    BY <2>2, <2>3, <2>9, ComputeSame
  <2>11. CopySound(streams'["copy"], streams'["compute"], holds', heap', exec')
    BY <2>2, <2>3, <2>9, CopySame
  <2>12. DataSound(holds', heap', weights', tensors')
    <3>1. tensors' \subseteq heap'.pool["tensor"].active
      BY <2>2, <2>9, TensorsStay
    <3> QED BY <2>8, <3>1 DEF DataSound
  <2> QED BY <2>8, <2>10, <2>11, <2>12, OrderedNext
<1>4. ASSUME NEW e \in Experts, Evict(e) PROVE Ordered'
  <2>1. /\ weights' = [weights EXCEPT ![e] = NoBlock]
        /\ UNCHANGED <<streams, pending, tensors, exec, copier>> /\ Reclaim(heap)
    BY <1>4 DEF Evict
  <2>2. Lasting /\ \A p \in Pools : Held(heap', p) \subseteq Held(heap, p)
    BY <1>0, <2>1, ReclaimLasts
  <2>3. \A b \in Held(heap', "transfer") : b \in Held(heap, "transfer")
    BY <1>0, <2>2
  <2>4. /\ UNCHANGED <<streams, copier>> /\ exec' = exec /\ pending' = pending
        /\ \A x \in Experts : weights'[x] # NoBlock => weights'[x] = weights[x]
        /\ tensors' \subseteq tensors
    BY <2>1 DEF Inv, Shapes
  <2> QED BY <2>2, <2>3, <2>4, GiveUpOrder
<1> QED BY <1>1, <1>2, <1>3, <1>4 DEF Transfers

\* What an item that runs does to a block.
LEMMA RunEffect ==
  ASSUME NEW s \in Streams, RunItem(s), NEW b \in Blocks
  PROVE  /\ (\A y \in Head(streams[s]).writes : y[1] # b) => holds'[b] = holds[b]
         /\ (\E y \in Head(streams[s]).writes : y[1] = b) =>
              \E y \in Head(streams[s]).writes : y[1] = b /\ holds'[b] = y[2]
<1> DEFINE new == {x \in Head(streams[s]).writes : x[1] = b}
<1>1. holds'[b] = IF new = {} THEN holds[b] ELSE (CHOOSE x \in new : TRUE)[2]
  BY DEF RunItem
<1>2. CASE new = {}
  BY <1>1, <1>2
<1>3. CASE new # {}
  <2> DEFINE y == CHOOSE x \in new : TRUE
  <2>1. y \in new
    BY <1>3
  <2>2. holds'[b] = y[2]
    BY <1>1, <1>3
  <2> HIDE DEF y
  <2> QED BY <2>1, <2>2
<1> QED BY <1>2, <1>3

\* What the queue is to leave in a block, its rest leaves there once its head has run.
LEMMA LeavesRun ==
  ASSUME NEW d, NEW e, NEW q, NEW t, NEW m \in Nat, NEW x, Leaves(d, q, m + 1, x),
         \A i \in 1 .. m : t[i] = q[i + 1],
         (\A y \in q[1].writes : y[1] # x[1]) => e[x[1]] = d[x[1]],
         (\E y \in q[1].writes : y[1] = x[1]) => \E y \in q[1].writes : y[1] = x[1] /\ e[x[1]] = y[2]
  PROVE  Leaves(e, t, m, x)
<1>1. PICK j \in 0 .. m + 1 :
        /\ j = 0 => d[x[1]] = x[2]
        /\ j # 0 => x \in q[j].writes
        /\ \A k \in 1 .. m + 1 : k >= j => \A y \in q[k].writes : y[1] = x[1] => y[2] = x[2]
  BY DEF Leaves
<1>2. CASE j <= 1
  <2>1. 1 \in 1 .. m + 1 /\ 1 >= j
    BY <1>2
  <2>2. \A y \in q[1].writes : y[1] = x[1] => y[2] = x[2]
    BY <1>1, <2>1
  <2>3. j = 0 \/ j = 1
    BY <1>2
  <2>4. e[x[1]] = x[2]
    <3>1. CASE \E y \in q[1].writes : y[1] = x[1]
      BY <2>2, <3>1
    <3>2. CASE \A y \in q[1].writes : y[1] # x[1]
      BY <1>1, <2>3, <3>2
    <3> QED BY <3>1, <3>2
  <2>5. \A k \in 1 .. m : \A y \in t[k].writes : y[1] = x[1] => y[2] = x[2]
    <3>1. \A k \in 1 .. m : k + 1 \in 1 .. m + 1 /\ k + 1 >= j
      BY <1>2
    <3> QED BY <1>1, <3>1
  <2>6. 0 \in 0 .. m
    OBVIOUS
  <2> QED BY <2>4, <2>5, <2>6 DEF Leaves
<1>3. CASE j > 1
  <2> DEFINE i == j - 1
  <2>1. i \in 0 .. m /\ i # 0 /\ i \in 1 .. m /\ i + 1 = j
    BY <1>3
  <2>2. x \in t[i].writes
    BY <1>1, <2>1
  <2>3. \A k \in 1 .. m : k >= i => \A y \in t[k].writes : y[1] = x[1] => y[2] = x[2]
    <3>1. \A k \in 1 .. m : k >= i => k + 1 \in 1 .. m + 1 /\ k + 1 >= j
      BY <1>3
    <3> QED BY <1>1, <3>1
  <2> HIDE DEF i
  <2> QED BY <2>1, <2>2, <2>3 DEF Leaves
<1> QED BY <1>2, <1>3

\* The rest of a queue and its indices.
LEMMA TailFacts ==
  ASSUME NEW q, IsQueue(q), q # <<>>
  PROVE  /\ Len(q) \in Nat \ {0} /\ DOMAIN q = 1 .. Len(q)
         /\ Head(q) = q[1] /\ Len(Tail(q)) = Len(q) - 1 /\ DOMAIN Tail(q) = 1 .. Len(q) - 1
         /\ \A i \in 1 .. Len(q) - 1 : Tail(q)[i] = q[i + 1]
         /\ Tail(q) = <<>> <=> Len(q) = 1
<1> DEFINE t == Tail(q)
<1>1. q \in Seq(ToSet(q)) /\ Len(q) \in Nat \ {0} /\ DOMAIN q = 1 .. Len(q)
  <2>1. q \in Seq(ToSet(q))
    BY DEF IsQueue
  <2> QED BY <2>1, LenProperties, EmptySeq
<1>2. t \in Seq(ToSet(q)) /\ Len(t) = Len(q) - 1 /\ Head(q) = q[1]
  BY <1>1, HeadTailProperties
<1>3. \A i \in 1 .. Len(q) - 1 : t[i] = q[i + 1]
  BY <1>1
<1> HIDE DEF t
<1>4. DOMAIN t = 1 .. Len(q) - 1 /\ (t = <<>> <=> Len(t) = 0)
  BY <1>2, LenProperties, EmptySeq
<1> QED BY <1>1, <1>2, <1>3, <1>4 DEF t

\* The compute stream runs its head.
LEMMA ComputeRuns ==
  ASSUME NEW q, IsQueue(q), q # <<>>, NEW d, NEW e, NEW h, NEW records, NEW call,
         \A b \in Blocks :
           /\ (\A y \in q[1].writes : y[1] # b) => e[b] = d[b]
           /\ (\E y \in q[1].writes : y[1] = b) => \E y \in q[1].writes : y[1] = b /\ e[b] = y[2]
  PROVE  /\ ComputeSound(q, d, h, records, call) => ComputeSound(Tail(q), e, h, records, call)
         /\ \A copy : CopySound(copy, q, d, h, call) /\ call.owners \subseteq Blocks =>
                        CopySound(copy, Tail(q), e, h, call)
<1> DEFINE t == Tail(q)
           n == Len(q)
<1>1. /\ n \in Nat \ {0} /\ DOMAIN q = 1 .. n /\ Len(t) = n - 1 /\ DOMAIN t = 1 .. n - 1
      /\ \A i \in 1 .. n - 1 : t[i] = q[i + 1]
      /\ t = <<>> <=> n = 1
  BY TailFacts
<1> HIDE DEF t, n
<1>2. ASSUME NEW m \in 0 .. n - 1, NEW x, x[1] \in Blocks, Leaves(d, q, m + 1, x)
      PROVE  Leaves(e, t, m, x)
  <2>1. m \in Nat /\ \A i \in 1 .. m : t[i] = q[i + 1]
    BY <1>1
  <2> QED BY <1>2, <2>1, LeavesRun, ZenonT(60)
<1>3. ASSUME ComputeSound(q, d, h, records, call)
      PROVE  ComputeSound(t, e, h, records, call)
  <2> SUFFICES ASSUME NEW i \in DOMAIN t
               PROVE  /\ Tidy(t[i], h)
                      /\ \A x \in t[i].reads : /\ x[1] \in Blocks /\ Leaves(e, t, i - 1, x)
                                               /\ KeptFor(t, records, call, i, x[1])
    BY DEF ComputeSound
  <2>1. i \in 1 .. n - 1 /\ i + 1 \in DOMAIN q /\ t[i] = q[i + 1] /\ i - 1 \in 0 .. n - 1
        /\ (i + 1) - 1 = (i - 1) + 1
    BY <1>1
  <2>2. /\ Tidy(q[i + 1], h)
        /\ \A x \in q[i + 1].reads : /\ x[1] \in Blocks /\ Leaves(d, q, (i + 1) - 1, x)
                                     /\ KeptFor(q, records, call, i + 1, x[1])
    BY <1>3, <2>1 DEF ComputeSound
  <2>3. ASSUME NEW b, KeptFor(q, records, call, i + 1, b)
        PROVE  KeptFor(t, records, call, i, b)
    <3>1. CASE call.pc \in {"syncing", "aborting"} /\ b \in call.owners
      BY <3>1 DEF KeptFor
    <3>2. ASSUME NEW r \in ToSet(records), b \in r.owners, NEW j \in DOMAIN q, j >= i + 1,
                 q[j].id = r.event
          PROVE  KeptFor(t, records, call, i, b)
      <4> DEFINE k == j - 1
      <4>1. k \in DOMAIN t /\ k >= i /\ k \in 1 .. n - 1 /\ k + 1 = j
        BY <1>1, <2>1, <3>2
      <4>2. t[k].id = r.event
        BY <1>1, <3>2, <4>1
      <4> HIDE DEF k
      <4> QED BY <3>2, <4>1, <4>2 DEF KeptFor
    <3> QED BY <2>3, <3>1, <3>2 DEF KeptFor
  <2>4. \A x \in q[i + 1].reads : Leaves(e, t, i - 1, x)
    BY <1>2, <2>1, <2>2
  <2> QED BY <2>1, <2>2, <2>3, <2>4
<1>4. ASSUME NEW copy, CopySound(copy, q, d, h, call), call.owners \subseteq Blocks
      PROVE  CopySound(copy, t, e, h, call)
  <2> SUFFICES ASSUME copy # <<>> PROVE CopySound(copy, t, e, h, call)
    BY DEF CopySound
  <2>1. n = (n - 1) + 1 /\ n - 1 \in 0 .. n - 1
    BY <1>1
  <2>2. \A x \in copy[1].reads : x[1] \in Blocks /\ Leaves(d, q, (n - 1) + 1, x)
    BY <1>4, <2>1 DEF CopySound, BlocksOf, n
  <2>3. \A x \in copy[1].reads : Leaves(e, t, n - 1, x)
    BY <1>2, <2>1, <2>2
  <2>4. t # <<>> => copy[1].after = t[Len(t)].id
    <3>1. t # <<>> => n - 1 \in 1 .. n - 1 /\ t[n - 1] = q[n]
      BY <1>1
    <3> QED BY <1>1, <1>4, <3>1 DEF CopySound, n
  <2> QED BY <1>1, <1>4, <2>3, <2>4 DEF CopySound
<1> QED BY <1>3, <1>4 DEF t

\* A copy that runs finds the compute stream idle.
LEMMA CopyBehind ==
  ASSUME Types, Ordered, Runnable("copy")
  PROVE  streams["compute"] = <<>>
<1> DEFINE q == streams["compute"]
           w == streams["copy"]
<1>1. IsQueue(q) /\ IsQueue(w) /\ w # <<>> /\ EventComplete(Head(w).after)
  BY StreamNames DEF Types, Typed, Runnable
<1>2. Head(w) = w[1]
  BY <1>1, TailFacts
<1> SUFFICES ASSUME q # <<>> PROVE FALSE
  OBVIOUS
<1>3. w[1].after = q[Len(q)].id
  BY <1>1 DEF Ordered, CopySound
<1>4. Len(q) \in DOMAIN q
  BY <1>1, TailFacts
<1> QED BY <1>1, <1>2, <1>3, <1>4, StreamNames DEF EventComplete

\* Work that writes no block of the transfers' pool leaves the experts' data alone.
LEMMA ExpertsStay ==
  ASSUME Inv, Ordered, UNCHANGED <<heap, pending, tensors, exec, weights, copier>>,
         \A c \in Copiers : streams'[c] = streams[c],
         \A b \in Blocks : b \in Held(heap, "transfer") => holds'[b] = holds[b]
  PROVE  /\ TransferSound(streams', holds', heap', exec'.owners \cup Owned(pending'), weights', copier')
         /\ DataSound(holds', heap', weights', tensors')
<1>1. heap.pool["transfer"].active \subseteq Held(heap, "transfer") /\ Active(heap) \subseteq Blocks
      /\ heap.pool["transfer"].active \subseteq Active(heap)
  BY Referred, PoolSides DEF Active
<1>2. \A b \in heap.pool["transfer"].active : holds'[b] = holds[b]
  BY <1>1
<1>3. TransferSound(streams', holds', heap, exec.owners \cup Owned(pending), weights, copier)
  BY <1>2 DEF Ordered, TransferSound
<1>4. DataSound(holds', heap, weights, tensors)
  BY <1>2 DEF Ordered, DataSound
<1> QED BY <1>3, <1>4

\* A stream runs its next item.
LEMMA RunOrder ==
  ASSUME Inv, Inv', Types, Ordered, NEW s \in Streams, RunItem(s)
  PROVE  Ordered'
<1> DEFINE q == streams["compute"]
           w == streams["copy"]
           owned == exec.owners \cup Owned(pending)
<1>1. /\ Runnable(s) /\ streams[s] # <<>>
      /\ streams' = [streams EXCEPT ![s] = Tail(streams[s])]
      /\ UNCHANGED <<heap, pending, tensors, exec, weights, copier>>
  BY DEF RunItem, Runnable
<1>2. /\ IsQueue(streams[s]) /\ IsQueue(q) /\ IsQueue(w)
      /\ streams'[s] = Tail(streams[s]) /\ \A t \in Streams \ {s} : streams'[t] = streams[t]
  BY <1>1, StreamNames DEF Types, Typed, IsRecord
<1>3. /\ Head(streams[s]) = streams[s][1] /\ 1 \in DOMAIN streams[s]
  BY <1>1, <1>2, TailFacts
<1>4. \A b \in Blocks :
        /\ (\A y \in streams[s][1].writes : y[1] # b) => holds'[b] = holds[b]
        /\ (\E y \in streams[s][1].writes : y[1] = b) =>
             \E y \in streams[s][1].writes : y[1] = b /\ holds'[b] = y[2]
  BY <1>3, RunEffect
<1>5. owned \subseteq Blocks /\ exec.owners \subseteq Blocks
  BY Referred
<1>6. ComputeSound(q, holds, heap, pending, exec) /\ CopySound(w, q, holds, heap, exec)
  BY DEF Ordered
<1>7. CASE s = "compute"
  <2>1. streams'["compute"] = Tail(q) /\ streams'["copy"] = w /\ \A c \in Copiers : streams'[c] = streams[c]
    BY <1>2, <1>7, StreamNames
  <2>2. Tidy(q[1], heap)
    BY <1>3, <1>7 DEF Ordered, ComputeSound
  <2>3. \A b \in Blocks : b \in Held(heap, "transfer") => holds'[b] = holds[b]
    BY <1>4, <1>7, <2>2 DEF Tidy
  <2>4. /\ TransferSound(streams', holds', heap', exec'.owners \cup Owned(pending'), weights', copier')
        /\ DataSound(holds', heap', weights', tensors')
    BY <1>1, <2>1, <2>3, ExpertsStay
  <2>5. q # <<>>
    BY <1>1, <1>7
  <2>6. \A b \in Blocks :
          /\ (\A y \in q[1].writes : y[1] # b) => holds'[b] = holds[b]
          /\ (\E y \in q[1].writes : y[1] = b) => \E y \in q[1].writes : y[1] = b /\ holds'[b] = y[2]
    BY <1>4, <1>7
  <2> HIDE DEF q, w
  <2>7. ComputeSound(Tail(q), holds', heap, pending, exec) /\ CopySound(w, Tail(q), holds', heap, exec)
    BY <1>2, <1>5, <1>6, <2>5, <2>6, ComputeRuns
  <2> QED BY <1>1, <2>1, <2>4, <2>7, OrderedNext
<1>8. CASE s = "copy"
  <2>1. q = <<>>
    BY <1>1, <1>8, CopyBehind
  <2>2. streams'["compute"] = <<>> /\ \A c \in Copiers : streams'[c] = streams[c]
    BY <1>2, <1>8, <2>1, StreamNames
  <2>3. w # <<>> /\ Len(w) = 1 /\ Tidy(w[1], heap)
    BY <1>1, <1>6, <1>8 DEF CopySound
  <2>4. streams'["copy"] = <<>>
    BY <1>2, <1>8, <2>3, TailFacts
  <2>5. \A b \in Blocks : b \in Held(heap, "transfer") => holds'[b] = holds[b]
    BY <1>4, <1>8, <2>3 DEF Tidy
  <2>6. /\ TransferSound(streams', holds', heap', exec'.owners \cup Owned(pending'), weights', copier')
        /\ DataSound(holds', heap', weights', tensors')
    BY <1>1, <2>2, <2>5, ExpertsStay
  <2> QED BY <2>2, <2>4, <2>6, NothingQueued, OrderedNext
<1>9. CASE s \in Copiers
  <2> DEFINE x == copier[s].block
             z == copier[s].expert
  <2>1. TransferSound(streams, holds, heap, owned, weights, copier)
    BY DEF Ordered
  <2>2. /\ x # NoBlock /\ x \in heap.pool["transfer"].active /\ x \notin owned
        /\ \A e \in Experts : weights[e] # x
        /\ \A o \in Copiers \ {s} : copier[o].block # x
        /\ streams[s] = <<Work(Transfer(s), NoEvent, {}, {<<x, z>>})>>
    BY <1>1, <1>9, <2>1 DEF TransferSound
  <2>3. Len(streams[s]) = 1 /\ streams[s][1].writes = {<<x, z>>}
    <3> DEFINE i == Work(Transfer(s), NoEvent, {}, {<<x, z>>})
    <3>1. i.writes = {<<x, z>>}
      BY DEF Work
    <3> HIDE DEF i
    <3>2. Len(<<i>>) = 1 /\ <<i>>[1] = i
      OBVIOUS
    <3> QED BY <2>2, <3>1, <3>2 DEF i
  <2>4. x \in Blocks
    BY <2>2, Referred, PoolSides
  <2> HIDE DEF x, z
  <2>5. holds'[x] = z /\ \A b \in Blocks \ {x} : holds'[b] = holds[b]
    BY <1>4, <2>3, <2>4
  <2>6. streams'[s] = <<>>
    BY <1>1, <1>2, <2>3, TailFacts
  <2>7. streams'["compute"] = q /\ streams'["copy"] = w /\ \A c \in Copiers \ {s} : streams'[c] = streams[c]
    BY <1>2, <1>9, StreamNames
  <2>8. ComputeSound(q, holds', heap, pending, exec)
    <3>1. ASSUME NEW i \in DOMAIN q, NEW b \in Blocks, KeptFor(q, pending, exec, i, b)
          PROVE  holds'[b] = holds[b]
      BY <2>2, <2>5, <3>1, KeptOwned
    <3> HIDE DEF q
    <3> QED BY <1>6, <3>1, ComputeStays
  <2>9. CopySound(w, q, holds', heap, exec)
    <3>1. \A b \in exec.owners : holds'[b] = holds[b]
      BY <1>5, <2>2, <2>5
    <3> HIDE DEF q, w
    <3> QED BY <1>6, <3>1, CopyStays
  <2>10. TransferSound(streams', holds', heap, owned, weights, copier)
    <3> SUFFICES ASSUME NEW o \in Copiers
                 PROVE  /\ streams'[o] # <<>> =>
                             /\ copier[o].block # NoBlock
                             /\ streams'[o] = <<Work(Transfer(o), NoEvent, {}, {<<copier[o].block, copier[o].expert>>})>>
                        /\ copier[o].block # NoBlock =>
                             /\ copier[o].block \in heap.pool["transfer"].active
                             /\ streams'[o] = <<>> => holds'[copier[o].block] = copier[o].expert
                             /\ copier[o].block \notin owned
                             /\ \A e \in Experts : weights[e] # copier[o].block
                             /\ \A u \in Copiers \ {o} : copier[u].block # copier[o].block
      BY DEF TransferSound
    <3>1. CASE o = s
      BY <2>2, <2>5, <2>6, <3>1 DEF x, z
    <3>2. CASE o # s
      <4>1. streams'[o] = streams[o] /\ copier[o].block # x
        BY <2>2, <2>7, <3>2
      <4>2. copier[o].block # NoBlock => copier[o].block \in Blocks
        BY Referred
      <4>3. copier[o].block # NoBlock => holds'[copier[o].block] = holds[copier[o].block]
        BY <2>5, <4>1, <4>2
      <4> HIDE DEF owned
      <4> QED BY <2>1, <4>1, <4>3 DEF TransferSound
    <3> QED BY <3>1, <3>2
  <2>11. DataSound(holds', heap, weights, tensors)
    <3>1. \A e \in Experts : weights[e] # NoBlock => weights[e] \in Blocks \ {x}
      BY <2>2, Referred
    <3> QED BY <2>5, <3>1 DEF Ordered, DataSound
  <2>12. owned = exec'.owners \cup Owned(pending')
    BY <1>1
  <2> QED BY <1>1, <2>7, <2>8, <2>9, <2>10, <2>11, <2>12, OrderedNext
<1> QED BY <1>7, <1>8, <1>9, StreamNames

\* One queue behind another: its items.
LEMMA ConcatFacts ==
  ASSUME NEW q, IsQueue(q), NEW r, IsQueue(r)
  PROVE  /\ IsQueue(q \o r) /\ Len(q \o r) = Len(q) + Len(r)
         /\ Len(q) \in Nat /\ DOMAIN q = 1 .. Len(q) /\ Len(r) \in Nat /\ DOMAIN r = 1 .. Len(r)
         /\ DOMAIN (q \o r) = 1 .. Len(q) + Len(r)
         /\ \A i \in 1 .. Len(q) : (q \o r)[i] = q[i]
         /\ \A i \in 1 .. Len(r) : (q \o r)[Len(q) + i] = r[i]
<1> DEFINE S == ToSet(q) \cup ToSet(r)
           t == q \o r
<1>1. q \in Seq(S) /\ r \in Seq(S)
  <2>1. q \in Seq(ToSet(q)) /\ r \in Seq(ToSet(r))
    BY DEF IsQueue
  <2> QED BY <2>1
<1> HIDE DEF S
<1>2. /\ t \in Seq(S) /\ Len(q) \in Nat /\ Len(r) \in Nat /\ Len(t) = Len(q) + Len(r)
      /\ DOMAIN q = 1 .. Len(q) /\ DOMAIN r = 1 .. Len(r) /\ DOMAIN t = 1 .. Len(q) + Len(r)
      /\ \A i \in 1 .. Len(q) + Len(r) : t[i] = IF i <= Len(q) THEN q[i] ELSE r[i - Len(q)]
  BY <1>1, ConcatProperties, LenProperties
<1> HIDE DEF t
<1>3. IsQueue(t)
  <2>1. t = [i \in 1 .. Len(q) + Len(r) |-> t[i]] /\ Len(q) + Len(r) \in Nat
    BY <1>2
  <2> QED BY <2>1, QueueOfFunction DEF IsRecord
<1>4. \A i \in 1 .. Len(q) : t[i] = q[i]
  BY <1>2
<1>5. \A i \in 1 .. Len(r) : t[Len(q) + i] = r[i]
  <2> SUFFICES ASSUME NEW i \in 1 .. Len(r) PROVE t[Len(q) + i] = r[i]
    OBVIOUS
  <2>1. Len(q) + i \in 1 .. Len(q) + Len(r) /\ ~(Len(q) + i <= Len(q)) /\ (Len(q) + i) - Len(q) = i
    BY <1>2
  <2> QED BY <1>2, <2>1
<1> QED BY <1>2, <1>3, <1>4, <1>5 DEF t

\* What a queue leaves in a block, work behind it that does not write the block leaves.
LEMMA LeavesBehind ==
  ASSUME NEW q, IsQueue(q), NEW r, IsQueue(r), NEW d, NEW x, Leaves(d, q, Len(q), x),
         NEW m \in 0 .. Len(r), \A k \in 1 .. m : \A y \in r[k].writes : y[1] # x[1]
  PROVE  Leaves(d, q \o r, Len(q) + m, x)
<1> DEFINE t == q \o r
           n == Len(q)
<1>1. /\ n \in Nat /\ Len(r) \in Nat
      /\ \A i \in 1 .. n : t[i] = q[i]
      /\ \A i \in 1 .. Len(r) : t[n + i] = r[i]
  BY ConcatFacts
<1> HIDE DEF t, n
<1>2. PICK j \in 0 .. n :
        /\ j = 0 => d[x[1]] = x[2]
        /\ j # 0 => x \in q[j].writes
        /\ \A k \in 1 .. n : k >= j => \A y \in q[k].writes : y[1] = x[1] => y[2] = x[2]
  BY DEF Leaves, n
<1>3. j \in 0 .. n + m /\ (j # 0 => x \in t[j].writes)
  BY <1>1, <1>2
<1>4. ASSUME NEW k \in 1 .. n + m, k >= j, NEW y \in t[k].writes, y[1] = x[1] PROVE y[2] = x[2]
  <2>1. CASE k <= n
    <3>1. k \in 1 .. n /\ t[k] = q[k]
      BY <1>1, <2>1
    <3> QED BY <1>2, <1>4, <3>1
  <2>2. CASE k > n
    <3> DEFINE i == k - n
    <3>1. i \in 1 .. m /\ i \in 1 .. Len(r) /\ n + i = k
      BY <1>1, <2>2
    <3>2. t[k] = r[i]
      BY <1>1, <3>1
    <3> HIDE DEF i
    <3> QED BY <1>4, <3>1, <3>2
  <2> QED BY <1>1, <2>1, <2>2
<1>5. Leaves(d, t, n + m, x)
  BY <1>2, <1>3, <1>4 DEF Leaves
<1> QED BY <1>5 DEF t, n

\* What an item of it writes, and nobody else otherwise, the queue leaves.
LEMMA LeavesWritten ==
  ASSUME NEW q, IsQueue(q), NEW r, IsQueue(r), NEW d, NEW x, NEW j \in DOMAIN r, x \in r[j].writes,
         \A k \in DOMAIN r : \A y \in r[k].writes : y[1] = x[1] => y[2] = x[2]
  PROVE  Leaves(d, q \o r, Len(q \o r), x)
<1> DEFINE t == q \o r
           n == Len(q)
           m == Len(r)
           l == Len(t)
<1>1. /\ n \in Nat /\ m \in Nat /\ DOMAIN r = 1 .. m
      /\ \A i \in 1 .. m : t[n + i] = r[i]
      /\ l = n + m
  BY ConcatFacts
<1> HIDE DEF t, n, m, l
<1> DEFINE u == n + j
<1>2. u \in 0 .. l /\ u # 0 /\ x \in t[u].writes
  BY <1>1
<1>3. ASSUME NEW k \in 1 .. l, k >= u, NEW y \in t[k].writes, y[1] = x[1] PROVE y[2] = x[2]
  <2> DEFINE i == k - n
  <2>1. i \in 1 .. m /\ n + i = k
    BY <1>1, <1>3
  <2>2. t[k] = r[i]
    BY <1>1, <2>1
  <2> HIDE DEF i
  <2> QED BY <1>1, <1>3, <2>1, <2>2
<1> HIDE DEF u
<1>4. Leaves(d, t, l, x)
  BY <1>2, <1>3 DEF Leaves
<1> QED BY <1>4 DEF t, l

\* Sound work behind sound work.
LEMMA ComputeGrows ==
  ASSUME NEW q, IsQueue(q), NEW r, IsQueue(r), NEW d, NEW h, NEW records, NEW call,
         ComputeSound(q, d, h, records, call),
         \A i \in DOMAIN r :
           /\ Tidy(r[i], h)
           /\ \A x \in r[i].reads :
                /\ x[1] \in Blocks /\ Leaves(d, q, Len(q), x)
                /\ \A k \in 1 .. i - 1 : \A y \in r[k].writes : y[1] # x[1]
                /\ KeptFor(r, records, call, i, x[1])
  PROVE  ComputeSound(q \o r, d, h, records, call)
<1> DEFINE t == q \o r
           n == Len(q)
           m == Len(r)
<1>1. /\ n \in Nat /\ m \in Nat /\ DOMAIN q = 1 .. n /\ DOMAIN r = 1 .. m /\ DOMAIN t = 1 .. n + m
      /\ \A i \in 1 .. n : t[i] = q[i]
      /\ \A i \in 1 .. m : t[n + i] = r[i]
  BY ConcatFacts
<1>2. ASSUME NEW i \in 1 .. m, NEW x \in r[i].reads
      PROVE  Leaves(d, t, n + (i - 1), x)
  <2>1. i - 1 \in 0 .. Len(r) /\ i \in DOMAIN r
    BY <1>1
  <2>2. Leaves(d, q, Len(q), x) /\ \A k \in 1 .. i - 1 : \A y \in r[k].writes : y[1] # x[1]
    BY <1>2, <2>1
  <2> QED BY <2>1, <2>2, LeavesBehind
<1> HIDE DEF t, n, m
<1> SUFFICES ASSUME NEW i \in DOMAIN t
             PROVE  /\ Tidy(t[i], h)
                    /\ \A x \in t[i].reads : /\ x[1] \in Blocks /\ Leaves(d, t, i - 1, x)
                                             /\ KeptFor(t, records, call, i, x[1])
  BY DEF ComputeSound, t
<1>3. CASE i <= n
  <2>1. i \in DOMAIN q /\ t[i] = q[i] /\ i - 1 \in 0 .. n /\ \A k \in 1 .. i - 1 : t[k] = q[k]
    BY <1>1, <1>3
  <2>2. /\ Tidy(q[i], h)
        /\ \A x \in q[i].reads : /\ x[1] \in Blocks /\ Leaves(d, q, i - 1, x)
                                 /\ KeptFor(q, records, call, i, x[1])
    BY <2>1 DEF ComputeSound
  <2>3. \A x : Leaves(d, q, i - 1, x) => Leaves(d, t, i - 1, x)
    <3> SUFFICES ASSUME NEW x, Leaves(d, q, i - 1, x) PROVE Leaves(d, t, i - 1, x)
      OBVIOUS
    <3>1. PICK j \in 0 .. i - 1 :
            /\ j = 0 => d[x[1]] = x[2]
            /\ j # 0 => x \in q[j].writes
            /\ \A k \in 1 .. i - 1 : k >= j => \A y \in q[k].writes : y[1] = x[1] => y[2] = x[2]
      BY DEF Leaves
    <3>2. j # 0 => j \in 1 .. i - 1
      OBVIOUS
    <3> QED BY <2>1, <3>1, <3>2, SMTT(30) DEF Leaves
  <2>4. \A b : KeptFor(q, records, call, i, b) => KeptFor(t, records, call, i, b)
    <3>1. \A j \in DOMAIN q : j \in DOMAIN t /\ t[j] = q[j]
      BY <1>1
    <3> QED BY <3>1 DEF KeptFor
  <2> QED BY <2>1, <2>2, <2>3, <2>4
<1>4. CASE i > n
  <2> DEFINE u == i - n
  <2>1. u \in 1 .. m /\ n + u = i /\ i - 1 = n + (u - 1) /\ u \in DOMAIN r
    BY <1>1, <1>4
  <2>2. t[i] = r[u]
    BY <1>1, <2>1
  <2> HIDE DEF u
  <2>3. \A b : KeptFor(r, records, call, u, b) => KeptFor(t, records, call, i, b)
    <3>1. \A j \in DOMAIN r : j >= u => n + j \in DOMAIN t /\ t[n + j] = r[j] /\ n + j >= i
      BY <1>1, <2>1
    <3> QED BY <3>1 DEF KeptFor
  <2>4. \A x \in r[u].reads : Leaves(d, t, i - 1, x)
    BY <1>2, <2>1
  <2> QED BY <2>1, <2>2, <2>3, <2>4
<1> QED BY <1>1, <1>3, <1>4

\* Operations that launch twice neither read what they write nor upload; those that
\* copy to the host wait for it, and do not upload.
LEMMA OperationsOrder ==
  \A op \in Operations :
    /\ op.launches \in {1, 2}
    /\ op.launches = 2 => op.aliases = FALSE /\ op.inPlace = FALSE /\ op.uploads = FALSE
    /\ op.readsBack => op.syncs /\ op.uploads = FALSE
<1> DEFINE F == {"launches", "aliases", "inPlace", "uploads", "readsBack", "syncs"}
           Is(op, l, a, i, u, r, s) ==
             /\ op.launches = l /\ op.aliases = a /\ op.inPlace = i /\ op.uploads = u
             /\ op.readsBack = r /\ op.syncs = s
<1>1. \A n : /\ IsRecord(Kernel(n), DOMAIN Kernel(n)) /\ F \subseteq DOMAIN Kernel(n)
             /\ Is(Kernel(n), 1, FALSE, FALSE, FALSE, FALSE, FALSE)
  BY DEF Kernel, IsRecord
<1> USE DEF IsRecord
<1>2. /\ Is(Matmul, 1, FALSE, FALSE, FALSE, FALSE, FALSE)
      /\ Is(MatmulExpert, 1, FALSE, FALSE, FALSE, FALSE, FALSE)
      /\ F \subseteq DOMAIN MatmulExpert
  BY <1>1 DEF Matmul, MatmulExpert
<1>3. Is(MatmulInt8Expert, 1, FALSE, FALSE, FALSE, FALSE, FALSE)
  BY <1>2 DEF MatmulInt8Expert
<1>4. /\ Is(Add, 2, FALSE, FALSE, FALSE, FALSE, FALSE) /\ Is(Mul, 1, FALSE, FALSE, FALSE, FALSE, FALSE)
      /\ Is(RmsNorm, 1, TRUE, FALSE, FALSE, FALSE, FALSE)
      /\ Is(ApplyActivation, 1, TRUE, FALSE, FALSE, FALSE, FALSE)
  BY <1>1 DEF Add, Mul, RmsNorm, ApplyActivation
<1>5. /\ Is(ApplyRoPE, 1, FALSE, TRUE, FALSE, FALSE, FALSE)
      /\ Is(CausalAttention, 1, TRUE, FALSE, FALSE, FALSE, FALSE)
      /\ Is(Zero, 1, FALSE, FALSE, FALSE, FALSE, FALSE)
  BY <1>1 DEF ApplyRoPE, CausalAttention, Zero
<1>6. Is(RouteTopK, 1, FALSE, TRUE, FALSE, TRUE, TRUE)
  BY <1>1 DEF RouteTopK
<1>7. Is(GatherRows, 1, TRUE, FALSE, TRUE, FALSE, TRUE) /\ F \subseteq DOMAIN GatherRows
  BY <1>1 DEF GatherRows
<1>8. Is(ScatterAddRows, 1, TRUE, TRUE, TRUE, FALSE, TRUE)
  BY <1>7 DEF ScatterAddRows
<1> QED BY <1>2, <1>3, <1>4, <1>5, <1>6, <1>7, <1>8 DEF Operations

\* A call's temporaries are nobody else's, and of the backend's pool; the pools keep
\* what is referred to.
LEMMA BegunPools ==
  ASSUME Inv, Ordered, NEW op, NEW ins, NEW outs, NEW views, Takeable(op, ins, outs, views),
         NEW c, NEW s, Begun(op, ins, outs, views, c, s)
  PROVE  /\ s.blocks \cap (Elsewhere \cup Owned(c.records)) = {}
         /\ s.blocks \subseteq s.heap.pool["tensor"].active
         /\ Held(s.heap, "transfer") \subseteq Held(heap, "transfer")
         /\ \A p \in Pools : heap.pool[p].active \cap (Elsewhere \cup Owned(c.records))
                               \subseteq s.heap.pool[p].active
<1> DEFINE pinned == Pinned(ins, outs, views)
           kept == Elsewhere \cup pinned \cup Owned(c.records)
           h == Reclaimed(heap, kept)
           g == s.heap
           E == Elsewhere \cup Owned(c.records)
<1>1. /\ HeapOK(g) /\ pinned \subseteq Elsewhere /\ Active(g) = E \cup s.blocks
  BY BegunOK
<1>2. kept = E
  BY <1>1
<1> HIDE DEF kept, pinned
<1>3. /\ HeapOK(h) /\ Active(h) = Active(heap) \cap kept
      /\ LetsGo(h, heap, Active(heap) \ kept)
  BY Referred, ReclaimedOK
<1>4. s = IF c.threw THEN [heap |-> h, blocks |-> {}] ELSE Scratch(h, op)
  BY DEF Begun, kept, pinned
<1>5. E \subseteq Active(heap)
  <2>1. Owned(c.records) \subseteq Owned(pending)
    <3>1. c \in Collected \/ c = [records |-> pending, threw |-> FALSE]
      BY DEF Begun
    <3> QED BY <3>1, CollectedOK DEF Inv, Shapes
  <2> QED BY <2>1, Referred DEF References
<1> HIDE DEF h
<1>6. s.blocks \cap Active(h) = {} /\ g.pool["transfer"] = h.pool["transfer"]
  <2>1. CASE c.threw
    BY <1>4, <2>1
  <2>2. CASE ~c.threw
    <3>1. op.scratch \in Nat /\ s = Scratch(h, op)
      BY <1>4, <2>2, OperationsOK DEF Takeable
    <3> QED BY <1>3, <3>1, ScratchOK
  <2> QED BY <2>1, <2>2
<1> HIDE DEF g, E
<1>7. s.blocks \cap E = {}
  BY <1>2, <1>3, <1>5, <1>6
<1>8. \A p \in Pools : heap.pool[p].active \subseteq Active(heap)
  BY DEF Pools, Active
<1>9. \A p \in Pools : /\ h.pool[p].active = heap.pool[p].active \cap E
                       /\ Held(h, p) \subseteq Held(heap, p)
  BY <1>2, <1>3, <1>8 DEF LetsGo
<1>10. Held(g, "transfer") \subseteq Held(heap, "transfer")
  BY <1>6, <1>9 DEF Held, Pools
<1>11. Active(g) = g.pool["tensor"].active \cup g.pool["transfer"].active
  BY DEF Active
<1>12. g.pool["transfer"].active = heap.pool["transfer"].active \cap E
  BY <1>6, <1>9 DEF Pools
<1>13. heap.pool["tensor"].active \cap heap.pool["transfer"].active = {}
  BY Referred, PoolSides
<1>14. s.blocks \subseteq g.pool["tensor"].active
  BY <1>1, <1>7, <1>11, <1>12
<1>15. heap.pool["tensor"].active \cap E \subseteq g.pool["tensor"].active
  BY <1>1, <1>11, <1>12, <1>13
<1>16. \A p \in Pools : heap.pool[p].active \cap E \subseteq g.pool[p].active
  BY <1>12, <1>15 DEF Pools
<1> QED BY <1>7, <1>10, <1>14, <1>16 DEF g, E

\* Somebody keeps mine until work r has run: the call that waits for the stream, or a
\* record whose event is behind it.
Guarded(r, mine, records, call) ==
  \/ call.pc \in {"syncing", "aborting"} /\ call.owners = mine
  \/ r # <<>> /\ \E k \in ToSet(records) : k.owners = mine /\ k.event = r[Len(r)].id

\* What is guarded is kept for each piece of the work.
LEMMA GuardedKept ==
  ASSUME NEW r, IsQueue(r), NEW mine, NEW records, NEW call, Guarded(r, mine, records, call),
         NEW i \in DOMAIN r, NEW b \in mine
  PROVE  KeptFor(r, records, call, i, b)
<1>1. CASE call.pc \in {"syncing", "aborting"} /\ call.owners = mine
  BY <1>1 DEF KeptFor
<1>2. CASE r # <<>> /\ \E k \in ToSet(records) : k.owners = mine /\ k.event = r[Len(r)].id
  <2>1. Len(r) \in DOMAIN r /\ Len(r) >= i
    BY QueueFacts
  <2> QED BY <1>2, <2>1 DEF KeptFor
<1> QED BY <1>1, <1>2 DEF Guarded

\* Uploads read nothing.
LEMMA UploadsGrow ==
  ASSUME NEW q, IsQueue(q), NEW r, IsQueue(r), NEW d, NEW h, NEW records, NEW call,
         ComputeSound(q, d, h, records, call), NEW blocks, NEW n,
         \A i \in DOMAIN r : \E b \in blocks : r[i].reads = {} /\ r[i].writes = {<<b, n>>},
         blocks \cap Held(h, "transfer") = {}
  PROVE  ComputeSound(q \o r, d, h, records, call)
<1>1. \A i \in DOMAIN r : r[i].reads = {} /\ Tidy(r[i], h)
  BY DEF Tidy
<1> QED BY <1>1, ComputeGrows

\* Launches read what is there, write outputs of their own, and are guarded.
LEMMA LaunchesGrow ==
  ASSUME NEW q, IsQueue(q), NEW r, IsQueue(r), NEW d, NEW h, NEW records, NEW call,
         ComputeSound(q, d, h, records, call), NEW inputs, NEW outputs, Does(r, inputs, outputs),
         NEW mine, NEW n, Guarded(r, mine, records, call),
         \A x \in inputs : x[1] \in Blocks /\ x[1] \in mine /\ Leaves(d, q, Len(q), x),
         Len(r) > 1 => \A x \in inputs, y \in outputs : y[1] # x[1],
         \A y \in outputs : y[2] = n /\ y[1] \notin Held(h, "transfer")
  PROVE  ComputeSound(q \o r, d, h, records, call)
<1>1. Len(r) \in Nat /\ DOMAIN r = 1 .. Len(r)
  BY QueueFacts
<1>2. \A i \in DOMAIN r : r[i].reads = inputs /\ r[i].writes = outputs
  BY DEF Does
<1>3. ASSUME NEW i \in DOMAIN r
      PROVE  /\ Tidy(r[i], h)
             /\ \A x \in r[i].reads :
                  /\ x[1] \in Blocks /\ Leaves(d, q, Len(q), x)
                  /\ \A k \in 1 .. i - 1 : \A y \in r[k].writes : y[1] # x[1]
                  /\ KeptFor(r, records, call, i, x[1])
  <2>1. Tidy(r[i], h)
    BY <1>2 DEF Tidy
  <2>2. ASSUME NEW x \in inputs, NEW k \in 1 .. i - 1, NEW y \in r[k].writes PROVE y[1] # x[1]
    <3>1. k \in DOMAIN r /\ Len(r) > 1
      BY <1>1, <1>3
    <3> QED BY <1>2, <2>2, <3>1
  <2>3. \A x \in inputs : KeptFor(r, records, call, i, x[1])
    BY GuardedKept
  <2> QED BY <1>2, <2>1, <2>2, <2>3
<1> QED BY <1>3, ComputeGrows

\* Copies to the host read what the launches wrote, while the call waits.
LEMMA ReadBacksGrow ==
  ASSUME NEW q, IsQueue(q), NEW r, IsQueue(r), NEW d, NEW h, NEW records, NEW call,
         ComputeSound(q, d, h, records, call), NEW blocks \in SUBSET Blocks, NEW n, NEW mine,
         \A i \in DOMAIN r : \E b \in blocks : r[i].reads = {<<b, n>>} /\ r[i].writes = {},
         r # <<>> => /\ Guarded(<<>>, mine, records, call) /\ blocks \subseteq mine
                     /\ \A b \in blocks : Leaves(d, q, Len(q), <<b, n>>)
  PROVE  ComputeSound(q \o r, d, h, records, call)
<1>1. Len(r) \in Nat /\ DOMAIN r = 1 .. Len(r) /\ (r = <<>> <=> Len(r) = 0)
  BY QueueFacts
<1>2. ASSUME NEW i \in DOMAIN r
      PROVE  /\ Tidy(r[i], h)
             /\ \A x \in r[i].reads :
                  /\ x[1] \in Blocks /\ Leaves(d, q, Len(q), x)
                  /\ \A k \in 1 .. i - 1 : \A y \in r[k].writes : y[1] # x[1]
                  /\ KeptFor(r, records, call, i, x[1])
  <2>1. PICK b \in blocks : r[i].reads = {<<b, n>>} /\ r[i].writes = {}
    BY <1>2
  <2>2. r # <<>>
    BY <1>1, <1>2
  <2>3. \A k \in 1 .. i - 1 : r[k].writes = {}
    BY <1>1, <1>2
  <2>4. KeptFor(r, records, call, i, b)
    BY <2>2 DEF Guarded, KeptFor
  <2>5. Leaves(d, q, Len(q), <<b, n>>)
    BY <2>2
  <2>6. Tidy(r[i], h)
    BY <2>1 DEF Tidy
  <2> QED BY <2>1, <2>3, <2>4, <2>5, <2>6
<1> QED BY <1>2, ComputeGrows

\* What a call's work needs of the queue it goes behind, of the blocks and of its guards:
\* uploads u, launches l and copies to the host r.
CallReady(q, u, l, r, d, h, records, call, op, reads, outs, blocks, n, mine) ==
  /\ IsQueue(q) /\ IsQueue(u) /\ IsQueue(l) /\ IsQueue(r)
  /\ ComputeSound(q, d, h, records, call)
  /\ Fill(op, u, blocks, n) /\ ReadBack(op, r, blocks, n)
  /\ Does(l, Inputs(op, reads, outs, blocks, n), Outputs(op, outs, blocks, n))
  /\ \A x \in reads \cup Now(outs) :
       x[1] \in Blocks /\ x[1] \in mine \ blocks /\ Leaves(d, q, Len(q), x)
  /\ blocks \in SUBSET Blocks /\ blocks \subseteq mine
  /\ (outs \cup blocks) \cap Held(h, "transfer") = {}
  /\ Guarded(l, mine, records, call)
  /\ Len(l) > 1 => /\ op.inPlace = FALSE /\ op.uploads = FALSE
                   /\ \A x \in reads : x[1] \notin outs
  /\ r # <<>> => Guarded(<<>>, mine, records, call) /\ op.uploads = FALSE /\ l # <<>>

\* It is ordered there.
LEMMA CallGrows ==
  ASSUME NEW q, NEW u, NEW l, NEW r, NEW d, NEW h, NEW records, NEW call, NEW op, NEW reads,
         NEW outs, NEW blocks, NEW n, NEW mine,
         CallReady(q, u, l, r, d, h, records, call, op, reads, outs, blocks, n, mine)
  PROVE  ComputeSound(((q \o u) \o l) \o r, d, h, records, call)
<1>0. /\ IsQueue(q) /\ IsQueue(u) /\ IsQueue(l) /\ IsQueue(r)
      /\ ComputeSound(q, d, h, records, call)
      /\ Fill(op, u, blocks, n) /\ ReadBack(op, r, blocks, n)
      /\ Does(l, Inputs(op, reads, outs, blocks, n), Outputs(op, outs, blocks, n))
      /\ \A x \in reads \cup Now(outs) :
           x[1] \in Blocks /\ x[1] \in mine \ blocks /\ Leaves(d, q, Len(q), x)
      /\ blocks \in SUBSET Blocks /\ blocks \subseteq mine
      /\ (outs \cup blocks) \cap Held(h, "transfer") = {}
      /\ Guarded(l, mine, records, call)
      /\ Len(l) > 1 => /\ op.inPlace = FALSE /\ op.uploads = FALSE
                       /\ \A x \in reads : x[1] \notin outs
      /\ r # <<>> => Guarded(<<>>, mine, records, call) /\ op.uploads = FALSE /\ l # <<>>
  BY DEF CallReady
<1> USE <1>0
<1> DEFINE inputs == Inputs(op, reads, outs, blocks, n)
           outputs == Outputs(op, outs, blocks, n)
           v == q \o u
           w == v \o l
<1>1. IsQueue(v) /\ IsQueue(w) /\ Len(v) = Len(q) + Len(u) /\ Len(u) \in 0 .. Len(u)
      /\ DOMAIN u = 1 .. Len(u)
  BY ConcatFacts
<1>2. ComputeSound(v, d, h, records, call)
  <2>1. \A i \in DOMAIN u : \E b \in blocks : u[i].reads = {} /\ u[i].writes = {<<b, n>>}
    BY DEF Fill
  <2>2. blocks \cap Held(h, "transfer") = {}
    OBVIOUS
  <2> QED BY <2>1, <2>2, UploadsGrow
<1>3. \A i \in DOMAIN u : \A y \in u[i].writes : y[1] \in blocks /\ y[2] = n
  BY DEF Fill
<1>4. ASSUME NEW x \in reads \cup Now(outs) PROVE Leaves(d, v, Len(v), x)
  <2>1. \A k \in 1 .. Len(u) : \A y \in u[k].writes : y[1] # x[1]
    BY <1>1, <1>3
  <2> QED BY <1>1, <2>1, LeavesBehind
<1>5. ASSUME op.uploads, NEW b \in blocks PROVE Leaves(d, v, Len(v), <<b, n>>)
  <2>1. PICK i \in DOMAIN u : u[i].writes = {<<b, n>>}
    BY <1>5 DEF Fill
  <2> DEFINE x == <<b, n>>
  <2>2. x[1] = b /\ x[2] = n /\ x \in u[i].writes
    BY <2>1
  <2> HIDE DEF x
  <2>3. Leaves(d, v, Len(v), x)
    BY <1>3, <2>2, LeavesWritten
  <2> QED BY <2>3 DEF x
<1>6. \A x \in inputs : x[1] \in Blocks /\ x[1] \in mine /\ Leaves(d, v, Len(v), x)
  <2> SUFFICES ASSUME NEW x \in inputs
               PROVE  x[1] \in Blocks /\ x[1] \in mine /\ Leaves(d, v, Len(v), x)
    OBVIOUS
  <2>1. CASE x \in reads \cup Now(outs)
    BY <1>4, <2>1
  <2>2. CASE op.uploads /\ \E b \in blocks : x = <<b, n>>
    BY <1>5, <2>2
  <2> QED BY <2>1, <2>2 DEF Inputs
<1>7. /\ \A y \in outputs : y[2] = n /\ y[1] \in outs \cup blocks
      /\ \A y \in outputs : y[1] \notin Held(h, "transfer")
  BY DEF Outputs
<1>8. Len(l) > 1 => \A x \in inputs, y \in outputs : y[1] # x[1]
  <2> SUFFICES ASSUME Len(l) > 1, NEW x \in inputs, NEW y \in outputs PROVE y[1] # x[1]
    OBVIOUS
  <2>1. x \in reads
    BY DEF Inputs
  <2>2. x[1] \notin outs /\ x[1] \notin blocks
    BY <2>1
  <2> QED BY <1>7, <2>2
<1>9. ComputeSound(w, d, h, records, call)
  <2> HIDE DEF inputs, outputs, v
  <2>1. Does(l, inputs, outputs)
    BY DEF inputs, outputs
  <2>2. \A y \in outputs : y[2] = n /\ y[1] \notin Held(h, "transfer")
    BY <1>7
  <2> QED BY <1>1, <1>2, <1>6, <1>8, <2>1, <2>2, LaunchesGrow
<1>10. ASSUME r # <<>>, NEW b \in blocks PROVE Leaves(d, w, Len(w), <<b, n>>)
  <2>1. 1 \in DOMAIN l
    BY <1>10, QueueFacts
  <2> DEFINE x == <<b, n>>
  <2>2. x \in outputs
    BY <1>10 DEF Outputs
  <2>3. x[1] = b /\ x[2] = n
    OBVIOUS
  <2> HIDE DEF x, outputs, v, w
  <2>4. \A k \in DOMAIN l : l[k].writes = outputs
    BY DEF Does, outputs
  <2>5. Leaves(d, v \o l, Len(v \o l), x)
    BY <1>1, <1>7, <2>1, <2>2, <2>3, <2>4, LeavesWritten
  <2> QED BY <2>5 DEF x, w
<1> HIDE DEF w, v
<1>11. \A i \in DOMAIN r : \E b \in blocks : r[i].reads = {<<b, n>>} /\ r[i].writes = {}
  BY DEF ReadBack
<1>12. ComputeSound(w \o r, d, h, records, call)
  BY <1>1, <1>9, <1>10, <1>11, ReadBacksGrow
<1> QED BY <1>12 DEF w, v

\* A record more keeps the others.
LEMMA AppendKeeps ==
  ASSUME NEW s, IsQueue(s), NEW r
  PROVE  ToSet(s) \subseteq ToSet(Append(s, r)) /\ r \in ToSet(Append(s, r))
<1> DEFINE t == Append(s, r)
<1>1. /\ s \in Seq(ToSet(s) \cup {r}) /\ Len(s) \in Nat /\ DOMAIN s = 1 .. Len(s)
  <2>1. s \in Seq(ToSet(s))
    BY DEF IsQueue
  <2> QED BY <2>1, LenProperties
<1>2. /\ DOMAIN t = 1 .. Len(s) + 1 /\ t[Len(s) + 1] = r
      /\ \A i \in 1 .. Len(s) : t[i] = s[i]
  BY <1>1, AppendProperties, LenProperties
<1> HIDE DEF t
<1>3. \A i \in DOMAIN s : i \in DOMAIN t /\ t[i] = s[i]
  BY <1>1, <1>2
<1>4. Len(s) + 1 \in DOMAIN t
  BY <1>1, <1>2
<1> QED BY <1>2, <1>3, <1>4 DEF ToSet, t

\* What a call leaves of the state it found: everything but its own work.
LEMMA CallLeaves ==
  ASSUME Inv, Inv', Types, Ordered, exec.pc = "idle",
         NEW op, NEW ins, NEW outs, NEW views, Takeable(op, ins, outs, views),
         NEW c, NEW s, Begun(op, ins, outs, views, c, s), Ended(op, ins, outs, views, c, s)
  PROVE  /\ Lasting /\ Held(heap', "transfer") \subseteq Held(s.heap, "transfer")
         /\ ComputeSound(streams["compute"], holds', heap', pending', exec')
         /\ CopySound(streams'["copy"], streams'["compute"], holds', heap', exec')
         /\ TransferSound(streams', holds', heap', exec'.owners \cup Owned(pending'), weights', copier')
         /\ DataSound(holds', heap', weights', tensors')
<1> DEFINE q == streams["compute"]
           mine == Pinned(ins, outs, views) \cup s.blocks
<1>1. /\ HeapOK(s.heap) /\ IsQueue(c.records) /\ Pinned(ins, outs, views) \subseteq Elsewhere
      /\ s.blocks \subseteq Blocks
  BY BegunOK
<1>2. /\ s.blocks \cap (Elsewhere \cup Owned(c.records)) = {}
      /\ Held(s.heap, "transfer") \subseteq Held(heap, "transfer")
      /\ \A p \in Pools : heap.pool[p].active \cap (Elsewhere \cup Owned(c.records))
                            \subseteq s.heap.pool[p].active
  BY BegunPools
<1>3. /\ Reclaim(s.heap) /\ UNCHANGED <<tensors, weights, copier>> /\ Elsewhere' = Elsewhere
      /\ exec'.owners \subseteq mine
  BY DEF Ended, Elsewhere, Finish
<1>4. /\ Owned(pending') \subseteq Owned(c.records) \cup mine
      /\ ToSet(c.records) \subseteq ToSet(pending')
  <2>1. CASE pending' = c.records
    BY <2>1
  <2>2. CASE \E event, owners : /\ owners \subseteq mine
                                /\ pending' = Append(c.records, Finished(event, owners))
    <3>1. PICK event, owners : /\ owners \subseteq mine
                               /\ pending' = Append(c.records, Finished(event, owners))
      BY <2>2
    <3> DEFINE r == Finished(event, owners)
    <3>2. r.owners \subseteq mine
      BY <3>1 DEF Finished
    <3>3. pending' = Append(c.records, r)
      BY <3>1
    <3> HIDE DEF r, mine
    <3> QED BY <1>1, <3>2, <3>3, QueueAppend, AppendKeeps
  <2> QED BY <2>1, <2>2 DEF Ended
<1> HIDE DEF mine
<1>5. References' \subseteq Blocks
  BY ReferredNext
<1>6. Lasting /\ \A p \in Pools : Held(heap', p) \subseteq Held(s.heap, p)
  BY <1>1, <1>2, <1>3, <1>5, ReclaimLasts
<1>7. /\ \A t \in Streams \ {"compute"} : streams'[t] = streams[t]
  BY DEF Ended, Queue, Types, IsRecord
<1>8. CopySound(streams'["copy"], streams'["compute"], holds', heap', exec')
  <2>1. streams'["copy"] = <<>>
    BY <1>7, CopyWaits, StreamNames
  <2> QED BY <2>1, NothingQueued
<1>9. ComputeSound(streams["compute"], holds', heap', pending', exec')
  <2>1. ASSUME NEW i \in DOMAIN q, NEW b \in Blocks, KeptFor(q, pending, exec, i, b)
        PROVE  KeptFor(q, pending', exec', i, b)
    <3>1. IsQueue(pending) /\ c \in Collected \cup {[records |-> pending, threw |-> FALSE]}
      BY DEF Begun, Inv, Shapes
    <3>2. KeptFor(q, c.records, exec, i, b)
      BY <2>1, <3>1, KeptCollected
    <3> QED BY <1>4, <3>2 DEF KeptFor
  <2>2. \A b \in Held(heap', "transfer") : b \in Held(heap, "transfer")
    BY <1>2, <1>6 DEF Pools
  <2> HIDE DEF q
  <2> QED BY <1>6, <2>1, <2>2, ComputeLasts DEF q
<1>10. ASSUME NEW x \in Copiers, copier[x].block # NoBlock
       PROVE  copier[x].block \notin exec'.owners \cup Owned(pending')
  <2> DEFINE b == copier[x].block
  <2>1. b \in heap.pool["transfer"].active /\ b \notin Owned(pending) /\ b \in Elsewhere
    BY <1>10, TransferAlone DEF Elsewhere
  <2>2. Owned(c.records) \subseteq Owned(pending)
    <3>1. c \in Collected \/ c = [records |-> pending, threw |-> FALSE]
      BY DEF Begun
    <3> QED BY <3>1, CollectedOK DEF Inv, Shapes
  <2>3. b \notin s.blocks
    BY <1>2, <2>1
  <2>4. b \notin tensors
    <3>1. tensors \subseteq heap.pool["tensor"].active
      BY DEF Ordered, DataSound
    <3>2. heap.pool["tensor"].active \cap heap.pool["transfer"].active = {}
      BY Referred, PoolSides
    <3> QED BY <2>1, <3>1, <3>2
  <2>5. \A e \in Experts : weights[e] # b
    BY <1>10 DEF Ordered, TransferSound
  <2> HIDE DEF b
  <2>6. b \notin Pinned(ins, outs, views)
    <3>1. \A y \in views : y[1] # b
      <4>1. CASE views = {}
        BY <4>1
      <4>2. CASE \E e \in Experts : weights[e] # NoBlock /\ views = {<<weights[e], e>>}
        BY <2>5, <4>2
      <4> QED BY <4>1, <4>2 DEF WeightViews, Takeable
    <3> QED BY <2>4, <3>1 DEF Pinned, Takeable
  <2>7. b \notin mine
    BY <2>3, <2>6 DEF mine
  <2> QED BY <1>3, <1>4, <2>1, <2>2, <2>7 DEF b
<1>11. /\ TransferSound(streams', holds', heap', exec'.owners \cup Owned(pending'), weights', copier')
       /\ \A e \in Experts : weights'[e] # NoBlock =>
            weights'[e] \in heap'.pool["transfer"].active /\ holds'[weights'[e]] = e
  <2>1. \A x \in Copiers : streams'[x] = streams[x]
    BY <1>7, StreamNames
  <2>2. copier' = copier /\ weights' = weights
    BY <1>3
  <2> QED BY <1>6, <1>10, <2>1, <2>2, TransfersSame
<1>12. tensors' \subseteq heap'.pool["tensor"].active
  <2>1. tensors' \subseteq tensors
    BY <1>3
  <2> QED BY <1>6, <2>1, TensorsStay
<1>13. DataSound(holds', heap', weights', tensors')
  BY <1>11, <1>12 DEF DataSound
<1> QED BY <1>6, <1>8, <1>9, <1>11, <1>13 DEF Pools

\* What a call is given is there for it, and its own blocks are the backend's.
LEMMA CallFinds ==
  ASSUME Inv, Inv', Types, Ordered, exec.pc = "idle",
         NEW op, NEW ins, NEW outs, NEW views, Takeable(op, ins, outs, views),
         NEW c, NEW s, Begun(op, ins, outs, views, c, s), Ended(op, ins, outs, views, c, s)
  PROVE  /\ \A x \in (Now(ins) \cup views) \cup Now(outs) :
              /\ x[1] \in Blocks /\ x[1] \in Pinned(ins, outs, views) \ s.blocks
              /\ Leaves(holds', streams["compute"], Len(streams["compute"]), x)
         /\ (outs \cup s.blocks) \cap Held(heap', "transfer") = {}
         /\ ~op.aliases => \A x \in Now(ins) \cup views : x[1] \notin outs
<1> DEFINE q == streams["compute"]
           L(d, x) == Leaves(d, q, Len(q), x)
<1>1. /\ HeapOK(s.heap) /\ Pinned(ins, outs, views) \subseteq Elsewhere
  BY BegunOK
<1>2. /\ s.blocks \cap (Elsewhere \cup Owned(c.records)) = {}
      /\ s.blocks \subseteq s.heap.pool["tensor"].active
      /\ \A p \in Pools : heap.pool[p].active \cap (Elsewhere \cup Owned(c.records))
                            \subseteq s.heap.pool[p].active
  BY BegunPools
<1>3. Lasting /\ Held(heap', "transfer") \subseteq Held(s.heap, "transfer")
  BY CallLeaves
<1>4. Elsewhere' = Elsewhere /\ Elsewhere \subseteq References /\ References \subseteq Blocks
  BY Referred DEF Ended, Elsewhere, References
<1>5. \A b \in Elsewhere : holds'[b] = holds[b]
  BY <1>3, <1>4, ReferredNext DEF Lasting
<1>6. ins \cup outs \subseteq Pinned(ins, outs, views) /\ \A x \in views : x[1] \in Pinned(ins, outs, views)
  BY DEF Pinned
<1>7. tensors \subseteq heap.pool["tensor"].active
  BY DEF Ordered, DataSound
<1>8. ASSUME NEW x \in (Now(ins) \cup views) \cup Now(outs)
      PROVE  x[1] \in Pinned(ins, outs, views) /\ L(holds, x)
  <2>1. CASE \E b \in ins \cup outs : x = <<b, Latest(b)>>
    <3>1. PICK b \in ins \cup outs : x = <<b, Latest(b)>>
      BY <2>1
    <3>2. b \in Blocks /\ x[1] = b
      BY <1>1, <1>4, <1>6, <3>1
    <3> QED BY <1>6, <3>1, <3>2, NowLeaves
  <2>2. CASE x \in views
    <3>1. PICK e \in Experts : weights[e] # NoBlock /\ views = {<<weights[e], e>>}
      BY <2>2 DEF WeightViews, Takeable
    <3> QED BY <1>6, <2>2, <3>1, ViewLeaves
  <2> QED BY <2>1, <2>2 DEF Now
<1>9. ASSUME NEW x \in (Now(ins) \cup views) \cup Now(outs)
      PROVE  /\ x[1] \in Blocks /\ x[1] \in Pinned(ins, outs, views) \ s.blocks
             /\ L(holds', x)
  <2>1. x[1] \in Pinned(ins, outs, views) /\ L(holds, x)
    BY <1>8
  <2>2. x[1] \in Elsewhere
    BY <1>1, <2>1
  <2>3. L(holds', x)
    BY <1>5, <2>1, <2>2, LeavesStays
  <2> HIDE DEF L
  <2> QED BY <1>2, <1>4, <2>1, <2>2, <2>3
<1>10. (outs \cup s.blocks) \cap Held(heap', "transfer") = {}
  <2>1. outs \subseteq s.heap.pool["tensor"].active
    BY <1>1, <1>2, <1>6, <1>7 DEF Takeable, Pools
  <2>2. /\ s.heap.pool["tensor"].active \subseteq Held(s.heap, "tensor")
        /\ Held(s.heap, "tensor") \cap Held(s.heap, "transfer") = {}
    BY <1>1, PoolSides
  <2> QED BY <1>2, <1>3, <2>1, <2>2
<1>11. ASSUME ~op.aliases, NEW x \in Now(ins) \cup views PROVE x[1] \notin outs
  <2>1. CASE x \in Now(ins)
    BY <1>11, <2>1 DEF Begun, Operands, Now
  <2>2. CASE x \in views
    <3>1. PICK e \in Experts : weights[e] # NoBlock /\ views = {<<weights[e], e>>}
      BY <2>2 DEF WeightViews, Takeable
    <3>2. x[1] \in heap.pool["transfer"].active
      BY <2>2, <3>1 DEF Ordered, DataSound
    <3>3. heap.pool["tensor"].active \cap heap.pool["transfer"].active = {}
      BY Referred, PoolSides
    <3> QED BY <1>7, <3>2, <3>3 DEF Takeable
  <2> QED BY <2>1, <2>2
<1> QED BY <1>9, <1>10, <1>11

\* Work queued in two pieces, and in one.
LEMMA InTwo ==
  ASSUME NEW q, IsQueue(q), NEW u, IsQueue(u), NEW l, IsQueue(l)
  PROVE  q \o (u \o l) = (q \o u) \o l
<1> DEFINE S == ToSet(q) \cup ToSet(u) \cup ToSet(l)
<1>1. q \in Seq(S) /\ u \in Seq(S) /\ l \in Seq(S)
  <2>1. q \in Seq(ToSet(q)) /\ u \in Seq(ToSet(u)) /\ l \in Seq(ToSet(l))
    BY DEF IsQueue
  <2> QED BY <2>1
<1> HIDE DEF S
<1> QED BY <1>1, ConcatAssociative

\* An empty piece.
LEMMA InOne == ASSUME NEW q, IsQueue(q) PROVE q \o <<>> = q
BY ConcatEmptySeq DEF IsQueue

\* Work queued in three pieces.
LEMMA InThree ==
  ASSUME NEW q, IsQueue(q), NEW u, IsQueue(u), NEW l, IsQueue(l), NEW r, IsQueue(r),
         NEW v, v = u \o l, NEW w, w = q \o u
  PROVE  q \o (v \o r) = (w \o l) \o r
<1>1. IsQueue(v) /\ IsQueue(w)
  BY ConcatFacts
<1>2. q \o (v \o r) = (q \o v) \o r
  BY <1>1, InTwo, SMTT(30)
<1>3. q \o v = w \o l
  BY InTwo, SMTT(40)
<1> QED BY <1>2, <1>3

\* The end event follows the last launch.
LEMMA EventBehind ==
  ASSUME NEW u, IsQueue(u), NEW l, IsQueue(l), l # <<>>
  PROVE  /\ RecordEvent(u \o l) = l[Len(l)].id
         /\ RecordEvent(l) = l[Len(l)].id
<1> DEFINE t == u \o l
<1>1. /\ IsQueue(t) /\ Len(t) = Len(u) + Len(l) /\ Len(u) \in Nat /\ Len(l) \in Nat
      /\ \A i \in 1 .. Len(l) : t[Len(u) + i] = l[i]
  BY ConcatFacts
<1> HIDE DEF t
<1>2. Len(l) # 0 /\ (t = <<>> <=> Len(t) = 0)
  BY <1>1, QueueFacts
<1>3. t # <<>> /\ t[Len(t)] = l[Len(l)]
  BY <1>1, <1>2
<1>4. RecordEvent(t) = l[Len(l)].id
  BY <1>3 DEF RecordEvent, Last
<1> QED BY <1>4 DEF RecordEvent, Last, t

\* Some of the launches.
LEMMA SomeLaunches ==
  ASSUME NEW l, IsQueue(l), NEW k \in 0 .. Len(l), NEW inputs, NEW outputs, Does(l, inputs, outputs)
  PROVE  /\ IsQueue(SubSeq(l, 1, k)) /\ Len(SubSeq(l, 1, k)) = k
         /\ Does(SubSeq(l, 1, k), inputs, outputs)
         /\ \A i \in 1 .. k : SubSeq(l, 1, k)[i] = l[i]
<1> DEFINE t == SubSeq(l, 1, k)
<1>1. l \in Seq(ToSet(l))
  BY DEF IsQueue
<1>2. /\ Len(l) \in Nat /\ DOMAIN l = 1 .. Len(l)
      /\ \A i \in 1 .. k : l[i] \in ToSet(l)
  BY <1>1, LenProperties DEF ToSet
<1>3. /\ Len(t) = k /\ DOMAIN t = 1 .. k /\ k \in Nat
      /\ \A i \in 1 .. k : t[i] = l[i]
      /\ t = [i \in 1 .. k |-> t[i]]
  BY <1>1, <1>2, SubSeqProperties, LenProperties
<1> HIDE DEF t
<1>4. IsQueue(t)
  BY <1>3, QueueOfFunction DEF IsRecord
<1>5. Does(t, inputs, outputs)
  BY <1>2, <1>3 DEF Does
<1> QED BY <1>3, <1>4, <1>5 DEF t

\* The work of a call, on the compute stream.
CallWork(op, reads, outs, s, u, l, r) ==
  /\ IsQueue(u) /\ IsQueue(l) /\ IsQueue(r)
  /\ Fill(op, u, s.blocks, exec.calls + 1) /\ ReadBack(op, r, s.blocks, exec.calls + 1)
  /\ Does(l, Inputs(op, reads, outs, s.blocks, exec.calls + 1),
             Outputs(op, outs, s.blocks, exec.calls + 1))
  /\ Len(l) <= op.launches

\* It is ordered behind what was queued.
LEMMA CallQueues ==
  ASSUME Inv, Inv', Types, Ordered, exec.pc = "idle",
         NEW op, NEW ins, NEW outs, NEW views, Takeable(op, ins, outs, views),
         NEW c, NEW s, Begun(op, ins, outs, views, c, s), Ended(op, ins, outs, views, c, s),
         NEW reads \in SUBSET (Now(ins) \cup views), NEW u, NEW l, NEW r,
         CallWork(op, reads, outs, s, u, l, r),
         Guarded(l, Pinned(ins, outs, views) \cup s.blocks, pending', exec'),
         r # <<>> => /\ Guarded(<<>>, Pinned(ins, outs, views) \cup s.blocks, pending', exec')
                     /\ l # <<>>
  PROVE  ComputeSound(((streams["compute"] \o u) \o l) \o r, holds', heap', pending', exec')
<1> DEFINE q == streams["compute"]
           n == exec.calls + 1
           mine == Pinned(ins, outs, views) \cup s.blocks
<1>1. ComputeSound(q, holds', heap', pending', exec')
  BY CallLeaves
<1>2. /\ \A x \in (Now(ins) \cup views) \cup Now(outs) :
           /\ x[1] \in Blocks /\ x[1] \in Pinned(ins, outs, views) \ s.blocks
           /\ Leaves(holds', q, Len(q), x)
      /\ (outs \cup s.blocks) \cap Held(heap', "transfer") = {}
      /\ ~op.aliases => \A x \in Now(ins) \cup views : x[1] \notin outs
  BY CallFinds
<1>3. /\ op.launches \in {1, 2}
      /\ op.launches = 2 => op.aliases = FALSE /\ op.inPlace = FALSE /\ op.uploads = FALSE
      /\ op.readsBack => op.syncs /\ op.uploads = FALSE
  BY OperationsOrder DEF Takeable
<1>4. IsQueue(q)
  BY StreamNames DEF Types, Typed
<1>5. s.blocks \in SUBSET Blocks
  BY BegunOK
<1>6. /\ IsQueue(u) /\ IsQueue(l) /\ IsQueue(r)
      /\ Fill(op, u, s.blocks, n) /\ ReadBack(op, r, s.blocks, n)
      /\ Does(l, Inputs(op, reads, outs, s.blocks, n), Outputs(op, outs, s.blocks, n))
      /\ Len(l) <= op.launches /\ Len(l) \in Nat
  BY QueueFacts DEF CallWork
<1>7. \A x \in reads \cup Now(outs) :
        x[1] \in Blocks /\ x[1] \in mine \ s.blocks /\ Leaves(holds', q, Len(q), x)
  <2> SUFFICES ASSUME NEW x \in reads \cup Now(outs)
               PROVE  x[1] \in Blocks /\ x[1] \in mine \ s.blocks /\ Leaves(holds', q, Len(q), x)
    OBVIOUS
  <2>1. x \in (Now(ins) \cup views) \cup Now(outs)
    OBVIOUS
  <2> HIDE DEF q
  <2> QED BY <1>2, <2>1
<1>8. Len(l) > 1 => /\ op.inPlace = FALSE /\ op.uploads = FALSE
                    /\ \A x \in reads : x[1] \notin outs
  <2> SUFFICES ASSUME Len(l) > 1 PROVE /\ op.inPlace = FALSE /\ op.uploads = FALSE
                                       /\ \A x \in reads : x[1] \notin outs
    OBVIOUS
  <2>1. op.launches = 2
    BY <1>3, <1>6
  <2> QED BY <1>2, <1>3, <2>1
<1>9. r # <<>> => Guarded(<<>>, mine, pending', exec') /\ op.uploads = FALSE /\ l # <<>>
  BY <1>3, <1>6 DEF ReadBack
<1>10. s.blocks \subseteq mine /\ Guarded(l, mine, pending', exec')
  OBVIOUS
<1>11. CallReady(q, u, l, r, holds', heap', pending', exec', op, reads, outs, s.blocks, n, mine)
  <2> HIDE DEF q, n, mine
  <2> QED BY <1>1, <1>2, <1>4, <1>5, <1>6, <1>7, <1>8, <1>9, <1>10 DEF CallReady
<1> QED BY <1>11, CallGrows

\* What an operation queues is ordered, however it ends.
LEMMA OperateQueues ==
  ASSUME Inv, Inv', Types, Ordered, exec.pc = "idle", exec.calls < MaxCalls,
         NEW op, NEW ins, NEW outs, NEW views, Takeable(op, ins, outs, views),
         NEW c, NEW s, Begun(op, ins, outs, views, c, s), Ended(op, ins, outs, views, c, s)
  PROVE  ComputeSound(streams'["compute"], holds', heap', pending', exec')
<1> DEFINE q == streams["compute"]
           n == exec.calls + 1
           reads == Now(ins) \cup views
           mine == Pinned(ins, outs, views) \cup s.blocks
           u == Uploads(op, s.blocks, n)
           l == Launches(op, reads, outs, s.blocks, n)
           a == Launches(op, Now(ins), outs, s.blocks, n)
           r == ReadBacks(op, s.blocks, n)
           Sound(t) == ComputeSound(t, holds', heap', pending', exec')
<1>1. /\ s.blocks \in SUBSET Blocks /\ outs \in SUBSET Blocks /\ n \in Labels
      /\ IsQueue(c.records) /\ IsQueue(q)
  <2>1. exec.calls \in 0 .. MaxCalls /\ exec.calls < MaxCalls
    BY DEF Types
  <2>2. outs \in SUBSET Blocks
    BY DEF Takeable, Inv, Shapes
  <2>3. IsQueue(q)
    BY StreamNames DEF Types, Typed
  <2> QED BY <2>1, <2>2, <2>3, NextLabel, BegunOK
<1>2. /\ op.launches \in {1, 2} /\ op.launches \in Nat
      /\ op.readsBack => op.syncs /\ op.uploads = FALSE
  BY OperationsOrder DEF Takeable
<1>3. /\ IsQueue(u) /\ Fill(op, u, s.blocks, n)
      /\ op.uploads => Len(u) = Cardinality(s.blocks)
  <2> HIDE DEF n
  <2> QED BY <1>1, UploadsTyped DEF Typed
<1>4. /\ IsQueue(l) /\ Len(l) = op.launches
      /\ Does(l, Inputs(op, reads, outs, s.blocks, n), Outputs(op, outs, s.blocks, n))
  <2> HIDE DEF n, reads
  <2> QED BY <1>1, <1>2, LaunchesTyped DEF Typed
<1>5. /\ IsQueue(a) /\ Len(a) = op.launches
      /\ Does(a, Inputs(op, Now(ins), outs, s.blocks, n), Outputs(op, outs, s.blocks, n))
  <2> HIDE DEF n
  <2> QED BY <1>1, <1>2, LaunchesTyped DEF Typed
<1>6. IsQueue(r) /\ ReadBack(op, r, s.blocks, n)
  <2> HIDE DEF n
  <2> QED BY <1>1, <1>2, ReadBacksTyped DEF Typed
<1>7. IsQueue(<<>>) /\ ReadBack(op, <<>>, s.blocks, n) /\ (~op.uploads => Fill(op, <<>>, s.blocks, n))
  <2>1. DOMAIN <<>> = {} /\ IsQueue(<<>>)
    BY DEF IsQueue
  <2> QED BY <2>1 DEF ReadBack, Fill
<1>8. l # <<>> /\ a # <<>>
  BY <1>2, <1>4, <1>5, QueueFacts
<1>9. Guards(op, ins, outs, views, c, s)
  BY DEF Ended
<1>10. \A items : Queue("compute", items) => streams'["compute"] = q \o items
  BY StreamNames DEF Queue, Types, IsRecord
<1>11. ASSUME NEW event, pending' = Append(c.records, Finished(event, mine))
       PROVE  \E k \in ToSet(pending') : k.owners = mine /\ k.event = event
  <2> DEFINE k == Finished(event, mine)
  <2>1. k.owners = mine /\ k.event = event
    BY DEF Finished
  <2>2. k \in ToSet(pending')
    BY <1>1, <1>11, AppendKeeps
  <2> QED BY <2>1, <2>2
<1>12. /\ CallWork(op, reads, outs, s, u, l, r)
       /\ ~op.uploads => CallWork(op, Now(ins), outs, s, <<>>, a, <<>>)
  BY <1>2, <1>3, <1>4, <1>5, <1>6, <1>7 DEF CallWork
<1>13. reads \in SUBSET (Now(ins) \cup views) /\ Now(ins) \in SUBSET (Now(ins) \cup views)
  OBVIOUS
<1>14. CASE streams' = streams /\ pending' = c.records
  BY <1>14, CallLeaves
<1> HIDE DEF mine, u, l, a, r, reads, q, n
<1>15. CASE /\ Queue("compute", (u \o l) \o r)
            /\ pending' = Append(c.records, Finished(RecordEvent(u \o l), mine))
            /\ op.syncs => exec'.pc = "syncing" /\ exec'.owners = mine
  <2>1. streams'["compute"] = ((q \o u) \o l) \o r
    <3>1. streams'["compute"] = q \o ((u \o l) \o r)
      BY <1>10, <1>15
    <3>2. q \o ((u \o l) \o r) = ((q \o u) \o l) \o r
      <4>1. IsQueue(q) /\ IsQueue(u) /\ IsQueue(l) /\ IsQueue(r)
        BY <1>1, <1>3, <1>4, <1>6
      <4> DEFINE v == u \o l
                 w == q \o u
      <4>2. v = u \o l /\ w = q \o u
        OBVIOUS
      <4> HIDE DEF v, w
      <4>3. q \o (v \o r) = (w \o l) \o r
        BY <4>1, <4>2, InThree, SMTT(30)
      <4> QED BY <4>3 DEF v, w
    <3> QED BY <3>1, <3>2
  <2>2. \E k \in ToSet(pending') : k.owners = mine /\ k.event = l[Len(l)].id
    BY <1>3, <1>4, <1>8, <1>11, <1>15, EventBehind
  <2>3. Guarded(l, mine, pending', exec')
    BY <1>8, <2>2 DEF Guarded
  <2>4. r # <<>> => Guarded(<<>>, mine, pending', exec') /\ l # <<>>
    BY <1>2, <1>6, <1>8, <1>15 DEF Guarded, ReadBack
  <2>5. ComputeSound(((q \o u) \o l) \o r, holds', heap', pending', exec')
    BY <1>12, <1>13, <2>3, <2>4, CallQueues DEF mine, q
  <2> QED BY <2>1, <2>5
<1>16. CASE /\ \E k \in 0 .. op.launches : Queue("compute", u \o SubSeq(l, 1, k))
            /\ exec'.pc = "aborting" /\ exec'.owners = mine
  <2>1. PICK k \in 0 .. op.launches : Queue("compute", u \o SubSeq(l, 1, k))
    BY <1>16
  <2> DEFINE t == SubSeq(l, 1, k)
  <2>2. /\ IsQueue(t) /\ Len(t) = k
        /\ Does(t, Inputs(op, reads, outs, s.blocks, n), Outputs(op, outs, s.blocks, n))
    BY <1>4, SomeLaunches
  <2>3. Queue("compute", u \o t)
    BY <2>1
  <2> HIDE DEF t
  <2>4. streams'["compute"] = ((q \o u) \o t) \o <<>>
    <3>1. streams'["compute"] = q \o (u \o t)
      BY <1>10, <2>3
    <3>2. q \o (u \o t) = ((q \o u) \o t) \o <<>>
      <4>1. IsQueue(q) /\ IsQueue(u) /\ IsQueue(t) /\ IsQueue(r)
        BY <1>1, <1>3, <1>6, <2>2
      <4> DEFINE w == q \o u
      <4>2. IsQueue(w \o t)
        BY <4>1, ConcatFacts
      <4>3. (w \o t) \o <<>> = w \o t
        BY <4>2, InOne
      <4>4. q \o (u \o t) = w \o t
        BY <4>1, InTwo
      <4> QED BY <4>3, <4>4
    <3> QED BY <3>1, <3>2
  <2>5. CallWork(op, reads, outs, s, u, t, <<>>)
    BY <1>2, <1>3, <1>7, <2>2 DEF CallWork, n
  <2>6. Guarded(t, mine, pending', exec')
    BY <1>16 DEF Guarded
  <2>7. ComputeSound(((q \o u) \o t) \o <<>>, holds', heap', pending', exec')
    BY <1>13, <2>5, <2>6, CallQueues DEF mine, q
  <2> QED BY <2>4, <2>7
<1>17. CASE /\ op.uploads /\ Cardinality(s.blocks) = op.scratch
            /\ \E k \in 0 .. op.scratch : Queue("compute", SubSeq(u, 1, k))
  <2>1. PICK k \in 0 .. Len(u) : Queue("compute", SubSeq(u, 1, k))
    BY <1>3, <1>17
  <2> DEFINE t == SubSeq(u, 1, k)
             blocks == s.blocks
  <2>2. IsQueue(t) /\ Len(t) = k /\ \A i \in 1 .. k : t[i] = u[i]
    <3>1. IsQueue(u) /\ Len(u) \in Nat
      BY <1>3, QueueFacts
    <3>2. Typed(t)
      <4>1. Typed(u)
        BY <1>1, UploadsTyped DEF u
      <4> QED BY <4>1, TypedPrefix
    <3>3. \A i \in 1 .. k : u[i] \in ToSet(u)
      BY <3>1, QueueFacts DEF ToSet
    <3>4. Len(t) = k /\ \A i \in 1 .. k : t[i] = u[i]
      BY <3>1, <3>3, SubSeqProperties
    <3> QED BY <3>2, <3>4 DEF Typed
  <2>3. \A i \in DOMAIN t : \E b \in blocks : t[i].reads = {} /\ t[i].writes = {<<b, n>>}
    <3>1. DOMAIN t = 1 .. k /\ DOMAIN u = 1 .. Len(u) /\ Len(u) \in Nat
      BY <1>3, <2>2, QueueFacts
    <3>2. \A i \in DOMAIN t : i \in DOMAIN u /\ t[i] = u[i]
      BY <2>2, <3>1
    <3> HIDE DEF t
    <3> QED BY <1>3, <3>2, SMTT(40) DEF Fill
  <2>4. streams'["compute"] = q \o t
    BY <1>10, <2>1
  <2>5. blocks \cap Held(heap', "transfer") = {}
    BY CallFinds
  <2>6. Sound(q)
    BY CallLeaves DEF q
  <2> HIDE DEF t, blocks
  <2>7. Sound(q \o t)
    BY <1>1, <2>2, <2>3, <2>5, <2>6, UploadsGrow
  <2> QED BY <2>4, <2>7
<1>18. CASE /\ op.readsBack /\ Queue("compute", a)
            /\ pending' = Append(c.records, Finished(RecordEvent(a), mine))
  <2>1. streams'["compute"] = ((q \o <<>>) \o a) \o <<>>
    <3>1. streams'["compute"] = q \o a
      BY <1>10, <1>18
    <3>2. q \o a = ((q \o <<>>) \o a) \o <<>>
      <4>1. q \o <<>> = q /\ IsQueue(q \o a)
        BY <1>1, <1>5, InOne, ConcatFacts
      <4>2. (q \o a) \o <<>> = q \o a
        BY <4>1, InOne
      <4> QED BY <4>1, <4>2
    <3> QED BY <3>1, <3>2
  <2>2. \E k \in ToSet(pending') : k.owners = mine /\ k.event = a[Len(a)].id
    BY <1>5, <1>8, <1>11, <1>18, EventBehind
  <2>3. Guarded(a, mine, pending', exec')
    BY <1>8, <2>2 DEF Guarded
  <2>4. CallWork(op, Now(ins), outs, s, <<>>, a, <<>>)
    BY <1>2, <1>12, <1>18
  <2>5. ComputeSound(((q \o <<>>) \o a) \o <<>>, holds', heap', pending', exec')
    BY <1>13, <2>3, <2>4, CallQueues DEF mine, q
  <2> QED BY <2>1, <2>5
<1> QED BY <1>9, <1>14, <1>15, <1>16, <1>17, <1>18 DEF Guards, mine, u, l, a, r, reads, n

\* An operation keeps the order.
LEMMA OperateOrder == ASSUME Inv, Inv', Types, Ordered, Operate PROVE Ordered'
<1>1. PICK op \in Operations, ins \in SUBSET tensors, outs \in SUBSET tensors :
        \E views \in WeightViews(op) : \E c, s :
          Begun(op, ins, outs, views, c, s) /\ Ended(op, ins, outs, views, c, s)
  BY OperateIs
<1>2. PICK views \in WeightViews(op) :
        \E c, s : Begun(op, ins, outs, views, c, s) /\ Ended(op, ins, outs, views, c, s)
  BY <1>1
<1>3. PICK c, s : Begun(op, ins, outs, views, c, s) /\ Ended(op, ins, outs, views, c, s)
  BY <1>2
<1>4. Takeable(op, ins, outs, views) /\ exec.pc = "idle" /\ exec.calls < MaxCalls
  BY DEF Takeable, Operate, MayCall
<1>5. /\ CopySound(streams'["copy"], streams'["compute"], holds', heap', exec')
      /\ TransferSound(streams', holds', heap', exec'.owners \cup Owned(pending'), weights', copier')
      /\ DataSound(holds', heap', weights', tensors')
  BY <1>3, <1>4, CallLeaves
<1>6. ComputeSound(streams'["compute"], holds', heap', pending', exec')
  BY <1>3, <1>4, OperateQueues
<1> QED BY <1>5, <1>6, OrderedNext

\* That the driver will not take a block back moves no work.
LEMMA RefuseOrder == ASSUME Inv, Ordered, NEW b \in Blocks, Refuse(b) PROVE Ordered'
<1>1. /\ UNCHANGED <<streams, holds, pending, exec, weights, copier, tensors>>
      /\ heap'.pool = heap.pool /\ Owned(pending') = Owned(pending)
  BY RefuseIs DEF Refuse, Inv, Owns
<1>2. \A p \in Pools : Held(heap', p) = Held(heap, p)
  BY <1>1 DEF Held
<1>3. "transfer" \in Pools
  BY DEF Pools
<1>4. /\ ComputeSound(streams["compute"], holds, heap, pending, exec)
      /\ CopySound(streams["copy"], streams["compute"], holds, heap, exec)
      /\ TransferSound(streams, holds, heap, exec.owners \cup Owned(pending), weights, copier)
      /\ DataSound(holds, heap, weights, tensors)
  BY DEF Ordered
<1>5. ComputeSound(streams["compute"], holds, heap', pending, exec)
  BY <1>2, <1>3, <1>4 DEF ComputeSound, Tidy
<1>6. CopySound(streams["copy"], streams["compute"], holds, heap', exec)
  BY <1>2, <1>3, <1>4 DEF CopySound, Tidy
<1>7. TransferSound(streams, holds, heap', exec.owners \cup Owned(pending), weights, copier)
  BY <1>1, <1>4 DEF TransferSound
<1>8. DataSound(holds, heap', weights, tensors)
  BY <1>1, <1>4 DEF DataSound
<1>9. /\ ComputeSound(streams'["compute"], holds', heap', pending', exec')
      /\ CopySound(streams'["copy"], streams'["compute"], holds', heap', exec')
      /\ TransferSound(streams', holds', heap', exec'.owners \cup Owned(pending'), weights', copier')
      /\ DataSound(holds', heap', weights', tensors')
  BY <1>1, <1>5, <1>6, <1>7, <1>8
<1> QED BY <1>9, OrderedNext

\* The order of the work on the three kinds of stream holds in every state.
THEOREM OrderInvariance == Spec => []Ordered
<1>1. Init => Ordered
  <2> SUFFICES ASSUME Init PROVE Ordered
    OBVIOUS
  <2>1. \A s \in Streams : streams[s] = <<>>
    BY DEF Init
  <2>2. /\ ComputeSound(streams["compute"], holds, heap, pending, exec)
        /\ CopySound(streams["copy"], streams["compute"], holds, heap, exec)
    BY <2>1, StreamNames, NothingQueued
  <2>3. TransferSound(streams, holds, heap, exec.owners \cup Owned(pending), weights, copier)
    <3>1. \A c \in Copiers : copier[c].block = NoBlock /\ streams[c] = <<>>
      BY <2>1, StreamNames DEF Init, NoTransfer
    <3> QED BY <3>1 DEF TransferSound
  <2>4. DataSound(holds, heap, weights, tensors)
    BY DEF Init, DataSound
  <2> QED BY <2>2, <2>3, <2>4 DEF Ordered
<1>2. Inv /\ Inv' /\ Types /\ Ordered /\ [Next]_vars => Ordered'
  <2> SUFFICES ASSUME Inv, Inv', Types, Ordered, [Next]_vars PROVE Ordered'
    OBVIOUS
  <2>1. CASE Executor
    <3>1. CASE Operate
      BY <3>1, OperateOrder
    <3>2. CASE AbortEnds \/ SyncEnds \/ CopyEnds \/ BarrierEnds
      BY <3>2, EndsOrder
    <3>3. CASE Copy \/ Synchronize
      BY <3>3, CopyOrder
    <3>4. CASE \/ \E size \in TensorSizes : AllocateTensor(size)
               \/ \E b \in Blocks : DropTensor(b)
      BY <3>4, TensorsOrder
    <3>5. CASE CloseTransfers \/ CloseBackend
      BY <3>5, ClosingOrder
    <3> QED BY <2>1, <3>1, <3>2, <3>3, <3>4, <3>5 DEF Executor
  <2>2. CASE Transfers
    BY <2>2, TransfersOrder
  <2>3. CASE \E s \in Streams : RunItem(s)
    BY <2>3, RunOrder
  <2>4. CASE \E b \in Blocks : Refuse(b)
    BY <2>4, RefuseOrder
  <2>5. CASE UNCHANGED vars
    <3>1. /\ UNCHANGED <<streams, holds, heap, pending, exec, weights, copier, tensors>>
          /\ Owned(pending') = Owned(pending)
      BY <2>5 DEF vars
    <3>2. /\ ComputeSound(streams["compute"], holds, heap, pending, exec)
          /\ CopySound(streams["copy"], streams["compute"], holds, heap, exec)
          /\ TransferSound(streams, holds, heap, exec.owners \cup Owned(pending), weights, copier)
          /\ DataSound(holds, heap, weights, tensors)
      BY DEF Ordered
    <3>3. /\ ComputeSound(streams'["compute"], holds', heap', pending', exec')
          /\ CopySound(streams'["copy"], streams'["compute"], holds', heap', exec')
          /\ TransferSound(streams', holds', heap', exec'.owners \cup Owned(pending'), weights', copier')
          /\ DataSound(holds', heap', weights', tensors')
      BY <3>1, <3>2
    <3> QED BY <3>3, OrderedNext
  <2> QED BY <2>1, <2>2, <2>3, <2>4, <2>5 DEF Next
<1> QED BY <1>1, <1>2, Invariance, TypesHold, PTL DEF Spec

\* The item at the head of a stream is its first.
LEMMA HeadOf ==
  ASSUME Types, NEW s \in Streams, Runnable(s)
  PROVE  /\ IsQueue(streams[s]) /\ streams[s] # <<>> /\ 1 \in DOMAIN streams[s]
         /\ Head(streams[s]) = streams[s][1]
<1>1. IsQueue(streams[s]) /\ streams[s] # <<>>
  BY DEF Types, Typed, Runnable
<1> QED BY <1>1, TailFacts

\* What each kind of stream runs: its reads are in their blocks, owned and in use; the
\* backend writes no block of the transfers' pool, and a transfer only its own.
LEMMA HeadSound ==
  ASSUME Inv, Types, Ordered, NEW s \in Streams, Runnable(s), NEW w, w = Head(streams[s])
  PROVE  /\ \A x \in w.reads : /\ holds[x[1]] = x[2]
                               /\ x[1] \in exec.owners \cup Owned(pending)
         /\ s \notin Copiers => \A y \in w.writes : y[1] \notin Held(heap, "transfer")
         /\ s = "copy" => streams["compute"] = <<>>
         /\ s \in Copiers => /\ w.reads = {} /\ copier[s].block # NoBlock
                             /\ \A y \in w.writes : y[1] = copier[s].block
<1>1. IsQueue(streams[s]) /\ streams[s] # <<>> /\ 1 \in DOMAIN streams[s] /\ w = streams[s][1]
  BY HeadOf
<1>2. CASE s = "compute"
  <2> DEFINE q == streams["compute"]
  <2>1. /\ Tidy(w, heap)
        /\ \A x \in w.reads : Leaves(holds, q, 0, x) /\ KeptFor(q, pending, exec, 1, x[1])
    <3>1. ComputeSound(q, holds, heap, pending, exec) /\ 1 - 1 = 0
      BY DEF Ordered
    <3> HIDE DEF q
    <3>2. 1 \in DOMAIN q /\ w = q[1]
      BY <1>1, <1>2 DEF q
    <3> QED BY <3>1, <3>2 DEF ComputeSound
  <2>2. \A x \in w.reads : holds[x[1]] = x[2] /\ x[1] \in exec.owners \cup Owned(pending)
    BY <2>1, KeptOwned DEF Leaves
  <2> QED BY <1>2, <2>1, <2>2, StreamNames DEF Tidy
<1>3. CASE s = "copy"
  <2>1. streams["compute"] = <<>>
    BY <1>3, CopyBehind
  <2>2. /\ Tidy(w, heap) /\ BlocksOf(w.reads \cup w.writes) \subseteq exec.owners
        /\ \A x \in w.reads : Leaves(holds, <<>>, 0, x)
    <3>1. CopySound(streams["copy"], <<>>, holds, heap, exec) /\ Len(<<>>) = 0
      BY <2>1 DEF Ordered
    <3> QED BY <1>1, <1>3, <3>1 DEF CopySound
  <2>3. \A x \in w.reads : holds[x[1]] = x[2] /\ x[1] \in exec.owners
    BY <2>2 DEF Leaves, BlocksOf
  <2> QED BY <1>3, <2>1, <2>2, <2>3, StreamNames DEF Tidy
<1>4. CASE s \in Copiers
  <2>1. /\ streams[s] = <<Work(Transfer(s), NoEvent, {}, {<<copier[s].block, copier[s].expert>>})>>
        /\ copier[s].block # NoBlock
    BY <1>1, <1>4 DEF Ordered, TransferSound
  <2>2. w = Work(Transfer(s), NoEvent, {}, {<<copier[s].block, copier[s].expert>>})
    BY <1>1, <2>1
  <2>3. w.reads = {} /\ w.writes = {<<copier[s].block, copier[s].expert>>}
    BY <2>2 DEF Work
  <2>4. \A y \in w.writes : y[1] = copier[s].block
    BY <2>3
  <2> QED BY <1>4, <2>1, <2>3, <2>4, StreamNames
<1> QED BY <1>2, <1>3, <1>4, StreamNames

\* Queued work finds what it was to read and races with no other stream: OrderedAccess,
\* for any device, pools, tensors, experts and failures, whoever evicts, drops and reuses.
THEOREM OrderCorrect == Spec => []OrderedAccess
<1>1. Inv /\ Types /\ Ordered => OrderedAccess
  <2> SUFFICES ASSUME Inv, Types, Ordered, NEW s \in Streams, Runnable(s)
               PROVE  LET item == Head(streams[s])
                      IN  /\ \A x \in item.reads : holds[x[1]] = x[2] /\ heap.capacity[x[1]] # 0
                          /\ \A t \in Streams \ {s} : Runnable(t) =>
                               BlocksOf(item.reads \cup item.writes)
                                 \cap BlocksOf(Head(streams[t]).writes) = {}
    BY DEF OrderedAccess
  <2> DEFINE w == Head(streams[s])
             owned == exec.owners \cup Owned(pending)
  <2>1. /\ \A x \in w.reads : holds[x[1]] = x[2] /\ x[1] \in owned
        /\ s \notin Copiers => \A y \in w.writes : y[1] \notin Held(heap, "transfer")
        /\ s = "copy" => streams["compute"] = <<>>
        /\ s \in Copiers => /\ w.reads = {} /\ copier[s].block # NoBlock
                            /\ \A y \in w.writes : y[1] = copier[s].block
    BY HeadSound
  <2>2. \A b \in owned : heap.capacity[b] # 0
    BY Referred, PoolSides
  <2>3. ASSUME NEW c \in Copiers, copier[c].block # NoBlock
        PROVE  copier[c].block \notin owned /\ copier[c].block \in Held(heap, "transfer")
    BY <2>3, TransferAlone, Referred, PoolSides
  <2>4. ASSUME NEW t \in Streams \ {s}, Runnable(t)
        PROVE  BlocksOf(w.reads \cup w.writes) \cap BlocksOf(Head(streams[t]).writes) = {}
    <3> DEFINE v == Head(streams[t])
    <3>1. /\ t \notin Copiers => \A y \in v.writes : y[1] \notin Held(heap, "transfer")
          /\ t = "copy" => streams["compute"] = <<>>
          /\ t \in Copiers => /\ copier[t].block # NoBlock
                              /\ \A y \in v.writes : y[1] = copier[t].block
      BY <2>4, HeadSound
    <3>2. streams[s] # <<>> /\ streams[t] # <<>>
      BY <2>4 DEF Runnable
    <3> HIDE DEF w, v, owned
    <3>3. ~(s \notin Copiers /\ t \notin Copiers)
      BY <2>1, <2>4, <3>1, <3>2, StreamNames
    <3>4. ASSUME NEW x \in w.reads \cup w.writes, NEW y \in v.writes PROVE x[1] # y[1]
      <4>1. CASE s \in Copiers /\ t \in Copiers
        <5>1. copier[s].block # copier[t].block
          BY <2>1, <2>4, <4>1 DEF Ordered, TransferSound
        <5> QED BY <2>1, <3>1, <3>4, <4>1, <5>1
      <4>2. CASE s \in Copiers /\ t \notin Copiers
        <5>1. copier[s].block \in Held(heap, "transfer") /\ x[1] = copier[s].block
          BY <2>1, <2>3, <3>4, <4>2
        <5> QED BY <3>1, <3>4, <4>2, <5>1
      <4>3. CASE s \notin Copiers /\ t \in Copiers
        <5>1. copier[t].block \notin owned /\ copier[t].block \in Held(heap, "transfer")
          BY <2>3, <3>1, <4>3
        <5> QED BY <2>1, <3>1, <3>4, <4>3, <5>1
      <4> QED BY <3>3, <4>1, <4>2, <4>3
    <3>5. BlocksOf(w.reads \cup w.writes) \cap BlocksOf(v.writes) = {}
      BY <3>4 DEF BlocksOf
    <3> QED BY <3>5 DEF w, v
  <2> QED BY <2>1, <2>2, <2>4
<1> QED BY <1>1, Invariance, TypesHold, OrderInvariance, PTL
=============================================================================
