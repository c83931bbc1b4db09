-------------------------- MODULE InferenceProofs --------------------------
(***************************************************************************)
(* Proofs about Inference, for any callers, geometries, limits and         *)
(* requests: checkedCacheBytes admits only sizes that do not wrap, the     *)
(* growth loop of the device cache ends within the maximum sequence, and   *)
(* from an invariant that ties every cache to the place of its call in     *)
(* the request follow all four invariants of the module.                   *)
(***************************************************************************)
EXTENDS Inference, FiniteSums, TLAPS

\* The manager was built: its sizes passed checkedCacheBytes and its limit
\* holds a session.
Built ==
  /\ SizesAreSane(geo)
  /\ bytesPerSession = CheckedCacheBytes(geo)
  /\ bytesPerSession <= limit

Holders == {c \in Caller : HasSession(c)}

\* Each session has an id of its own, below the next one until the ids wrap,
\* and its own reservation.
Booked ==
  /\ \A c \in Caller \ Holders : call[c].id = 0
  /\ \A c \in Holders :
       call[c].id # 0 /\ (nextSessionId # 0 => call[c].id < nextSessionId)
  /\ \A c, d \in Holders : call[c].id = call[d].id => c = d
  /\ sessions = {call[c].id : c \in Holders}
  /\ reserved = bytesPerSession * Cardinality(Holders)
  /\ reserved <= limit
  /\ peak <= limit

InPass == {"Attention", "Experts", "Head"}
Running == InPass \cup {"Stats", "Sample", "Decode"}

\* Where a call k is in its request: a pass ends at the prompt and the tokens
\* generated so far, and the last token is not forwarded.
Progress(k) ==
  /\ k.error # "Refused"
  /\ k.pc # "Idle" => RequestFits(k.prompt, k.maximum)
  /\ k.pc \in {"Open", "Prefill"} => ~k.active
  /\ k.pc \in Running => k.active /\ k.reason = "None" /\ k.generated < k.maximum
  /\ k.pc \in InPass => /\ k.layer < geo.layers /\ k.feed # 0
                        /\ k.pos + k.feed = k.prompt + k.generated
  /\ k.pc = "Head" => k.routed /\ k.layer = geo.layers - 1
  /\ k.pc \in {"Stats", "Sample"} => /\ k.pos = k.prompt + k.generated
                                     /\ k.forwarded.cached = k.pos
  /\ k.pc = "Decode" => k.pos + 1 = k.prompt + k.generated

\* The tokens layer l's cache holds when a call is at k.
Held(k, l) ==
  IF k.pc \in {"Idle", "Open", "Prefill"} THEN 0
  ELSE IF k.pc \in InPass /\ (l < k.layer \/ (l = k.layer /\ k.pc # "Attention"))
       THEN k.pos + k.feed ELSE k.pos

\* A cache follows its call, and no layer's passes the maximum sequence, in
\* tokens or in room.
Filled(k, store) ==
  \A l \in Layer :
    /\ k.pc # "Close" => store[l].tokens = Held(k, l)
    /\ store[l].tokens <= geo.seq /\ store[l].capacity <= geo.seq

Following == \A c \in Caller : Progress(call[c]) /\ Filled(call[c], cache[c])

IndInv == TypeOK /\ Built /\ Booked /\ Following
-----------------------------------------------------------------------------
(* Sizes. *)

\* Testing a factor against a quotient tests the product: the form in which
\* checkedCacheBytes guards its multiplications.
LEMMA QuotientGuards ==
  ASSUME NEW a \in Nat, NEW b \in Nat \ {0}, NEW m \in Nat, a <= m \div b
  PROVE  a * b <= m
  <1> DEFINE q == m \div b
  <1>1. q \in Nat /\ q * b <= m /\ a <= q
    OBVIOUS
  <1> HIDE DEF q
  <1>2. PICK d \in Nat : q = a + d
    BY <1>1
  <1>3. q * b = a * b + d * b /\ a * b \in Nat /\ d * b \in Nat
    BY <1>2
  <1> QED
    BY <1>1, <1>3

\* A geometry that checkedCacheBytes accepts has no size that wraps: the bytes
\* of a token and of a session are the true products.
THEOREM SizesChecked ==
  ASSUME NEW g \in Geometry, SizesAreSane(g)
  PROVE  /\ g.layers \in Nat \ {0} /\ g.seq \in Nat \ {0}
         /\ Values(g) \in Nat
         /\ PerToken(g) = 8 + 8 * Values(g)
         /\ g.seq * PerToken(g) \in Nat \ {0}
         /\ CheckedCacheBytes(g) = g.layers * (g.seq * PerToken(g))
         /\ CheckedCacheBytes(g) \in 0..SizeMax
  <1>1. /\ g.layers \in Nat \ {0} /\ g.seq \in Nat \ {0}
        /\ g.heads \in Nat /\ g.dim \in Nat /\ SizeMax \in Nat
    BY InferenceAssumption DEF SizesAreSane
  <1>2. Values(g) \in Nat
    BY <1>1 DEF Values
  <1> DEFINE v == Values(g)
             p == 8 + 8 * v
  <1>3. v <= SizeMax \div 8 /\ PerToken(g) # 0
    BY DEF SizesAreSane, FloatBytes
  <1>4. PerToken(g) = (8 + ((8 * v) % (SizeMax + 1))) % (SizeMax + 1)
    <2>1. 2 * v * 4 = 8 * v
      BY <1>2
    <2> QED
      BY <2>1 DEF PerToken, Wrap, PositionBytes, FloatBytes
  <1>5. p <= SizeMax + 1 /\ p \in Nat /\ 8 * v <= SizeMax
    <2> HIDE DEF v
    <2> QED BY <1>1, <1>2, <1>3, WidthAssumption DEF v
  <1>6. PerToken(g) = p
    <2>1. (8 * v) % (SizeMax + 1) = 8 * v
      BY <1>1, <1>2, <1>5
    <2>2. PerToken(g) = p % (SizeMax + 1)
      BY <1>4, <2>1
    <2> HIDE DEF p
    <2> QED BY <1>1, <1>3, <1>5, <2>2
  <1> HIDE DEF v, p
  <1>7. p \in Nat \ {0}
    BY <1>3, <1>5, <1>6
  <1>8. g.seq * p \in Nat \ {0}
    BY <1>1, <1>7
  <1>9. g.layers * (g.seq * p) <= SizeMax
    BY <1>1, <1>6, <1>8, QuotientGuards DEF SizesAreSane
  <1>10. CheckedCacheBytes(g) = g.layers * (g.seq * p)
    <2>1. g.layers * g.seq * p = g.layers * (g.seq * p)
      BY <1>1, <1>7
    <2>2. g.layers * (g.seq * p) \in Nat
      BY <1>1, <1>8
    <2>3. (g.layers * (g.seq * p)) % (SizeMax + 1) = g.layers * (g.seq * p)
      BY <1>1, <1>9, <2>2
    <2> QED
      BY <1>6, <2>1, <2>3 DEF CheckedCacheBytes, Wrap
  <1> QED
    BY <1>1, <1>2, <1>6, <1>8, <1>9, <1>10 DEF p, v
-----------------------------------------------------------------------------
(* The growth loop of CudaKVCache::append. *)

\* One turn of the loop, and the function Grown defines with it.
Doubled(c) == IF c > geo.seq \div 2 THEN geo.seq ELSE 2 * c
GrowsOn(g, domain, required) ==
  g = [c \in domain |-> IF c >= required THEN c ELSE g[Doubled(c)]]

\* Every turn makes room, and stays within the maximum sequence.
LEMMA DoubledGrows ==
  ASSUME geo.seq \in Nat, NEW c \in 1..geo.seq, c # geo.seq
  PROVE  Doubled(c) \in (c + 1)..geo.seq
  BY DEF Doubled

\* The loop ends from every capacity: its function exists, by induction on the
\* distance to the maximum sequence.
LEMMA GrowthExists ==
  ASSUME geo.seq \in Nat, NEW required \in 1..geo.seq
  PROVE  \E g : GrowsOn(g, 1..geo.seq, required)
  <1> DEFINE Top(n) == (geo.seq - n + 1)..geo.seq
             Value(g, c) == IF c >= required THEN c ELSE g[Doubled(c)]
             Upto(n) == \E g : g = [c \in Top(n) |-> Value(g, c)]
             P == {n \in Nat : n <= geo.seq => Upto(n)}
  <1>1. 0 \in P
    <2> DEFINE g == [c \in Top(0) |-> 0]
    <2>1. g = [c \in Top(0) |-> Value(g, c)]
      <3>1. Top(0) = {}
        OBVIOUS
      <3> QED
        BY <3>1
    <2> QED
      BY <2>1
  <1>2. \A n \in Nat : n \in P => n + 1 \in P
    <2>0. SUFFICES ASSUME NEW n \in Nat, n + 1 <= geo.seq, Upto(n) PROVE Upto(n + 1)
      <3> HIDE DEF Upto
      <3> QED OBVIOUS
    <2>1. PICK g : g = [c \in Top(n) |-> Value(g, c)]
      BY <2>0
    <2> DEFINE h == [c \in Top(n + 1) |-> Value(g, c)]
    <2>2. Top(n) \subseteq Top(n + 1) /\ Top(n + 1) \subseteq 1..geo.seq
      BY <2>0
    <2>3. \A c \in Top(n) : h[c] = g[c]
      <3> SUFFICES ASSUME NEW c \in Top(n) PROVE h[c] = g[c]
        OBVIOUS
      <3>1. g[c] = Value(g, c)
        <4> HIDE DEF Value, Top
        <4> QED BY <2>1
      <3>2. h[c] = Value(g, c)
        BY <2>2
      <3> QED BY <3>1, <3>2
    <2>4. ASSUME NEW c \in Top(n + 1), ~(c >= required) PROVE Doubled(c) \in Top(n)
      <3>1. c \in 1..geo.seq /\ c # geo.seq
        BY <2>2, <2>4
      <3>2. Doubled(c) \in (c + 1)..geo.seq
        BY <3>1, DoubledGrows
      <3> QED
        BY <3>1, <3>2
    <2>5. \A c \in Top(n + 1) : Value(g, c) = Value(h, c)
      <3> HIDE DEF h, Top
      <3> QED BY <2>3, <2>4
    <2>6. h = [c \in Top(n + 1) |-> Value(h, c)]
      <3> HIDE DEF Value, Top
      <3> QED BY <2>5
    <2> QED
      BY <2>6
  <1>3. Upto(geo.seq)
    <2> HIDE DEF Upto
    <2>1. \A n \in Nat : n \in P
      <3> HIDE DEF P
      <3> QED BY <1>1, <1>2, NatSetInduction
    <2> QED
      BY <2>1
  <1>4. Top(geo.seq) = 1..geo.seq
    OBVIOUS
  <1> QED
    BY <1>3, <1>4 DEF GrowsOn

\* CudaKVCache::append's loop ends from every old capacity with one that holds
\* what is required and does not pass the maximum sequence.
THEOREM GrowthEnds ==
  ASSUME geo.seq \in Nat, NEW required \in 1..geo.seq, NEW capacity \in 0..geo.seq
  PROVE  Grown(capacity, required) \in required..geo.seq
  <1> DEFINE g == CHOOSE f : GrowsOn(f, 1..geo.seq, required)
             first == IF capacity = 0 THEN 1 ELSE capacity
  <1>1. Grown(capacity, required) = g[first]
    BY DEF Grown, GrowsOn, Doubled
  <1>2. GrowsOn(g, 1..geo.seq, required)
    BY GrowthExists
  <1> HIDE DEF g
  <1>3. \A c \in 1..geo.seq : g[c] = IF c >= required THEN c ELSE g[Doubled(c)]
    BY <1>2 DEF GrowsOn
  <1> DEFINE P == {n \in Nat : \A c \in 1..geo.seq : c >= geo.seq - n => g[c] \in required..geo.seq}
  <1>4. 0 \in P
    BY <1>3
  <1>5. ASSUME NEW n \in Nat, n \in P PROVE n + 1 \in P
    <2> SUFFICES ASSUME NEW c \in 1..geo.seq, c >= geo.seq - (n + 1)
                 PROVE  g[c] \in required..geo.seq
      OBVIOUS
    <2>1. CASE c >= required
      BY <1>3, <2>1
    <2>2. CASE ~(c >= required)
      <3>1. Doubled(c) \in (c + 1)..geo.seq
        BY <2>2, DoubledGrows
      <3>2. Doubled(c) \in 1..geo.seq /\ Doubled(c) >= geo.seq - n
        BY <3>1
      <3>3. g[Doubled(c)] \in required..geo.seq
        BY <1>5, <3>2
      <3> QED
        BY <1>3, <2>2, <3>3
    <2> QED
      BY <2>1, <2>2
  <1>6. \A n \in Nat : n \in P
    <2> HIDE DEF P
    <2> QED BY <1>4, <1>5, NatSetInduction
  <1>7. first \in 1..geo.seq /\ first >= geo.seq - geo.seq
    OBVIOUS
  <1>8. geo.seq \in P
    <2> HIDE DEF P
    <2> QED BY <1>6
  <1> QED
    BY <1>1, <1>7, <1>8
-----------------------------------------------------------------------------
(* What the caches take. *)

\* The bytes of each layer of a cache.
LayerBytes(c) ==
  [l \in Layer |-> IF cuda THEN DeviceBytes(cache[c][l]) ELSE HostBytes(cache[c][l])]

\* memoryUsageBytes and the manager's sum of it are sums of FiniteSums.
LEMMA UsageIsSum ==
  ASSUME NEW c
  PROVE  MemoryUsage(c) = SumOver(LayerBytes(c), Layer)
  <1> DEFINE Bytes(l) == IF cuda THEN DeviceBytes(cache[c][l]) ELSE HostBytes(cache[c][l])
             One(g) == g = [s \in SUBSET Layer |->
                              IF s = {} THEN 0 ELSE Bytes(Pick(s)) + g[s \ {Pick(s)}]]
             Two(g) == SumsUp(g, LayerBytes(c), Layer)
  <1>1. MemoryUsage(c) = (CHOOSE g : One(g))[Layer]
    BY DEF MemoryUsage, MapThenSumSet, MapThenFoldSet, Pick
  <1>2. SumOver(LayerBytes(c), Layer) = (CHOOSE g : Two(g))[Layer]
    BY SumIsLast
  <1>3. \A g : One(g) <=> Two(g)
    <2>1. \A s \in SUBSET Layer : s # {} => LayerBytes(c)[Pick(s)] = Bytes(Pick(s))
      BY DEF LayerBytes, Pick
    <2> HIDE DEF Bytes
    <2> QED BY <2>1 DEF SumsUp
  <1>4. (CHOOSE g : One(g)) = (CHOOSE g : Two(g))
    <2> HIDE DEF One, Two
    <2> QED BY <1>3, Zenon
  <1> QED
    BY <1>1, <1>2, <1>4, Zenon

\* The sessions the manager's stats() sums over.
Live == {c \in Caller : call[c].id \in sessions}
Usage == [c \in Caller |-> MemoryUsage(c)]

\* The same for the sum over the live sessions.
LEMMA CommittedIsSum == Committed = SumOver(Usage, Live)
  <1> DEFINE One(g) == g = [s \in SUBSET Live |->
                              IF s = {} THEN 0 ELSE MemoryUsage(Pick(s)) + g[s \ {Pick(s)}]]
             Two(g) == SumsUp(g, Usage, Live)
  <1>1. Committed = (CHOOSE g : One(g))[Live]
    BY DEF Committed, MapThenSumSet, MapThenFoldSet, Pick, Live
  <1>2. SumOver(Usage, Live) = (CHOOSE g : Two(g))[Live]
    BY SumIsLast
  <1>3. \A g : One(g) <=> Two(g)
    <2>1. \A s \in SUBSET Live : s # {} => Usage[Pick(s)] = MemoryUsage(Pick(s))
      BY DEF Usage, Pick, Live
    <2> QED BY <2>1 DEF SumsUp
  <1>4. (CHOOSE g : One(g)) = (CHOOSE g : Two(g))
    <2> HIDE DEF One, Two
    <2> QED BY <1>3, Zenon
  <1> QED
    BY <1>1, <1>2, <1>4, Zenon

\* Products grow with a factor.
LEMMA ProductGrows ==
  ASSUME NEW a \in Nat, NEW b \in Nat, NEW m \in Nat, a <= b
  PROVE  m * a \in Nat /\ m * b \in Nat /\ m * a <= m * b
  <1>1. PICK d \in Nat : b = a + d
    OBVIOUS
  <1>2. m * b = m * a + m * d /\ m * a \in Nat /\ m * d \in Nat
    BY <1>1
  <1> QED
    BY <1>2

\* A cache that keeps within the maximum sequence keeps within the reservation.
LEMMA UsageBound ==
  ASSUME TypeOK, Built, NEW c \in Caller, Filled(call[c], cache[c])
  PROVE  MemoryUsage(c) \in Nat /\ MemoryUsage(c) <= bytesPerSession
  <1> DEFINE v == Values(geo)
             b == geo.seq * (8 + 8 * v)
  <1>1. /\ geo.layers \in Nat \ {0} /\ geo.seq \in Nat /\ v \in Nat
        /\ bytesPerSession = geo.layers * b
    BY SizesChecked DEF TypeOK, Built
  <1>2. IsFiniteSet(Layer) /\ Cardinality(Layer) = geo.layers
    <2> DEFINE n == geo.layers - 1
    <2>1. n \in Int /\ 0 <= n
      BY <1>1
    <2>2. IsFiniteSet(0..n) /\ Cardinality(0..n) = n + 1
      <3> HIDE DEF n
      <3>1. IsFiniteSet(0..n) /\ Cardinality(0..n) = IF 0 > n THEN 0 ELSE n - 0 + 1
        BY <2>1, FS_Interval
      <3> QED BY <2>1, <3>1
    <2> QED
      BY <1>1, <2>2 DEF Layer
  <1> HIDE DEF v
  <1>3. ASSUME NEW l \in Layer
        PROVE  LayerBytes(c)[l] \in Nat /\ LayerBytes(c)[l] <= b
    <2> DEFINE t == cache[c][l].tokens
               m == cache[c][l].capacity
    <2>1. t \in Nat /\ m \in Nat /\ t <= geo.seq /\ m <= geo.seq
      BY DEF TypeOK, Filled
    <2> HIDE DEF t, m
    <2>2. HostBytes(cache[c][l]) = (8 + 8 * v) * t
      BY <1>1 DEF HostBytes, PositionBytes, FloatBytes, v, t
    <2>3. DeviceBytes(cache[c][l]) = 8 * t + (8 * v) * m
      BY <1>1 DEF DeviceBytes, PositionBytes, FloatBytes, v, t, m
    <2>4. /\ (8 + 8 * v) * t \in Nat
          /\ (8 + 8 * v) * t <= (8 + 8 * v) * geo.seq
      BY <1>1, <2>1, ProductGrows
    <2>5. /\ (8 * v) * m \in Nat /\ (8 * v) * geo.seq \in Nat
          /\ (8 * v) * m <= (8 * v) * geo.seq
      BY <1>1, <2>1, ProductGrows
    <2>6. b = (8 + 8 * v) * geo.seq /\ b = 8 * geo.seq + (8 * v) * geo.seq
      BY <1>1
    <2> HIDE DEF b
    <2>7. LayerBytes(c)[l] = IF cuda THEN 8 * t + (8 * v) * m ELSE (8 + 8 * v) * t
      BY <2>2, <2>3 DEF LayerBytes
    <2> QED
      BY <1>1, <2>1, <2>4, <2>5, <2>6, <2>7
  <1>4. b \in Nat
    BY <1>1
  <1> HIDE DEF b
  <1>5. SumOver(LayerBytes(c), Layer) \in Nat
    BY <1>2, <1>3, SumType
  <1>6. SumOver(LayerBytes(c), Layer) <= b * geo.layers
    BY <1>2, <1>3, <1>4, SumBound
  <1>7. b * geo.layers = bytesPerSession
    BY <1>1, <1>4
  <1> QED
    BY <1>5, <1>6, <1>7, UsageIsSum

\* All caches together keep within what is reserved, so the peak within the
\* limit.
LEMMA CommittedBound ==
  ASSUME IndInv
  PROVE  Committed \in Nat /\ Committed <= limit
  <1>1. Live = Holders
    <2>1. \A c \in Caller : call[c].id \in sessions <=> c \in Holders
      BY DEF IndInv, Booked
    <2> QED
      BY <2>1 DEF Live, Holders
  <1>2. IsFiniteSet(Live)
    BY CallerAssumption, FS_Subset DEF Live
  <1>3. \A c \in Live : Usage[c] \in Nat /\ Usage[c] <= bytesPerSession
    BY UsageBound DEF IndInv, Following, Usage, Live
  <1>4. bytesPerSession \in Nat
    BY DEF IndInv, TypeOK
  <1>5. SumOver(Usage, Live) \in Nat
    BY <1>2, <1>3, SumType
  <1>6. SumOver(Usage, Live) <= bytesPerSession * Cardinality(Live)
    BY <1>2, <1>3, <1>4, SumBound
  <1>7. bytesPerSession * Cardinality(Live) = reserved /\ reserved <= limit
    BY <1>1 DEF IndInv, Booked
  <1>8. reserved \in Nat /\ limit \in Nat
    BY InferenceAssumption DEF IndInv, TypeOK
  <1> QED
    BY <1>5, <1>6, <1>7, <1>8, CommittedIsSum
-----------------------------------------------------------------------------
(* The invariant. *)

\* The record of a caller outside generate.
LEMMA IdleType ==
  /\ IdleCall \in CallType
  /\ IdleCall.pc = "Idle" /\ IdleCall.id = 0 /\ IdleCall.error = "None"
  /\ ~IdleCall.active
  BY InferenceAssumption DEF IdleCall, CallType, Pc, StopReason, NoPass, Error

\* A manager as Init builds it, with nobody in generate.
LEMMA InitIndInv == Init => IndInv
  <1> SUFFICES ASSUME Init PROVE IndInv
    OBVIOUS
  <1> USE InferenceAssumption
  <1>1. Built /\ geo \in Geometry /\ geo.seq \in Nat /\ bytesPerSession \in 0..SizeMax
    BY SizesChecked DEF Init, Built
  <1>2. \A c \in Caller : call[c] = IdleCall /\ cache[c] = EmptyCache
    BY DEF Init
  <1>3. Holders = {}
    BY <1>2 DEF Holders, HasSession, IdleCall
  <1>4. TypeOK
    <2>1. IdleCall \in CallType
      BY IdleType
    <2>2. EmptyCache \in [Layer -> [tokens : Nat, capacity : Nat]]
      BY DEF EmptyCache, EmptyLayer
    <2> QED
      BY <1>1, <2>1, <2>2 DEF Init, TypeOK
  <1>5. Booked
    <2>1. Cardinality(Holders) = 0
      BY <1>3, FS_EmptySet
    <2>2. bytesPerSession * 0 = 0 /\ limit \in Nat
      BY <1>1 DEF Init
    <2>3. sessions = {call[c].id : c \in Holders}
      BY <1>3 DEF Init
    <2>4. \A c \in Caller : call[c].id = 0
      BY <1>2 DEF IdleCall
    <2> QED
      BY <1>3, <2>1, <2>2, <2>3, <2>4 DEF Init, Booked
  <1>6. Following
    BY <1>1, <1>2
    DEF Following, Progress, Filled, Held, InPass, Running, IdleCall, EmptyCache, EmptyLayer
  <1> QED
    BY <1>1, <1>4, <1>5, <1>6 DEF IndInv

\* What a step leaves alone stays as it was: the manager's parameters, and the
\* other callers.
LEMMA FollowingMoves ==
  ASSUME IndInv, UNCHANGED config, NEW c \in Caller, NEW k, NEW store,
         call' = [call EXCEPT ![c] = k], cache' = [cache EXCEPT ![c] = store],
         Progress(k), Filled(k, store)
  PROVE  Following'
  <1>1. geo' = geo /\ Layer' = Layer
    BY DEF config, Layer
  <1> SUFFICES ASSUME NEW d \in Caller PROVE (Progress(call[d]) /\ Filled(call[d], cache[d]))'
    BY DEF Following
  <1>2. \E j, t : /\ call'[d] = j /\ cache'[d] = t /\ Progress(j) /\ Filled(j, t)
    BY DEF IndInv, TypeOK, Following
  <1> QED
    BY <1>1, <1>2 DEF Progress, Filled, Held, RequestFits

StoreType == [Layer -> [tokens : Nat, capacity : Nat]]

\* A step of a caller that neither opens nor closes a session.
LEMMA InnerStep ==
  ASSUME IndInv, NEW c \in Caller, NEW k \in CallType, NEW store \in StoreType,
         call' = [call EXCEPT ![c] = k], cache' = [cache EXCEPT ![c] = store],
         UNCHANGED <<config, nextSessionId, sessions, reserved>>,
         peak' \in Nat, peak' <= limit,
         k.id = call[c].id,
         k.pc \in {"Idle", "Open"} <=> call[c].pc \in {"Idle", "Open"},
         Progress(k), Filled(k, store)
  PROVE  IndInv'
  <1>1. Following'
    BY FollowingMoves
  <1>2. geo' = geo /\ limit' = limit /\ cuda' = cuda /\ bytesPerSession' = bytesPerSession
        /\ Layer' = Layer
    BY DEF config, Layer
  <1>3. Built'
    BY <1>2 DEF IndInv, Built
  <1>4. TypeOK'
    <2>1. peak' \in 0..SizeMax
      BY InferenceAssumption DEF IndInv, TypeOK
    <2>2. call' \in [Caller -> CallType] /\ cache' \in [Caller -> StoreType]
      BY DEF IndInv, TypeOK, StoreType
    <2> QED
      BY <1>2, <2>1, <2>2 DEF IndInv, TypeOK, StoreType
  <1>5. Booked'
    <2>1. \A d \in Caller : call'[d].id = call[d].id /\ (HasSession(d)' <=> HasSession(d))
      BY DEF IndInv, TypeOK, HasSession
    <2>2. Holders' = Holders
      BY <2>1 DEF Holders
    <2>3. {call[d].id : d \in Holders}' = {call[d].id : d \in Holders}
      BY <2>1, <2>2 DEF Holders
    <2>4. \A d \in Holders : d \in Caller
      BY DEF Holders
    <2> QED
      BY <1>2, <2>1, <2>2, <2>3, <2>4 DEF IndInv, Booked
  <1> QED
    BY <1>1, <1>3, <1>4, <1>5 DEF IndInv

\* The same when the cache and the manager are left alone.
LEMMA CallStep ==
  ASSUME IndInv, NEW c \in Caller, NEW k \in CallType,
         call' = [call EXCEPT ![c] = k], UNCHANGED <<config, manager, cache>>,
         k.id = call[c].id,
         k.pc \in {"Idle", "Open"} <=> call[c].pc \in {"Idle", "Open"},
         Progress(k), Filled(k, cache[c])
  PROVE  IndInv'
  <1>1. cache' = [cache EXCEPT ![c] = cache[c]] /\ cache[c] \in StoreType
    BY DEF IndInv, TypeOK, StoreType
  <1>2. UNCHANGED <<nextSessionId, sessions, reserved>> /\ peak' \in Nat /\ peak' <= limit
    BY DEF manager, IndInv, TypeOK, Booked
  <1> QED
    BY <1>1, <1>2, InnerStep

\* What is known of a caller's call, its cache and the geometry.
LEMMA CallFacts ==
  ASSUME IndInv, NEW c \in Caller
  PROVE  /\ call[c] \in CallType /\ Progress(call[c]) /\ Filled(call[c], cache[c])
         /\ cache[c] \in StoreType
         /\ call[c].pc \in {"Idle", "Open"} => call[c].id = 0
         /\ geo.seq \in Nat \ {0} /\ geo.layers \in Nat \ {0}
  <1>1. geo.seq \in Nat \ {0} /\ geo.layers \in Nat \ {0}
    BY SizesChecked DEF IndInv, TypeOK, Built
  <1> QED
    BY <1>1 DEF IndInv, TypeOK, StoreType, Following, Booked, Holders, HasSession

\* generate accepts a request that fits the sequence.
LEMMA GenerateHolds == ASSUME IndInv, NEW c \in Caller, Generate(c) PROVE IndInv'
  <1> USE InferenceAssumption
  <1>1. PICK prompt \in PromptLength, maximum \in NewTokens :
          /\ RequestFits(prompt, maximum)
          /\ call' = [call EXCEPT ![c] = [IdleCall EXCEPT
                        !.pc = "Open", !.prompt = prompt, !.maximum = maximum]]
    BY DEF Generate
  <1> DEFINE k == [IdleCall EXCEPT !.pc = "Open", !.prompt = prompt, !.maximum = maximum]
  <1>2. k \in CallType /\ k.pc = "Open" /\ k.id = 0
    <2>1. prompt \in Nat /\ maximum \in Nat
      OBVIOUS
    <2> QED
      BY <2>1, IdleType DEF CallType, Pc
  <1>3. k.prompt = prompt /\ k.maximum = maximum /\ k.error = "None" /\ ~k.active
    BY IdleType DEF CallType
  <1>4. call[c].pc = "Idle" /\ UNCHANGED <<config, manager, cache>>
    BY DEF Generate
  <1> HIDE DEF k
  <1>5. Progress(k)
    BY <1>1, <1>2, <1>3 DEF Progress, Running, InPass
  <1>6. Filled(k, cache[c])
    BY <1>2, <1>4, CallFacts DEF Filled, Held
  <1> QED
    BY <1>1, <1>2, <1>4, <1>5, <1>6, CallFacts, CallStep DEF k

\* The constructor threw: the caller is as it was before generate.
LEMMA OpenRefusedHolds == ASSUME IndInv, NEW c \in Caller, OpenRefused(c) PROVE IndInv'
  <1>1. call[c].pc = "Open" /\ call' = [call EXCEPT ![c] = IdleCall]
        /\ UNCHANGED <<config, manager, cache>>
    BY DEF OpenRefused
  <1>2. IdleCall \in CallType /\ IdleCall.pc = "Idle" /\ IdleCall.id = 0
    BY IdleType
  <1>3. Progress(IdleCall)
    BY DEF Progress, IdleCall, Running, InPass
  <1>4. Filled(IdleCall, cache[c])
    BY <1>1, <1>2, CallFacts DEF Filled, Held
  <1> QED
    BY <1>1, <1>2, <1>3, <1>4, CallFacts, CallStep

\* prefill is not refused, and its pass ends at the prompt.
LEMMA PrefillHolds == ASSUME IndInv, NEW c \in Caller, Prefill(c) PROVE IndInv'
  <1>1. call[c].pc = "Prefill" /\ UNCHANGED <<config, manager, cache>>
    BY DEF Prefill
  <1>2. ~call[c].active /\ RequestFits(call[c].prompt, call[c].maximum)
    BY <1>1, CallFacts DEF Progress
  <1> DEFINE k == Passing(Begun(call[c]), call[c].prompt)
  <1>3. call' = [call EXCEPT ![c] = k]
    <2>1. ~(call[c].prompt > geo.seq)
      BY <1>2, CallFacts DEF RequestFits, CallType
    <2> QED
      BY <1>2, <2>1 DEF Prefill
  <1>4. k \in CallType
    BY CallFacts DEF CallType, Passing, Begun, Pc, StopReason
  <1>5. /\ k.pc = "Attention" /\ k.id = call[c].id /\ k.error = call[c].error
        /\ k.prompt = call[c].prompt /\ k.maximum = call[c].maximum
        /\ k.active = TRUE /\ k.reason = "None" /\ k.generated = 0 /\ k.pos = 0
        /\ k.feed = call[c].prompt /\ k.layer = 0
    BY CallFacts DEF CallType, Passing, Begun
  <1> HIDE DEF k
  <1>6. Progress(k)
    BY <1>1, <1>2, <1>4, <1>5, CallFacts DEF Progress, Running, InPass, RequestFits, CallType
  <1>7. Filled(k, cache[c])
    BY <1>1, <1>5, CallFacts DEF Filled, Held, InPass, Layer
  <1> QED
    BY <1>1, <1>3, <1>4, <1>5, <1>6, <1>7, CallStep

\* decode is not refused: the request left room for the token.
LEMMA DecodeHolds == ASSUME IndInv, NEW c \in Caller, Decode(c) PROVE IndInv'
  <1>1. call[c].pc = "Decode" /\ UNCHANGED <<config, manager, cache>>
    BY DEF Decode
  <1>2. /\ call[c].active /\ call[c].reason = "None" /\ call[c].generated < call[c].maximum
        /\ RequestFits(call[c].prompt, call[c].maximum)
        /\ call[c].pos + 1 = call[c].prompt + call[c].generated
    BY <1>1, CallFacts DEF Progress, Running
  <1>3. call[c].pos < geo.seq
    BY <1>2, CallFacts DEF RequestFits, CallType
  <1> DEFINE k == Passing(call[c], 1)
  <1>4. call' = [call EXCEPT ![c] = k]
    <2>1. ~(call[c].pos >= geo.seq)
      BY <1>3, CallFacts DEF CallType
    <2> QED
      BY <1>2, <2>1 DEF Decode, Finished
  <1>5. k \in CallType
    BY CallFacts DEF CallType, Passing, Pc
  <1>6. /\ k.pc = "Attention" /\ k.id = call[c].id /\ k.error = call[c].error
        /\ k.prompt = call[c].prompt /\ k.maximum = call[c].maximum
        /\ k.active = call[c].active /\ k.reason = call[c].reason
        /\ k.generated = call[c].generated /\ k.pos = call[c].pos
        /\ k.feed = 1 /\ k.layer = 0
    BY CallFacts DEF CallType, Passing
  <1> HIDE DEF k
  <1>7. Progress(k)
    BY <1>1, <1>2, <1>5, <1>6, CallFacts DEF Progress, Running, InPass
  <1>8. Filled(k, cache[c])
    BY <1>1, <1>6, CallFacts DEF Filled, Held, InPass, Layer
  <1> QED
    BY <1>1, <1>4, <1>5, <1>6, <1>7, <1>8, CallStep

\* The loop over the layers goes on, or the pass reaches the head.
LEMMA ExpertsHolds == ASSUME IndInv, NEW c \in Caller, Experts(c) PROVE IndInv'
  <1>1. call[c].pc = "Experts" /\ UNCHANGED <<config, manager, cache>>
    BY DEF Experts
  <1>2. /\ call[c].active /\ call[c].reason = "None" /\ call[c].generated < call[c].maximum
        /\ RequestFits(call[c].prompt, call[c].maximum)
        /\ call[c].layer < geo.layers /\ call[c].feed # 0
        /\ call[c].pos + call[c].feed = call[c].prompt + call[c].generated
    BY <1>1, CallFacts DEF Progress, Running, InPass
  <1>3. CASE call[c].layer + 1 < geo.layers
    <2> DEFINE k == [Advanced(Routed(call[c])) EXCEPT !.pc = "Attention"]
    <2>1. call' = [call EXCEPT ![c] = k]
      BY <1>3 DEF Experts
    <2>2. k \in CallType
      <3>1. ASSUME NEW j \in CallType PROVE Routed(j) \in CallType
        BY DEF CallType, Routed
      <3>2. ASSUME NEW j \in CallType PROVE Advanced(j) \in CallType
        <4>1. j.layer + 1 \in Nat
          BY DEF CallType
        <4> QED
          BY <4>1 DEF CallType, Advanced
      <3>3. ASSUME NEW j \in CallType PROVE [j EXCEPT !.pc = "Attention"] \in CallType
        BY DEF CallType, Pc
      <3> QED
        BY <3>1, <3>2, <3>3, CallFacts
    <2>3. /\ k.pc = "Attention" /\ k.id = call[c].id /\ k.error = call[c].error
          /\ k.prompt = call[c].prompt /\ k.maximum = call[c].maximum
          /\ k.active = call[c].active /\ k.reason = call[c].reason
          /\ k.generated = call[c].generated /\ k.pos = call[c].pos
          /\ k.feed = call[c].feed /\ k.layer = call[c].layer + 1
      BY CallFacts DEF CallType, Routed, Advanced
    <2> HIDE DEF k
    <2>4. Progress(k)
      BY <1>1, <1>2, <1>3, <2>2, <2>3, CallFacts DEF Progress, Running, InPass
    <2>5. Filled(k, cache[c])
      <3>1. \A l \in Layer : l < k.layer <=> l <= call[c].layer
        BY <2>3, CallFacts DEF CallType, Layer
      <3>2. \A l \in Layer : Held(k, l) = Held(call[c], l)
        BY <1>1, <2>3, <3>1, CallFacts DEF Held, InPass, Layer, CallType
      <3> QED
        BY <1>1, <2>3, <3>2, CallFacts DEF Filled
    <2> QED
      BY <1>1, <2>1, <2>2, <2>3, <2>4, <2>5, CallStep
  <1>4. CASE ~(call[c].layer + 1 < geo.layers)
    <2> DEFINE k == [Routed(call[c]) EXCEPT !.pc = "Head"]
    <2>1. call' = [call EXCEPT ![c] = k]
      BY <1>4 DEF Experts
    <2>2. k \in CallType
      BY CallFacts DEF CallType, Routed, Pc
    <2>3. /\ k.pc = "Head" /\ k.id = call[c].id /\ k.error = call[c].error
          /\ k.prompt = call[c].prompt /\ k.maximum = call[c].maximum
          /\ k.active = call[c].active /\ k.reason = call[c].reason
          /\ k.generated = call[c].generated /\ k.pos = call[c].pos
          /\ k.feed = call[c].feed /\ k.layer = call[c].layer /\ k.routed
      BY CallFacts DEF CallType, Routed
    <2> HIDE DEF k
    <2>4. k.layer = geo.layers - 1
      BY <1>2, <1>4, <2>3, CallFacts DEF CallType
    <2>5. Progress(k)
      BY <1>1, <1>2, <2>2, <2>3, <2>4, CallFacts DEF Progress, Running, InPass
    <2>6. Filled(k, cache[c])
      BY <1>1, <2>3, CallFacts DEF Filled, Held, InPass
    <2> QED
      BY <1>1, <2>1, <2>2, <2>3, <2>5, <2>6, CallStep
  <1> QED
    BY <1>3, <1>4

\* Every layer has advanced, so the pass is recorded and the position moves.
LEMMA HeadHolds == ASSUME IndInv, NEW c \in Caller, Head(c) PROVE IndInv'
  <1>1. call[c].pc = "Head" /\ UNCHANGED <<config, manager, cache>>
    BY DEF Head
  <1>2. /\ call[c].active /\ call[c].reason = "None" /\ call[c].generated < call[c].maximum
        /\ RequestFits(call[c].prompt, call[c].maximum)
        /\ call[c].routed /\ call[c].layer = geo.layers - 1 /\ call[c].feed # 0
        /\ call[c].pos + call[c].feed = call[c].prompt + call[c].generated
    BY <1>1, CallFacts DEF Progress, Running, InPass
  <1>3. \A l \in Layer : cache[c][l].tokens = call[c].pos + call[c].feed
    <2>1. \A l \in Layer : l < call[c].layer \/ l = call[c].layer
      BY <1>2, CallFacts DEF Layer, CallType
    <2> QED
      BY <1>1, <2>1, CallFacts DEF Filled, Held, InPass
  <1> DEFINE k == [AtNextPosition(Recorded(call[c])) EXCEPT !.pc = "Stats"]
  <1>4. call' = [call EXCEPT ![c] = k]
    BY <1>2, <1>3 DEF Head, CanRecord, CanAdvance
  <1>5. k \in CallType
    <2>1. ASSUME NEW j \in CallType
          PROVE  j.pos + j.feed \in Nat /\ Recorded(j) \in CallType
      BY DEF CallType, Recorded
    <2>2. ASSUME NEW j \in CallType PROVE AtNextPosition(j) \in CallType
      BY <2>1 DEF CallType, AtNextPosition
    <2>3. ASSUME NEW j \in CallType PROVE [j EXCEPT !.pc = "Stats"] \in CallType
      BY DEF CallType, Pc
    <2> QED
      BY <2>1, <2>2, <2>3, CallFacts
  <1>6. /\ k.pc = "Stats" /\ k.id = call[c].id /\ k.error = call[c].error
        /\ k.prompt = call[c].prompt /\ k.maximum = call[c].maximum
        /\ k.active = call[c].active /\ k.reason = call[c].reason
        /\ k.generated = call[c].generated /\ k.pos = call[c].pos + call[c].feed
        /\ k.forwarded.cached = call[c].pos + call[c].feed
    BY CallFacts DEF CallType, AtNextPosition, Recorded
  <1> HIDE DEF k
  <1>7. Progress(k)
    BY <1>1, <1>2, <1>5, <1>6, CallFacts DEF Progress, Running, InPass
  <1>8. Filled(k, cache[c])
    BY <1>3, <1>6, CallFacts DEF Filled, Held, InPass
  <1> QED
    BY <1>1, <1>4, <1>5, <1>6, <1>7, <1>8, CallStep

\* A token that is not the last one leaves room for the next.
LEMMA SampleHolds == ASSUME IndInv, NEW c \in Caller, Sample(c) PROVE IndInv'
  <1>1. call[c].pc = "Sample" /\ UNCHANGED <<config, manager, cache>>
    BY DEF Sample
  <1>2. /\ call[c].active /\ call[c].reason = "None" /\ call[c].generated < call[c].maximum
        /\ RequestFits(call[c].prompt, call[c].maximum)
        /\ call[c].pos = call[c].prompt + call[c].generated
    BY <1>1, CallFacts DEF Progress, Running
  <1>3. PICK stop \in BOOLEAN :
          call' = [call EXCEPT
              ![c].generated = call[c].generated + 1,
              ![c].reason = ReasonAfter(c, stop),
              ![c].pc = IF ReasonAfter(c, stop) = "None" THEN "Decode" ELSE "Close"]
    <2>1. ~(call[c].generated >= call[c].maximum)
      BY <1>2, CallFacts DEF CallType
    <2> QED
      BY <1>2, <2>1 DEF Sample, Finished
  <1> DEFINE reason == ReasonAfter(c, stop)
             k == [call[c] EXCEPT !.generated = call[c].generated + 1, !.reason = reason,
                                  !.pc = IF reason = "None" THEN "Decode" ELSE "Close"]
  <1>4. call' = [call EXCEPT ![c] = k]
    BY <1>3, CallFacts DEF IndInv, TypeOK, CallType
  <1>5. reason \in StopReason
        /\ (reason = "None" => call[c].generated + 1 # call[c].maximum)
    BY DEF ReasonAfter, StopReason
  <1> HIDE DEF reason
  <1>6. k \in CallType
    <2>1. ASSUME NEW pc \in {"Decode", "Close"}, NEW n \in Nat
          PROVE  [call[c] EXCEPT !.generated = n, !.reason = reason, !.pc = pc] \in CallType
      BY <1>5, CallFacts DEF CallType, Pc
    <2>2. call[c].generated + 1 \in Nat
      BY CallFacts DEF CallType
    <2> QED
      BY <2>1, <2>2
  <1>7. /\ k.pc = IF reason = "None" THEN "Decode" ELSE "Close"
        /\ k.id = call[c].id /\ k.error = call[c].error
        /\ k.prompt = call[c].prompt /\ k.maximum = call[c].maximum
        /\ k.active = call[c].active /\ k.reason = reason
        /\ k.generated = call[c].generated + 1 /\ k.pos = call[c].pos
    BY CallFacts DEF CallType
  <1> HIDE DEF k
  <1>8. Progress(k)
    <2>1. k.error # "Refused" /\ RequestFits(k.prompt, k.maximum)
      BY <1>2, <1>7, CallFacts DEF Progress
    <2>2. k.pc \in {"Decode", "Close"}
      BY <1>7
    <2>3. k.pc = "Decode" => /\ k.active /\ k.reason = "None" /\ k.generated < k.maximum
                             /\ k.pos + 1 = k.prompt + k.generated
      BY <1>2, <1>5, <1>7, CallFacts DEF CallType
    <2> QED
      BY <2>1, <2>2, <2>3 DEF Progress, Running, InPass
  <1>9. Filled(k, cache[c])
    BY <1>1, <1>7, CallFacts DEF Filled, Held, InPass
  <1> QED
    BY <1>1, <1>4, <1>6, <1>7, <1>8, <1>9, CallStep

\* An exception goes to the destructor with the caches as they are.
LEMMA FailHolds == ASSUME IndInv, NEW c \in Caller, Fail(c) PROVE IndInv'
  <1>1. /\ call[c].pc \in {"Attention", "Experts", "Head", "Sample"}
        /\ UNCHANGED <<config, manager, cache>>
    BY DEF Fail
  <1> DEFINE k == [call[c] EXCEPT !.pc = "Close", !.error = "External"]
  <1>2. call' = [call EXCEPT ![c] = k]
    BY CallFacts DEF Fail, IndInv, TypeOK, CallType
  <1>3. k \in CallType
    BY CallFacts DEF CallType, Pc, Error
  <1>4. /\ k.pc = "Close" /\ k.error = "External" /\ k.id = call[c].id
        /\ k.prompt = call[c].prompt /\ k.maximum = call[c].maximum
    BY CallFacts DEF CallType
  <1> HIDE DEF k
  <1>5. Progress(k) /\ Filled(k, cache[c])
    BY <1>1, <1>4, CallFacts DEF Progress, Running, InPass, Filled
  <1> QED
    BY <1>1, <1>2, <1>3, <1>4, <1>5, CallStep

\* append takes the tokens of the pass, and grows within the maximum sequence.
LEMMA AttentionHolds == ASSUME IndInv, NEW c \in Caller, Attention(c) PROVE IndInv'
  <1> DEFINE l == call[c].layer
             old == cache[c][l]
  <1>1. call[c].pc = "Attention" /\ UNCHANGED <<config, manager>>
    BY DEF Attention
  <1>2. /\ call[c].active /\ call[c].reason = "None" /\ call[c].generated < call[c].maximum
        /\ RequestFits(call[c].prompt, call[c].maximum)
        /\ l < geo.layers /\ call[c].feed # 0
        /\ call[c].pos + call[c].feed = call[c].prompt + call[c].generated
    BY <1>1, CallFacts DEF Progress, Running, InPass
  <1>3. l \in Layer /\ old.tokens \in Nat /\ old.capacity \in 0..geo.seq
        /\ old.tokens = call[c].pos
    <2>1. l \in Layer
      BY <1>2, CallFacts DEF CallType, Layer
    <2>2. old.tokens \in Nat /\ old.capacity \in Nat
      BY <2>1, CallFacts DEF StoreType
    <2>3. old.capacity <= geo.seq /\ old.tokens = Held(call[c], l)
      BY <1>1, <2>1, CallFacts DEF Filled
    <2>4. Held(call[c], l) = call[c].pos
      BY <1>1, CallFacts DEF Held, InPass, CallType
    <2> QED
      BY <2>1, <2>2, <2>3, <2>4, CallFacts
  <1> DEFINE required == call[c].pos + call[c].feed
  <1>4. required \in 1..geo.seq
    BY <1>2, CallFacts DEF RequestFits, CallType
  <1>5. CanAppend(old, call[c].pos, call[c].feed)
    BY <1>2, <1>3, <1>4, CallFacts DEF CanAppend, CallType
  <1> DEFINE new == IF cuda THEN DeviceAppended(old, call[c].feed)
                            ELSE HostAppended(old, call[c].feed)
             store == [cache[c] EXCEPT ![l] = new]
             k == [call[c] EXCEPT !.pc = "Experts"]
  <1>6. call' = [call EXCEPT ![c] = k] /\ cache' = [cache EXCEPT ![c] = store]
    <2>1. /\ IF cuda THEN DeviceAttention(c, l) ELSE HostAttention(c, l)
          /\ call' = [call EXCEPT ![c].pc = "Experts"]
      BY <1>5 DEF Attention
    <2> QED
      BY <2>1 DEF DeviceAttention, HostAttention
  <1>7. new.tokens = required /\ new.capacity \in 0..geo.seq
        /\ new \in [tokens : Nat, capacity : Nat]
    <2>0. old \in [tokens : Nat, capacity : Nat]
      BY <1>3, CallFacts DEF StoreType
    <2>1. CASE ~cuda
      BY <1>3, <1>4, <2>0, <2>1 DEF HostAppended
    <2>2. CASE cuda
      <3> DEFINE room == IF old.capacity < required THEN Grown(old.capacity, required)
                                                    ELSE old.capacity
      <3>1. Grown(old.capacity, required) \in required..geo.seq
        BY <1>3, <1>4, CallFacts, GrowthEnds
      <3>2. room \in 0..geo.seq
        BY <1>3, <1>4, <3>1, CallFacts
      <3>3. new = [tokens |-> required, capacity |-> room]
        BY <1>3, <2>2 DEF DeviceAppended
      <3> HIDE DEF room, required, new
      <3> QED
        BY <1>4, <3>2, <3>3, CallFacts
    <2> QED
      BY <2>1, <2>2
  <1> HIDE DEF new
  <1>8. store \in StoreType /\ store[l] = new /\ \A m \in Layer : m # l => store[m] = cache[c][m]
    BY <1>3, <1>7, CallFacts DEF StoreType
  <1>9. k \in CallType
    BY CallFacts DEF CallType, Pc
  <1>10. /\ k.pc = "Experts" /\ k.id = call[c].id /\ k.error = call[c].error
         /\ k.prompt = call[c].prompt /\ k.maximum = call[c].maximum
         /\ k.active = call[c].active /\ k.reason = call[c].reason
         /\ k.generated = call[c].generated /\ k.pos = call[c].pos
         /\ k.feed = call[c].feed /\ k.layer = l
    BY CallFacts DEF CallType
  <1> HIDE DEF k, store
  <1>11. Progress(k)
    BY <1>1, <1>2, <1>9, <1>10, CallFacts DEF Progress, Running, InPass
  <1>12. Filled(k, store)
    <2> SUFFICES ASSUME NEW m \in Layer
                 PROVE  /\ store[m].tokens = Held(k, m)
                        /\ store[m].tokens <= geo.seq /\ store[m].capacity <= geo.seq
      BY DEF Filled
    <2>1. CASE m = l
      <3>1. Held(k, m) = required
        BY <1>10, <2>1 DEF Held, InPass
      <3> QED
        BY <1>4, <1>7, <1>8, <2>1, <3>1, CallFacts
    <2>2. CASE m # l
      <3>1. Held(k, m) = Held(call[c], m)
        BY <1>1, <1>10, <2>2 DEF Held, InPass
      <3> QED
        BY <1>1, <1>8, <2>2, <3>1, CallFacts DEF Filled
    <2> QED
      BY <2>1, <2>2
  <1>13. UNCHANGED <<config, nextSessionId, sessions, reserved>> /\ peak' \in Nat /\ peak' <= limit
    BY <1>1 DEF manager, IndInv, TypeOK, Booked
  <1> QED
    BY <1>1, <1>6, <1>8, <1>9, <1>10, <1>11, <1>12, <1>13, InnerStep

\* The peak is raised to what the caches take, which is within the limit.
LEMMA StatsHolds == ASSUME IndInv, NEW c \in Caller, Stats(c) PROVE IndInv'
  <1>1. /\ call[c].pc = "Stats"
        /\ UNCHANGED <<config, nextSessionId, sessions, reserved, cache>>
    BY DEF Stats
  <1> DEFINE k == [call[c] EXCEPT !.pc = "Sample"]
  <1>2. call' = [call EXCEPT ![c] = k]
    BY DEF Stats
  <1>3. k \in CallType
    BY CallFacts DEF CallType, Pc
  <1>4. /\ k.pc = "Sample" /\ k.id = call[c].id /\ k.error = call[c].error
        /\ k.prompt = call[c].prompt /\ k.maximum = call[c].maximum
        /\ k.active = call[c].active /\ k.reason = call[c].reason
        /\ k.generated = call[c].generated /\ k.pos = call[c].pos
        /\ k.forwarded = call[c].forwarded
    BY CallFacts DEF CallType
  <1> HIDE DEF k
  <1>5. Progress(k) /\ Filled(k, cache[c])
    BY <1>1, <1>4, CallFacts DEF Progress, Running, InPass, Filled, Held
  <1>6. peak' \in Nat /\ peak' <= limit
    BY CommittedBound DEF Stats, IndInv, TypeOK, Booked
  <1>7. cache' = [cache EXCEPT ![c] = cache[c]] /\ cache[c] \in StoreType
    BY <1>1 DEF IndInv, TypeOK, StoreType
  <1> QED
    BY <1>1, <1>2, <1>3, <1>4, <1>5, <1>6, <1>7, InnerStep

\* allocateSession gives an id nobody has, and one more reservation.
LEMMA OpenSessionHolds == ASSUME IndInv, NEW c \in Caller, OpenSession(c) PROVE IndInv'
  <1> USE InferenceAssumption
  <1>1. /\ call[c].pc = "Open" /\ CanAllocate /\ UNCHANGED <<config, peak>>
        /\ nextSessionId' = (nextSessionId + 1) % (SessionIds + 1)
        /\ sessions' = sessions \cup {nextSessionId}
        /\ reserved' = reserved + bytesPerSession
        /\ cache' = [cache EXCEPT ![c] = EmptyCache]
    BY DEF OpenSession, AllocateSession
  <1> DEFINE n == nextSessionId
             k == [call[c] EXCEPT !.pc = "Prefill", !.id = n]
  <1>2. call' = [call EXCEPT ![c] = k]
    BY CallFacts DEF OpenSession, IndInv, TypeOK, CallType
  <1>3. n \in 1..SessionIds /\ n' \in 0..SessionIds /\ (n' # 0 => n < n')
    <2>1. n \in 1..SessionIds
      BY <1>1 DEF CanAllocate, IndInv, TypeOK
    <2>2. \A m \in 1..SessionIds :
            (m + 1) % (SessionIds + 1) = IF m = SessionIds THEN 0 ELSE m + 1
      OBVIOUS
    <2> QED
      BY <1>1, <2>1, <2>2
  <1>4. k \in CallType
    <2>1. n \in 0..SessionIds
      BY <1>3
    <2> QED
      BY <2>1, CallFacts DEF CallType, Pc
  <1>5. /\ k.pc = "Prefill" /\ k.id = n /\ k.error = call[c].error
        /\ k.prompt = call[c].prompt /\ k.maximum = call[c].maximum
        /\ k.active = call[c].active
    BY CallFacts DEF CallType
  <1> HIDE DEF k
  <1>6. Progress(k)
    BY <1>1, <1>5, CallFacts DEF Progress, Running, InPass
  <1>7. Filled(k, EmptyCache) /\ EmptyCache \in StoreType
    BY <1>5, CallFacts DEF Filled, Held, EmptyCache, EmptyLayer, StoreType
  <1>8. Following'
    BY <1>1, <1>2, <1>6, <1>7, FollowingMoves
  <1>9. geo' = geo /\ limit' = limit /\ cuda' = cuda /\ bytesPerSession' = bytesPerSession
        /\ Layer' = Layer
    BY <1>1 DEF config, Layer
  <1>10. Built'
    BY <1>9 DEF IndInv, Built
  <1>11. /\ bytesPerSession \in Nat /\ limit \in 0..SizeMax /\ reserved' \in Nat
         /\ reserved' <= limit
    BY <1>1 DEF CanAllocate, IndInv, TypeOK
  <1>12. TypeOK'
    <2>1. call' \in [Caller -> CallType] /\ cache' \in [Caller -> StoreType]
      BY <1>1, <1>2, <1>4, <1>7 DEF IndInv, TypeOK, StoreType
    <2>2. reserved' \in 0..SizeMax /\ sessions' \subseteq 1..SessionIds
      BY <1>1, <1>3, <1>11 DEF IndInv, TypeOK
    <2> QED
      BY <1>1, <1>3, <1>9, <2>1, <2>2 DEF IndInv, TypeOK, StoreType
  <1>13. Booked'
    <2>1. c \notin Holders
      BY <1>1 DEF Holders, HasSession
    <2>2. Holders' = Holders \cup {c}
      BY <1>2, <1>5 DEF Holders, HasSession, IndInv, TypeOK
    <2>3. call'[c].id = n /\ \A d \in Caller : d # c => call'[d] = call[d]
      BY <1>2, <1>5 DEF IndInv, TypeOK
    <2>4. IsFiniteSet(Holders)
      BY CallerAssumption, FS_Subset DEF Holders
    <2>5. Cardinality(Holders') = Cardinality(Holders) + 1 /\ Cardinality(Holders) \in Nat
      <3>1. Cardinality(Holders \cup {c}) = Cardinality(Holders) + 1
        BY <2>1, <2>4, FS_AddElement
      <3> QED
        BY <2>2, <2>4, <3>1, FS_CardinalityType
    <2>6. reserved' = bytesPerSession * Cardinality(Holders')
      <3>1. reserved = bytesPerSession * Cardinality(Holders)
        BY DEF IndInv, Booked
      <3>2. \A m \in Nat : bytesPerSession * (m + 1) = bytesPerSession * m + bytesPerSession
        BY <1>11
      <3> QED
        BY <1>1, <2>5, <3>1, <3>2
    <2>7. \A d \in Holders : d # c /\ d \in Caller /\ call'[d].id = call[d].id /\ call[d].id < n
      BY <1>3, <2>1, <2>3 DEF IndInv, Booked, Holders
    <2>8. sessions' = {call'[d].id : d \in Holders'}
      <3>1. sessions = {call[d].id : d \in Holders}
        BY DEF IndInv, Booked
      <3>2. {call'[d].id : d \in Holders'} = {call[d].id : d \in Holders} \cup {n}
        BY <2>2, <2>3, <2>7
      <3> QED
        BY <1>1, <3>1, <3>2
    <2>9. \A d \in Caller \ Holders' : call'[d].id = 0
      BY <2>2, <2>3 DEF IndInv, Booked
    <2>10. \A d \in Holders' : call'[d].id # 0 /\ (n' # 0 => call'[d].id < n')
      <3> SUFFICES ASSUME NEW d \in Holders'
                   PROVE  call'[d].id # 0 /\ (n' # 0 => call'[d].id < n')
        OBVIOUS
      <3>1. CASE d = c
        BY <1>3, <2>3, <3>1
      <3>2. CASE d # c
        <4>1. d \in Holders /\ call'[d].id = call[d].id /\ call[d].id < n
          BY <2>2, <2>7, <3>2
        <4>2. call[d].id # 0 /\ call[d].id \in Nat
          BY <2>7, <4>1, CallFacts DEF IndInv, Booked, CallType
        <4> QED
          BY <1>3, <4>1, <4>2
      <3> QED
        BY <3>1, <3>2
    <2>11. \A d, e \in Holders' : call'[d].id = call'[e].id => d = e
      <3>1. \A d \in Holders : call[d].id # n
        BY <1>3, <2>7, CallFacts DEF CallType
      <3>2. \A d, e \in Holders : call[d].id = call[e].id => d = e
        BY DEF IndInv, Booked
      <3> QED
        BY <2>2, <2>3, <2>7, <3>1, <3>2
    <2>12. peak' <= limit
      BY <1>1 DEF IndInv, Booked
    <2> QED
      BY <1>9, <1>11, <2>6, <2>8, <2>9, <2>10, <2>11, <2>12 DEF Booked
  <1> QED
    BY <1>8, <1>10, <1>12, <1>13 DEF IndInv

\* releaseSession gives back one reservation and the caller's id only.
LEMMA CloseSessionHolds == ASSUME IndInv, NEW c \in Caller, CloseSession(c) PROVE IndInv'
  <1> USE InferenceAssumption
  <1>1. /\ call[c].pc = "Close" /\ UNCHANGED <<config, nextSessionId, peak>>
        /\ sessions' = sessions \ {call[c].id}
        /\ call' = [call EXCEPT ![c] = IdleCall]
        /\ cache' = [cache EXCEPT ![c] = EmptyCache]
    BY DEF CloseSession
  <1>2. c \in Holders /\ call[c].id \in sessions
    BY <1>1 DEF IndInv, Booked, Holders, HasSession
  <1>3. reserved' = reserved - bytesPerSession
    BY <1>2 DEF CloseSession
  <1>4. Progress(IdleCall)
    BY DEF Progress, IdleCall, Running, InPass
  <1>5. Filled(IdleCall, EmptyCache) /\ EmptyCache \in StoreType
    BY IdleType, CallFacts DEF Filled, Held, EmptyCache, EmptyLayer, StoreType
  <1>6. Following'
    BY <1>1, <1>4, <1>5, FollowingMoves
  <1>7. geo' = geo /\ limit' = limit /\ cuda' = cuda /\ bytesPerSession' = bytesPerSession
        /\ Layer' = Layer
    BY <1>1 DEF config, Layer
  <1>8. Built'
    BY <1>7 DEF IndInv, Built
  <1>9. IsFiniteSet(Holders) /\ Cardinality(Holders) \in Nat
    BY CallerAssumption, FS_Subset, FS_CardinalityType DEF Holders
  <1>10. Holders' = Holders \ {c}
    BY <1>1, IdleType DEF Holders, HasSession, IndInv, TypeOK
  <1>11. Cardinality(Holders') = Cardinality(Holders) - 1 /\ Cardinality(Holders') \in Nat
    <2>1. Cardinality(Holders \ {c}) = Cardinality(Holders) - 1 /\ IsFiniteSet(Holders \ {c})
      BY <1>2, <1>9, FS_RemoveElement
    <2>2. Cardinality(Holders \ {c}) \in Nat
      BY <2>1, FS_CardinalityType
    <2> QED
      BY <1>10, <2>1, <2>2
  <1>12. /\ reserved' = bytesPerSession * Cardinality(Holders') /\ reserved' \in Nat
         /\ reserved' <= reserved
    <2>0. bytesPerSession \in Nat /\ reserved \in Nat
      BY DEF IndInv, TypeOK
    <2>1. \A m \in Nat : /\ bytesPerSession * (m + 1) = bytesPerSession * m + bytesPerSession
                         /\ bytesPerSession * m \in Nat
      BY <2>0
    <2>2. Cardinality(Holders) = Cardinality(Holders') + 1
      BY <1>9, <1>11
    <2>3. reserved = bytesPerSession * Cardinality(Holders)
      BY DEF IndInv, Booked
    <2> QED
      BY <1>3, <1>11, <2>0, <2>1, <2>2, <2>3
  <1>13. TypeOK'
    <2>1. call' \in [Caller -> CallType] /\ cache' \in [Caller -> StoreType]
      BY <1>1, <1>5, IdleType DEF IndInv, TypeOK, StoreType
    <2>2. reserved' \in 0..SizeMax
      BY <1>12 DEF IndInv, TypeOK
    <2>3. sessions' \subseteq 1..SessionIds
      BY <1>1 DEF IndInv, TypeOK
    <2> QED
      BY <1>1, <1>7, <2>1, <2>2, <2>3 DEF IndInv, TypeOK, StoreType
  <1>14. Booked'
    <2>1. call'[c] = IdleCall /\ \A d \in Caller : d # c => call'[d] = call[d]
      BY <1>1 DEF IndInv, TypeOK
    <2>2. \A d \in Holders' : d \in Holders /\ d # c /\ call'[d].id = call[d].id
      BY <1>10, <2>1 DEF Holders
    <2>3. \A d, e \in Holders : call[d].id = call[e].id => d = e
      BY DEF IndInv, Booked
    <2>4. sessions' = {call'[d].id : d \in Holders'}
      <3>1. sessions = {call[d].id : d \in Holders}
        BY DEF IndInv, Booked
      <3>2. {call'[d].id : d \in Holders'} = {call[d].id : d \in Holders} \ {call[c].id}
        BY <1>2, <1>10, <2>2, <2>3
      <3> QED
        BY <1>1, <3>1, <3>2
    <2>5. \A d \in Caller \ Holders' : call'[d].id = 0
      BY <1>10, <2>1, IdleType DEF IndInv, Booked
    <2>6. reserved' <= limit /\ peak' <= limit
      BY <1>1, <1>12 DEF IndInv, Booked, TypeOK
    <2> QED
      BY <1>1, <1>7, <1>12, <2>2, <2>3, <2>4, <2>5, <2>6 DEF IndInv, Booked
  <1> QED
    BY <1>6, <1>8, <1>13, <1>14 DEF IndInv

\* Every step keeps the invariant.
LEMMA NextIndInv == IndInv /\ [Next]_vars => IndInv'
  <1> SUFFICES ASSUME IndInv, [Next]_vars PROVE IndInv'
    OBVIOUS
  <1>1. CASE UNCHANGED vars
    <2>1. UNCHANGED <<geo, limit, cuda, bytesPerSession, nextSessionId, sessions,
                      reserved, peak, call, cache>>
      BY <1>1 DEF vars, config, manager
    <2>2. TypeOK' /\ Built'
      BY <2>1 DEF IndInv, TypeOK, Built, Layer
    <2>3. Holders' = Holders
      BY <2>1 DEF Holders, HasSession
    <2>4. Booked'
      BY <2>1, <2>3 DEF IndInv, Booked
    <2>5. Following'
      BY <2>1 DEF IndInv, Following, Progress, Filled, Held, RequestFits, Layer
    <2> QED
      BY <2>2, <2>4, <2>5 DEF IndInv
  <1>2. ASSUME NEW c \in Caller, Generate(c) \/ Step(c) \/ Fail(c) PROVE IndInv'
    BY <1>2, GenerateHolds, OpenSessionHolds, OpenRefusedHolds, PrefillHolds, DecodeHolds,
       AttentionHolds, ExpertsHolds, HeadHolds, StatsHolds, SampleHolds, FailHolds,
       CloseSessionHolds DEF Step
  <1> QED
    BY <1>1, <1>2 DEF Next
-----------------------------------------------------------------------------
(* The invariants of the module. *)

\* The invariant above holds in every reachable state.
THEOREM Invariance == Spec => []IndInv
  BY InitIndInv, NextIndInv, PTL DEF Spec

\* Every variable of the manager and of the callers keeps its type; no counter
\* of the manager passes a size_t.
THEOREM TypeCorrect == Spec => []TypeOK
  <1>1. IndInv => TypeOK
    BY DEF IndInv
  <1> QED
    BY <1>1, Invariance, PTL

\* generate's check of the request is enough: no session, cache or decoder check
\* refuses a request that passed it.
THEOREM ServedCorrect == Spec => []AcceptedIsServed
  <1>1. IndInv => AcceptedIsServed
    BY DEF IndInv, Following, Progress, AcceptedIsServed
  <1> QED
    BY <1>1, Invariance, PTL

\* Between passes every layer of a session's cache holds the prompt and the
\* tokens forwarded since, within a pass the layers done are ahead by its feed.
THEOREM CacheCorrect == Spec => []CacheFollowsTokens
  <1>1. IndInv => CacheFollowsTokens
    <2> SUFFICES ASSUME IndInv, NEW c \in Caller
                 PROVE
                   /\ call[c].pc \in {"Stats", "Sample"} =>
                        /\ call[c].pos = call[c].prompt + call[c].generated
                        /\ call[c].forwarded.cached = call[c].pos
                        /\ \A l \in Layer : cache[c][l].tokens = call[c].pos
                   /\ call[c].pc \in {"Attention", "Experts", "Head"} =>
                        \A l \in Layer :
                          cache[c][l].tokens =
                            IF l < call[c].layer
                                 \/ (l = call[c].layer /\ call[c].pc # "Attention")
                            THEN call[c].pos + call[c].feed ELSE call[c].pos
      BY DEF CacheFollowsTokens
    <2> QED
      BY CallFacts DEF Progress, Filled, Held, InPass
  <1> QED
    BY <1>1, Invariance, PTL

\* KVCacheManager's budget holds whoever generates at once and whatever fails:
\* one reservation for each session, within the limit, and no cache past its own.
THEOREM AdmissionCorrect == Spec => []Admission
  <1>1. IndInv => Admission
    <2> SUFFICES ASSUME IndInv PROVE Admission
      OBVIOUS
    <2>1. sessions = {call[c].id : c \in Holders}
          /\ \A c, d \in Holders : call[c].id = call[d].id => c = d
      BY DEF IndInv, Booked
    <2>2. Cardinality(sessions) = Cardinality(Holders)
      <3> DEFINE f == [c \in Holders |-> call[c].id]
      <3>1. f \in Bijection(Holders, sessions)
        BY <2>1 DEF Bijection, Injection, Surjection, IsInjective
      <3>2. IsFiniteSet(Holders)
        BY CallerAssumption, FS_Subset DEF Holders
      <3> QED
        BY <3>1, <3>2, FS_Bijection DEF ExistsBijection
    <2>3. \A c \in Caller : MemoryUsage(c) <= bytesPerSession
      BY UsageBound, CallFacts DEF IndInv
    <2> QED
      BY <2>1, <2>2, <2>3 DEF IndInv, Booked, Admission, Holders
  <1> QED
    BY <1>1, Invariance, PTL
=============================================================================
