----------------------------- MODULE Inference -----------------------------
(***************************************************************************)
(* Text generation: Generator::generate runs an InferenceSession through   *)
(* one prefill and a series of single-token decodes.  A pass goes through  *)
(* the embedding, every transformer block (attention appends the keys and  *)
(* values of the new tokens to the session's KV cache, then the experts    *)
(* run), the final norm and the output head.  Several threads may generate *)
(* at once: each has its own session, all share the KVCacheManager, whose  *)
(* budget admits them.  A step is the work between two points where the    *)
(* manager or another session can be seen, or where an exception leaves    *)
(* the caches as they are.                                                 *)
(***************************************************************************)
EXTENDS Integers, FiniteSets, FiniteSetsExt

CONSTANTS
  Caller,        \* threads inside generate
  Geometry,      \* [layers, seq, heads, dim] a manager may be built with
  MemoryLimit,   \* values of memoryLimitBytes
  SizeMax,       \* the largest size_t
  SessionIds,    \* session ids before nextSessionId_ wraps to zero
  PromptLength,  \* lengths tokenizer_->encode may return
  NewTokens      \* values of config.maximumNewTokens

ASSUME InferenceAssumption ==
  /\ Geometry \subseteq [layers: Nat, seq: Nat, heads: Nat, dim: Nat]
  /\ MemoryLimit \subseteq 0..SizeMax
  /\ SizeMax \in Nat \ {0}
  /\ SessionIds \in Nat \ {0}
  /\ PromptLength \subseteq Nat
  /\ NewTokens \subseteq Nat
ASSUME CallerAssumption == IsFiniteSet(Caller)
\* A size_t is a whole number of bytes, so the 8 bytes of a position divide the
\* range it wraps in.
ASSUME WidthAssumption == (SizeMax + 1) % 8 = 0

VARIABLES
  geo, limit, cuda,        \* the manager's construction parameters
  bytesPerSession,         \* bytesPerSession_, as the constructor computed it
  nextSessionId, sessions, reserved, peak,   \* the manager's members
  call,                    \* where each caller is in generate
  cache                    \* each session's KV cache, per layer

config == <<geo, limit, cuda, bytesPerSession>>
manager == <<nextSessionId, sessions, reserved, peak>>
vars == <<config, manager, call, cache>>

-----------------------------------------------------------------------------
(* Sizes.  size_t arithmetic wraps; every product is tested before use.    *)

PositionBytes == 8
FloatBytes == 4
Wrap(n) == n % (SizeMax + 1)

Values(g) == g.heads * g.dim
PerToken(g) == Wrap(PositionBytes + Wrap(2 * Values(g) * FloatBytes))

\* checkedCacheBytes returns instead of throwing.  A per-token size that wraps
\* to zero is divided by, which ends the process.
SizesAreSane(g) ==
  /\ g.layers # 0 /\ g.seq # 0 /\ g.heads # 0 /\ g.dim # 0
  /\ g.heads <= SizeMax \div g.dim
  /\ Values(g) <= SizeMax \div (2 * FloatBytes)
  /\ PerToken(g) # 0
  /\ g.seq <= SizeMax \div PerToken(g)
  /\ g.layers <= SizeMax \div (g.seq * PerToken(g))

CheckedCacheBytes(g) == Wrap(g.layers * g.seq * PerToken(g))

Layer == 0..(geo.layers - 1)

-----------------------------------------------------------------------------
(* The KV cache of a session: per layer the tokens it holds and, on CUDA,  *)
(* the tokens its device tensors have room for.                            *)

EmptyLayer == [tokens |-> 0, capacity |-> 0]
EmptyCache == [l \in Layer |-> EmptyLayer]

\* A mutant of Grown without the clamp to the maximum sequence.
GrownByDoubling(capacity, required) ==
  LET grow[c \in 1..(2 * geo.seq)] == IF c >= required THEN c ELSE grow[2 * c]
  IN grow[IF capacity = 0 THEN 1 ELSE capacity]

\* The capacity the growth loop of CudaKVCache::append ends with.
Grown(capacity, required) ==
  LET grow[c \in 1..geo.seq] ==
        IF c >= required THEN c
        ELSE grow[IF c > geo.seq \div 2 THEN geo.seq ELSE 2 * c]
  IN grow[IF capacity = 0 THEN 1 ELSE capacity]

\* append refuses a gap, an overlap and more than the maximum sequence.
CanAppend(store, first, count) ==
  /\ count # 0
  /\ first = store.tokens
  /\ count <= geo.seq - store.tokens

\* KVCache: vectors that grow with the tokens.
HostAppended(store, count) == [store EXCEPT !.tokens = @ + count]

\* CudaKVCache: the tensors are replaced by larger ones when they are full.
DeviceAppended(store, count) ==
  LET required == store.tokens + count IN
  [tokens |-> required,
   capacity |-> IF store.capacity < required
                THEN Grown(store.capacity, required) ELSE store.capacity]

\* memoryUsageBytes: vectors count what they hold, device tensors their room.
HostBytes(store) == (PositionBytes + 2 * FloatBytes * Values(geo)) * store.tokens
DeviceBytes(store) ==
  PositionBytes * store.tokens + 2 * FloatBytes * Values(geo) * store.capacity
MemoryUsage(c) ==
  MapThenSumSet(LAMBDA l : IF cuda THEN DeviceBytes(cache[c][l])
                           ELSE HostBytes(cache[c][l]), Layer)

-----------------------------------------------------------------------------
(* A caller.  pos, generated, active and reason are GenerationState; feed  *)
(* is the number of tokens of the pass under way and layer, routed are its *)
(* InferenceContext; forwarded is ForwardState, the position and the cache *)
(* extent of the latest complete pass.                                     *)

StopReason == {"None", "StopToken", "MaximumTokens"}
Pc == {"Idle", "Open", "Prefill", "Attention", "Experts", "Head", "Stats",
       "Sample", "Decode", "Close"}
NoPass == [position |-> 0, cached |-> 0]

IdleCall ==
  [pc |-> "Idle", id |-> 0, prompt |-> 0, maximum |-> 0,
   active |-> FALSE, pos |-> 0, generated |-> 0, reason |-> "None",
   feed |-> 0, layer |-> 0, routed |-> FALSE, forwarded |-> NoPass,
   error |-> "None"]

\* How a call that fails does so: the model's layers (kernels, experts,
\* allocation), or a refusal by the session's own checks.
Error == {"None", "External", "Refused"}

CallType ==
  [pc: Pc, id: 0..SessionIds, prompt: Nat, maximum: Nat, active: BOOLEAN,
   pos: Nat, generated: Nat, reason: StopReason, feed: Nat, layer: Nat,
   routed: BOOLEAN, forwarded: [position: Nat, cached: Nat], error: Error]

Finished(c) == call[c].reason # "None"

Init ==
  /\ geo \in {g \in Geometry : SizesAreSane(g)}
  /\ limit \in MemoryLimit
  /\ cuda \in BOOLEAN
  /\ bytesPerSession = CheckedCacheBytes(geo)
  /\ limit # 0 /\ bytesPerSession <= limit
  /\ nextSessionId = 1
  /\ sessions = {}
  /\ reserved = 0
  /\ peak = 0
  /\ call = [c \in Caller |-> IdleCall]
  /\ cache = [c \in Caller |-> EmptyCache]

-----------------------------------------------------------------------------
(* generate: the request is checked against the sequence bound before      *)
(* anything is allocated.                                                  *)

\* A mutant of RequestFits that forgets that the last token is not forwarded
\* but the one before it is.
RequestFitsLoosely(prompt, maximum) ==
  /\ maximum # 0
  /\ prompt # 0 /\ prompt <= geo.seq
  /\ maximum - 2 <= geo.seq - prompt

RequestFits(prompt, maximum) ==
  /\ maximum # 0
  /\ prompt # 0 /\ prompt <= geo.seq
  /\ maximum - 1 <= geo.seq - prompt

Generate(c) ==
  /\ call[c].pc = "Idle"
  /\ \E prompt \in PromptLength, maximum \in NewTokens :
       /\ RequestFits(prompt, maximum)
       /\ call' = [call EXCEPT ![c] = [IdleCall EXCEPT
                     !.pc = "Open", !.prompt = prompt, !.maximum = maximum]]
  /\ UNCHANGED <<config, manager, cache>>

\* A mutant of CanAllocate that lets the session ids wrap.
CanAllocateAnyId == reserved <= limit - bytesPerSession

CanAllocate == reserved <= limit - bytesPerSession /\ nextSessionId # 0

\* allocateSession, under the manager's mutex.
AllocateSession(c) ==
  /\ CanAllocate
  /\ nextSessionId' = (nextSessionId + 1) % (SessionIds + 1)
  /\ sessions' = sessions \cup {nextSessionId}
  /\ reserved' = reserved + bytesPerSession
  /\ cache' = [cache EXCEPT ![c] = EmptyCache]

\* InferenceSession's constructor.
OpenSession(c) ==
  /\ call[c].pc = "Open"
  /\ call[c].maximum <= geo.seq
  /\ AllocateSession(c)
  /\ call' = [call EXCEPT ![c].pc = "Prefill", ![c].id = nextSessionId]
  /\ UNCHANGED <<config, peak>>

\* The constructor throws; there is no session to destroy.
OpenRefused(c) ==
  /\ call[c].pc = "Open"
  /\ ~CanAllocate \/ call[c].maximum > geo.seq
  /\ call' = [call EXCEPT ![c] = IdleCall]
  /\ UNCHANGED <<config, manager, cache>>

-----------------------------------------------------------------------------
(* The forward pass.                                                       *)

Refuse(c) == call' = [call EXCEPT ![c].pc = "Close", ![c].error = "Refused"]

\* Decoder::execute: the pass starts at the session's position.
Passing(k, count) ==
  [k EXCEPT !.pc = "Attention", !.feed = count, !.layer = 0, !.routed = FALSE]

\* GenerationState::begin.
Begun(k) ==
  [k EXCEPT !.active = TRUE, !.pos = 0, !.generated = 0, !.reason = "None"]

\* prefill: the whole prompt in one pass.
Prefill(c) ==
  /\ call[c].pc = "Prefill"
  /\ IF call[c].active \/ call[c].prompt > geo.seq THEN Refuse(c)
     ELSE call' = [call EXCEPT ![c] = Passing(Begun(@), call[c].prompt)]
  /\ UNCHANGED <<config, manager, cache>>

\* decode: one token, if the cache has room for it.
Decode(c) ==
  /\ call[c].pc = "Decode"
  /\ IF ~call[c].active \/ Finished(c) \/ call[c].pos >= geo.seq THEN Refuse(c)
     ELSE call' = [call EXCEPT ![c] = Passing(@, 1)]
  /\ UNCHANGED <<config, manager, cache>>

\* The projected keys and values of the pass join the layer's cache at the
\* position of the pass, and the layer attends over all the cache holds.
HostAttention(c, l) ==
  cache' = [cache EXCEPT ![c][l] = HostAppended(@, call[c].feed)]
DeviceAttention(c, l) ==
  cache' = [cache EXCEPT ![c][l] = DeviceAppended(@, call[c].feed)]

\* The first half of a transformer block.
Attention(c) ==
  LET l == call[c].layer IN
  /\ call[c].pc = "Attention"
  /\ IF CanAppend(cache[c][l], call[c].pos, call[c].feed)
     THEN /\ IF cuda THEN DeviceAttention(c, l) ELSE HostAttention(c, l)
          /\ call' = [call EXCEPT ![c].pc = "Experts"]
     ELSE Refuse(c) /\ UNCHANGED cache
  /\ UNCHANGED <<config, manager>>

\* recordRouting, for the layer of the context; the next layer clears it.
Routed(k) == [k EXCEPT !.routed = TRUE]
Advanced(k) == [k EXCEPT !.layer = @ + 1, !.routed = FALSE]

\* The second half, the experts and the residual; then the loop over the
\* layers goes on, or the pass reaches the head.
Experts(c) ==
  /\ call[c].pc = "Experts"
  /\ call' = [call EXCEPT ![c] =
       IF @.layer + 1 < geo.layers
       THEN [Advanced(Routed(@)) EXCEPT !.pc = "Attention"]
       ELSE [Routed(@) EXCEPT !.pc = "Head"]]
  /\ UNCHANGED <<config, manager, cache>>

\* ForwardState::update takes a pass whose routing is the last layer's.
CanRecord(k) == k.routed
Recorded(k) ==
  [k EXCEPT !.forwarded = [position |-> k.pos, cached |-> k.pos + k.feed]]

\* GenerationState::advancePosition.
CanAdvance(k) == k.active /\ k.reason = "None" /\ k.feed # 0
\* A mutant: every pass is taken for a decode.
AtNextToken(k) == [k EXCEPT !.pos = @ + 1]
AtNextPosition(k) == [k EXCEPT !.pos = @ + k.feed]

\* Final norm and output head, then the rest of Decoder::execute: every layer
\* must have advanced, ForwardState takes the pass, the position advances.
Head(c) ==
  /\ call[c].pc = "Head"
  /\ IF /\ \A l \in Layer : cache[c][l].tokens = call[c].pos + call[c].feed
        /\ CanRecord(call[c]) /\ CanAdvance(call[c])
     THEN call' = [call EXCEPT ![c] =
                     [AtNextPosition(Recorded(@)) EXCEPT !.pc = "Stats"]]
     ELSE Refuse(c)
  /\ UNCHANGED <<config, manager, cache>>

\* The manager's stats() after each pass: the sessions' caches are summed under
\* the manager's mutex and the peak is raised.
Committed ==
  MapThenSumSet(MemoryUsage, {c \in Caller : call[c].id \in sessions})

Stats(c) ==
  /\ call[c].pc = "Stats"
  /\ peak' = IF Committed > peak THEN Committed ELSE peak
  /\ call' = [call EXCEPT ![c].pc = "Sample"]
  /\ UNCHANGED <<config, nextSessionId, sessions, reserved, cache>>

\* appendGenerated decides whether the sampled token is the last.
ReasonAfter(c, stop) ==
  IF stop THEN "StopToken"
  ELSE IF call[c].generated + 1 = call[c].maximum THEN "MaximumTokens"
  ELSE "None"

\* One turn of the loop: the last row of the latest pass is sampled.
Sample(c) ==
  /\ call[c].pc = "Sample"
  /\ IF Finished(c) \/ call[c].generated >= call[c].maximum THEN Refuse(c)
     ELSE \E stop \in BOOLEAN :
            call' = [call EXCEPT
              ![c].generated = call[c].generated + 1,
              ![c].reason = ReasonAfter(c, stop),
              ![c].pc = IF ReasonAfter(c, stop) = "None"
                        THEN "Decode" ELSE "Close"]
  /\ UNCHANGED <<config, manager, cache>>

\* Anything a pass calls may throw: a kernel, an expert that does not load, an
\* allocation.  The exception leaves generate through the session's destructor.
Fail(c) ==
  /\ call[c].pc \in {"Attention", "Experts", "Head", "Sample"}
  /\ call' = [call EXCEPT ![c].pc = "Close", ![c].error = "External"]
  /\ UNCHANGED <<config, manager, cache>>

\* A mutant of CloseSession: a session that failed is not destroyed.
CloseSessionOnSuccess(c) ==
  /\ call[c].pc = "Close" /\ call[c].error = "None"
  /\ sessions' = sessions \ {call[c].id}
  /\ reserved' = reserved - bytesPerSession
  /\ call' = [call EXCEPT ![c] = IdleCall]
  /\ cache' = [cache EXCEPT ![c] = EmptyCache]
  /\ UNCHANGED <<config, nextSessionId, peak>>

\* ~InferenceSession: releaseSession erases the manager's reference, the last
\* one, and gives the reservation back.
CloseSession(c) ==
  /\ call[c].pc = "Close"
  /\ sessions' = sessions \ {call[c].id}
  /\ reserved' = IF call[c].id \in sessions
                 THEN reserved - bytesPerSession ELSE reserved
  /\ call' = [call EXCEPT ![c] = IdleCall]
  /\ cache' = [cache EXCEPT ![c] = EmptyCache]
  /\ UNCHANGED <<config, nextSessionId, peak>>

Step(c) ==
  \/ OpenSession(c) \/ OpenRefused(c) \/ Prefill(c) \/ Decode(c)
  \/ Attention(c) \/ Experts(c) \/ Head(c) \/ Stats(c) \/ Sample(c)
  \/ CloseSession(c)

Next == \E c \in Caller : Generate(c) \/ Step(c) \/ Fail(c)

\* Threads run; nobody has to call generate, and nothing has to fail.
Spec == Init /\ [][Next]_vars /\ \A c \in Caller : WF_vars(Step(c))

-----------------------------------------------------------------------------
(* Properties *)

\* Type correctness: the manager's counters are size_t values that never wrap, and
\* every call is in one of its places.
TypeOK ==
  /\ geo \in Geometry /\ limit \in MemoryLimit /\ cuda \in BOOLEAN
  /\ bytesPerSession \in 0..SizeMax
  /\ nextSessionId \in 0..SessionIds /\ sessions \subseteq 1..SessionIds
  /\ reserved \in 0..SizeMax /\ peak \in 0..SizeMax
  /\ call \in [Caller -> CallType]
  /\ cache \in [Caller -> [Layer -> [tokens: Nat, capacity: Nat]]]

HasSession(c) == call[c].pc \notin {"Idle", "Open"}

\* Admission (KVCacheManager): what is reserved is one maximum session for each
\* live one and within the limit, and no cache grows past its reservation,
\* device capacity included, so all caches together stay within the limit.
Admission ==
  /\ sessions = {call[c].id : c \in {d \in Caller : HasSession(d)}}
  /\ reserved = bytesPerSession * Cardinality(sessions)
  /\ reserved <= limit
  /\ \A c \in Caller : MemoryUsage(c) <= bytesPerSession
  /\ peak <= limit

\* docs/components/generation.md: each selected token is forwarded once at the
\* next sequence position.  Between passes every layer's cache holds exactly
\* the prompt and the tokens forwarded since; within a pass the layers done
\* have the new tokens and the others do not.
CacheFollowsTokens ==
  \A c \in Caller :
    /\ call[c].pc \in {"Stats", "Sample"} =>
         /\ call[c].pos = call[c].prompt + call[c].generated
         /\ call[c].forwarded.cached = call[c].pos
         /\ \A l \in Layer : cache[c][l].tokens = call[c].pos
    /\ call[c].pc \in {"Attention", "Experts", "Head"} =>
         \A l \in Layer :
           cache[c][l].tokens =
             IF l < call[c].layer
                  \/ (l = call[c].layer /\ call[c].pc # "Attention")
             THEN call[c].pos + call[c].feed ELSE call[c].pos

\* The bound generate checks beforehand is the right one: a request that was
\* accepted is never refused later, by the session, the cache or the decoder.
AcceptedIsServed == \A c \in Caller : call[c].error # "Refused"

\* Every session is closed and its reservation returned, whatever fails.
SessionsEnd == \A c \in Caller : HasSession(c) ~> call[c].pc = "Idle"
=============================================================================
