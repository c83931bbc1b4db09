---------------------------- MODULE MoERuntime ------------------------------
(***************************************************************************)
(* One MoE layer after another: core/runtime/MoERuntime.cpp, composed with *)
(* the router, the predictor, and the Scheduler and ExpertManager as the   *)
(* runtime drives them.                                                    *)
(*                                                                         *)
(* executeBatch holds executionMutex_ throughout, so one thread, the       *)
(* executor, runs the steps between "idle" and "idle"; the scheduler's     *)
(* workers run beside it.  A step of the executor ends where it next takes *)
(* a lock that a worker also takes, or waits for one.  Scheduler.tla and   *)
(* ExpertManager.tla check those two components alone and in full; here    *)
(* every expert has the same size, one unit of a tier's budget, and the    *)
(* cache policy's choice of a victim is left open.                         *)
(***************************************************************************)
EXTENDS ExpertState, Routing, Prediction

CONSTANTS LayerCount,    \* layers of one forward pass
          RouterConfig,  \* [expertCount, topK, softmax, renormalize]
          ScoresAt,      \* layer -> the rows of scores its router may produce
          TokensAt,      \* pass -> how many tokens it may carry
          Modes,         \* [device, native, adaptive, overlap, ram, vram]
          MaximumPrefetch, \* experts the speculative cache may hold
          MaxPasses,     \* bound: forward passes
          MaxFaults      \* bound: transfers and executions that fail

ASSUME MoEAssumption ==
  /\ LayerCount \in Nat \ {0} /\ MaximumPrefetch \in Nat
  /\ MaxPasses \in Nat /\ MaxFaults \in Nat /\ MaximumPredictions \in Nat
  /\ ConfigValid(RouterConfig) /\ RouterConfig.expertCount \in Nat
  /\ \A l \in 0 .. LayerCount - 1 :
       ScoresAt[l] \subseteq [1 .. RouterConfig.expertCount -> Int]
  /\ \A p \in 1 .. MaxPasses : TokensAt[p] \subseteq Nat
  /\ \A m \in Modes : m.ram \in Nat \ {0} /\ m.vram \in Nat \ {0}

Key == (0 .. LayerCount - 1) \X ExpertIds(RouterConfig)
NoKey == <<>>

VARIABLES
  mode,       \* how the runtime was built; never changes
  pc,         \* the executor's next step
  run,        \* executeBatch's locals
  handles,    \* per group: what scheduler_->schedule returned
  warm,       \* warmHandle
  sch,        \* the Scheduler
  mgr,        \* ExpertManager: where each expert is and in which buffer
  leased,     \* the residency lease held, with the buffer it views
  offsets,    \* payloadOffsets_: the keys with a known storage offset
  combined,   \* (token, expert) -> times its output was added
  failure,    \* why the last executeBatch threw, or "none"
  faults,
  history, database, predictor

vars == <<mode, pc, run, handles, warm, sch, mgr, leased, offsets, combined,
          failure, faults, history, database, predictor>>
observers == <<history, database, predictor>>

-----------------------------------------------------------------------------
(* Buffers, transfers, tasks and handles.  A buffer is a number that        *)
(* distinguishes it from the others holding the same expert; 0 is null.     *)

Nothing == [host |-> 0, device |-> 0]
NoTask == [phase |-> "none"]
NoHandle == [status |-> "none"]
Waiting == [status |-> "waiting"]
Resolved(ok, transfer) == [status |-> "ready", ok |-> ok, transfer |-> transfer]
NoLease == [key |-> NoKey, buffer |-> 0]
OnDisk == [location |-> "Nvme", buffer |-> 0]

Destination == IF mode.device THEN "Vram" ELSE "Ram"
Limit(tier) == IF tier = "Vram" THEN mode.vram ELSE mode.ram
Groups == run.decision.groups
KeyOf(group) == <<run.layer, Groups[group].expert>>

TransferBuffers(t) == {t.host, t.device}
HandleBuffers(h) ==
  IF h.status = "ready" THEN TransferBuffers(h.transfer) ELSE {}
TaskBuffers(t) ==
  IF t.phase = "none" THEN {} ELSE TransferBuffers(t.source) \cup TransferBuffers(t.out)
BuffersOf(k) ==
  {mgr[k].buffer} \cup TransferBuffers(sch.resident[k])
    \cup TaskBuffers(sch.pending[k])
    \cup UNION {HandleBuffers(handles[g]) : g \in DOMAIN handles}
Fresh(k) ==
  CHOOSE n \in 1 .. Cardinality(BuffersOf(k)) + 1 :
    n \notin BuffersOf(k) /\ \A m \in 1 .. n - 1 : m \in BuffersOf(k)

-----------------------------------------------------------------------------
(* The Scheduler, as operators on its state s.                              *)

Request(destination, from, source, prefetch) ==
  [destination |-> destination, from |-> from, source |-> source,
   prefetch |-> prefetch]

\* What schedule() decides under its lock.
ScheduleKind(s, k, request) ==
  LET x == s.state[k]
      t == s.pending[k]
  IN  IF t.phase # "none"
        THEN IF t.destination = request.destination THEN "join" ELSE "pendingTarget"
      ELSE IF x.current = request.destination /\ x.state \in {"Ready", "InUse"} THEN "ready"
      ELSE IF CanRequest(x) THEN "new" ELSE "transition"

Accepts(kind) == kind \in {"join", "ready", "new"}

\* With a profiler, which the packed runtime always passes, a demand request
\* takes its expert out of prefetchedReady_ whatever happens next.
ScheduleOf(s, k, request) ==
  LET kind == ScheduleKind(s, k, request)
      c == [s EXCEPT !.prefetched = IF request.prefetch
                                      THEN IF kind = "ready" THEN @ \cup {k} ELSE @
                                      ELSE @ \ {k}]
  IN  CASE kind = "join" ->
             [c EXCEPT !.pending[k].active = @ \/ ~request.prefetch]
        [] kind = "new" ->
             [c EXCEPT !.state[k] = MarkQueuedOf(RequestOf(@, request.destination)),
                       !.pending[k] = [phase |-> "queued",
                                       destination |-> request.destination,
                                       from |-> request.from,
                                       source |-> request.source,
                                       prefetch |-> request.prefetch,
                                       active |-> ~request.prefetch,
                                       out |-> Nothing]]
        [] OTHER -> c

\* The handle an accepted request gets; readyResult hands out what is retained.
HandleOf(s, k, request) ==
  IF ScheduleKind(s, k, request) = "ready" THEN Resolved(TRUE, s.resident[k])
  ELSE Waiting

PrefetchRequest == Request("Ram", "Nvme", Nothing, TRUE)
WarmRequest == Request("Ram", "Nvme", Nothing, FALSE)

CanAcknowledge(s, k) == s.pending[k].phase = "none" /\ CanReconcile(s.state[k])
Acknowledge(s, k, location) ==
  [s EXCEPT !.resident[k] = Nothing, !.prefetched = @ \ {k},
            !.state[k] = ReconcileOf(@, location)]

\* cachedTransfer(...)->buffer of an expert nothing is pending for.
CachedHost(s, k) ==
  IF s.pending[k].phase = "none" THEN s.resident[k].host ELSE 0
HasCached(s, k) == s.pending[k].phase = "none" /\ s.resident[k] # Nothing

Expired(s, layer) == {k \in s.prefetched : k[1] < layer}
Expire(s, gone) ==
  [s EXCEPT !.resident = [k \in Key |-> IF k \in gone THEN Nothing ELSE @[k]],
            !.prefetched = @ \ gone,
            !.state = [k \in Key |-> IF k \in gone THEN ReconcileOf(@[k], "Nvme")
                                     ELSE @[k]]]

\* The speculative transfers beyond the bound, in key order.
KeyBefore(a, b) == a[1] < b[1] \/ (a[1] = b[1] /\ a[2] < b[2])
OverBound(s) ==
  LET cached == {k \in s.prefetched : s.resident[k] # Nothing}
  IN  {k \in cached :
         Cardinality({j \in cached : KeyBefore(j, k)}) >= MaximumPrefetch}
Trim(s, own) ==
  LET over == OverBound(s)
  IN  [s EXCEPT !.resident = [k \in Key |-> IF k \in over THEN Nothing ELSE @[k]],
                !.prefetched = @ \ over,
                !.state = [k \in Key |-> IF k \in over \ {own}
                                           THEN ReconcileOf(@[k], "Nvme") ELSE @[k]]]

-----------------------------------------------------------------------------
(* The ExpertManager: makeRoomLocked and what it does to the others.        *)

Used(m, tier) == Cardinality({k \in Key : m[k].location = tier})

\* Mutant of Candidates: a leased expert may be evicted.
CandidatesLeased(m, tier, pinned) ==
  {k \in Key \ pinned : m[k].location = tier}

Candidates(m, tier, pinned) ==
  {k \in Key \ pinned : m[k].location = tier /\ k # leased.key}

\* The outcomes of making room for one expert; empty where the code throws.
RamRoom(m, pinned) ==
  IF Used(m, "Ram") < mode.ram THEN {m}
  ELSE {[m EXCEPT ![v] = OnDisk] : v \in Candidates(m, "Ram", pinned)}

\* A device victim goes to RAM when room can be made there, else to disk.
Demotions(m, v, pinned) ==
  LET rooms == RamRoom(m, pinned \cup {v})
  IN  IF rooms = {} THEN {[m EXCEPT ![v] = OnDisk]}
      ELSE {[r EXCEPT ![v] = [location |-> "Ram", buffer |-> Fresh(v)]] : r \in rooms}

VramRoom(m, pinned) ==
  IF Used(m, "Vram") < mode.vram THEN {m}
  ELSE UNION {Demotions(m, v, pinned) : v \in Candidates(m, "Vram", pinned)}

MakeRoom(m, tier, k) == IF tier = "Ram" THEN RamRoom(m, {k}) ELSE VramRoom(m, {k})

PrepareResidency(k) ==
  IF mgr[k].location = Destination THEN {mgr} ELSE MakeRoom(mgr, Destination, k)

\* adoptHostWeights / adoptDeviceWeights.
Conflicts(k, tier, buffer) == mgr[k].location = tier /\ mgr[k].buffer # buffer
Adopt(k, tier, buffer) ==
  IF mgr[k].location = tier THEN {mgr}
  ELSE {[m EXCEPT ![k] = [location |-> tier, buffer |-> buffer]] :
          m \in MakeRoom(mgr, tier, k)}

\* acquireResidentExpert / acquireHostExpert move a misplaced expert first.
Leasable(k) ==
  IF mgr[k].location = Destination THEN {mgr} ELSE Adopt(k, Destination, Fresh(k))

-----------------------------------------------------------------------------
NoDecision == [layer |-> 0, tokens |-> <<>>, groups |-> <<>>]
AtRest(pass, layer, tokens) ==
  [pass |-> pass, layer |-> layer, tokens |-> tokens, decision |-> NoDecision,
   token |-> 1, index |-> 1, submitting |-> 1, resume |-> "await"]

Init ==
  /\ mode \in Modes
  /\ pc = "idle"
  /\ run = AtRest(0, 0, 0)
  /\ handles = <<>>
  /\ warm = NoHandle
  /\ sch = [state |-> [k \in Key |-> RegisteredAt("Nvme")],
            pending |-> [k \in Key |-> NoTask],
            resident |-> [k \in Key |-> Nothing],
            prefetched |-> {}]
  /\ mgr = [k \in Key |-> OnDisk]
  /\ leased = NoLease
  /\ offsets = {}
  /\ combined = <<>>
  /\ failure = "none"
  /\ faults = 0
  /\ history = NoHistory
  /\ database = NoDatabase
  /\ predictor = NoPredictor

\* The release of the expert in use, if there is one.
Released(s) ==
  IF leased = NoLease THEN s ELSE [s EXCEPT !.state[leased.key] = ReleaseOf(@)]

\* An exception leaves executeBatch: the locals, the handles and the lease
\* go, and the caller gives the pass up.
Leave(reason) ==
  /\ failure' = reason
  /\ pc' = "idle"
  /\ run' = AtRest(run.pass, 0, 0)
  /\ handles' = <<>>
  /\ warm' = NoHandle
  /\ leased' = NoLease

Fault == faults < MaxFaults /\ faults' = faults + 1

\* On the device the catch block first waits for the compute stream, which
\* throws when the stream has failed or an event cannot be collected.  The
\* release that follows is then skipped: the expert stays in use for the
\* scheduler, while the residency lease is dropped by the unwinding.
Abandon(s) == mode.device /\ Fault /\ sch' = s /\ Leave("synchronize")

\* An exception, inside the try block when a lease is held.
Throw(reason, s) ==
  \/ sch' = Released(s) /\ Leave(reason) /\ UNCHANGED faults
  \/ leased # NoLease /\ Abandon(s)

Goto(step) == pc' = step /\ UNCHANGED <<failure, faults>>

Route(rows) ==
  IF mode.device THEN CudaRouteBatch(run.layer, rows, RouterConfig, mode.native)
  ELSE CpuRouteBatch(run.layer, rows, RouterConfig)

\* executeBatch up to the observers: expire, route, check the decision.
BeginLayer(tokens) ==
  /\ pc = "idle"
  /\ IF run.layer = 0 THEN run.pass < MaxPasses /\ tokens \in TokensAt[run.pass + 1]
     ELSE tokens = run.tokens
  /\ LET gone == Expired(sch, run.layer)
     IN  IF \E k \in gone : ~CanReconcile(sch.state[k])
           THEN Throw("expire", sch) /\ UNCHANGED combined
           ELSE \E rows \in [1 .. tokens -> ScoresAt[run.layer]] :
             LET decision == Route(rows)
                 s == Expire(sch, gone)
             IN  IF ~BatchValid(decision)
                   THEN Throw("router", s) /\ UNCHANGED combined
                   ELSE /\ pc' = "observe"
                        /\ failure' = "none"
                        /\ sch' = s
                        /\ run' = [AtRest(IF run.layer = 0 THEN run.pass + 1
                                            ELSE run.pass, run.layer, tokens)
                                     EXCEPT !.decision = decision]
                        /\ handles' = [g \in DOMAIN decision.groups |-> NoHandle]
                        /\ combined' = [a \in (1 .. tokens) \X ExpertIds(RouterConfig) |-> 0]
                        /\ UNCHANGED <<warm, leased, faults>>
  /\ UNCHANGED <<mode, mgr, offsets, observers>>

\* Offer the predictions to the scheduler in order; a refused one throws.
\* Each touches only its own key, so no worker step between two of them can
\* be told from one before or after them all.
Offer(s, judged, predictions) ==
  LET offered[n \in 0 .. Len(predictions)] ==
        IF n = 0 THEN [s |-> s, predictor |-> judged, kind |-> "ready", ok |-> TRUE]
        ELSE LET before == offered[n - 1]
                 p == predictions[n]
                 k == <<p.layer, p.expert>>
                 kind == ScheduleKind(before.s, k, PrefetchRequest)
             IN  IF ~before.ok THEN before
                 ELSE IF ~ShouldPrefetch(p)
                   THEN [before EXCEPT !.predictor = Suppress(@)]
                 ELSE [before EXCEPT !.s = ScheduleOf(@, k, PrefetchRequest),
                                     !.kind = kind, !.ok = Accepts(kind)]
  IN  offered[Len(predictions)]

Advance ==
  IF run.token < run.tokens
    THEN run' = [run EXCEPT !.token = @ + 1] /\ pc' = pc
    ELSE run' = run /\ pc' = "dispatch"

\* observeAndPrefetch for one token.
ObserveAndPrefetch ==
  /\ pc = "observe" /\ mode.adaptive
  /\ LET decision == run.decision.tokens[run.token]
         judged == Judge(predictor, decision, run.token)
     IN  /\ history' = HistoryRecord(history, decision)
         /\ database' = Record(database, decision, run.token)
         /\ \E predictions \in PredictDetailed(database', run.layer, decision.selected) :
              LET offered == Offer(sch, Remember(judged, run.token, predictions),
                                   predictions)
              IN  /\ predictor' = offered.predictor
                  /\ IF offered.ok
                       THEN /\ sch' = offered.s
                            /\ Advance
                            /\ UNCHANGED <<handles, warm, leased, failure, faults>>
                       ELSE Throw(offered.kind, offered.s)
  /\ UNCHANGED <<mode, mgr, offsets, combined>>

\* Without a predictor the history alone is kept.
ObserveHistory ==
  /\ pc = "observe" /\ ~mode.adaptive
  /\ history' = HistoryRecord(history, run.decision.tokens[run.token])
  /\ Advance
  /\ UNCHANGED <<mode, handles, warm, sch, mgr, leased, offsets, combined,
                 failure, faults, database, predictor>>

\* The groups become batches, and every assignment must be in one of them.
Dispatch ==
  /\ pc = "dispatch"
  /\ IF Dispatchable(run.decision)
       THEN Goto("submit") /\ UNCHANGED <<run, handles, warm, sch, leased>>
       ELSE Throw("dispatch", sch)
  /\ UNCHANGED <<mode, mgr, offsets, combined, observers>>

-----------------------------------------------------------------------------
(* submit(index): the lambda at lines 140 to 180.                           *)

Submitted == KeyOf(run.submitting)

\* The expert's location and the scheduler's snapshot; a warm load on its way
\* is waited for.
ReadExpert ==
  /\ pc = "submit"
  /\ LET x == sch.state[Submitted]
     IN  IF /\ mgr[Submitted].location = "Nvme" /\ x.target = "Ram"
            /\ x.state \in {"Queued", "Loading", "Ready"}
           THEN Goto("requestWarm") ELSE Goto("stage")
  /\ UNCHANGED <<mode, run, handles, warm, sch, mgr, leased, offsets, combined,
                 observers>>

RequestWarm ==
  /\ pc = "requestWarm"
  /\ LET kind == ScheduleKind(sch, Submitted, WarmRequest)
         s == ScheduleOf(sch, Submitted, WarmRequest)
     IN  IF Accepts(kind)
           THEN /\ warm' = HandleOf(sch, Submitted, WarmRequest)
                /\ sch' = s
                /\ Goto("warm")
                /\ UNCHANGED <<run, handles, leased>>
           ELSE Throw(kind, s)
  /\ UNCHANGED <<mode, mgr, offsets, combined, observers>>

AwaitWarm ==
  /\ pc = "warm" /\ warm.status = "ready"
  /\ IF warm.ok
       THEN warm' = NoHandle /\ Goto("stage") /\ UNCHANGED <<run, handles, sch, leased>>
       ELSE Throw("transfer", sch)
  /\ UNCHANGED <<mode, mgr, offsets, combined, observers>>

\* A retained warm buffer becomes the manager's.
Stage ==
  /\ pc = "stage"
  /\ LET k == Submitted
         buffer == CachedHost(sch, k)
         adopted == Adopt(k, "Ram", buffer)
     IN  IF buffer = 0 \/ mgr[k].location # "Nvme"
           THEN Goto("reconcile") /\ UNCHANGED <<run, handles, warm, sch, mgr, leased, offsets>>
           ELSE IF adopted = {} THEN Throw("noRoom", sch) /\ UNCHANGED <<mgr, offsets>>
           ELSE /\ mgr' \in adopted
                /\ offsets' = offsets \cup {k}
                /\ IF CanAcknowledge(sch, k)
                     THEN /\ sch' = Acknowledge(sch, k, "Ram")
                          /\ Goto("reconcile")
                          /\ UNCHANGED <<run, handles, warm, leased>>
                     ELSE Throw("reconcile", sch)
  /\ UNCHANGED <<mode, combined, observers>>

\* reconcileResidency: believe the manager unless a transfer is at stake.
Reconcile ==
  /\ pc = "reconcile"
  /\ LET k == Submitted
         idle == sch.pending[k].phase = "none" /\ sch.resident[k] = Nothing
     IN  IF idle /\ ~CanReconcile(sch.state[k])
           THEN Throw("reconcile", sch)
           ELSE /\ sch' = IF idle THEN [sch EXCEPT !.state[k] =
                                          ReconcileOf(@, mgr[k].location)] ELSE sch
                /\ Goto("request")
                /\ UNCHANGED <<run, handles, warm, leased>>
  /\ UNCHANGED <<mode, mgr, offsets, combined, observers>>

\* prepareResidency, then schedule from wherever the manager has the expert.
RequestExpert ==
  /\ pc = "request"
  /\ LET k == Submitted
         at == mgr[k]
         source == [host |-> IF at.location = "Ram" THEN at.buffer ELSE 0,
                    device |-> IF at.location = "Vram" THEN at.buffer ELSE 0]
         request == Request(Destination, at.location, source, FALSE)
         kind == ScheduleKind(sch, k, request)
         s == ScheduleOf(sch, k, request)
         rooms == PrepareResidency(k)
     IN  IF rooms = {} THEN Throw("noRoom", sch) /\ UNCHANGED mgr
         ELSE /\ mgr' \in rooms
              /\ IF Accepts(kind)
                   THEN /\ handles' = [handles EXCEPT ![run.submitting] =
                                         HandleOf(sch, k, request)]
                        /\ sch' = s
                        /\ Goto(run.resume)
                        /\ UNCHANGED <<run, warm, leased>>
                   ELSE Throw(kind, s)
  /\ UNCHANGED <<mode, offsets, combined, observers>>

-----------------------------------------------------------------------------
(* The loop over the groups.                                                *)

Current == KeyOf(run.index)

AwaitExpert ==
  /\ pc = "await"
  /\ LET h == handles[run.index]
     IN  IF h.status = "none"
           THEN /\ run' = [run EXCEPT !.submitting = run.index, !.resume = "await"]
                /\ Goto("submit")
                /\ UNCHANGED <<handles, warm, sch, leased>>
           ELSE /\ h.status = "ready"
                /\ IF h.ok THEN Goto("adopt") /\ UNCHANGED <<run, handles, warm, sch, leased>>
                   ELSE Throw("transfer", sch)
  /\ UNCHANGED <<mode, mgr, offsets, combined, observers>>

\* The transferred buffer becomes the manager's, and the scheduler lets go.
AdoptExpert ==
  /\ pc = "adopt"
  /\ LET k == Current
         t == handles[run.index].transfer
         buffer == IF mode.device THEN t.device ELSE t.host
         adopted == IF buffer = 0 THEN {mgr} ELSE Adopt(k, Destination, buffer)
         known == IF buffer = 0 THEN offsets ELSE offsets \cup {k}
     IN  IF buffer # 0 /\ Conflicts(k, Destination, buffer)
           THEN Throw("differentBuffer", sch) /\ UNCHANGED <<mgr, offsets>>
         ELSE IF adopted = {} THEN Throw("noRoom", sch) /\ UNCHANGED <<mgr, offsets>>
         ELSE /\ mgr' \in adopted
              /\ offsets' = known
              /\ IF ~CanAcknowledge(sch, k) THEN Throw("reconcile", sch)
                 ELSE IF k \notin known THEN Throw("offset", Acknowledge(sch, k, Destination))
                 ELSE /\ sch' = Acknowledge(sch, k, Destination)
                      /\ handles' = [handles EXCEPT ![run.index] = NoHandle]
                      /\ Goto("acquire")
                      /\ UNCHANGED <<run, warm, leased>>
  /\ UNCHANGED <<mode, combined, observers>>

\* scheduler_->acquire, outside the try, and the residency lease, inside it.
AcquireExpert ==
  /\ pc = "acquire"
  /\ LET k == Current
         s == [sch EXCEPT !.state[k] = AcquireOf(@)]
     IN  IF ~CanAcquire(sch.state[k]) THEN Throw("acquire", sch) /\ UNCHANGED mgr
         ELSE IF Leasable(k) = {}
           THEN /\ \/ /\ sch' = [s EXCEPT !.state[k] = ReleaseOf(@)]
                      /\ Leave("noRoom")
                      /\ UNCHANGED faults
                   \/ Abandon(s)
                /\ UNCHANGED mgr
         ELSE /\ mgr' \in Leasable(k)
              /\ sch' = s
              /\ leased' = [key |-> k, buffer |-> mgr'[k].buffer]
              /\ Goto("overlap")
              /\ UNCHANGED <<run, handles, warm>>
  /\ UNCHANGED <<mode, offsets, combined, observers>>

\* Mutant of FitsBoth: the budget of the current expert is not set aside.
FitsEither(tier) == 1 <= Limit(tier)

FitsBoth(tier) == 1 <= Limit(tier) /\ 1 <= Limit(tier) - 1

\* Submit the next expert before computing this one, if both fit and no
\* unfinished warm load would have to be waited for.
Overlap ==
  /\ pc = "overlap"
  /\ LET next == run.index + 1
         possible == mode.overlap /\ next <= Len(Groups)
     IN  IF /\ possible
            /\ ~ /\ mgr[KeyOf(next)].location = "Nvme"
                 /\ sch.state[KeyOf(next)].target = "Ram"
                 /\ ~HasCached(sch, KeyOf(next))
            /\ FitsBoth(Destination)
           THEN /\ run' = [run EXCEPT !.submitting = next, !.resume = "execute"]
                /\ Goto("submit")
           ELSE Goto("execute") /\ UNCHANGED run
  /\ UNCHANGED <<mode, handles, warm, sch, mgr, leased, offsets, combined,
                 observers>>

\* Mutant of ScatterRows: the rows of the group's output, not its tokens.
ScatterByRow(group) == DOMAIN group.tokens

ScatterRows(group) == ToSet(group.tokens)

\* Gather the group's rows, run the expert, add its weighted output to each
\* token, release.
ExecuteExpert ==
  /\ pc = "execute"
  /\ LET group == Groups[run.index]
         rows == ScatterRows(group)
     IN  combined' = [a \in DOMAIN combined |->
                        IF a[1] \in rows /\ a[2] = group.expert
                          THEN combined[a] + 1 ELSE combined[a]]
  /\ sch' = Released(sch)
  /\ leased' = NoLease
  /\ run' = [run EXCEPT !.index = @ + 1]
  /\ Goto(IF run.index = Len(Groups) THEN "return" ELSE "await")
  /\ UNCHANGED <<mode, handles, warm, mgr, offsets, observers>>

\* A kernel, an allocation or a shape check throws inside the try block; what
\* made it throw may make the catch block's wait throw again.
FailExpert ==
  /\ pc = "execute"
  /\ \/ Fault /\ sch' = Released(sch) /\ Leave("executor")
     \/ Abandon(sch)
  /\ UNCHANGED <<mode, mgr, offsets, combined, observers>>

\* Mutant of NextLayer: the loop over the layers runs once too often.
NextLayerInclusive(layer) == (layer + 1) % (LayerCount + 1)

\* The caller's loop over the layers; after the last one the pass is over.
NextLayer(layer) == (layer + 1) % LayerCount

ReturnLayer ==
  /\ pc = "return"
  /\ run' = AtRest(run.pass, NextLayer(run.layer),
                   IF NextLayer(run.layer) = 0 THEN 0 ELSE run.tokens)
  /\ handles' = <<>>
  /\ Goto("idle")
  /\ UNCHANGED <<mode, warm, sch, mgr, leased, offsets, combined, observers>>

-----------------------------------------------------------------------------
(* A scheduler worker with the task of key k.                               *)

Phase(k, phase) == sch.pending[k].phase = phase
Quiet == UNCHANGED <<mode, pc, run, mgr, leased, offsets, combined, failure, observers>>

StartTask(k) ==
  /\ Phase(k, "queued")
  /\ sch' = [sch EXCEPT !.state[k] = MarkLoadingOf(@), !.pending[k].phase = "loading"]
  /\ UNCHANGED <<handles, warm, faults>> /\ Quiet

\* What TransferManager hands back, by source and destination.
Transferred(k) ==
  LET t == sch.pending[k]
  IN  IF t.destination = "Ram"
        THEN [host |-> IF t.source.host # 0 THEN t.source.host ELSE Fresh(k), device |-> 0]
        ELSE [host |-> 0, device |-> IF t.source.device # 0 THEN t.source.device ELSE Fresh(k)]

FinishLoad(k) ==
  /\ Phase(k, "loading")
  /\ sch' = [sch EXCEPT !.state[k] = MarkReadyOf(@, sch.pending[k].destination),
                        !.pending[k].phase = "loaded",
                        !.pending[k].out = Transferred(k)]
  /\ UNCHANGED <<handles, warm, faults>> /\ Quiet

FailLoad(k) ==
  /\ Phase(k, "loading")
  /\ Fault
  /\ sch' = [sch EXCEPT !.state[k] = MarkFailedOf(@), !.pending[k].phase = "failed"]
  /\ UNCHANGED <<handles, warm>> /\ Quiet

\* Keep the transfer; an unconsumed prefetch joins the bounded cache.
RetainTransfer(k) ==
  /\ Phase(k, "loaded")
  /\ LET t == sch.pending[k]
         s == [sch EXCEPT !.resident[k] = t.out, !.pending[k].phase = "retained"]
     IN  sch' = IF t.prefetch /\ ~t.active
                  THEN Trim([s EXCEPT !.prefetched = @ \cup {k}], k) ELSE s
  /\ UNCHANGED <<handles, warm, faults>> /\ Quiet

\* Mutant of Settle: a failed task never sets its promise.
SettleReady(h, k, key, t) ==
  IF h.status = "waiting" /\ key = k /\ t.phase = "retained"
    THEN Resolved(TRUE, t.out) ELSE h

Settle(h, k, key, t) ==
  IF h.status = "waiting" /\ key = k THEN Resolved(t.phase = "retained", t.out) ELSE h

CompleteTask(k) ==
  /\ Phase(k, "retained") \/ Phase(k, "failed")
  /\ LET t == sch.pending[k]
     IN  /\ handles' = [g \in DOMAIN handles |-> Settle(handles[g], k, KeyOf(g), t)]
         /\ warm' = IF warm.status = "waiting" THEN Settle(warm, k, Submitted, t) ELSE warm
  /\ sch' = [sch EXCEPT !.pending[k] = NoTask]
  /\ UNCHANGED faults /\ Quiet

-----------------------------------------------------------------------------
Executor ==
  \/ ObserveAndPrefetch \/ ObserveHistory \/ Dispatch
  \/ ReadExpert \/ RequestWarm \/ AwaitWarm \/ Stage \/ Reconcile \/ RequestExpert
  \/ AwaitExpert \/ AdoptExpert \/ AcquireExpert \/ Overlap
  \/ ExecuteExpert \/ FailExpert \/ ReturnLayer

Worker(k) ==
  StartTask(k) \/ FinishLoad(k) \/ FailLoad(k) \/ RetainTransfer(k) \/ CompleteTask(k)

Next ==
  \/ \E tokens \in UNION {TokensAt[p] : p \in 1 .. MaxPasses} : BeginLayer(tokens)
  \/ Executor
  \/ \E k \in Key : Worker(k)

Spec == Init /\ [][Next]_vars

-----------------------------------------------------------------------------
(* Properties.                                                              *)

Transfer == [host : Nat, device : Nat]
Failures == {"none", "router", "dispatch", "expire", "pendingTarget", "transition", "transfer",
             "noRoom", "reconcile", "differentBuffer", "offset", "acquire", "executor",
             "synchronize"}

\* Type correctness of the composed state: every variable keeps the shape the
\* members of MoERuntime, Scheduler and ExpertManager have.
TypeOK ==
  /\ mode \in Modes
  /\ pc \in {"idle", "observe", "dispatch", "submit", "requestWarm", "warm", "stage", "reconcile",
             "request", "await", "adopt", "acquire", "overlap", "execute", "return"}
  /\ run.layer \in 0 .. LayerCount - 1 /\ run.pass \in 0 .. MaxPasses
  /\ sch.state \in [Key -> ExpertRecord]
  /\ sch.resident \in [Key -> Transfer]
  /\ sch.prefetched \subseteq Key
  /\ mgr \in [Key -> [location : {"Nvme", "Ram", "Vram"}, buffer : Nat]]
  /\ leased.key \in Key \cup {NoKey}
  /\ offsets \subseteq Key
  /\ failure \in Failures
  /\ faults \in 0 .. MaxFaults

\* The experts left in use by nobody.
Abandoned == {k \in Key : sch.state[k].state = "InUse" /\ leased.key # k}

\* A lease covers the use of an expert (MoERuntime.cpp:237-338).  From acquire
\* to release the expert is in use for the scheduler, resident at the executing
\* tier in the buffer its views were made over, with a known payload offset,
\* whatever the overlapped submission of the next expert evicts.  When
\* executeBatch has returned or thrown, no residency lease and no handle is
\* left behind, and no expert is left in use, with one exception: on the device
\* an error path whose own synchronizeExecution throws (line 335) skips the
\* release (line 336).  Each expert abandoned so costs a fault of the device;
\* no other error path, and nothing on the CPU, leaves one.
LeaseCoversUse ==
  /\ pc = "idle" => leased = NoLease /\ handles = <<>> /\ warm = NoHandle
  /\ \A k \in Key : leased.key = k => sch.state[k].state = "InUse"
  /\ Cardinality(Abandoned) <= IF mode.device THEN faults ELSE 0
  /\ leased # NoLease =>
       /\ mgr[leased.key] = [location |-> Destination, buffer |-> leased.buffer]
       /\ leased.key \in offsets
  /\ Used(mgr, "Ram") <= mode.ram /\ Used(mgr, "Vram") <= mode.vram

\* When executeBatch returns, every token has the output of each expert it was
\* routed to exactly once and of no other (MoERuntime.cpp:100-122, 307-331),
\* whichever experts were submitted early.
EachAssignmentOnce ==
  pc = "return" =>
    \A t \in 1 .. run.tokens, e \in ExpertIds(RouterConfig) :
      combined[<<t, e>>] =
        IF e \in ToSet(run.decision.tokens[t].selected) THEN 1 ELSE 0

\* How a layer can fail, where every tier holds one expert (MoEAssumption).
\* Never for want of room (MoERuntime.cpp:254, "Never require two experts to fit
\* when the configured budget can hold only one"), because an expert cannot be
\* acquired, because its storage offset is unknown, or because a group lost a
\* token.  The scheduler refuses a transition, a reconciliation or an expiry
\* only once an expert was abandoned in use.  Two errors of the runtime's own
\* making remain: a request meets a pending transfer to the other tier, which
\* takes a predictor on the device, and a demand transfer brings a second buffer
\* of an expert the manager already holds, which takes a predictor.
FailuresExplained ==
  /\ failure \notin {"dispatch", "noRoom", "offset", "acquire"}
  /\ failure \in {"transition", "reconcile", "expire"} => Abandoned # {}
  /\ failure = "pendingTarget" => mode.adaptive /\ mode.device
  /\ failure = "differentBuffer" => mode.adaptive

\* The predictor's quality counters (ExpertPredictor.cpp:192-245) account for
\* every prediction at most once across streams, passes that fail between two
\* layers included: what is judged or still outstanding was predicted.
QualityAccounts ==
  LET q == predictor.quality
      outstanding == [s \in DOMAIN predictor.pending |-> Len(predictor.pending[s])]
  IN  /\ q.usefulPredictions + q.wastedPredictions
           + MapThenSumSet(LAMBDA s : outstanding[s], DOMAIN outstanding)
           <= q.predictions
      /\ q.suppressedPrefetches <= q.predictions
      /\ q.top1Correct <= q.topKCovered
      /\ q.topKCovered <= q.usefulPredictions
      /\ q.topKCovered <= q.opportunities

\* The executor never waits for a future that nobody will complete
\* (MoERuntime.cpp:156, 207; Scheduler.cpp:453): while it waits for an expert,
\* that expert's task is pending in a worker's hands, which only ever moves it
\* towards completion.  So every layer that begins also ends.
AwaitsLiveTask ==
  /\ warm.status = "waiting" => sch.pending[Submitted].phase # "none"
  /\ \A g \in DOMAIN handles :
       handles[g].status = "waiting" => sch.pending[KeyOf(g)].phase # "none"

\* "demand consumption adopts it without a second disk read ... scheduler
\* location metadata reconciles with manager-owned residency"
\* (docs/components/expert-overlap.md:36-38): a prefetch never makes the layer
\* that demands its expert fail.
DemandConsumesWarmLoad == failure \notin {"pendingTarget", "differentBuffer"}
=============================================================================
