----------------------------- MODULE Scheduler -----------------------------
(***************************************************************************)
(* scheduler/Scheduler.cpp: demand loads, prefetches and evictions of      *)
(* experts, coalesced per expert, ordered by priority, and carried out by  *)
(* a pool of worker threads that hand each transfer to TransferManager.    *)
(*                                                                         *)
(* An action is one critical section of mutex_ (or one call into states_,  *)
(* which has its own mutex), so threads interleave exactly where the code  *)
(* gives up the lock.  Inside a section of mutex_ the calls into states_   *)
(* touch each expert at most once, or twice on a key no one else can       *)
(* change, so taking the section as one step loses no behaviour.           *)
(* TransferManager is external here: a submitted transfer eventually       *)
(* completes, fails, or reports the cancellation it was asked for.         *)
(***************************************************************************)
EXTENDS ExpertState, Integers, FiniteSetsExt

CONSTANTS
  Expert,          \* registered (layer, expert) keys, numbered in key order
  LayerOf,         \* the layer of each key (the key's upper 32 bits)
  Size,            \* bytes of each expert's record
  MaxPrefetch,     \* maximumPrefetchBytes_
  Profiled,        \* whether the scheduler was built with a Profiler
  Request,         \* the ScheduleRequests callers make
  Location,        \* the tiers callers register and reconcile experts at
  Worker,          \* workers_
  Client,          \* threads inside schedule()'s immediately-ready path
  Task,            \* task slots: bounds the Task objects alive at once
  MaxPushes        \* bounds nextSequence_, the number of queue pushes

BackgroundMaintenance == 100
CacheWarming == 200
PredictedNextLayer == 300
ActiveInference == 400
Priority ==
  {BackgroundMaintenance, CacheWarming, PredictedNextLayer, ActiveInference}

RequestType == [expert : Expert, dest : Tier, prio : Priority, score : Nat,
                evict : BOOLEAN]

NoTask == "NoTask"
NoTransfer == "None"
NoExpert == -1

ASSUME KeyAssumption == Expert \subseteq Nat /\ IsFiniteSet(Expert)
ASSUME SizeAssumption ==
  /\ LayerOf \in [Expert -> Nat]
  /\ Size \in [Expert -> Nat]
  /\ MaxPrefetch \in Nat \ {0}
ASSUME InputAssumption ==
  /\ Request \subseteq RequestType
  /\ Location \subseteq Tier
  /\ Profiled \in BOOLEAN
ASSUME BoundAssumption == NoTask \notin Task /\ MaxPushes \in Nat
ASSUME WorkerAssumption == Worker # {}

VARIABLES
  expert,          \* states_: the lifecycle record of each key
  task,            \* the Task objects, by slot
  queue,           \* queue_: the entries pushed and not yet popped
  pending,         \* pendingByExpert_: the unfinished task of each key
  resident,        \* residentTransfers_: the tier of the retained result
  prefetched,      \* prefetchedReady_: keys loaded speculatively, unused yet
  worker,          \* where each worker thread is, and on what
  client,          \* where each thread in readyResult is
  nextSequence,    \* nextSequence_
  stopping         \* stopping_

vars == <<expert, task, queue, pending, resident, prefetched, worker, client,
          nextSequence, stopping>>

Phase == {"Done", "Waiting", "Started", "Completed"}

\* A slot is Done when no promise is outstanding on it, and Completed from
\* complete()'s critical section until the promise is set.
IdleTask == [expert |-> NoExpert, dest |-> "Nvme",
             prio |-> BackgroundMaintenance, score |-> 0, evict |-> FALSE,
             prefetch |-> FALSE, active |-> FALSE, gen |-> 0,
             phase |-> "Done", cancelled |-> FALSE]

TaskType == [expert : Expert \cup {NoExpert}, dest : Tier, prio : Priority,
             score : Nat, evict : BOOLEAN, prefetch : BOOLEAN,
             active : BOOLEAN, gen : Nat, phase : Phase, cancelled : BOOLEAN]

EntryType == [task : Task, prio : Priority, score : Nat, seq : Nat, gen : Nat]

\* idle    at the top of workerLoop         begin   dequeued, lock released
\* transfer waiting for TransferManager     record  after markReady
\* fail    at markFailed in complete()      resolve at complete()'s lock
\* deliver running callbacks, before promise.set_value
WorkerPc == {"idle", "begin", "transfer", "record", "fail", "resolve",
             "deliver", "exited"}
Outcome == {"Unknown", "Success", "Cancelled", "Error"}
IdleWorker == [pc |-> "idle", task |-> NoTask, outcome |-> "Unknown"]
ExitedWorker == [IdleWorker EXCEPT !.pc = "exited"]
WorkerType ==
  {IdleWorker, ExitedWorker}
    \cup [pc : WorkerPc \ {"idle", "exited"}, task : Task, outcome : Outcome]

IdleClient == [pc |-> "idle", expert |-> NoExpert, dest |-> "Nvme",
               transfer |-> NoTransfer]
ClientType ==
  {IdleClient}
    \cup [pc : {"lookup", "snapshot"}, expert : Expert, dest : Tier,
          transfer : Tier \cup {NoTransfer}]

Init ==
  /\ expert = [e \in Expert |-> UnregisteredExpert]
  /\ task = [t \in Task |-> IdleTask]
  /\ queue = {}
  /\ pending = [e \in Expert |-> NoTask]
  /\ resident = [e \in Expert |-> NoTransfer]
  /\ prefetched = {}
  /\ worker = [w \in Worker |-> IdleWorker]
  /\ client = [c \in Client |-> IdleClient]
  /\ nextSequence = 0
  /\ stopping = FALSE

-----------------------------------------------------------------------------
(* Callers: registration, schedule, and what surrounds it. *)

Register(e, location) ==
  /\ ~IsRegistered(expert[e])
  /\ expert' = [expert EXCEPT ![e] = RegisteredAt(location)]
  /\ UNCHANGED <<task, queue, pending, resident, prefetched, worker, client,
                 nextSequence, stopping>>

\* With a profiler, an active request takes its key off the speculative list
\* before anything else is decided.
PrefetchedAfter(r) ==
  IF Profiled /\ r.prio = ActiveInference
    THEN prefetched \ {r.expert}
    ELSE prefetched

ReadyAt(r) ==
  expert[r.expert].current = r.dest /\ expert[r.expert].state = "Ready"

\* The active request arrived after the prefetch's markReady and before its
\* completion: the pending task is told it has a consumer.
HitsFinishingPrefetch(r) ==
  /\ Profiled /\ r.prio = ActiveInference
  /\ pending[r.expert] # NoTask
  /\ ~(r.expert \in prefetched /\ ReadyAt(r))
  /\ task[pending[r.expert]].prefetch
  /\ ReadyAt(r)

ImmediatelyReady(r) ==
  /\ pending[r.expert] = NoTask
  /\ ~r.evict
  /\ expert[r.expert].current = r.dest
  /\ expert[r.expert].state \in {"Ready", "InUse"}

Accepting(r) == ~stopping /\ IsRegistered(expert[r.expert])

ScheduleReady(c, r) ==
  /\ Accepting(r)
  /\ client[c].pc = "idle"
  /\ ImmediatelyReady(r)
  /\ prefetched' = IF r.prio = PredictedNextLayer
                     THEN prefetched \cup {r.expert}
                     ELSE PrefetchedAfter(r)
  /\ client' = [client EXCEPT ![c] = [pc |-> "lookup", expert |-> r.expert,
                                      dest |-> r.dest, transfer |-> NoTransfer]]
  /\ UNCHANGED <<expert, task, queue, pending, resident, worker, nextSequence,
                 stopping>>

\* readyResult takes mutex_ again to find the retained transfer ..
ReadyLookup(c) ==
  /\ client[c].pc = "lookup"
  /\ client' = [client EXCEPT ![c].pc = "snapshot",
                              ![c].transfer = resident[client[c].expert]]
  /\ UNCHANGED <<expert, task, queue, pending, resident, prefetched, worker,
                 nextSequence, stopping>>

\* .. and, without it, takes the snapshot that it returns as a success.
ReadySnapshot(c) ==
  /\ client[c].pc = "snapshot"
  /\ client' = [client EXCEPT ![c] = IdleClient]
  /\ UNCHANGED <<expert, task, queue, pending, resident, prefetched, worker,
                 nextSequence, stopping>>

Entry(t, prio, score, gen) ==
  [task |-> t, prio |-> prio, score |-> score, seq |-> nextSequence,
   gen |-> gen]

\* An unstarted task is raised by a higher priority, or by a better score at
\* the same priority.
Upgrades(r, x) ==
  /\ x.phase = "Waiting"
  /\ \/ r.prio > x.prio
     \/ r.prio = x.prio /\ r.score > x.score

\* Mutant of Upgraded: the generation is not advanced.
UpgradedSameGeneration(r, x) ==
  [x EXCEPT !.prio = IF r.prio > @ THEN r.prio ELSE @,
            !.score = IF r.score > @ THEN r.score ELSE @]

Upgraded(r, x) ==
  [x EXCEPT !.prio = IF r.prio > @ THEN r.prio ELSE @,
            !.score = IF r.score > @ THEN r.score ELSE @,
            !.gen = @ + 1]

Joined(r, x) ==
  [x EXCEPT !.active = @ \/ r.prio = ActiveInference]

\* The request joins the pending task of its expert.  An upgrade pushes a new
\* queue entry; the old one goes stale by its generation.
ScheduleCoalesce(r) ==
  LET t == pending[r.expert] IN
  /\ Accepting(r)
  /\ t # NoTask
  /\ task[t].dest = r.dest
  /\ IF Upgrades(r, task[t])
       THEN LET x == Upgraded(r, Joined(r, task[t])) IN
            /\ nextSequence < MaxPushes
            /\ task' = [task EXCEPT ![t] = x]
            /\ queue' = queue \cup {Entry(t, x.prio, x.score, x.gen)}
            /\ nextSequence' = nextSequence + 1
       ELSE /\ task' = [task EXCEPT ![t] = Joined(r, @)]
            /\ UNCHANGED <<queue, nextSequence>>
  /\ prefetched' = PrefetchedAfter(r)
  /\ UNCHANGED <<expert, pending, resident, worker, client, stopping>>

CanSchedule(r) ==
  IF r.evict THEN CanBeginEviction(expert[r.expert])
             ELSE CanRequest(expert[r.expert])

\* A slot whose promise is set and that no stale queue entry still holds.
Allocatable(t) ==
  task[t].phase = "Done" /\ \A q \in queue : q.task # t

NewTask(r) ==
  [expert |-> r.expert, dest |-> r.dest, prio |-> r.prio, score |-> r.score,
   evict |-> r.evict, prefetch |-> r.prio = PredictedNextLayer,
   active |-> r.prio = ActiveInference, gen |-> 0, phase |-> "Waiting",
   cancelled |-> FALSE]

ScheduleNew(r, t) ==
  /\ Accepting(r)
  /\ pending[r.expert] = NoTask
  /\ ~ImmediatelyReady(r)
  /\ CanSchedule(r)
  /\ Allocatable(t)
  /\ nextSequence < MaxPushes
  /\ expert' = [expert EXCEPT ![r.expert] =
                  IF r.evict THEN BeginEvictionOf(@, r.dest)
                             ELSE MarkQueuedOf(RequestOf(@, r.dest))]
  /\ task' = [task EXCEPT ![t] = NewTask(r)]
  /\ pending' = [pending EXCEPT ![r.expert] = t]
  /\ queue' = queue \cup {Entry(t, r.prio, r.score, 0)}
  /\ nextSequence' = nextSequence + 1
  /\ prefetched' = PrefetchedAfter(r)
  /\ UNCHANGED <<resident, worker, client, stopping>>

\* schedule throws: another destination is pending, or states_ refuses the
\* transition.  What the profiler branch did before the throw stays done.
ScheduleReject(r) ==
  LET t == pending[r.expert] IN
  /\ Accepting(r)
  /\ \/ t # NoTask /\ task[t].dest # r.dest
     \/ t = NoTask /\ ~ImmediatelyReady(r) /\ ~CanSchedule(r)
  /\ prefetched' = PrefetchedAfter(r)
  /\ task' = IF HitsFinishingPrefetch(r)
               THEN [task EXCEPT ![t].active = TRUE] ELSE task
  /\ UNCHANGED <<expert, queue, pending, resident, worker, client,
                 nextSequence, stopping>>

\* ScheduleHandle::cancel; the flag is shared by every coalesced handle.
Cancel(t) ==
  /\ task[t].phase \in {"Waiting", "Started"}
  /\ task' = [task EXCEPT ![t].cancelled = TRUE]
  /\ UNCHANGED <<expert, queue, pending, resident, prefetched, worker, client,
                 nextSequence, stopping>>

Acquire(e) ==
  /\ CanAcquire(expert[e])
  /\ expert' = [expert EXCEPT ![e] = AcquireOf(@)]
  /\ UNCHANGED <<task, queue, pending, resident, prefetched, worker, client,
                 nextSequence, stopping>>

Release(e) ==
  /\ CanRelease(expert[e])
  /\ expert' = [expert EXCEPT ![e] = ReleaseOf(@)]
  /\ UNCHANGED <<task, queue, pending, resident, prefetched, worker, client,
                 nextSequence, stopping>>

-----------------------------------------------------------------------------
(* Residency bookkeeping shared with the expert manager. *)

Forget(keys) ==
  [e \in Expert |-> IF e \in keys THEN NoTransfer ELSE resident[e]]

ReconciledToNvme(keys) ==
  [e \in Expert |-> IF e \in keys THEN ReconcileOf(expert[e], "Nvme")
                                  ELSE expert[e]]

Expired(layer) == {e \in prefetched : LayerOf[e] < layer}

\* Walks an unordered_set.  The first key that cannot be reconciled throws out
\* of the loop: its transfer is already erased, the key stays listed, and an
\* arbitrary part of the other keys has been dealt with.
ExpirePrefetchesBefore(layer) ==
  LET good == {e \in Expired(layer) : CanReconcile(expert[e])}
      bad  == Expired(layer) \ good
  IN /\ Expired(layer) # {}
     /\ \E done \in SUBSET good, thrower \in SUBSET bad :
          /\ IF bad = {} THEN done = good /\ thrower = {}
                         ELSE Cardinality(thrower) = 1
          /\ resident' = Forget(done \cup thrower)
          /\ expert' = ReconciledToNvme(done)
          /\ prefetched' = prefetched \ done
     /\ UNCHANGED <<task, queue, pending, worker, client, nextSequence,
                    stopping>>

\* The expert manager adopted the bytes.  If reconcile throws, the transfer
\* is forgotten all the same.
AcknowledgeResidency(e, location) ==
  /\ IsRegistered(expert[e])
  /\ pending[e] = NoTask
  /\ resident' = [resident EXCEPT ![e] = NoTransfer]
  /\ prefetched' = prefetched \ {e}
  /\ expert' = IF CanReconcile(expert[e])
                 THEN [expert EXCEPT ![e] = ReconcileOf(@, location)]
                 ELSE expert
  /\ UNCHANGED <<task, queue, pending, worker, client, nextSequence, stopping>>

\* Mutant of ReconcileResidency: a retained transfer does not stop it.
ReconcileOverTransfer(e, location) ==
  /\ pending[e] = NoTask
  /\ CanReconcile(expert[e])
  /\ expert' = [expert EXCEPT ![e] = ReconcileOf(@, location)]
  /\ UNCHANGED <<task, queue, pending, resident, prefetched, worker, client,
                 nextSequence, stopping>>

ReconcileResidency(e, location) ==
  /\ pending[e] = NoTask
  /\ resident[e] = NoTransfer
  /\ CanReconcile(expert[e])
  /\ expert' = [expert EXCEPT ![e] = ReconcileOf(@, location)]
  /\ UNCHANGED <<task, queue, pending, resident, prefetched, worker, client,
                 nextSequence, stopping>>

Shutdown ==
  /\ ~stopping
  /\ stopping' = TRUE
  /\ task' = [t \in Task |->
               IF \E e \in Expert : pending[e] = t
                 THEN [task[t] EXCEPT !.cancelled = TRUE] ELSE task[t]]
  /\ UNCHANGED <<expert, queue, pending, resident, prefetched, worker, client,
                 nextSequence>>

-----------------------------------------------------------------------------
(* Worker threads: workerLoop and complete. *)

\* Mutant of HigherPriority: the score does not count.
HigherPriorityByClass(a, b) ==
  a.prio > b.prio \/ (a.prio = b.prio /\ a.seq < b.seq)

\* a is popped before b.
HigherPriority(a, b) ==
  \/ a.prio > b.prio
  \/ a.prio = b.prio /\ a.score > b.score
  \/ a.prio = b.prio /\ a.score = b.score /\ a.seq < b.seq

Current(q) == task[q.task].phase = "Waiting" /\ q.gen = task[q.task].gen

\* Pops until an entry is current.  The stale ones on the way are gone.
Dequeue(w) ==
  /\ worker[w].pc = "idle"
  /\ \E q \in queue :
       /\ Current(q)
       /\ \A o \in queue \ {q} : Current(o) => HigherPriority(q, o)
       /\ queue' = {o \in queue : HigherPriority(q, o)}
       /\ task' = [task EXCEPT ![q.task].phase = "Started"]
       /\ worker' = [worker EXCEPT ![w] = [pc |-> "begin", task |-> q.task,
                                           outcome |-> "Unknown"]]
  /\ UNCHANGED <<expert, pending, resident, prefetched, client, nextSequence,
                 stopping>>

\* Mutant of DrainStale: the stale entries stay on the heap.
DrainStaleKeepsQueue(w) ==
  /\ worker[w].pc = "idle"
  /\ queue # {}
  /\ \A q \in queue : ~Current(q)
  /\ UNCHANGED vars

\* Every entry was stale: wait again, or leave if the scheduler is stopping.
DrainStale(w) ==
  /\ worker[w].pc = "idle"
  /\ queue # {}
  /\ \A q \in queue : ~Current(q)
  /\ queue' = {}
  /\ worker' = [worker EXCEPT ![w] = IF stopping THEN ExitedWorker ELSE @]
  /\ UNCHANGED <<expert, task, pending, resident, prefetched, client,
                 nextSequence, stopping>>

\* Mutant of Exit: stopping alone is enough to leave.
ExitAtOnce(w) ==
  /\ worker[w].pc = "idle"
  /\ stopping
  /\ worker' = [worker EXCEPT ![w] = ExitedWorker]
  /\ UNCHANGED <<expert, task, queue, pending, resident, prefetched, client,
                 nextSequence, stopping>>

Exit(w) ==
  /\ worker[w].pc = "idle"
  /\ stopping /\ queue = {}
  /\ worker' = [worker EXCEPT ![w] = ExitedWorker]
  /\ UNCHANGED <<expert, task, queue, pending, resident, prefetched, client,
                 nextSequence, stopping>>

To(w, pc, outcome) ==
  worker' = [worker EXCEPT ![w].pc = pc, ![w].outcome = outcome]

\* Mutant of BeginCancelled: completes without markFailed.
BeginCancelledSilently(w) ==
  /\ worker[w].pc = "begin"
  /\ task[worker[w].task].cancelled
  /\ To(w, "resolve", "Cancelled")
  /\ UNCHANGED <<expert, task, queue, pending, resident, prefetched, client,
                 nextSequence, stopping>>

BeginCancelled(w) ==
  /\ worker[w].pc = "begin"
  /\ task[worker[w].task].cancelled
  /\ To(w, "fail", "Cancelled")
  /\ UNCHANGED <<expert, task, queue, pending, resident, prefetched, client,
                 nextSequence, stopping>>

\* markLoading is outside the try block: were it to throw, the thread and with
\* it the process would end.  LifecycleMatchesWork rules that out.
BeginTransfer(w) ==
  LET x == task[worker[w].task] IN
  /\ worker[w].pc = "begin"
  /\ ~x.cancelled
  /\ IF x.evict THEN UNCHANGED expert
                ELSE /\ CanMarkLoading(expert[x.expert])
                     /\ expert' = [expert EXCEPT ![x.expert] = MarkLoadingOf(@)]
  /\ To(w, "transfer", "Unknown")
  /\ UNCHANGED <<task, queue, pending, resident, prefetched, client,
                 nextSequence, stopping>>

\* TransferManager::submit refuses Nvme as a destination, so such a transfer
\* only ever fails.
TransferCompleted(w) ==
  LET x == task[worker[w].task] IN
  /\ worker[w].pc = "transfer"
  /\ x.dest # "Nvme"
  /\ IF CanMarkReady(expert[x.expert])
       THEN /\ expert' = [expert EXCEPT ![x.expert] = MarkReadyOf(@, x.dest)]
            /\ To(w, "record", "Unknown")
       ELSE /\ To(w, "fail", "Error")
            /\ UNCHANGED expert
  /\ UNCHANGED <<task, queue, pending, resident, prefetched, client,
                 nextSequence, stopping>>

\* submit threw, the future holds an exception, or a cancel was honoured.
TransferLost(w) ==
  /\ worker[w].pc = "transfer"
  /\ \E outcome \in {"Error", "Cancelled"} :
       /\ outcome = "Cancelled" => task[worker[w].task].cancelled
       /\ To(w, "fail", outcome)
  /\ UNCHANGED <<expert, task, queue, pending, resident, prefetched, client,
                 nextSequence, stopping>>

\* Mutant of TrimStep: each candidate is weighed alone.
TrimStepAlone(e, kept, acc, x) ==
  IF acc.thrown \/ kept[x] = NoTransfer \/ Size[x] <= MaxPrefetch THEN acc
  ELSE [acc EXCEPT !.dropped = @ \cup {x},
                   !.thrown = x # e /\ ~CanReconcile(expert[x])]

\* One candidate of the trim loop, under the key e of the finished task: a
\* retained transfer that does not fit the bytes left is dropped, and every
\* dropped expert but e is reconciled, which may throw and end the loop.
TrimStep(e, kept, acc, x) ==
  IF acc.thrown \/ kept[x] = NoTransfer THEN acc
  ELSE IF Size[x] > MaxPrefetch - acc.bytes
    THEN [acc EXCEPT !.dropped = @ \cup {x},
                     !.thrown = x # e /\ ~CanReconcile(expert[x])]
    ELSE [acc EXCEPT !.bytes = @ + Size[x]]

\* The loop goes over the candidates in key order: seen[n] is where it stands
\* after those below n.
Trim(e, kept, candidates) ==
  LET end == Max(candidates) + 1
      seen[n \in 0 .. end] ==
        IF n = 0 THEN [bytes |-> 0, dropped |-> {}, thrown |-> FALSE]
        ELSE IF n - 1 \in candidates THEN TrimStep(e, kept, seen[n - 1], n - 1)
        ELSE seen[n - 1]
  IN  seen[end]

\* The second critical section after a transfer: retain the result and, for a
\* prefetch nobody consumes, bound what speculation may hold.
RecordResidency(w) ==
  LET x == task[worker[w].task]
      kept == [resident EXCEPT ![x.expert] =
                 IF x.dest = "Nvme" THEN NoTransfer ELSE x.dest]
      speculative == prefetched \cup {x.expert}
      trim == Trim(x.expert, kept, speculative)
      back == {d \in Expert : /\ d \in trim.dropped /\ d # x.expert
                              /\ CanReconcile(expert[d])}
  IN /\ worker[w].pc = "record"
     /\ IF x.prefetch /\ ~x.active
          THEN /\ resident' = [d \in Expert |->
                     IF d \in trim.dropped THEN NoTransfer ELSE kept[d]]
               /\ prefetched' = speculative \ trim.dropped
               /\ expert' = ReconciledToNvme(back)
               /\ IF trim.thrown THEN To(w, "fail", "Error")
                                 ELSE To(w, "resolve", "Success")
          ELSE /\ resident' = kept
               /\ To(w, "resolve", "Success")
               /\ UNCHANGED <<expert, prefetched>>
     /\ UNCHANGED <<task, queue, pending, client, nextSequence, stopping>>

\* complete(): the unguarded markFailed ..
MarkFailed(w) ==
  LET e == task[worker[w].task].expert IN
  /\ worker[w].pc = "fail"
  /\ expert' = [expert EXCEPT ![e] = MarkFailedOf(@)]
  /\ To(w, "resolve", worker[w].outcome)
  /\ UNCHANGED <<task, queue, pending, resident, prefetched, client,
                 nextSequence, stopping>>

\* .. its critical section ..
Complete(w) ==
  LET t == worker[w].task
      e == task[t].expert
  IN /\ worker[w].pc = "resolve"
     /\ task' = [task EXCEPT ![t].phase = "Completed"]
     /\ pending' = IF pending[e] = t THEN [pending EXCEPT ![e] = NoTask]
                                     ELSE pending
     /\ To(w, "deliver", worker[w].outcome)
     /\ UNCHANGED <<expert, queue, resident, prefetched, client, nextSequence,
                    stopping>>

\* Mutants of Deliver: the worker keeps its task; an unsuccessful task gets
\* no value on its promise.
DeliverKeepsTask(w) ==
  /\ worker[w].pc = "deliver"
  /\ task' = [task EXCEPT ![worker[w].task] = IdleTask]
  /\ worker' = [worker EXCEPT ![w].pc = "idle"]
  /\ UNCHANGED <<expert, queue, pending, resident, prefetched, client,
                 nextSequence, stopping>>
DeliverSuccessOnly(w) ==
  /\ worker[w].pc = "deliver"
  /\ task' = IF worker[w].outcome = "Success"
               THEN [task EXCEPT ![worker[w].task] = IdleTask] ELSE task
  /\ worker' = [worker EXCEPT ![w] = IdleWorker]
  /\ UNCHANGED <<expert, queue, pending, resident, prefetched, client,
                 nextSequence, stopping>>

\* .. and, with no lock held, the callbacks and the promise.
Deliver(w) ==
  /\ worker[w].pc = "deliver"
  /\ task' = [task EXCEPT ![worker[w].task] = IdleTask]
  /\ worker' = [worker EXCEPT ![w] = IdleWorker]
  /\ UNCHANGED <<expert, queue, pending, resident, prefetched, client,
                 nextSequence, stopping>>

-----------------------------------------------------------------------------

WorkerStep(w) ==
  \/ Dequeue(w)
  \/ DrainStale(w)
  \/ Exit(w)
  \/ BeginCancelled(w)
  \/ BeginTransfer(w)
  \/ TransferCompleted(w)
  \/ TransferLost(w)
  \/ RecordResidency(w)
  \/ MarkFailed(w)
  \/ Complete(w)
  \/ Deliver(w)

Schedule(r) ==
  \/ \E c \in Client : ScheduleReady(c, r)
  \/ ScheduleCoalesce(r)
  \/ \E t \in Task : ScheduleNew(r, t)
  \/ ScheduleReject(r)

CallerStep ==
  \/ \E r \in Request : Schedule(r)
  \/ \E c \in Client : ReadyLookup(c) \/ ReadySnapshot(c)
  \/ \E t \in Task : Cancel(t)
  \/ \E e \in Expert : Acquire(e) \/ Release(e)
  \/ \E e \in Expert, l \in Location :
       Register(e, l) \/ AcknowledgeResidency(e, l) \/ ReconcileResidency(e, l)
  \/ \E e \in Expert : ExpirePrefetchesBefore(LayerOf[e] + 1)
  \/ Shutdown

AllExited == \A w \in Worker : worker[w].pc = "exited"

\* After shutdown() has joined the workers the scheduler does nothing more.
Stopped == AllExited /\ UNCHANGED vars

Next == (\E w \in Worker : WorkerStep(w)) \/ CallerStep \/ Stopped

\* A worker thread that can run does, and TransferManager answers every
\* submitted transfer.  Nothing is assumed of the callers.
Fairness == \A w \in Worker : WF_vars(WorkerStep(w))

Spec == Init /\ [][Next]_vars /\ Fairness
-----------------------------------------------------------------------------
(* What the scheduler promises. *)

\* Every variable has its type.
TypeOK ==
  /\ expert \in [Expert -> ExpertRecord]
  /\ task \in [Task -> TaskType]
  /\ queue \subseteq EntryType
  /\ pending \in [Expert -> Task \cup {NoTask}]
  /\ resident \in [Expert -> Tier \cup {NoTransfer}]
  /\ prefetched \subseteq Expert
  /\ worker \in [Worker -> WorkerType]
  /\ client \in [Client -> ClientType]
  /\ nextSequence \in Nat
  /\ stopping \in BOOLEAN

Unfinished(t) == task[t].phase \in {"Waiting", "Started"}
Holds(w, t) == worker[w].task = t

\* pendingByExpert_ and the tasks name each other: no expert has two
\* unfinished tasks, so consumers share one physical movement.
PendingIsOneTask ==
  /\ \A e \in Expert : pending[e] # NoTask =>
       task[pending[e]].expert = e /\ Unfinished(pending[e])
  /\ \A t \in Task : Unfinished(t) =>
       task[t].expert \in Expert /\ pending[task[t].expert] = t

\* A waiting task has exactly one queue entry of its generation, that entry
\* carries the task's present priority and score, and no entry is newer than
\* the task: an upgrade neither loses the task nor queues it twice.
WaitingIsQueuedOnce ==
  /\ \A t \in Task : task[t].phase = "Waiting" =>
       \E q \in queue : /\ q.task = t /\ q.gen = task[t].gen
                        /\ q.prio = task[t].prio /\ q.score = task[t].score
  /\ \A q \in queue : task[q.task].phase = "Waiting" => q.gen <= task[q.task].gen
  /\ \A p, q \in queue : p.task = q.task /\ p.gen = q.gen => p = q

\* A dequeued task belongs to exactly one worker until its promise is set.
StartedIsOwnedOnce ==
  /\ \A t \in Task : task[t].phase \in {"Started", "Completed"} =>
       \E w \in Worker : Holds(w, t)
  /\ \A v, w \in Worker :
       worker[v].task = worker[w].task /\ worker[v].task # NoTask => v = w
  /\ \A w \in Worker :
       worker[w].pc \notin {"idle", "exited"} =>
         task[worker[w].task].phase =
           IF worker[w].pc = "deliver" THEN "Completed" ELSE "Started"

\* No accepted request is lost or served twice (workerLoop, schedule and
\* complete against pendingByExpert_ and queue_).
TaskLedger == PendingIsOneTask /\ WaitingIsQueuedOnce /\ StartedIsOwnedOnce

\* The lifecycle state agrees with the work outstanding on the expert, so
\* workerLoop's markLoading, which nothing catches, never throws, and neither
\* does its markReady; an expert with no task is never left in transition.
LifecycleMatchesWork ==
  /\ \A t \in Task : task[t].phase = "Waiting" =>
       expert[task[t].expert].state = IF task[t].evict THEN "Evicting" ELSE "Queued"
  /\ \A w \in Worker : worker[w].pc \in {"begin", "transfer"} =>
       LET x == task[worker[w].task] IN
       expert[x.expert].state =
         IF x.evict THEN "Evicting"
         ELSE IF worker[w].pc = "begin" THEN "Queued" ELSE "Loading"
  /\ \A w \in Worker : worker[w].pc \in {"record", "resolve"} =>
       expert[task[worker[w].task].expert].state \in {"Ready", "InUse", "Failed"}
  /\ \A e \in Expert :
       /\ expert[e].state # "Requested"
       /\ expert[e].state \in {"Queued", "Loading", "Evicting"} => pending[e] # NoTask

Outranks(x, y) ==
  x.prio > y.prio \/ (x.prio = y.prio /\ x.score > y.score)

\* A worker starts no task while one that outranks it waits, upgrades by
\* coalesced requests included (priority_queue with stale entries).
DispatchOrder ==
  [][\A t, u \in Task :
       /\ task[t].phase = "Waiting" /\ task'[t].phase = "Started"
       /\ task[u].phase = "Waiting"
       => ~Outranks(task[u], task[t])]_vars

\* A worker leaves only a stopping scheduler with nothing queued, and nothing
\* is queued after that.
ExitedIsDrained ==
  \A w \in Worker : worker[w].pc = "exited" => stopping /\ queue = {}

\* Once the workers have left, nothing is owed: no pending expert, no queued
\* entry, no unset promise.
NothingOwedAtExit ==
  /\ ExitedIsDrained
  /\ AllExited => /\ \A e \in Expert : pending[e] = NoTask
                  /\ \A t \in Task : task[t].phase = "Done"

\* A settled expert's retained transfer is from the tier the expert is said to
\* be in, so a demand never gets a buffer of another tier.  The one exception
\* is NVMe: an expiry or trim between markReady and the recording of the
\* transfer leaves a buffer behind an expert said to be on disk.
RetainedWhereClaimed ==
  \A e \in Expert :
    resident[e] # NoTransfer /\ pending[e] = NoTask
      => expert[e].current \in {resident[e], "Nvme"}

SpeculativeBytes ==
  MapThenSumSet(LAMBDA e : Size[e],
                {e \in prefetched : resident[e] # NoTransfer})

\* A prefetch that completes leaves the speculative transfers within
\* maximumPrefetchBytes_.
PrefetchTrimmed ==
  [][\A w \in Worker :
       /\ worker[w].pc = "record" /\ worker'[w].pc = "resolve"
       /\ task[worker[w].task].prefetch /\ ~task[worker[w].task].active
       => SpeculativeBytes' <= MaxPrefetch]_vars

\* shutdown() returns: its join does not wait for ever, whatever was queued.
ShutdownDrains == stopping ~> AllExited

\* Every accepted request gets its answer.
RequestsAnswered ==
  \A t \in Task : task[t].phase = "Waiting" ~> task[t].phase = "Done"
=============================================================================
