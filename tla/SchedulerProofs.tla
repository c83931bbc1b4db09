--------------------------- MODULE SchedulerProofs ---------------------------
(***************************************************************************)
(* Proofs about Scheduler for every set of experts, workers and requests.  *)
(* The inductive invariant is TypeOK, the task ledger, the agreement of    *)
(* lifecycle and work, and that exited workers leave nothing queued.  The  *)
(* parts about retained transfers and about the bytes that speculation may *)
(* hold build on it.                                                       *)
(***************************************************************************)
EXTENDS Scheduler, FiniteSums

-----------------------------------------------------------------------------
(* Types. *)

\* The lifecycle operations of ExpertState keep an expert's record an expert's
\* record.
LEMMA LifecycleTypes ==
  ASSUME NEW x \in ExpertRecord, NEW l \in Tier
  PROVE  /\ RegisteredAt(l) \in ExpertRecord
         /\ BeginEvictionOf(x, l) \in ExpertRecord
         /\ MarkQueuedOf(RequestOf(x, l)) \in ExpertRecord
         /\ MarkLoadingOf(x) \in ExpertRecord
         /\ MarkReadyOf(x, l) \in ExpertRecord
         /\ AcquireOf(x) \in ExpertRecord
         /\ ReleaseOf(x) \in ExpertRecord
         /\ MarkFailedOf(x) \in ExpertRecord
         /\ ReconcileOf(x, l) \in ExpertRecord
BY DEF ExpertRecord, LifecycleState, RegisteredAt, BeginEvictionOf,
       MarkQueuedOf, RequestOf, MarkLoadingOf, MarkReadyOf, AcquireOf,
       ReleaseOf, MarkFailedOf, ReconcileOf

\* The initial states are typed.
LEMMA InitTypeOK == Init => TypeOK
<1> SUFFICES ASSUME Init PROVE TypeOK
  OBVIOUS
<1> USE DEF Init
<1>1. expert \in [Expert -> ExpertRecord]
  BY DEF ExpertRecord, LifecycleState, Tier, UnregisteredExpert
<1>2. task \in [Task -> TaskType]
  <2>1. IdleTask \in TaskType
    BY DEF TaskType, IdleTask, Priority, Phase, Tier
  <2> QED BY <2>1
<1>3. worker \in [Worker -> WorkerType] /\ client \in [Client -> ClientType]
  BY DEF WorkerType, ClientType
<1> QED BY <1>1, <1>2, <1>3 DEF TypeOK

Busy == WorkerPc \ {"idle", "exited"}

\* A worker that moves on within its task stays a worker with that task.
LEMMA WorkerMoves ==
  ASSUME TypeOK, NEW w \in Worker, worker[w].pc \in Busy,
         NEW pc \in Busy, NEW o \in Outcome, To(w, pc, o)
  PROVE  /\ worker' \in [Worker -> WorkerType]
         /\ worker'[w] = [pc |-> pc, task |-> worker[w].task, outcome |-> o]
         /\ \A v \in Worker \ {w} : worker'[v] = worker[v]
<1>1. worker[w] \in [pc : Busy, task : Task, outcome : Outcome]
  BY DEF TypeOK, WorkerType, IdleWorker, ExitedWorker, Busy
<1>2. worker'[w] = [pc |-> pc, task |-> worker[w].task, outcome |-> o]
  BY <1>1 DEF To, TypeOK
<1>3. worker'[w] \in WorkerType
  BY <1>1, <1>2 DEF WorkerType, Busy
<1>4. worker' = [worker EXCEPT ![w] = worker'[w]]
  BY DEF To, TypeOK
<1> QED BY <1>2, <1>3, <1>4 DEF TypeOK

\* A busy worker's task is a typed task.
LEMMA BusyHasTask ==
  ASSUME TypeOK, NEW w \in Worker, worker[w].pc \in Busy
  PROVE  /\ worker[w].task \in Task
         /\ worker[w].outcome \in Outcome
         /\ task[worker[w].task] \in TaskType
<1>1. worker[w] \in [pc : Busy, task : Task, outcome : Outcome]
  BY DEF TypeOK, WorkerType, IdleWorker, ExitedWorker, Busy
<1> QED BY <1>1 DEF TypeOK

\* A coalesced request leaves the task typed.
LEMMA JoinTypes ==
  ASSUME NEW r \in RequestType, NEW x \in TaskType
  PROVE  Joined(r, x) \in TaskType /\ Upgraded(r, x) \in TaskType
<1>1. Joined(r, x) \in TaskType
  BY DEF Joined, TaskType
<1> DEFINE p == IF r.prio > x.prio THEN r.prio ELSE x.prio
           s == IF r.score > x.score THEN r.score ELSE x.score
<1>2. p \in Priority /\ s \in Nat /\ x.gen + 1 \in Nat
  BY DEF RequestType, TaskType
<1>3. Upgraded(r, x) = [x EXCEPT !.prio = p, !.score = s, !.gen = x.gen + 1]
  BY DEF Upgraded, TaskType
<1> HIDE DEF p, s
<1>4. Upgraded(r, x) \in TaskType
  BY <1>2, <1>3 DEF TaskType
<1> QED BY <1>1, <1>4

\* Setting the consumer flag leaves the task typed.
LEMMA ActiveTypes ==
  ASSUME NEW x \in TaskType
  PROVE  [x EXCEPT !.active = TRUE] \in TaskType
BY DEF TaskType

\* Every step keeps the types.
LEMMA NextTypeOK == TypeOK /\ TaskLedger /\ [Next]_vars => TypeOK'
<1> SUFFICES ASSUME TypeOK, TaskLedger, [Next]_vars PROVE TypeOK'
  OBVIOUS
<1> USE DEF TypeOK
<1>1. ASSUME NEW c \in Client, NEW r \in Request, ScheduleReady(c, r)
      PROVE  TypeOK'
  <2>1. r \in RequestType
    BY InputAssumption
  <2>2. client' \in [Client -> ClientType]
    BY <1>1, <2>1 DEF ScheduleReady, ClientType, RequestType, Tier
  <2> QED BY <1>1, <2>1, <2>2 DEF ScheduleReady, PrefetchedAfter, RequestType
<1>2. ASSUME NEW r \in Request, ScheduleCoalesce(r)
      PROVE  TypeOK'
  <2>1. r \in RequestType
    BY InputAssumption
  <2> DEFINE t == pending[r.expert]
             x == Upgraded(r, Joined(r, task[t]))
  <2>2. t \in Task /\ task[t] \in TaskType
    BY <1>2, <2>1 DEF ScheduleCoalesce, RequestType
  <2>3. Joined(r, task[t]) \in TaskType
    BY <2>1, <2>2, JoinTypes
  <2>4. x \in TaskType
    BY <2>1, <2>3, JoinTypes
  <2>5. Entry(t, x.prio, x.score, x.gen) \in EntryType
    BY <2>2, <2>4 DEF Entry, EntryType, TaskType
  <2>6. task' \in [Task -> TaskType] /\ queue' \subseteq EntryType
        /\ nextSequence' \in Nat
    BY <1>2, <2>2, <2>3, <2>4, <2>5 DEF ScheduleCoalesce
  <2> QED BY <1>2, <2>6 DEF ScheduleCoalesce, PrefetchedAfter
<1>3. ASSUME NEW r \in Request, NEW t \in Task, ScheduleNew(r, t)
      PROVE  TypeOK'
  <2>1. r \in RequestType
    BY InputAssumption
  <2>2. NewTask(r) \in TaskType
    BY <2>1 DEF NewTask, TaskType, RequestType, Phase
  <2>3. Entry(t, r.prio, r.score, 0) \in EntryType
    BY <2>1 DEF Entry, EntryType, RequestType
  <2>4. expert[r.expert] \in ExpertRecord /\ r.dest \in Tier
    BY <2>1 DEF RequestType
  <2>5. expert' \in [Expert -> ExpertRecord]
    BY <1>3, <2>4, LifecycleTypes DEF ScheduleNew
  <2> QED BY <1>3, <2>1, <2>2, <2>3, <2>5
        DEF ScheduleNew, PrefetchedAfter, RequestType
<1>4. ASSUME NEW r \in Request, ScheduleReject(r)
      PROVE  TypeOK'
  <2>1. r \in RequestType
    BY InputAssumption
  <2>2. task' \in [Task -> TaskType]
    <3>1. CASE HitsFinishingPrefetch(r)
      <4>1. pending[r.expert] \in Task
        BY <2>1, <3>1 DEF HitsFinishingPrefetch, RequestType
      <4>2. [task[pending[r.expert]] EXCEPT !.active = TRUE] \in TaskType
        BY <4>1, ActiveTypes
      <4> QED BY <1>4, <3>1, <4>1, <4>2 DEF ScheduleReject
    <3>2. CASE ~HitsFinishingPrefetch(r)
      BY <1>4, <3>2 DEF ScheduleReject
    <3> QED BY <3>1, <3>2
  <2> QED BY <1>4, <2>2 DEF ScheduleReject, PrefetchedAfter
<1>5. ASSUME NEW c \in Client, ReadyLookup(c) \/ ReadySnapshot(c)
      PROVE  TypeOK'
  <2>1. CASE ReadySnapshot(c)
    BY <2>1 DEF ReadySnapshot, ClientType
  <2>2. CASE ReadyLookup(c)
    <3>1. client[c] \in [pc : {"lookup", "snapshot"}, expert : Expert,
                        dest : Tier, transfer : Tier \cup {NoTransfer}]
      BY <2>2 DEF ReadyLookup, ClientType, IdleClient
    <3>2. [client[c] EXCEPT !.pc = "snapshot",
                            !.transfer = resident[client[c].expert]] \in ClientType
      BY <3>1 DEF ClientType
    <3> QED BY <2>2, <3>2 DEF ReadyLookup
  <2> QED BY <1>5, <2>1, <2>2
<1>6. ASSUME NEW t \in Task, Cancel(t)
      PROVE  TypeOK'
  BY <1>6, ZenonT(40) DEF Cancel, TaskType
<1>7. ASSUME NEW e \in Expert, Acquire(e) \/ Release(e)
      PROVE  TypeOK'
  <2>1. expert' \in [Expert -> ExpertRecord]
    BY <1>7, LifecycleTypes DEF Acquire, Release, Tier
  <2> QED BY <1>7, <2>1 DEF Acquire, Release
<1>8. ASSUME NEW e \in Expert, NEW l \in Location,
             Register(e, l) \/ AcknowledgeResidency(e, l) \/ ReconcileResidency(e, l)
      PROVE  TypeOK'
  <2>0. RegisteredAt(l) \in ExpertRecord /\ ReconcileOf(expert[e], l) \in ExpertRecord
    BY LifecycleTypes, InputAssumption
  <2>1. expert' \in [Expert -> ExpertRecord]
    BY <1>8, <2>0
       DEF Register, AcknowledgeResidency, ReconcileResidency
  <2> QED BY <1>8, <2>1 DEF Register, AcknowledgeResidency, ReconcileResidency
<1>9. ASSUME NEW l, ExpirePrefetchesBefore(l)
      PROVE  TypeOK'
  <2>1. ASSUME NEW keys PROVE ReconciledToNvme(keys) \in [Expert -> ExpertRecord]
    BY LifecycleTypes DEF ReconciledToNvme, Tier
  <2>2. ASSUME NEW keys
        PROVE  Forget(keys) \in [Expert -> Tier \cup {NoTransfer}]
    BY DEF Forget
  <2> QED BY <1>9, <2>1, <2>2 DEF ExpirePrefetchesBefore
<1>10. CASE Shutdown
  BY <1>10, ZenonT(40) DEF Shutdown, TaskType
<1>11. ASSUME NEW w \in Worker, Dequeue(w)
       PROVE  TypeOK'
  <2>1. PICK q \in queue :
          /\ queue' = {o \in queue : HigherPriority(q, o)}
          /\ task' = [task EXCEPT ![q.task].phase = "Started"]
          /\ worker' = [worker EXCEPT ![w] = [pc |-> "begin", task |-> q.task,
                                              outcome |-> "Unknown"]]
    BY <1>11 DEF Dequeue
  <2>2. q.task \in Task
    BY DEF EntryType
  <2>3. task' \in [Task -> TaskType]
    BY <2>1, <2>2, SMTT(20) DEF TaskType, Phase
  <2>4. worker' \in [Worker -> WorkerType]
    BY <2>1, <2>2 DEF WorkerType, WorkerPc, Outcome
  <2> QED BY <1>11, <2>1, <2>3, <2>4 DEF Dequeue
<1>12. ASSUME NEW w \in Worker, DrainStale(w) \/ Exit(w)
       PROVE  TypeOK'
  <2>1. worker' \in [Worker -> WorkerType]
    BY <1>12 DEF DrainStale, Exit, WorkerType
  <2> QED BY <1>12, <2>1 DEF DrainStale, Exit
<1>13. ASSUME NEW w \in Worker, BeginCancelled(w) \/ TransferLost(w)
       PROVE  TypeOK'
  <2>1. PICK o \in Outcome : worker[w].pc \in Busy /\ To(w, "fail", o)
    BY <1>13 DEF BeginCancelled, TransferLost, Busy, WorkerPc, Outcome
  <2>2. worker' \in [Worker -> WorkerType]
    BY <2>1, WorkerMoves DEF Busy, WorkerPc
  <2> QED BY <1>13, <2>2 DEF BeginCancelled, TransferLost
<1>14. ASSUME NEW w \in Worker, BeginTransfer(w)
       PROVE  TypeOK'
  <2>1. worker' \in [Worker -> WorkerType]
    BY <1>14, WorkerMoves DEF BeginTransfer, Busy, WorkerPc, Outcome
  <2>2. expert' \in [Expert -> ExpertRecord]
    BY <1>14, LifecycleTypes DEF BeginTransfer, Tier
  <2> QED BY <1>14, <2>1, <2>2 DEF BeginTransfer
<1>15. ASSUME NEW w \in Worker, TransferCompleted(w)
       PROVE  TypeOK'
  <2>1. worker' \in [Worker -> WorkerType]
    BY <1>15, WorkerMoves DEF TransferCompleted, Busy, WorkerPc, Outcome
  <2>2. task[worker[w].task].dest \in Tier
    BY <1>15, BusyHasTask DEF TransferCompleted, Busy, WorkerPc, TaskType
  <2>3. expert' \in [Expert -> ExpertRecord]
    <3> DEFINE x == task[worker[w].task]
    <3>1. x.expert \in Expert =>
            MarkReadyOf(expert[x.expert], x.dest) \in ExpertRecord
      BY <2>2, LifecycleTypes
    <3>2. expert' = expert
            \/ expert' = [expert EXCEPT ![x.expert] =
                            MarkReadyOf(expert[x.expert], x.dest)]
      BY <1>15 DEF TransferCompleted
    <3> HIDE DEF x
    <3> QED BY <3>1, <3>2
  <2> QED BY <1>15, <2>1, <2>3 DEF TransferCompleted
<1>16. ASSUME NEW w \in Worker, RecordResidency(w)
       PROVE  TypeOK'
  <2> DEFINE x == task[worker[w].task]
  <2>1. worker[w].pc \in Busy /\ x \in TaskType
    BY <1>16, BusyHasTask DEF RecordResidency, Busy, WorkerPc
  <2>2. worker' \in [Worker -> WorkerType]
    BY <1>16, <2>1, WorkerMoves DEF RecordResidency, Busy, WorkerPc, Outcome
  <2>3. CASE x.prefetch /\ ~x.active
    <3>1. x.expert \in Expert
      BY <1>16, <2>1, BusyHasTask DEF TaskLedger, StartedIsOwnedOnce,
         PendingIsOneTask, Unfinished, RecordResidency
    <3>2. x.dest \in Tier
      BY <2>1 DEF TaskType
    <3>3. ASSUME NEW keys
          PROVE  ReconciledToNvme(keys) \in [Expert -> ExpertRecord]
      BY LifecycleTypes DEF ReconciledToNvme, Tier
    <3>4. resident' \in [Expert -> Tier \cup {NoTransfer}]
      BY <1>16, <2>3, <3>1, <3>2 DEF RecordResidency
    <3>5. \E back : expert' = ReconciledToNvme(back)
      BY <1>16, <2>3 DEF RecordResidency
    <3>6. \E dropped : prefetched' = (prefetched \cup {x.expert}) \ dropped
      BY <1>16, <2>3 DEF RecordResidency
    <3>7. UNCHANGED <<task, queue, pending, client, nextSequence, stopping>>
      BY <1>16 DEF RecordResidency
    <3> QED BY <2>2, <3>1, <3>3, <3>4, <3>5, <3>6, <3>7
  <2>4. CASE ~(x.prefetch /\ ~x.active)
    BY <1>16, <2>1, <2>2, <2>4 DEF RecordResidency, TaskType
  <2> QED BY <2>3, <2>4
<1>17. ASSUME NEW w \in Worker, MarkFailed(w)
       PROVE  TypeOK'
  <2>1. worker' \in [Worker -> WorkerType]
    BY <1>17, WorkerMoves, BusyHasTask DEF MarkFailed, Busy, WorkerPc
  <2>2. expert' \in [Expert -> ExpertRecord]
    BY <1>17, LifecycleTypes DEF MarkFailed, Tier
  <2> QED BY <1>17, <2>1, <2>2 DEF MarkFailed
<1>18. ASSUME NEW w \in Worker, Complete(w)
       PROVE  TypeOK'
  <2>1. worker[w].task \in Task /\ worker' \in [Worker -> WorkerType]
    BY <1>18, WorkerMoves, BusyHasTask DEF Complete, Busy, WorkerPc
  <2>2. task' \in [Task -> TaskType]
    BY <1>18, <2>1 DEF Complete, TaskType, Phase
  <2> QED BY <1>18, <2>1, <2>2 DEF Complete
<1>19. ASSUME NEW w \in Worker, Deliver(w)
       PROVE  TypeOK'
  <2>1. IdleTask \in TaskType
    BY DEF TaskType, IdleTask, Priority, Phase, Tier
  <2>2. worker' \in [Worker -> WorkerType]
    BY <1>19 DEF Deliver, WorkerType
  <2> QED BY <1>19, <2>1, <2>2 DEF Deliver
<1>20. CASE UNCHANGED vars
  BY <1>20 DEF vars
<1> QED
  BY <1>1, <1>2, <1>3, <1>4, <1>5, <1>6, <1>7, <1>8, <1>9, <1>10, <1>11,
     <1>12, <1>13, <1>14, <1>15, <1>16, <1>17, <1>18, <1>19, <1>20
     DEF Next, WorkerStep, CallerStep, Schedule, Stopped
-----------------------------------------------------------------------------
(* The task ledger.  Steps are first sorted by what they do to it. *)

\* x and y differ at most in the consumer and cancellation flags.
SameWork(x, y) ==
  /\ x.expert = y.expert /\ x.prio = y.prio /\ x.score = y.score
  /\ x.gen = y.gen /\ x.phase = y.phase /\ x.evict = y.evict /\ x.dest = y.dest

\* A step the ledger does not notice.
Quiet ==
  /\ \A t \in Task : SameWork(task[t], task'[t])
  /\ UNCHANGED <<queue, pending, worker>>

\* A worker goes from one stage of its task to a later one.
Stage == {"begin", "transfer", "record", "fail", "resolve"}
Moves(w) ==
  /\ worker[w].pc \in Stage /\ worker'[w].pc \in Stage
  /\ worker'[w].task = worker[w].task
  /\ \A v \in Worker \ {w} : worker'[v] = worker[v]
  /\ UNCHANGED <<task, queue, pending>>

\* The coalesced request that raises a waiting task.
Raise(r) ==
  /\ ScheduleCoalesce(r)
  /\ Upgrades(r, task[pending[r.expert]])

\* Every step is unnoticed by the ledger, a worker moving through its task, or
\* one of the seven that change it.
LEMMA StepKinds ==
  ASSUME TypeOK, [Next]_vars
  PROVE  \/ Quiet
         \/ \E w \in Worker : Moves(w)
         \/ \E r \in Request : Raise(r)
         \/ \E r \in Request, t \in Task : ScheduleNew(r, t)
         \/ \E w \in Worker : \/ Dequeue(w) \/ DrainStale(w) \/ Exit(w)
                              \/ Complete(w) \/ Deliver(w)
<1>1. ASSUME NEW c \in Client, NEW r \in Request, ScheduleReady(c, r)
      PROVE  Quiet
  BY <1>1 DEF Quiet, SameWork, ScheduleReady
<1>2. ASSUME NEW r \in Request, ScheduleCoalesce(r), ~Raise(r)
      PROVE  Quiet
  <2>1. pending[r.expert] \in Task /\ task[pending[r.expert]] \in TaskType
    BY <1>2, InputAssumption DEF ScheduleCoalesce, TypeOK, RequestType
  <2>2. SameWork(task[pending[r.expert]], Joined(r, task[pending[r.expert]]))
    BY <2>1 DEF SameWork, Joined, TaskType
  <2>3. /\ task' = [task EXCEPT ![pending[r.expert]] = Joined(r, @)]
        /\ UNCHANGED <<queue, pending, worker>>
    BY <1>2 DEF ScheduleCoalesce, Raise
  <2>4. \A t \in Task : SameWork(task[t], task'[t])
    BY <2>1, <2>2, <2>3 DEF TypeOK, SameWork
  <2> QED BY <2>3, <2>4 DEF Quiet
<1>3. ASSUME NEW r \in Request, ScheduleReject(r)
      PROVE  Quiet
  <2>1. \A t \in Task : SameWork(task[t], task'[t])
    BY <1>3 DEF ScheduleReject, SameWork, TypeOK, TaskType
  <2> QED BY <1>3, <2>1 DEF Quiet, ScheduleReject
<1>4. ASSUME NEW c \in Client, ReadyLookup(c) \/ ReadySnapshot(c)
      PROVE  Quiet
  BY <1>4 DEF Quiet, SameWork, ReadyLookup, ReadySnapshot
<1>5. ASSUME NEW t \in Task, Cancel(t)
      PROVE  Quiet
  BY <1>5 DEF Quiet, SameWork, Cancel, TypeOK, TaskType
<1>6. ASSUME NEW e \in Expert, Acquire(e) \/ Release(e)
      PROVE  Quiet
  BY <1>6 DEF Quiet, SameWork, Acquire, Release
<1>7. ASSUME NEW e \in Expert, NEW l \in Location,
             Register(e, l) \/ AcknowledgeResidency(e, l) \/ ReconcileResidency(e, l)
      PROVE  Quiet
  BY <1>7 DEF Quiet, SameWork, Register, AcknowledgeResidency, ReconcileResidency
<1>8. ASSUME NEW l, ExpirePrefetchesBefore(l)
      PROVE  Quiet
  BY <1>8 DEF Quiet, SameWork, ExpirePrefetchesBefore
<1>9. ASSUME Shutdown
      PROVE  Quiet
  BY <1>9 DEF Quiet, SameWork, Shutdown, TypeOK, TaskType
<1>10. ASSUME NEW w \in Worker,
              \/ BeginCancelled(w) \/ BeginTransfer(w) \/ TransferCompleted(w)
              \/ TransferLost(w) \/ RecordResidency(w) \/ MarkFailed(w)
       PROVE  Moves(w)
  <2>1. /\ worker[w].pc \in Stage
        /\ UNCHANGED <<task, queue, pending>>
        /\ \E pc \in Stage, o \in Outcome : To(w, pc, o)
    <3>1. CASE BeginCancelled(w)
      BY <3>1 DEF BeginCancelled, Stage, Outcome
    <3>2. CASE BeginTransfer(w)
      BY <3>2 DEF BeginTransfer, Stage, Outcome
    <3>3. CASE TransferCompleted(w)
      BY <3>3 DEF TransferCompleted, Stage, Outcome
    <3>4. CASE TransferLost(w)
      BY <3>4 DEF TransferLost, Stage, Outcome
    <3>5. CASE RecordResidency(w)
      BY <3>5 DEF RecordResidency, Stage, Outcome
    <3>6. CASE MarkFailed(w)
      BY <3>6, BusyHasTask DEF MarkFailed, Stage, Busy, WorkerPc
    <3> QED BY <1>10, <3>1, <3>2, <3>3, <3>4, <3>5, <3>6
  <2>2. Stage \subseteq Busy
    BY DEF Stage, Busy, WorkerPc
  <2>3. PICK pc \in Stage, o \in Outcome : To(w, pc, o)
    BY <2>1
  <2>4. /\ worker'[w] = [pc |-> pc, task |-> worker[w].task, outcome |-> o]
        /\ \A v \in Worker \ {w} : worker'[v] = worker[v]
    BY <2>1, <2>2, <2>3, WorkerMoves
  <2> QED BY <2>1, <2>4 DEF Moves
<1>11. CASE UNCHANGED vars
  BY <1>11 DEF vars, Quiet, SameWork
<1> QED
  BY <1>1, <1>2, <1>3, <1>4, <1>5, <1>6, <1>7, <1>8, <1>9, <1>10, <1>11
     DEF Next, WorkerStep, CallerStep, Schedule, Stopped
\* What raising a waiting task does to it and to the queue.
LEMMA RaiseEffect ==
  ASSUME TypeOK, NEW r \in Request, Raise(r)
  PROVE  LET t == pending[r.expert]
             x == task'[t]
         IN /\ t \in Task
            /\ task[t].phase = "Waiting" /\ x.phase = "Waiting"
            /\ x.expert = task[t].expert /\ x.gen = task[t].gen + 1
            /\ x.evict = task[t].evict
            /\ \A u \in Task \ {t} : task'[u] = task[u]
            /\ queue' = queue \cup {Entry(t, x.prio, x.score, x.gen)}
            /\ ~stopping
            /\ UNCHANGED <<expert, pending, worker, stopping>>
<1> DEFINE t == pending[r.expert]
<1>1. t \in Task /\ task[t] \in TaskType /\ r \in RequestType
  BY InputAssumption DEF Raise, ScheduleCoalesce, TypeOK, RequestType
<1>2. Joined(r, task[t]) \in TaskType
  BY <1>1, JoinTypes
<1>3. LET x == Upgraded(r, Joined(r, task[t])) IN
        /\ x.phase = task[t].phase /\ x.expert = task[t].expert
        /\ x.gen = task[t].gen + 1 /\ x.evict = task[t].evict
  <2>1. /\ Joined(r, task[t]).phase = task[t].phase
        /\ Joined(r, task[t]).expert = task[t].expert
        /\ Joined(r, task[t]).gen = task[t].gen
        /\ Joined(r, task[t]).evict = task[t].evict
    BY <1>1 DEF Joined, TaskType
  <2> QED BY <1>2, <2>1 DEF Upgraded, TaskType
<1>4. LET x == Upgraded(r, Joined(r, task[t])) IN
        /\ task' = [task EXCEPT ![t] = x]
        /\ queue' = queue \cup {Entry(t, x.prio, x.score, x.gen)}
        /\ task[t].phase = "Waiting"
        /\ ~stopping
        /\ UNCHANGED <<expert, pending, worker, stopping>>
  BY DEF Raise, ScheduleCoalesce, Upgrades, Accepting
<1> QED BY <1>1, <1>3, <1>4 DEF TypeOK

\* What a new task does to the ledger.
LEMMA NewEffect ==
  ASSUME TypeOK, NEW r \in Request, NEW t \in Task, ScheduleNew(r, t)
  PROVE  /\ r.expert \in Expert /\ pending[r.expert] = NoTask
         /\ task[t].phase = "Done" /\ \A q \in queue : q.task # t
         /\ task' = [task EXCEPT ![t] = NewTask(r)]
         /\ task'[t] = NewTask(r)
         /\ pending' = [pending EXCEPT ![r.expert] = t]
         /\ queue' = queue \cup {Entry(t, r.prio, r.score, 0)}
         /\ ~stopping
         /\ UNCHANGED <<worker, stopping>>
BY InputAssumption DEF ScheduleNew, Allocatable, Accepting, TypeOK, RequestType

\* What taking a task off the queue does to the ledger: the worker gets the
\* task of a current entry, and every other current entry stays queued.
LEMMA DequeueEffect ==
  ASSUME TypeOK, NEW w \in Worker, Dequeue(w)
  PROVE  \E q \in queue :
           /\ q.task \in Task /\ Current(q)
           /\ \A o \in queue \ {q} : Current(o) => HigherPriority(q, o)
           /\ queue' = {o \in queue : HigherPriority(q, o)}
           /\ worker[w].pc = "idle" /\ worker[w].task = NoTask
           /\ task'[q.task].phase = "Started"
           /\ task'[q.task].expert = task[q.task].expert
           /\ task'[q.task].evict = task[q.task].evict
           /\ \A u \in Task \ {q.task} : task'[u] = task[u]
           /\ worker'[w].pc = "begin" /\ worker'[w].task = q.task
           /\ \A v \in Worker \ {w} : worker'[v] = worker[v]
           /\ UNCHANGED <<expert, pending, stopping>>
<1>1. PICK q \in queue :
        /\ Current(q)
        /\ \A o \in queue \ {q} : Current(o) => HigherPriority(q, o)
        /\ queue' = {o \in queue : HigherPriority(q, o)}
        /\ task' = [task EXCEPT ![q.task].phase = "Started"]
        /\ worker' = [worker EXCEPT ![w] = [pc |-> "begin", task |-> q.task,
                                            outcome |-> "Unknown"]]
  BY DEF Dequeue
<1>2. q.task \in Task /\ task[q.task] \in TaskType
  BY DEF TypeOK, EntryType
<1>3. worker[w].pc = "idle" /\ worker[w].task = NoTask
  BY DEF Dequeue, TypeOK, WorkerType, IdleWorker, ExitedWorker
<1>4. /\ task'[q.task].phase = "Started"
      /\ task'[q.task].expert = task[q.task].expert
      /\ task'[q.task].evict = task[q.task].evict
      /\ \A u \in Task \ {q.task} : task'[u] = task[u]
  BY <1>1, <1>2 DEF TypeOK, TaskType
<1>5. /\ worker'[w].pc = "begin" /\ worker'[w].task = q.task
      /\ \A v \in Worker \ {w} : worker'[v] = worker[v]
  BY <1>1 DEF TypeOK
<1>6. UNCHANGED <<expert, pending, stopping>>
  BY DEF Dequeue
<1> QED BY <1>1, <1>2, <1>3, <1>4, <1>5, <1>6

\* What complete()'s critical section does to the ledger.
LEMMA CompleteEffect ==
  ASSUME TypeOK, TaskLedger, NEW w \in Worker, Complete(w)
  PROVE  LET t == worker[w].task IN
         /\ worker[w].pc = "resolve" /\ t \in Task
         /\ task[t].phase = "Started" /\ task[t].expert \in Expert
         /\ pending[task[t].expert] = t
         /\ task'[t].phase = "Completed" /\ task'[t].expert = task[t].expert
         /\ \A u \in Task \ {t} : task'[u] = task[u]
         /\ pending' = [pending EXCEPT ![task[t].expert] = NoTask]
         /\ worker'[w].pc = "deliver" /\ worker'[w].task = t
         /\ \A v \in Worker \ {w} : worker'[v] = worker[v]
         /\ UNCHANGED <<expert, queue, stopping>>
<1> DEFINE t == worker[w].task
<1>1. worker[w].pc = "resolve" /\ t \in Task /\ task[t] \in TaskType
      /\ worker[w].outcome \in Outcome
  BY BusyHasTask DEF Complete, Busy, WorkerPc
<1>2. task[t].phase = "Started"
  BY <1>1 DEF TaskLedger, StartedIsOwnedOnce
<1>3. task[t].expert \in Expert /\ pending[task[t].expert] = t
  BY <1>1, <1>2 DEF TaskLedger, PendingIsOneTask, Unfinished
<1>4. /\ worker'[w].pc = "deliver" /\ worker'[w].task = t
      /\ \A v \in Worker \ {w} : worker'[v] = worker[v]
  <2>1. To(w, "deliver", worker[w].outcome)
    BY DEF Complete
  <2>2. worker[w].pc \in Busy /\ "deliver" \in Busy
    BY <1>1 DEF Busy, WorkerPc
  <2>3. /\ worker'[w] = [pc |-> "deliver", task |-> t, outcome |-> worker[w].outcome]
        /\ \A v \in Worker \ {w} : worker'[v] = worker[v]
    BY <1>1, <2>1, <2>2, WorkerMoves
  <2> QED BY <2>3
<1>5. /\ task'[t].phase = "Completed" /\ task'[t].expert = task[t].expert
      /\ \A u \in Task \ {t} : task'[u] = task[u]
  BY <1>1 DEF Complete, TypeOK, TaskType
<1> QED BY <1>1, <1>2, <1>3, <1>4, <1>5 DEF Complete

\* What setting the promise does to the ledger.
LEMMA DeliverEffect ==
  ASSUME TypeOK, TaskLedger, NEW w \in Worker, Deliver(w)
  PROVE  LET t == worker[w].task IN
         /\ worker[w].pc = "deliver" /\ t \in Task
         /\ task[t].phase = "Completed" /\ task'[t].phase = "Done"
         /\ \A u \in Task \ {t} : task'[u] = task[u]
         /\ worker'[w].pc = "idle" /\ worker'[w].task = NoTask
         /\ \A v \in Worker \ {w} : worker'[v] = worker[v]
         /\ UNCHANGED <<expert, queue, pending, stopping>>
<1>1. worker[w].pc = "deliver" /\ worker[w].task \in Task
  BY BusyHasTask DEF Deliver, Busy, WorkerPc
<1>2. task[worker[w].task].phase = "Completed"
  BY <1>1 DEF TaskLedger, StartedIsOwnedOnce
<1> QED BY <1>1, <1>2 DEF Deliver, TypeOK, IdleTask, IdleWorker

\* What an idle worker that finds no task does to the ledger.
LEMMA IdleEffect ==
  ASSUME TypeOK, NEW w \in Worker, DrainStale(w) \/ Exit(w)
  PROVE  /\ worker[w].pc = "idle" /\ worker[w].task = NoTask
         /\ worker'[w].pc \in {"idle", "exited"} /\ worker'[w].task = NoTask
         /\ worker'[w].pc = "exited" => stopping
         /\ \A v \in Worker \ {w} : worker'[v] = worker[v]
         /\ \A q \in queue : ~Current(q)
         /\ queue' = {}
         /\ UNCHANGED <<expert, task, pending, stopping>>
<1>1. worker[w] = IdleWorker
  BY DEF DrainStale, Exit, TypeOK, WorkerType, IdleWorker, ExitedWorker, WorkerPc
<1>2. \/ worker' = [worker EXCEPT ![w] = ExitedWorker] /\ stopping
      \/ worker' = worker
  BY <1>1 DEF DrainStale, Exit, TypeOK
<1> QED BY <1>1, <1>2 DEF DrainStale, Exit, TypeOK, IdleWorker, ExitedWorker
\* Every step keeps pendingByExpert_ and the unfinished tasks in step.
LEMMA NextPending ==
  ASSUME TypeOK, TypeOK', TaskLedger, [Next]_vars
  PROVE  PendingIsOneTask'
<1> USE DEF TaskLedger, PendingIsOneTask, Unfinished
<1>1. CASE Quiet
  BY <1>1 DEF Quiet, SameWork, TypeOK
<1>2. ASSUME NEW w \in Worker, Moves(w) PROVE PendingIsOneTask'
  BY <1>2 DEF Moves
<1>3. ASSUME NEW r \in Request, Raise(r) PROVE PendingIsOneTask'
  BY <1>3, RaiseEffect DEF TypeOK
<1>4. ASSUME NEW r \in Request, NEW t \in Task, ScheduleNew(r, t)
      PROVE  PendingIsOneTask'
  <2>1. NewTask(r).expert = r.expert /\ NewTask(r).phase = "Waiting"
    BY DEF NewTask
  <2> QED BY <1>4, <2>1, NewEffect, BoundAssumption DEF TypeOK
<1>5. ASSUME NEW w \in Worker, Dequeue(w) PROVE PendingIsOneTask'
  <2>1. PICK t \in Task : /\ task[t].phase = "Waiting"
                          /\ task'[t].phase = "Started"
                          /\ task'[t].expert = task[t].expert
                          /\ \A u \in Task \ {t} : task'[u] = task[u]
                          /\ UNCHANGED pending
    BY <1>5, DequeueEffect DEF Current
  <2> QED BY <2>1 DEF TypeOK
<1>6. ASSUME NEW w \in Worker, DrainStale(w) \/ Exit(w) PROVE PendingIsOneTask'
  BY <1>6, IdleEffect
<1>7. ASSUME NEW w \in Worker, Complete(w) PROVE PendingIsOneTask'
  BY <1>7, CompleteEffect, BoundAssumption DEF TypeOK
<1>8. ASSUME NEW w \in Worker, Deliver(w) PROVE PendingIsOneTask'
  BY <1>8, DeliverEffect DEF TypeOK
<1> QED BY <1>1, <1>2, <1>3, <1>4, <1>5, <1>6, <1>7, <1>8, StepKinds

\* Every step keeps each waiting task queued once, under its own rank.
LEMMA NextQueued ==
  ASSUME TypeOK, TypeOK', TaskLedger, [Next]_vars
  PROVE  WaitingIsQueuedOnce'
<1> USE DEF TaskLedger, WaitingIsQueuedOnce
<1>0. \A q \in queue : q.task \in Task /\ q.gen \in Nat
  BY DEF TypeOK, EntryType
<1>1. CASE Quiet
  BY <1>0, <1>1 DEF Quiet, SameWork
<1>2. ASSUME NEW w \in Worker, Moves(w) PROVE WaitingIsQueuedOnce'
  BY <1>2 DEF Moves
<1>3. ASSUME NEW r \in Request, Raise(r) PROVE WaitingIsQueuedOnce'
  <2> DEFINE t == pending[r.expert]
             x == task'[t]
             new == Entry(t, x.prio, x.score, x.gen)
  <2>1. /\ t \in Task /\ task[t].phase = "Waiting" /\ x.phase = "Waiting"
        /\ x.gen = task[t].gen + 1
        /\ \A u \in Task \ {t} : task'[u] = task[u]
        /\ queue' = queue \cup {new}
    BY <1>3, RaiseEffect
  <2>2. new.task = t /\ new.prio = x.prio /\ new.score = x.score
        /\ new.gen = x.gen
    BY DEF Entry
  <2>3. task[t].gen \in Nat
    BY <2>1 DEF TypeOK, TaskType
  <2>4. \A q \in queue : q.task = t => q.gen < x.gen
    BY <1>0, <2>1, <2>3
  <2> HIDE DEF t, x, new
  <2>5. \A u \in Task : task'[u].phase = "Waiting" =>
          \E q \in queue' : /\ q.task = u /\ q.gen = task'[u].gen
                            /\ q.prio = task'[u].prio /\ q.score = task'[u].score
    <3> SUFFICES ASSUME NEW u \in Task, task'[u].phase = "Waiting"
                 PROVE  \E q \in queue' :
                          /\ q.task = u /\ q.gen = task'[u].gen
                          /\ q.prio = task'[u].prio /\ q.score = task'[u].score
      OBVIOUS
    <3>1. CASE u = t
      BY <2>1, <2>2, <3>1 DEF x
    <3>2. CASE u # t
      BY <2>1, <3>2
    <3> QED BY <3>1, <3>2
  <2>6. \A q \in queue' : task'[q.task].phase = "Waiting" => q.gen <= task'[q.task].gen
    <3> SUFFICES ASSUME NEW q \in queue', task'[q.task].phase = "Waiting"
                 PROVE  q.gen <= task'[q.task].gen
      OBVIOUS
    <3>1. CASE q = new
      BY <2>1, <2>2, <2>3, <3>1 DEF x
    <3>2. CASE q \in queue /\ q.task = t
      BY <1>0, <2>1, <2>3, <2>4, <3>2 DEF x
    <3>3. CASE q \in queue /\ q.task # t
      BY <1>0, <2>1, <3>3
    <3> QED BY <2>1, <3>1, <3>2, <3>3
  <2>7. \A p, q \in queue' : p.task = q.task /\ p.gen = q.gen => p = q
    BY <1>0, <2>1, <2>2, <2>3, <2>4
  <2> QED BY <2>5, <2>6, <2>7
<1>4. ASSUME NEW r \in Request, NEW t \in Task, ScheduleNew(r, t)
      PROVE  WaitingIsQueuedOnce'
  <2> DEFINE new == Entry(t, r.prio, r.score, 0)
  <2>1. new.task = t /\ new.prio = r.prio /\ new.score = r.score /\ new.gen = 0
    BY DEF Entry
  <2>2. /\ NewTask(r).prio = r.prio /\ NewTask(r).score = r.score
        /\ NewTask(r).gen = 0
    BY DEF NewTask
  <2>3. /\ \A q \in queue : q.task # t
        /\ task'[t] = NewTask(r)
        /\ \A u \in Task \ {t} : task'[u] = task[u]
        /\ queue' = queue \cup {new}
    BY <1>4, NewEffect DEF TypeOK
  <2> HIDE DEF new
  <2>4. \A u \in Task : task'[u].phase = "Waiting" =>
          \E q \in queue' : /\ q.task = u /\ q.gen = task'[u].gen
                            /\ q.prio = task'[u].prio /\ q.score = task'[u].score
    BY <2>1, <2>2, <2>3
  <2>5. \A q \in queue' : task'[q.task].phase = "Waiting" => q.gen <= task'[q.task].gen
    BY <1>0, <2>1, <2>2, <2>3
  <2>6. \A p, q \in queue' : p.task = q.task /\ p.gen = q.gen => p = q
    BY <2>1, <2>3
  <2> QED BY <2>4, <2>5, <2>6
<1>5. ASSUME NEW w \in Worker, Dequeue(w) PROVE WaitingIsQueuedOnce'
  <2>1. PICK q \in queue :
          /\ q.task \in Task /\ Current(q)
          /\ \A o \in queue \ {q} : Current(o) => HigherPriority(q, o)
          /\ queue' = {o \in queue : HigherPriority(q, o)}
          /\ task'[q.task].phase = "Started"
          /\ \A u \in Task \ {q.task} : task'[u] = task[u]
    BY <1>5, DequeueEffect
  <2>2. \A u \in Task : task'[u].phase = "Waiting" =>
          \E o \in queue' : /\ o.task = u /\ o.gen = task'[u].gen
                            /\ o.prio = task'[u].prio /\ o.score = task'[u].score
    BY <2>1 DEF Current
  <2>3. \A o \in queue' : task'[o.task].phase = "Waiting" => o.gen <= task'[o.task].gen
    BY <1>0, <2>1
  <2>4. \A o, p \in queue' : o.task = p.task /\ o.gen = p.gen => o = p
    BY <2>1
  <2> QED BY <2>2, <2>3, <2>4
<1>6. ASSUME NEW w \in Worker, DrainStale(w) \/ Exit(w) PROVE WaitingIsQueuedOnce'
  BY <1>6, IdleEffect DEF Current
<1>7. ASSUME NEW w \in Worker, Complete(w) PROVE WaitingIsQueuedOnce'
  BY <1>0, <1>7, CompleteEffect
<1>8. ASSUME NEW w \in Worker, Deliver(w) PROVE WaitingIsQueuedOnce'
  BY <1>0, <1>8, DeliverEffect
<1> QED BY <1>1, <1>2, <1>3, <1>4, <1>5, <1>6, <1>7, <1>8, StepKinds

\* Every step keeps each started task with one worker.
LEMMA NextOwned ==
  ASSUME TypeOK, TypeOK', TaskLedger, [Next]_vars
  PROVE  StartedIsOwnedOnce'
<1> USE DEF TaskLedger, StartedIsOwnedOnce, Holds
<1>0. \A w \in Worker : IF worker[w].pc \in {"idle", "exited"}
                          THEN worker[w].task = NoTask
                          ELSE worker[w].task \in Task
  BY DEF TypeOK, WorkerType, IdleWorker, ExitedWorker
<1>1. CASE Quiet
  BY <1>0, <1>1 DEF Quiet, SameWork
<1>2. ASSUME NEW w \in Worker, Moves(w) PROVE StartedIsOwnedOnce'
  <2>1. /\ worker[w].pc \notin {"idle", "exited", "deliver"}
        /\ worker'[w].pc \notin {"idle", "exited", "deliver"}
    BY <1>2 DEF Moves, Stage
  <2> QED BY <1>2, <2>1 DEF Moves
<1>3. ASSUME NEW r \in Request, Raise(r) PROVE StartedIsOwnedOnce'
  BY <1>0, <1>3, RaiseEffect
<1>4. ASSUME NEW r \in Request, NEW t \in Task, ScheduleNew(r, t)
      PROVE  StartedIsOwnedOnce'
  <2>1. NewTask(r).phase = "Waiting"
    BY DEF NewTask
  <2>2. \A u \in Task \ {t} : task'[u] = task[u]
    BY <1>4, NewEffect DEF TypeOK
  <2> QED BY <1>0, <1>4, <2>1, <2>2, NewEffect
<1>5. ASSUME NEW w \in Worker, Dequeue(w) PROVE StartedIsOwnedOnce'
  <2>1. PICK t \in Task :
          /\ task[t].phase = "Waiting" /\ task'[t].phase = "Started"
          /\ \A u \in Task \ {t} : task'[u] = task[u]
          /\ worker[w].pc = "idle" /\ worker[w].task = NoTask
          /\ worker'[w].pc = "begin" /\ worker'[w].task = t
          /\ \A v \in Worker \ {w} : worker'[v] = worker[v]
    BY <1>5, DequeueEffect DEF Current
  <2>2. \A v \in Worker : worker[v].task # t
    BY <1>0, <2>1, BoundAssumption
  <2> QED BY <1>0, <2>1, <2>2, BoundAssumption
<1>6. ASSUME NEW w \in Worker, DrainStale(w) \/ Exit(w) PROVE StartedIsOwnedOnce'
  BY <1>0, <1>6, IdleEffect, BoundAssumption
<1>7. ASSUME NEW w \in Worker, Complete(w) PROVE StartedIsOwnedOnce'
  BY <1>0, <1>7, CompleteEffect, BoundAssumption
<1>8. ASSUME NEW w \in Worker, Deliver(w) PROVE StartedIsOwnedOnce'
  BY <1>0, <1>8, DeliverEffect, BoundAssumption
<1> QED BY <1>1, <1>2, <1>3, <1>4, <1>5, <1>6, <1>7, <1>8, StepKinds

\* Every step keeps exited workers behind an empty queue.
LEMMA NextDrained ==
  ASSUME TypeOK, TaskLedger, ExitedIsDrained, [Next]_vars
  PROVE  ExitedIsDrained'
<1> USE DEF ExitedIsDrained
<1>0. stopping => stopping'
  BY DEF Next, WorkerStep, CallerStep, Schedule, Stopped, vars, ScheduleReady,
     ScheduleCoalesce, ScheduleNew, ScheduleReject, ReadyLookup, ReadySnapshot,
     Cancel, Acquire, Release, Register, AcknowledgeResidency,
     ReconcileResidency, ExpirePrefetchesBefore, Shutdown, Dequeue, DrainStale,
     Exit, BeginCancelled, BeginTransfer, TransferCompleted, TransferLost,
     RecordResidency, MarkFailed, Complete, Deliver
<1>1. CASE Quiet
  BY <1>0, <1>1 DEF Quiet
<1>2. ASSUME NEW w \in Worker, Moves(w) PROVE ExitedIsDrained'
  BY <1>0, <1>2 DEF Moves, Stage
<1>3. ASSUME NEW r \in Request, Raise(r) PROVE ExitedIsDrained'
  BY <1>3, RaiseEffect
<1>4. ASSUME NEW r \in Request, NEW t \in Task, ScheduleNew(r, t)
      PROVE  ExitedIsDrained'
  BY <1>4, NewEffect
<1>5. ASSUME NEW w \in Worker, Dequeue(w) PROVE ExitedIsDrained'
  BY <1>5, DequeueEffect
<1>6. ASSUME NEW w \in Worker, DrainStale(w) \/ Exit(w) PROVE ExitedIsDrained'
  BY <1>6, IdleEffect
<1>7. ASSUME NEW w \in Worker, Complete(w) PROVE ExitedIsDrained'
  BY <1>7, CompleteEffect
<1>8. ASSUME NEW w \in Worker, Deliver(w) PROVE ExitedIsDrained'
  BY <1>8, DeliverEffect
<1> QED BY <1>1, <1>2, <1>3, <1>4, <1>5, <1>6, <1>7, <1>8, StepKinds
-----------------------------------------------------------------------------
(* Lifecycle and work. *)

Transit == {"Requested", "Queued", "Loading", "Evicting"}
Settled == {"Ready", "InUse", "Failed"}

\* No expert in transition is touched, and none is put in transition.
Calm ==
  \A e \in Expert : \/ expert'[e].state = expert[e].state
                    \/ expert[e].state \notin Transit /\ expert'[e].state \in Settled

\* Workers on different tasks, and a worker and a waiting task, are about
\* different experts.
LEMMA DistinctExperts ==
  ASSUME TaskLedger, NEW t \in Task, NEW u \in Task, Unfinished(t),
         Unfinished(u), task[t].expert = task[u].expert
  PROVE  t = u
BY DEF TaskLedger, PendingIsOneTask

\* A worker from begin to resolve has an unfinished task.
LEMMA StageIsUnfinished ==
  ASSUME TypeOK, TaskLedger, NEW w \in Worker, worker[w].pc \in Stage
  PROVE  /\ worker[w].task \in Task /\ Unfinished(worker[w].task)
         /\ task[worker[w].task].expert \in Expert
<1>1. worker[w].pc \in Busy /\ worker[w].pc # "deliver"
  BY DEF Stage, Busy, WorkerPc
<1>2. worker[w].task \in Task
  BY <1>1, BusyHasTask
<1>3. task[worker[w].task].phase = "Started"
  BY <1>1 DEF TaskLedger, StartedIsOwnedOnce, Busy
<1> QED BY <1>2, <1>3 DEF TaskLedger, PendingIsOneTask, Unfinished

\* A quiet step that is calm about the experts keeps the agreement.
LEMMA QuietLifecycle ==
  ASSUME TypeOK, TaskLedger, LifecycleMatchesWork, Quiet, Calm
  PROVE  LifecycleMatchesWork'
<1> USE DEF LifecycleMatchesWork
<1>1. \A t \in Task : task'[t].phase = "Waiting" =>
        expert'[task'[t].expert].state =
          IF task'[t].evict THEN "Evicting" ELSE "Queued"
  BY DEF Quiet, SameWork, Calm, Transit, TaskLedger, PendingIsOneTask, Unfinished
<1>2. \A w \in Worker : worker'[w].pc \in {"begin", "transfer"} =>
        expert'[task'[worker'[w].task].expert].state =
          IF task'[worker'[w].task].evict THEN "Evicting"
          ELSE IF worker'[w].pc = "begin" THEN "Queued" ELSE "Loading"
  BY StageIsUnfinished DEF Stage, Quiet, SameWork, Calm, Transit
<1>3. \A w \in Worker : worker'[w].pc \in {"record", "resolve"} =>
        expert'[task'[worker'[w].task].expert].state \in {"Ready", "InUse", "Failed"}
  BY StageIsUnfinished DEF Stage, Quiet, SameWork, Calm, Settled
<1>4. \A e \in Expert :
        /\ expert'[e].state # "Requested"
        /\ expert'[e].state \in {"Queued", "Loading", "Evicting"} => pending'[e] # NoTask
  BY DEF Quiet, Calm, Settled
<1> QED BY <1>1, <1>2, <1>3, <1>4

\* What reconciling to NVMe a set of reconcilable experts does is calm.
LEMMA ReconcileIsCalm ==
  ASSUME TypeOK, LifecycleMatchesWork, NEW keys,
         \A e \in keys : CanReconcile(expert[e]),
         expert' = ReconciledToNvme(keys)
  PROVE  Calm
<1> SUFFICES ASSUME NEW e \in Expert
             PROVE  \/ expert'[e].state = expert[e].state
                    \/ expert[e].state \notin Transit /\ expert'[e].state \in Settled
  BY DEF Calm
<1>1. expert[e] \in ExpertRecord
  BY DEF TypeOK
<1>2. CASE e \in keys
  <2>1. expert[e].state \notin Transit
    BY <1>2 DEF CanReconcile, Transit, LifecycleMatchesWork
  <2>2. expert'[e].state = "Ready"
    BY <1>1, <1>2 DEF ReconciledToNvme, ReconcileOf, ExpertRecord
  <2> QED BY <2>1, <2>2 DEF Settled
<1>3. CASE e \notin keys
  BY <1>3 DEF ReconciledToNvme
<1> QED BY <1>2, <1>3

\* A step that settles or advances the expert of worker w, and no other, keeps
\* the agreement when the new state fits w's new place.
LEMMA WorkerLifecycle ==
  ASSUME TypeOK, TaskLedger, LifecycleMatchesWork, NEW w \in Worker, Moves(w),
         NEW e, e = task[worker[w].task].expert,
         \A d \in Expert \ {e} : expert'[d].state = expert[d].state,
         expert'[e].state # "Requested",
         worker'[w].pc \in {"begin", "transfer"} =>
           expert'[e].state = IF task[worker[w].task].evict THEN "Evicting"
                              ELSE IF worker'[w].pc = "begin" THEN "Queued" ELSE "Loading",
         worker'[w].pc \in {"record", "resolve"} => expert'[e].state \in Settled
  PROVE  LifecycleMatchesWork'
<1> USE DEF LifecycleMatchesWork
<1>1. /\ worker[w].task \in Task /\ Unfinished(worker[w].task) /\ e \in Expert
      /\ worker'[w].task = worker[w].task
      /\ \A v \in Worker \ {w} : worker'[v] = worker[v]
      /\ UNCHANGED <<task, queue, pending>>
  BY StageIsUnfinished DEF Moves
<1>2. task[worker[w].task].phase # "Waiting"
  BY DEF TaskLedger, StartedIsOwnedOnce, Moves, Stage
<1>3. \A t \in Task : task'[t].phase = "Waiting" =>
        expert'[task'[t].expert].state =
          IF task'[t].evict THEN "Evicting" ELSE "Queued"
  <2> SUFFICES ASSUME NEW t \in Task, task[t].phase = "Waiting"
               PROVE  expert'[task[t].expert].state =
                        IF task[t].evict THEN "Evicting" ELSE "Queued"
    BY <1>1
  <2>1. task[t].expert \in Expert \ {e}
    BY <1>1, <1>2, DistinctExperts DEF Unfinished, TaskLedger, PendingIsOneTask
  <2> QED BY <2>1
<1>4. ASSUME NEW v \in Worker \ {w}, worker[v].pc \in Stage
      PROVE  task[worker[v].task].expert \in Expert \ {e}
  <2>1. worker[v].task \in Task /\ Unfinished(worker[v].task)
        /\ task[worker[v].task].expert \in Expert
    BY <1>4, StageIsUnfinished
  <2>2. worker[v].task # worker[w].task
    BY <1>1, <2>1, BoundAssumption DEF TaskLedger, StartedIsOwnedOnce
  <2> QED BY <1>1, <2>1, <2>2, DistinctExperts
<1>5. \A v \in Worker : worker'[v].pc \in {"begin", "transfer"} =>
        expert'[task'[worker'[v].task].expert].state =
          IF task'[worker'[v].task].evict THEN "Evicting"
          ELSE IF worker'[v].pc = "begin" THEN "Queued" ELSE "Loading"
  BY <1>1, <1>4 DEF Stage
<1>6. \A v \in Worker : worker'[v].pc \in {"record", "resolve"} =>
        expert'[task'[worker'[v].task].expert].state \in {"Ready", "InUse", "Failed"}
  BY <1>1, <1>4 DEF Stage, Settled
<1>7. pending[e] # NoTask
  BY <1>1, BoundAssumption DEF TaskLedger, PendingIsOneTask
<1>8. \A d \in Expert :
        /\ expert'[d].state # "Requested"
        /\ expert'[d].state \in {"Queued", "Loading", "Evicting"} => pending'[d] # NoTask
  BY <1>1, <1>7
<1> QED BY <1>3, <1>5, <1>6, <1>8
\* Every step keeps lifecycle and work in agreement.
LEMMA NextLifecycle ==
  ASSUME TypeOK, TypeOK', TaskLedger, LifecycleMatchesWork, [Next]_vars
  PROVE  LifecycleMatchesWork'
<1>0. \A e \in Expert : expert[e] \in ExpertRecord
  BY DEF TypeOK
<1>1. ASSUME Quiet, UNCHANGED expert PROVE LifecycleMatchesWork'
  BY <1>1, QuietLifecycle DEF Calm
<1>2. ASSUME NEW c \in Client, NEW r \in Request, ScheduleReady(c, r)
      PROVE  LifecycleMatchesWork'
  BY <1>1, <1>2 DEF ScheduleReady, Quiet, SameWork
<1>3. ASSUME NEW r \in Request, ScheduleCoalesce(r)
      PROVE  LifecycleMatchesWork'
  <2>1. CASE Raise(r)
    <3> DEFINE t == pending[r.expert]
    <3>1. /\ t \in Task /\ task[t].phase = "Waiting" /\ task'[t].phase = "Waiting"
          /\ task'[t].expert = task[t].expert /\ task'[t].evict = task[t].evict
          /\ \A u \in Task \ {t} : task'[u] = task[u]
          /\ UNCHANGED <<expert, pending, worker>>
      BY <2>1, RaiseEffect
    <3> HIDE DEF t
    <3>2. \A w \in Worker : worker[w].pc \in Stage =>
             task[worker[w].task].phase = "Started" /\ worker[w].task \in Task
      BY StageIsUnfinished DEF TaskLedger, StartedIsOwnedOnce, Stage
    <3>3. \A w \in Worker : worker[w].pc \in Stage =>
             task'[worker[w].task] = task[worker[w].task]
      BY <3>1, <3>2
    <3> QED BY <3>1, <3>3 DEF LifecycleMatchesWork, Stage
  <2>2. CASE ~Raise(r)
    <3>1. UNCHANGED expert
      BY <1>3 DEF ScheduleCoalesce
    <3>2. pending[r.expert] \in Task /\ task[pending[r.expert]] \in TaskType
      BY <1>3, InputAssumption DEF ScheduleCoalesce, TypeOK, RequestType
    <3>3. SameWork(task[pending[r.expert]], Joined(r, task[pending[r.expert]]))
      BY <3>2 DEF SameWork, Joined, TaskType
    <3>4. /\ task' = [task EXCEPT ![pending[r.expert]] = Joined(r, @)]
          /\ UNCHANGED <<queue, pending, worker>>
      BY <1>3, <2>2 DEF ScheduleCoalesce, Raise
    <3>5. \A t \in Task : SameWork(task[t], task'[t])
      BY <3>2, <3>3, <3>4 DEF TypeOK, SameWork
    <3> QED BY <1>1, <3>1, <3>4, <3>5 DEF Quiet
  <2> QED BY <2>1, <2>2
<1>4. ASSUME NEW r \in Request, NEW t \in Task, ScheduleNew(r, t)
      PROVE  LifecycleMatchesWork'
  <2> DEFINE e == r.expert
  <2>1. /\ e \in Expert /\ pending[e] = NoTask
        /\ task[t].phase = "Done"
        /\ task'[t] = NewTask(r) /\ \A u \in Task \ {t} : task'[u] = task[u]
        /\ pending' = [pending EXCEPT ![e] = t]
        /\ UNCHANGED worker
    BY <1>4, NewEffect DEF TypeOK
  <2>2. NewTask(r).expert = e /\ NewTask(r).evict = r.evict
    BY DEF NewTask
  <2>3. /\ expert'[e].state = IF r.evict THEN "Evicting" ELSE "Queued"
        /\ \A d \in Expert \ {e} : expert'[d] = expert[d]
    BY <1>0, <1>4, <2>1 DEF ScheduleNew, BeginEvictionOf, MarkQueuedOf, RequestOf,
       ExpertRecord, TypeOK
  <2> HIDE DEF e
  <2>4. \A u \in Task : Unfinished(u) => task[u].expert \in Expert \ {e}
    BY <2>1, BoundAssumption DEF TaskLedger, PendingIsOneTask
  <2>5. \A w \in Worker : worker[w].pc \in Stage =>
          /\ task'[worker[w].task] = task[worker[w].task]
          /\ task[worker[w].task].expert \in Expert \ {e}
    <3> SUFFICES ASSUME NEW w \in Worker, worker[w].pc \in Stage
                 PROVE  /\ task'[worker[w].task] = task[worker[w].task]
                        /\ task[worker[w].task].expert \in Expert \ {e}
      OBVIOUS
    <3>1. worker[w].task \in Task /\ Unfinished(worker[w].task)
      BY StageIsUnfinished
    <3> QED BY <2>1, <2>4, <3>1 DEF Unfinished
  <2>6. \A u \in Task : task'[u].phase = "Waiting" =>
          expert'[task'[u].expert].state =
            IF task'[u].evict THEN "Evicting" ELSE "Queued"
    BY <2>1, <2>2, <2>3, <2>4 DEF LifecycleMatchesWork, Unfinished
  <2>7. \A d \in Expert :
          /\ expert'[d].state # "Requested"
          /\ expert'[d].state \in {"Queued", "Loading", "Evicting"} => pending'[d] # NoTask
    BY <2>1, <2>3, BoundAssumption DEF LifecycleMatchesWork, TypeOK
  <2> QED BY <2>1, <2>3, <2>5, <2>6, <2>7 DEF LifecycleMatchesWork, Stage
<1>5. ASSUME NEW r \in Request, ScheduleReject(r)
      PROVE  LifecycleMatchesWork'
  <2>1. \A t \in Task : SameWork(task[t], task'[t])
    BY <1>5 DEF ScheduleReject, SameWork, TypeOK, TaskType
  <2> QED BY <1>1, <1>5, <2>1 DEF Quiet, ScheduleReject
<1>6. ASSUME NEW c \in Client, ReadyLookup(c) \/ ReadySnapshot(c)
      PROVE  LifecycleMatchesWork'
  BY <1>1, <1>6 DEF Quiet, SameWork, ReadyLookup, ReadySnapshot
<1>7. ASSUME (\E t \in Task : Cancel(t)) \/ Shutdown
      PROVE  LifecycleMatchesWork'
  <2>1. Quiet
    BY <1>7 DEF Quiet, SameWork, Cancel, Shutdown, TypeOK, TaskType
  <2> QED BY <1>1, <1>7, <2>1 DEF Cancel, Shutdown
<1>8. ASSUME NEW e \in Expert, Acquire(e) \/ Release(e)
      PROVE  LifecycleMatchesWork'
  <2>1. Quiet
    BY <1>8 DEF Quiet, SameWork, Acquire, Release
  <2>2. Calm
    BY <1>0, <1>8 DEF Calm, Transit, Settled, Acquire, Release, CanAcquire,
       CanRelease, AcquireOf, ReleaseOf, TypeOK, ExpertRecord
  <2> QED BY <2>1, <2>2, QuietLifecycle
<1>9. ASSUME NEW e \in Expert, NEW l \in Location,
             Register(e, l) \/ AcknowledgeResidency(e, l) \/ ReconcileResidency(e, l)
      PROVE  LifecycleMatchesWork'
  <2>1. Quiet
    BY <1>9 DEF Quiet, SameWork, Register, AcknowledgeResidency, ReconcileResidency
  <2>2. ReconcileOf(expert[e], l).state = "Ready" /\ RegisteredAt(l).state = "Ready"
    BY <1>0 DEF ReconcileOf, RegisteredAt, ExpertRecord
  <2>3. \/ UNCHANGED expert
        \/ /\ expert[e].state \notin Transit
           /\ \/ expert' = [expert EXCEPT ![e] = RegisteredAt(l)]
              \/ expert' = [expert EXCEPT ![e] = ReconcileOf(expert[e], l)]
    BY <1>9 DEF Register, AcknowledgeResidency, ReconcileResidency, CanReconcile,
       IsRegistered, Transit, LifecycleMatchesWork
  <2>4. Calm
    BY <2>2, <2>3 DEF Calm, Settled, TypeOK
  <2> QED BY <2>1, <2>4, QuietLifecycle
<1>10. ASSUME NEW l, ExpirePrefetchesBefore(l)
       PROVE  LifecycleMatchesWork'
  <2>1. Quiet
    BY <1>10 DEF Quiet, SameWork, ExpirePrefetchesBefore
  <2>2. PICK done : /\ \A e \in done : CanReconcile(expert[e])
                    /\ expert' = ReconciledToNvme(done)
    BY <1>10 DEF ExpirePrefetchesBefore
  <2>3. Calm
    BY <2>2, ReconcileIsCalm
  <2> QED BY <2>1, <2>3, QuietLifecycle
<1>11. ASSUME NEW w \in Worker, Dequeue(w) PROVE LifecycleMatchesWork'
  <2>1. PICK t \in Task :
          /\ task[t].phase = "Waiting" /\ task'[t].phase = "Started"
          /\ task'[t].expert = task[t].expert /\ task'[t].evict = task[t].evict
          /\ \A u \in Task \ {t} : task'[u] = task[u]
          /\ worker'[w].pc = "begin" /\ worker'[w].task = t
          /\ \A v \in Worker \ {w} : worker'[v] = worker[v]
          /\ UNCHANGED <<expert, pending>>
    BY <1>11, DequeueEffect DEF Current
  <2>2. \A v \in Worker : worker[v].pc \in Stage =>
          task'[worker[v].task] = task[worker[v].task]
    <3> SUFFICES ASSUME NEW v \in Worker, worker[v].pc \in Stage
                 PROVE  task'[worker[v].task] = task[worker[v].task]
      OBVIOUS
    <3>1. worker[v].task \in Task /\ task[worker[v].task].phase = "Started"
      BY StageIsUnfinished DEF TaskLedger, StartedIsOwnedOnce, Stage
    <3> QED BY <2>1, <3>1
  <2> QED BY <2>1, <2>2 DEF LifecycleMatchesWork, Stage
<1>12. ASSUME NEW w \in Worker, DrainStale(w) \/ Exit(w) PROVE LifecycleMatchesWork'
  BY <1>12, IdleEffect DEF LifecycleMatchesWork
<1>13. ASSUME NEW w \in Worker, BeginCancelled(w) \/ TransferLost(w)
       PROVE  LifecycleMatchesWork'
  <2>1. /\ Moves(w) /\ worker'[w].pc = "fail" /\ UNCHANGED expert
    <3>1. worker[w].pc \in Busy /\ worker[w].pc \in Stage
          /\ \E o \in Outcome : To(w, "fail", o)
      BY <1>13 DEF BeginCancelled, TransferLost, Busy, Stage, WorkerPc, Outcome
    <3>2. PICK o \in Outcome : To(w, "fail", o)
      BY <3>1
    <3>3. /\ worker'[w] = [pc |-> "fail", task |-> worker[w].task, outcome |-> o]
          /\ \A v \in Worker \ {w} : worker'[v] = worker[v]
      BY <3>1, <3>2, WorkerMoves DEF Busy, WorkerPc
    <3> QED BY <1>13, <3>1, <3>3 DEF Moves, Stage, BeginCancelled, TransferLost
  <2>2. task[worker[w].task].expert \in Expert
    BY <2>1, StageIsUnfinished DEF Moves
  <2>3. expert[task[worker[w].task].expert].state # "Requested"
    BY <2>2 DEF LifecycleMatchesWork
  <2> QED BY <2>1, <2>3, WorkerLifecycle
<1>14. ASSUME NEW w \in Worker, BeginTransfer(w) \/ TransferCompleted(w) \/ MarkFailed(w)
       PROVE  LifecycleMatchesWork'
  <2> DEFINE x == task[worker[w].task]
  <2>1. worker[w].pc \in Stage /\ worker[w].pc \in Busy
    BY <1>14 DEF BeginTransfer, TransferCompleted, MarkFailed, Stage, Busy, WorkerPc
  <2>2. x.expert \in Expert /\ expert[x.expert] \in ExpertRecord
        /\ worker[w].outcome \in Outcome
    BY <1>0, <2>1, StageIsUnfinished, BusyHasTask
  <2>3. \/ To(w, "transfer", "Unknown") /\ worker[w].pc = "begin" /\ BeginTransfer(w)
        \/ To(w, "record", "Unknown") /\ TransferCompleted(w) /\ CanMarkReady(expert[x.expert])
        \/ To(w, "fail", "Error") /\ UNCHANGED expert /\ TransferCompleted(w)
        \/ To(w, "resolve", worker[w].outcome) /\ MarkFailed(w)
    BY <1>14 DEF BeginTransfer, TransferCompleted, MarkFailed
  <2>4. PICK pc \in Stage, o \in Outcome : To(w, pc, o)
    BY <2>2, <2>3 DEF Stage, Outcome
  <2>5. /\ worker'[w] = [pc |-> pc, task |-> worker[w].task, outcome |-> o]
        /\ \A v \in Worker \ {w} : worker'[v] = worker[v]
    BY <2>1, <2>4, WorkerMoves DEF Stage, Busy, WorkerPc
  <2>10. ASSUME NEW p \in Busy, NEW q \in Outcome, To(w, p, q)
         PROVE  worker'[w].pc = p
    <3>1. worker'[w] = [pc |-> p, task |-> worker[w].task, outcome |-> q]
      BY <2>1, <2>10, WorkerMoves
    <3> QED BY <3>1
  <2>6. Moves(w)
    BY <1>14, <2>1, <2>5 DEF Moves, BeginTransfer, TransferCompleted, MarkFailed
  <2>7. \A d \in Expert \ {x.expert} : expert'[d].state = expert[d].state
    BY <1>14, <2>2 DEF BeginTransfer, TransferCompleted, MarkFailed, TypeOK
  <2>8. CASE BeginTransfer(w)
    <3>1. worker'[w].pc = "transfer"
      BY <2>8, <2>10 DEF BeginTransfer, Busy, WorkerPc, Outcome
    <3>2. expert'[x.expert].state = IF x.evict THEN "Evicting" ELSE "Loading"
      BY <2>2, <2>8 DEF BeginTransfer, MarkLoadingOf, LifecycleMatchesWork,
         ExpertRecord, TypeOK
    <3> HIDE DEF x
    <3>3. /\ expert'[x.expert].state # "Requested"
          /\ worker'[w].pc \notin {"record", "resolve", "begin"}
      BY <3>1, <3>2
    <3> QED BY <2>6, <2>7, <3>1, <3>2, <3>3, WorkerLifecycle DEF x
  <2>9. CASE TransferCompleted(w) \/ MarkFailed(w)
    <3>1. worker'[w].pc \in {"record", "fail", "resolve"}
      <4>1. CASE TransferCompleted(w)
        BY <2>10, <4>1 DEF TransferCompleted, Busy, WorkerPc, Outcome
      <4>2. CASE MarkFailed(w)
        BY <2>2, <2>10, <4>2 DEF MarkFailed, Busy, WorkerPc
      <4> QED BY <2>9, <4>1, <4>2
    <3>2. expert'[x.expert].state # "Requested"
          /\ (worker'[w].pc \in {"record", "resolve"} => expert'[x.expert].state \in Settled)
      <4>1. CASE TransferCompleted(w) /\ CanMarkReady(expert[x.expert])
        <5>1. MarkReadyOf(expert[x.expert], x.dest).state = "Ready"
          BY <2>2 DEF MarkReadyOf, ExpertRecord
        <5>2. expert' = [expert EXCEPT ![x.expert] =
                           MarkReadyOf(expert[x.expert], x.dest)]
          BY <4>1 DEF TransferCompleted
        <5> QED BY <2>2, <5>1, <5>2 DEF Settled, TypeOK
      <4>2. CASE TransferCompleted(w) /\ ~CanMarkReady(expert[x.expert])
        <5>1. worker'[w].pc = "fail" /\ UNCHANGED expert
          BY <2>10, <4>2 DEF TransferCompleted, Busy, WorkerPc, Outcome
        <5> QED BY <2>2, <5>1 DEF LifecycleMatchesWork
      <4>3. CASE MarkFailed(w)
        BY <2>2, <4>3 DEF MarkFailed, MarkFailedOf, ExpertRecord, TypeOK, Settled
      <4> QED BY <2>9, <4>1, <4>2, <4>3
    <3> QED BY <2>6, <2>7, <3>1, <3>2, WorkerLifecycle
  <2> QED BY <1>14, <2>8, <2>9
<1>15. ASSUME NEW w \in Worker, RecordResidency(w) PROVE LifecycleMatchesWork'
  <2> DEFINE x == task[worker[w].task]
  <2>1. worker[w].pc = "record"
    BY <1>15 DEF RecordResidency
  <2>2. /\ worker'[w].pc \in {"fail", "resolve"} /\ worker'[w].task = worker[w].task
        /\ \A v \in Worker \ {w} : worker'[v] = worker[v]
    <3>1. PICK pc \in {"fail", "resolve"}, o \in Outcome : To(w, pc, o)
      BY <1>15 DEF RecordResidency, Outcome
    <3>2. /\ worker'[w] = [pc |-> pc, task |-> worker[w].task, outcome |-> o]
          /\ \A v \in Worker \ {w} : worker'[v] = worker[v]
      BY <2>1, <3>1, WorkerMoves DEF Busy, WorkerPc
    <3> QED BY <3>2
  <2>3. UNCHANGED <<task, pending>>
    BY <1>15 DEF RecordResidency
  <2>4. Calm
    <3>1. CASE UNCHANGED expert
      BY <3>1 DEF Calm
    <3>2. CASE \E keys : /\ \A e \in keys : CanReconcile(expert[e])
                         /\ expert' = ReconciledToNvme(keys)
      BY <3>2, ReconcileIsCalm
    <3> QED BY <1>15, <3>1, <3>2 DEF RecordResidency
  <2>5. \A v \in Worker : worker[v].pc \in Stage =>
          task[worker[v].task].expert \in Expert
    BY StageIsUnfinished
  <2>6. \A t \in Task : task[t].phase = "Waiting" => task[t].expert \in Expert
    BY DEF TaskLedger, PendingIsOneTask, Unfinished
  <2> QED BY <2>1, <2>2, <2>3, <2>4, <2>5, <2>6
        DEF LifecycleMatchesWork, Calm, Transit, Settled, Stage
<1>16. ASSUME NEW w \in Worker, Complete(w) PROVE LifecycleMatchesWork'
  <2> DEFINE t == worker[w].task
             e == task[t].expert
  <2>1. /\ worker[w].pc = "resolve" /\ t \in Task /\ task[t].phase = "Started"
        /\ e \in Expert
        /\ task'[t].phase = "Completed"
        /\ \A u \in Task \ {t} : task'[u] = task[u]
        /\ pending' = [pending EXCEPT ![e] = NoTask]
        /\ worker'[w].pc = "deliver"
        /\ \A v \in Worker \ {w} : worker'[v] = worker[v]
        /\ UNCHANGED expert
    BY <1>16, CompleteEffect
  <2>2. expert[e].state \in Settled
    BY <2>1 DEF LifecycleMatchesWork, Settled
  <2> HIDE DEF e
  <2>3. \A v \in Worker \ {w} : worker[v].pc \in Stage =>
          worker[v].task \in Task \ {t}
    BY <2>1, StageIsUnfinished, BoundAssumption DEF TaskLedger, StartedIsOwnedOnce
  <2> HIDE DEF t
  <2> QED BY <2>1, <2>2, <2>3, SMTT(20) DEF LifecycleMatchesWork, Stage, Settled, TypeOK
<1>17. ASSUME NEW w \in Worker, Deliver(w) PROVE LifecycleMatchesWork'
  <2> DEFINE t == worker[w].task
  <2>1. /\ worker[w].pc = "deliver" /\ t \in Task /\ task'[t].phase = "Done"
        /\ \A u \in Task \ {t} : task'[u] = task[u]
        /\ worker'[w].pc = "idle"
        /\ \A v \in Worker \ {w} : worker'[v] = worker[v]
        /\ UNCHANGED <<expert, pending>>
    BY <1>17, DeliverEffect
  <2>2. \A v \in Worker \ {w} : worker[v].pc \in Stage =>
          worker[v].task \in Task \ {t}
    BY <2>1, StageIsUnfinished, BoundAssumption DEF TaskLedger, StartedIsOwnedOnce
  <2> HIDE DEF t
  <2> QED BY <2>1, <2>2 DEF LifecycleMatchesWork, Stage
<1>18. CASE UNCHANGED vars
  BY <1>18 DEF vars, LifecycleMatchesWork
<1> QED
  BY <1>2, <1>3, <1>4, <1>5, <1>6, <1>7, <1>8, <1>9, <1>10, <1>11, <1>12,
     <1>13, <1>14, <1>15, <1>16, <1>17, <1>18
     DEF Next, WorkerStep, CallerStep, Schedule, Stopped
-----------------------------------------------------------------------------
(* The theorems. *)

\* The inductive invariant.
IndInv == TypeOK /\ TaskLedger /\ LifecycleMatchesWork /\ ExitedIsDrained

\* It holds at the start: no task, no queue entry, every worker idle.
LEMMA InitIndInv == Init => IndInv
<1> SUFFICES ASSUME Init PROVE IndInv
  OBVIOUS
<1>1. TypeOK
  BY InitTypeOK
<1>2. /\ \A t \in Task : task[t].phase = "Done"
      /\ \A w \in Worker : worker[w].pc = "idle" /\ worker[w].task = NoTask
      /\ \A e \in Expert : pending[e] = NoTask /\ expert[e].state = "Unregistered"
      /\ queue = {}
  BY DEF Init, IdleTask, IdleWorker, UnregisteredExpert
<1>3. TaskLedger
  BY <1>2 DEF TaskLedger, PendingIsOneTask, WaitingIsQueuedOnce,
     StartedIsOwnedOnce, Unfinished
<1>4. LifecycleMatchesWork /\ ExitedIsDrained
  BY <1>2 DEF LifecycleMatchesWork, ExitedIsDrained
<1> QED BY <1>1, <1>3, <1>4 DEF IndInv

\* Every step keeps it.
LEMMA NextIndInv == IndInv /\ [Next]_vars => IndInv'
<1> SUFFICES ASSUME IndInv, [Next]_vars PROVE IndInv'
  OBVIOUS
<1>1. TypeOK /\ TaskLedger /\ LifecycleMatchesWork /\ ExitedIsDrained
  BY DEF IndInv
<1>2. TypeOK'
  BY <1>1, NextTypeOK
<1>3. PendingIsOneTask' /\ WaitingIsQueuedOnce' /\ StartedIsOwnedOnce'
  BY <1>1, <1>2, NextPending, NextQueued, NextOwned
<1>4. LifecycleMatchesWork' /\ ExitedIsDrained'
  BY <1>1, <1>2, NextLifecycle, NextDrained
<1> QED BY <1>2, <1>3, <1>4 DEF IndInv, TaskLedger

\* The invariant holds in every reachable state.
THEOREM Invariance == Spec => []IndInv
BY InitIndInv, NextIndInv, PTL DEF Spec

\* Type correctness of the scheduler's state.
THEOREM TypeCorrect == Spec => []TypeOK
<1>1. IndInv => TypeOK
  BY DEF IndInv
<1> QED BY <1>1, Invariance, PTL

\* No accepted request is lost, queued twice or run by two workers, whatever
\* the coalescing, the upgrades, the cancellations and the shutdown.
THEOREM LedgerCorrect == Spec => []TaskLedger
<1>1. IndInv => TaskLedger
  BY DEF IndInv
<1> QED BY <1>1, Invariance, PTL

\* workerLoop's unprotected markLoading never throws, and an expert without a
\* task is never stuck in QUEUED, LOADING or EVICTING.
THEOREM LifecycleCorrect == Spec => []LifecycleMatchesWork
<1>1. IndInv => LifecycleMatchesWork
  BY DEF IndInv
<1> QED BY <1>1, Invariance, PTL

\* shutdown() returns with every promise set and nothing pending.
THEOREM ExitCorrect == Spec => []NothingOwedAtExit
<1>1. IndInv => NothingOwedAtExit
  <2> SUFFICES ASSUME IndInv, AllExited
               PROVE  /\ \A e \in Expert : pending[e] = NoTask
                      /\ \A t \in Task : task[t].phase = "Done"
    BY DEF IndInv, NothingOwedAtExit
  <2>1. \A w \in Worker : worker[w].task = NoTask
    BY DEF IndInv, AllExited, TypeOK, WorkerType, IdleWorker, ExitedWorker, WorkerPc
  <2>2. queue = {}
    BY WorkerAssumption DEF IndInv, AllExited, ExitedIsDrained
  <2>3. \A t \in Task : task[t].phase = "Done"
    <3> SUFFICES ASSUME NEW t \in Task PROVE task[t].phase = "Done"
      OBVIOUS
    <3>1. task[t].phase \in Phase
      BY DEF IndInv, TypeOK, TaskType
    <3>2. task[t].phase # "Waiting"
      BY <2>2 DEF IndInv, TaskLedger, WaitingIsQueuedOnce
    <3>3. task[t].phase \notin {"Started", "Completed"}
      BY <2>1, BoundAssumption DEF IndInv, TaskLedger, StartedIsOwnedOnce, Holds
    <3> QED BY <3>1, <3>2, <3>3 DEF Phase
  <2>4. \A e \in Expert : pending[e] = NoTask
    BY <2>3 DEF IndInv, TypeOK, TaskLedger, PendingIsOneTask, Unfinished
  <2> QED BY <2>3, <2>4
<1> QED BY <1>1, Invariance, PTL

\* A worker never starts a task while one that outranks it waits, stale queue
\* entries and upgrades notwithstanding.
THEOREM DispatchCorrect == Spec => DispatchOrder
<1> DEFINE A == \A t, u \in Task :
                  /\ task[t].phase = "Waiting" /\ task'[t].phase = "Started"
                  /\ task[u].phase = "Waiting"
                  => ~Outranks(task[u], task[t])
<1>1. IndInv /\ [Next]_vars => [A]_vars
  <2> SUFFICES ASSUME IndInv, [Next]_vars, NEW t \in Task, NEW u \in Task,
                      task[t].phase = "Waiting", task'[t].phase = "Started",
                      task[u].phase = "Waiting"
               PROVE  ~Outranks(task[u], task[t])
    OBVIOUS
  <2>1. TypeOK /\ TaskLedger
    BY DEF IndInv
  <2>2. PICK w \in Worker : Dequeue(w)
    <3>1. ~Quiet /\ \A w \in Worker : ~Moves(w)
      BY DEF Quiet, SameWork, Moves
    <3>2. ASSUME NEW r \in Request, Raise(r) PROVE FALSE
      BY <2>1, <3>2, RaiseEffect
    <3>3. ASSUME NEW r \in Request, NEW v \in Task, ScheduleNew(r, v) PROVE FALSE
      <4>1. v # t /\ \A x \in Task \ {v} : task'[x] = task[x]
        BY <2>1, <3>3, NewEffect DEF TypeOK
      <4> QED BY <4>1
    <3>4. ASSUME NEW w \in Worker, DrainStale(w) \/ Exit(w) PROVE FALSE
      BY <2>1, <3>4, IdleEffect
    <3>5. ASSUME NEW w \in Worker, Complete(w) PROVE FALSE
      BY <2>1, <3>5, CompleteEffect
    <3>6. ASSUME NEW w \in Worker, Deliver(w) PROVE FALSE
      BY <2>1, <3>6, DeliverEffect
    <3> QED BY <2>1, <3>1, <3>2, <3>3, <3>4, <3>5, <3>6, StepKinds
  <2>3. PICK q \in queue :
          /\ q.task \in Task /\ Current(q)
          /\ \A o \in queue \ {q} : Current(o) => HigherPriority(q, o)
          /\ \A x \in Task \ {q.task} : task'[x] = task[x]
    BY <2>1, <2>2, DequeueEffect
  <2>4. q.task = t
    BY <2>3
  <2>5. q.prio = task[t].prio /\ q.score = task[t].score
    BY <2>1, <2>3, <2>4 DEF TaskLedger, WaitingIsQueuedOnce, Current
  <2>6. PICK o \in queue : /\ o.task = u /\ Current(o)
                           /\ o.prio = task[u].prio /\ o.score = task[u].score
    BY <2>1 DEF TaskLedger, WaitingIsQueuedOnce, Current
  <2>7. o = q \/ HigherPriority(q, o)
    BY <2>3, <2>6
  <2>8. /\ q.prio \in Int /\ o.prio \in Int /\ q.score \in Int /\ o.score \in Int
    BY <2>1 DEF TypeOK, EntryType, Priority, BackgroundMaintenance, CacheWarming,
       PredictedNextLayer, ActiveInference
  <2> QED BY <2>5, <2>6, <2>7, <2>8 DEF HigherPriority, Outranks
<1> QED BY <1>1, Invariance, PTL DEF Spec, DispatchOrder
-----------------------------------------------------------------------------
(* Retained transfers. *)

\* A transfer of e has arrived and is not recorded yet.
Recording(e) ==
  \E w \in Worker : worker[w].pc = "record" /\ task[worker[w].task].expert = e

\* A retained transfer is from the tier its expert is said to be in, or the
\* expert has been sent to NVMe, unless a newer transfer is about to replace
\* it; that one is from the tier markReady was given.
Retained ==
  /\ \A e \in Expert : resident[e] # NoTransfer =>
       /\ IsRegistered(expert[e])
       /\ ~Recording(e) => expert[e].current \in {resident[e], "Nvme"}
  /\ \A w \in Worker : worker[w].pc = "record" =>
       LET x == task[worker[w].task] IN expert[x.expert].current \in {x.dest, "Nvme"}

\* A step that drops transfers, sends experts to NVMe, or touches an expert
\* that has no transfer and awaits none.
Settles ==
  \A e \in Expert :
    /\ resident'[e] \in {resident[e], NoTransfer}
    /\ IsRegistered(expert[e]) => IsRegistered(expert'[e])
    /\ \/ expert'[e].current \in {expert[e].current, "Nvme"}
       \/ resident'[e] = NoTransfer /\ ~Recording(e)

\* A step after which the same workers are about to record.
KeepsRecording ==
  \A w \in Worker : worker'[w].pc = "record" <=> worker[w].pc = "record"

\* A worker about to record keeps its task, and the task its expert and
\* destination, whatever the others do.
LEMMA RecordedTaskKept ==
  ASSUME TypeOK, TaskLedger, [Next]_vars, NEW v \in Worker, worker[v].pc = "record"
  PROVE  /\ worker[v].task \in Task /\ worker'[v].task = worker[v].task
         /\ task[worker[v].task].expert \in Expert
         /\ task'[worker[v].task].expert = task[worker[v].task].expert
         /\ task'[worker[v].task].dest = task[worker[v].task].dest
<1> DEFINE t == worker[v].task
<1>1. /\ t \in Task /\ task[t].phase = "Started" /\ task[t].expert \in Expert
  BY StageIsUnfinished DEF Stage, TaskLedger, StartedIsOwnedOnce
<1>2. CASE Quiet
  BY <1>1, <1>2 DEF Quiet, SameWork
<1>3. ASSUME NEW w \in Worker, Moves(w)
      PROVE  worker'[v].task = t /\ task' = task
  BY <1>3 DEF Moves
<1>4. ASSUME NEW r \in Request, Raise(r)
      PROVE  worker'[v].task = t /\ task'[t] = task[t]
  BY <1>1, <1>4, RaiseEffect
<1>5. ASSUME NEW r \in Request, NEW u \in Task, ScheduleNew(r, u)
      PROVE  worker'[v].task = t /\ task'[t] = task[t]
  BY <1>1, <1>5, NewEffect DEF TypeOK
<1>6. ASSUME NEW w \in Worker, Dequeue(w)
      PROVE  worker'[v].task = t /\ task'[t] = task[t]
  BY <1>1, <1>6, DequeueEffect DEF Current
<1>7. ASSUME NEW w \in Worker, DrainStale(w) \/ Exit(w)
      PROVE  worker'[v].task = t /\ task'[t] = task[t]
  BY <1>1, <1>7, IdleEffect
<1>8. ASSUME NEW w \in Worker, Complete(w) \/ Deliver(w)
      PROVE  worker'[v].task = t /\ task'[t] = task[t]
  <2>1. /\ worker[w].task \in Task /\ worker[w].pc # "record"
        /\ \A u \in Task \ {worker[w].task} : task'[u] = task[u]
        /\ \A u \in Worker \ {w} : worker'[u] = worker[u]
    BY <1>8, CompleteEffect, DeliverEffect
  <2>2. worker[w].task # t
    BY <1>1, <2>1, BoundAssumption DEF TaskLedger, StartedIsOwnedOnce
  <2> QED BY <1>1, <2>1, <2>2
<1> QED BY <1>1, <1>2, <1>3, <1>4, <1>5, <1>6, <1>7, <1>8, StepKinds

\* Such a worker's expert has a pending task and is settled.
LEMMA RecordingIsPending ==
  ASSUME TypeOK, TaskLedger, LifecycleMatchesWork, NEW e \in Expert, Recording(e)
  PROVE  pending[e] # NoTask /\ IsRegistered(expert[e])
<1>1. PICK w \in Worker : worker[w].pc = "record" /\ task[worker[w].task].expert = e
  BY DEF Recording
<1>2. worker[w].task \in Task /\ Unfinished(worker[w].task)
  BY <1>1, StageIsUnfinished DEF Stage
<1>3. pending[e] # NoTask
  BY <1>1, <1>2, BoundAssumption DEF TaskLedger, PendingIsOneTask
<1>4. IsRegistered(expert[e])
  BY <1>1 DEF LifecycleMatchesWork, IsRegistered
<1> QED BY <1>3, <1>4

\* Steps that settle keep what is retained right.
LEMMA SettlesRetained ==
  ASSUME TypeOK, TaskLedger, [Next]_vars, Retained, Settles, KeepsRecording
  PROVE  Retained'
<1>1. ASSUME NEW w \in Worker, worker'[w].pc = "record"
      PROVE  LET x == task[worker[w].task]
                 y == task'[worker'[w].task]
             IN  /\ worker[w].pc = "record" /\ x.expert \in Expert
                 /\ y.expert = x.expert /\ y.dest = x.dest
  BY <1>1, RecordedTaskKept DEF KeepsRecording
<1>2. ASSUME NEW e \in Expert, Recording(e)
      PROVE  Recording(e)'
  BY <1>2, RecordedTaskKept DEF KeepsRecording, Recording
<1>3. ASSUME NEW e \in Expert, resident'[e] # NoTransfer
      PROVE  IsRegistered(expert'[e])
             /\ (~Recording(e)' => expert'[e].current \in {resident'[e], "Nvme"})
  BY <1>2, <1>3 DEF Settles, Retained
<1>4. ASSUME NEW w \in Worker, worker'[w].pc = "record"
      PROVE  LET y == task'[worker'[w].task]
             IN  expert'[y.expert].current \in {y.dest, "Nvme"}
  <2> DEFINE x == task[worker[w].task]
  <2>1. Recording(x.expert) /\ expert[x.expert].current \in {x.dest, "Nvme"}
    BY <1>1, <1>4 DEF Recording, Retained
  <2> QED BY <1>1, <1>4, <2>1 DEF Settles
<1> QED BY <1>3, <1>4 DEF Retained

\* Every step keeps what is retained right.
LEMMA NextRetained ==
  ASSUME TypeOK, TaskLedger, LifecycleMatchesWork, Retained, [Next]_vars
  PROVE  Retained'
<1>0. \A e \in Expert : expert[e] \in ExpertRecord
  BY DEF TypeOK
<1>1. ASSUME UNCHANGED <<expert, resident>>, KeepsRecording PROVE Retained'
  BY <1>1, SettlesRetained DEF Settles
<1>2. ASSUME UNCHANGED worker PROVE KeepsRecording
  BY <1>2 DEF KeepsRecording
<1>3. ASSUME NEW e \in Expert, NEW x, UNCHANGED resident, KeepsRecording,
             expert' = [expert EXCEPT ![e] = x], x.current = expert[e].current,
             IsRegistered(x)
      PROVE  Retained'
  <2>1. Settles
    BY <1>3 DEF Settles, TypeOK
  <2> QED BY <1>3, <2>1, SettlesRetained
<1>4. ASSUME NEW c \in Client, NEW r \in Request, ScheduleReady(c, r)
      PROVE  Retained'
  BY <1>1, <1>2, <1>4 DEF ScheduleReady
<1>5. ASSUME NEW r \in Request, ScheduleCoalesce(r) \/ ScheduleReject(r)
      PROVE  Retained'
  BY <1>1, <1>2, <1>5 DEF ScheduleCoalesce, ScheduleReject
<1>6. ASSUME NEW r \in Request, NEW t \in Task, ScheduleNew(r, t)
      PROVE  Retained'
  <2> DEFINE x == expert[r.expert]
             y == IF r.evict THEN BeginEvictionOf(x, r.dest)
                             ELSE MarkQueuedOf(RequestOf(x, r.dest))
  <2>1. r.expert \in Expert /\ x \in ExpertRecord
    BY <1>0, InputAssumption DEF RequestType
  <2>2. y.current = x.current /\ IsRegistered(y)
    BY <2>1 DEF BeginEvictionOf, MarkQueuedOf, RequestOf, ExpertRecord, IsRegistered
  <2>3. expert' = [expert EXCEPT ![r.expert] = y] /\ UNCHANGED <<resident, worker>>
    BY <1>6 DEF ScheduleNew
  <2> HIDE DEF y
  <2> QED BY <1>2, <1>3, <2>1, <2>2, <2>3
<1>7. ASSUME NEW c \in Client, ReadyLookup(c) \/ ReadySnapshot(c)
      PROVE  Retained'
  BY <1>1, <1>2, <1>7 DEF ReadyLookup, ReadySnapshot
<1>8. ASSUME (\E t \in Task : Cancel(t)) \/ Shutdown \/ UNCHANGED vars
      PROVE  Retained'
  BY <1>1, <1>2, <1>8 DEF Cancel, Shutdown, vars
<1>9. ASSUME NEW e \in Expert, Acquire(e) \/ Release(e)
      PROVE  Retained'
  <2>1. /\ AcquireOf(expert[e]).current = expert[e].current
        /\ ReleaseOf(expert[e]).current = expert[e].current
        /\ IsRegistered(AcquireOf(expert[e])) /\ IsRegistered(ReleaseOf(expert[e]))
    BY <1>0 DEF AcquireOf, ReleaseOf, ExpertRecord, IsRegistered
  <2>2. UNCHANGED resident /\ KeepsRecording
    BY <1>2, <1>9 DEF Acquire, Release
  <2>3. CASE Acquire(e)
    <3>1. expert' = [expert EXCEPT ![e] = AcquireOf(expert[e])]
      BY <2>3 DEF Acquire
    <3> QED BY <1>3, <2>1, <2>2, <3>1
  <2>4. CASE Release(e)
    <3>1. expert' = [expert EXCEPT ![e] = ReleaseOf(expert[e])]
      BY <2>4 DEF Release
    <3> QED BY <1>3, <2>1, <2>2, <3>1
  <2> QED BY <1>9, <2>3, <2>4
<1>10. ASSUME NEW e \in Expert, NEW l \in Location,
              Register(e, l) \/ AcknowledgeResidency(e, l) \/ ReconcileResidency(e, l)
       PROVE  Retained'
  <2>1. ~Recording(e)
    BY <1>10, RecordingIsPending DEF Register, AcknowledgeResidency, ReconcileResidency
  <2>2. resident'[e] = NoTransfer /\ \A d \in Expert \ {e} : resident'[d] = resident[d]
    BY <1>10 DEF Register, AcknowledgeResidency, ReconcileResidency, Retained, TypeOK
  <2>3. \A d \in Expert \ {e} : expert'[d] = expert[d]
    BY <1>10 DEF Register, AcknowledgeResidency, ReconcileResidency, TypeOK
  <2>4. IsRegistered(expert[e]) => IsRegistered(expert'[e])
    <3>1. ReconcileOf(expert[e], l).state = "Ready"
      BY <1>0 DEF ReconcileOf, ExpertRecord
    <3> QED BY <1>10, <3>1 DEF Register, AcknowledgeResidency, ReconcileResidency,
               IsRegistered, TypeOK
  <2>5. Settles
    BY <2>1, <2>2, <2>3, <2>4 DEF Settles
  <2>6. UNCHANGED worker
    BY <1>10 DEF Register, AcknowledgeResidency, ReconcileResidency
  <2> QED BY <1>2, <2>5, <2>6, SettlesRetained
<1>11. ASSUME NEW keys, expert' = ReconciledToNvme(keys), NEW e \in Expert
       PROVE  /\ expert'[e].current \in {expert[e].current, "Nvme"}
              /\ IsRegistered(expert[e]) => IsRegistered(expert'[e])
  BY <1>0, <1>11 DEF ReconciledToNvme, ReconcileOf, ExpertRecord, IsRegistered
<1>12. ASSUME NEW l, ExpirePrefetchesBefore(l)
       PROVE  Retained'
  <2>1. PICK done, gone : resident' = Forget(gone) /\ expert' = ReconciledToNvme(done)
    BY <1>12 DEF ExpirePrefetchesBefore
  <2>2. Settles
    BY <1>11, <2>1 DEF Settles, Forget
  <2>3. UNCHANGED worker
    BY <1>12 DEF ExpirePrefetchesBefore
  <2> QED BY <1>2, <2>2, <2>3, SettlesRetained
<1>13. ASSUME NEW w \in Worker, Dequeue(w) \/ DrainStale(w) \/ Exit(w) \/ Complete(w) \/ Deliver(w)
       PROVE  Retained'
  <2>1. KeepsRecording
    <3>1. worker[w].pc # "record" /\ worker'[w].pc # "record"
          /\ \A v \in Worker \ {w} : worker'[v] = worker[v]
      BY <1>13, DequeueEffect, IdleEffect, CompleteEffect, DeliverEffect
    <3> QED BY <3>1 DEF KeepsRecording
  <2>2. UNCHANGED <<expert, resident>>
    BY <1>13 DEF Dequeue, DrainStale, Exit, Complete, Deliver
  <2> QED BY <1>1, <2>1, <2>2
<1>14. ASSUME NEW w \in Worker, worker[w].pc \in Stage, NEW pc \in Stage, NEW o \in Outcome,
              To(w, pc, o)
       PROVE  /\ worker'[w] = [pc |-> pc, task |-> worker[w].task, outcome |-> o]
              /\ \A v \in Worker \ {w} : worker'[v] = worker[v]
              /\ (worker[w].pc = "record" <=> pc = "record") => KeepsRecording
  <2>1. /\ worker'[w] = [pc |-> pc, task |-> worker[w].task, outcome |-> o]
        /\ \A v \in Worker \ {w} : worker'[v] = worker[v]
    BY <1>14, WorkerMoves DEF Stage, Busy, WorkerPc
  <2> QED BY <2>1 DEF KeepsRecording
<1>15. ASSUME NEW w \in Worker, BeginCancelled(w) \/ TransferLost(w)
       PROVE  Retained'
  <2>1. PICK o \in Outcome : To(w, "fail", o)
    BY <1>15 DEF BeginCancelled, TransferLost, Outcome
  <2>2. worker[w].pc \in Stage \ {"record"} /\ "fail" \in Stage
    BY <1>15 DEF BeginCancelled, TransferLost, Stage
  <2>3. KeepsRecording
    BY <1>14, <2>1, <2>2
  <2> QED BY <1>1, <1>15, <2>3 DEF BeginCancelled, TransferLost
<1>16. ASSUME NEW w \in Worker, BeginTransfer(w) \/ MarkFailed(w)
       PROVE  Retained'
  <2> DEFINE e == task[worker[w].task].expert
  <2>1. worker[w].pc \in Stage \ {"record"} /\ worker[w].pc \in Busy
    BY <1>16 DEF BeginTransfer, MarkFailed, Stage, Busy, WorkerPc
  <2>2. e \in Expert /\ worker[w].outcome \in Outcome
    BY <2>1, StageIsUnfinished, BusyHasTask
  <2>3. PICK pc \in Stage \ {"record"}, o \in Outcome : To(w, pc, o)
    BY <1>16, <2>2 DEF BeginTransfer, MarkFailed, Stage, Outcome
  <2>4. KeepsRecording
    BY <1>14, <2>1, <2>3
  <2>5. \/ UNCHANGED expert
        \/ expert' = [expert EXCEPT ![e] = MarkLoadingOf(expert[e])]
        \/ expert' = [expert EXCEPT ![e] = MarkFailedOf(expert[e])]
    BY <1>16 DEF BeginTransfer, MarkFailed
  <2>6. UNCHANGED resident
    BY <1>16 DEF BeginTransfer, MarkFailed
  <2> HIDE DEF e
  <2>7. /\ MarkLoadingOf(expert[e]).current = expert[e].current
        /\ MarkFailedOf(expert[e]).current = expert[e].current
        /\ IsRegistered(MarkLoadingOf(expert[e])) /\ IsRegistered(MarkFailedOf(expert[e]))
    BY <1>0, <2>2 DEF MarkLoadingOf, MarkFailedOf, ExpertRecord, IsRegistered
  <2> QED BY <1>1, <1>3, <2>2, <2>4, <2>5, <2>6, <2>7
<1>17. ASSUME NEW w \in Worker, TransferCompleted(w)
       PROVE  Retained'
  <2> DEFINE x == task[worker[w].task]
             e == x.expert
  <2>1. worker[w].pc = "transfer" /\ worker[w].pc \in Stage
        /\ UNCHANGED <<task, resident>> /\ x.dest # "Nvme"
    BY <1>17 DEF TransferCompleted, Stage
  <2>2. worker[w].task \in Task /\ Unfinished(worker[w].task) /\ e \in Expert
    BY <2>1, StageIsUnfinished
  <2>3. CASE ~CanMarkReady(expert[e])
    <3>1. To(w, "fail", "Error") /\ UNCHANGED expert
      BY <1>17, <2>3 DEF TransferCompleted
    <3>2. KeepsRecording
      BY <1>14, <2>1, <3>1 DEF Stage, Outcome
    <3> QED BY <1>1, <2>1, <3>1, <3>2
  <2>4. CASE CanMarkReady(expert[e])
    <3>1. /\ To(w, "record", "Unknown")
          /\ expert' = [expert EXCEPT ![e] = MarkReadyOf(expert[e], x.dest)]
      BY <1>17, <2>4 DEF TransferCompleted
    <3>2. /\ worker'[w].pc = "record" /\ worker'[w].task = worker[w].task
          /\ \A v \in Worker \ {w} : worker'[v] = worker[v]
      <4>1. "record" \in Stage /\ "Unknown" \in Outcome
        BY DEF Stage, Outcome
      <4>2. /\ worker'[w] = [pc |-> "record", task |-> worker[w].task, outcome |-> "Unknown"]
            /\ \A v \in Worker \ {w} : worker'[v] = worker[v]
        BY <1>14, <2>1, <3>1, <4>1
      <4> QED BY <4>2
    <3>3. expert'[e].current = x.dest /\ IsRegistered(expert'[e])
      <4> HIDE DEF x, e
      <4>1. /\ MarkReadyOf(expert[e], x.dest).current = x.dest
            /\ IsRegistered(MarkReadyOf(expert[e], x.dest))
        BY <1>0, <2>2 DEF MarkReadyOf, ExpertRecord, IsRegistered
      <4>2. expert'[e] = MarkReadyOf(expert[e], x.dest)
        BY <2>2, <3>1 DEF TypeOK
      <4> QED BY <4>1, <4>2
    <3>4. \A d \in Expert \ {e} : expert'[d] = expert[d]
      BY <3>1 DEF TypeOK
    <3>5. \A d \in Expert : d = e => Recording(d)'
      BY <2>1, <3>2 DEF Recording
    <3>6. \A d \in Expert : Recording(d) => Recording(d)'
      BY <2>1, <3>2 DEF Recording
    <3>7. ASSUME NEW v \in Worker \ {w}, worker[v].pc = "record"
          PROVE  task[worker[v].task].expert \in Expert \ {e}
      <4>1. worker[v].task \in Task /\ Unfinished(worker[v].task)
            /\ task[worker[v].task].expert \in Expert
        BY <3>7, StageIsUnfinished DEF Stage
      <4>2. worker[v].task # worker[w].task
        BY <2>2, <4>1, BoundAssumption DEF TaskLedger, StartedIsOwnedOnce
      <4> QED BY <2>2, <4>1, <4>2, DistinctExperts
    <3>8. ASSUME NEW d \in Expert, resident'[d] # NoTransfer
          PROVE  IsRegistered(expert'[d])
                 /\ (~Recording(d)' => expert'[d].current \in {resident'[d], "Nvme"})
      <4>1. CASE d = e
        BY <3>3, <3>5, <4>1
      <4>2. CASE d # e
        <5>1. resident[d] # NoTransfer /\ resident'[d] = resident[d]
          BY <2>1, <3>8
        <5>2. expert'[d] = expert[d]
          BY <3>4, <4>2
        <5>3. IsRegistered(expert[d])
              /\ (~Recording(d) => expert[d].current \in {resident[d], "Nvme"})
          BY <5>1 DEF Retained
        <5> QED BY <3>6, <5>1, <5>2, <5>3
      <4> QED BY <4>1, <4>2
    <3>9. ASSUME NEW v \in Worker, worker'[v].pc = "record"
          PROVE  LET y == task'[worker'[v].task]
                 IN  expert'[y.expert].current \in {y.dest, "Nvme"}
      <4>1. CASE v = w
        BY <2>1, <3>2, <3>3, <4>1
      <4>2. CASE v # w
        BY <2>1, <3>2, <3>4, <3>7, <3>9, <4>2 DEF Retained
      <4> QED BY <4>1, <4>2
    <3> QED BY <3>8, <3>9 DEF Retained
  <2> QED BY <2>3, <2>4
<1>18. ASSUME NEW w \in Worker, RecordResidency(w)
       PROVE  Retained'
  <2> DEFINE x == task[worker[w].task]
             e == x.expert
  <2>1. worker[w].pc = "record" /\ worker[w].pc \in Stage /\ UNCHANGED task
    BY <1>18 DEF RecordResidency, Stage
  <2>2. worker[w].task \in Task /\ Unfinished(worker[w].task) /\ e \in Expert
    BY <2>1, StageIsUnfinished
  <2>3. /\ worker'[w].pc # "record" /\ worker'[w].task = worker[w].task
        /\ \A v \in Worker \ {w} : worker'[v] = worker[v]
    <3>1. To(w, "fail", "Error") \/ To(w, "resolve", "Success")
      BY <1>18 DEF RecordResidency
    <3>2. {"fail", "resolve"} \subseteq Stage /\ {"Error", "Success"} \subseteq Outcome
      BY DEF Stage, Outcome
    <3>3. CASE To(w, "fail", "Error")
      <4>1. /\ worker'[w] = [pc |-> "fail", task |-> worker[w].task, outcome |-> "Error"]
            /\ \A v \in Worker \ {w} : worker'[v] = worker[v]
        BY <1>14, <2>1, <3>2, <3>3
      <4> QED BY <4>1
    <3>4. CASE To(w, "resolve", "Success")
      <4>1. /\ worker'[w] = [pc |-> "resolve", task |-> worker[w].task, outcome |-> "Success"]
            /\ \A v \in Worker \ {w} : worker'[v] = worker[v]
        BY <1>14, <2>1, <3>2, <3>4
      <4> QED BY <4>1
    <3> QED BY <3>1, <3>3, <3>4
  <2>4. /\ resident'[e] \in {x.dest, NoTransfer} /\ expert'[e] = expert[e]
        /\ \A d \in Expert \ {e} : resident'[d] \in {resident[d], NoTransfer}
        /\ \A d \in Expert : expert'[d].current \in {expert[d].current, "Nvme"}
        /\ \A d \in Expert : IsRegistered(expert[d]) => IsRegistered(expert'[d])
    <3> DEFINE kept == [resident EXCEPT ![e] = IF x.dest = "Nvme" THEN NoTransfer ELSE x.dest]
    <3>1. kept[e] \in {x.dest, NoTransfer} /\ \A d \in Expert \ {e} : kept[d] = resident[d]
      BY <2>2 DEF TypeOK
    <3>2. CASE x.prefetch /\ ~x.active
      <4> DEFINE gone == Trim(e, kept, prefetched \cup {e}).dropped
                 back == {d \in Expert : d \in gone /\ d # e /\ CanReconcile(expert[d])}
      <4>1. /\ resident' = [d \in Expert |-> IF d \in gone THEN NoTransfer ELSE kept[d]]
            /\ expert' = ReconciledToNvme(back)
        BY <1>18, <3>2 DEF RecordResidency
      <4>2. expert'[e] = expert[e]
        <5>1. e \notin back
          OBVIOUS
        <5> HIDE DEF e, back
        <5> QED BY <2>2, <4>1, <5>1 DEF ReconciledToNvme
      <4> HIDE DEF gone, back
      <4>3. resident'[e] \in {x.dest, NoTransfer}
            /\ \A d \in Expert \ {e} : resident'[d] \in {resident[d], NoTransfer}
        <5> HIDE DEF kept
        <5> QED BY <2>2, <3>1, <4>1
      <4> QED BY <1>11, <4>1, <4>2, <4>3
    <3>3. CASE ~(x.prefetch /\ ~x.active)
      <4>1. resident' = kept /\ expert' = expert
        BY <1>18, <3>3 DEF RecordResidency
      <4> QED BY <3>1, <4>1
    <3> QED BY <3>2, <3>3
  <2>5. \A d \in Expert \ {e} : Recording(d) => Recording(d)'
    BY <2>1, <2>3 DEF Recording
  <2>6. expert[e].current \in {x.dest, "Nvme"} /\ IsRegistered(expert[e])
    BY <2>1, <2>2, RecordingIsPending DEF Retained, Recording
  <2>7. ASSUME NEW d \in Expert, resident'[d] # NoTransfer
        PROVE  IsRegistered(expert'[d])
               /\ (~Recording(d)' => expert'[d].current \in {resident'[d], "Nvme"})
    <3>1. CASE d = e
      BY <2>4, <2>6, <2>7, <3>1
    <3>2. CASE d # e
      BY <2>4, <2>5, <2>7, <3>2 DEF Retained
    <3> QED BY <3>1, <3>2
  <2>8. ASSUME NEW v \in Worker, worker'[v].pc = "record"
        PROVE  LET y == task'[worker'[v].task]
               IN  expert'[y.expert].current \in {y.dest, "Nvme"}
    <3>1. worker'[v] = worker[v] /\ task[worker[v].task].expert \in Expert
      BY <2>3, <2>8, StageIsUnfinished DEF Stage
    <3> QED BY <2>1, <2>4, <2>8, <3>1 DEF Retained
  <2> QED BY <2>7, <2>8 DEF Retained
<1> QED
  BY <1>4, <1>5, <1>6, <1>7, <1>8, <1>9, <1>10, <1>12, <1>13, <1>15, <1>16, <1>17, <1>18
     DEF Next, WorkerStep, CallerStep, Schedule, Stopped

\* A demand that finds its expert settled is never handed a buffer of a tier
\* other than the one the expert is said to be in, unless the expert has been
\* sent back to NVMe over it.
THEOREM RetainedCorrect == Spec => []RetainedWhereClaimed
<1>1. Init => Retained
  BY DEF Init, Retained, IdleWorker
<1>2. IndInv /\ Retained /\ [Next]_vars => Retained'
  BY NextRetained DEF IndInv
<1>3. IndInv /\ Retained => RetainedWhereClaimed
  BY RecordingIsPending DEF IndInv, Retained, RetainedWhereClaimed
<1> QED BY <1>1, <1>2, <1>3, Invariance, PTL DEF Spec
-----------------------------------------------------------------------------
(* The bound on speculation. *)

\* A finite set of keys has a last one.
LEMMA LastKey ==
  ASSUME NEW C \in SUBSET Expert, C # {}
  PROVE  Max(C) \in C /\ \A x \in C : x <= Max(C)
<1> DEFINE P == {S \in SUBSET C : S # {} => \E x \in S : \A y \in S : x >= y}
<1>1. IsFiniteSet(C) /\ C \subseteq Nat
  BY KeyAssumption, FS_Subset
<1>2. {} \in P
  OBVIOUS
<1>3. ASSUME NEW S \in SUBSET C, S # {}, \A x \in S : S \ {x} \in P PROVE S \in P
  <2>1. PICK z \in S : TRUE
    BY <1>3
  <2>2. CASE S \ {z} = {}
    <3>1. \A y \in S : y = z
      BY <2>2
    <3> QED BY <1>1, <3>1
  <2>3. CASE S \ {z} # {}
    <3>1. PICK x \in S \ {z} : \A y \in S \ {z} : x >= y
      BY <1>3, <2>3
    <3>2. x \in Nat /\ z \in Nat /\ S \subseteq Nat
      BY <1>1
    <3>3. CASE x >= z
      BY <3>1, <3>3
    <3>4. CASE ~(x >= z)
      <4>1. \A y \in S : z >= y
        BY <3>1, <3>2, <3>4
      <4> QED BY <4>1
    <3> QED BY <3>3, <3>4
  <2> QED BY <2>2, <2>3
<1>4. C \in P
  <2> HIDE DEF P
  <2>1. \A S \in SUBSET C : S # {} /\ (\A x \in S : S \ {x} \in P) => S \in P
    BY <1>3
  <2>2. \A S \in SUBSET C : S \in P
    BY <1>1, <1>2, <2>1, SubsetInduction
  <2> QED BY <2>2
<1>5. Max(C) \in C /\ \A y \in C : Max(C) >= y
  BY <1>4 DEF Max
<1> QED BY <1>1, <1>5

\* The trim loop before its first candidate, and the function that records it.
Untrimmed == [bytes |-> 0, dropped |-> {}, thrown |-> FALSE]

Trims(f, e, kept, C, m) ==
  f = [n \in 0 .. m |->
        IF n = 0 THEN Untrimmed
        ELSE IF n - 1 \in C THEN TrimStep(e, kept, f[n - 1], n - 1)
        ELSE f[n - 1]]

\* It exists, by induction on m.
LEMMA TrimsExist ==
  ASSUME NEW e, NEW kept, NEW C
  PROVE  \A m \in Nat : \E f : Trims(f, e, kept, C, m)
<1> DEFINE P == {m \in Nat : \E f : Trims(f, e, kept, C, m)}
           Value(f, n) == IF n = 0 THEN Untrimmed
                          ELSE IF n - 1 \in C THEN TrimStep(e, kept, f[n - 1], n - 1)
                          ELSE f[n - 1]
<1>0. \A f, m : Trims(f, e, kept, C, m) <=> f = [n \in 0 .. m |-> Value(f, n)]
  BY Zenon DEF Trims
<1>1. 0 \in P
  <2> DEFINE f == [n \in 0 .. 0 |-> Untrimmed]
  <2>1. f = [n \in 0 .. 0 |-> Value(f, n)]
    OBVIOUS
  <2> QED BY <1>0, <2>1
<1>2. ASSUME NEW m \in Nat, m \in P PROVE m + 1 \in P
  <2>1. PICK f : f = [n \in 0 .. m |-> Value(f, n)]
    BY <1>0, <1>2
  <2> DEFINE g == [n \in 0 .. m + 1 |-> Value(f, n)]
  <2>2. \A n \in 0 .. m : g[n] = f[n]
    <3> SUFFICES ASSUME NEW n \in 0 .. m PROVE g[n] = f[n]
      OBVIOUS
    <3>1. f[n] = Value(f, n)
      <4> HIDE DEF Value
      <4> QED BY <2>1
    <3>2. g[n] = Value(f, n)
      <4> HIDE DEF Value
      <4> QED OBVIOUS
    <3> QED BY <3>1, <3>2
  <2>3. \A n \in 0 .. m + 1 : Value(f, n) = Value(g, n)
    <3> SUFFICES ASSUME NEW n \in 0 .. m + 1, n # 0 PROVE Value(f, n) = Value(g, n)
      OBVIOUS
    <3>1. n - 1 \in 0 .. m
      OBVIOUS
    <3>2. g[n - 1] = f[n - 1]
      BY <2>2, <3>1
    <3> HIDE DEF g
    <3> QED BY <3>2
  <2>4. g = [n \in 0 .. m + 1 |-> Value(g, n)]
    <3> HIDE DEF Value
    <3> QED BY <2>3
  <2>5. Trims(g, e, kept, C, m + 1)
    <3> HIDE DEF g, Value
    <3> QED BY <1>0, <2>4
  <2> QED BY <2>5
<1>3. \A m \in Nat : m \in P
  <2> HIDE DEF P
  <2> QED BY <1>1, <1>2, NatSetInduction
<1> QED BY <1>3

\* What the loop has let stand of the candidates below n.
Standing(kept, C, a, n) == {x \in C : x < n /\ kept[x] # NoTransfer /\ x \notin a.dropped}

\* Below n the loop has dropped candidates only, its running total is within
\* the bound and, unless it was thrown out of, it is the size of what stands.
Tallied(kept, C, a, n) ==
  /\ a \in [bytes : Nat, dropped : SUBSET C, thrown : BOOLEAN]
  /\ a.bytes <= MaxPrefetch
  /\ \A x \in a.dropped : x < n
  /\ ~a.thrown => a.bytes = SumOver(Size, Standing(kept, C, a, n))

\* One candidate keeps the tally.
LEMMA TrimStepTallies ==
  ASSUME NEW e, NEW kept, NEW C \in SUBSET Expert, NEW n \in Nat, n \in C,
         NEW a, Tallied(kept, C, a, n)
  PROVE  Tallied(kept, C, TrimStep(e, kept, a, n), n + 1)
<1> DEFINE b == TrimStep(e, kept, a, n)
           R == [bytes : Nat, dropped : SUBSET C, thrown : BOOLEAN]
<1>0. /\ a \in R /\ a.bytes \in Nat /\ a.bytes <= MaxPrefetch
      /\ MaxPrefetch \in Nat /\ Size[n] \in Nat
      /\ \A x \in a.dropped : x \in Nat /\ x < n /\ x < n + 1
      /\ n \notin a.dropped /\ C \subseteq Nat
  BY SizeAssumption, KeyAssumption DEF Tallied
<1>1. \A x \in C : x < n + 1 <=> x < n \/ x = n
  BY <1>0
<1>2. CASE a.thrown
  <2>1. b = a
    BY <1>2 DEF TrimStep
  <2> QED BY <1>0, <1>2, <2>1 DEF Tallied
<1>3. CASE ~a.thrown /\ kept[n] = NoTransfer
  <2>1. b = a
    BY <1>3 DEF TrimStep
  <2>2. Standing(kept, C, a, n + 1) = Standing(kept, C, a, n)
    BY <1>1, <1>3 DEF Standing
  <2> QED BY <1>0, <1>3, <2>1, <2>2 DEF Tallied
<1>4. CASE ~a.thrown /\ kept[n] # NoTransfer /\ Size[n] > MaxPrefetch - a.bytes
  <2> DEFINE q == n # e /\ ~CanReconcile(expert[n])
  <2>1. b = [a EXCEPT !.dropped = @ \cup {n}, !.thrown = q]
    BY <1>4 DEF TrimStep
  <2>2. q \in BOOLEAN
    OBVIOUS
  <2> HIDE DEF q, b
  <2>3. b \in R /\ b.bytes = a.bytes /\ b.dropped = a.dropped \cup {n}
    BY <1>0, <2>1, <2>2
  <2>4. Standing(kept, C, b, n + 1) = Standing(kept, C, a, n)
    <3>1. \A x \in C : x < n => x # n
      BY <1>0
    <3> QED BY <1>1, <2>3, <3>1 DEF Standing
  <2>5. \A x \in b.dropped : x < n + 1
    BY <1>0, <2>3
  <2>6. a.bytes = SumOver(Size, Standing(kept, C, a, n))
    BY <1>4 DEF Tallied
  <2> QED BY <1>0, <2>3, <2>4, <2>5, <2>6 DEF Tallied, b
<1>5. CASE ~a.thrown /\ kept[n] # NoTransfer /\ ~(Size[n] > MaxPrefetch - a.bytes)
  <2> DEFINE S == Standing(kept, C, a, n)
  <2>1. b = [a EXCEPT !.bytes = @ + Size[n]]
    BY <1>5 DEF TrimStep
  <2> HIDE DEF b
  <2>2. b \in R /\ b.bytes = a.bytes + Size[n] /\ b.dropped = a.dropped /\ b.thrown = a.thrown
    BY <1>0, <2>1
  <2>3. b.bytes <= MaxPrefetch
    BY <1>0, <1>5, <2>2
  <2>4. Standing(kept, C, b, n + 1) = S \cup {n}
    BY <1>0, <1>1, <1>5, <2>2 DEF Standing
  <2>5. n \notin S /\ S \subseteq Expert /\ n \in Expert
    <3>1. ~(n < n)
      OBVIOUS
    <3> QED BY <3>1 DEF Standing
  <2> HIDE DEF S
  <2>6. IsFiniteSet(S)
    BY <2>5, KeyAssumption, FS_Subset
  <2>7. \A y \in S \cup {n} : Size[y] \in Int
    <3> SUFFICES ASSUME NEW y \in S \cup {n} PROVE Size[y] \in Int
      OBVIOUS
    <3>1. y \in Expert
      BY <2>5
    <3> QED BY <3>1, SizeAssumption
  <2>8. a.bytes = SumOver(Size, S)
    BY <1>5 DEF Tallied, S
  <2>9. SumOver(Size, S \cup {n}) = SumOver(Size, S) + Size[n]
    BY <2>5, <2>6, <2>7, SumAdd
  <2>10. \A x \in b.dropped : x < n + 1
    BY <1>0, <2>2
  <2> QED BY <2>2, <2>3, <2>4, <2>8, <2>9, <2>10 DEF Tallied, b
<1> QED BY <1>2, <1>3, <1>4, <1>5

\* The whole loop: what it lets stand fits the bound, unless it was thrown out
\* of before the last candidate.
LEMMA TrimTallies ==
  ASSUME NEW e, NEW kept, NEW C \in SUBSET Expert, C # {},
         NEW a, a = Trim(e, kept, C), ~a.thrown
  PROVE  SumOver(Size, {x \in C \ a.dropped : kept[x] # NoTransfer}) <= MaxPrefetch
<1> DEFINE m == Max(C) + 1
           f == CHOOSE x : Trims(x, e, kept, C, m)
<1>0. m \in Nat /\ C \subseteq Nat /\ \A x \in C : x < m
  <2>1. Max(C) \in C /\ \A x \in C : x <= Max(C)
    BY LastKey
  <2>2. C \subseteq Nat
    BY KeyAssumption
  <2>3. PICK k \in Nat : k = Max(C)
    BY <2>1, <2>2
  <2>4. m = k + 1 /\ \A x \in C : x \in Nat /\ x <= k
    BY <2>1, <2>2, <2>3
  <2> HIDE DEF f, m
  <2> QED BY <2>2, <2>4
<1>1. a = f[m]
  BY DEF Trim, Trims, Untrimmed
<1>2. Trims(f, e, kept, C, m)
  BY <1>0, TrimsExist
<1> HIDE DEF f, m
<1>3. /\ f[0] = Untrimmed
      /\ \A n \in 1 .. m : f[n] = IF n - 1 \in C THEN TrimStep(e, kept, f[n - 1], n - 1)
                                  ELSE f[n - 1]
  <2> DEFINE More(n) == IF n - 1 \in C THEN TrimStep(e, kept, f[n - 1], n - 1)
                        ELSE f[n - 1]
  <2>1. f = [n \in 0 .. m |-> IF n = 0 THEN Untrimmed ELSE More(n)]
    BY <1>2, Zenon DEF Trims
  <2> HIDE DEF More
  <2>2. f[0] = Untrimmed /\ \A n \in 1 .. m : f[n] = More(n)
    BY <1>0, <2>1
  <2> QED BY <2>2, Zenon DEF More
<1> DEFINE P == {n \in Nat : n <= m => Tallied(kept, C, f[n], n)}
<1>4. 0 \in P
  <2>1. Standing(kept, C, Untrimmed, 0) = {}
    <3>1. \A x \in C : ~(x < 0)
      BY <1>0
    <3> QED BY <3>1 DEF Standing
  <2>2. SumOver(Size, {}) = 0
    BY SumEmpty
  <2>3. Tallied(kept, C, Untrimmed, 0)
    BY <2>1, <2>2, SizeAssumption DEF Tallied, Untrimmed
  <2> QED BY <1>3, <2>3
<1>5. ASSUME NEW n \in Nat, n \in P PROVE n + 1 \in P
  <2> SUFFICES ASSUME n + 1 <= m PROVE Tallied(kept, C, f[n + 1], n + 1)
    OBVIOUS
  <2>1. Tallied(kept, C, f[n], n)
    BY <1>0, <1>5
  <2>2. f[n + 1] = IF n \in C THEN TrimStep(e, kept, f[n], n) ELSE f[n]
    <3>1. n + 1 \in 1 .. m /\ (n + 1) - 1 = n
      BY <1>0
    <3> QED BY <1>3, <3>1
  <2>3. CASE n \in C
    BY <2>1, <2>2, <2>3, TrimStepTallies
  <2>4. CASE n \notin C
    <3>1. \A x \in C : x < n + 1 <=> x < n
      BY <1>0, <2>4
    <3>2. Standing(kept, C, f[n], n + 1) = Standing(kept, C, f[n], n)
      BY <3>1 DEF Standing
    <3>3. f[n].dropped \subseteq C
      BY <2>1 DEF Tallied
    <3> QED BY <2>1, <2>2, <2>4, <3>1, <3>2, <3>3 DEF Tallied
  <2> QED BY <2>3, <2>4
<1>6. \A n \in Nat : n \in P
  <2> HIDE DEF P
  <2> QED BY <1>4, <1>5, NatSetInduction
<1>7. Tallied(kept, C, a, m)
  BY <1>0, <1>1, <1>6
<1>8. Standing(kept, C, a, m) = {x \in C \ a.dropped : kept[x] # NoTransfer}
  BY <1>0 DEF Standing
<1> QED BY <1>7, <1>8 DEF Tallied

\* A worker leaves the recording of its transfer by that action alone.
LEMMA OnlyRecords ==
  ASSUME TypeOK, [Next]_vars, NEW w \in Worker,
         worker[w].pc = "record", worker'[w].pc = "resolve"
  PROVE  RecordResidency(w)
<1>0. worker[w] # worker'[w]
  OBVIOUS
<1>1. worker' # worker
  BY <1>0
<1>2. PICK v \in Worker : WorkerStep(v)
  BY <1>1 DEF Next, CallerStep, Stopped, vars, Schedule, ScheduleReady, ScheduleCoalesce,
     ScheduleNew, ScheduleReject, ReadyLookup, ReadySnapshot, Cancel, Acquire, Release,
     Register, AcknowledgeResidency, ReconcileResidency, ExpirePrefetchesBefore, Shutdown
<1>3. \A u \in Worker \ {v} : worker'[u] = worker[u]
  <2>1. worker \in [Worker -> WorkerType]
    BY DEF TypeOK
  <2>2. \/ worker' = worker
        \/ \E y : worker' = [worker EXCEPT ![v] = y]
    <3>1. ASSUME NEW pc, NEW outcome, To(v, pc, outcome)
          PROVE  \E y : worker' = [worker EXCEPT ![v] = y]
      BY <3>1 DEF To
    <3>2. CASE Dequeue(v) \/ DrainStale(v) \/ Exit(v) \/ Deliver(v)
      BY <3>2 DEF Dequeue, DrainStale, Exit, Deliver
    <3>3. CASE ~(Dequeue(v) \/ DrainStale(v) \/ Exit(v) \/ Deliver(v))
      <4>1. Complete(v) \/ \E pc, outcome : To(v, pc, outcome)
        BY <1>2, <3>3 DEF WorkerStep, BeginCancelled, BeginTransfer, TransferCompleted,
           TransferLost, RecordResidency, MarkFailed
      <4>2. CASE Complete(v)
        BY <4>2, <3>1 DEF Complete
      <4> QED BY <3>1, <4>1, <4>2
    <3> QED BY <3>2, <3>3
  <2> QED BY <2>1, <2>2
<1>4. v = w
  BY <1>0, <1>3
<1> QED
  BY <1>2, <1>4 DEF WorkerStep, Dequeue, DrainStale, Exit, BeginCancelled, BeginTransfer,
     TransferCompleted, TransferLost, MarkFailed, Complete, Deliver

\* A prefetch that completes leaves the speculative transfers within
\* maximumPrefetchBytes_, whatever their number, their sizes and the order in
\* which their keys were listed.
THEOREM TrimCorrect == Spec => PrefetchTrimmed
<1> DEFINE A == \A w \in Worker :
                  /\ worker[w].pc = "record" /\ worker'[w].pc = "resolve"
                  /\ task[worker[w].task].prefetch /\ ~task[worker[w].task].active
                  => SpeculativeBytes' <= MaxPrefetch
<1>1. IndInv /\ [Next]_vars => [A]_vars
  <2> SUFFICES ASSUME IndInv, [Next]_vars, NEW w \in Worker,
                      worker[w].pc = "record", worker'[w].pc = "resolve",
                      task[worker[w].task].prefetch, ~task[worker[w].task].active
               PROVE  SpeculativeBytes' <= MaxPrefetch
    OBVIOUS
  <2> DEFINE x == task[worker[w].task]
             e == x.expert
             kept == [resident EXCEPT ![e] = IF x.dest = "Nvme" THEN NoTransfer ELSE x.dest]
             C == prefetched \cup {e}
             a == Trim(e, kept, C)
  <2>1. TypeOK /\ TaskLedger /\ TypeOK'
    BY NextIndInv DEF IndInv
  <2>2. e \in Expert /\ C \in SUBSET Expert /\ C # {}
    <3>1. worker[w].pc \in Stage
      BY DEF Stage
    <3>2. e \in Expert
      BY <2>1, <3>1, StageIsUnfinished
    <3> QED BY <2>1, <3>2 DEF TypeOK
  <2>3. RecordResidency(w)
    BY <2>1, OnlyRecords
  <2>4. /\ resident' = [d \in Expert |-> IF d \in a.dropped THEN NoTransfer ELSE kept[d]]
        /\ prefetched' = C \ a.dropped
        /\ a.thrown => To(w, "fail", "Error")
    BY <2>3 DEF RecordResidency
  <2>5. ~a.thrown
    <3> SUFFICES ASSUME To(w, "fail", "Error") PROVE FALSE
      BY <2>4
    <3>1. worker'[w].pc = "fail"
      <4>1. worker \in [Worker -> WorkerType] /\ worker[w] \notin {IdleWorker, ExitedWorker}
        BY <2>1 DEF TypeOK, IdleWorker, ExitedWorker
      <4>2. worker[w] \in [pc : WorkerPc \ {"idle", "exited"}, task : Task, outcome : Outcome]
        BY <4>1 DEF WorkerType
      <4> QED BY <4>1, <4>2 DEF To
    <3> QED BY <3>1
  <2> HIDE DEF a, C, kept
  <2>6. SumOver(Size, {d \in C \ a.dropped : kept[d] # NoTransfer}) <= MaxPrefetch
    BY <2>2, <2>5, TrimTallies DEF a
  <2>7. {d \in prefetched' : resident'[d] # NoTransfer}
          = {d \in C \ a.dropped : kept[d] # NoTransfer}
    BY <2>2, <2>4
  <2>8. SpeculativeBytes' = SumOver(Size, {d \in prefetched' : resident'[d] # NoTransfer})
    BY DEF SpeculativeBytes, SumOver, MapThenSumSet, MapThenFoldSet
  <2> QED BY <2>6, <2>7, <2>8
<1> QED BY <1>1, Invariance, PTL DEF Spec, PrefetchTrimmed
=============================================================================
