----------------------- MODULE TransferManagerProofs ------------------------
(***************************************************************************)
(* Theorems about TransferManager for any set of transfers, workers and    *)
(* requests: its type invariant, the return of its handles, that what is   *)
(* published has been copied, and that it implements TransferService.      *)
(***************************************************************************)
EXTENDS TransferManager, TLAPS

Inv == TypeOK /\ HandlesReturned /\ CompleteIsCopied

\* The constructor establishes the invariant.
LEMMA InitInv == Init => Inv
<1> SUFFICES ASSUME Init PROVE Inv
  OBVIOUS
<1>1. TypeOK
  <2> DEFINE Fresh == [stage : {"Free"}, request : Request, sequence : {0},
                       cancelled : {FALSE}, by : {NoWorker},
                       stream : {"None"}, event : {FALSE},
                       answer : {Unanswered}]
  <2>1. {FALSE} \subseteq BOOLEAN
    OBVIOUS
  <2>2. ASSUME NEW f \in Fresh PROVE f \in Task
    <3>1. /\ f.stage \in Stage /\ f.request \in Request /\ f.sequence \in Nat
          /\ f.by \in Worker \cup {NoWorker} /\ f.stream \in Stream
          /\ f.answer \in {Unanswered, "Completed", "Cancelled", "Failed"}
      BY DEF Stage, Stream
    <3>2. f.cancelled \in BOOLEAN /\ f.event \in BOOLEAN
      OBVIOUS
    <3>3. f = [stage |-> f.stage, request |-> f.request, sequence |-> f.sequence,
               cancelled |-> f.cancelled, by |-> f.by, stream |-> f.stream,
               event |-> f.event, answer |-> f.answer]
      OBVIOUS
    <3> QED BY <3>1, <3>2, <3>3 DEF Task
  <2>3. task \in [Transfer -> Task]
    BY <2>2 DEF Init
  <2> QED BY <2>3 DEF Init, TypeOK
<1>2. HandlesReturned
  BY DEF Init, HandlesReturned, InWork
<1>3. CompleteIsCopied
  BY DEF Init, CompleteIsCopied
<1> QED BY <1>1, <1>2, <1>3 DEF Inv

\* What a step on flags or the queue leaves of a task.
SameWork(t) ==
  /\ \/ task'[t].stage = task[t].stage
     \/ task[t].stage = "Free" /\ task'[t].stage = "Queued"
  /\ task'[t].by = task[t].by
  /\ task'[t].stream = task[t].stream
  /\ task'[t].event = task[t].event
  /\ task'[t].answer = task[t].answer

\* Such a step disturbs neither handles nor copies.
LEMMA FlagInv ==
  ASSUME Inv, \A t \in Transfer : SameWork(t), UNCHANGED <<copying, exited>>
  PROVE  HandlesReturned' /\ CompleteIsCopied'
<1>1. CompleteIsCopied'
  BY DEF Inv, TypeOK, CompleteIsCopied, SameWork
<1>2. HandlesReturned'
  BY DEF Inv, TypeOK, HandlesReturned, InWork, SameWork
<1> QED BY <1>1, <1>2

\* submit keeps the invariant.
LEMMA SubmitInv ==
  ASSUME NEW t \in Transfer, Inv, Submit(t)
  PROVE  Inv'
<1>1. [task[t] EXCEPT !.stage = "Queued", !.sequence = nextSequence] \in Task
  BY DEF Inv, TypeOK, Task, Stage
<1>2. task' = [task EXCEPT ![t] =
                 [task[t] EXCEPT !.stage = "Queued", !.sequence = nextSequence]]
  BY DEF Submit, Inv, TypeOK
<1>3. TypeOK'
  BY <1>1, <1>2 DEF Submit, Inv, TypeOK
<1>4. \A u \in Transfer : SameWork(u)
  BY <1>2 DEF Submit, Inv, TypeOK, Task, SameWork
<1>5. UNCHANGED <<copying, exited>>
  BY DEF Submit
<1>6. HandlesReturned' /\ CompleteIsCopied'
  BY <1>4, <1>5, FlagInv
<1> QED BY <1>3, <1>6 DEF Inv

\* cancel keeps the invariant.
LEMMA CancelInv ==
  ASSUME NEW t \in Transfer, Inv, Cancel(t)
  PROVE  Inv'
<1>1. [task[t] EXCEPT !.cancelled = TRUE] \in Task
  BY DEF Inv, TypeOK, Task
<1>2. TypeOK'
  BY <1>1 DEF Cancel, Inv, TypeOK
<1>3. \A u \in Transfer : SameWork(u)
  BY DEF Cancel, Inv, TypeOK, Task, SameWork
<1>4. UNCHANGED <<copying, exited>>
  BY DEF Cancel
<1>5. HandlesReturned' /\ CompleteIsCopied'
  BY <1>3, <1>4, FlagInv
<1> QED BY <1>2, <1>5 DEF Inv

\* The device keeps the invariant.
LEMMA CopyDoneInv ==
  ASSUME NEW t \in Transfer, Inv, CopyDone(t)
  PROVE  Inv'
BY DEF CopyDone, Inv, TypeOK, Task, HandlesReturned, CompleteIsCopied

\* shutdown keeps the invariant.
LEMMA ShutdownInv ==
  ASSUME Inv, Shutdown
  PROVE  Inv'
<1>1. ASSUME NEW t \in Transfer
      PROVE  [task[t] EXCEPT !.cancelled = @ \/ t \in Queue] \in Task
  <2>1. (task[t].cancelled \/ t \in Queue) \in BOOLEAN
    OBVIOUS
  <2> QED BY <2>1 DEF Inv, TypeOK, Task
<1>2. TypeOK'
  BY <1>1 DEF Shutdown, Inv, TypeOK
<1>3. \A u \in Transfer : SameWork(u)
  BY DEF Shutdown, Inv, TypeOK, Task, SameWork
<1>4. UNCHANGED <<copying, exited>>
  BY DEF Shutdown
<1>5. HandlesReturned' /\ CompleteIsCopied'
  BY <1>3, <1>4, FlagInv
<1> QED BY <1>2, <1>5 DEF Inv

\* A worker that takes a task or exits keeps the invariant.
LEMMA WorkerInv ==
  ASSUME NEW w \in Worker, Inv, WorkerStep(w)
  PROVE  Inv'
<1> USE DEF Inv, TypeOK, Task
<1>1. ASSUME NEW t \in Transfer, Pop(w, t) PROVE Inv'
  BY <1>1, WorkerAssumption
  DEF Pop, Idle, Queue, HandlesReturned, CompleteIsCopied, InWork, Stage
<1>2. CASE Exit(w)
  BY <1>2, WorkerAssumption DEF Exit, Idle, HandlesReturned, CompleteIsCopied, InWork
<1> QED BY <1>1, <1>2 DEF WorkerStep

\* A worker's step on its task keeps the invariant.
LEMMA TaskInv ==
  ASSUME NEW t \in Transfer, Inv, TaskStep(t)
  PROVE  Inv'
<1> USE DEF Inv, TypeOK, Task, HandlesReturned, CompleteIsCopied, InWork, Stage
<1>1. ASSUME NEW answer \in {"Completed", "Cancelled"}, AnswerWith(t, answer),
             task[t].stage \in {"Check", "Read", "Finish", "Publish"}
      PROVE  Inv'
  BY <1>1 DEF AnswerWith, Unanswered
<1>2. ASSUME NEW from \in {"Check", "Read", "Finish"}, NEW stage \in Stage,
             task[t].stage = from, To(t, stage),
             stage \in {"Read", "Stream", "Finish", "Publish"}
      PROVE  Inv'
  BY <1>2 DEF To
<1>3. CASE Drop(t) \/ Discard(t) \/ Abandon(t) \/ Publish(t)
  BY <1>1, <1>3 DEF Drop, Discard, Abandon, Publish
<1>4. CASE Load(t) \/ Loaded(t) \/ Keep(t)
  BY <1>2, <1>4 DEF Load, Loaded, Keep, AfterRead
<1>5. CASE LockStream(t)
  BY <1>5 DEF LockStream, StreamFor, Stream
<1>6. CASE QueueCopy(t)
  BY <1>6 DEF QueueCopy
<1>7. CASE EventWaited(t)
  BY <1>7 DEF EventWaited, Stream
<1>8. CASE Throw(t)
  BY <1>8 DEF Throw, MayThrow, Stream, Unanswered
<1>9. CASE Unwind(t)
  BY <1>9 DEF Unwind, Stream
<1> QED BY <1>3, <1>4, <1>5, <1>6, <1>7, <1>8, <1>9 DEF TaskStep

\* The invariant is inductive.
THEOREM Invariance == Spec => []Inv
<1>1. Inv /\ [Next]_vars => Inv'
  <2> SUFFICES ASSUME Inv, [Next]_vars PROVE Inv'
    OBVIOUS
  <2>1. CASE UNCHANGED vars
    BY <2>1 DEF vars, Inv, TypeOK, HandlesReturned, CompleteIsCopied
  <2>2. CASE Next
    BY <2>1, <2>2, SubmitInv, CancelInv, CopyDoneInv, TaskInv, WorkerInv, ShutdownInv DEF Next, Stopped
  <2> QED BY <2>1, <2>2
<1> QED BY <1>1, InitInv, PTL DEF Spec

\* Every variable of workerLoop, the queue and the streams keeps its type.
THEOREM TypeCorrect == Spec => []TypeOK
<1>1. Inv => TypeOK
  BY DEF Inv
<1> QED BY <1>1, Invariance, PTL

\* Every way out of workerLoop returns the event, the stream and the worker.
THEOREM HandlesCorrect == Spec => []HandlesReturned
<1>1. Inv => HandlesReturned
  BY DEF Inv
<1> QED BY <1>1, Invariance, PTL

\* A future is set to a completed result only once its copy is done.
THEOREM CopiedCorrect == Spec => []CompleteIsCopied
<1>1. Inv => CompleteIsCopied
  BY DEF Inv
<1> QED BY <1>1, Invariance, PTL

-----------------------------------------------------------------------------
(* The refinement. *)

\* A step of one task that leaves its flag and the others alone.
Only(t) ==
  /\ \A u \in Transfer \ {t} : task'[u] = task[u]
  /\ task'[t].cancelled = task[t].cancelled
  /\ UNCHANGED stopping

\* Such a step changes one phase of the service, from what it was.
LEMMA AdvanceStep ==
  ASSUME NEW t \in Transfer, Only(t)
  PROVE  Service!Advance(t, PhaseOf(t), PhaseOf(t)')
<1>1. \A u \in Transfer \ {t} : PhaseOf(u)' = PhaseOf(u)
  BY DEF Only, PhaseOf
<1>2. [u \in Transfer |-> PhaseOf(u)']
        = [[u \in Transfer |-> PhaseOf(u)] EXCEPT ![t] = PhaseOf(t)']
  BY <1>1
<1>3. [u \in Transfer |-> task'[u].cancelled] = [u \in Transfer |-> task[u].cancelled]
  BY DEF Only
<1> QED BY <1>2, <1>3 DEF Only, Service!Advance

\* A step that keeps every phase, flag and stopping_ is a stutter.
LEMMA StutterStep ==
  ASSUME \A t \in Transfer : /\ PhaseOf(t)' = PhaseOf(t)
                             /\ task'[t].cancelled = task[t].cancelled,
         UNCHANGED stopping
  PROVE  UNCHANGED Service!vars
BY DEF Service!vars

\* Client operations and the device are steps of the service.
LEMMA ClientRefines ==
  ASSUME NEW t \in Transfer, Inv, Submit(t) \/ Cancel(t) \/ CopyDone(t)
  PROVE  [Service!Next]_(Service!vars)
<1>1. CASE Submit(t)
  <2>1. Only(t)
    BY <1>1 DEF Submit, Only, Inv, TypeOK, Task
  <2>2. PhaseOf(t) = "Free" /\ PhaseOf(t)' = "Waiting"
    BY <1>1 DEF Submit, PhaseOf, Inv, TypeOK, Task, HandlesReturned
  <2>3. Service!Submit(t)
    BY <1>1, <2>1, <2>2, AdvanceStep DEF Submit, Service!Submit
  <2> QED BY <2>3 DEF Service!Next
<1>2. CASE Cancel(t)
  <2>1. \A u \in Transfer : PhaseOf(u)' = PhaseOf(u)
    BY <1>2 DEF Cancel, PhaseOf, Inv, TypeOK, Task
  <2>2. [u \in Transfer |-> task'[u].cancelled]
          = [[u \in Transfer |-> task[u].cancelled] EXCEPT ![t] = TRUE]
    BY <1>2 DEF Cancel, Inv, TypeOK, Task
  <2>3. PhaseOf(t) \notin Service!Answer \cup {"Free"}
    BY <1>2 DEF Cancel, PhaseOf, Inv, TypeOK, Task, Stage, Service!Answer
  <2>4. Service!Cancel(t)
    BY <1>2, <2>1, <2>2, <2>3 DEF Cancel, Service!Cancel
  <2> QED BY <2>4 DEF Service!Next
<1>3. CASE CopyDone(t)
  BY <1>3, StutterStep DEF CopyDone, PhaseOf
<1> QED BY <1>1, <1>2, <1>3

\* shutdown closes the service.
LEMMA ShutdownRefines ==
  ASSUME Inv, Shutdown
  PROVE  Service!Close
<1>1. \A u \in Transfer : PhaseOf(u)' = PhaseOf(u)
  BY DEF Shutdown, PhaseOf, Inv, TypeOK, Task
<1>2. Queue \in SUBSET {t \in Transfer : PhaseOf(t) = "Waiting"}
  BY DEF Queue, PhaseOf, Inv, HandlesReturned
<1>3. \A u \in Transfer : task'[u].cancelled = (task[u].cancelled \/ u \in Queue)
  BY DEF Shutdown, Inv, TypeOK, Task
<1>4. [u \in Transfer |-> task'[u].cancelled]
        = [u \in Transfer |->
             [v \in Transfer |-> task[v].cancelled][u] \/ u \in Queue]
  BY <1>3
<1>5. [t \in Transfer |-> PhaseOf(t)]' = [t \in Transfer |-> PhaseOf(t)]
  BY <1>1
<1>6. \E dropped \in SUBSET {t \in Transfer : [u \in Transfer |-> PhaseOf(u)][t] = "Waiting"} :
        [u \in Transfer |-> task'[u].cancelled]
          = [u \in Transfer |->
               [v \in Transfer |-> task[v].cancelled][u] \/ u \in dropped]
  BY <1>2, <1>4
<1> QED BY <1>5, <1>6 DEF Shutdown, Service!Close

\* workerLoop's steps on a task are steps of the service, or stutters.
LEMMA TaskRefines ==
  ASSUME NEW t \in Transfer, Inv, TaskStep(t)
  PROVE  [Service!Next]_(Service!vars)
<1>1. Only(t)
  BY DEF TaskStep, Drop, Load, Discard, Loaded, LockStream, QueueCopy, EventWaited,
         Abandon, Keep, Publish, Throw, Unwind, To, AnswerWith, Only, Inv, TypeOK, Task
<1>2. Service!Advance(t, PhaseOf(t), PhaseOf(t)')
  BY <1>1, AdvanceStep
<1>3. \A u \in Transfer \ {t} : PhaseOf(u)' = PhaseOf(u)
  BY <1>1 DEF Only, PhaseOf
<1>4. CASE PhaseOf(t)' = PhaseOf(t)
  <2>1. \A u \in Transfer : /\ PhaseOf(u)' = PhaseOf(u)
                            /\ task'[u].cancelled = task[u].cancelled
    BY <1>1, <1>3, <1>4 DEF Only
  <2> QED BY <2>1, <1>1, StutterStep DEF Only
<1>5. CASE Drop(t)
  <2>1. PhaseOf(t) = "Waiting" /\ PhaseOf(t)' = "Cancelled"
    BY <1>5 DEF Drop, AnswerWith,
           Inv, TypeOK, Task, HandlesReturned, PhaseOf, Unanswered
  <2>2. Service!Drop(t)
    BY <1>2, <1>5, <2>1 DEF Drop, Service!Drop
  <2> QED BY <2>2 DEF Service!Next
<1>6. CASE Load(t)
  <2>1. PhaseOf(t) = "Waiting" /\ PhaseOf(t)' = "Reading"
    BY <1>6 DEF Load, To,
           Inv, TypeOK, Task, HandlesReturned, PhaseOf, Unanswered
  <2>2. Service!Begin(t)
    BY <1>2, <1>6, <2>1 DEF Load, Service!Begin
  <2> QED BY <2>2 DEF Service!Next
<1>7. CASE Discard(t)
  <2>1. PhaseOf(t) = "Reading" /\ PhaseOf(t)' = "Cancelled"
    BY <1>7 DEF Discard, AnswerWith,
           Inv, TypeOK, Task, HandlesReturned, PhaseOf, Unanswered
  <2>2. Service!Discard(t)
    BY <1>2, <1>7, <2>1 DEF Discard, Service!Discard
  <2> QED BY <2>2 DEF Service!Next
<1>8. CASE Loaded(t)
  <2>1. PhaseOf(t) = "Reading" /\ PhaseOf(t)' = "Copying"
    BY <1>8 DEF Loaded, To, AfterRead,
           Inv, TypeOK, Task, HandlesReturned, PhaseOf, Unanswered
  <2>2. Service!Proceed(t)
    BY <1>2, <1>8, <2>1 DEF Loaded, Service!Proceed
  <2> QED BY <2>2 DEF Service!Next
<1>9. CASE Abandon(t)
  <2>1. PhaseOf(t) = "Copying" /\ PhaseOf(t)' = "Cancelled"
    BY <1>9 DEF Abandon, AnswerWith,
           Inv, TypeOK, Task, HandlesReturned, PhaseOf, Unanswered
  <2>2. Service!Abandon(t)
    BY <1>2, <1>9, <2>1 DEF Abandon, Service!Abandon
  <2> QED BY <2>2 DEF Service!Next
<1>10. CASE Publish(t)
  <2>1. PhaseOf(t) = "Copying" /\ PhaseOf(t)' = "Completed"
    BY <1>10 DEF Publish, AnswerWith,
           Inv, TypeOK, Task, HandlesReturned, PhaseOf, Unanswered
  <2>2. Service!Finish(t)
    BY <1>2, <2>1 DEF Service!Finish
  <2> QED BY <2>2 DEF Service!Next
<1>11. CASE Throw(t)
  <2>1. PhaseOf(t) \in {"Reading", "Copying"} /\ PhaseOf(t)' = "Failed"
    BY <1>11 DEF Throw, MayThrow,
           Inv, TypeOK, Task, HandlesReturned, PhaseOf, Unanswered
  <2>2. Service!Fail(t)
    BY <1>2, <2>1 DEF Service!Fail
  <2> QED BY <2>2 DEF Service!Next
<1>12. CASE LockStream(t) \/ QueueCopy(t) \/ EventWaited(t)
  <2>1. PhaseOf(t)' = PhaseOf(t)
    BY <1>12 DEF LockStream, QueueCopy, EventWaited,
           Inv, TypeOK, Task, HandlesReturned, PhaseOf, Unanswered
  <2> QED BY <2>1, <1>4
<1>13. CASE Keep(t) \/ Unwind(t)
  <2>1. PhaseOf(t)' = PhaseOf(t)
    BY <1>13 DEF Keep, To, Unwind,
           Inv, TypeOK, Task, HandlesReturned, PhaseOf, Unanswered
  <2> QED BY <2>1, <1>4
<1> QED
  BY <1>5, <1>6, <1>7, <1>8, <1>9, <1>10, <1>11, <1>12, <1>13 DEF TaskStep

\* Taking a task off the queue and leaving the loop are invisible to clients.
LEMMA WorkerRefines ==
  ASSUME NEW w \in Worker, Inv, WorkerStep(w)
  PROVE  UNCHANGED Service!vars
<1>1. ASSUME NEW t \in Transfer, Pop(w, t) PROVE UNCHANGED Service!vars
  <2>1. \A u \in Transfer : /\ PhaseOf(u)' = PhaseOf(u)
                            /\ task'[u].cancelled = task[u].cancelled
    BY <1>1 DEF Pop, Queue, PhaseOf, Inv, TypeOK, Task
  <2>2. UNCHANGED stopping
    BY <1>1 DEF Pop
  <2> QED BY <2>1, <2>2, StutterStep
<1>2. CASE Exit(w)
  BY <1>2, StutterStep DEF Exit, PhaseOf
<1> QED BY <1>1, <1>2 DEF WorkerStep

\* TransferManager implements TransferService, for any transfers, workers and
\* requests: one answer each, and no completion of a transfer that was
\* cancelled before its source had been read.
THEOREM Refinement == Spec => Implements
<1>1. Init => Service!Init
  <2> SUFFICES ASSUME Init PROVE Service!Init
    OBVIOUS
  <2>1. \A t \in Transfer : PhaseOf(t) = "Free"
    BY DEF Init, PhaseOf
  <2>2. \A t \in Transfer : task[t].cancelled = FALSE
    BY DEF Init
  <2> QED BY <2>1, <2>2 DEF Init, Service!Init
<1>2. Inv /\ [Next]_vars => [Service!Next]_(Service!vars)
  <2> SUFFICES ASSUME Inv, [Next]_vars PROVE [Service!Next]_(Service!vars)
    OBVIOUS
  <2>1. CASE UNCHANGED vars
    BY <2>1, StutterStep DEF vars, PhaseOf
  <2>2. CASE Shutdown
    BY <2>2, ShutdownRefines DEF Service!Next
  <2>3. CASE Next
    BY <2>1, <2>2, <2>3, ClientRefines, TaskRefines, WorkerRefines DEF Next, Stopped
  <2> QED BY <2>1, <2>3
<1> QED BY <1>1, <1>2, Invariance, PTL DEF Spec, Implements, Service!Spec
=============================================================================
