--------------------------- MODULE TransferManager --------------------------
(***************************************************************************)
(* memory/TransferManager.cpp: a priority queue of transfers, a fixed pool *)
(* of workers that read, stage and copy an expert's bytes, and the streams *)
(* and events of the backend they copy with.                               *)
(*                                                                         *)
(* A worker carries one task at a time from the queue to its answer, so    *)
(* workerLoop's program counter is kept with the task (stage) along with   *)
(* the worker that runs it (by).  With CUDA the workers share two streams, *)
(* each under a mutex held from before the copy until its event has been   *)
(* waited for; other backends create a stream for each copy.  The bytes    *)
(* themselves are left out: loader_, the staging buffers and the backend   *)
(* either do what they are asked or throw.                                 *)
(***************************************************************************)
EXTENDS Naturals

CONSTANTS
  Transfer,        \* the requests clients may submit
  Worker,          \* workers_
  Request          \* the kinds of requests they submit

HostTier == {"Ram", "PinnedRam"}
Tier == HostTier \cup {"Nvme", "Vram"}
PrefetchPriority == 300
NoWorker == "NoWorker"
Unanswered == "Unanswered"

\* submit rejects the destination NVMe.
ASSUME RequestAssumption ==
  Request \subseteq [priority : Nat, source : Tier, destination : Tier \ {"Nvme"}]
ASSUME WorkerAssumption == NoWorker \notin Worker

VARIABLES
  task,            \* every request and how far it is
  nextSequence,    \* nextSequence_
  copying,         \* copies queued on a stream that the device has not done
  stopping,        \* stopping_
  exited,          \* the workers that have returned from workerLoop
  cuda             \* whether the constructor made cudaStreams_

vars == <<task, nextSequence, copying, stopping, exited, cuda>>

\* Queued   in tasks_                     Check    popped, not looked at
\* Read     getting source and buffers    Stream   about to take a stream
\* Copy     has the stream                Wait     waits for its event
\* Finish   before the last checkpoint    Publish  in the callback
\* Unwind   answered by the handler, its stream lock not yet released
Stage == {"Free", "Queued", "Check", "Read", "Stream", "Copy", "Wait",
          "Finish", "Publish", "Unwind", "Done"}
Stream == {"None", "Own", "Transfer", "Prefetch"}
Task == [stage : Stage, request : Request, sequence : Nat, cancelled : BOOLEAN,
         by : Worker \cup {NoWorker}, stream : Stream, event : BOOLEAN,
         answer : {Unanswered, "Completed", "Cancelled", "Failed"}]

Init ==
  /\ task \in [Transfer -> [stage : {"Free"}, request : Request, sequence : {0},
                            cancelled : {FALSE}, by : {NoWorker},
                            stream : {"None"}, event : {FALSE},
                            answer : {Unanswered}]]
  /\ nextSequence = 0
  /\ copying = {}
  /\ stopping = FALSE
  /\ exited = {}
  /\ cuda \in BOOLEAN

-----------------------------------------------------------------------------
(* Clients. *)

Queue == {t \in Transfer : task[t].stage = "Queued"}

Submit(t) ==
  /\ task[t].stage = "Free"
  /\ ~stopping
  /\ task' = [task EXCEPT ![t].stage = "Queued", ![t].sequence = nextSequence]
  /\ nextSequence' = nextSequence + 1
  /\ UNCHANGED <<copying, stopping, exited, cuda>>

\* Once the task is answered nobody reads the flag again.
Cancel(t) ==
  /\ task[t].stage # "Free" /\ task[t].answer = Unanswered
  /\ task' = [task EXCEPT ![t].cancelled = TRUE]
  /\ UNCHANGED <<nextSequence, copying, stopping, exited, cuda>>

\* The queued tasks are cancelled; the workers drain them before they return.
Shutdown ==
  /\ ~stopping
  /\ stopping' = TRUE
  /\ task' = [t \in Transfer |->
                [task[t] EXCEPT !.cancelled = @ \/ t \in Queue]]
  /\ UNCHANGED <<nextSequence, copying, exited, cuda>>

-----------------------------------------------------------------------------
(* workerLoop. *)

Idle(w) == w \notin exited /\ \A t \in Transfer : task[t].by # w

HigherPriority(t, u) ==
  \/ task[t].request.priority > task[u].request.priority
  \/ /\ task[t].request.priority = task[u].request.priority
     /\ task[t].sequence < task[u].sequence

Pop(w, t) ==
  /\ Idle(w)
  /\ t \in Queue
  /\ \A u \in Queue \ {t} : HigherPriority(t, u)
  /\ task' = [task EXCEPT ![t].stage = "Check", ![t].by = w]
  /\ UNCHANGED <<nextSequence, copying, stopping, exited, cuda>>

\* Mutant of Exit: a worker that is told to stop leaves the queue behind.
ExitAtOnce(w) ==
  /\ Idle(w)
  /\ stopping
  /\ exited' = exited \cup {w}
  /\ UNCHANGED <<task, nextSequence, copying, stopping, cuda>>

Exit(w) ==
  /\ Idle(w)
  /\ stopping /\ Queue = {}
  /\ exited' = exited \cup {w}
  /\ UNCHANGED <<task, nextSequence, copying, stopping, cuda>>

\* The task goes on to its next stage.
To(t, stage) ==
  /\ task' = [task EXCEPT ![t].stage = stage]
  /\ UNCHANGED <<nextSequence, copying, stopping, exited, cuda>>

\* The promise is set and the worker goes back to the queue.
AnswerWith(t, answer) ==
  /\ task' = [task EXCEPT ![t].stage = "Done", ![t].by = NoWorker,
                          ![t].answer = answer]
  /\ UNCHANGED <<nextSequence, copying, stopping, exited, cuda>>

\* The checkpoints: before the read, after it, and after the copy.
Drop(t) ==
  /\ task[t].stage = "Check"
  /\ task[t].cancelled
  /\ AnswerWith(t, "Cancelled")

Load(t) ==
  /\ task[t].stage = "Check"
  /\ ~task[t].cancelled
  /\ To(t, "Read")

Discard(t) ==
  /\ task[t].stage = "Read"
  /\ task[t].cancelled
  /\ AnswerWith(t, "Cancelled")

\* A copy between device and host takes a stream.  A VRAM source asked for in
\* VRAM is handed over as it is, past the last checkpoint.
AfterRead(request) ==
  IF request.source = "Vram"
    THEN IF request.destination = "Vram" THEN "Publish" ELSE "Stream"
    ELSE IF request.destination = "Vram" THEN "Stream" ELSE "Finish"

\* Mutant of Loaded: the checkpoint after the read is missing.
LoadedRegardless(t) ==
  /\ task[t].stage = "Read"
  /\ To(t, AfterRead(task[t].request))

Loaded(t) ==
  /\ task[t].stage = "Read"
  /\ ~task[t].cancelled
  /\ To(t, AfterRead(task[t].request))

\* Mutant of StreamFor: demand copies go to the compute stream.
StreamForCompute(request) ==
  IF ~cuda THEN "Own"
  ELSE IF request.priority = PrefetchPriority THEN "Prefetch" ELSE "Compute"

StreamFor(request) ==
  IF ~cuda THEN "Own"
  ELSE IF request.destination = "Vram" /\ request.priority = PrefetchPriority
         THEN "Prefetch" ELSE "Transfer"

\* cudaTransferStreamMutex_ and cudaPrefetchStreamMutex_.
LockStream(t) ==
  LET stream == StreamFor(task[t].request)
  IN /\ task[t].stage = "Stream"
     /\ stream = "Own" \/ \A u \in Transfer : task[u].stream # stream
     /\ task' = [task EXCEPT ![t].stage = "Copy", ![t].stream = stream]
     /\ UNCHANGED <<nextSequence, copying, stopping, exited, cuda>>

\* createEvent, the asynchronous copy, recordEvent.
QueueCopy(t) ==
  /\ task[t].stage = "Copy"
  /\ task' = [task EXCEPT ![t].stage = "Wait", ![t].event = TRUE]
  /\ copying' = copying \cup {t}
  /\ UNCHANGED <<nextSequence, stopping, exited, cuda>>

\* The device.
CopyDone(t) ==
  /\ t \in copying
  /\ copying' = copying \ {t}
  /\ UNCHANGED <<task, nextSequence, stopping, exited, cuda>>

\* Mutant of EventWaited: the event is not waited for.
EventNotWaited(t) ==
  /\ task[t].stage = "Wait"
  /\ task' = [task EXCEPT ![t].stage = "Finish", ![t].event = FALSE,
                          ![t].stream = "None"]
  /\ UNCHANGED <<nextSequence, copying, stopping, exited, cuda>>

\* waitEvent returns; event and stream are given back.
EventWaited(t) ==
  /\ task[t].stage = "Wait"
  /\ t \notin copying
  /\ task' = [task EXCEPT ![t].stage = "Finish", ![t].event = FALSE,
                          ![t].stream = "None"]
  /\ UNCHANGED <<nextSequence, copying, stopping, exited, cuda>>

Abandon(t) ==
  /\ task[t].stage = "Finish"
  /\ task[t].cancelled
  /\ AnswerWith(t, "Cancelled")

Keep(t) ==
  /\ task[t].stage = "Finish"
  /\ ~task[t].cancelled
  /\ To(t, "Publish")

Publish(t) ==
  /\ task[t].stage = "Publish"
  /\ AnswerWith(t, "Completed")

\* A worker waiting for a stream's mutex cannot throw; createStream can.
MayThrow(t) ==
  \/ task[t].stage \in {"Read", "Copy", "Wait", "Publish"}
  \/ task[t].stage = "Stream" /\ ~cuda

\* Mutant of Throw: the handler forgets the event.
ThrowKeepsEvent(t) ==
  /\ MayThrow(t)
  /\ task' = [task EXCEPT ![t].stage = "Unwind", ![t].answer = "Failed"]
  /\ UNCHANGED <<nextSequence, copying, stopping, exited, cuda>>

\* The loader, a size check, an allocation, the backend or the callback threw.
\* A stream of the task's own is destroyed with the event; the lock of a
\* shared one lives until the end of the iteration, after the promise is set.
Throw(t) ==
  /\ MayThrow(t)
  /\ task' = [task EXCEPT ![t].stage = "Unwind", ![t].answer = "Failed",
                          ![t].event = FALSE,
                          ![t].stream = IF @ = "Own" THEN "None" ELSE @]
  /\ UNCHANGED <<nextSequence, copying, stopping, exited, cuda>>

\* Mutant of Unwind: the stream's mutex is never unlocked.
UnwindLocked(t) ==
  /\ task[t].stage = "Unwind"
  /\ task' = [task EXCEPT ![t].stage = "Done", ![t].by = NoWorker]
  /\ UNCHANGED <<nextSequence, copying, stopping, exited, cuda>>

Unwind(t) ==
  /\ task[t].stage = "Unwind"
  /\ task' = [task EXCEPT ![t].stage = "Done", ![t].by = NoWorker,
                          ![t].stream = "None"]
  /\ UNCHANGED <<nextSequence, copying, stopping, exited, cuda>>

-----------------------------------------------------------------------------
TaskStep(t) ==
  \/ Drop(t) \/ Load(t) \/ Discard(t) \/ Loaded(t)
  \/ LockStream(t) \/ QueueCopy(t) \/ EventWaited(t)
  \/ Abandon(t) \/ Keep(t) \/ Publish(t)
  \/ Throw(t) \/ Unwind(t)

WorkerStep(w) == Exit(w) \/ \E t \in Transfer : Pop(w, t)

\* shutdown has joined the workers.
Stopped == exited = Worker /\ UNCHANGED vars

Next ==
  \/ \E t \in Transfer : Submit(t) \/ Cancel(t) \/ TaskStep(t) \/ CopyDone(t)
  \/ \E w \in Worker : WorkerStep(w)
  \/ Shutdown
  \/ Stopped

\* The workers run, and the device completes what is queued on a stream.  A
\* mutex may be taken by others first, as often as there are tasks.
Fairness ==
  /\ \A t \in Transfer : WF_vars(TaskStep(t)) /\ WF_vars(CopyDone(t))
  /\ \A w \in Worker : WF_vars(WorkerStep(w))

Spec == Init /\ [][Next]_vars /\ Fairness
-----------------------------------------------------------------------------
(* What the manager promises. *)

\* Every variable has its type.
TypeOK ==
  /\ task \in [Transfer -> Task]
  /\ nextSequence \in Nat
  /\ copying \subseteq Transfer
  /\ stopping \in BOOLEAN
  /\ exited \subseteq Worker
  /\ cuda \in BOOLEAN

InWork == {"Check", "Read", "Stream", "Copy", "Wait", "Finish", "Publish", "Unwind"}

\* On every way out of the loop (cancelled, failed, handed over, completed)
\* the task has given back its event, its stream and its worker, and was
\* answered; a worker has one task; a shared stream has one user.
HandlesReturned ==
  /\ \A t \in Transfer :
       /\ task[t].by # NoWorker <=> task[t].stage \in InWork
       /\ task[t].stream # "None" => task[t].stage \in {"Copy", "Wait", "Unwind"}
       /\ task[t].event <=> task[t].stage = "Wait"
       /\ task[t].answer # Unanswered <=> task[t].stage \in {"Unwind", "Done"}
       /\ task[t].by \notin exited
  /\ \A t, u \in Transfer : t # u =>
       /\ task[t].by = task[u].by => task[t].by = NoWorker
       /\ task[t].stream = task[u].stream => task[t].stream \in {"None", "Own"}

\* docs/design-decisions.md:174, "futures are published only after the event
\* is synchronized": a completed transfer has no copy outstanding.
CompleteIsCopied ==
  \A t \in copying :
    task[t].stage = "Wait" \/ task[t].answer = "Failed"

PhaseOf(t) ==
  IF task[t].answer # Unanswered THEN task[t].answer
  ELSE CASE task[t].stage = "Free" -> "Free"
         [] task[t].stage \in {"Queued", "Check"} -> "Waiting"
         [] task[t].stage = "Read" -> "Reading"
         [] OTHER -> "Copying"

Service == INSTANCE TransferService
  WITH phase <- [t \in Transfer |-> PhaseOf(t)],
       cancelled <- [t \in Transfer |-> task[t].cancelled],
       closed <- stopping

\* The manager implements TransferService: one answer each, no completion of
\* what was cancelled before it had been read, nothing accepted or newly
\* cancelled by shutdown beyond what was waiting.
Implements == Service!Spec

\* Every accepted transfer is answered, through contention for the streams,
\* failures that leave a stream locked for a while, and shutdown.
Answered ==
  \A t \in Transfer :
    task[t].stage = "Queued" ~> task[t].answer # Unanswered

\* shutdown returns: every worker exits.
ShutdownReturns == stopping ~> exited = Worker
=============================================================================
