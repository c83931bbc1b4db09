------------------------------- MODULE Device -------------------------------
(***************************************************************************)
(* Device memory under asynchronous work.  The tensor backend              *)
(* (tensor/backend/CudaTensorBackend.cpp) and the TransferManager each own *)
(* a CudaMemoryPool over the same device; work is queued on CUDA streams   *)
(* and runs later; GpuEventQueue keeps the operands of queued work alive   *)
(* until an event says it is done, and copies wait for events.             *)
(*                                                                         *)
(* Host threads: one executor, which has one operation of the tensor       *)
(* backend under way at a time, a transfer worker per copy stream, and the *)
(* manager evicting expert weights.  Each stream runs its queue in order,  *)
(* beside the others.  The values of tensors are abstracted to labels:     *)
(* which operation wrote a block last.                                     *)
(*                                                                         *)
(* One executor is a restriction of the model and no guarantee of the code *)
(* (PackedModelRuntime::forward locks its cache check only, and the mutex  *)
(* of MoERuntime covers executeBatch): two threads generating at once, each *)
(* on tensors of its own, are outside it.                                  *)
(***************************************************************************)
EXTENDS Integers, Sequences, SequencesExt, FiniteSets, FiniteSetsExt

CONSTANTS Alignment,           \* kAlignment
          DeviceBytes,         \* device memory cudaMalloc can hand out
          MaximumCachedBytes,  \* per pool
          TensorSizes,         \* byte sizes of the tensors the executor makes
          ScratchSize,         \* byte size of a temporary
          ExpertSize,          \* byte size of an expert's weights
          Experts,
          Copiers,             \* TransferManager's streams: transfer, prefetch
          MaxTensors,          \* bound: tensors the executor holds at once
          MaxCalls,            \* bound: operations and copies
          MaxCallsFaulty,      \* bound: those around a CUDA call that fails
          MaxFaults            \* bound: CUDA calls that fail

ASSUME DeviceAssumption ==
  /\ Alignment \in Nat \ {0}
  /\ \A n \in TensorSizes \cup {ScratchSize, ExpertSize} : n \in Nat \ {0}
  /\ MaximumCachedBytes \in Nat /\ DeviceBytes \in Nat
ASSUME CopiersAssumption == Copiers \subseteq {"transfer", "prefetch"}
ASSUME BoundsAssumption == {MaxCalls, MaxCallsFaulty, MaxFaults} \subseteq Nat

Blocks == 1 .. DeviceBytes \div Alignment  \* at least one unit each
NoBlock == 0
Unwritten == 0
Labels == (0 .. MaxCalls) \cup Experts

Pools == {"tensor", "transfer"}
Streams == {"compute", "copy"} \cup Copiers

VARIABLES
  heap,     \* the allocations of CudaBackend, the two pools, and the blocks
            \* whose cudaFree fails
  holds,    \* block -> label of the data in it
  written,  \* the tensors some queued or finished work has written
  streams,  \* stream -> the work queued on it
  pending,  \* GpuEventQueue::pending_
  tensors,  \* blocks of the tensors the executor holds
  exec,     \* the executor's call: [pc, owners, calls]
  weights,  \* expert -> block of its resident weights
  copier,   \* copy stream -> [expert, block] of the transfer it waits for
  faults

vars == <<heap, holds, written, streams, pending, tensors, exec, weights, copier, faults>>

Idle == [pc |-> "idle", owners |-> {}, calls |-> 0]
NoTransfer == [expert |-> Unwritten, block |-> NoBlock]

\* Who keeps a DeviceBuffer alive: tensors, a call's pins and scope, records of
\* unfinished operations, resident weights and transfers under way.
Owned(records) == UNION {records[i].owners : i \in DOMAIN records}
Elsewhere ==
  (tensors \cup {weights[e] : e \in Experts} \cup {copier[c].block : c \in Copiers})
    \ {NoBlock}
References == Elsewhere \cup exec.owners \cup Owned(pending)

-----------------------------------------------------------------------------
(* Streams.  An event recorded on a stream is the item it follows, complete *)
(* once that item has run; an item may have to wait for one.                *)

NoEvent == <<0, 0>>
Work(id, after, reads, writes) ==
  [id |-> id, after |-> after, reads |-> reads, writes |-> writes]

RecordEvent(queue) == IF queue = <<>> THEN NoEvent ELSE Last(queue).id
EventComplete(event) ==
  \A s \in Streams : \A i \in DOMAIN streams[s] : streams[s][i].id # event
Synchronized(s) == streams[s] = <<>>
Queue(s, items) == streams' = [streams EXCEPT ![s] = @ \o items]

\* The label block b has once the compute work queued so far has run.
Latest(b) ==
  LET writers == {i \in DOMAIN streams["compute"] :
                    \E x \in streams["compute"][i].writes : x[1] = b}
  IN  IF writers = {} THEN holds[b]
      ELSE (CHOOSE x \in streams["compute"][Max(writers)].writes : x[1] = b)[2]
Now(blocks) == {<<b, Latest(b)>> : b \in blocks}

\* cudaFree waits for queued work, so fresh memory is never in use by any.
Touched(b) ==
  \E s \in Streams : \E i \in DOMAIN streams[s] :
    \E x \in streams[s][i].reads \cup streams[s][i].writes : x[1] = b

-----------------------------------------------------------------------------
(* CudaMemoryPool over CudaBackend, as operators on the heap h.             *)

\* Mutant of AlignedSize: the request is not rounded up.
UnalignedSize(size) == size

AlignedSize(size) == ((size + Alignment - 1) \div Alignment) * Alignment

Allocated(h) == {b \in Blocks : h.capacity[b] # 0}
Held(h, p) == h.pool[p].active \cup ToSet(h.pool[p].free)
BytesOf(h, blocks) == MapThenSumSet(LAMBDA b : h.capacity[b], blocks)

EmptyPool == [free |-> <<>>, active |-> {}, accepting |-> TRUE,
              allocatedBytes |-> 0, activeBytes |-> 0, freeBytes |-> 0]

\* CudaBackend::allocate, the memory permitting.
CudaMalloc(h, b, size) == [h EXCEPT !.capacity[b] = size]

\* CudaBackend::free says nothing when cudaSetDevice or cudaFree fails, and the
\* allocation stays.
CudaFree(h, b) == IF b \in h.refused THEN h ELSE [h EXCEPT !.capacity[b] = 0]

\* multimap::lower_bound: the smallest free block that fits, oldest first.
Reusable(h, p, size) ==
  LET free == h.pool[p].free
      fits == {i \in DOMAIN free : h.capacity[free[i]] >= size}
  IN  {i \in fits : \A j \in fits :
         \/ h.capacity[free[i]] < h.capacity[free[j]]
         \/ h.capacity[free[i]] = h.capacity[free[j]] /\ i <= j}

Activate(h, p, b) ==
  [h EXCEPT !.pool[p].active = @ \cup {b}, !.pool[p].activeBytes = @ + h.capacity[b]]

\* allocateDeviceBuffer; block is NoBlock where acquire throws.
Acquire(h, p, request) ==
  LET size == AlignedSize(request)
      reuse == Reusable(h, p, size)
      fresh == {b \in Blocks : h.capacity[b] = 0 /\ ~Touched(b)}
  IN  CASE ~h.pool[p].accepting -> [heap |-> h, block |-> NoBlock]
        [] h.pool[p].accepting /\ reuse # {} ->
             LET i == CHOOSE n \in reuse : TRUE
                 b == h.pool[p].free[i]
                 taken == [h EXCEPT !.pool[p].free = RemoveAt(@, i),
                                    !.pool[p].freeBytes = @ - h.capacity[b]]
             IN  [heap |-> Activate(taken, p, b), block |-> b]
        [] h.pool[p].accepting /\ reuse = {} ->
             IF fresh = {} \/ BytesOf(h, Allocated(h)) + size > DeviceBytes
               THEN [heap |-> h, block |-> NoBlock]
               ELSE LET b == Min(fresh)
                        made == [CudaMalloc(h, b, size) EXCEPT
                                   !.pool[p].allocatedBytes = @ + size]
                    IN  [heap |-> Activate(made, p, b), block |-> b]

\* Mutant of Caches: the blocks already cached are not counted.
CachesEach(q, capacity) == q.accepting /\ capacity <= MaximumCachedBytes

Caches(q, capacity) ==
  /\ q.accepting
  /\ q.freeBytes <= MaximumCachedBytes
  /\ capacity <= MaximumCachedBytes - q.freeBytes

\* release: back to the pool's cache, or to CudaBackend::free when it is full.
Release(h, b) ==
  LET p == CHOOSE p \in Pools : b \in h.pool[p].active
      capacity == h.capacity[b]
      inactive == [h EXCEPT !.pool[p].active = @ \ {b},
                            !.pool[p].activeBytes = @ - capacity]
  IN  IF Caches(h.pool[p], capacity)
        THEN [inactive EXCEPT !.pool[p].free = Append(@, b),
                              !.pool[p].freeBytes = @ + capacity]
        ELSE CudaFree([inactive EXCEPT !.pool[p].allocatedBytes = @ - capacity], b)

ReleaseAll(h, blocks) ==
  LET released[n \in 0 .. Cardinality(Blocks)] ==
        IF n = 0 THEN h
        ELSE IF n \in blocks THEN Release(released[n - 1], n) ELSE released[n - 1]
  IN  IF blocks = {} THEN h ELSE released[Cardinality(Blocks)]

\* shutdown: refuse new requests and drain the cache.
ShutDown(h, p) ==
  LET cached == ToSet(h.pool[p].free)
  IN  [capacity |-> [b \in Blocks |->
                       IF b \in cached \ h.refused THEN 0 ELSE h.capacity[b]],
       refused |-> h.refused,
       pool |-> [h.pool EXCEPT
                   ![p].accepting = FALSE, ![p].free = <<>>, ![p].freeBytes = 0,
                   ![p].allocatedBytes = @ - h.pool[p].freeBytes]]

\* The last owner's shared_ptr releases a block: what nobody refers to any
\* more goes back to its pool, and its data is nobody's to rely on.
Active(h) == h.pool["tensor"].active \cup h.pool["transfer"].active
Reclaimed(h, referenced) == ReleaseAll(h, Active(h) \ referenced)
Reclaim(h) ==
  /\ heap' = Reclaimed(h, References')
  /\ holds' = [b \in Blocks |-> IF b \in Active(h) \ References' THEN Unwritten ELSE holds[b]]

Init ==
  /\ heap = [capacity |-> [b \in Blocks |-> 0], pool |-> [p \in Pools |-> EmptyPool],
             refused |-> {}]
  /\ holds = [b \in Blocks |-> Unwritten]
  /\ written = {}
  /\ streams = [s \in Streams |-> <<>>]
  /\ pending = <<>>
  /\ tensors = {}
  /\ exec = Idle
  /\ weights = [e \in Experts |-> NoBlock]
  /\ copier = [c \in Copiers |-> NoTransfer]
  /\ faults = 0

\* A failure is in one of the first MaxCallsFaulty calls, beside them, or in the
\* collect() that follows; no calls beyond those are made then.
MayCall == exec.calls < MaxCalls /\ (faults > 0 => exec.calls < MaxCallsFaulty)
MayThrow == faults < MaxFaults /\ exec.calls <= MaxCallsFaulty
Fault == faults < MaxFaults /\ exec.calls < MaxCallsFaulty /\ faults' = faults + 1

\* From here on the driver does not take block b back: the choice, made ahead of
\* the call, that CudaBackend::free of b will fail.
Refuse(b) ==
  /\ b \in Allocated(heap) \ heap.refused
  /\ Fault
  /\ heap' = [heap EXCEPT !.refused = @ \cup {b}]
  /\ UNCHANGED <<holds, written, streams, pending, tensors, exec, weights, copier>>

-----------------------------------------------------------------------------
(* GpuEventQueue.                                                           *)

\* collect() removes the records of complete operations; a failing query or an
\* invalid elapsed time throws at its record and keeps the rest.
Unfinished(r) == ~EventComplete(r.event)
Kept(records) ==
  LET kept[n \in 0 .. Len(records)] ==
        IF n = 0 THEN <<>>
        ELSE IF Unfinished(records[n]) THEN Append(kept[n - 1], records[n]) ELSE kept[n - 1]
  IN  kept[Len(records)]
Collected ==
  {[records |-> Kept(pending), threw |-> FALSE]} \cup
  {[records |-> Kept(SubSeq(pending, 1, i - 1)) \o SubSeq(pending, i, Len(pending)),
    threw |-> TRUE] :
     i \in {j \in DOMAIN pending : MayThrow /\ EventComplete(pending[j].event)}}

Charged(c) == faults' = IF c.threw THEN faults + 1 ELSE faults

\* Mutant of Finished: the record does not keep the operation's operands.
FinishedBare(event, owners) == [event |-> event, owners |-> {}]

\* finish(): the end event is queued behind the work, its owners kept with it.
Finished(event, owners) == [event |-> event, owners |-> owners]

-----------------------------------------------------------------------------
(* The tensor backend's operations: what each pins, allocates, queues and   *)
(* waits for.  Checks of shapes, dtypes and devices throw before any of it. *)

Kernel(inputs) ==
  [collects |-> FALSE,   \* collect() before anything else
   inputs |-> inputs,    \* tensors read, at most
   expert |-> FALSE,     \* reads an expert's resident weights too
   outputs |-> 1,        \* tensors written, at most
   aliases |-> FALSE,    \* an output may be an input
   inPlace |-> FALSE,    \* reads what it writes
   scratch |-> 0,        \* device temporaries
   uploads |-> FALSE,    \* filled from the host, on the compute stream
   launches |-> 1,
   readsBack |-> FALSE,  \* copies the temporaries to the host, after finish()
   syncs |-> FALSE]      \* waits for the compute stream, then collects

Matmul == [Kernel(2) EXCEPT !.collects = TRUE]
MatmulExpert == [Kernel(1) EXCEPT !.collects = TRUE, !.expert = TRUE]
MatmulInt8Expert == [MatmulExpert EXCEPT !.scratch = 1]
Add == [Kernel(2) EXCEPT !.launches = 2]
Mul == Kernel(2)
RmsNorm == [Kernel(2) EXCEPT !.aliases = TRUE]
ApplyActivation == [Kernel(1) EXCEPT !.aliases = TRUE]
ApplyRoPE == [Kernel(0) EXCEPT !.inPlace = TRUE]
\* routeTopK once its matmul has made the logits: they are normalised in place.
RouteTopK == [Kernel(0) EXCEPT !.inPlace = TRUE, !.scratch = 2, !.readsBack = TRUE,
                               !.syncs = TRUE]
CausalAttention == [Kernel(3) EXCEPT !.outputs = 3, !.aliases = TRUE]
GatherRows == [Kernel(1) EXCEPT !.aliases = TRUE, !.scratch = 1, !.uploads = TRUE,
                                !.syncs = TRUE]
ScatterAddRows == [GatherRows EXCEPT !.inPlace = TRUE, !.scratch = 2]
Zero == Kernel(0)

Operations ==
  {Matmul, MatmulExpert, MatmulInt8Expert, Add, Mul, RmsNorm, ApplyActivation, ApplyRoPE,
   RouteTopK, CausalAttention, GatherRows, ScatterAddRows, Zero}

\* The operands a call can get past its checks.
Operands(op, ins, outs) ==
  /\ ins \subseteq written /\ Cardinality(ins) <= op.inputs
  /\ op.inputs > 0 => ins # {}
  /\ outs # {} /\ Cardinality(outs) <= op.outputs
  /\ op.aliases \/ ins \cap outs = {}
  /\ op.inPlace => outs \subseteq written

\* The scratch buffers of op from heap h; too few where an allocation throws.
Scratch(h, op) ==
  LET taken[n \in 0 .. op.scratch] ==
        IF n = 0 THEN [heap |-> h, blocks |-> {}]
        ELSE LET a == Acquire(taken[n - 1].heap, "tensor", ScratchSize)
             IN  [heap |-> a.heap, blocks |-> taken[n - 1].blocks \cup ({a.block} \ {NoBlock})]
  IN  taken[op.scratch]

Uploads(op, temporaries, n) ==
  IF op.uploads THEN SetToSeq({Work(<<n, -b>>, NoEvent, {}, {<<b, n>>}) : b \in temporaries})
  ELSE <<>>

\* Each launch of op: it reads its inputs as the work queued before it leaves
\* them, and labels what it writes with the number of the call.
Launches(op, reads, outs, temporaries, n) ==
  LET filled == {<<b, n>> : b \in temporaries}
      inputs == reads \cup (IF op.inPlace THEN Now(outs) ELSE {})
                  \cup (IF op.uploads THEN filled ELSE {})
      writes == {<<b, n>> : b \in outs} \cup (IF op.uploads THEN {} ELSE filled)
  IN  [k \in 1 .. op.launches |-> Work(<<n, k>>, NoEvent, inputs, writes)]

\* The copies to the host, queued behind the end event.
ReadBacks(op, temporaries, n) ==
  IF op.readsBack
    THEN SetToSeq({Work(<<n, op.launches + b>>, NoEvent, {<<b, n>>}, {}) : b \in temporaries})
    ELSE <<>>

\* The expert weights op may be given: views over resident ones, read as the
\* transfer left them.
WeightViews(op) ==
  IF op.expert THEN {{<<weights[e], e>>} : e \in {x \in Experts : weights[x] # NoBlock}}
  ELSE {{}}

Finish(pc, owners) == exec' = [pc |-> pc, owners |-> owners, calls |-> exec.calls + 1]

\* What every operation does up to its first queued work: collect(), pin its
\* operands, and allocate, unless collect threw.
Collects(op) ==
  IF op.collects THEN Collected ELSE {[records |-> pending, threw |-> FALSE]}
Pinned(ins, outs, views) == ins \cup outs \cup {x[1] : x \in views}
Begin(op, pinned, c) ==
  LET h == Reclaimed(heap, Elsewhere \cup pinned \cup Owned(c.records))
  IN  IF c.threw THEN [heap |-> h, blocks |-> {}] ELSE Scratch(h, op)

\* The operation queues its work and its end event, and keeps its operands in
\* the event queue; an exception before that leaves nothing queued.
Call(op, ins, outs, views, c, s) ==
  LET n == exec.calls + 1
      owners == Pinned(ins, outs, views) \cup s.blocks
      items == Uploads(op, s.blocks, n)
                 \o Launches(op, Now(ins) \cup views, outs, s.blocks, n)
  IN  /\ UNCHANGED <<tensors, weights, copier>>
      /\ Charged(c)
      /\ IF c.threw \/ Cardinality(s.blocks) < op.scratch
           THEN /\ pending' = c.records
                /\ Finish("idle", {})
                /\ UNCHANGED <<written, streams>>
           ELSE /\ Queue("compute", items \o ReadBacks(op, s.blocks, n))
                /\ pending' = Append(c.records, Finished(RecordEvent(items), owners))
                /\ written' = written \cup outs
                /\ IF op.syncs THEN Finish("syncing", owners) ELSE Finish("idle", {})
      /\ Reclaim(s.heap)

\* Mutant of AbortPins: an aborted scope lets its owners go at once.
AbortPinsNothing(owners) == {}

\* ~Scope before finish(): the owners stay until the stream is synchronized.
AbortPins(owners) == owners

\* begin, a launch or the end event fails after k of the launches.
FailCall(op, ins, outs, views, c, s) ==
  LET n == exec.calls + 1
      owners == Pinned(ins, outs, views) \cup s.blocks
      launches == Launches(op, Now(ins) \cup views, outs, s.blocks, n)
  IN  /\ ~c.threw /\ Cardinality(s.blocks) = op.scratch
      /\ Fault
      /\ \E k \in 0 .. op.launches :
           /\ Queue("compute", Uploads(op, s.blocks, n) \o SubSeq(launches, 1, k))
           /\ written' = IF k = 0 THEN written ELSE written \cup outs
      /\ pending' = c.records
      /\ Finish("aborting", AbortPins(owners))
      /\ UNCHANGED <<tensors, weights, copier>>
      /\ Reclaim(s.heap)

\* An upload fails, or a view has expired, when no scope guards the temporaries
\* yet: they go back to the pool with copies into them still queued.
FailUpload(op, ins, outs, views, c, s) ==
  /\ op.uploads /\ Cardinality(s.blocks) = op.scratch
  /\ Fault
  /\ \E k \in 0 .. op.scratch :
       Queue("compute", SubSeq(Uploads(op, s.blocks, exec.calls + 1), 1, k))
  /\ pending' = c.records
  /\ Finish("idle", {})
  /\ UNCHANGED <<written, tensors, weights, copier>>
  /\ Reclaim(s.heap)

\* A copy to the host fails when the scope is finished: the temporaries are left
\* to the record.  What the copies queued before it read is for nobody any more.
FailReadBack(op, ins, outs, views, c, s) ==
  LET items == Launches(op, Now(ins), outs, s.blocks, exec.calls + 1)
      owners == Pinned(ins, outs, views) \cup s.blocks
  IN  /\ op.readsBack /\ Cardinality(s.blocks) = op.scratch
      /\ Fault
      /\ Queue("compute", items)
      /\ pending' = Append(c.records, Finished(RecordEvent(items), owners))
      /\ written' = written \cup outs
      /\ Finish("idle", {})
      /\ UNCHANGED <<tensors, weights, copier>>
      /\ Reclaim(s.heap)

Return ==
  /\ exec' = [exec EXCEPT !.pc = "idle", !.owners = {}]
  /\ UNCHANGED <<written, streams, tensors, weights, copier>>
  /\ Reclaim(heap)

AbortEnds ==
  /\ exec.pc = "aborting" /\ Synchronized("compute")
  /\ UNCHANGED <<pending, faults>>
  /\ Return

\* synchronizeExecution, and the end of an operation that synchronizes.
Synchronize ==
  /\ exec.pc = "idle" /\ MayCall
  /\ Finish("syncing", {})
  /\ UNCHANGED <<heap, holds, written, streams, pending, tensors, weights, copier, faults>>

SyncEnds ==
  /\ exec.pc = "syncing" /\ Synchronized("compute")
  /\ \E c \in Collected : pending' = c.records /\ Charged(c)
  /\ Return

-----------------------------------------------------------------------------
(* copyTensor: on the copy stream, after the compute work queued so far.    *)

\* Mutant of CopyAfter: the copy does not wait for the compute stream.
CopyAtOnce(ready, ins, outs, n) ==
  Work(<<n, 1>>, NoEvent, Now(ins), {<<b, n>> : b \in outs})

CopyAfter(ready, ins, outs, n) ==
  Work(<<n, 1>>, ready, Now(ins), {<<b, n>> : b \in outs})

\* One side may be a host tensor; two host tensors never reach the device.
Copyable(ins, outs) ==
  /\ ins \subseteq written
  /\ Cardinality(ins) <= 1 /\ Cardinality(outs) <= 1 /\ ins \cup outs # {}

CopyTensor(ins, outs) ==
  /\ Copyable(ins, outs)
  /\ LET ready == RecordEvent(streams["compute"])
     IN  Queue("copy", <<CopyAfter(ready, ins, outs, exec.calls + 1)>>)
  /\ written' = written \cup outs
  /\ Finish("copying", ins \cup outs)
  /\ UNCHANGED <<heap, holds, pending, tensors, weights, copier, faults>>

CopyEnds ==
  /\ exec.pc = "copying" /\ EventComplete(<<exec.calls, 1>>)
  /\ \E c \in Collected : pending' = c.records /\ Charged(c)
  /\ Return

\* A CUDA call fails part-way: synchronize the copy stream before unwinding.
FailCopy(ins, outs) ==
  /\ Copyable(ins, outs)
  /\ Fault
  /\ LET ready == RecordEvent(streams["compute"])
     IN  \/ /\ Queue("copy", <<CopyAfter(ready, ins, outs, exec.calls + 1)>>)
            /\ written' = written \cup outs
         \/ UNCHANGED <<streams, written>>
  /\ Finish("barrier", ins \cup outs)
  /\ UNCHANGED <<heap, holds, pending, tensors, weights, copier>>

BarrierEnds ==
  /\ exec.pc = "barrier" /\ Synchronized("copy")
  /\ UNCHANGED <<pending, faults>>
  /\ Return

-----------------------------------------------------------------------------
(* Tensors come and go; the backend is torn down with the executor.         *)

AllocateTensor(size) ==
  /\ exec.pc = "idle" /\ Cardinality(tensors) < MaxTensors
  /\ LET a == Acquire(heap, "tensor", size)
     IN  /\ a.block # NoBlock
         /\ heap' = a.heap
         /\ tensors' = tensors \cup {a.block}
  /\ UNCHANGED <<holds, written, streams, pending, exec, weights, copier, faults>>

DropTensor(b) ==
  /\ exec.pc \in {"idle", "closing", "closed"} /\ b \in tensors
  /\ tensors' = tensors \ {b}
  /\ written' = written \ {b}
  /\ UNCHANGED <<streams, pending, exec, weights, copier, faults>>
  /\ Reclaim(heap)

Close(p) == heap' = ShutDown(Reclaimed(heap, References'), p)

\* The packed runtime's members go in reverse: the manager with its weights,
\* the TransferManager and its pool, then the tensor backend.
CloseTransfers ==
  /\ exec.pc = "idle"
  /\ \A c \in Copiers : copier[c] = NoTransfer
  /\ weights' = [e \in Experts |-> NoBlock]
  /\ exec' = [exec EXCEPT !.pc = "closing"]
  /\ UNCHANGED <<holds, written, streams, pending, tensors, copier, faults>>
  /\ Close("transfer")

\* ~CudaTensorBackend synchronizes, the event queue waits for its records'
\* streams, and the pool shuts down.
CloseBackend ==
  /\ exec.pc = "closing"
  /\ Synchronized("compute") /\ Synchronized("copy")
  /\ pending' = <<>>
  /\ exec' = [exec EXCEPT !.pc = "closed"]
  /\ UNCHANGED <<holds, written, streams, tensors, weights, copier, faults>>
  /\ Close("tensor")

-----------------------------------------------------------------------------
(* The TransferManager's workers and the manager's evictions.               *)

Loading(e) == \E c \in Copiers : copier[c].expert = e
Transfer(c) == <<0, IF c = "transfer" THEN 1 ELSE 2>>
Loadable(c, e) ==
  /\ exec.pc \notin {"closing", "closed"}
  /\ copier[c] = NoTransfer /\ weights[e] = NoBlock /\ ~Loading(e)

StartTransfer(c, e) ==
  /\ Loadable(c, e)
  /\ LET a == Acquire(heap, "transfer", ExpertSize)
     IN  /\ a.block # NoBlock
         /\ heap' = a.heap
         /\ copier' = [copier EXCEPT ![c] = [expert |-> e, block |-> a.block]]
         /\ Queue(c, <<Work(Transfer(c), NoEvent, {}, {<<a.block, e>>})>>)
  /\ UNCHANGED <<holds, written, pending, tensors, exec, weights, faults>>

\* copyToDevice throws with nothing queued, and the device buffer unwinds.
FailTransfer(c, e) ==
  /\ Loadable(c, e)
  /\ Fault
  /\ UNCHANGED <<written, streams, pending, tensors, exec, weights, copier>>
  /\ LET a == Acquire(heap, "transfer", ExpertSize)
     IN  a.block # NoBlock /\ Reclaim(a.heap)

\* waitEvent returns: the manager adopts the buffer, or a cancelled transfer
\* drops it.
FinishTransfer(c, adopt) ==
  /\ copier[c] # NoTransfer /\ EventComplete(Transfer(c))
  /\ weights' = IF adopt THEN [weights EXCEPT ![copier[c].expert] = copier[c].block]
                ELSE weights
  /\ copier' = [copier EXCEPT ![c] = NoTransfer]
  /\ UNCHANGED <<written, streams, pending, tensors, exec, faults>>
  /\ Reclaim(heap)

\* No lease covers e between two operations, and the work already queued on
\* its weights may not have run.
Evict(e) ==
  /\ weights[e] # NoBlock /\ weights[e] \notin exec.owners
  /\ weights' = [weights EXCEPT ![e] = NoBlock]
  /\ UNCHANGED <<written, streams, pending, tensors, exec, copier, faults>>
  /\ Reclaim(heap)

-----------------------------------------------------------------------------
(* A stream takes its next item.                                            *)

Runnable(s) == streams[s] # <<>> /\ EventComplete(Head(streams[s]).after)

RunItem(s) ==
  /\ Runnable(s)
  /\ holds' = [b \in Blocks |->
                 LET new == {x \in Head(streams[s]).writes : x[1] = b}
                 IN  IF new = {} THEN holds[b] ELSE (CHOOSE x \in new : TRUE)[2]]
  /\ streams' = [streams EXCEPT ![s] = Tail(@)]
  /\ UNCHANGED <<heap, written, pending, tensors, exec, weights, copier, faults>>

-----------------------------------------------------------------------------
Operate ==
  /\ exec.pc = "idle" /\ MayCall
  /\ \E op \in Operations, ins, outs \in SUBSET tensors :
       /\ Operands(op, ins, outs)
       /\ \E views \in WeightViews(op), c \in Collects(op) :
            \E s \in {Begin(op, Pinned(ins, outs, views), c)} :
              \/ Call(op, ins, outs, views, c, s)
              \/ FailCall(op, ins, outs, views, c, s)
              \/ FailUpload(op, ins, outs, views, c, s)
              \/ FailReadBack(op, ins, outs, views, c, s)

Copy ==
  /\ exec.pc = "idle" /\ MayCall
  /\ \E ins, outs \in SUBSET tensors : CopyTensor(ins, outs) \/ FailCopy(ins, outs)

Executor ==
  \/ Operate \/ AbortEnds \/ Synchronize \/ SyncEnds
  \/ Copy \/ CopyEnds \/ BarrierEnds
  \/ \E size \in TensorSizes : AllocateTensor(size)
  \/ \E b \in Blocks : DropTensor(b)
  \/ CloseTransfers \/ CloseBackend

Transfers ==
  \/ \E c \in Copiers, e \in Experts : StartTransfer(c, e) \/ FailTransfer(c, e)
  \/ \E c \in Copiers, adopt \in BOOLEAN : FinishTransfer(c, adopt)
  \/ \E e \in Experts : Evict(e)

Next ==
  \/ Executor \/ Transfers
  \/ \E s \in Streams : RunItem(s)
  \/ \E b \in Blocks : Refuse(b)

Spec == Init /\ [][Next]_vars

-----------------------------------------------------------------------------
(* Properties.                                                              *)

\* Type correctness: blocks have aligned capacities, queues hold well-formed
\* work, and the pools' statistics are the unsigned counters of the code.
TypeOK ==
  /\ \A b \in Blocks : heap.capacity[b] \in 0 .. DeviceBytes /\ heap.capacity[b] % Alignment = 0
  /\ heap.refused \subseteq Blocks
  /\ \A p \in Pools :
       /\ heap.pool[p].active \subseteq Blocks /\ ToSet(heap.pool[p].free) \subseteq Blocks
       /\ {heap.pool[p].allocatedBytes, heap.pool[p].activeBytes,
           heap.pool[p].freeBytes} \subseteq 0 .. DeviceBytes
  /\ holds \in [Blocks -> Labels] /\ written \subseteq tensors
  /\ \A s \in Streams : \A i \in DOMAIN streams[s] :
       streams[s][i].writes \subseteq Blocks \X Labels
  /\ tensors \subseteq Blocks
  /\ exec.pc \in {"idle", "syncing", "aborting", "copying", "barrier", "closing", "closed"}
  /\ exec.owners \subseteq Blocks /\ exec.calls \in 0 .. MaxCalls
  /\ weights \in [Experts -> Blocks \cup {NoBlock}]
  /\ faults \in 0 .. MaxFaults

BlocksOf(accesses) == {x[1] : x \in accesses}

\* Work that runs finds in every block it reads what the work queued before it
\* was to leave there, and no work of another stream can run beside it and
\* write what it reads or writes (GpuEventQueue.cpp:51, CudaTensorBackend.cpp:222):
\* whatever is evicted, dropped, reused by either pool or returned to the
\* driver while the work was queued, and whichever call failed half-way.
OrderedAccess ==
  \A s \in Streams : Runnable(s) =>
    LET item == Head(streams[s])
    IN  /\ \A x \in item.reads : holds[x[1]] = x[2] /\ heap.capacity[x[1]] # 0
        /\ \A t \in Streams \ {s} : Runnable(t) =>
             BlocksOf(item.reads \cup item.writes)
               \cap BlocksOf(Head(streams[t]).writes) = {}

\* The pools account for the device's memory (CudaMemoryPool.cpp:47-127): what
\* a pool holds is allocated and is no other pool's, active while somebody owns
\* it and else cached within the limit; the statistics agree; a pool shut down
\* caches nothing; and an allocation that no pool holds any more is one the
\* driver did not take back (CudaMemoryManager.cpp:155-162): it alone is lost,
\* it is never handed out again, and it still counts against the device.
PoolsAccount ==
  /\ \A p \in Pools : Held(heap, p) \subseteq Allocated(heap)
  /\ \A p, q \in Pools : p # q => Held(heap, p) \cap Held(heap, q) = {}
  /\ Allocated(heap) \ UNION {Held(heap, p) : p \in Pools} \subseteq heap.refused
  /\ Active(heap) = References
  /\ \A p \in Pools :
       LET q == heap.pool[p]
       IN  /\ IsInjective(q.free) /\ q.active \cap ToSet(q.free) = {}
           /\ q.activeBytes = BytesOf(heap, q.active)
           /\ q.freeBytes = BytesOf(heap, ToSet(q.free))
           /\ q.allocatedBytes = q.activeBytes + q.freeBytes
           /\ q.freeBytes <= (IF q.accepting THEN MaximumCachedBytes ELSE 0)
  /\ BytesOf(heap, Allocated(heap)) <= DeviceBytes
=============================================================================
