# HyperMoE engine: a TLA+ verification project

HyperMoE runs mixture-of-experts language models whose experts do not fit in
GPU memory. Experts live on NVMe, are staged in RAM and are executed from VRAM
(or RAM). While one layer computes, a predictor asks for the experts the next
layer will probably need. This directory models the engine's control: the
threads, locks, budgets, failures and cancellations that move experts; the
layers that use them; generation with its caches; device memory under
asynchronous work; and the conversion of checkpoints into the artifacts the
engine opens. The arithmetic of the kernels is outside what these tools reason
about.

Source paths below are relative to the repository root (`src/scheduler/...` is
the engine's own `src` directory). `PROJECT.json` lists every definition with
the lines it models.

## 1. Inventory

| Component | State it keeps | Operations | Interacts with |
|---|---|---|---|
| `Scheduler` (`src/scheduler/Scheduler.cpp`) | priority queue, one pending task per expert, retained transfers, speculative keys, workers | schedule, prefetch, cancel, acquire, release, expire, acknowledge, reconcile, shutdown; worker loop | lifecycle machine; TransferManager; event bus |
| `ExpertResidencyStateMachine` (`ExpertState.cpp`) | per expert: lifecycle state, current and target tier, references | register, request, markQueued/Loading/Ready/Failed, acquire, release, beginEviction, reconcile | called by the scheduler with and without its lock |
| `TransferManager` (`src/memory/TransferManager.cpp`) | priority queue, workers, two shared CUDA streams | submit, cancel, shutdown; worker loop with three cancellation checkpoints | DiskLoader, backend, memory pool; clients hold futures |
| `ExpertManager` (`src/experts/expert_manager/`) | location, allocation, buffers and lease count per expert | register, request/move, lease, adopt, prepare, evictUntilWithin | MemoryManager, cache policy; waits for TransferManager with its mutex held |
| `MemoryManager` | used bytes of VRAM and RAM, live allocations | allocate, release | ExpertManager only |
| `MemoryPressureController` | margins | poll | samples MemoryManager, evicts through ExpertManager |
| Cache policies (LRU, LFU, hybrid) | usage per policy id | onAccess, onResident, onEvict, selectVictim | called under ExpertManager's mutex |
| `Prefetcher`, `RuntimeEventBus` | subscribers | predict, publish | Scheduler |
| Predictor, `TransitionDatabase`, `ExpertHistory` (`src/prediction/`) | bounded histories, transition counts, outstanding predictions per stream | record, predict, judge, prefetch | MoERuntime, Scheduler |
| Router (`src/router/`) | configuration | top-k, grouping by expert | MoERuntime |
| `MoERuntime` (`src/core/runtime/`) | in-flight schedules and the lease of a layer | execute a layer: route, observe, prefetch, schedule, stage, adopt, acknowledge, lease, run, release | Scheduler, ExpertManager, router, predictor, executor |
| KV caches (`src/runtime/cache/`) | cached tokens and capacity per layer; sessions and reserved bytes | append, grow, allocate and release a session | attention, sessions |
| Generation (`src/generation/`, `src/runtime/generation/`) | session position and tokens | generate: open, prefill, decode, sample, close | model runtimes, KV cache manager |
| Importer and converters (`src/importer/`, `tools/model_convert/`) | output directory | inspect, validate, pack, verify, clean up | storage, manifest |
| Storage, manifest (`src/storage/`, `src/models/`) | mapped files, index, tensors | load, validate, view, read | packed runtime, converters |
| `CudaMemoryPool`, streams, `GpuEventQueue`, `CudaTensorBackend` | free and active blocks, queued work, records with owners | allocate, release, launch, copy, collect, abort, synchronize | TransferManager, MoERuntime, transformer |
| Tokenizer, samplers, kernels, probes, profiling | numbers, text | compute, report | - |

What makes each correct:

* Scheduler: no accepted request is lost, doubled or overtaken by a lesser one;
  the lifecycle agrees with the work outstanding; retained buffers agree with
  the lifecycle; speculation is bounded; every request is answered and shutdown
  returns.
* TransferManager: each transfer has one answer; cancellation is honoured up to
  the copy; nothing is published before its copy is done; streams and events
  are returned on every path.
* ExpertManager, MemoryManager, MemoryPressureController: the byte accounts
  balance through every failure and stay within the limits; leases are
  honoured; making room never evicts what room is made for; eviction ends.

* MoERuntime, router, predictor: a lease covers every use and ends with it;
  a layer fails only for reasons that can be named, also after one that failed
  half-way; each routed assignment is added once; the executor waits only for
  tasks somebody will complete.
* KV caches, generation: what is reserved covers every growth; the caches hold
  exactly the tokens forwarded; a request that was accepted is served; every
  session is closed.
* Importer, storage, packed runtime: what opens computes with the checkpoint's
  numbers; what was converted opens; nobody else's files are touched.
* Device memory: queued work finds its operands; streams do not conflict; the
  pools account for every block.

The hard behaviours are the ones `PROJECT.json` lists as hazards: coalesced
requests upgraded while two workers pop the queue, calls into the lifecycle
outside the scheduler's lock, decisions used after their lock was released,
transfers that throw between a reservation and its commit, demotions that make
room recursively, leases returned in the middle of an eviction loop, shutdown
joining threads that wait for queues and mutexes, a layer that fails with
experts submitted ahead, sessions admitted against a shared budget, a pass that
fails between two layers, converters killed between two files, weights evicted
while queued kernels still read them.

## 2. Modules

| Module | Models | Lock and step granularity |
|---|---|---|
| `ExpertState` | the lifecycle machine, as one guard and one transform per operation | each operation is one call under its own mutex |
| `Scheduler` | `Scheduler.cpp` on top of `ExpertState` | one action per critical section of `mutex_` or call into `states_` |
| `TransferService` | what clients may assume of `TransferManager` | abstract |
| `TransferManager` | `TransferManager.cpp` | one action per stretch of `workerLoop` between two points where another thread can be seen |
| `ExpertManager` | `expert_manager.cpp`, `memory_manager.cpp`, `MemoryPressureController.cpp` | the operation that holds the mutex is a variable (`job`); leases are returned beside it |
| `Inference` | `Generator`, `InferenceSession`, `Decoder`, KV caches and their manager | one action per stretch of a generating thread between two points where the manager is seen or an exception leaves the caches as they are |
| `ModelManifest` | validation and JSON round trip of a manifest | operators |
| `Checkpoint` | SafeTensors shards, `QwenImporter`, `CheckpointValidator`, tokenizer metadata | operators |
| `Package` | `ExpertPacker`, `RealCheckpointConverter`, `ExpertStore`, `DiskLoader`, construction of `PackedModelRuntime` | one action per file written or read |
| `Routing` | both router backends, `ExpertBatch` | operators |
| `Prediction` | `ExpertHistory`, `TransitionDatabase`, `ExpertPredictor` | operators |
| `MoERuntime` | `MoERuntime::executeBatch` composed with router, predictor, scheduler and manager | a step of the executor ends where it next takes a lock a worker also takes |
| `Device` | `CudaMemoryPool`, `CudaBackend`, streams, `GpuEventQueue`, `CudaTensorBackend`, the TransferManager's copies | one action per host call, one per item a stream runs |
| `MC...` | instances for TLC | - |
| `SchedulerProofs`, `TransferManagerProofs`, `ExpertManagerProofs`, `InferenceProofs`, `PackageProofs`, `DeviceProofs`, `MoERuntimeProofs` | TLAPS proofs | - |
| `FiniteSums` | sums over finite sets and induction over sets of values, for the proofs | - |

### Scheduler and ExpertState

`expert`, `task`, `queue`, `pending`, `resident`, `prefetched`, `nextSequence`
and `stopping` are the members of the class (`states_`, `Task`, `queue_`,
`pendingByExpert_`, `residentTransfers_`, `prefetchedReady_`, ...). `worker` is
each worker thread's place in `workerLoop` and `complete`; `client` is the
place of a thread between `schedule`'s decision that an expert is ready and
`readyResult`'s two later looks at the state.

`schedule` is split by its branches: `ScheduleReady`, `ScheduleCoalesce`,
`ScheduleNew`, `ScheduleReject`. The worker's steps are `Dequeue` (pops stale
entries on the way), `DrainStale`, `Exit`, `BeginCancelled`, `BeginTransfer`
(markLoading, outside the lock and the try block), `TransferCompleted`
(markReady), `TransferLost`, `RecordResidency` (retain, trim), `MarkFailed`,
`Complete` and `Deliver`. Stale queue entries, generations, scores and the
shared cancellation flag are as in the code; the trim loop goes over
the keys in order, including the throw that ends it. Here TransferManager is external: a
transfer completes, fails, or reports the cancellation that was requested.

### TransferManager and TransferService

`task[t]` holds the request, its sequence number, its flag, the stage of the
worker loop it has reached, the worker that carries it, the stream and event it
holds, and its answer. `copying` is what the device still has to do. `cuda`
chooses at construction between the two shared streams, each under a mutex, and
a stream created per copy. An exception is possible wherever the loader, an
allocation, the backend or the callback is called, but not while a worker waits
for a mutex. The handler sets the promise before the stream's lock goes out of
scope (`Unwind`). A hand-over from VRAM to VRAM passes no last checkpoint.

`TransferService` knows only the phase of a transfer, its flag, and whether the
service is closed. `Implements` maps the stages to phases: queued and popped
are both `Waiting`; from the copy to the callback is `Copying`.

### ExpertManager

`loc`, `leases` and `used` are the location, the lease counter and the used
bytes. `orphaned` counts bytes of allocations nobody refers to any more.
`moveExpertLocked` and `makeRoomLocked` call each other, but only to a depth of
one: making room in VRAM demotes a victim to RAM, which may make room in RAM,
whose victims are dropped at once. So `job` holds one mover (the operation's
expert, or the victim being demoted), one destination and one stage, `room` or
`copy`. `Throw` is the control flow of exceptions: a `runtime_error` during a
demotion drops the victim to NVMe and the loop goes on; anything else ends the
operation, and `registerExpert` undoes itself. `poll` is the controller's place
between its two samples.

The manager is the one constructed with a TransferManager, as the engine does.
No caller moves an expert to `PINNED_RAM`. The victim is any candidate that is
not pinned: what the policies promise in common.

### Inference

`call[c]` is a thread's place in `generate` with the locals that decide its
course; `cache` holds tokens and capacity per layer; `sessions`, `reserved`,
`peak` and `nextSessionId` are the cache manager's. A size_t wraps at `SizeMax`,
so the checked sums and the one unchecked sum (`KVCache.cpp:23`) are told apart.
Host caches grow exactly, device caches double and copy. `Fail` is an exception
at any stage of a pass; the session's destructor closes it.

### ModelManifest, Checkpoint, Package

A tensor name is what its pattern encodes, a tensor's bytes are told apart by
tensor and position, so transposition, slicing of fused experts, alignment,
quantization and the ranges of the manifest are modelled by what they move
where. The packer is called with a `Job` (manifest, checkpoint, encoding); what
it has packed (`SoFar`) grows by `WithExpert`, `WithRouters`, `WithLayers` and
`WithIO`, one per part of `ExpertPacker::pack`. A file is absent, being written, whole or cut; a stream's destructor may
lose the tail of what it buffers. The converter may fail or be killed at any
step, and be started again; a runtime may open the directory meanwhile.

### Routing, Prediction, MoERuntime

`run`, `handles`, `warm` and `leased` are `executeBatch`'s locals. `sch` is the
scheduler as the runtime drives it (lifecycle by `ExpertState`, pending tasks,
retained transfers, speculative keys); `mgr` the manager's residency. Those two
components are checked alone and in full by `Scheduler` and `ExpertManager`;
here every expert takes one unit of a budget, and the policy's victim is open.
Buffers have identities, since adoption compares them. One thread executes
(`executionMutex_`), the scheduler's workers run beside it. `mode` chooses CPU
or CUDA, predictor, overlap and budgets. `Throw` is an exception that leaves
`executeBatch`; in the try block the handler releases the expert, or, on the
device, is itself left by its `synchronizeExecution` before it can (`Abandon`).
Scores are integers; the order of
equally eligible predictions, which floating-point probabilities decide, is
open.

### Device

`heap` holds the capacities and the two pools (the tensor backend's and the
TransferManager's) with their counters; `streams` the queued work with what it
reads, writes and waits for; `pending` the records of `GpuEventQueue`; `exec`
the executor's call. The value of a block is the label of the call, or the
expert, that wrote it last. A block nobody refers to is released at once by the
last `shared_ptr`, and its label forgotten. Every tensor operation is a record
of what it pins, allocates, uploads, launches, reads back and waits for, and
three actions (`FailCall`, `FailUpload`, `FailReadBack`) fail it where no scope,
an open scope or a finished scope guards its operands. `heap.refused` are the
blocks whose `cudaFree` (or the `cudaSetDevice` before it) will fail: `Refuse`
makes that choice ahead of the call, and `CudaFree` then leaves the allocation,
as `CudaBackend::free` silently does.

There is one executor, with one operation under way at a time. The code does
not enforce that: `PackedModelRuntime::forward` locks only its cache check, and
`MoERuntime`'s mutex covers `executeBatch`. Two threads that generate at once,
each on its own tensors, are outside this module (`Inference` has them).

## 3. Runs

| Run | Checks | What it shows |
|---|---|---|
| `sched_dispatch` | `TypeOK`, `TaskLedger`, `LifecycleMatchesWork`, `NothingOwedAtExit`, `DispatchOrder` | coalescing, upgrades and stale entries lose, double or reorder nothing; markLoading and markReady cannot throw out of a worker |
| `sched_residency` | `LifecycleMatchesWork`, `RetainedWhereClaimed`, `PrefetchTrimmed` | retained transfers against acquire, expiry, acknowledgement, reconciliation and eviction |
| `sched_liveness` | `ShutdownDrains`, `RequestsAnswered` | every accepted request is answered; shutdown's join returns |
| `transfer` | `TypeOK`, `HandlesReturned`, `CompleteIsCopied`, `Implements`, `Answered`, `ShutdownReturns` | the transfer manager against its service, under cancellation, failure and shutdown at every step |
| `manager` | `TypeOK`, `HolderOwns`, `Accounting`, `LeaseProtects`, `KeepsStaged`, `JobEnds` | accounts, leases, staging and termination of the residency manager |
| `inference` | `TypeOK`, `Admission`, `CacheFollowsTokens`, `AcceptedIsServed`, `SessionsEnd` | two threads generating on one cache manager: budget, cache contents, no late refusal, sessions closed |
| `package` | `TypeOK`, `OpenIsFaithful`, `ConvertedOpens`, `TouchesOnlyItsOwn` | whole and damaged checkpoints, both tools, failures, crashes and retries, a runtime opening the directory at any time |
| `moe` | `TypeOK`, `LeaseCoversUse`, `EachAssignmentOnce`, `FailuresExplained`, `QualityAccounts`, `AwaitsLiveTask` | up to three passes of two layers with one failure anywhere, in the error handler too, on CPU and CUDA |
| `device` | `TypeOK`, `OrderedAccess`, `PoolsAccount` | operations, copies, transfers, evictions, failures (of `cudaFree` too) and tear-down over asynchronous streams |
| `manager_leak` | `NoLeak` (violated) | finding 1 |
| `package_flush` | `ConversionIsTransactional` (violated) | finding 2 |
| `moe_warm` | `DemandConsumesWarmLoad` (violated) | finding 3 |

### Bounds

* Scheduler: two experts, two task slots, two workers (one where client threads
  are modelled), and `MaxPushes` queue pushes. Three pushes are enough for a
  task, an upgrade of it that leaves a stale entry, and a competitor. One byte
  per expert and a budget of one byte make every second prefetch trim. Task
  slots are reused, so the history of a slot is covered too.
* TransferManager: two transfers over five kinds of request (a demanded and a
  prefetched load, a demotion on the demand stream, a load that needs no
  stream, a hand-over) and two workers, with and without CUDA. Two suffice for
  contention on a stream, for a queue behind a busy worker and for shutdown
  between them. Each transfer is submitted once.
* ExpertManager: experts of one, one, two and three bytes in tiers of two (VRAM)
  and three (RAM), targets of one. A load may need two victims, a demotion may
  find RAM full, one expert never fits VRAM, and together they never fit RAM.
  One lease per expert at a time (`MaxLeases`): the code only tests for zero.

* Inference: two callers, geometries of one or two layers of three or four
  tokens, one whose total and one whose per-token size overflow the nine-bit
  size_t; limits that admit one session or two; prompts below, at and above the
  context; two session ids before the counter wraps.
* Package: checkpoints of one layer and two experts, tied and untied, individual
  and fused, one and two shards, with and without index, and twenty-odd ways of
  damaging them; two attempts. Every interaction is between files of one
  attempt, or between an attempt and what another left.
* MoERuntime: two layers (three in `moe_warm`), two experts of which one is
  selected, one or two tokens, three passes: the predictor needs two to predict
  and a third to be judged. Budgets of one and two experts make overlap,
  demotion and refusal happen; both devices, with and without a predictor. One
  fault: what matters is what is left behind.
* Device: five blocks of device memory, a cache of two per pool, two tensors,
  two experts, three calls, one fault; with the fault two calls
  (`MaxCallsFaulty`), enough for a call that fails and one that meets what it
  left, or for a `collect` that throws with two records queued. A transfer's
  block can be an evicted expert's, a tensor's a temporary's. A single copy
  stream of the TransferManager stands for both, which use disjoint blocks of
  one pool.

`package`, `moe` and `device` do not check deadlock: a conversion ends, the
passes are bounded, and a closed backend takes no more calls. In the other runs
`Stopped` stands for a component whose shutdown has joined its workers.

### Fairness

Weak fairness only: of each worker of the scheduler and the transfer manager
(threads run; `condition_variable` wake-ups are notified under the predicate
they test), of the device finishing a queued copy, and of the thread that holds
the expert manager's mutex. The last assumes that TransferManager answers,
which `Answered` shows. Priorities are strict, so an endless stream of demand
could starve lower ones in the code; `RequestsAnswered` and `Answered` hold for
finitely many submissions, which the bounds make explicit. Nothing is assumed
of callers. In `Inference` each generating thread runs (weak fairness of its
own steps): `SessionsEnd` needs nothing else, since no step waits for another
thread. `Package`, `MoERuntime` and `Device` state safety only; that the
executor never waits for ever is the invariant `AwaitsLiveTask`, together with
`RequestsAnswered` of the scheduler.

## 4. Findings

1. `manager_leak`: a cold load whose transfer throws (`expert_manager.cpp:671`)
   leaves its RAM reservation behind for good; the other paths have a handler.
   `tests/phase1_tests.cpp:75` asks that a failed movement leak nothing.
2. `package_flush`: `ModelManifest::save` (`ModelManifest.cpp:605`) leaves the
   flush to the stream's destructor, so a manifest cut short is reported as
   saved, and the verification only asks for a manifest that is not empty.
   `docs/architecture.md:300` calls the conversion transactional.
3. `moe_warm`: a predicted expert that RAM already holds and the layer does not
   select is reconciled to NVMe by expiry although the manager keeps it. The
   next prediction loads a second buffer, and the layer that selects the expert
   fails in `adoptHostWeights` with "expert already owns a different host
   buffer" (`MoERuntime.cpp:221`); the buffer stays retained, so later passes
   fail too. On CUDA the same prefetch of an expert in VRAM makes `schedule`
   throw "different pending target" (`Scheduler.cpp:100`).
   `docs/components/expert-overlap.md:36` says that demand adopts a speculative
   load and that scheduler and manager locations reconcile.

Seen while modelling, inside the models' behaviours but without a run:

Scheduler, manager, transfers:

* A prefetch larger than what is left of the speculative budget is dropped by
  its own completion (`Scheduler.cpp:409`) while its lifecycle stays READY at
  the destination. `docs/architecture.md:432` says a demand never observes "a
  READY state whose data ownership has expired".
* `readyResult` (`Scheduler.cpp:296`) returns success for a state decided under
  a lock released before; an acknowledgement, expiry or eviction in between
  moves the expert (`docs/design-decisions.md:97` has a future exposed "only
  when the destination data is safe to consume").
* `adoptDeviceWeights` (`expert_manager.cpp:427`) moves an expert under an
  active host lease; `adoptHostWeights` refuses.
* Expiry and trimming erase the retained buffer of an expert IN_USE before the
  reconcile that throws for it (`Scheduler.cpp:206`, `:409`), against
  `docs/design-decisions.md:112`. A failing task can also overwrite IN_USE with
  FAILED (`:456`).
* Expiry between markReady (`:377`) and the recording of the transfer (`:394`)
  retains a buffer behind an expert said to be on NVMe. `RetainedWhereClaimed`
  states this exception.
* The cancellation flag belongs to the task: one consumer's cancel fails all
  that coalesced onto it.
* An eviction to NVMe through the scheduler always fails, since
  `TransferManager::submit` refuses that destination; `Scheduler.cpp:391-392`
  is dead.
* A prefetch of an expert that is already resident joins the speculative list
  without trimming (`:97`). That is why `PrefetchTrimmed` speaks of the moment
  a prefetch completes.
* When `recordEvent` or `waitEvent` throws, buffers of a copy that may still
  run go back to the pool (`TransferManager.cpp:366`). `CompleteIsCopied`
  excepts failed transfers.
* The expert manager's own transfers have priority 0 and wait behind all of the
  scheduler's, with the manager's mutex held.

MoERuntime and prediction:

* The handler of a failing expert calls `synchronizeExecution` on the device
  before it releases (`MoERuntime.cpp:335-336`). When that throws too, because
  the stream has failed or `collect` throws at its record, the release is
  skipped: the expert stays IN_USE with no lease, and later layers that reconcile,
  expire or request it throw. `LeaseCoversUse` states this exception and
  `FailuresExplained` its consequence.
* Device buffers the scheduler retains after a layer failed with an expert
  submitted ahead are outside the manager's accounts until they are adopted.
* A retained buffer that a demand takes out of `prefetchedReady_` and then does
  not adopt, because the layer fails, is neither bounded nor expired any more.
* `ExpertHistory::previous_` is one for all streams, so tokens of one layer are
  linked to each other as if they followed.

Generation:

* The sum per token (`KVCache.cpp:23`) is the one sum that is not checked; at
  2^61-1 it wraps to zero and is divided by.
* An append that fails while a device cache grows may leave its capacity raised
  (`CudaKVCache.cpp:62-70`); the tokens it holds are unaffected.
* `InferenceSession` accepts a decode after a failed prefill; `Generator` never
  asks for one.

Conversion and storage:

* Two converters started at once both pass `exists` before either creates the
  directory (`ExpertPacker.cpp:109-112`).
* A crash leaves a partial directory that every retry refuses, and errors of
  `remove_all` are ignored.
* Static tensors have no checksum. `rope_theta` and the epsilons are written
  with six digits.
* I8 checkpoints are always rejected, although `parseSafeTensorDType` accepts
  I8 and `docs/components/model-conversion.md:39` says INT8 is handled.
* `model_inspect` looks for `metadata.json`, which a packed directory does not
  have.

Device memory:

* `recordEvent` or `waitEvent` failing in the TransferManager (`:366`) frees the
  device block with its copy queued. `Device` leaves this fault out: whether the
  copy survives is the driver's business.
* `acquire` does not drain its cache and try again when `cudaMalloc` fails.
* There are two pools with a cache of 512 MiB each, the automatic expert budget
  reserves one.
* `GpuEventQueue::collect` throws at the same record for ever once its event
  query or elapsed time is invalid; records behind it keep their owners.
* `CudaBackend::free` returns silently when `cudaSetDevice` or `cudaFree` fails
  (`CudaMemoryManager.cpp:155-162`), after the pool has dropped the block: the
  allocation stays in the backend's books and nobody frees it again.
  `PoolsAccount` states this exception.

## 5. Proofs

TLAPS proves the following for every value of the constants that satisfies the
named assumptions: experts, workers, tasks, transfers, layers and tokens are
of any number, sizes and limits arbitrary. The assumptions say that
sizes and limits are numbers (`SizeAssumption`, `CapacityAssumption`,
`InferenceAssumption`, `DeviceAssumption`, `BoundsAssumption`, ...), that
requests are well formed (a destination NVMe is rejected before it is queued),
that null values are not members of the sets, and

* that what is summed over is finite (`FiniteAssumption`, `KeyAssumption`,
  `CallerAssumption`);
* that the copy streams are the two `TransferManager` has (`CopiersAssumption`),
  so that their events differ;
* that a `size_t` is a whole number of bytes (`WidthAssumption`), so that the 8
  bytes of a cached position divide the range it wraps in;
* that a checkpoint is what the parsers of `config.json` and of the shards'
  headers produce: numbers where they demand numbers, a sequence of shards with
  a sequence of tensors each (`CheckpointAssumption`). Nothing is assumed of
  what the importer checks itself;
* that the router's configuration passes its own check, scores are comparable
  and a budget holds at least one expert (`MoEAssumption`). The code has the
  last only as the comment `MoERuntime.cpp:254`; without it nothing could run.

The results, module by module:

* `FiniteSums`. The library's induction theorems take an operator. Here the
  induction (`SubsetInduction`, `NatSetInduction`) is over a *set* of the values
  for which the claim holds, which the provers can instantiate. By it the
  recursive function behind `MapThenSumSet` exists and is unique, and a sum can
  be split, bounded and followed through the change of one summand.
* `SchedulerProofs`. `TaskLedger` is not inductive by itself: that a popped
  entry is current needs every waiting task to have exactly one entry of its
  generation, carrying its present priority and score. `LifecycleMatchesWork`
  needs the ledger, because only one unfinished task per expert keeps another
  worker from changing the state. `IndInv` joins both with the types and with
  `ExitedIsDrained`. From it: `TypeCorrect`, `LedgerCorrect`,
  `LifecycleCorrect`, `ExitCorrect`, the action property `DispatchCorrect`, and
  `RetainedCorrect`, which follows the retained transfers through the same
  effects. The proof first classifies each action by its effect (`RaiseEffect`,
  `NewEffect`, `DequeueEffect`, ...) and then proves each part per effect.
  `TrimCorrect` is the action property `PrefetchTrimmed`: by induction over the
  keys the trim loop's running total stays within the bound and, unless the loop
  was thrown out of, is the size of what it lets stand (`Tallied`).
* `TransferManagerProofs`. `Inv` joins types, `HandlesReturned` and
  `CompleteIsCopied`: a completed task has no outstanding copy because the
  stages after `Wait` are only reached once the copy is done, which needs the
  correspondence of stage and answer. `Refinement` shows step by step that the
  manager implements `TransferService`.
* `ExpertManagerProofs`. `IndInv` is `TypeOK` and `HolderOwns`: while the mutex
  is held no lease is given, so what an operation checked stays true although
  leases are returned beside it. From it: `TypeCorrect`, `HolderCorrect`,
  `LeaseCorrect`, `StagedCorrect`; and, with sums, `AccountingCorrect`: every
  step moves the counter of a pool by what it does to the experts' bytes.
* `InferenceProofs`. `SizesChecked` shows that `checkedCacheBytes` tests what it
  must (nothing it accepts has wrapped) and `GrowthEnds` that the doubling loop
  of the device cache ends within the maximum. `Admission` alone is not
  inductive: `Booked` adds that every caller with a session has an id and a
  reservation of its own, `Built` what the constructor computed and `Following`
  how far each layer's cache is at each stage of a pass. From them:
  `TypeCorrect`, `ServedCorrect`, `CacheCorrect` and `AdmissionCorrect`.
* `PackageProofs`. `IndInv` says what a directory holds at each stage of a
  conversion and who made it. From it: `TypeCorrect`, the action property
  `OwnershipCorrect` and `ReturnedCorrect`: what is in the directory when the
  converter returns passed the verification the code does last. `Content`
  (`ContentInvariance`) says what the bytes are: each stage of the packer is a
  function of the manifest, the checkpoint and the encoding (`Job`), so what is
  packed so far, and every file any attempt left, is that package's or a
  beginning of it, and so is whatever a runtime read of them at any time.
  Around it are lemmas about the importer (what it accepts is in shape and has
  unique names, fused or individual), about reading, transposing and quantizing
  (length, and which source element lies at which position), about the packer
  (each range it notes holds the bytes it wrote, because later stages only
  append), and about the manifest (written and read back it is the same but for
  six digits of theta, and still passes `Validate`). From them `OpensCorrect`,
  what the importer and the packer accept the reader, the store and the runtime
  accept too, and `FaithfulCorrect`, what opens is the checkpoint's numbers.
  The proof needed no change of what the model says; a sort, a filter and a
  search that were written with operator arguments or recursion are now written
  as the sequence or number they determine, which the provers can reason about.
* `DeviceProofs`. The loops of the pool (reuse, trimming, release of all, shut
  down) keep `HeapOK`: disjoint blocks, agreeing statistics, bytes within the
  device, and no allocation outside the pools but those `cudaFree` left
  (`refused`). `Inv` adds that the blocks in use are exactly `References`, what
  somebody still owns, through every failure and unwinding. From it
  `PoolsCorrect`, and with the types of queues and labels `TypeCorrect`.
  `OrderCorrect` states `OrderedAccess`. Its invariant `Ordered` replays each
  queue: after the items before it, every block that an item of the compute
  stream reads holds the label it is to read (`Leaves`), and until it has run
  the block is kept by the call that waits for the stream or by a record whose
  event is at or behind the item (`KeptFor`). A queued copy waits for the last
  of the compute work and its call owns what it touches; a transfer's block is
  its own; and the backend writes no block in use or cached by the other pool.
  The last holds although blocks with uploads still queued go back to the driver,
  because fresh memory is never touched by queued work. A step that queues is
  split by how the call ended (`Guards`), which says who guards what it queued.
* `MoERuntimeProofs`. First the router: a sorted enumeration has each element
  once, so the groups of a decision hold each assignment in exactly one group.
  Then what the operators of scheduler, manager and predictor keep, and one
  lemma per action. `Inv` adds to the properties what they rest on: an expert in
  use has no task and no retained transfer, so no worker and no trimming changes
  it; the lease is held exactly from acquire to release, the submission of the
  next expert included; a handle that waits has a pending task; and the
  combined outputs are those of the groups before the current one. From it:
  `TypeCorrect`, `LeaseCorrect`, `AwaitCorrect`, `CombineCorrect` and
  `QualityCorrect`. An expert in use without a lease costs a fault of the
  device. `FailuresCorrect` is `FailuresExplained`: in tiers of at least one
  expert no layer throws for want of room, an unacquirable expert, an unknown
  offset or a lost token, and the scheduler refuses one only after an expert was
  abandoned in use. It does not say that a layer never fails by its own making:
  with a predictor it can, in the two ways finding 3 shows, and the theorem says
  that it takes one. It needs `Outer`, which couples the components: the phase
  of a task fixes its expert's lifecycle state; what the prefetch cache retains
  is a buffer at the tier the lifecycle names; a handle waits for the executing
  tier, so an answer comes with the buffer the executor needs; the groups are
  submitted in order and two at a time only where both fit beside the lease; an
  expert whose offset is unknown is on disk and its load is never dropped after
  the read. Its guard `Dispatchable` follows by counting the assignments of a
  decision twice, by token and by group. And it needs `Demand`: without a
  predictor every task is for the executing tier, and every transfer, task and
  answered handle of an expert the manager holds there is for the manager's own
  buffer. The proof found one slip in the
  model, now mended: the CASE guards of `ScheduleKind` overlapped, and only the
  first is meant.

Only model-checked:

* liveness (`ShutdownDrains`, `RequestsAnswered`, `Answered`, `ShutdownReturns`,
  `JobEnds`, `SessionsEnd`), because fairness and ENABLED are outside the prover.

## 6. Not modelled

Left out of the modelled components: profiler counters, timings, statistics,
event publication, log text, usage and prediction scores (they only reach the
cache policy, whose choice is open), and the bytes of experts.

Not modelled at all: numerical kernels (`CudaKernels.cu`, `CpuTensorBackend`,
attention and expert arithmetic), samplers and tokenizers (floating point and
text); cache-policy orderings (the victim is left open wherever one is chosen);
`ExpertDeviceBudget` and `validateWorkspace` (checked arithmetic on one call's
arguments); `QwenMoEAdapter` and `ExpertStore::create` (formats no conversion
produces); the correctness oracle, profiling, metrics and hardware probes (they
feed nothing back). `timeRegion`'s scope, which owns nothing, is left out of
`Device`, and there a synchronization that fails while an exception is already
unwinding counts as one that waited; `MoERuntime` has that failure. `PROJECT.json` names every component with
its status.

## 7. Plan

Done, in this order: the scheduler with its lifecycle machine; the transfer
manager with its service and refinement; the residency manager with budgets and
pressure; generation with KV caches; checkpoint, manifest, package and storage;
router, predictor and the layer runtime composing them with scheduler and
manager; device memory, streams and events.

Next:

1. An abstract scheduler specification (one answer per request, at most one
   movement per expert) that `Scheduler` implements and that `MoERuntime` uses
   in place of its own composition.
2. Cache policies as pure victim selection: a candidate that is not excluded is
   returned exactly when there is one, which `ExpertManager` relies on.
3. The device-budget arithmetic against the pools `Device` models.
