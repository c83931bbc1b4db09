---------------------------- MODULE ExpertState ----------------------------
(***************************************************************************)
(* The residency lifecycle of one expert: scheduler/ExpertState.cpp.       *)
(*                                                                         *)
(* ExpertResidencyStateMachine keeps one record per (layer, expert) key    *)
(* and guards every transition with its own mutex, so each operation is    *)
(* atomic.  An operation Op is given as a guard CanOp(x), false exactly    *)
(* where the code throws, and the record OpOf(x, ..) it leaves.  A throw   *)
(* leaves the record alone.  lastUsed and usageCount are only reported.    *)
(***************************************************************************)

Tier == {"Vram", "Ram", "PinnedRam", "Nvme"}

\* "Unregistered" stands for a key absent from states_, on which every
\* operation but registerExpert throws out_of_range.
LifecycleState == {"Unregistered", "Requested", "Queued", "Loading", "Ready",
                   "InUse", "Evicting", "Failed"}

ExpertRecord == [current : Tier, target : Tier, state : LifecycleState]

UnregisteredExpert ==
  [current |-> "Nvme", target |-> "Nvme", state |-> "Unregistered"]

IsRegistered(x) == x.state # "Unregistered"

RegisteredAt(location) ==
  [current |-> location, target |-> location, state |-> "Ready"]

\* request: legal when idle, and after a failure, which is how a caller retries.
CanRequest(x) == x.state \in {"Ready", "Failed"}
RequestOf(x, to) == [x EXCEPT !.target = to, !.state = "Requested"]

CanMarkQueued(x) == x.state = "Requested"
MarkQueuedOf(x) == [x EXCEPT !.state = "Queued"]

CanMarkLoading(x) == x.state = "Queued"
MarkLoadingOf(x) == [x EXCEPT !.state = "Loading"]

CanMarkReady(x) == x.state \in {"Loading", "Evicting", "Requested"}
MarkReadyOf(x, location) ==
  [x EXCEPT !.current = location, !.target = location, !.state = "Ready"]

CanAcquire(x) == x.state = "Ready"
AcquireOf(x) == [x EXCEPT !.state = "InUse"]

CanRelease(x) == x.state = "InUse"
ReleaseOf(x) == [x EXCEPT !.state = "Ready"]

CanBeginEviction(x) == x.state = "Ready"
BeginEvictionOf(x, to) == [x EXCEPT !.target = to, !.state = "Evicting"]

\* markFailed has no guard beyond registration: it overrides any state.
MarkFailedOf(x) == [x EXCEPT !.state = "Failed"]

\* Mutant of CanReconcile: a queued expert may be reconciled.
CanReconcileQueued(x) ==
  IsRegistered(x) /\ x.state \notin {"InUse", "Loading", "Evicting"}

\* reconcile: another component owns the bytes now; refused while the expert
\* is being moved or used.
CanReconcile(x) ==
  IsRegistered(x) /\ x.state \notin {"InUse", "Loading", "Queued", "Evicting"}
ReconcileOf(x, location) ==
  [x EXCEPT !.current = location, !.target = location, !.state = "Ready"]
=============================================================================
