--------------------------- MODULE ExpertManager ---------------------------
(***************************************************************************)
(* experts/expert_manager/expert_manager.cpp: where every expert lives,    *)
(* the bytes reserved for it in MemoryManager, the leases that pin it, and *)
(* the evictions that make room.                                           *)
(*                                                                         *)
(* One mutex serialises the operations, which may wait for TransferManager *)
(* while they hold it; job is the operation of the thread that holds it.   *)
(* Leases are atomic counters, given under the mutex and returned at any   *)
(* time.  moveExpertLocked and makeRoomLocked recurse at most once: making *)
(* room in VRAM demotes a victim to RAM, which may make room in RAM, whose *)
(* victims go to NVMe without waiting.  So the recursion is one mover, the *)
(* expert of the operation or the victim it demotes, and one stage.        *)
(*                                                                         *)
(* The manager is the one built with a TransferManager.  No caller moves   *)
(* an expert to PINNED_RAM, so the tiers are three.  Every cache policy    *)
(* returns some candidate that is not excluded if there is one; which one  *)
(* is left open.                                                           *)
(***************************************************************************)
EXTENDS Integers, FiniteSetsExt

CONSTANTS
  Expert,          \* the (layer, expert) keys callers register
  Size,            \* sizeBytes
  Limit,           \* vramLimitBytes and ramLimitBytes
  Target,          \* what MemoryPressureController leaves used in each tier
  MaxLeases        \* bounds the leases on one expert

Pool == {"Vram", "Ram"}
Tier == Pool \cup {"Nvme"}
NoExpert == "NoExpert"
Absent == "None"

\* A key is a pair of machine integers, so there are finitely many.
ASSUME ExpertAssumption == NoExpert \notin Expert
ASSUME FiniteAssumption == IsFiniteSet(Expert)
ASSUME CapacityAssumption ==
  /\ Size \in [Expert -> Nat \ {0}]
  /\ Limit \in [Pool -> Nat]
  /\ Target \in [Pool -> Nat]
ASSUME LeaseAssumption == MaxLeases \in Nat \ {0}

VARIABLES
  loc,             \* experts_: the location of each key
  leases,          \* residencyLeases
  used,            \* MemoryManager's usedBytes
  orphaned,        \* bytes of live allocations that nothing refers to
  job,             \* the operation that holds mutex_
  poll             \* where MemoryPressureController::poll is

vars == <<loc, leases, used, orphaned, job, poll>>

\* An expert's location, allocation and buffers are always set together: one
\* in a pool holds an allocation and a buffer of it, one on NVMe holds nothing.
\* "None" as a location stands for a key absent from experts_.
\* op      Move: moveExpert and requestExpert    Evict: evictUntilWithin
\* stage   room: in makeRoomLocked's loop        copy: the allocation is made
\*                                               and TransferManager at work
\* A cold load to VRAM has goal Vram and visits RAM first.
Op == {"None", "Register", "Move", "Acquire", "Adopt", "Prepare", "Evict"}
Job == [op : Op, expert : Expert \cup {NoExpert}, to : Pool, goal : Pool,
        stage : {"room", "copy"}, victim : Expert \cup {NoExpert}]
NoJob == [op |-> "None", expert |-> NoExpert, to |-> "Ram", goal |-> "Ram",
          stage |-> "room", victim |-> NoExpert]

Init ==
  /\ loc = [e \in Expert |-> Absent]
  /\ leases = [e \in Expert |-> 0]
  /\ used = [p \in Pool |-> 0]
  /\ orphaned = [p \in Pool |-> 0]
  /\ job = NoJob
  /\ poll = "idle"

-----------------------------------------------------------------------------
(* Operations, up to the point where the mutex is held and room is sought. *)

Unlocked == job.op = "None"
Registered(e) == loc[e] # Absent

Start(op, e, to, goal) ==
  job' = [op |-> op, expert |-> e, to |-> to, goal |-> goal,
          stage |-> "room", victim |-> NoExpert]

\* Cold loads stage through RAM.
FirstHop(e, goal) ==
  IF loc[e] = "Nvme" THEN "Ram" ELSE goal

\* memory_.release of the allocation an expert holds.
Released(u, e) ==
  IF loc[e] \in Pool THEN [u EXCEPT ![loc[e]] = @ - Size[e]] ELSE u

RegisterExpert(e, tier) ==
  /\ Unlocked
  /\ ~Registered(e)
  /\ loc' = [loc EXCEPT ![e] = "Nvme"]
  /\ IF tier = "Nvme" THEN UNCHANGED job ELSE Start("Register", e, "Ram", tier)
  /\ UNCHANGED <<leases, used, orphaned, poll>>

\* An expert under lease is refused; one already there is left alone.
MoveExpert(e, goal) ==
  /\ Unlocked
  /\ Registered(e) /\ loc[e] # goal
  /\ leases[e] = 0
  /\ Start("Move", e, FirstHop(e, goal), goal)
  /\ UNCHANGED <<loc, leases, used, orphaned, poll>>

MoveToNvme(e) ==
  /\ Unlocked
  /\ loc[e] \in Pool
  /\ leases[e] = 0
  /\ used' = Released(used, e)
  /\ loc' = [loc EXCEPT ![e] = "Nvme"]
  /\ UNCHANGED <<leases, orphaned, job, poll>>

\* acquireResidentExpert (tier Vram) and acquireHostExpert (tier Ram).
Lease(e, tier) ==
  /\ Unlocked
  /\ loc[e] = tier
  /\ leases[e] < MaxLeases
  /\ leases' = [leases EXCEPT ![e] = @ + 1]
  /\ UNCHANGED <<loc, used, orphaned, job, poll>>

\* Mutant of LeaseAfterMove: the expert is moved under another's lease.
LeaseAfterMoveLeased(e, tier) ==
  /\ Unlocked
  /\ Registered(e) /\ loc[e] # tier
  /\ Start("Acquire", e, FirstHop(e, tier), tier)
  /\ UNCHANGED <<loc, leases, used, orphaned, poll>>

LeaseAfterMove(e, tier) ==
  /\ Unlocked
  /\ Registered(e) /\ loc[e] # tier
  /\ leases[e] = 0
  /\ Start("Acquire", e, FirstHop(e, tier), tier)
  /\ UNCHANGED <<loc, leases, used, orphaned, poll>>

\* Mutant of ReleaseLease: a moved-from lease still counts down.
ReleaseLeaseTwice(e) ==
  /\ leases' = [leases EXCEPT ![e] = @ - 1]
  /\ UNCHANGED <<loc, used, orphaned, job, poll>>

\* reset: a lease gives back its count once.
ReleaseLease(e) ==
  /\ leases[e] > 0
  /\ leases' = [leases EXCEPT ![e] = @ - 1]
  /\ UNCHANGED <<loc, used, orphaned, job, poll>>

\* The scheduler's transfer already holds the bytes: no copy is made.  Unlike
\* adoptHostWeights, adoptDeviceWeights does not look at the leases.
AdoptDeviceWeights(e) ==
  /\ Unlocked
  /\ Registered(e) /\ loc[e] # "Vram"
  /\ Start("Adopt", e, "Vram", "Vram")
  /\ UNCHANGED <<loc, leases, used, orphaned, poll>>

AdoptHostWeights(e) ==
  /\ Unlocked
  /\ Registered(e) /\ loc[e] # "Ram"
  /\ leases[e] = 0
  /\ Start("Adopt", e, "Ram", "Ram")
  /\ UNCHANGED <<loc, leases, used, orphaned, poll>>

PrepareResidency(e, tier) ==
  /\ Unlocked
  /\ Registered(e) /\ loc[e] # tier
  /\ Start("Prepare", e, tier, tier)
  /\ UNCHANGED <<loc, leases, used, orphaned, poll>>

\* MemoryPressureController::poll: VRAM is sampled, and evicted if over the
\* target; RAM is sampled after that, because demotions fill it.
PollVram ==
  /\ poll = "idle"
  /\ poll' = IF used["Vram"] > Target["Vram"] THEN "vram" ELSE "sampleRam"
  /\ UNCHANGED <<loc, leases, used, orphaned, job>>

PollRam ==
  /\ poll = "sampleRam"
  /\ poll' = IF used["Ram"] > Target["Ram"] THEN "ram" ELSE "idle"
  /\ UNCHANGED <<loc, leases, used, orphaned, job>>

EvictUntilWithin ==
  /\ Unlocked
  /\ poll \in {"vram", "ram"}
  /\ LET tier == IF poll = "vram" THEN "Vram" ELSE "Ram"
     IN Start("Evict", NoExpert, tier, tier)
  /\ UNCHANGED <<loc, leases, used, orphaned, poll>>

-----------------------------------------------------------------------------
(* moveExpertLocked and makeRoomLocked, for the operation's expert or, while *)
(* there is one, for the victim being demoted to RAM.                        *)

Demoting == job.victim # NoExpert
Mover == IF Demoting THEN job.victim ELSE job.expert
Dest == IF Demoting THEN "Ram" ELSE job.to

Evicting == job.op = "Evict" /\ ~Demoting
Available(tier) == Limit[tier] - used[tier]
TooLarge == ~Evicting /\ Size[Mover] > Limit[Dest]
HasRoom == IF Evicting THEN used[Dest] <= Target[Dest]
                       ELSE Available(Dest) >= Size[Mover]

\* Mutant of Pinned: only the victim is protected from its own demotion.
PinnedVictimOnly == {job.victim}

\* The experts makeRoomLocked must not evict.
Pinned == {job.expert, job.victim}

\* Mutant of Victims: leases are not looked at.
VictimsLeased ==
  {v \in Expert : loc[v] = Dest /\ v \notin Pinned}

\* candidatesLocked, less the excluded.
Victims ==
  {v \in Expert : loc[v] = Dest /\ leases[v] = 0 /\ v \notin Pinned}

Seeking == ~Unlocked /\ job.stage = "room" /\ ~TooLarge

\* A RAM victim is dropped.
EvictVictim(v) ==
  /\ Seeking /\ ~HasRoom
  /\ Dest = "Ram"
  /\ v \in Victims
  /\ used' = Released(used, v)
  /\ loc' = [loc EXCEPT ![v] = "Nvme"]
  /\ UNCHANGED <<leases, orphaned, job, poll>>

\* A VRAM victim is demoted, which needs room in RAM in turn.
DemoteVictim(v) ==
  /\ Seeking /\ ~HasRoom
  /\ Dest = "Vram"
  /\ v \in Victims
  /\ job' = [job EXCEPT !.victim = v]
  /\ UNCHANGED <<loc, leases, used, orphaned, poll>>

\* The operation returns, or throws.
Unlock == job' = NoJob
PollAfter(completed) ==
  poll' = IF job.op # "Evict" THEN poll
          ELSE IF completed /\ poll = "vram" THEN "sampleRam" ELSE "idle"

Transfers == Demoting \/ job.op \in {"Register", "Move", "Acquire"}

Reserve ==
  /\ Seeking /\ HasRoom
  /\ Transfers
  /\ used' = [used EXCEPT ![Dest] = @ + Size[Mover]]
  /\ job' = [job EXCEPT !.stage = "copy"]
  /\ UNCHANGED <<loc, leases, orphaned, poll>>

\* TransferManager completed: commit, then go on with what the move was for.
Copied ==
  /\ job.stage = "copy"
  /\ used' = Released(used, Mover)
  /\ loc' = [loc EXCEPT ![Mover] = Dest]
  /\ IF Demoting \/ job.to # job.goal
       THEN /\ job' = [job EXCEPT !.stage = "room", !.victim = NoExpert,
                                  !.to = IF Demoting THEN @ ELSE job.goal]
            /\ UNCHANGED leases
       ELSE /\ Unlock
            /\ leases' = IF job.op = "Acquire"
                           THEN [leases EXCEPT ![job.expert] = @ + 1] ELSE leases
  /\ UNCHANGED <<orphaned, poll>>

Adopt ==
  /\ Seeking /\ HasRoom
  /\ job.op = "Adopt" /\ ~Demoting
  /\ used' = Released([used EXCEPT ![Dest] = @ + Size[Mover]], Mover)
  /\ loc' = [loc EXCEPT ![Mover] = Dest]
  /\ Unlock
  /\ UNCHANGED <<leases, orphaned, poll>>

\* prepareResidency has its room; evictUntilWithin is within its target, or
\* has run out of victims, which is no error.
Return ==
  /\ Seeking
  /\ ~Demoting
  /\ \/ job.op = "Prepare" /\ HasRoom
     \/ job.op = "Evict" /\ (HasRoom \/ Victims = {})
  /\ Unlock
  /\ PollAfter(TRUE)
  /\ UNCHANGED <<loc, leases, used, orphaned>>

\* A runtime_error out of a demotion sends the victim to NVMe and the loop
\* goes on.  Anything else ends the operation, and registerExpert takes back
\* what it had done.  u is usedBytes at the throw.
Throw(kind, u) ==
  IF Demoting /\ kind = "runtime"
    THEN /\ used' = Released(u, job.victim)
         /\ loc' = [loc EXCEPT ![job.victim] = "Nvme"]
         /\ job' = [job EXCEPT !.stage = "room", !.victim = NoExpert]
         /\ UNCHANGED poll
    ELSE /\ Unlock
         /\ PollAfter(FALSE)
         /\ IF job.op = "Register"
              THEN /\ used' = Released(u, job.expert)
                   /\ loc' = [loc EXCEPT ![job.expert] = Absent]
              ELSE used' = u /\ UNCHANGED loc

\* Mutant of NoRoom: makeRoomLocked goes on without moving the victim.
NoRoomSwallowed ==
  /\ ~Unlocked /\ job.stage = "room"
  /\ TooLarge \/ (~HasRoom /\ Victims = {} /\ ~Evicting)
  /\ IF Demoting
       THEN job' = [job EXCEPT !.victim = NoExpert] /\ UNCHANGED <<loc, used, poll>>
       ELSE Throw("runtime", used)
  /\ UNCHANGED <<leases, orphaned>>

\* "expert is larger than destination tier capacity", "no evictable expert".
NoRoom ==
  /\ ~Unlocked /\ job.stage = "room"
  /\ TooLarge \/ (~HasRoom /\ Victims = {} /\ ~Evicting)
  /\ Throw("runtime", used)
  /\ UNCHANGED <<leases, orphaned>>

GiveBack == [used EXCEPT ![Dest] = @ - Size[Mover]]

\* Mutant of CopyRefused: the reservation is kept.
CopyRefusedKeeps ==
  /\ job.stage = "copy"
  /\ Throw("runtime", used)
  /\ UNCHANGED <<leases, orphaned>>

\* The transfer was cancelled, or came back with the wrong size.
CopyRefused ==
  /\ job.stage = "copy"
  /\ Throw("runtime", GiveBack)
  /\ UNCHANGED <<leases, orphaned>>

\* submit or the future threw.  The path from NVMe to RAM has no handler, so
\* its allocation is live and no longer known to anyone.
CopyThrew(kind) ==
  /\ job.stage = "copy"
  /\ IF loc[Mover] = "Nvme"
       THEN /\ orphaned' = [orphaned EXCEPT ![Dest] = @ + Size[Mover]]
            /\ Throw(kind, used)
       ELSE Throw(kind, GiveBack) /\ UNCHANGED orphaned
  /\ UNCHANGED leases

-----------------------------------------------------------------------------
HolderStep ==
  \/ \E v \in Expert : EvictVictim(v) \/ DemoteVictim(v)
  \/ Reserve
  \/ Copied
  \/ Adopt
  \/ Return
  \/ NoRoom
  \/ CopyRefused
  \/ \E kind \in {"runtime", "other"} : CopyThrew(kind)

CallerStep ==
  \/ \E e \in Expert, tier \in Tier : RegisterExpert(e, tier)
  \/ \E e \in Expert, tier \in Pool :
       \/ MoveExpert(e, tier)
       \/ Lease(e, tier)
       \/ LeaseAfterMove(e, tier)
       \/ PrepareResidency(e, tier)
  \/ \E e \in Expert :
       \/ MoveToNvme(e)
       \/ ReleaseLease(e)
       \/ AdoptDeviceWeights(e)
       \/ AdoptHostWeights(e)
  \/ PollVram
  \/ PollRam
  \/ EvictUntilWithin

Next == HolderStep \/ CallerStep

\* The thread that holds mutex_ runs, and TransferManager answers.
Fairness == WF_vars(HolderStep)

Spec == Init /\ [][Next]_vars /\ Fairness
-----------------------------------------------------------------------------
(* What the manager promises. *)

\* Every variable has its type; a lease counter never passes zero.
TypeOK ==
  /\ loc \in [Expert -> Tier \cup {Absent}]
  /\ leases \in [Expert -> 0..MaxLeases]
  /\ used \in [Pool -> Int]
  /\ orphaned \in [Pool -> Nat]
  /\ job \in Job
  /\ poll \in {"idle", "vram", "sampleRam", "ram"}

\* What the code relies on while it holds the mutex: the expert an operation
\* moves is registered and stays unleased, a victim is an unleased VRAM expert
\* other than the one it makes room for, an allocation is only outstanding
\* while a transfer is, and a leased expert is in RAM or VRAM.
HolderOwns ==
  /\ Unlocked => job = NoJob
  /\ job.op = "Evict" => job.expert = NoExpert
  /\ job.op \notin {"None", "Evict"} => job.expert \in Expert /\ Registered(job.expert)
  /\ \/ job.op \in {"Register", "Move", "Acquire"}
     \/ job.op = "Adopt" /\ job.to = "Ram"
     => leases[job.expert] = 0
  /\ Demoting => /\ job.to = "Vram" /\ loc[job.victim] = "Vram"
                 /\ leases[job.victim] = 0 /\ job.victim # job.expert
  /\ job.stage = "copy" => Transfers
  /\ \A e \in Expert : leases[e] > 0 => loc[e] \in Pool

Bytes(experts) == MapThenSumSet(LAMBDA e : Size[e], experts)
Resident(tier) == {e \in Expert : loc[e] = tier}
InFlight(tier) ==
  {e \in Expert : job.stage = "copy" /\ Dest = tier /\ Mover = e}

\* MemoryManager's usedBytes is what the experts in the tier take, what the
\* move under way has reserved, and what was orphaned, through every failure,
\* rollback and partial eviction; and it keeps within the limit.
Accounting ==
  \A tier \in Pool :
    /\ used[tier] = Bytes(Resident(tier)) + Bytes(InFlight(tier)) + orphaned[tier]
    /\ used[tier] <= Limit[tier]

\* A leased expert is never evicted or demoted, whatever room is needed.  The
\* one move it may make is into VRAM, by adoptDeviceWeights.
LeaseProtects ==
  [][\A e \in Expert :
       leases[e] > 0 /\ loc'[e] # loc[e] => loc[e] # "Vram" /\ loc'[e] = "Vram"]_vars

\* makeRoomLocked never evicts the expert it makes room for: a cold load that
\* has been staged in RAM keeps its copy while VRAM victims are demoted over
\* it, and keeps it when the promotion fails.
KeepsStaged ==
  [][\A e \in Expert :
       job.expert = e /\ loc[e] \in Pool /\ job.op # "Register"
       => loc'[e] \in Pool]_vars

\* Every operation gives the mutex back: the eviction loops end.
JobEnds == ~Unlocked ~> Unlocked
-----------------------------------------------------------------------------
(* What the documentation says of the manager and the code does not keep. *)

\* tests/phase1_tests.cpp:75, "failed movement does not leak reservations":
\* with no operation under way only resident experts take bytes.
NoLeak ==
  Unlocked => \A tier \in Pool : used[tier] = Bytes(Resident(tier))
=============================================================================
