------------------------ MODULE ExpertManagerProofs ------------------------
(***************************************************************************)
(* Proofs about ExpertManager, for any experts, sizes and limits: while an *)
(* operation holds the mutex, what it relies on stays true, and from that  *)
(* leases protect experts and staged copies survive the room made for      *)
(* them.  The bytes of every tier are accounted for through each failure.  *)
(***************************************************************************)
EXTENDS ExpertManager, FiniteSums, TLAPS

IndInv == TypeOK /\ HolderOwns

\* Init gives every variable its type and holds no lock.
LEMMA InitIndInv == Init => IndInv
  <1> SUFFICES ASSUME Init PROVE IndInv
    OBVIOUS
  <1> USE ExpertAssumption, CapacityAssumption, LeaseAssumption
  <1>1. TypeOK
    BY DEF Init, TypeOK, Job, NoJob, Op, Pool, Tier
  <1>2. HolderOwns
    BY DEF Init, HolderOwns, NoJob, Unlocked, Registered, Demoting, Transfers
  <1> QED
    BY <1>1, <1>2 DEF IndInv

\* Release and reservation keep usedBytes an integer per tier.
LEMMA UsedTypes ==
  ASSUME TypeOK, NEW e \in Expert, NEW u \in [Pool -> Int], NEW tier \in Pool
  PROVE  /\ Released(u, e) \in [Pool -> Int]
         /\ [u EXCEPT ![tier] = @ + Size[e]] \in [Pool -> Int]
         /\ [u EXCEPT ![tier] = @ - Size[e]] \in [Pool -> Int]
  BY CapacityAssumption DEF TypeOK, Released

\* The mover of a held job is an expert and its destination a tier.
LEMMA MoverTypes ==
  ASSUME IndInv, ~Unlocked, ~Evicting
  PROVE  Mover \in Expert /\ Dest \in Pool
  BY ExpertAssumption
  DEF IndInv, TypeOK, HolderOwns, Job, Op, Pool, Unlocked, Evicting, Mover, Dest,
      Demoting

\* A copy under way has a mover: the operation is one that transfers.
LEMMA CopyTypes ==
  ASSUME IndInv, job.stage = "copy"
  PROVE  ~Unlocked /\ ~Evicting /\ Mover \in Expert /\ Dest \in Pool
  <1>1. ~Unlocked
    BY DEF IndInv, HolderOwns, Transfers, Unlocked, NoJob
  <1>2. ~Evicting
    BY DEF IndInv, HolderOwns, Transfers, Evicting
  <1> QED
    BY <1>1, <1>2, MoverTypes

\* Taking the mutex for an operation on e, when its preconditions hold.
LEMMA StartHolds ==
  ASSUME IndInv, Unlocked, NEW op \in Op \ {"None", "Evict"}, NEW e \in Expert,
         NEW to \in Pool, NEW goal \in Pool, Start(op, e, to, goal),
         Registered(e)',
         op \in {"Register", "Move", "Acquire"} \/ (op = "Adopt" /\ to = "Ram")
           => leases[e] = 0,
         UNCHANGED <<leases, used, orphaned, poll>>,
         \/ UNCHANGED loc
         \/ leases[e] = 0 /\ loc' = [loc EXCEPT ![e] = "Nvme"]
  PROVE  IndInv'
  <1> USE ExpertAssumption, LeaseAssumption
  <1>1. job' = [op |-> op, expert |-> e, to |-> to, goal |-> goal,
                stage |-> "room", victim |-> NoExpert]
    BY DEF Start
  <1>2. TypeOK'
    BY <1>1 DEF IndInv, TypeOK, Job, Op, Pool, Tier
  <1>3. HolderOwns'
    <2>1. \A f \in Expert : leases'[f] > 0 => loc'[f] \in Pool
      BY DEF IndInv, TypeOK, HolderOwns, Pool
    <2>2. ~Demoting' /\ job'.stage # "copy" /\ job'.op \notin {"None", "Evict"}
      BY <1>1 DEF Demoting, Op
    <2>3. ~Unlocked'
      BY <2>2 DEF Unlocked
    <2>4. job'.expert = e /\ job'.op = op /\ job'.to = to
      BY <1>1
    <2> QED
      BY <2>1, <2>2, <2>3, <2>4 DEF HolderOwns
  <1> QED
    BY <1>2, <1>3 DEF IndInv

\* Every call into the manager, up to the search for room.
LEMMA CallerIndInv == IndInv /\ CallerStep => IndInv'
  <1> SUFFICES ASSUME IndInv, CallerStep PROVE IndInv'
    OBVIOUS
  <1> USE ExpertAssumption, LeaseAssumption
  <1>0. \A e \in Expert, goal \in Pool : FirstHop(e, goal) \in Pool
    BY DEF FirstHop, Pool
  <1>1. ASSUME NEW e \in Expert, NEW tier \in Tier, RegisterExpert(e, tier)
        PROVE  IndInv'
    <2>1. leases[e] = 0
      BY <1>1 DEF RegisterExpert, Registered, IndInv, TypeOK, HolderOwns, Pool, Absent
    <2>2. CASE tier = "Nvme"
      BY <1>1, <2>1, <2>2
      DEF RegisterExpert, Registered, Unlocked, IndInv, TypeOK, HolderOwns, NoJob,
          Demoting, Transfers, Tier, Pool, Absent
    <2>3. CASE tier # "Nvme"
      <3>1. tier \in Pool /\ "Ram" \in Pool /\ "Register" \in Op \ {"None", "Evict"}
        BY <2>3 DEF Tier, Pool, Op
      <3>2. Unlocked /\ Start("Register", e, "Ram", tier)
        BY <1>1, <2>3 DEF RegisterExpert
      <3>3. loc' = [loc EXCEPT ![e] = "Nvme"] /\ UNCHANGED <<leases, used, orphaned, poll>>
        BY <1>1 DEF RegisterExpert
      <3>4. Registered(e)'
        BY <3>3 DEF Registered, IndInv, TypeOK, Absent
      <3> QED
        BY <2>1, <3>1, <3>2, <3>3, <3>4, StartHolds
    <2> QED
      BY <2>2, <2>3
  <1>2. ASSUME NEW e \in Expert, NEW goal \in Pool, MoveExpert(e, goal)
        PROVE  IndInv'
    <2>1. "Move" \in Op \ {"None", "Evict"} /\ Registered(e)'
      BY <1>2 DEF MoveExpert, Registered, Op
    <2> QED
      BY <1>0, <1>2, <2>1, StartHolds DEF MoveExpert
  <1>3. ASSUME NEW e \in Expert, MoveToNvme(e)
        PROVE  IndInv'
    <2>1. used' \in [Pool -> Int]
      <3>1. used \in [Pool -> Int] /\ "Ram" \in Pool /\ TypeOK
        BY DEF IndInv, TypeOK, Pool
      <3> QED
        BY <1>3, <3>1, UsedTypes DEF MoveToNvme
    <2> QED
      BY <1>3, <2>1
      DEF MoveToNvme, Registered, Unlocked, IndInv, TypeOK, HolderOwns, NoJob,
          Demoting, Transfers, Tier, Pool, Absent
  <1>4. ASSUME NEW e \in Expert, NEW tier \in Pool, Lease(e, tier)
        PROVE  IndInv'
    BY <1>4
    DEF Lease, Registered, Unlocked, IndInv, TypeOK, HolderOwns, NoJob, Demoting,
        Transfers
  <1>5. ASSUME NEW e \in Expert, NEW tier \in Pool, LeaseAfterMove(e, tier)
        PROVE  IndInv'
    <2>1. "Acquire" \in Op \ {"None", "Evict"} /\ Registered(e)'
      BY <1>5 DEF LeaseAfterMove, Registered, Op
    <2> QED
      BY <1>0, <1>5, <2>1, StartHolds DEF LeaseAfterMove
  <1>6. ASSUME NEW e \in Expert, ReleaseLease(e)
        PROVE  IndInv'
    <2>1. TypeOK'
      BY <1>6 DEF ReleaseLease, IndInv, TypeOK
    <2>2. \A f \in Expert : leases'[f] <= leases[f] /\ (leases[f] = 0 => leases'[f] = 0)
      BY <1>6 DEF ReleaseLease, IndInv, TypeOK
    <2>3. HolderOwns'
      BY <1>6, <2>1, <2>2
      DEF ReleaseLease, Registered, Unlocked, IndInv, TypeOK, HolderOwns, Job,
          Demoting, Transfers
    <2> QED
      BY <2>1, <2>3 DEF IndInv
  <1>7. ASSUME NEW e \in Expert, AdoptDeviceWeights(e)
        PROVE  IndInv'
    <2>1. "Adopt" \in Op \ {"None", "Evict"} /\ Registered(e)' /\ "Vram" \in Pool
      BY <1>7 DEF AdoptDeviceWeights, Registered, Op, Pool
    <2> QED
      BY <1>7, <2>1, StartHolds DEF AdoptDeviceWeights
  <1>8. ASSUME NEW e \in Expert, AdoptHostWeights(e)
        PROVE  IndInv'
    <2>1. "Adopt" \in Op \ {"None", "Evict"} /\ Registered(e)' /\ "Ram" \in Pool
      BY <1>8 DEF AdoptHostWeights, Registered, Op, Pool
    <2> QED
      BY <1>8, <2>1, StartHolds DEF AdoptHostWeights
  <1>9. ASSUME NEW e \in Expert, NEW tier \in Pool, PrepareResidency(e, tier)
        PROVE  IndInv'
    <2>1. "Prepare" \in Op \ {"None", "Evict"} /\ Registered(e)'
      BY <1>9 DEF PrepareResidency, Registered, Op
    <2> QED
      BY <1>9, <2>1, StartHolds DEF PrepareResidency
  <1>10. CASE PollVram \/ PollRam
    <2>1. poll' \in {"idle", "vram", "sampleRam", "ram"}
          /\ UNCHANGED <<loc, leases, used, orphaned, job>>
      BY <1>10 DEF PollVram, PollRam
    <2> QED
      BY <2>1
      DEF IndInv, TypeOK, HolderOwns, Registered, Unlocked, Demoting, Transfers
  <1>11. CASE EvictUntilWithin
    BY <1>11
    DEF EvictUntilWithin, Start, IndInv, TypeOK, HolderOwns, Registered, Unlocked,
        Demoting, Transfers, Job, Op, Pool
  <1> QED
    BY <1>1, <1>2, <1>3, <1>4, <1>5, <1>6, <1>7, <1>8, <1>9, <1>10, <1>11
    DEF CallerStep

\* An exception leaves the lock free, or the loop of the outer move going.
LEMMA ThrowHolds ==
  ASSUME IndInv, ~Unlocked, NEW u \in [Pool -> Int], NEW kind, Throw(kind, u),
         UNCHANGED leases, orphaned' \in [Pool -> Nat]
  PROVE  IndInv'
  <1> USE ExpertAssumption, LeaseAssumption
  <1>1. "Ram" \in Pool /\ TypeOK
    BY DEF IndInv, TypeOK, Pool
  <1>2. CASE Demoting /\ kind = "runtime"
    <2>1. /\ used' = Released(u, job.victim)
          /\ loc' = [loc EXCEPT ![job.victim] = "Nvme"]
          /\ job' = [job EXCEPT !.stage = "room", !.victim = NoExpert]
          /\ UNCHANGED poll
      BY <1>2 DEF Throw
    <2>2. job.victim \in Expert /\ leases[job.victim] = 0 /\ job.victim # job.expert
      BY <1>2 DEF IndInv, TypeOK, HolderOwns, Job, Demoting
    <2>3. used' \in [Pool -> Int]
      BY <1>1, <2>1, <2>2, UsedTypes
    <2>4. TypeOK'
      BY <2>1, <2>2, <2>3 DEF IndInv, TypeOK, Job, Tier
    <2>5. HolderOwns'
      BY <1>2, <2>1, <2>2
      DEF IndInv, TypeOK, HolderOwns, Job, Op, Unlocked, Registered, Demoting,
          Transfers, Absent
    <2> QED
      BY <2>4, <2>5 DEF IndInv
  <1>3. CASE ~(Demoting /\ kind = "runtime")
    <2>1. job' = NoJob /\ PollAfter(FALSE)
      BY <1>3 DEF Throw, Unlock
    <2>2. poll' \in {"idle", "vram", "sampleRam", "ram"}
      BY <2>1 DEF PollAfter, IndInv, TypeOK
    <2>3. used' \in [Pool -> Int] /\ loc' \in [Expert -> Tier \cup {Absent}]
      <3>1. CASE job.op = "Register"
        <4>1. job.expert \in Expert
          BY <3>1 DEF IndInv, HolderOwns
        <4>2. used' = Released(u, job.expert) /\ loc' = [loc EXCEPT ![job.expert] = Absent]
          BY <1>3, <3>1 DEF Throw
        <4>3. Released(u, job.expert) \in [Pool -> Int]
          BY <1>1, <4>1, UsedTypes
        <4> QED
          BY <4>1, <4>2, <4>3 DEF IndInv, TypeOK
      <3>2. CASE job.op # "Register"
        BY <1>3, <3>2 DEF Throw, IndInv, TypeOK
      <3> QED
        BY <3>1, <3>2
    <2>4. \A e \in Expert : leases'[e] > 0 => loc'[e] \in Pool
      <3>1. CASE job.op = "Register"
        <4>1. loc' = [loc EXCEPT ![job.expert] = Absent] /\ leases[job.expert] = 0
          BY <1>3, <3>1 DEF Throw, IndInv, HolderOwns
        <4> QED
          BY <4>1 DEF IndInv, TypeOK, HolderOwns
      <3>2. CASE job.op # "Register"
        BY <1>3, <3>2 DEF Throw, IndInv, HolderOwns
      <3> QED
        BY <3>1, <3>2
    <2>5. TypeOK'
      BY <2>1, <2>2, <2>3 DEF IndInv, TypeOK, Job, NoJob, Op, Pool
    <2> QED
      BY <2>1, <2>4, <2>5
      DEF IndInv, HolderOwns, NoJob, Unlocked, Registered, Demoting, Transfers
  <1> QED
    BY <1>2, <1>3

\* The steps of the operation that holds the mutex.
LEMMA HolderIndInv == IndInv /\ HolderStep => IndInv'
  <1> SUFFICES ASSUME IndInv, HolderStep PROVE IndInv'
    OBVIOUS
  <1> USE ExpertAssumption, LeaseAssumption
  <1>0. used \in [Pool -> Int] /\ "Ram" \in Pool /\ TypeOK
    BY DEF IndInv, TypeOK, Pool
  <1>1. ASSUME NEW v \in Expert, EvictVictim(v)
        PROVE  IndInv'
    <2>1. leases[v] = 0 /\ v # job.expert /\ v # job.victim
      BY <1>1 DEF EvictVictim, Victims, Pinned
    <2>2. used' \in [Pool -> Int]
      BY <1>0, <1>1, UsedTypes DEF EvictVictim
    <2>3. TypeOK'
      BY <1>1, <2>2 DEF EvictVictim, IndInv, TypeOK, Tier
    <2>4. HolderOwns'
      BY <1>1, <2>1
      DEF EvictVictim, IndInv, TypeOK, HolderOwns, Job, Unlocked, Registered,
          Demoting, Transfers, Absent
    <2> QED
      BY <2>3, <2>4 DEF IndInv
  <1>2. ASSUME NEW v \in Expert, DemoteVictim(v)
        PROVE  IndInv'
    <2>1. /\ leases[v] = 0 /\ v # job.expert /\ loc[v] = "Vram"
          /\ ~Demoting /\ job.to = "Vram" /\ ~Unlocked
      BY <1>2 DEF DemoteVictim, Victims, Pinned, Dest, Seeking
    <2>2. TypeOK'
      BY <1>2 DEF DemoteVictim, IndInv, TypeOK, Job
    <2>3. HolderOwns'
      BY <1>2, <2>1
      DEF DemoteVictim, IndInv, TypeOK, HolderOwns, Job, Unlocked, Registered,
          Demoting, Transfers
    <2> QED
      BY <2>2, <2>3 DEF IndInv
  <1>3. CASE Reserve
    <2>1. ~Unlocked /\ ~Evicting
      BY <1>3 DEF Reserve, Seeking, Transfers, Evicting
    <2>2. Mover \in Expert /\ Dest \in Pool
      BY <2>1, MoverTypes
    <2>3. used' \in [Pool -> Int]
      BY <1>0, <1>3, <2>2, UsedTypes DEF Reserve
    <2>4. TypeOK'
      BY <1>3, <2>3 DEF Reserve, IndInv, TypeOK, Job
    <2>5. HolderOwns'
      BY <1>3, <2>1
      DEF Reserve, IndInv, TypeOK, HolderOwns, Job, Unlocked, Registered, Demoting,
          Transfers
    <2> QED
      BY <2>4, <2>5 DEF IndInv
  <1>4. CASE Copied
    <2>1. ~Unlocked /\ ~Evicting /\ Mover \in Expert /\ Dest \in Pool
      BY <1>4, CopyTypes DEF Copied
    <2>2. used' \in [Pool -> Int]
      BY <1>0, <1>4, <2>1, UsedTypes DEF Copied
    <2>3. loc' = [loc EXCEPT ![Mover] = Dest] /\ UNCHANGED <<orphaned, poll>>
      BY <1>4 DEF Copied
    <2>4. \A e \in Expert : Registered(e) => Registered(e)'
      BY <2>1, <2>3 DEF Registered, IndInv, TypeOK, Pool, Absent
    <2>5. leases[Mover] = 0
      BY <1>4
      DEF Copied, IndInv, HolderOwns, Transfers, Mover, Demoting
    <2>6. CASE Demoting \/ job.to # job.goal
      <3>1. /\ job' = [job EXCEPT !.stage = "room", !.victim = NoExpert,
                                  !.to = IF Demoting THEN @ ELSE job.goal]
            /\ UNCHANGED leases
        BY <1>4, <2>6 DEF Copied
      <3>2. TypeOK'
        BY <2>1, <2>2, <2>3, <3>1 DEF IndInv, TypeOK, Job, Tier
      <3>3. \A e \in Expert : leases'[e] > 0 => loc'[e] \in Pool
        BY <2>1, <2>3, <3>1 DEF IndInv, TypeOK, HolderOwns
      <3>4. ~Demoting' /\ job'.stage # "copy" /\ job'.op = job.op /\ job'.expert = job.expert
        BY <3>1 DEF Demoting, IndInv, TypeOK, Job
      <3>5. job.op = "Adopt" => job'.to = job.to
        BY <1>4, <3>1 DEF Copied, IndInv, TypeOK, HolderOwns, Transfers, Job
      <3> QED
        BY <2>1, <2>4, <3>1, <3>2, <3>3, <3>4, <3>5
        DEF IndInv, HolderOwns, Unlocked
    <2>7. CASE ~(Demoting \/ job.to # job.goal)
      <3>1. /\ job' = NoJob
            /\ leases' = IF job.op = "Acquire"
                           THEN [leases EXCEPT ![job.expert] = @ + 1] ELSE leases
        BY <1>4, <2>7 DEF Copied, Unlock
      <3>2. Mover = job.expert
        BY <2>7 DEF Mover
      <3>3. leases' \in [Expert -> 0..MaxLeases]
        BY <2>1, <2>5, <3>1, <3>2 DEF IndInv, TypeOK
      <3>4. TypeOK'
        BY <2>1, <2>2, <2>3, <3>1, <3>3 DEF IndInv, TypeOK, Job, NoJob, Op, Tier, Pool
      <3>5. \A e \in Expert : leases'[e] > 0 => loc'[e] \in Pool
        BY <2>1, <2>3, <3>1, <3>2 DEF IndInv, TypeOK, HolderOwns
      <3> QED
        BY <3>1, <3>4, <3>5
        DEF IndInv, HolderOwns, NoJob, Unlocked, Registered, Demoting, Transfers
    <2> QED
      BY <2>6, <2>7
  <1>5. CASE Adopt
    <2>1. ~Unlocked /\ ~Evicting /\ ~Demoting /\ job' = NoJob
      BY <1>5 DEF Adopt, Seeking, Evicting, Unlock
    <2>2. Mover \in Expert /\ Dest \in Pool
      BY <2>1, MoverTypes
    <2>3. used' \in [Pool -> Int]
      <3>1. [used EXCEPT ![Dest] = @ + Size[Mover]] \in [Pool -> Int]
        BY <1>0, <2>2, UsedTypes
      <3> QED
        BY <1>0, <1>5, <2>2, <3>1, UsedTypes DEF Adopt
    <2>4. TypeOK'
      BY <1>5, <2>1, <2>2, <2>3 DEF Adopt, IndInv, TypeOK, Job, NoJob, Op, Tier, Pool
    <2>5. \A e \in Expert : leases'[e] > 0 => loc'[e] \in Pool
      BY <1>5, <2>2 DEF Adopt, IndInv, TypeOK, HolderOwns
    <2> QED
      BY <2>1, <2>4, <2>5
      DEF IndInv, HolderOwns, NoJob, Unlocked, Registered, Demoting, Transfers
  <1>6. CASE Return
    <2>1. job' = NoJob /\ UNCHANGED <<loc, leases, used, orphaned>> /\ PollAfter(TRUE)
      BY <1>6 DEF Return, Unlock
    <2>2. TypeOK'
      BY <2>1 DEF PollAfter, IndInv, TypeOK, Job, NoJob, Op, Pool
    <2> QED
      BY <2>1, <2>2
      DEF IndInv, HolderOwns, NoJob, Unlocked, Registered, Demoting, Transfers
  <1>7. CASE NoRoom
    BY <1>0, <1>7, ThrowHolds DEF NoRoom, IndInv, TypeOK
  <1>8. CASE CopyRefused
    <2>1. ~Unlocked /\ Mover \in Expert /\ Dest \in Pool
      BY <1>8, CopyTypes DEF CopyRefused
    <2>2. GiveBack \in [Pool -> Int]
      BY <1>0, <2>1, UsedTypes DEF GiveBack
    <2> QED
      BY <1>8, <2>1, <2>2, ThrowHolds DEF CopyRefused, IndInv, TypeOK
  <1>9. ASSUME NEW kind \in {"runtime", "other"}, CopyThrew(kind)
        PROVE  IndInv'
    <2>1. ~Unlocked /\ Mover \in Expert /\ Dest \in Pool
      BY <1>9, CopyTypes DEF CopyThrew
    <2>2. GiveBack \in [Pool -> Int]
      BY <1>0, <2>1, UsedTypes DEF GiveBack
    <2>3. orphaned' \in [Pool -> Nat]
      BY <1>9, <2>1, CapacityAssumption DEF CopyThrew, IndInv, TypeOK
    <2>4. Throw(kind, used) \/ Throw(kind, GiveBack)
      BY <1>9 DEF CopyThrew
    <2>5. UNCHANGED leases
      BY <1>9 DEF CopyThrew
    <2> QED
      BY <1>0, <2>1, <2>2, <2>3, <2>4, <2>5, ThrowHolds
  <1> QED
    BY <1>1, <1>2, <1>3, <1>4, <1>5, <1>6, <1>7, <1>8, <1>9 DEF HolderStep

\* Type correctness and what the holder relies on are inductive together.
LEMMA NextIndInv == IndInv /\ [Next]_vars => IndInv'
  <1> SUFFICES ASSUME IndInv, [Next]_vars PROVE IndInv'
    OBVIOUS
  <1>1. CASE UNCHANGED vars
    BY <1>1
    DEF vars, IndInv, TypeOK, HolderOwns, Unlocked, Registered, Demoting, Transfers
  <1> QED
    BY <1>1, HolderIndInv, CallerIndInv DEF Next

\* The inductive invariant holds of every behaviour.
THEOREM Invariance == Spec => []IndInv
  BY InitIndInv, NextIndInv, PTL DEF Spec

\* Every variable of the manager keeps its type, and no lease counter passes
\* zero or its bound.
THEOREM TypeCorrect == Spec => []TypeOK
  <1>1. IndInv => TypeOK
    BY DEF IndInv
  <1> QED
    BY <1>1, Invariance, PTL

\* While the mutex is held, the expert being moved stays registered and
\* unleased, and a victim is an unleased VRAM expert.
THEOREM HolderCorrect == Spec => []HolderOwns
  <1>1. IndInv => HolderOwns
    BY DEF IndInv
  <1> QED
    BY <1>1, Invariance, PTL

\* Who changes a location: the victim, the mover, or a caller's expert, and
\* where to.
LEMMA LocationMoves ==
  ASSUME IndInv, Next, NEW e \in Expert, loc'[e] # loc[e]
  PROVE  \/ leases[e] = 0 /\ e # job.expert
         \/ e = job.expert /\ loc'[e] \in Pool /\ (leases[e] > 0 => loc'[e] = "Vram")
         \/ e = job.expert /\ job.op = "Register" /\ leases[e] = 0
  <1> USE ExpertAssumption
  <1> DEFINE Goal ==
        \/ leases[e] = 0 /\ e # job.expert
        \/ e = job.expert /\ loc'[e] \in Pool /\ (leases[e] > 0 => loc'[e] = "Vram")
        \/ e = job.expert /\ job.op = "Register" /\ leases[e] = 0
  <1>1. ASSUME NEW kind, NEW u, Throw(kind, u)
        PROVE  Goal
    <2>1. CASE Demoting /\ kind = "runtime"
      BY <1>1, <2>1 DEF Throw, IndInv, TypeOK, HolderOwns, Demoting
    <2>2. CASE ~(Demoting /\ kind = "runtime")
      <3>1. job.op = "Register" /\ loc' = [loc EXCEPT ![job.expert] = Absent]
        BY <1>1, <2>2 DEF Throw
      <3> QED
        BY <3>1 DEF IndInv, TypeOK, HolderOwns
    <2> QED
      BY <2>1, <2>2
  <1>2. ASSUME NEW v \in Expert, EvictVictim(v)
        PROVE  Goal
    BY <1>2 DEF EvictVictim, Victims, Pinned, IndInv, TypeOK
  <1>3. CASE Copied
    <2>1. e = Mover /\ loc'[e] = Dest /\ Dest \in Pool
      BY <1>3, CopyTypes DEF Copied, IndInv, TypeOK
    <2>2. leases[e] = 0
      BY <1>3, <2>1 DEF Copied, IndInv, HolderOwns, Transfers, Mover, Demoting
    <2>3. CASE Demoting
      BY <2>1, <2>2, <2>3 DEF Mover, IndInv, HolderOwns
    <2>4. CASE ~Demoting
      BY <2>1, <2>2, <2>4 DEF Mover, IndInv, TypeOK
    <2> QED
      BY <2>3, <2>4
  <1>4. CASE Adopt
    <2>1. e = job.expert /\ loc'[e] = job.to /\ job.to \in Pool /\ job.op = "Adopt"
      BY <1>4 DEF Adopt, Mover, Dest, IndInv, TypeOK, Job
    <2>2. leases[e] > 0 => job.to = "Vram"
      BY <2>1 DEF IndInv, TypeOK, HolderOwns, Pool
    <2> QED
      BY <2>1, <2>2
  <1>5. ASSUME NEW f \in Expert, NEW tier \in Tier, RegisterExpert(f, tier)
        PROVE  Goal
    <2>1. e = f /\ job = NoJob /\ loc[e] = Absent
      BY <1>5 DEF RegisterExpert, Registered, IndInv, TypeOK, HolderOwns
    <2> QED
      BY <2>1 DEF IndInv, TypeOK, HolderOwns, NoJob, Pool, Absent
  <1>6. ASSUME NEW f \in Expert, MoveToNvme(f)
        PROVE  Goal
    BY <1>6 DEF MoveToNvme, IndInv, TypeOK, HolderOwns, NoJob
  <1>7. CASE HolderStep
    BY <1>1, <1>2, <1>3, <1>4, <1>7
    DEF HolderStep, DemoteVictim, Reserve, Return, NoRoom, CopyRefused, CopyThrew
  <1>8. CASE CallerStep
    BY <1>5, <1>6, <1>8
    DEF CallerStep, MoveExpert, Lease, LeaseAfterMove, PrepareResidency,
        ReleaseLease, AdoptDeviceWeights, AdoptHostWeights, PollVram, PollRam,
        EvictUntilWithin
  <1> QED
    BY <1>7, <1>8 DEF Next

\* No step evicts or demotes a leased expert, for any tiers and any policy.
THEOREM LeaseCorrect == Spec => LeaseProtects
  <1>1. IndInv /\ [Next]_vars
        => [\A e \in Expert :
              leases[e] > 0 /\ loc'[e] # loc[e] => loc[e] # "Vram" /\ loc'[e] = "Vram"]_vars
    <2> SUFFICES ASSUME IndInv, Next, NEW e \in Expert,
                        leases[e] > 0, loc'[e] # loc[e]
                 PROVE  loc'[e] = "Vram"
      OBVIOUS
    <2> QED
      BY LocationMoves DEF IndInv, TypeOK
  <1> QED
    BY <1>1, Invariance, PTL DEF Spec, LeaseProtects

\* The room made for an expert is never made by evicting that expert, and a
\* promotion that fails leaves it where it was staged.
THEOREM StagedCorrect == Spec => KeepsStaged
  <1>1. IndInv /\ [Next]_vars
        => [\A e \in Expert :
              job.expert = e /\ loc[e] \in Pool /\ job.op # "Register"
              => loc'[e] \in Pool]_vars
    <2> SUFFICES ASSUME IndInv, Next, NEW e \in Expert,
                        job.expert = e, loc[e] \in Pool, job.op # "Register"
                 PROVE  loc'[e] \in Pool
      OBVIOUS
    <2> QED
      BY LocationMoves
  <1> QED
    BY <1>1, Invariance, PTL DEF Spec, KeepsStaged

-----------------------------------------------------------------------------
(* The bytes of the tiers. *)

\* Bytes is the sum of FiniteSums, over any set of experts.
LEMMA BytesFacts ==
  ASSUME NEW S \in SUBSET Expert
  PROVE  /\ Bytes(S) \in Nat
         /\ Bytes({}) = 0
         /\ \A e \in Expert \ S : Bytes(S \cup {e}) = Bytes(S) + Size[e]
         /\ \A e \in S : Bytes(S \ {e}) = Bytes(S) - Size[e]
  <1>1. \A T : Bytes(T) = SumOver(Size, T)
    BY DEF Bytes, SumOver, MapThenSumSet
  <1>2. IsFiniteSet(S) /\ \A e \in Expert : Size[e] \in Int /\ Size[e] \in Nat
    BY FiniteAssumption, CapacityAssumption, FS_Subset
  <1>3. SumOver(Size, S) \in Nat
    BY <1>2, SumType
  <1>4. SumOver(Size, {}) = 0
    BY SumEmpty
  <1>5. ASSUME NEW e \in Expert \ S
        PROVE  SumOver(Size, S \cup {e}) = SumOver(Size, S) + Size[e]
    BY <1>2, <1>5, SumAdd
  <1>6. ASSUME NEW e \in S
        PROVE  SumOver(Size, S \ {e}) = SumOver(Size, S) - Size[e]
    <2>1. SumOver(Size, S) = Size[e] + SumOver(Size, S \ {e})
      BY <1>2, SumRemove
    <2>2. SumOver(Size, S \ {e}) \in Int
      BY <1>2, FS_RemoveElement, SumType
    <2> QED
      BY <1>2, <2>1, <2>2
  <1> QED
    BY <1>1, <1>3, <1>4, <1>5, <1>6

\* What an expert at l takes of a tier.
Share(e, l, tier) == IF l = tier THEN Size[e] ELSE 0

\* An expert that changes its location takes its bytes along.
LEMMA ResidentMoves ==
  ASSUME TypeOK, NEW e \in Expert, NEW l, loc' = [loc EXCEPT ![e] = l], NEW tier \in Pool
  PROVE  Bytes(Resident(tier))' =
           Bytes(Resident(tier)) - Share(e, loc[e], tier) + Share(e, l, tier)
  <1> DEFINE S == Resident(tier)
  <1>1. S \in SUBSET Expert /\ (e \in S <=> loc[e] = tier) /\ Size[e] \in Nat
    BY CapacityAssumption DEF Resident
  <1>2. Bytes(S) \in Nat
    BY <1>1, BytesFacts
  <1>3. S' = IF l = tier THEN S \cup {e} ELSE S \ {e}
    BY DEF Resident, TypeOK
  <1>4. Bytes(S)' = Bytes(S')
    BY DEF Bytes, MapThenSumSet, MapThenFoldSet
  <1>5. CASE l = tier /\ e \in S
    <2>1. S' = S
      BY <1>3, <1>5
    <2> QED
      BY <1>1, <1>2, <1>4, <1>5, <2>1 DEF Share
  <1>6. CASE l = tier /\ e \notin S
    <2>1. Bytes(S') = Bytes(S) + Size[e]
      <3>1. S' = S \cup {e}
        BY <1>3, <1>6
      <3>2. Bytes(S \cup {e}) = Bytes(S) + Size[e]
        BY <1>1, <1>6, BytesFacts
      <3> QED
        BY <3>1, <3>2, Zenon
    <2> QED
      BY <1>1, <1>2, <1>4, <1>6, <2>1 DEF Share
  <1>7. CASE l # tier /\ e \in S
    <2>1. Bytes(S') = Bytes(S) - Size[e]
      <3>1. S' = S \ {e}
        BY <1>3, <1>7
      <3>2. Bytes(S \ {e}) = Bytes(S) - Size[e]
        BY <1>1, <1>7, BytesFacts
      <3> QED
        BY <3>1, <3>2, Zenon
    <2> QED
      BY <1>1, <1>2, <1>4, <1>7, <2>1 DEF Share
  <1>8. CASE l # tier /\ e \notin S
    <2>1. S' = S
      BY <1>3, <1>8
    <2> QED
      BY <1>1, <1>2, <1>4, <1>8, <2>1 DEF Share
  <1> QED
    BY <1>5, <1>6, <1>7, <1>8

\* What is in flight is the mover, and only during a copy.
Flight(tier) == IF job.stage = "copy" THEN Share(Mover, Dest, tier) ELSE 0

LEMMA InFlightBytes ==
  ASSUME NEW tier \in Pool, job.stage = "copy" => Mover \in Expert
  PROVE  Bytes(InFlight(tier)) = Flight(tier) /\ Flight(tier) \in Nat
  <1>1. Bytes({}) = 0 /\ \A e \in Expert : Bytes({e}) = Size[e]
    <2>1. Bytes({}) = 0 /\ \A e \in Expert : Bytes({} \cup {e}) = Bytes({}) + Size[e]
      BY BytesFacts
    <2>2. \A e \in Expert : Size[e] \in Nat /\ {} \cup {e} = {e}
      BY CapacityAssumption
    <2> QED
      BY <2>1, <2>2
  <1>2. InFlight(tier) = IF job.stage = "copy" /\ Dest = tier THEN {Mover} ELSE {}
    BY DEF InFlight
  <1> QED
    BY <1>1, <1>2, CapacityAssumption DEF Share, Flight

\* With no copy under way nothing is in flight after the step.
LEMMA NothingInFlight ==
  ASSUME NEW tier \in Pool, job'.stage # "copy"
  PROVE  Bytes(InFlight(tier))' = 0
  <1>1. InFlight(tier)' = {}
    BY DEF InFlight
  <1>2. Bytes(InFlight(tier))' = Bytes(InFlight(tier)')
    BY DEF Bytes, MapThenSumSet, MapThenFoldSet
  <1>3. Bytes({}) = 0
    BY BytesFacts
  <1> QED
    BY <1>1, <1>2, <1>3

\* memory_.release takes an expert's share from its tier.
LEMMA ReleasedShare ==
  ASSUME NEW u \in [Pool -> Int], NEW e \in Expert, NEW tier \in Pool
  PROVE  Released(u, e)[tier] = u[tier] - Share(e, loc[e], tier)
  BY CapacityAssumption DEF Released, Share

\* Accounting of one tier.
Balanced(tier) ==
  /\ used[tier] = Bytes(Resident(tier)) + Bytes(InFlight(tier)) + orphaned[tier]
  /\ used[tier] <= Limit[tier]

\* The numbers of a tier are numbers, and what is in flight is known.
LEMMA TierNumbers ==
  ASSUME IndInv, NEW tier \in Pool
  PROVE  /\ Bytes(Resident(tier)) \in Nat
         /\ Bytes(InFlight(tier)) = Flight(tier) /\ Flight(tier) \in Nat
         /\ used[tier] \in Int /\ orphaned[tier] \in Nat /\ Limit[tier] \in Nat
         /\ \A e \in Expert, l \in Tier \cup {Absent} : Share(e, l, tier) \in Nat
  <1>1. Bytes(Resident(tier)) \in Nat
    BY BytesFacts DEF Resident
  <1>2. Bytes(InFlight(tier)) = Flight(tier) /\ Flight(tier) \in Nat
    BY InFlightBytes, CopyTypes
  <1> QED
    BY <1>1, <1>2, CapacityAssumption DEF IndInv, TypeOK, Share

\* A step after which no copy is under way balances if the bytes in flight go,
\* at most one expert moves with its share, and what is orphaned is kept.
LEMMA BalanceMoves ==
  ASSUME IndInv, NEW tier \in Pool, Balanced(tier),
         NEW e \in Expert, NEW l \in Tier \cup {Absent}, loc' = [loc EXCEPT ![e] = l],
         job'.stage # "copy", orphaned'[tier] \in Nat,
         used'[tier] = used[tier] - Flight(tier) + (orphaned'[tier] - orphaned[tier])
                         - Share(e, loc[e], tier) + Share(e, l, tier),
         used'[tier] <= Limit[tier]
  PROVE  Balanced(tier)'
  <1>1. Bytes(Resident(tier))' =
          Bytes(Resident(tier)) - Share(e, loc[e], tier) + Share(e, l, tier)
    BY ResidentMoves DEF IndInv
  <1>2. Bytes(InFlight(tier))' = 0
    BY NothingInFlight
  <1>3. Share(e, loc[e], tier) \in Nat /\ Share(e, l, tier) \in Nat
    BY TierNumbers DEF IndInv, TypeOK
  <1> QED
    BY <1>1, <1>2, <1>3, TierNumbers DEF Balanced

\* The same when no expert moves.
LEMMA BalanceStays ==
  ASSUME IndInv, NEW tier \in Pool, Balanced(tier), loc' = loc,
         job'.stage # "copy", orphaned'[tier] \in Nat,
         used'[tier] = used[tier] - Flight(tier) + (orphaned'[tier] - orphaned[tier]),
         used'[tier] <= Limit[tier]
  PROVE  Balanced(tier)'
  <1>1. Bytes(Resident(tier))' = Bytes(Resident(tier))
    BY DEF Bytes, MapThenSumSet, MapThenFoldSet, Resident
  <1>2. Bytes(InFlight(tier))' = 0
    BY NothingInFlight
  <1> QED
    BY <1>1, <1>2, TierNumbers DEF Balanced

\* An exception keeps the balance if u has returned what was in flight or the
\* orphaned bytes account for it.
LEMMA BalanceThrow ==
  ASSUME IndInv, ~Unlocked, NEW tier \in Pool, Balanced(tier),
         NEW u \in [Pool -> Int], NEW kind, Throw(kind, u), orphaned'[tier] \in Nat,
         u[tier] = used[tier] - Flight(tier) + (orphaned'[tier] - orphaned[tier]),
         u[tier] <= used[tier]
  PROVE  Balanced(tier)'
  <1> USE ExpertAssumption
  <1>0. \A e \in Expert : Share(e, loc[e], tier) \in Nat
    BY TierNumbers DEF IndInv, TypeOK
  <1>1. used[tier] <= Limit[tier] /\ used[tier] \in Int /\ Limit[tier] \in Int /\ u[tier] \in Int
    BY TierNumbers DEF Balanced
  <1>2. Share(job.expert, "Nvme", tier) = 0 /\ Share(job.expert, Absent, tier) = 0
        /\ Share(job.victim, "Nvme", tier) = 0
    BY DEF Share, Pool, Absent
  <1>3. CASE Demoting /\ kind = "runtime"
    <2>1. /\ used' = Released(u, job.victim) /\ loc' = [loc EXCEPT ![job.victim] = "Nvme"]
          /\ job' = [job EXCEPT !.stage = "room", !.victim = NoExpert]
      BY <1>3 DEF Throw
    <2>2. job.victim \in Expert /\ job'.stage # "copy" /\ "Nvme" \in Tier
      BY <1>3, <2>1 DEF IndInv, TypeOK, Job, Demoting, Tier
    <2>3. used'[tier] = u[tier] - Share(job.victim, loc[job.victim], tier)
      BY <2>1, <2>2, ReleasedShare
    <2>4. used'[tier] <= Limit[tier]
      BY <1>0, <1>1, <2>2, <2>3
    <2>5. used'[tier] = used[tier] - Flight(tier) + (orphaned'[tier] - orphaned[tier])
             - Share(job.victim, loc[job.victim], tier) + Share(job.victim, "Nvme", tier)
      BY <1>0, <1>1, <1>2, <2>2, <2>3, TierNumbers
    <2> QED
      BY <2>1, <2>2, <2>4, <2>5, BalanceMoves
  <1>4. CASE ~(Demoting /\ kind = "runtime") /\ job.op = "Register"
    <2>1. /\ used' = Released(u, job.expert) /\ loc' = [loc EXCEPT ![job.expert] = Absent]
          /\ job' = NoJob
      BY <1>4 DEF Throw, Unlock
    <2>2. job.expert \in Expert /\ job'.stage # "copy"
      BY <1>4, <2>1 DEF IndInv, HolderOwns, NoJob
    <2>3. used'[tier] = u[tier] - Share(job.expert, loc[job.expert], tier)
      BY <2>1, <2>2, ReleasedShare
    <2>4. used'[tier] <= Limit[tier]
      BY <1>0, <1>1, <2>2, <2>3
    <2>5. used'[tier] = used[tier] - Flight(tier) + (orphaned'[tier] - orphaned[tier])
             - Share(job.expert, loc[job.expert], tier) + Share(job.expert, Absent, tier)
      BY <1>0, <1>1, <1>2, <2>2, <2>3, TierNumbers
    <2> QED
      BY <2>1, <2>2, <2>4, <2>5, BalanceMoves
  <1>5. CASE ~(Demoting /\ kind = "runtime") /\ job.op # "Register"
    <2>1. used' = u /\ loc' = loc /\ job' = NoJob
      BY <1>5 DEF Throw, Unlock
    <2>2. job'.stage # "copy"
      BY <2>1 DEF NoJob
    <2> QED
      BY <1>1, <2>1, <2>2, BalanceStays
  <1> QED
    BY <1>3, <1>4, <1>5

\* A step that touches neither the experts, the bytes nor the stage.
LEMMA BalanceKept ==
  ASSUME NEW tier \in Pool, Balanced(tier), UNCHANGED <<loc, used, orphaned, job>>
  PROVE  Balanced(tier)'
  <1>1. Bytes(Resident(tier))' = Bytes(Resident(tier))
    BY DEF Bytes, MapThenSumSet, MapThenFoldSet, Resident
  <1>2. Bytes(InFlight(tier))' = Bytes(InFlight(tier))
    BY DEF Bytes, MapThenSumSet, MapThenFoldSet, InFlight, Dest, Mover, Demoting
  <1> QED
    BY <1>1, <1>2 DEF Balanced

\* The steps of the callers: only registering and dropping move an expert, and
\* neither adds a byte.
LEMMA CallerBalance ==
  ASSUME IndInv, NEW tier \in Pool, Balanced(tier), CallerStep
  PROVE  Balanced(tier)'
  <1> USE ExpertAssumption
  <1>0. /\ used[tier] \in Int /\ orphaned[tier] \in Nat /\ Limit[tier] \in Nat
        /\ used[tier] <= Limit[tier]
        /\ \A e \in Expert : Share(e, loc[e], tier) \in Nat
        /\ \A e \in Expert : Share(e, "Nvme", tier) = 0 /\ Share(e, Absent, tier) = 0
    <2>1. \A e \in Expert : Share(e, loc[e], tier) \in Nat
      BY TierNumbers DEF IndInv, TypeOK
    <2>2. \A e \in Expert : Share(e, "Nvme", tier) = 0 /\ Share(e, Absent, tier) = 0
      BY DEF Share, Pool, Absent
    <2> QED
      BY <2>1, <2>2, TierNumbers DEF Balanced
  <1>1. Unlocked => Flight(tier) = 0 /\ job = NoJob /\ job.stage = "room"
    BY DEF Flight, IndInv, HolderOwns, NoJob
  <1>2. ASSUME Unlocked, job'.stage = "room", UNCHANGED <<loc, used, orphaned>>
        PROVE  Balanced(tier)'
    BY <1>0, <1>1, <1>2, BalanceStays
  <1>3. ASSUME NEW op, NEW e, NEW to, NEW goal, Unlocked, Start(op, e, to, goal),
               UNCHANGED <<loc, used, orphaned>>
        PROVE  Balanced(tier)'
    BY <1>2, <1>3 DEF Start
  <1>4. ASSUME NEW e \in Expert, NEW t \in Tier, RegisterExpert(e, t)
        PROVE  Balanced(tier)'
    <2>1. loc[e] = Absent /\ loc' = [loc EXCEPT ![e] = "Nvme"] /\ Unlocked
          /\ UNCHANGED <<used, orphaned>>
      BY <1>4 DEF RegisterExpert, Registered
    <2>2. job'.stage # "copy"
      BY <1>1, <1>4 DEF RegisterExpert, Start
    <2>3. "Nvme" \in Tier
      BY DEF Tier
    <2>4. used'[tier] = used[tier] - Flight(tier) + (orphaned'[tier] - orphaned[tier])
                         - Share(e, loc[e], tier) + Share(e, "Nvme", tier)
      BY <1>0, <1>1, <2>1
    <2>5. used'[tier] <= Limit[tier] /\ orphaned'[tier] \in Nat
      BY <1>0, <2>1
    <2> QED
      BY <2>1, <2>2, <2>3, <2>4, <2>5, BalanceMoves
  <1>5. ASSUME NEW e \in Expert, MoveToNvme(e)
        PROVE  Balanced(tier)'
    <2>1. used' = Released(used, e) /\ loc' = [loc EXCEPT ![e] = "Nvme"] /\ Unlocked
          /\ UNCHANGED <<orphaned, job>>
      BY <1>5 DEF MoveToNvme
    <2>2. used'[tier] = used[tier] - Share(e, loc[e], tier)
      BY <2>1, ReleasedShare DEF IndInv, TypeOK
    <2>3. "Nvme" \in Tier
      BY DEF Tier
    <2>4. used'[tier] <= Limit[tier]
      BY <1>0, <2>2
    <2>5. used'[tier] = used[tier] - Flight(tier) + (orphaned'[tier] - orphaned[tier])
                         - Share(e, loc[e], tier) + Share(e, "Nvme", tier)
      BY <1>0, <1>1, <2>1, <2>2
    <2>6. job'.stage # "copy" /\ orphaned'[tier] \in Nat
      BY <1>0, <1>1, <2>1
    <2> QED
      BY <2>1, <2>3, <2>4, <2>5, <2>6, BalanceMoves
  <1>6. ASSUME NEW e \in Expert, NEW t \in Pool,
               MoveExpert(e, t) \/ LeaseAfterMove(e, t) \/ PrepareResidency(e, t)
        PROVE  Balanced(tier)'
    BY <1>3, <1>6 DEF MoveExpert, LeaseAfterMove, PrepareResidency
  <1>7. ASSUME NEW e \in Expert, AdoptDeviceWeights(e) \/ AdoptHostWeights(e)
        PROVE  Balanced(tier)'
    BY <1>3, <1>7 DEF AdoptDeviceWeights, AdoptHostWeights
  <1>8. CASE EvictUntilWithin
    BY <1>3, <1>8 DEF EvictUntilWithin
  <1>9. ASSUME NEW e \in Expert, ReleaseLease(e) \/ \E t \in Pool : Lease(e, t)
        PROVE  Balanced(tier)'
    BY <1>9, BalanceKept DEF ReleaseLease, Lease
  <1>10. CASE PollVram \/ PollRam
    BY <1>10, BalanceKept DEF PollVram, PollRam
  <1> QED
    BY <1>4, <1>5, <1>6, <1>7, <1>8, <1>9, <1>10 DEF CallerStep

\* The steps of the operation that holds the mutex.
LEMMA HolderBalance ==
  ASSUME IndInv, NEW tier \in Pool, Balanced(tier), HolderStep
  PROVE  Balanced(tier)'
  <1> USE ExpertAssumption
  <1>0. /\ used[tier] \in Int /\ orphaned[tier] \in Nat /\ Limit[tier] \in Nat
        /\ Flight(tier) \in Nat /\ used[tier] <= Limit[tier]
        /\ \A e \in Expert, l \in Tier \cup {Absent} : Share(e, l, tier) \in Nat
        /\ \A e \in Expert : Share(e, "Nvme", tier) = 0
    <2>1. \A e \in Expert : Share(e, "Nvme", tier) = 0
      BY DEF Share, Pool
    <2> QED
      BY <2>1, TierNumbers DEF Balanced
  <1>1. /\ used \in [Pool -> Int] /\ \A e \in Expert : loc[e] \in Tier \cup {Absent}
        /\ \A p \in Pool : p \in Tier
    BY DEF IndInv, TypeOK, Tier
  <1>2. job.stage = "room" => Flight(tier) = 0
    BY DEF Flight
  <1>3. ASSUME NEW v \in Expert, EvictVictim(v)
        PROVE  Balanced(tier)'
    <2>1. used' = Released(used, v) /\ loc' = [loc EXCEPT ![v] = "Nvme"]
          /\ job.stage = "room" /\ UNCHANGED <<orphaned, job>>
      BY <1>3 DEF EvictVictim, Seeking
    <2>2. used'[tier] = used[tier] - Share(v, loc[v], tier)
      BY <1>1, <2>1, ReleasedShare
    <2>3. used'[tier] <= Limit[tier]
      BY <1>0, <1>1, <2>2
    <2>4. "Nvme" \in Tier
      BY DEF Tier
    <2>5. used'[tier] = used[tier] - Flight(tier) + (orphaned'[tier] - orphaned[tier])
                         - Share(v, loc[v], tier) + Share(v, "Nvme", tier)
      BY <1>0, <1>1, <1>2, <2>1, <2>2
    <2>6. job'.stage # "copy" /\ orphaned'[tier] \in Nat
      BY <1>0, <2>1
    <2> QED
      BY <2>1, <2>3, <2>4, <2>5, <2>6, BalanceMoves
  <1>4. ASSUME NEW v \in Expert, DemoteVictim(v)
        PROVE  Balanced(tier)'
    <2>1. job'.stage = "room" /\ job.stage = "room" /\ UNCHANGED <<loc, used, orphaned>>
      BY <1>4 DEF DemoteVictim, Seeking, IndInv, TypeOK, Job
    <2> QED
      BY <1>0, <1>2, <2>1, BalanceStays
  <1>5. CASE Reserve
    <2>1. ~Unlocked /\ ~Evicting /\ job.stage = "room" /\ HasRoom
      BY <1>5 DEF Reserve, Seeking, Transfers, Evicting
    <2>2. Mover \in Expert /\ Dest \in Pool /\ Size[Mover] \in Nat
      BY <2>1, MoverTypes, CapacityAssumption
    <2>3. used'[tier] = used[tier] + Share(Mover, Dest, tier)
          /\ UNCHANGED <<loc, orphaned>> /\ job' = [job EXCEPT !.stage = "copy"]
      BY <1>0, <1>1, <1>5, <2>2 DEF Reserve, Share
    <2>4. used'[tier] <= Limit[tier]
      BY <1>0, <1>1, <2>1, <2>2, <2>3, CapacityAssumption DEF HasRoom, Available, Share
    <2>5. Bytes(Resident(tier))' = Bytes(Resident(tier))
      BY <2>3 DEF Bytes, MapThenSumSet, MapThenFoldSet, Resident
    <2>6. Bytes(InFlight(tier))' = Share(Mover, Dest, tier)
      <3>1. job'.stage = "copy" /\ Mover' = Mover /\ Dest' = Dest
        BY <2>3 DEF IndInv, TypeOK, Job, Mover, Dest, Demoting
      <3>2. InFlight(tier)' = IF Dest = tier THEN {Mover} ELSE {}
        BY <2>2, <3>1 DEF InFlight
      <3>3. Bytes(InFlight(tier))' = Bytes(InFlight(tier)')
        BY DEF Bytes, MapThenSumSet, MapThenFoldSet
      <3>4. Bytes({}) = 0 /\ Bytes({Mover}) = Size[Mover]
        <4>1. Bytes({} \cup {Mover}) = Bytes({}) + Size[Mover] /\ Bytes({}) = 0
          BY <2>2, BytesFacts
        <4>2. {} \cup {Mover} = {Mover}
          OBVIOUS
        <4> QED
          BY <2>2, <4>1, <4>2
      <3> QED
        BY <3>2, <3>3, <3>4 DEF Share
    <2>7. Bytes(InFlight(tier)) = 0 /\ Bytes(Resident(tier)) \in Nat
      BY <1>2, <2>1, TierNumbers
    <2> QED
      BY <1>0, <1>1, <2>2, <2>3, <2>4, <2>5, <2>6, <2>7 DEF Balanced
  <1>6. CASE Copied
    <2>1. Mover \in Expert /\ Dest \in Pool /\ job.stage = "copy"
      BY <1>6, CopyTypes DEF Copied
    <2>2. used' = Released(used, Mover) /\ loc' = [loc EXCEPT ![Mover] = Dest]
          /\ UNCHANGED orphaned
      BY <1>6 DEF Copied
    <2>3. job'.stage # "copy"
      <3>1. job' = NoJob \/ job'.stage = "room"
        BY <1>6 DEF Copied, Unlock, IndInv, TypeOK, Job
      <3> QED
        BY <3>1 DEF NoJob
    <2>4. used'[tier] = used[tier] - Share(Mover, loc[Mover], tier)
      BY <1>1, <2>1, <2>2, ReleasedShare
    <2>5. Flight(tier) = Share(Mover, Dest, tier)
      BY <2>1 DEF Flight
    <2>6. Share(Mover, loc[Mover], tier) \in Nat /\ Share(Mover, Dest, tier) \in Nat
      BY <1>0, <1>1, <2>1
    <2>7. used'[tier] <= Limit[tier]
      BY <1>0, <2>4, <2>6
    <2>8. used'[tier] = used[tier] - Flight(tier) + (orphaned'[tier] - orphaned[tier])
                         - Share(Mover, loc[Mover], tier) + Share(Mover, Dest, tier)
      BY <1>0, <2>2, <2>4, <2>5, <2>6
    <2> QED
      BY <1>0, <1>1, <2>1, <2>2, <2>3, <2>7, <2>8, BalanceMoves
  <1>7. CASE Adopt
    <2>1. ~Unlocked /\ ~Evicting /\ job.stage = "room" /\ HasRoom
      BY <1>7 DEF Adopt, Seeking, Evicting
    <2>2. Mover \in Expert /\ Dest \in Pool /\ Size[Mover] \in Nat
      BY <2>1, MoverTypes, CapacityAssumption
    <2> DEFINE u == [used EXCEPT ![Dest] = @ + Size[Mover]]
    <2>3. used' = Released(u, Mover) /\ loc' = [loc EXCEPT ![Mover] = Dest]
          /\ UNCHANGED orphaned /\ job' = NoJob
      BY <1>7 DEF Adopt, Unlock
    <2>4. u \in [Pool -> Int] /\ u[tier] = used[tier] + Share(Mover, Dest, tier)
      BY <1>0, <1>1, <2>2 DEF Share
    <2>5. u[tier] <= Limit[tier]
      BY <1>0, <1>1, <2>1, <2>2, <2>4, CapacityAssumption DEF HasRoom, Available, Share
    <2> HIDE DEF u
    <2>6. used'[tier] = u[tier] - Share(Mover, loc[Mover], tier)
      BY <2>2, <2>3, <2>4, ReleasedShare
    <2>7. Share(Mover, loc[Mover], tier) \in Nat /\ Share(Mover, Dest, tier) \in Nat
      BY <1>0, <1>1, <2>2
    <2>8. used'[tier] <= Limit[tier]
      BY <1>0, <2>4, <2>5, <2>6, <2>7
    <2>9. used'[tier] = used[tier] - Flight(tier) + (orphaned'[tier] - orphaned[tier])
                         - Share(Mover, loc[Mover], tier) + Share(Mover, Dest, tier)
      BY <1>0, <1>2, <2>1, <2>3, <2>4, <2>6, <2>7
    <2>10. job'.stage # "copy"
      BY <2>3 DEF NoJob
    <2> QED
      BY <1>0, <1>1, <2>2, <2>3, <2>8, <2>9, <2>10, BalanceMoves
  <1>8. CASE Return
    <2>1. job' = NoJob /\ job.stage = "room" /\ UNCHANGED <<loc, used, orphaned>>
      BY <1>8 DEF Return, Seeking, Unlock
    <2> QED
      BY <1>0, <1>2, <2>1, BalanceStays DEF NoJob
  <1>9. CASE NoRoom
    <2>1. ~Unlocked /\ job.stage = "room" /\ Throw("runtime", used) /\ UNCHANGED orphaned
      BY <1>9 DEF NoRoom
    <2> QED
      BY <1>0, <1>1, <1>2, <2>1, BalanceThrow
  <1>10. job.stage = "copy" => /\ ~Unlocked /\ GiveBack \in [Pool -> Int]
                               /\ GiveBack[tier] = used[tier] - Flight(tier)
                               /\ Mover \in Expert /\ Dest \in Pool
    <2> SUFFICES ASSUME job.stage = "copy"
                 PROVE  /\ ~Unlocked /\ GiveBack \in [Pool -> Int]
                        /\ GiveBack[tier] = used[tier] - Flight(tier)
                        /\ Mover \in Expert /\ Dest \in Pool
      OBVIOUS
    <2>1. ~Unlocked /\ Mover \in Expert /\ Dest \in Pool /\ Size[Mover] \in Nat
      BY CopyTypes, CapacityAssumption
    <2> QED
      BY <1>0, <1>1, <2>1 DEF GiveBack, Flight, Share
  <1>11. CASE CopyRefused
    <2>1. job.stage = "copy" /\ Throw("runtime", GiveBack) /\ UNCHANGED orphaned
      BY <1>11 DEF CopyRefused
    <2>2. GiveBack[tier] <= used[tier]
          /\ GiveBack[tier] = used[tier] - Flight(tier) + (orphaned'[tier] - orphaned[tier])
      BY <1>0, <1>10, <2>1
    <2> QED
      BY <1>0, <1>10, <2>1, <2>2, BalanceThrow
  <1>12. ASSUME NEW kind \in {"runtime", "other"}, CopyThrew(kind)
         PROVE  Balanced(tier)'
    <2>1. job.stage = "copy"
      BY <1>12 DEF CopyThrew
    <2>2. CASE loc[Mover] = "Nvme"
      <3>1. orphaned' = [orphaned EXCEPT ![Dest] = @ + Size[Mover]] /\ Throw(kind, used)
        BY <1>12, <2>2 DEF CopyThrew
      <3>2. Size[Mover] \in Nat /\ orphaned \in [Pool -> Nat]
        BY <1>10, <2>1, CapacityAssumption DEF IndInv, TypeOK
      <3>3. orphaned'[tier] = orphaned[tier] + Flight(tier)
        BY <1>10, <2>1, <3>1, <3>2 DEF Flight, Share
      <3>4. orphaned'[tier] \in Nat
            /\ used[tier] = used[tier] - Flight(tier) + (orphaned'[tier] - orphaned[tier])
        BY <1>0, <3>3
      <3> QED
        BY <1>0, <1>1, <1>10, <2>1, <3>1, <3>4, BalanceThrow
    <2>3. CASE loc[Mover] # "Nvme"
      <3>1. UNCHANGED orphaned /\ Throw(kind, GiveBack)
        BY <1>12, <2>3 DEF CopyThrew
      <3>2. GiveBack[tier] <= used[tier]
            /\ GiveBack[tier] = used[tier] - Flight(tier) + (orphaned'[tier] - orphaned[tier])
        BY <1>0, <1>10, <2>1, <3>1
      <3> QED
        BY <1>0, <1>10, <2>1, <3>1, <3>2, BalanceThrow
    <2> QED
      BY <2>2, <2>3
  <1> QED
    BY <1>3, <1>4, <1>5, <1>6, <1>7, <1>8, <1>9, <1>11, <1>12 DEF HolderStep

\* MemoryManager's bytes are accounted for in every reachable state, through
\* the exceptions and the rollbacks: nothing is released twice, nothing is
\* lost but what CopyThrew orphans, and no tier passes its limit.
THEOREM AccountingCorrect == Spec => []Accounting
  <1> USE ExpertAssumption
  <1>0. Accounting <=> \A tier \in Pool : Balanced(tier)
    BY DEF Accounting, Balanced
  <1>1. Init => Accounting
    <2> SUFFICES ASSUME Init, NEW tier \in Pool PROVE Balanced(tier)
      BY <1>0
    <2>1. Resident(tier) = {} /\ InFlight(tier) = {}
      BY DEF Init, Resident, InFlight, NoJob, Pool, Absent
    <2>2. Bytes(Resident(tier)) = 0 /\ Bytes(InFlight(tier)) = 0
      <3>1. Bytes({}) = 0
        BY BytesFacts
      <3> QED
        BY <2>1, <3>1, Zenon
    <2> QED
      BY <2>2, CapacityAssumption DEF Init, Balanced
  <1>2. IndInv /\ Accounting /\ [Next]_vars => Accounting'
    <2> SUFFICES ASSUME IndInv, [Next]_vars, NEW tier \in Pool, Balanced(tier)
                 PROVE  Balanced(tier)'
      <3>1. (\A tier \in Pool : Balanced(tier)') => Accounting'
        BY DEF Accounting, Balanced
      <3> QED
        BY <1>0, <3>1
    <2>1. CASE UNCHANGED vars
      BY <2>1, BalanceKept DEF vars
    <2> QED
      BY <2>1, CallerBalance, HolderBalance DEF Next
  <1> QED
    BY <1>1, <1>2, Invariance, PTL DEF Spec
=============================================================================
