---------------------------- MODULE MCScheduler ----------------------------
(***************************************************************************)
(* Instances of Scheduler for TLC.  Experts are numbered in key order; the *)
(* requests are the calls the runtime and the tests make, cut down to what *)
(* each question needs.                                                    *)
(***************************************************************************)
EXTENDS Scheduler, TLC

CONSTANTS t1, t2, w1, w2, c1

TwoExperts == {0, 1}
OneLayerEach == [e \in Expert |-> e]
UnitSize == [e \in Expert |-> 1]

Load(e, dest, prio, score) ==
  [expert |-> e, dest |-> dest, prio |-> prio, score |-> score,
   evict |-> FALSE]
Evict(e, dest) ==
  [expert |-> e, dest |-> dest, prio |-> BackgroundMaintenance, score |-> 0,
   evict |-> TRUE]

\* Demand into VRAM, and prefetches with the two scores a prediction may have.
DispatchRequests ==
  {Load(e, "Vram", ActiveInference, 0) : e \in Expert}
    \cup {Load(e, "Vram", PredictedNextLayer, s) : e \in Expert, s \in 0..1}

\* One expert whose prefetch demand may overtake, and one other prefetch.
OvertakingRequests ==
  {Load(0, "Vram", ActiveInference, 0)}
    \cup {Load(e, "Vram", PredictedNextLayer, 0) : e \in Expert}

\* Prefetch into RAM, demand into VRAM, and eviction back to RAM.
ResidencyRequests ==
  {Load(e, "Ram", PredictedNextLayer, 0) : e \in Expert}
    \cup {Load(0, "Vram", ActiveInference, 0), Evict(0, "Ram")}

Slots == Permutations(Task) \cup Permutations(Worker)
=============================================================================
