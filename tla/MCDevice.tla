------------------------------ MODULE MCDevice ------------------------------
(* Instances of Device for TLC.                                            *)
EXTENDS Device, TLC

SizesOfTensors == {200}
ExpertsAlike == Permutations(Experts)
=============================================================================
