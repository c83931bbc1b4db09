-------------------------- MODULE MCExpertManager --------------------------
(***************************************************************************)
(* Instances of ExpertManager for TLC: two experts of one byte, one that   *)
(* fills VRAM and one that fits RAM only, in tiers of two and three bytes. *)
(* A load may need several victims, a demotion may find RAM full, and a    *)
(* promotion may fail after it has been staged.                            *)
(***************************************************************************)
EXTENDS ExpertManager

CONSTANTS a, b, wide, huge

Sizes == [e \in Expert |-> CASE e = wide -> 2 [] e = huge -> 3 [] OTHER -> 1]
SmallTiers == [p \in Pool |-> IF p = "Vram" THEN 2 ELSE 3]
OneByteTarget == [p \in Pool |-> 1]
=============================================================================
