---------------------------- MODULE MCInference ----------------------------
(***************************************************************************)
(* Instances of Inference for TLC.  A size_t of nine bits keeps the sizes  *)
(* small enough to overflow; a geometry of 16 values per token does.       *)
(***************************************************************************)
EXTENDS Inference, TLC

CONSTANTS c1, c2

G(layers, seq, heads, dim) ==
  [layers |-> layers, seq |-> seq, heads |-> heads, dim |-> dim]

\* Two layers of three tokens; one layer of four; one whose total does not fit
\* a size_t, one whose per-token size does not, one without layers.
Geometries ==
  {G(2, 3, 1, 1), G(1, 4, 1, 1), G(2, 2, 4, 4), G(1, 1, 9, 7), G(0, 3, 1, 1)}
Callers == Permutations(Caller)
=============================================================================
