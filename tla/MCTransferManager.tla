-------------------------- MODULE MCTransferManager -------------------------
(***************************************************************************)
(* Instances of TransferManager for TLC: a demanded and a prefetched cold  *)
(* load, a demotion that shares the first one's stream, a load that needs  *)
(* no stream and a hand-over that has no last checkpoint.                  *)
(***************************************************************************)
EXTENDS TransferManager

Kind(p, s, d) == [priority |-> p, source |-> s, destination |-> d]
MixedRequests ==
  {Kind(400, "Nvme", "Vram"), Kind(300, "Nvme", "Vram"), Kind(0, "Vram", "Ram"),
   Kind(0, "Nvme", "Ram"), Kind(400, "Vram", "Vram")}
=============================================================================
