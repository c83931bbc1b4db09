---------------------------- MODULE MCMoERuntime ----------------------------
EXTENDS MoERuntime

Router == [expertCount |-> 2, topK |-> 1, softmax |-> FALSE, renormalize |-> TRUE]

\* Layer 1 may select either expert; a zero sum makes layer 0's router refuse.
Scores == (0 :> {<<2, 1>>}) @@ (1 :> {<<2, 1>>, <<1, 2>>}) @@ (2 :> {<<2, 1>>})
ShortScores == (0 :> {<<2, 1>>, <<0, 0>>}) @@ (1 :> {<<2, 1>>, <<1, 2>>})

\* A prompt of one or two tokens twice, then a decoded token.
Tokens == <<{1, 2}, {1, 2}, {1}>>
Decode == <<{1}, {1}, {1}, {1}>>

Mode(device, adaptive, overlap, ram, vram) ==
  [device |-> device, native |-> device, adaptive |-> adaptive,
   overlap |-> overlap, ram |-> ram, vram |-> vram]

\* CPU with room for one expert and for two, CPU without predictor and overlap,
\* CUDA with room for two experts on the device and one in RAM, with and without
\* predictor.
AllModes ==
  {Mode(FALSE, TRUE, TRUE, 2, 1), Mode(FALSE, TRUE, TRUE, 1, 1),
   Mode(FALSE, FALSE, FALSE, 1, 1),
   Mode(TRUE, TRUE, TRUE, 1, 2), Mode(TRUE, FALSE, TRUE, 1, 2)}
CpuModes == {Mode(FALSE, TRUE, TRUE, 2, 1)}
=============================================================================
