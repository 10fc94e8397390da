------------------------- MODULE MCDelayedMessages -------------------------
(* Instances of DelayedMessages for TLC.                                   *)
EXTENDS DelayedMessages, TLC

CONSTANTS k1, a1, a2, b1, b2

\* Beat workers are interchangeable, and so are anonymous ids.
BeatAndIdSymmetry == Permutations(Beat) \cup Permutations(Anon)
=============================================================================
