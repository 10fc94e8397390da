-------------------------- MODULE MCBeatScheduler --------------------------
(* Instances of BeatScheduler for TLC.                                     *)
EXTENDS BeatScheduler

CONSTANTS b1, b2

\* One action that fires at every other tick.
OneCron == <<{1, 3}>>
=============================================================================
