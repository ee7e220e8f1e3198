----------------------------- MODULE MCLockstep -----------------------------
(* The signal-vs-roundabout pair for TLC: two runs of a two-tick scenario. *)
EXTENDS Lockstep

Pair     == 2
TwoTicks == 2
=============================================================================
