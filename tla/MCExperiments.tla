--------------------------- MODULE MCExperiments ----------------------------
(* Instances of Experiments for TLC: one user. *)
EXTENDS Experiments

OneOwner == [e \in Experiments |-> CHOOSE u \in Users : TRUE]
=============================================================================
