---------------------------- MODULE MCJobWorker -----------------------------
(* Instances of JobWorker for TLC: every message asks for a run of its   *)
(* own, named after the message.                                         *)
EXTENDS JobWorker

OwnRun == [m \in Messages |-> m]
=============================================================================
