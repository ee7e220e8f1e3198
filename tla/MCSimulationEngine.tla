------------------------- MODULE MCSimulationEngine -------------------------
(* Instances of SimulationEngine for TLC: what the REST API can ask of an  *)
(* engine, and what a caller holding the object can.                       *)
EXTENDS SimulationEngine

ApiOps     == {"start", "pause", "resume", "stop"}
LibraryOps == ApiOps \cup {"reset"}
=============================================================================
