------------------------ MODULE ComparisonLifecycle ------------------------
(***************************************************************************)
(* What a lockstep comparison (snapshot/lockstep.py) promises whoever      *)
(* watches it: it looks like one simulation, however many engines, threads *)
(* and locks are behind it.                                                *)
(*                                                                         *)
(* Lockstep.tla, the model of the code, is checked and proved to implement *)
(* this specification. It differs from EngineLifecycle.tla, the promise of *)
(* one engine, in two ways: stop() ends a comparison in any status, and    *)
(* start() restarts one that has ended.                                    *)
(***************************************************************************)
EXTENDS Naturals

CONSTANTS Duration      \* the tick on which the comparison completes

VARIABLES
    shown,      \* the status of the comparison
    tick,       \* the tick it has reached
    failing     \* whether an engine has raised inside a tick

shownVars == <<shown, tick, failing>>

Watch == shown = "INITIALIZED" /\ tick = 0 /\ failing = FALSE

Start ==
    /\ shown \notin {"RUNNING", "PAUSED"}
    /\ shown' = "RUNNING"
    /\ UNCHANGED <<tick, failing>>

Pause ==
    /\ shown = "RUNNING"
    /\ shown' = "PAUSED"
    /\ UNCHANGED <<tick, failing>>

Resume ==
    /\ shown = "PAUSED"
    /\ shown' = "RUNNING"
    /\ UNCHANGED <<tick, failing>>

Stop ==
    /\ shown' = "COMPLETED"
    /\ UNCHANGED <<tick, failing>>

(* Time passes one tick at a time, only while RUNNING, and never past the  *)
(* duration without the comparison completing.                             *)
Advance ==
    /\ shown = "RUNNING"
    /\ tick' = tick + 1
    /\ \/ /\ shown' = IF tick' >= Duration THEN "COMPLETED" ELSE shown
          /\ UNCHANGED failing
       \/ /\ failing' = TRUE
          /\ UNCHANGED shown

(* A later engine of the tick raises: the clock the user sees has moved.   *)
LateFault ==
    /\ failing' = TRUE
    /\ UNCHANGED <<shown, tick>>

(* Never an ERROR without an engine having raised. *)
Report ==
    /\ failing
    /\ shown' = "ERROR"
    /\ UNCHANGED <<tick, failing>>

WatchNext ==
    Start \/ Pause \/ Resume \/ Stop \/ Advance \/ LateFault \/ Report

WatchSpec == Watch /\ [][WatchNext]_shownVars
=============================================================================
