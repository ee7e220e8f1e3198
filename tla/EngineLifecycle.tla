-------------------------- MODULE EngineLifecycle --------------------------
(***************************************************************************)
(* What one SimulationEngine promises the rest of the backend, with its    *)
(* threads and locks left out: the status a client may see, when the clock *)
(* may move, and what ends up in the run history.                          *)
(*                                                                         *)
(* SimulationEngine.tla, the model of the code, is checked and proved to   *)
(* implement this specification.                                           *)
(***************************************************************************)
EXTENDS Naturals

CONSTANTS Duration      \* the tick on which a run completes

VARIABLES
    status,     \* SimulationStatus (core/enums.py)
    ticks,      \* Clock._ticks
    faulted,    \* whether a subsystem has raised inside a tick
    record      \* what the run history holds of this simulation

lifeVars == <<status, ticks, faulted, record>>

Statuses == {"INITIALIZED", "RUNNING", "PAUSED", "COMPLETED", "ERROR"}
Ended    == {"COMPLETED", "ERROR"}
Outcomes == {"none", "completed", "error", "lost"}

(* The run history keeps the outcome of the first ending and nothing else. *)
(* "lost" is a database failure, which is logged and swallowed.            *)
Recorded(new, old) ==
    IF new \in Ended /\ old = "none"
    THEN {IF new = "COMPLETED" THEN "completed" ELSE "error", "lost"}
    ELSE {old}

Becomes(new) ==
    /\ status' = new
    /\ record' \in Recorded(new, record)

LifeInit ==
    /\ status = "INITIALIZED"
    /\ ticks = 0
    /\ faulted = FALSE
    /\ record = "none"

Begin ==
    /\ status = "INITIALIZED"
    /\ Becomes("RUNNING")
    /\ UNCHANGED <<ticks, faulted>>

Suspend ==
    /\ status = "RUNNING"
    /\ Becomes("PAUSED")
    /\ UNCHANGED <<ticks, faulted>>

Continue ==
    /\ status = "PAUSED"
    /\ Becomes("RUNNING")
    /\ UNCHANGED <<ticks, faulted>>

Halt ==
    /\ status \in {"RUNNING", "PAUSED"}
    /\ Becomes("COMPLETED")
    /\ UNCHANGED <<ticks, faulted>>

(* Time passes only while the engine runs. *)
Advance ==
    /\ status = "RUNNING"
    /\ ticks' = ticks + 1
    /\ \/ /\ ticks' < Duration
          /\ UNCHANGED <<status, faulted, record>>
       \/ /\ ticks' >= Duration
          /\ Becomes("COMPLETED")
          /\ UNCHANGED faulted
       \/ /\ faulted' = TRUE
          /\ UNCHANGED <<status, record>>

(* A failure is reported at any time after the tick that raised, whatever  *)
(* the clients have done in between, and never without such a tick.        *)
ReportFailure ==
    /\ faulted
    /\ Becomes("ERROR")
    /\ UNCHANGED <<ticks, faulted>>

(* A reset takes the engine back from any status, the run history aside.   *)
Rewind ==
    /\ Becomes("INITIALIZED")
    /\ ticks' = 0
    /\ UNCHANGED faulted

LifeNext ==
    \/ Begin \/ Suspend \/ Continue \/ Halt \/ Advance \/ ReportFailure
    \/ Rewind

LifeSpec == LifeInit /\ [][LifeNext]_lifeVars
=============================================================================
