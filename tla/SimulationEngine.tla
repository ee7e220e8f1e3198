-------------------------- MODULE SimulationEngine --------------------------
(***************************************************************************)
(* One SimulationEngine (engine/simulation_engine.py): its lifecycle, the  *)
(* background thread that ticks it, the API requests that control it, and  *)
(* the status callback that writes the finished run to the run history     *)
(* (simulations/registry.py).                                              *)
(*                                                                         *)
(* Requests are handled on a thread pool, so several may be inside the     *)
(* engine at once. Every "with self._lock" block is one action: the block  *)
(* holds the engine's lock throughout and calls nothing that gives it up.  *)
(* What the code does between two blocks (the stop_event test at the top   *)
(* of the loop, the sleep, join()) is a place where others may run.        *)
(***************************************************************************)
EXTENDS Naturals, FiniteSets

CONSTANTS
    Threads,    \* identities of background threads; a dead one is reused
    NoThread,   \* the None of self._thread
    Clients,    \* the request handlers that may be inside the engine at once
    Ops,        \* the operations those handlers call
    Duration    \* duration in ticks (Clock.ticks_for_duration)

ASSUME NoThreadAssumption == NoThread \notin Threads
ASSUME DurationAssumption == Duration \in Nat \ {0}

VARIABLES
    status,        \* self.status
    stopEvent,     \* self._stop_event.is_set()
    thread,        \* self._thread
    loop,          \* where each background thread is in _run_loop
    call,          \* the resume() or reset() each client is in the middle of
    ticks,         \* self.clock._ticks
    hasPersisted,  \* has_persisted of the registry's status callback
    record,        \* what the run history holds of this simulation
    faulted        \* history: a subsystem has raised inside a tick

clientVars == <<call>>
runVars    == <<ticks, faulted>>
recVars    == <<hasPersisted, record>>
vars == <<status, stopEvent, thread, loop, call, ticks, hasPersisted, record,
          faulted>>

Statuses == {"INITIALIZED", "RUNNING", "PAUSED", "COMPLETED", "ERROR"}
Ended    == {"COMPLETED", "ERROR"}

(* "test": asleep, or at the stop_event test; "tick": waiting for the lock *)
(* to check and step; "failed": step() raised, the lock is free again;     *)
(* "after": waiting for the lock of the completion check; "dead": returned *)
(* or never started.                                                       *)
LoopPlaces == {"test", "tick", "failed", "after", "dead"}

(* A client inside resume() or reset() waits to join the thread it read. *)
Idle  == [op |-> "none", joins |-> NoThread]
Calls == [op : {"none", "resume", "reset"}, joins : Threads \cup {NoThread}]

Alive(t)    == t # NoThread /\ loop[t] # "dead"
Joinable(c) == ~Alive(call[c].joins)
Free(c, op) == op \in Ops /\ call[c] = Idle

Init ==
    /\ status = "INITIALIZED"
    /\ stopEvent = FALSE
    /\ thread = NoThread
    /\ loop = [t \in Threads |-> "dead"]
    /\ call = [c \in Clients |-> Idle]
    /\ ticks = 0
    /\ hasPersisted = FALSE
    /\ record = "none"
    /\ faulted = FALSE

-----------------------------------------------------------------------------
(***************************************************************************)
(* _transition_to and the callback the registry hangs on it.               *)
(***************************************************************************)

(* Fault: the outcome is stored as the enum member, not as its lower case. *)
PersistRawStatus(new) == record' \in {new, "lost"}

(* persist_completed_run: a database failure is logged and swallowed.      *)
PersistCompletedRun(new) ==
    record' \in {IF new = "COMPLETED" THEN "completed" ELSE "error", "lost"}

(* Fault: only a completed run is written to the history. *)
OnCompletedOnly(new) ==
    IF new = "COMPLETED" /\ ~hasPersisted
    THEN hasPersisted' = TRUE /\ PersistCompletedRun(new)
    ELSE UNCHANGED recVars

(* Fault: every ending writes, has_persisted is not consulted. *)
OnEveryEnding(new) ==
    IF new \in Ended
    THEN hasPersisted' = TRUE /\ PersistCompletedRun(new)
    ELSE UNCHANGED recVars

(* _on_status_change: the first ending claims has_persisted and writes.    *)
OnStatusChange(new) ==
    IF new \in Ended /\ ~hasPersisted
    THEN hasPersisted' = TRUE /\ PersistCompletedRun(new)
    ELSE UNCHANGED recVars

TransitionTo(new) ==
    /\ status' = new
    /\ OnStatusChange(new)

-----------------------------------------------------------------------------
(***************************************************************************)
(* The background thread.                                                  *)
(***************************************************************************)

(* Fault: the new thread is started with the stop event still set. *)
LaunchStopped(t) ==
    /\ loop[t] = "dead" /\ t # thread
    /\ \A c \in Clients : call[c].joins # t
    /\ UNCHANGED stopEvent
    /\ thread' = t
    /\ loop' = [loop EXCEPT ![t] = "test"]

(* Thread(target=self._run_loop).start(), with the stop event cleared. A   *)
(* thread identity is reused once it is dead and nobody refers to it.      *)
Launch(t) ==
    /\ loop[t] = "dead" /\ t # thread
    /\ \A c \in Clients : call[c].joins # t
    /\ stopEvent' = FALSE
    /\ thread' = t
    /\ loop' = [loop EXCEPT ![t] = "test"]

GoTo(t, place) == loop' = [loop EXCEPT ![t] = place]

(* while not self._stop_event.is_set(), read without the lock *)
LoopTest(t) ==
    /\ loop[t] = "test"
    /\ GoTo(t, IF stopEvent THEN "dead" ELSE "tick")
    /\ UNCHANGED <<status, stopEvent, thread, clientVars, runVars, recVars>>

(* step(): raises on a completed engine; otherwise the clock moves first,  *)
(* then spawner, controller, vehicles or a tick callback may raise, and a  *)
(* tick that reaches the duration completes the run.                       *)
Step(t) ==
    IF status = "COMPLETED"
    THEN /\ GoTo(t, "failed")
         /\ UNCHANGED <<status, runVars, recVars>>
    ELSE /\ ticks' = ticks + 1
         /\ \/ /\ GoTo(t, "failed")
               /\ faulted' = TRUE
               /\ UNCHANGED <<status, recVars>>
            \/ /\ GoTo(t, "after")
               /\ UNCHANGED faulted
               /\ IF ticks' >= Duration
                  THEN TransitionTo("COMPLETED")
                  ELSE UNCHANGED <<status, recVars>>

(* Fault: a loop that finds the engine not running goes round again. *)
LoopTickRetries(t) ==
    /\ loop[t] = "tick"
    /\ IF status # "RUNNING"
       THEN GoTo(t, "test") /\ UNCHANGED <<status, runVars, recVars>>
       ELSE Step(t)
    /\ UNCHANGED <<stopEvent, thread, clientVars>>

(* The status check and the tick are one critical section. *)
LoopTick(t) ==
    /\ loop[t] = "tick"
    /\ IF status # "RUNNING"
       THEN GoTo(t, "dead") /\ UNCHANGED <<status, runVars, recVars>>
       ELSE Step(t)
    /\ UNCHANGED <<stopEvent, thread, clientVars>>

(* The exception handler takes the lock afresh and looks at nothing. *)
LoopFail(t) ==
    /\ loop[t] = "failed"
    /\ GoTo(t, "dead")
    /\ TransitionTo("ERROR")
    /\ UNCHANGED <<stopEvent, thread, clientVars, runVars>>

LoopAfter(t) ==
    /\ loop[t] = "after"
    /\ GoTo(t, IF status = "COMPLETED" THEN "dead" ELSE "test")
    /\ UNCHANGED <<status, stopEvent, thread, clientVars, runVars, recVars>>

-----------------------------------------------------------------------------
(***************************************************************************)
(* The control operations (control_simulation in simulations/router.py     *)
(* calls all of them but reset). Where a status does not allow one, the    *)
(* call returns or raises without changing anything.                       *)
(***************************************************************************)

Start(c) ==
    /\ Free(c, "start")
    /\ status = "INITIALIZED"
    /\ TransitionTo("RUNNING")
    /\ \E t \in Threads : Launch(t)
    /\ UNCHANGED <<clientVars, runVars>>

Pause(c) ==
    /\ Free(c, "pause")
    /\ status = "RUNNING"
    /\ TransitionTo("PAUSED")
    /\ stopEvent' = TRUE
    /\ UNCHANGED <<thread, loop, clientVars, runVars>>

Stop(c) ==
    /\ Free(c, "stop")
    /\ status \in {"RUNNING", "PAUSED"}
    /\ stopEvent' = TRUE
    /\ TransitionTo("COMPLETED")
    /\ UNCHANGED <<thread, loop, clientVars, runVars>>

(* resume(), first block: remember the thread to wait for. *)
ResumeBegin(c) ==
    /\ Free(c, "resume")
    /\ status = "PAUSED"
    /\ call' = [call EXCEPT ![c] = [op |-> "resume", joins |-> thread]]
    /\ UNCHANGED <<status, stopEvent, thread, loop, runVars, recVars>>

(* Fault: resume() does not wait for the old thread. *)
ResumeFinishUnjoined(c) ==
    /\ call[c].op = "resume"
    /\ call' = [call EXCEPT ![c] = Idle]
    /\ \/ /\ status = "PAUSED"
          /\ TransitionTo("RUNNING")
          /\ \E t \in Threads : Launch(t)
       \/ /\ status # "PAUSED"
          /\ UNCHANGED <<status, stopEvent, thread, loop, recVars>>
    /\ UNCHANGED runVars

(* resume(), second block, once the thread it remembered has ended: only   *)
(* the status is looked at again. Returning frees the client.              *)
ResumeFinish(c) ==
    /\ call[c].op = "resume" /\ Joinable(c)
    /\ call' = [call EXCEPT ![c] = Idle]
    /\ \/ /\ status = "PAUSED"
          /\ TransitionTo("RUNNING")
          /\ \E t \in Threads : Launch(t)
       \/ /\ status # "PAUSED"
          /\ UNCHANGED <<status, stopEvent, thread, loop, recVars>>
    /\ UNCHANGED runVars

(* reset(), first block: stop the loop, without touching the status. *)
ResetBegin(c) ==
    /\ Free(c, "reset")
    /\ stopEvent' = TRUE
    /\ call' = [call EXCEPT ![c] = [op |-> "reset", joins |-> thread]]
    /\ UNCHANGED <<status, thread, loop, runVars, recVars>>

(* Fault: reset() does not wait for the loop it told to stop. *)
ResetFinishUnjoined(c) ==
    /\ call[c].op = "reset"
    /\ call' = [call EXCEPT ![c] = Idle]
    /\ ticks' = 0
    /\ TransitionTo("INITIALIZED")
    /\ UNCHANGED <<stopEvent, thread, loop, faulted>>

(* reset(), second block: clock, spawner, pool, reservations, detector,    *)
(* controller and collectors (the clock stands for all of them) go back to *)
(* their initial state, and so does the status, whatever it is by now.     *)
ResetFinish(c) ==
    /\ call[c].op = "reset" /\ Joinable(c)
    /\ call' = [call EXCEPT ![c] = Idle]
    /\ ticks' = 0
    /\ TransitionTo("INITIALIZED")
    /\ UNCHANGED <<stopEvent, thread, loop, faulted>>

-----------------------------------------------------------------------------
LoopStep(t) == LoopTest(t) \/ LoopTick(t) \/ LoopFail(t) \/ LoopAfter(t)

Finish(c) == ResumeFinish(c) \/ ResetFinish(c)

ClientStep(c) ==
    \/ Start(c) \/ Pause(c) \/ Stop(c)
    \/ ResumeBegin(c) \/ ResetBegin(c) \/ Finish(c)

Next == (\E t \in Threads : LoopStep(t)) \/ (\E c \in Clients : ClientStep(c))

(* The scheduler runs every thread that can run, and a request that is     *)
(* already inside the engine goes on to return. Nobody has to make a       *)
(* request.                                                                *)
Fairness ==
    /\ \A t \in Threads : WF_vars(LoopStep(t))
    /\ \A c \in Clients : WF_vars(Finish(c))

Spec     == Init /\ [][Next]_vars
FairSpec == Spec /\ Fairness

-----------------------------------------------------------------------------
(***************************************************************************)
(* Properties.                                                             *)
(***************************************************************************)

TypeOK ==
    /\ status \in Statuses
    /\ stopEvent \in BOOLEAN
    /\ thread \in Threads \cup {NoThread}
    /\ loop \in [Threads -> LoopPlaces]
    /\ call \in [Clients -> Calls]
    /\ ticks \in Nat
    /\ hasPersisted \in BOOLEAN
    /\ record \in {"none", "completed", "error", "lost"}
    /\ faulted \in BOOLEAN

(* An engine reports ERROR only if a subsystem really raised inside a      *)
(* tick. _run_loop keeps its status check and step() in one critical       *)
(* section for this: a stop() landing between the two would make step()    *)
(* raise and a clean stop surface as a failure.                            *)
ErrorOnlyFromFault == status = "ERROR" => faulted

(* An engine that says RUNNING has a loop that will keep ticking it: its   *)
(* latest thread is alive and has not been told to stop. The one exception *)
(* is a reset() under way, which stops the loop before it takes the status *)
(* back. A pause, resume and stop from several requests in any order never *)
(* leave an engine RUNNING with nobody to tick it.                         *)
RunningIsDriven ==
    status = "RUNNING" =>
        \/ Alive(thread) /\ ~stopEvent
        \/ \E c \in Clients : call[c].op = "reset"

(* At most one background thread ticks an engine: the pacing of _run_loop  *)
(* (one tick per time step of wall time) rests on it.                      *)
AtMostOneLoop ==
    \A s, t \in Threads : Alive(s) /\ Alive(t) => s = t

(* The run history never contradicts the engine: a simulation that shows   *)
(* COMPLETED or ERROR has been handed to the history, one that has not     *)
(* ended has not, and one that shows COMPLETED is never filed as an error. *)
RecordAgrees ==
    /\ status \in Ended <=> record # "none"
    /\ status = "COMPLETED" => record # "error"
    /\ record = "error" => faulted

(* After reset() nothing of the old run is left: no clock, no loop that    *)
(* could tick the next run. True when one caller at a time uses the engine.*)
ResetIsClean ==
    status = "INITIALIZED" /\ (\A c \in Clients : call[c] = Idle) =>
        ticks = 0 /\ \A t \in Threads : ~Alive(t)

Lifecycle == INSTANCE EngineLifecycle

(* The engine, threads, races and all, does nothing but what               *)
(* EngineLifecycle.tla allows: time only passes while RUNNING, no request  *)
(* revives an ended run, and the first outcome written is the one kept.    *)
ImplementsLifecycle == Lifecycle!LifeSpec

(* Nothing hangs: a request inside resume() or reset() gets out, because   *)
(* the thread it waits for ends although another request may clear the     *)
(* stop event meanwhile; and once the engine has completed, been stopped   *)
(* or failed, every background loop returns.                               *)
ThreadsReturn ==
    /\ \A c \in Clients : call[c] # Idle ~> call[c] = Idle
    /\ status \in Ended ~> (\A t \in Threads : ~Alive(t))
=============================================================================
