------------------------------ MODULE Lockstep ------------------------------
(***************************************************************************)
(* One LockstepOrchestrator (snapshot/lockstep.py) and the requests that   *)
(* drive it (live/router.py): several engines of one scenario, ticked one  *)
(* after another by one background thread.                                 *)
(*                                                                         *)
(* The orchestrator's lock is a plain threading.Lock. A block that neither *)
(* waits nor steps an engine is one action, which finds the lock free; the *)
(* loop's tick holds it from engine to engine, and so does start() on a    *)
(* paused comparison, for it calls resume(), which asks for the lock again.*)
(* An engine's status and clock are read without the lock by play.         *)
(***************************************************************************)
EXTENDS Naturals

CONSTANTS
    NRuns,      \* len(self.runs); run 1 is self._lead
    Threads,    \* identities of background threads; a dead one is reused
    NoThread,   \* the None of self._thread
    Clients,    \* the request handlers inside the orchestrator at once
    Nobody,     \* the owner of a free lock
    Duration    \* duration in ticks, shared by all runs

ASSUME LockstepAssumption ==
    /\ NRuns \in Nat \ {0} /\ Duration \in Nat \ {0}
    /\ NoThread \notin Threads
    /\ Nobody \notin Threads \cup Clients
    /\ Threads \cap Clients = {}

VARIABLES
    status,     \* run.engine.status of each run
    ticks,      \* run.clock of each run
    stopEvent,  \* self._stop_event.is_set()
    thread,     \* self._thread
    lock,       \* who holds self._lock
    loop,       \* where each background thread is in _run_loop
    cursor,     \* the run that the tick under way steps next
    call,       \* what each client is in the middle of
    faulted,    \* history: an engine has raised inside a tick
    torn        \* history: a frame has shown the runs on different ticks

engineVars == <<status, ticks, faulted>>
loopVars   == <<stopEvent, thread, loop>>
vars == <<status, ticks, stopEvent, thread, lock, loop, cursor, call, faulted,
          torn>>

Runs     == 1..NRuns
Statuses == {"INITIALIZED", "RUNNING", "PAUSED", "COMPLETED", "ERROR"}
Lead     == status[1]

(* "test": asleep, or at the stop_event test; "tick": waiting for the lock *)
(* to check and step; "step": inside step(), holding it; "failed": step()  *)
(* raised; "after": waiting for the lock of the completion check; "dead":  *)
(* returned or never started.                                              *)
LoopPlaces == {"test", "tick", "step", "failed", "after", "dead"}

(* "start", "resume": play has read a status and is about to make that     *)
(* call; "resuming", "stopping": in the join() of resume() and stop();     *)
(* "stuck": in the resume() that start() called.                           *)
Ops   == {"none", "start", "resume", "resuming", "stopping", "stuck"}
Calls == [op : Ops, joins : Threads \cup {NoThread}]

At(op, t) == [op |-> op, joins |-> t]
Idle      == At("none", NoThread)

Free        == lock = Nobody
Alive(t)    == t # NoThread /\ loop[t] # "dead"
Joinable(c) == ~Alive(call[c].joins)
OneTick     == \A r, s \in Runs : ticks[r] = ticks[s]

Init ==
    /\ status = [r \in Runs |-> "INITIALIZED"]
    /\ ticks = [r \in Runs |-> 0]
    /\ stopEvent = FALSE
    /\ thread = NoThread
    /\ lock = Nobody
    /\ loop = [t \in Threads |-> "dead"]
    /\ cursor = 1
    /\ call = [c \in Clients |-> Idle]
    /\ faulted = FALSE
    /\ torn = FALSE

(***************************************************************************)
(* Helpers of the lifecycle.                                               *)
(***************************************************************************)

TransitionAll(new) == status' = [r \in Runs |-> new]

Becomes(c, op, t) == call' = [call EXCEPT ![c] = At(op, t)]
Returns(c)        == call' = [call EXCEPT ![c] = Idle]

(* Fault: the new thread is started with the stop event still set. *)
LaunchStopped ==
    \E t \in Threads \ {thread} :
        /\ loop[t] = "dead"
        /\ \A c \in Clients : call[c].joins # t
        /\ thread' = t
        /\ loop' = [loop EXCEPT ![t] = "test"]
        /\ UNCHANGED stopEvent

(* Clear the stop event and start a new thread. A thread identity is       *)
(* reused once it is dead and nobody refers to it.                         *)
Launch ==
    \E t \in Threads \ {thread} :
        /\ loop[t] = "dead"
        /\ \A c \in Clients : call[c].joins # t
        /\ thread' = t
        /\ loop' = [loop EXCEPT ![t] = "test"]
        /\ stopEvent' = FALSE

(***************************************************************************)
(* The background thread.                                                  *)
(***************************************************************************)

GoTo(t, place) == loop' = [loop EXCEPT ![t] = place]

(* while not self._stop_event.is_set(), read without the lock *)
LoopTest(t) ==
    /\ loop[t] = "test"
    /\ GoTo(t, IF stopEvent THEN "dead" ELSE "tick")
    /\ UNCHANGED <<engineVars, stopEvent, thread, lock, cursor, call, torn>>

(* Fault: a loop that finds a run not running goes round again. *)
LoopCheckRetries(t) ==
    /\ loop[t] = "tick" /\ Free
    /\ IF \E r \in Runs : status[r] # "RUNNING"
       THEN GoTo(t, "test") /\ UNCHANGED <<lock, cursor>>
       ELSE GoTo(t, "step") /\ lock' = t /\ cursor' = 1
    /\ UNCHANGED <<engineVars, stopEvent, thread, call, torn>>

(* The status check; the lock is kept for the tick that follows. *)
LoopCheck(t) ==
    /\ loop[t] = "tick" /\ Free
    /\ IF \E r \in Runs : status[r] # "RUNNING"
       THEN GoTo(t, "dead") /\ UNCHANGED <<lock, cursor>>
       ELSE GoTo(t, "step") /\ lock' = t /\ cursor' = 1
    /\ UNCHANGED <<engineVars, stopEvent, thread, call, torn>>

(* Fault: the step runs on past the last run. *)
StepRunPastLast(t) ==
    /\ loop[t] = "step" /\ status[cursor] = "RUNNING"
    /\ ticks' = [ticks EXCEPT ![cursor] = @ + 1]
    /\ IF cursor <= NRuns
       THEN cursor' = cursor + 1 /\ UNCHANGED <<lock, loop>>
       ELSE GoTo(t, "after") /\ lock' = Nobody /\ UNCHANGED cursor
    /\ UNCHANGED <<status, faulted, stopEvent, thread, call, torn>>

(* engine.step() of the run under the cursor: it raises on a completed     *)
(* engine; otherwise the clock moves first, then any subsystem may raise,  *)
(* and the tick that reaches the duration completes the run. The lock is   *)
(* given back after the last run, or by the exception.                     *)
StepRun(t) ==
    /\ loop[t] = "step"
    /\ \/ /\ status[cursor] = "COMPLETED"
          /\ GoTo(t, "failed") /\ lock' = Nobody
          /\ UNCHANGED <<engineVars, cursor>>
       \/ /\ status[cursor] # "COMPLETED"
          /\ ticks' = [ticks EXCEPT ![cursor] = @ + 1]
          /\ \/ /\ faulted' = TRUE
                /\ GoTo(t, "failed") /\ lock' = Nobody
                /\ UNCHANGED <<status, cursor>>
             \/ /\ status' = IF ticks'[cursor] >= Duration
                             THEN [status EXCEPT ![cursor] = "COMPLETED"]
                             ELSE status
                /\ IF cursor < NRuns
                   THEN cursor' = cursor + 1 /\ UNCHANGED <<lock, loop>>
                   ELSE /\ GoTo(t, "after") /\ lock' = Nobody
                        /\ UNCHANGED cursor
                /\ UNCHANGED faulted
    /\ UNCHANGED <<stopEvent, thread, call, torn>>

(* The exception handler takes the lock afresh and looks at nothing. *)
LoopFail(t) ==
    /\ loop[t] = "failed" /\ Free
    /\ TransitionAll("ERROR")
    /\ GoTo(t, "dead")
    /\ UNCHANGED <<ticks, faulted, stopEvent, thread, lock, cursor, call, torn>>

LoopAfter(t) ==
    /\ loop[t] = "after" /\ Free
    /\ GoTo(t, IF \A r \in Runs : status[r] = "COMPLETED" THEN "dead" ELSE "test")
    /\ UNCHANGED <<engineVars, stopEvent, thread, lock, cursor, call, torn>>

(***************************************************************************)
(* The requests. Every route first resolves the orchestrator; play, pause  *)
(* and the streams' frames keep it, the routes that reconfigure, reset or  *)
(* evict stop it.                                                          *)
(***************************************************************************)

(* play_dual_simulation, play_comparison: read the lead's status, without  *)
(* the lock, and decide by it what to call. A finished comparison is       *)
(* stopped again and replaced by a new object (StopBegin).                 *)
Play(c) ==
    /\ call[c] = Idle
    /\ \/ Lead = "INITIALIZED" /\ Becomes(c, "start", NoThread)
       \/ Lead = "PAUSED" /\ Becomes(c, "resume", NoThread)
    /\ UNCHANGED <<engineVars, loopVars, lock, cursor, torn>>

(* start(): by now the status may be any. On a paused comparison it calls  *)
(* resume() with the lock in hand, and never comes back.                   *)
Start(c) ==
    /\ call[c].op = "start" /\ Free
    /\ \/ /\ Lead = "RUNNING"
          /\ Returns(c)
          /\ UNCHANGED <<status, loopVars, lock>>
       \/ /\ Lead = "PAUSED"
          /\ lock' = c
          /\ Becomes(c, "stuck", NoThread)
          /\ UNCHANGED <<status, loopVars>>
       \/ /\ Lead \notin {"RUNNING", "PAUSED"}
          /\ TransitionAll("RUNNING")
          /\ Launch
          /\ Returns(c)
          /\ UNCHANGED lock
    /\ UNCHANGED <<ticks, faulted, cursor, torn>>

(* resume(), first block: remember the thread to wait for. *)
ResumeBegin(c) ==
    /\ call[c].op = "resume" /\ Free
    /\ IF Lead = "PAUSED" THEN Becomes(c, "resuming", thread) ELSE Returns(c)
    /\ UNCHANGED <<engineVars, loopVars, lock, cursor, torn>>

(* resume(), second block, once that thread has ended: only the status is  *)
(* looked at again.                                                        *)
ResumeFinish(c) ==
    /\ call[c].op = "resuming" /\ Joinable(c) /\ Free
    /\ \/ /\ Lead = "PAUSED"
          /\ TransitionAll("RUNNING")
          /\ Launch
       \/ /\ Lead # "PAUSED"
          /\ UNCHANGED <<status, loopVars>>
    /\ Returns(c)
    /\ UNCHANGED <<ticks, faulted, lock, cursor, torn>>

(* Fault: pause() leaves the engines behind the lead as they are. *)
PauseLeadOnly(c) ==
    /\ call[c] = Idle /\ Free /\ Lead = "RUNNING"
    /\ stopEvent' = TRUE
    /\ status' = [status EXCEPT ![1] = "PAUSED"]
    /\ UNCHANGED <<ticks, faulted, thread, loop, lock, cursor, call, torn>>

(* Fault: pause() does not look at the status. *)
PauseUnchecked(c) ==
    /\ call[c] = Idle /\ Free
    /\ stopEvent' = TRUE
    /\ TransitionAll("PAUSED")
    /\ UNCHANGED <<ticks, faulted, thread, loop, lock, cursor, call, torn>>

Pause(c) ==
    /\ call[c] = Idle /\ Free /\ Lead = "RUNNING"
    /\ stopEvent' = TRUE
    /\ TransitionAll("PAUSED")
    /\ UNCHANGED <<ticks, faulted, thread, loop, lock, cursor, call, torn>>

(* stop(), first block: in any status, unlike an engine's stop(). *)
StopBegin(c) ==
    /\ call[c] = Idle /\ Free
    /\ stopEvent' = TRUE
    /\ TransitionAll("COMPLETED")
    /\ Becomes(c, "stopping", thread)
    /\ UNCHANGED <<ticks, faulted, thread, loop, lock, cursor, torn>>

StopFinish(c) ==
    /\ call[c].op = "stopping" /\ Joinable(c)
    /\ Returns(c)
    /\ UNCHANGED <<engineVars, loopVars, lock, cursor, torn>>

(* Fault: a frame is put together while the loop steps the runs. *)
SnapshotUnlocked(c) ==
    /\ call[c] = Idle
    /\ torn' = (torn \/ ~OneTick)
    /\ UNCHANGED <<engineVars, loopVars, lock, cursor, call>>

(* get_dual_snapshot, get_snapshot: every run is read under one lock hold. *)
Snapshot(c) ==
    /\ call[c] = Idle /\ Free
    /\ torn' = (torn \/ ~OneTick)
    /\ UNCHANGED <<engineVars, loopVars, lock, cursor, call>>

(***************************************************************************)
(* The specification.                                                      *)
(***************************************************************************)

LoopStep(t) ==
    LoopTest(t) \/ LoopCheck(t) \/ StepRun(t) \/ LoopFail(t) \/ LoopAfter(t)

(* What a request that is already inside goes on to do. *)
Proceed(c) ==
    Start(c) \/ ResumeBegin(c) \/ ResumeFinish(c) \/ StopFinish(c)

Request(c) == Play(c) \/ Pause(c) \/ StopBegin(c) \/ Snapshot(c)

Next ==
    \/ \E t \in Threads : LoopStep(t)
    \/ \E c \in Clients : Proceed(c) \/ Request(c)

(* The scheduler runs every thread that can run, and a request inside the  *)
(* orchestrator goes on. Nobody has to make a request.                     *)
Fairness ==
    /\ \A t \in Threads : WF_vars(LoopStep(t))
    /\ \A c \in Clients : WF_vars(Proceed(c))

Spec     == Init /\ [][Next]_vars
FairSpec == Spec /\ Fairness

(***************************************************************************)
(* Properties.                                                             *)
(***************************************************************************)

TypeOK ==
    /\ status \in [Runs -> Statuses]
    /\ ticks \in [Runs -> Nat]
    /\ stopEvent \in BOOLEAN
    /\ thread \in Threads \cup {NoThread}
    /\ lock \in Threads \cup Clients \cup {Nobody}
    /\ loop \in [Threads -> LoopPlaces]
    /\ cursor \in Runs
    /\ call \in [Clients -> Calls]
    /\ faulted \in BOOLEAN
    /\ torn \in BOOLEAN

(* The clocks never drift apart and the runs end together: whenever the    *)
(* lock is free, all engines are on the same tick with the same status,    *)
(* also while two loops tick them (a resume() overtaken by another's), and *)
(* whatever requests come in between. Only an engine that raised in the    *)
(* middle of a tick may leave its clock ahead of the others'.              *)
InStep ==
    Free /\ ~faulted =>
        OneTick /\ \A r, s \in Runs : status[r] = status[s]

(* A frame sent to a viewer shows every run on the same tick, although the *)
(* loop ticks one engine after another (F-51).                             *)
FramesAreWhole == torn => faulted

(* A comparison reports ERROR only if an engine raised inside a tick: a    *)
(* stop() that lands while a tick begins is not reported as a failure.     *)
ErrorOnlyFromFault == (\E r \in Runs : status[r] = "ERROR") => faulted

(* A comparison that says RUNNING has a loop that will go on ticking it:   *)
(* its latest thread is alive and has not been told to stop, whatever      *)
(* play, pause and stop overtake each other.                               *)
RunningIsDriven == Lead = "RUNNING" => Alive(thread) /\ ~stopEvent

Shown == INSTANCE ComparisonLifecycle
            WITH shown <- status[1], tick <- ticks[1], failing <- faulted

(* What a viewer sees of the lead run is the life of one simulation.       *)
ImplementsComparison == Shown!WatchSpec

(* A start() that holds the lock and waits for it. *)
Hung == \E c \in Clients : call[c].op = "stuck"

(* Every request returns, a stop() or resume() that joins a thread too,    *)
(* although another request may clear the stop event before that thread    *)
(* has read it; unless a start() hangs, which stops everyone.              *)
RequestsReturn ==
    \/ <>Hung
    \/ \A c \in Clients : call[c] # Idle ~> call[c] = Idle

(* What the comment of snapshot_lock() says: whoever wants the lock waits  *)
(* at most one tick. The lock does not stay taken.                         *)
LockIsGivenBack == ~Free ~> Free
=============================================================================
