----------------------- MODULE SimulationEngine_proofs -----------------------
(***************************************************************************)
(* Proofs about SimulationEngine.tla, for any number of background         *)
(* threads, of concurrent requests and of ticks in a run.                  *)
(***************************************************************************)
EXTENDS SimulationEngine, TLAPS

(* Every behaviour of the engine keeps its variables in their types.       *)
LEMMA TypeInit == Init => TypeOK
<1>1. Idle \in Calls
    BY DEF Idle, Calls
<1> SUFFICES ASSUME Init PROVE TypeOK
    OBVIOUS
<1>2. call \in [Clients -> Calls] /\ loop \in [Threads -> LoopPlaces]
    BY <1>1 DEF Init, LoopPlaces
<1>3. ticks \in Nat /\ status \in Statuses /\ thread \in Threads \cup {NoThread}
    BY DEF Init, Statuses
<1>4. stopEvent \in BOOLEAN /\ hasPersisted \in BOOLEAN /\ faulted \in BOOLEAN
    BY DEF Init
<1> QED
    BY <1>2, <1>3, <1>4 DEF Init, TypeOK

(* Each action preserves the types. *)
LEMMA TypeNext == TypeOK /\ [Next]_vars => TypeOK'
<1> SUFFICES ASSUME TypeOK, [Next]_vars PROVE TypeOK'
    OBVIOUS
<1> USE DEF TypeOK
<1>1. ASSUME NEW t \in Threads, LoopTest(t) PROVE TypeOK'
    BY <1>1 DEF LoopTest, GoTo, LoopPlaces, clientVars, runVars, recVars
<1>2. ASSUME NEW t \in Threads, LoopTick(t) PROVE TypeOK'
    <2>1. CASE status # "RUNNING"
        BY <1>2, <2>1 DEF LoopTick, GoTo, LoopPlaces, clientVars, runVars, recVars
    <2>2. CASE status = "RUNNING"
        <3>1. ticks' \in Nat /\ loop' \in [Threads -> LoopPlaces]
            BY <1>2, <2>2 DEF LoopTick, Step, GoTo, LoopPlaces
        <3>2. CASE faulted' = TRUE /\ UNCHANGED <<status, recVars>>
            BY <1>2, <3>1, <3>2 DEF LoopTick, clientVars, recVars
        <3>3. CASE UNCHANGED <<faulted, status, recVars>>
            BY <1>2, <3>1, <3>3 DEF LoopTick, clientVars, recVars
        <3>4. CASE UNCHANGED faulted /\ TransitionTo("COMPLETED")
            BY <1>2, <3>1, <3>4 DEF LoopTick, Statuses, TransitionTo,
               OnStatusChange, PersistCompletedRun, clientVars, recVars
        <3> QED
            BY <1>2, <2>2, <3>2, <3>3, <3>4 DEF LoopTick, Step
    <2> QED BY <2>1, <2>2
<1>3. ASSUME NEW t \in Threads, LoopFail(t) PROVE TypeOK'
    BY <1>3 DEF LoopFail, GoTo, LoopPlaces, Statuses, TransitionTo,
       OnStatusChange, PersistCompletedRun, clientVars, runVars, recVars
<1>4. ASSUME NEW t \in Threads, LoopAfter(t) PROVE TypeOK'
    BY <1>4 DEF LoopAfter, GoTo, LoopPlaces, clientVars, runVars, recVars
<1>5. ASSUME NEW c \in Clients, Start(c) PROVE TypeOK'
    BY <1>5 DEF Start, Launch, LoopPlaces, Statuses, TransitionTo,
       OnStatusChange, PersistCompletedRun, clientVars, runVars, recVars
<1>6. ASSUME NEW c \in Clients, Pause(c) PROVE TypeOK'
    BY <1>6 DEF Pause, Statuses, TransitionTo,
       OnStatusChange, PersistCompletedRun, clientVars, runVars, recVars
<1>7. ASSUME NEW c \in Clients, Stop(c) PROVE TypeOK'
    BY <1>7 DEF Stop, Statuses, TransitionTo,
       OnStatusChange, PersistCompletedRun, clientVars, runVars, recVars
<1>8. ASSUME NEW c \in Clients, ResumeBegin(c) PROVE TypeOK'
    BY <1>8 DEF ResumeBegin, Calls, runVars, recVars
<1>9. ASSUME NEW c \in Clients, ResetBegin(c) PROVE TypeOK'
    BY <1>9 DEF ResetBegin, Calls, runVars, recVars
<1>10. ASSUME NEW c \in Clients, ResumeFinish(c) PROVE TypeOK'
    <2>1. Idle \in Calls
        BY DEF Idle, Calls
    <2>2. call' \in [Clients -> Calls]
        BY <1>10, <2>1 DEF ResumeFinish
    <2> QED
        BY <1>10, <2>2 DEF ResumeFinish, Launch, LoopPlaces, Statuses, TransitionTo,
           OnStatusChange, PersistCompletedRun, runVars, recVars
<1>11. ASSUME NEW c \in Clients, ResetFinish(c) PROVE TypeOK'
    <2>1. Idle \in Calls
        BY DEF Idle, Calls
    <2>2. call' \in [Clients -> Calls]
        BY <1>11, <2>1 DEF ResetFinish
    <2> QED
        BY <1>11, <2>2 DEF ResetFinish, Statuses, TransitionTo,
           OnStatusChange, PersistCompletedRun, recVars
<1>12. CASE UNCHANGED vars
    BY <1>12 DEF vars
<1> QED
    BY <1>1, <1>2, <1>3, <1>4, <1>5, <1>6, <1>7, <1>8, <1>9, <1>10, <1>11, <1>12
    DEF Next, LoopStep, ClientStep, Finish

(* Type correctness of the engine's state under every interleaving of its  *)
(* threads and requests.                                                   *)
THEOREM TypeCorrect == Spec => []TypeOK
BY TypeInit, TypeNext, PTL DEF Spec

-----------------------------------------------------------------------------
(* Strengthening of ErrorOnlyFromFault: a thread on its way to report an   *)
(* error has seen a subsystem raise.                                       *)
FaultInv ==
    /\ ErrorOnlyFromFault
    /\ \A t \in Threads : loop[t] = "failed" => faulted

(* FaultInv is inductive: the RUNNING check of LoopTick rules out that     *)
(* step() raises because the engine has been stopped.                      *)
LEMMA FaultNext == TypeOK /\ FaultInv /\ [Next]_vars => FaultInv'
<1> SUFFICES ASSUME TypeOK, FaultInv, [Next]_vars PROVE FaultInv'
    OBVIOUS
<1> USE DEF TypeOK, FaultInv, ErrorOnlyFromFault
<1>1. ASSUME NEW t \in Threads, LoopTest(t) PROVE FaultInv'
    BY <1>1 DEF LoopTest, GoTo, runVars
<1>2. ASSUME NEW t \in Threads, LoopTick(t) PROVE FaultInv'
    <2>1. CASE status # "RUNNING"
        BY <1>2, <2>1 DEF LoopTick, GoTo, runVars
    <2>2. CASE status = "RUNNING"
        BY <1>2, <2>2 DEF LoopTick, Step, GoTo, TransitionTo
    <2> QED BY <2>1, <2>2
<1>3. ASSUME NEW t \in Threads, LoopFail(t) PROVE FaultInv'
    BY <1>3 DEF LoopFail, GoTo, TransitionTo, runVars
<1>4. ASSUME NEW t \in Threads, LoopAfter(t) PROVE FaultInv'
    BY <1>4 DEF LoopAfter, GoTo, runVars
<1>5. ASSUME NEW c \in Clients, Start(c) PROVE FaultInv'
    BY <1>5 DEF Start, Launch, TransitionTo, runVars
<1>6. ASSUME NEW c \in Clients, Pause(c) PROVE FaultInv'
    BY <1>6 DEF Pause, TransitionTo, runVars
<1>7. ASSUME NEW c \in Clients, Stop(c) PROVE FaultInv'
    BY <1>7 DEF Stop, TransitionTo, runVars
<1>8. ASSUME NEW c \in Clients, ResumeBegin(c) PROVE FaultInv'
    BY <1>8 DEF ResumeBegin, runVars
<1>9. ASSUME NEW c \in Clients, ResetBegin(c) PROVE FaultInv'
    BY <1>9 DEF ResetBegin, runVars
<1>10. ASSUME NEW c \in Clients, ResumeFinish(c) PROVE FaultInv'
    BY <1>10 DEF ResumeFinish, Launch, TransitionTo, runVars
<1>11. ASSUME NEW c \in Clients, ResetFinish(c) PROVE FaultInv'
    BY <1>11 DEF ResetFinish, TransitionTo
<1>12. CASE UNCHANGED vars
    BY <1>12 DEF vars
<1> QED
    BY <1>1, <1>2, <1>3, <1>4, <1>5, <1>6, <1>7, <1>8, <1>9, <1>10, <1>11, <1>12
    DEF Next, LoopStep, ClientStep, Finish

(* A clean stop never surfaces as a failure: under every interleaving of   *)
(* stop() with the run loop, ERROR means that a subsystem raised.          *)
THEOREM ErrorIsReal == Spec => []ErrorOnlyFromFault
<1>1. Init => FaultInv
    BY DEF Init, FaultInv, ErrorOnlyFromFault
<1>2. FaultInv => ErrorOnlyFromFault
    BY DEF FaultInv
<1> QED
    BY <1>1, <1>2, FaultNext, TypeInit, TypeNext, PTL DEF Spec

-----------------------------------------------------------------------------
(* RunningIsDriven is inductive given the types: whoever sets RUNNING      *)
(* launches a thread with the stop event clear in the same critical        *)
(* section, and whoever sets the event takes RUNNING away or is a reset.   *)
LEMMA DrivenNext == TypeOK /\ RunningIsDriven /\ [Next]_vars => RunningIsDriven'
<1> SUFFICES ASSUME TypeOK, RunningIsDriven, [Next]_vars PROVE RunningIsDriven'
    OBVIOUS
<1> USE NoThreadAssumption DEF TypeOK, RunningIsDriven, Alive
<1>1. ASSUME NEW t \in Threads, LoopTest(t) PROVE RunningIsDriven'
    BY <1>1 DEF LoopTest, GoTo, clientVars
<1>2. ASSUME NEW t \in Threads, LoopTick(t) PROVE RunningIsDriven'
    <2>1. CASE status # "RUNNING"
        BY <1>2, <2>1 DEF LoopTick, GoTo, clientVars
    <2>2. CASE status = "RUNNING"
        BY <1>2, <2>2 DEF LoopTick, Step, GoTo, TransitionTo, clientVars
    <2> QED BY <2>1, <2>2
<1>3. ASSUME NEW t \in Threads, LoopFail(t) PROVE RunningIsDriven'
    BY <1>3 DEF LoopFail, TransitionTo
<1>4. ASSUME NEW t \in Threads, LoopAfter(t) PROVE RunningIsDriven'
    BY <1>4 DEF LoopAfter, GoTo, clientVars
<1>5. ASSUME NEW c \in Clients, Start(c) PROVE RunningIsDriven'
    BY <1>5 DEF Start, Launch
<1>6. ASSUME NEW c \in Clients, Pause(c) PROVE RunningIsDriven'
    BY <1>6 DEF Pause, TransitionTo
<1>7. ASSUME NEW c \in Clients, Stop(c) PROVE RunningIsDriven'
    BY <1>7 DEF Stop, TransitionTo
<1>8. ASSUME NEW c \in Clients, ResumeBegin(c) PROVE RunningIsDriven'
    BY <1>8 DEF ResumeBegin
<1>9. ASSUME NEW c \in Clients, ResetBegin(c) PROVE RunningIsDriven'
    BY <1>9 DEF ResetBegin
<1>10. ASSUME NEW c \in Clients, ResumeFinish(c) PROVE RunningIsDriven'
    BY <1>10 DEF ResumeFinish, Launch
<1>11. ASSUME NEW c \in Clients, ResetFinish(c) PROVE RunningIsDriven'
    BY <1>11 DEF ResetFinish, TransitionTo
<1>12. CASE UNCHANGED vars
    BY <1>12 DEF vars
<1> QED
    BY <1>1, <1>2, <1>3, <1>4, <1>5, <1>6, <1>7, <1>8, <1>9, <1>10, <1>11, <1>12
    DEF Next, LoopStep, ClientStep, Finish

(* No order of start, pause, resume, stop and reset requests leaves an     *)
(* engine RUNNING without a thread that goes on ticking it.                *)
THEOREM RunningEngineIsDriven == Spec => []RunningIsDriven
<1>1. Init => RunningIsDriven
    BY DEF Init, RunningIsDriven
<1> QED
    BY <1>1, DrivenNext, TypeInit, TypeNext, PTL DEF Spec

-----------------------------------------------------------------------------
(* The callback's flag and the run history move together. *)
PersistInv == hasPersisted <=> record # "none"

(* What one transition does to the record, whoever makes it. *)
LEMMA TransitionRecord ==
    ASSUME TypeOK, PersistInv, NEW new \in Statuses, TransitionTo(new)
    PROVE  /\ PersistInv'
           /\ new \notin Ended \/ record # "none" => record' = record
           /\ new \in Ended => record' # "none"
           /\ new = "COMPLETED" /\ record = "none" => record' # "error"
           /\ new = "ERROR" /\ record = "none" => record' # "completed"
BY DEF TypeOK, PersistInv, TransitionTo, OnStatusChange, PersistCompletedRun,
       recVars, Ended

(* Every step either leaves the record alone or is a transition. *)
LEMMA StepIsQuietOrTransition ==
    ASSUME [Next]_vars
    PROVE  \/ UNCHANGED <<status, hasPersisted, record>>
           \/ \E new \in Statuses : TransitionTo(new)
<1>1. ASSUME NEW t \in Threads, LoopTick(t)
      PROVE  \/ UNCHANGED <<status, hasPersisted, record>>
             \/ TransitionTo("COMPLETED")
    BY <1>1 DEF LoopTick, Step, recVars
<1>2. ASSUME NEW c \in Clients, ResumeFinish(c)
      PROVE  \/ UNCHANGED <<status, hasPersisted, record>>
             \/ TransitionTo("RUNNING")
    BY <1>2 DEF ResumeFinish, recVars
<1>3. ASSUME NEW t \in Threads, LoopTest(t) \/ LoopAfter(t)
      PROVE  UNCHANGED <<status, hasPersisted, record>>
    BY <1>3 DEF LoopTest, LoopAfter, recVars
<1>4. ASSUME NEW c \in Clients, ResumeBegin(c) \/ ResetBegin(c)
      PROVE  UNCHANGED <<status, hasPersisted, record>>
    BY <1>4 DEF ResumeBegin, ResetBegin, recVars
<1>5. ASSUME NEW t \in Threads, LoopFail(t) PROVE TransitionTo("ERROR")
    BY <1>5 DEF LoopFail
<1>6. ASSUME NEW c \in Clients, Start(c) PROVE TransitionTo("RUNNING")
    BY <1>6 DEF Start
<1>7. ASSUME NEW c \in Clients, Pause(c) PROVE TransitionTo("PAUSED")
    BY <1>7 DEF Pause
<1>8. ASSUME NEW c \in Clients, Stop(c) PROVE TransitionTo("COMPLETED")
    BY <1>8 DEF Stop
<1>9. ASSUME NEW c \in Clients, ResetFinish(c) PROVE TransitionTo("INITIALIZED")
    BY <1>9 DEF ResetFinish
<1>10. CASE UNCHANGED vars
    BY <1>10 DEF vars
<1>11. {"INITIALIZED", "RUNNING", "PAUSED", "COMPLETED", "ERROR"} \subseteq Statuses
    BY DEF Statuses
<1> QED
    BY <1>1, <1>2, <1>3, <1>4, <1>5, <1>6, <1>7, <1>8, <1>9, <1>10, <1>11
    DEF Next, LoopStep, ClientStep, Finish

(* The flag and the history agree at every step. *)
LEMMA PersistNext == TypeOK /\ PersistInv /\ [Next]_vars => PersistInv'
<1> SUFFICES ASSUME TypeOK, PersistInv, [Next]_vars PROVE PersistInv'
    OBVIOUS
<1>1. CASE UNCHANGED <<status, hasPersisted, record>>
    BY <1>1 DEF PersistInv
<1>2. ASSUME NEW new \in Statuses, TransitionTo(new) PROVE PersistInv'
    BY <1>2, TransitionRecord
<1> QED BY <1>1, <1>2, StepIsQuietOrTransition

-----------------------------------------------------------------------------
(* A transition of the code is a transition of the abstract lifecycle. *)
LEMMA TransitionBecomes ==
    ASSUME TypeOK, PersistInv, NEW new \in Statuses, TransitionTo(new)
    PROVE  Lifecycle!Becomes(new)
<1>1. CASE new \in Ended /\ ~hasPersisted
    BY <1>1 DEF PersistInv, TransitionTo, OnStatusChange, PersistCompletedRun,
       Ended, Lifecycle!Becomes, Lifecycle!Recorded, Lifecycle!Ended
<1>2. CASE ~(new \in Ended /\ ~hasPersisted)
    BY <1>2 DEF PersistInv, TransitionTo, OnStatusChange, recVars,
       Ended, Lifecycle!Becomes, Lifecycle!Recorded, Lifecycle!Ended
<1> QED BY <1>1, <1>2

(* Every step of the engine is a step of the lifecycle, or none. *)
LEMMA LifecycleStep ==
    ASSUME TypeOK, FaultInv, PersistInv, [Next]_vars
    PROVE  [Lifecycle!LifeNext]_(Lifecycle!lifeVars)
<1> USE DEF Lifecycle!lifeVars, Lifecycle!LifeNext
<1>0. {"INITIALIZED", "RUNNING", "PAUSED", "COMPLETED", "ERROR"} \subseteq Statuses
    BY DEF Statuses
<1>1. ASSUME NEW t \in Threads, LoopTest(t) \/ LoopAfter(t)
      PROVE  UNCHANGED Lifecycle!lifeVars
    BY <1>1 DEF LoopTest, LoopAfter, runVars, recVars
<1>2. ASSUME NEW t \in Threads, LoopTick(t), status # "RUNNING"
      PROVE  UNCHANGED Lifecycle!lifeVars
    BY <1>2 DEF LoopTick, runVars, recVars
<1>3. ASSUME NEW t \in Threads, LoopTick(t), status = "RUNNING"
      PROVE  Lifecycle!Advance
    <2>1. ticks' = ticks + 1 /\ ticks' \in Nat
        BY <1>3 DEF LoopTick, Step, TypeOK
    <2>2. CASE faulted' = TRUE /\ UNCHANGED <<status, recVars>>
        BY <1>3, <2>1, <2>2 DEF Lifecycle!Advance, recVars
    <2>3. CASE ~(ticks' >= Duration) /\ UNCHANGED <<faulted, status, recVars>>
        <3>1. ticks' < Duration
            BY <2>1, <2>3, DurationAssumption
        <3> QED BY <1>3, <2>1, <2>3, <3>1 DEF Lifecycle!Advance, recVars
    <2>4. CASE ticks' >= Duration /\ UNCHANGED faulted /\ TransitionTo("COMPLETED")
        BY <1>0, <1>3, <2>1, <2>4, TransitionBecomes DEF Lifecycle!Advance
    <2> QED BY <1>3, <2>2, <2>3, <2>4 DEF LoopTick, Step
<1>4. ASSUME NEW t \in Threads, LoopFail(t) PROVE Lifecycle!ReportFailure
    BY <1>0, <1>4, TransitionBecomes DEF LoopFail, FaultInv, runVars,
       Lifecycle!ReportFailure
<1>5. ASSUME NEW c \in Clients, Start(c) PROVE Lifecycle!Begin
    BY <1>0, <1>5, TransitionBecomes DEF Start, runVars, Lifecycle!Begin
<1>6. ASSUME NEW c \in Clients, Pause(c) PROVE Lifecycle!Suspend
    BY <1>0, <1>6, TransitionBecomes DEF Pause, runVars, Lifecycle!Suspend
<1>7. ASSUME NEW c \in Clients, Stop(c) PROVE Lifecycle!Halt
    BY <1>0, <1>7, TransitionBecomes DEF Stop, runVars, Lifecycle!Halt
<1>8. ASSUME NEW c \in Clients, ResumeBegin(c) \/ ResetBegin(c)
      PROVE  UNCHANGED Lifecycle!lifeVars
    BY <1>8 DEF ResumeBegin, ResetBegin, runVars, recVars
<1>9. ASSUME NEW c \in Clients, ResumeFinish(c), status = "PAUSED"
      PROVE  Lifecycle!Continue
    BY <1>0, <1>9, TransitionBecomes DEF ResumeFinish, runVars, Lifecycle!Continue
<1>10. ASSUME NEW c \in Clients, ResumeFinish(c), status # "PAUSED"
       PROVE  UNCHANGED Lifecycle!lifeVars
    BY <1>10 DEF ResumeFinish, runVars, recVars
<1>11. ASSUME NEW c \in Clients, ResetFinish(c) PROVE Lifecycle!Rewind
    BY <1>0, <1>11, TransitionBecomes DEF ResetFinish, Lifecycle!Rewind
<1>12. CASE UNCHANGED vars
    BY <1>12 DEF vars
<1> QED
    BY <1>1, <1>2, <1>3, <1>4, <1>5, <1>6, <1>7, <1>8, <1>9, <1>10, <1>11, <1>12
    DEF Next, LoopStep, ClientStep, Finish

(* The engine implements its lifecycle: with any number of threads and     *)
(* concurrent requests, time only passes while RUNNING, no request revives *)
(* an ended run, and the first outcome written is the one kept.            *)
THEOREM EngineImplementsLifecycle == Spec => ImplementsLifecycle
<1>1. Init => Lifecycle!LifeInit /\ FaultInv /\ PersistInv
    BY DEF Init, Lifecycle!LifeInit, FaultInv, ErrorOnlyFromFault, PersistInv
<1> QED
    BY <1>1, TypeInit, TypeNext, FaultNext, PersistNext, LifecycleStep, PTL
    DEF Spec, ImplementsLifecycle, Lifecycle!LifeSpec

-----------------------------------------------------------------------------
(* Strengthening of RecordAgrees for engines that are never reset (every   *)
(* engine of the simulations registry): nobody is inside a reset.          *)
RecordInv ==
    /\ RecordAgrees
    /\ \A c \in Clients : call[c].op # "reset"

(* RecordInv is inductive when no handler calls reset(). *)
LEMMA RecordNext ==
    ASSUME "reset" \notin Ops, TypeOK, FaultInv, PersistInv, RecordInv, [Next]_vars
    PROVE  RecordInv'
<1> USE DEF RecordInv, RecordAgrees
<1>0. {"INITIALIZED", "RUNNING", "PAUSED", "COMPLETED", "ERROR"} \subseteq Statuses
    BY DEF Statuses
<1>1. ASSUME NEW t \in Threads, LoopTest(t) \/ LoopAfter(t) PROVE RecordInv'
    BY <1>1 DEF LoopTest, LoopAfter, clientVars, runVars, recVars
<1>2. ASSUME NEW t \in Threads, LoopTick(t) PROVE RecordInv'
    <2>1. CASE UNCHANGED <<status, record>> /\ (faulted => faulted')
        BY <1>2, <2>1 DEF LoopTick, clientVars
    <2>2. CASE TransitionTo("COMPLETED") /\ status = "RUNNING" /\ UNCHANGED faulted
        BY <1>0, <1>2, <2>2, TransitionRecord DEF LoopTick, clientVars, TransitionTo, Ended
    <2> QED BY <1>2, <2>1, <2>2 DEF LoopTick, Step, runVars, recVars
<1>3. ASSUME NEW t \in Threads, LoopFail(t) PROVE RecordInv'
    BY <1>0, <1>3, TransitionRecord DEF LoopFail, FaultInv, clientVars, runVars,
       TransitionTo, Ended
<1>4. ASSUME NEW c \in Clients, Start(c) \/ Pause(c) \/ Stop(c) PROVE RecordInv'
    BY <1>0, <1>4, TransitionRecord DEF Start, Pause, Stop, clientVars, runVars,
       TransitionTo, Ended
<1>5. ASSUME NEW c \in Clients, ResumeBegin(c) PROVE RecordInv'
    BY <1>5 DEF ResumeBegin, runVars, recVars, TypeOK, Calls
<1>6. ASSUME NEW c \in Clients, ResumeFinish(c) PROVE RecordInv'
    <2>1. \A d \in Clients : call'[d].op # "reset"
        BY <1>6 DEF ResumeFinish, Idle, TypeOK, Calls
    <2>2. CASE UNCHANGED <<status, record, faulted>>
        BY <2>1, <2>2
    <2>3. CASE TransitionTo("RUNNING") /\ status = "PAUSED" /\ UNCHANGED faulted
        BY <1>0, <2>1, <2>3, TransitionRecord DEF TransitionTo, Ended
    <2> QED BY <1>6, <2>2, <2>3 DEF ResumeFinish, runVars, recVars
<1>7. ASSUME NEW c \in Clients, ResetBegin(c) \/ ResetFinish(c) PROVE FALSE
    BY <1>7 DEF ResetBegin, ResetFinish, Free
<1>8. CASE UNCHANGED vars
    BY <1>8 DEF vars
<1> QED
    BY <1>1, <1>2, <1>3, <1>4, <1>5, <1>6, <1>7, <1>8
    DEF Next, LoopStep, ClientStep, Finish

(* For an engine driven by API requests alone, the run history never       *)
(* contradicts the engine's status.                                        *)
THEOREM RecordIsTrue == ASSUME "reset" \notin Ops PROVE Spec => []RecordAgrees
<1>1. Init => FaultInv /\ PersistInv /\ RecordInv
    BY DEF Init, FaultInv, ErrorOnlyFromFault, PersistInv, RecordInv, RecordAgrees,
       Ended, Idle
<1>2. TypeOK /\ FaultInv /\ PersistInv /\ RecordInv /\ [Next]_vars => RecordInv'
    BY RecordNext
<1>3. RecordInv => RecordAgrees
    BY DEF RecordInv
<1> QED
    BY <1>1, <1>2, <1>3, TypeInit, TypeNext, FaultNext, PersistNext, PTL DEF Spec

-----------------------------------------------------------------------------
(* With one caller at a time: the latest thread is the only one that can   *)
(* be alive, it is the one a pending call waits for, and it is gone when   *)
(* the engine is back in its initial state.                                *)
SoloInv ==
    /\ \A t \in Threads : Alive(t) => t = thread
    /\ \A c \in Clients : call[c].op # "none" => call[c].joins = thread
    /\ status = "INITIALIZED" => ticks = 0 /\ ~Alive(thread)

(* SoloInv is inductive: a second thread is only launched by start(), from *)
(* the initial state, or by the resume() that has joined the first.        *)
LEMMA SoloNext ==
    ASSUME \A c, d \in Clients : c = d, TypeOK, SoloInv, [Next]_vars
    PROVE  SoloInv'
<1> USE NoThreadAssumption DEF TypeOK, SoloInv, Alive
<1>1. ASSUME NEW t \in Threads, LoopTest(t) \/ LoopAfter(t) PROVE SoloInv'
    BY <1>1 DEF LoopTest, LoopAfter, GoTo, clientVars, runVars
<1>2. ASSUME NEW t \in Threads, LoopTick(t) PROVE SoloInv'
    <2>1. CASE status # "RUNNING"
        BY <1>2, <2>1 DEF LoopTick, GoTo, clientVars, runVars
    <2>2. CASE status = "RUNNING"
        BY <1>2, <2>2 DEF LoopTick, Step, GoTo, TransitionTo, clientVars
    <2> QED BY <2>1, <2>2
<1>3. ASSUME NEW t \in Threads, LoopFail(t) PROVE SoloInv'
    BY <1>3 DEF LoopFail, GoTo, TransitionTo, clientVars, runVars
<1>4. ASSUME NEW c \in Clients, Start(c) PROVE SoloInv'
    <2>1. call[c].op = "none" /\ call' = call /\ status' = "RUNNING"
        BY <1>4 DEF Start, Free, Idle, clientVars, TransitionTo
    <2>2. \A d \in Clients : call'[d].op = "none"
        BY <2>1
    <2>3. \A t \in Threads : loop[t] = "dead"
        BY <1>4 DEF Start
    <2> QED BY <1>4, <2>1, <2>2, <2>3 DEF Start, Launch
<1>5. ASSUME NEW c \in Clients, Pause(c) \/ Stop(c) PROVE SoloInv'
    BY <1>5 DEF Pause, Stop, TransitionTo, clientVars, runVars
<1>6. ASSUME NEW c \in Clients, ResumeBegin(c) \/ ResetBegin(c) PROVE SoloInv'
    BY <1>6 DEF ResumeBegin, ResetBegin, runVars
<1>7. ASSUME NEW c \in Clients, ResumeFinish(c) PROVE SoloInv'
    <2>1. \A d \in Clients : call'[d].op = "none"
        BY <1>7 DEF ResumeFinish, Idle
    <2>2. \A t \in Threads : loop[t] = "dead"
        BY <1>7 DEF ResumeFinish, Joinable
    <2>3. CASE UNCHANGED <<status, thread, loop, ticks>>
        BY <2>1, <2>3
    <2>4. CASE status' = "RUNNING" /\ \E t \in Threads : Launch(t)
        BY <2>1, <2>2, <2>4 DEF Launch
    <2> QED BY <1>7, <2>3, <2>4 DEF ResumeFinish, TransitionTo, runVars
<1>8. ASSUME NEW c \in Clients, ResetFinish(c) PROVE SoloInv'
    <2>1. \A d \in Clients : call'[d].op = "none"
        BY <1>8 DEF ResetFinish, Idle
    <2> QED BY <1>8, <2>1 DEF ResetFinish, Joinable, TransitionTo
<1>9. CASE UNCHANGED vars
    BY <1>9 DEF vars
<1> QED
    BY <1>1, <1>2, <1>3, <1>4, <1>5, <1>6, <1>7, <1>8, <1>9
    DEF Next, LoopStep, ClientStep, Finish

(* Used by one caller at a time, an engine never has two loops and a reset *)
(* leaves nothing of the old run. (With two concurrent callers the first   *)
(* claim is false: see the run engine_two_loops.)                          *)
THEOREM SoloCallerSafe ==
    ASSUME \A c, d \in Clients : c = d
    PROVE  Spec => [](AtMostOneLoop /\ ResetIsClean)
<1>1. Init => SoloInv
    BY DEF Init, SoloInv, Alive, Idle
<1>2. TypeOK /\ SoloInv /\ [Next]_vars => SoloInv'
    BY SoloNext
<1>3. TypeOK /\ SoloInv => AtMostOneLoop /\ ResetIsClean
    BY DEF TypeOK, SoloInv, AtMostOneLoop, ResetIsClean, Alive
<1> QED
    BY <1>1, <1>2, <1>3, TypeInit, TypeNext, PTL DEF Spec

(* After reset() the clock is zero and no loop of the old run is left to    *)
(* write into the next one: reset() joins the thread it stopped before it   *)
(* clears the engine (engine.py).                                           *)
THEOREM SoloResetIsClean ==
    ASSUME \A c, d \in Clients : c = d
    PROVE  Spec => []ResetIsClean
BY SoloCallerSafe, PTL
=============================================================================
