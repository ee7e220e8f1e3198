--------------------------- MODULE Lockstep_proofs ---------------------------
(***************************************************************************)
(* Proofs about Lockstep.tla, for any number of engines, threads, requests *)
(* and ticks.                                                              *)
(***************************************************************************)
EXTENDS Lockstep, TLAPS

LEMMA LeadIsRun == 1 \in Runs /\ NRuns \in Runs
BY LockstepAssumption DEF Runs

LEMMA IdleIsCall == Idle \in Calls /\ Idle.op = "none"
BY DEF Idle, At, Calls, Ops

(* Launch starts a thread and nothing else.                                *)
LEMMA LaunchTypes ==
    ASSUME TypeOK, Launch
    PROVE  /\ thread' \in Threads /\ stopEvent' = FALSE
           /\ loop' \in [Threads -> LoopPlaces]
           /\ loop'[thread'] = "test"
           /\ loop[thread'] = "dead"
           /\ \A t \in Threads \ {thread'} : loop'[t] = loop[t]
<1>1. PICK t \in Threads \ {thread} :
          /\ loop[t] = "dead"
          /\ thread' = t
          /\ loop' = [loop EXCEPT ![t] = "test"]
          /\ stopEvent' = FALSE
    BY DEF Launch
<1> QED BY <1>1 DEF TypeOK, LoopPlaces

LEMMA TypeInit == Init => TypeOK
<1> SUFFICES ASSUME Init PROVE TypeOK
    OBVIOUS
<1>1. call \in [Clients -> Calls] /\ loop \in [Threads -> LoopPlaces]
    BY IdleIsCall DEF Init, LoopPlaces
<1>2. cursor \in Runs /\ status \in [Runs -> Statuses] /\ ticks \in [Runs -> Nat]
    BY LeadIsRun DEF Init, Statuses
<1> QED BY <1>1, <1>2 DEF Init, TypeOK

(* Each action preserves the types.                                        *)
LEMMA TypeNext == TypeOK /\ [Next]_vars => TypeOK'
<1> SUFFICES ASSUME TypeOK, [Next]_vars PROVE TypeOK'
    OBVIOUS
<1> USE DEF TypeOK, engineVars, loopVars
<1>1. ASSUME NEW t \in Threads, LoopTest(t) PROVE TypeOK'
    BY <1>1 DEF LoopTest, GoTo, LoopPlaces
<1>2. ASSUME NEW t \in Threads, LoopCheck(t) PROVE TypeOK'
    BY <1>2, LeadIsRun DEF LoopCheck, GoTo, LoopPlaces
<1>3. ASSUME NEW t \in Threads, StepRun(t) PROVE TypeOK'
    <2>1. loop' \in [Threads -> LoopPlaces] /\ ticks' \in [Runs -> Nat]
        BY <1>3 DEF StepRun, GoTo, LoopPlaces
    <2>2. status' \in [Runs -> Statuses]
        BY <1>3 DEF StepRun, Statuses
    <2>3. cursor' \in Runs
        BY <1>3, LockstepAssumption DEF StepRun, Runs
    <2>4. lock' \in Threads \cup Clients \cup {Nobody} /\ faulted' \in BOOLEAN
        BY <1>3 DEF StepRun
    <2> QED BY <1>3, <2>1, <2>2, <2>3, <2>4 DEF StepRun
<1>4. ASSUME NEW t \in Threads, LoopFail(t) PROVE TypeOK'
    BY <1>4 DEF LoopFail, TransitionAll, GoTo, LoopPlaces, Statuses
<1>5. ASSUME NEW t \in Threads, LoopAfter(t) PROVE TypeOK'
    BY <1>5 DEF LoopAfter, GoTo, LoopPlaces
<1>6. ASSUME NEW c \in Clients, Play(c) PROVE TypeOK'
    BY <1>6 DEF Play, Becomes, At, Calls, Ops
<1>7. ASSUME NEW c \in Clients, Start(c) PROVE TypeOK'
    <2>1. call' \in [Clients -> Calls]
        BY <1>7, IdleIsCall DEF Start, Returns, Becomes, At, Calls, Ops
    <2>2. CASE TransitionAll("RUNNING") /\ Launch /\ UNCHANGED lock
        <3>1. status' \in [Runs -> Statuses]
            BY <2>2 DEF TransitionAll, Statuses
        <3> QED BY <1>7, <2>1, <2>2, <3>1, LaunchTypes DEF Start
    <2>3. CASE UNCHANGED <<status, loopVars>>
        BY <1>7, <2>1, <2>3 DEF Start
    <2> QED BY <1>7, <2>2, <2>3 DEF Start
<1>8. ASSUME NEW c \in Clients, ResumeBegin(c) PROVE TypeOK'
    BY <1>8, IdleIsCall DEF ResumeBegin, Returns, Becomes, At, Calls, Ops
<1>9. ASSUME NEW c \in Clients, ResumeFinish(c) PROVE TypeOK'
    <2>1. call' \in [Clients -> Calls]
        BY <1>9, IdleIsCall DEF ResumeFinish, Returns
    <2>2. CASE TransitionAll("RUNNING") /\ Launch
        <3>1. status' \in [Runs -> Statuses]
            BY <2>2 DEF TransitionAll, Statuses
        <3> QED BY <1>9, <2>1, <2>2, <3>1, LaunchTypes DEF ResumeFinish
    <2>3. CASE UNCHANGED <<status, loopVars>>
        BY <1>9, <2>1, <2>3 DEF ResumeFinish
    <2> QED BY <1>9, <2>2, <2>3 DEF ResumeFinish
<1>10. ASSUME NEW c \in Clients, Pause(c) PROVE TypeOK'
    BY <1>10 DEF Pause, TransitionAll, Statuses
<1>11. ASSUME NEW c \in Clients, StopBegin(c) PROVE TypeOK'
    BY <1>11 DEF StopBegin, TransitionAll, Statuses, Becomes, At, Calls, Ops
<1>12. ASSUME NEW c \in Clients, StopFinish(c) PROVE TypeOK'
    BY <1>12, IdleIsCall DEF StopFinish, Returns
<1>13. ASSUME NEW c \in Clients, Snapshot(c) PROVE TypeOK'
    BY <1>13 DEF Snapshot
<1>14. CASE UNCHANGED vars
    BY <1>14 DEF vars
<1> QED
    BY <1>1, <1>2, <1>3, <1>4, <1>5, <1>6, <1>7, <1>8, <1>9, <1>10, <1>11, <1>12,
       <1>13, <1>14
    DEF Next, LoopStep, Proceed, Request

(* The variables of a comparison keep their types.                         *)
THEOREM TypeCorrect == Spec => []TypeOK
BY TypeInit, TypeNext, PTL DEF Spec

(***************************************************************************)
(* The inductive invariant of the lockstep, in its parts.                  *)
(***************************************************************************)

(* The loop that is inside a tick is the one that holds the lock.          *)
LockInv == \A t \in Threads : loop[t] = "step" <=> lock = t

InTick == lock \in Threads

(* The run a tick has come to, and those behind it, are still RUNNING; the *)
(* runs not yet stepped are a tick behind the lead. So step() never raises *)
(* for having been stopped, and no run can end before the lead does.       *)
StepInv ==
    InTick =>
        /\ \A r \in Runs : r >= cursor => status[r] = "RUNNING"
        /\ cursor > 1 =>
              /\ \A r \in Runs : r >= cursor => ticks[r] + 1 <= ticks[1]
              /\ Lead = "RUNNING" => ticks[1] < Duration

(* No run is ever ahead of the lead, and while the lead is RUNNING all are.*)
LeadInv ==
    /\ \A r \in Runs : ticks[r] <= ticks[1]
    /\ Lead = "RUNNING" => \A r \in Runs : status[r] = "RUNNING"

(* A thread on its way to report an error has seen an engine raise.        *)
FaultInv ==
    /\ ErrorOnlyFromFault
    /\ \A t \in Threads : loop[t] = "failed" => faulted

(* What a run has come to when this tick has been through it.              *)
Reached(r) == IF ticks[r] >= Duration THEN "COMPLETED" ELSE "RUNNING"

(* While no engine has raised: in the middle of a tick the runs before the *)
(* cursor are one tick ahead of the last run and have ended exactly if the *)
(* tick was the last; between two ticks all runs agree.                    *)
EvenInv ==
    ~faulted =>
        IF InTick
        THEN \A r \in Runs :
                IF r < cursor
                THEN ticks[r] = ticks[NRuns] + 1 /\ status[r] = Reached(r)
                ELSE ticks[r] = ticks[NRuns]
        ELSE OneTick /\ \A r, s \in Runs : status[r] = status[s]

LockstepInv ==
    TypeOK /\ LockInv /\ StepInv /\ LeadInv /\ FaultInv /\ EvenInv

(* A thread that may take the lock is told from everyone else.             *)
LEMMA Owners ==
    /\ Nobody \notin Threads /\ NoThread \notin Threads
    /\ \A c \in Clients : c \notin Threads
BY LockstepAssumption

LEMMA LockNext == TypeOK /\ LockInv /\ [Next]_vars => LockInv'
<1> SUFFICES ASSUME TypeOK, LockInv, [Next]_vars PROVE LockInv'
    OBVIOUS
<1> USE Owners DEF TypeOK, LockInv, Free
<1>1. ASSUME NEW t \in Threads, LoopTest(t) PROVE LockInv'
    BY <1>1 DEF LoopTest, GoTo
<1>2. ASSUME NEW t \in Threads, LoopCheck(t) PROVE LockInv'
    BY <1>2 DEF LoopCheck, GoTo
<1>3. ASSUME NEW t \in Threads, StepRun(t) PROVE LockInv'
    BY <1>3 DEF StepRun, GoTo
<1>4. ASSUME NEW t \in Threads, LoopFail(t) PROVE LockInv'
    BY <1>4 DEF LoopFail, GoTo
<1>5. ASSUME NEW t \in Threads, LoopAfter(t) PROVE LockInv'
    BY <1>5 DEF LoopAfter, GoTo
<1>6. ASSUME Launch, UNCHANGED lock PROVE LockInv'
    BY <1>6, LaunchTypes
<1>7. ASSUME NEW c \in Clients, Start(c) PROVE LockInv'
    BY <1>6, <1>7 DEF Start, loopVars
<1>8. ASSUME NEW c \in Clients, ResumeFinish(c) PROVE LockInv'
    BY <1>6, <1>8 DEF ResumeFinish, loopVars
<1>9. CASE UNCHANGED <<lock, loop>>
    BY <1>9
<1>10. ASSUME NEW c \in Clients,
              Play(c) \/ ResumeBegin(c) \/ Pause(c) \/ StopBegin(c)
              \/ StopFinish(c) \/ Snapshot(c)
       PROVE LockInv'
    BY <1>9, <1>10
    DEF Play, ResumeBegin, Pause, StopBegin, StopFinish, Snapshot, loopVars
<1>11. CASE UNCHANGED vars
    BY <1>9, <1>11 DEF vars
<1> QED
    BY <1>1, <1>2, <1>3, <1>4, <1>5, <1>7, <1>8, <1>10, <1>11
    DEF Next, LoopStep, Proceed, Request

(* Only a thread inside a tick moves the clocks, and no request runs while *)
(* it does: what the other actions do to the engines, they do while the    *)
(* lock is free, and to all of them alike.                                 *)
LEMMA Requests ==
    ASSUME TypeOK, NEW c \in Clients, Proceed(c) \/ Request(c)
    PROVE  /\ UNCHANGED <<ticks, faulted, cursor>>
           /\ \/ UNCHANGED <<status, lock>>
              \/ UNCHANGED status /\ Free /\ lock' = c
              \/ /\ Free /\ lock' = lock
                 /\ \E new \in {"RUNNING", "PAUSED", "COMPLETED"} : TransitionAll(new)
BY DEF Proceed, Request, Start, ResumeBegin, ResumeFinish, StopFinish, Play, Pause,
       StopBegin, Snapshot, engineVars

(* Of the loop's actions all but StepRun and LoopFail leave the engines.   *)
LEMMA Loops ==
    ASSUME NEW t \in Threads, LoopTest(t) \/ LoopAfter(t)
    PROVE  UNCHANGED <<engineVars, lock, cursor>>
BY DEF LoopTest, LoopAfter

LEMMA StepNext ==
    TypeOK /\ LockInv /\ StepInv /\ LeadInv /\ [Next]_vars => StepInv'
<1> SUFFICES ASSUME TypeOK, LockInv, StepInv, LeadInv, [Next]_vars PROVE StepInv'
    OBVIOUS
<1> USE Owners, LeadIsRun DEF TypeOK, StepInv, InTick, Lead
<1>1. CASE UNCHANGED <<engineVars, lock, cursor>>
    BY <1>1 DEF engineVars
<1>2. ASSUME NEW t \in Threads, LoopCheck(t) PROVE StepInv'
    BY <1>2 DEF LoopCheck, Free, engineVars
<1>3. ASSUME NEW t \in Threads, StepRun(t) PROVE StepInv'
    <2>1. lock = t
        BY <1>3 DEF StepRun, LockInv
    <2>2. CASE lock' = Nobody
        BY <2>2
    <2>3. CASE lock' # Nobody
        <3>1. /\ ticks' = [ticks EXCEPT ![cursor] = @ + 1]
              /\ status' = IF ticks'[cursor] >= Duration
                           THEN [status EXCEPT ![cursor] = "COMPLETED"]
                           ELSE status
              /\ cursor < NRuns /\ cursor' = cursor + 1
            BY <1>3, <2>3 DEF StepRun
        <3>2. \A r \in Runs : r >= cursor' => r > cursor /\ status'[r] = "RUNNING"
            BY <2>1, <3>1 DEF Runs
        <3>3. \A r \in Runs : r >= cursor' => ticks'[r] + 1 <= ticks'[1]
            <4> SUFFICES ASSUME NEW r \in Runs, r >= cursor'
                         PROVE ticks'[r] + 1 <= ticks'[1]
                OBVIOUS
            <4>1. r # cursor /\ ticks'[r] = ticks[r]
                BY <3>1 DEF Runs
            <4>2. CASE cursor = 1
                <5>1. ticks'[1] = ticks[1] + 1
                    BY <3>1, <4>2
                <5>2. ticks[r] <= ticks[1] /\ ticks[r] \in Nat /\ ticks[1] \in Nat
                    BY DEF LeadInv
                <5> QED BY <4>1, <5>1, <5>2
            <4>3. CASE cursor > 1
                <5>1. r >= cursor /\ ticks'[1] = ticks[1]
                    BY <3>1, <4>3 DEF Runs
                <5>2. ticks[r] + 1 <= ticks[1]
                    BY <2>1, <4>3, <5>1
                <5> QED BY <4>1, <5>1, <5>2
            <4> QED BY <4>2, <4>3 DEF Runs
        <3>4. status'[1] = "RUNNING" => ticks'[1] < Duration
            <4>1. CASE cursor = 1
                BY <3>1, <4>1, LockstepAssumption DEF Runs
            <4>2. CASE cursor > 1
                BY <2>1, <3>1, <4>2 DEF Runs
            <4> QED BY <4>1, <4>2 DEF Runs
        <3> QED BY <3>2, <3>3, <3>4
    <2> QED BY <2>2, <2>3
<1>4. ASSUME NEW t \in Threads, LoopFail(t) PROVE StepInv'
    BY <1>4 DEF LoopFail, Free
<1>5. ASSUME NEW c \in Clients, Proceed(c) \/ Request(c) PROVE StepInv'
    <2>1. CASE lock' \notin Threads
        BY <2>1
    <2>2. CASE lock' \in Threads
        BY <1>1, <1>5, <2>2, Requests DEF Free, engineVars
    <2> QED BY <2>1, <2>2
<1> QED
    BY <1>1, <1>2, <1>3, <1>4, <1>5, Loops DEF Next, LoopStep, vars, engineVars

LEMMA LeadNext ==
    TypeOK /\ LockInv /\ StepInv /\ LeadInv /\ [Next]_vars => LeadInv'
<1> SUFFICES ASSUME TypeOK, LockInv, StepInv, LeadInv, [Next]_vars PROVE LeadInv'
    OBVIOUS
<1> USE LeadIsRun DEF TypeOK, LeadInv, Lead
<1>1. CASE UNCHANGED <<ticks, status>>
    BY <1>1
<1>2. ASSUME UNCHANGED ticks, NEW new \in Statuses, TransitionAll(new)
      PROVE LeadInv'
    BY <1>2 DEF TransitionAll
<1>3. ASSUME NEW t \in Threads, StepRun(t) PROVE LeadInv'
    <2>1. lock = t /\ status[cursor] = "RUNNING"
        BY <1>3 DEF StepRun, LockInv, StepInv, InTick, Runs
    <2>2. ticks' = [ticks EXCEPT ![cursor] = @ + 1]
        BY <1>3, <2>1 DEF StepRun
    <2>3. \A r \in Runs : ticks'[r] <= ticks'[1]
        <3>1. CASE cursor = 1
            <4>1. ticks'[1] = ticks[1] + 1 /\ \A r \in Runs \ {1} : ticks'[r] = ticks[r]
                BY <2>2, <3>1
            <4>2. \A r \in Runs : ticks[r] <= ticks[1] /\ ticks[r] \in Nat
                OBVIOUS
            <4> QED BY <4>1, <4>2
        <3>2. CASE cursor > 1
            BY <2>1, <2>2, <3>2 DEF StepInv, InTick, Runs
        <3> QED BY <3>1, <3>2 DEF Runs
    <2>4. CASE UNCHANGED status
        BY <2>3, <2>4
    <2>5. CASE /\ ticks'[cursor] >= Duration
               /\ status' = [status EXCEPT ![cursor] = "COMPLETED"]
        <3>1. status'[1] # "RUNNING"
            <4>1. CASE cursor = 1
                BY <2>5, <4>1
            <4>2. CASE cursor > 1
                <5>1. ticks[cursor] + 1 <= ticks[1] /\ ticks'[cursor] = ticks[cursor] + 1
                    BY <2>1, <2>2, <4>2 DEF StepInv, InTick, Runs
                <5>2. ticks[1] >= Duration
                    BY <2>5, <5>1, LockstepAssumption
                <5>3. status[1] # "RUNNING"
                    BY <2>1, <4>2, <5>2, LockstepAssumption DEF StepInv, InTick
                <5> QED BY <2>5, <4>2, <5>3 DEF Runs
            <4> QED BY <4>1, <4>2 DEF Runs
        <3> QED BY <2>3, <3>1
    <2> QED BY <1>3, <2>4, <2>5 DEF StepRun, engineVars
<1>4. ASSUME NEW t \in Threads, LoopFail(t) PROVE LeadInv'
    BY <1>2, <1>4 DEF LoopFail, Statuses
<1>5. ASSUME NEW c \in Clients, Proceed(c) \/ Request(c) PROVE LeadInv'
    BY <1>1, <1>2, <1>5, Requests DEF Statuses
<1>6. ASSUME NEW t \in Threads, LoopCheck(t) PROVE LeadInv'
    BY <1>1, <1>6 DEF LoopCheck, engineVars
<1> QED
    BY <1>1, <1>3, <1>4, <1>5, <1>6, Loops DEF Next, LoopStep, vars, engineVars

LEMMA FaultNext ==
    TypeOK /\ LockInv /\ StepInv /\ FaultInv /\ [Next]_vars => FaultInv'
<1> SUFFICES ASSUME TypeOK, LockInv, StepInv, FaultInv, [Next]_vars PROVE FaultInv'
    OBVIOUS
<1> USE DEF TypeOK, FaultInv, ErrorOnlyFromFault
<1>1. CASE UNCHANGED <<status, faulted, loop>>
    BY <1>1
<1>2. ASSUME NEW t \in Threads, LoopTest(t) \/ LoopCheck(t) \/ LoopAfter(t)
      PROVE FaultInv'
    BY <1>2 DEF LoopTest, LoopCheck, LoopAfter, GoTo, engineVars
<1>3. ASSUME NEW t \in Threads, StepRun(t) PROVE FaultInv'
    <2>1. status[cursor] = "RUNNING"
        BY <1>3 DEF StepRun, LockInv, StepInv, InTick, Runs
    <2>2. CASE faulted' = TRUE
        BY <2>2
    <2>3. CASE UNCHANGED faulted
        BY <1>3, <2>1, <2>3 DEF StepRun, GoTo
    <2> QED BY <1>3, <2>1, <2>2, <2>3 DEF StepRun
<1>4. ASSUME NEW t \in Threads, LoopFail(t) PROVE FaultInv'
    BY <1>4 DEF LoopFail, GoTo
<1>5. ASSUME Launch, UNCHANGED faulted, TransitionAll("RUNNING") PROVE FaultInv'
    BY <1>5, LaunchTypes DEF TransitionAll
<1>6. ASSUME NEW c \in Clients, Start(c) PROVE FaultInv'
    BY <1>1, <1>5, <1>6 DEF Start, loopVars
<1>7. ASSUME NEW c \in Clients, ResumeFinish(c) PROVE FaultInv'
    BY <1>1, <1>5, <1>7 DEF ResumeFinish, loopVars
<1>8. ASSUME NEW c \in Clients, Pause(c) \/ StopBegin(c) PROVE FaultInv'
    BY <1>8 DEF Pause, StopBegin, TransitionAll
<1>9. ASSUME NEW c \in Clients,
             Play(c) \/ ResumeBegin(c) \/ StopFinish(c) \/ Snapshot(c)
      PROVE FaultInv'
    BY <1>1, <1>9 DEF Play, ResumeBegin, StopFinish, Snapshot, engineVars, loopVars
<1> QED
    BY <1>1, <1>2, <1>3, <1>4, <1>6, <1>7, <1>8, <1>9
    DEF Next, LoopStep, Proceed, Request, vars

(* A run that is stepped without raising ends on the last tick, and not    *)
(* before.                                                                 *)
LEMMA EvenNext ==
    TypeOK /\ LockInv /\ StepInv /\ EvenInv /\ [Next]_vars => EvenInv'
<1> SUFFICES ASSUME TypeOK, LockInv, StepInv, EvenInv, [Next]_vars,
                    ~faulted'
             PROVE  EvenInv'
    BY DEF EvenInv
<1> USE Owners, LeadIsRun DEF TypeOK, EvenInv, OneTick, InTick, Reached
<1>1. CASE UNCHANGED <<status, ticks, faulted, cursor>> /\ (lock' \in Threads <=> lock \in Threads)
    BY <1>1
<1>2. ASSUME UNCHANGED <<ticks, faulted>>, Free, lock' = Nobody,
             NEW new \in Statuses, TransitionAll(new)
      PROVE  EvenInv'
    BY <1>2 DEF TransitionAll, Free
<1>3. ASSUME NEW t \in Threads, LoopCheck(t) PROVE EvenInv'
    BY <1>1, <1>3 DEF LoopCheck, Free, engineVars, Runs
<1>4. ASSUME NEW t \in Threads, StepRun(t) PROVE EvenInv'
    <2>1. lock = t /\ status[cursor] = "RUNNING"
        BY <1>4 DEF StepRun, LockInv, StepInv, Runs
    <2>2. /\ ticks' = [ticks EXCEPT ![cursor] = @ + 1]
          /\ status' = IF ticks'[cursor] >= Duration
                       THEN [status EXCEPT ![cursor] = "COMPLETED"]
                       ELSE status
          /\ faulted' = faulted
          /\ \/ cursor < NRuns /\ cursor' = cursor + 1 /\ lock' = lock
             \/ ~(cursor < NRuns) /\ lock' = Nobody
        BY <1>4, <2>1 DEF StepRun
    <2>3. \A r \in Runs : IF r < cursor
                         THEN ticks[r] = ticks[NRuns] + 1 /\ status[r] = Reached(r)
                         ELSE ticks[r] = ticks[NRuns]
        BY <2>1, <2>2
    <2>4. /\ ticks'[cursor] = ticks[NRuns] + 1
          /\ status'[cursor] = IF ticks'[cursor] >= Duration THEN "COMPLETED" ELSE "RUNNING"
        <3>1. ticks'[cursor] = ticks[cursor] + 1
            BY <2>2
        <3>2. ticks[cursor] = ticks[NRuns]
            BY <2>3 DEF Runs
        <3>3. status'[cursor] = IF ticks'[cursor] >= Duration THEN "COMPLETED" ELSE "RUNNING"
            BY <2>1, <2>2
        <3> QED BY <3>1, <3>2, <3>3
    <2>5. \A r \in Runs : r # cursor => ticks'[r] = ticks[r] /\ status'[r] = status[r]
        BY <2>2
    <2>6. CASE cursor < NRuns /\ cursor' = cursor + 1 /\ lock' = lock
        <3>1. ticks'[NRuns] = ticks[NRuns]
            BY <2>5, <2>6, LockstepAssumption DEF Runs
        <3>2. ASSUME NEW r \in Runs
              PROVE IF r < cursor'
                    THEN ticks'[r] = ticks'[NRuns] + 1 /\ status'[r] = Reached(r)'
                    ELSE ticks'[r] = ticks'[NRuns]
            <4>1. CASE r = cursor
                BY <2>4, <2>6, <3>1, <4>1 DEF Runs
            <4>2. CASE r < cursor
                BY <2>3, <2>5, <2>6, <3>1, <4>2 DEF Runs
            <4>3. CASE r > cursor
                BY <2>3, <2>5, <2>6, <3>1, <4>3 DEF Runs
            <4> QED BY <4>1, <4>2, <4>3 DEF Runs
        <3> QED BY <2>1, <2>6, <3>2
    <2>7. CASE ~(cursor < NRuns) /\ lock' = Nobody
        <3>1. cursor = NRuns
            BY <2>7, LockstepAssumption DEF Runs
        <3>2. ASSUME NEW r \in Runs
              PROVE ticks'[r] = ticks[NRuns] + 1 /\ status'[r] = Reached(r)'
            <4>1. CASE r = cursor
                BY <2>4, <4>1
            <4>2. CASE r < cursor
                BY <2>3, <2>5, <4>2 DEF Runs
            <4> QED BY <3>1, <4>1, <4>2, LockstepAssumption DEF Runs
        <3> QED BY <2>7, <3>2
    <2> QED BY <2>2, <2>6, <2>7
<1>5. ASSUME NEW t \in Threads, LoopFail(t) PROVE EvenInv'
    BY <1>2, <1>5 DEF LoopFail, Free, Statuses
<1>6. ASSUME NEW c \in Clients, Proceed(c) \/ Request(c) PROVE EvenInv'
    <2>1. CASE UNCHANGED <<status, lock>>
        BY <1>1, <1>6, <2>1, Requests
    <2>2. CASE UNCHANGED status /\ Free /\ lock' = c
        BY <1>1, <1>6, <2>2, Requests DEF Free
    <2>3. CASE /\ Free /\ lock' = lock
               /\ \E new \in {"RUNNING", "PAUSED", "COMPLETED"} : TransitionAll(new)
        BY <1>2, <1>6, <2>3, Requests DEF Free, Statuses
    <2> QED BY <1>6, <2>1, <2>2, <2>3, Requests
<1> QED
    BY <1>1, <1>3, <1>4, <1>5, <1>6, Loops DEF Next, LoopStep, vars, engineVars

LEMMA InvInit == Init => LockstepInv
<1> SUFFICES ASSUME Init PROVE LockstepInv
    OBVIOUS
<1>1. LockInv /\ StepInv
    BY Owners DEF Init, LockInv, StepInv, InTick
<1>2. LeadInv /\ FaultInv
    BY LeadIsRun DEF Init, LeadInv, Lead, FaultInv, ErrorOnlyFromFault
<1>3. EvenInv
    BY Owners DEF Init, EvenInv, InTick, OneTick
<1> QED BY <1>1, <1>2, <1>3, TypeInit DEF LockstepInv

LEMMA InvNext == LockstepInv /\ [Next]_vars => LockstepInv'
BY TypeNext, LockNext, StepNext, LeadNext, FaultNext, EvenNext DEF LockstepInv

LEMMA Inductive == Spec => []LockstepInv
BY InvInit, InvNext, PTL DEF Spec

(* However many engines are compared and however their requests overlap,   *)
(* they are on one tick with one status whenever the lock is free, unless  *)
(* one of them has raised in the middle of a tick.                         *)
THEOREM EnginesInStep == Spec => []InStep
<1>1. LockstepInv => InStep
    BY Owners DEF LockstepInv, EvenInv, InStep, InTick, Free
<1> QED BY <1>1, Inductive, PTL

(* A stop() that lands while a tick begins never surfaces as a failure.    *)
THEOREM ErrorIsReal == Spec => []ErrorOnlyFromFault
<1>1. LockstepInv => ErrorOnlyFromFault
    BY DEF LockstepInv, FaultInv
<1> QED BY <1>1, Inductive, PTL

(* A frame shows all engines on one tick, which get_snapshot() owes to the *)
(* lock it holds while it reads them.                                      *)
THEOREM FramesWhole == Spec => []FramesAreWhole
<1>1. Init => FramesAreWhole
    BY DEF Init, FramesAreWhole
<1>2. LockstepInv /\ FramesAreWhole /\ [Next]_vars => FramesAreWhole'
    <2> SUFFICES ASSUME LockstepInv, FramesAreWhole, [Next]_vars PROVE FramesAreWhole'
        OBVIOUS
    <2> USE DEF FramesAreWhole
    <2>1. CASE UNCHANGED torn /\ (faulted => faulted')
        BY <2>1
    <2>2. ASSUME NEW c \in Clients, Snapshot(c) PROVE FramesAreWhole'
        BY <2>2, Owners DEF Snapshot, LockstepInv, EvenInv, InTick, Free, engineVars
    <2>3. ASSUME NEW t \in Threads, LoopStep(t) PROVE FramesAreWhole'
        BY <2>1, <2>3
        DEF LoopStep, LoopTest, LoopCheck, StepRun, LoopFail, LoopAfter, engineVars
    <2>4. ASSUME NEW c \in Clients, Proceed(c) \/ Play(c) \/ Pause(c) \/ StopBegin(c)
          PROVE FramesAreWhole'
        BY <2>1, <2>4
        DEF Proceed, Start, ResumeBegin, ResumeFinish, StopFinish, Play, Pause,
            StopBegin, engineVars
    <2> QED BY <2>1, <2>2, <2>3, <2>4 DEF Next, Request, vars
<1> QED BY <1>1, <1>2, Inductive, PTL DEF Spec

LEMMA DrivenNext == LockstepInv /\ RunningIsDriven /\ [Next]_vars => RunningIsDriven'
<1> SUFFICES ASSUME LockstepInv, RunningIsDriven, [Next]_vars PROVE RunningIsDriven'
    OBVIOUS
<1>1. TypeOK /\ LeadInv /\ 1 \in Runs
    BY LeadIsRun DEF LockstepInv
<1> USE Owners, <1>1 DEF RunningIsDriven, Alive, Lead, TypeOK
<1>2. CASE UNCHANGED <<status, loopVars>>
    BY <1>2 DEF loopVars
<1>3. ASSUME Launch, TransitionAll("RUNNING") PROVE RunningIsDriven'
    BY <1>3, LaunchTypes
<1>4. ASSUME NEW t \in Threads, LoopTest(t) PROVE RunningIsDriven'
    BY <1>4 DEF LoopTest, GoTo, engineVars
<1>5. ASSUME NEW t \in Threads, LoopCheck(t) PROVE RunningIsDriven'
    BY <1>5 DEF LoopCheck, GoTo, LeadInv, engineVars
<1>6. ASSUME NEW t \in Threads, StepRun(t) PROVE RunningIsDriven'
    <2>1. status'[1] = "RUNNING" => status[1] = "RUNNING"
        BY <1>6 DEF StepRun, engineVars
    <2>2. \A u \in Threads : loop[u] # "dead" => loop'[u] # "dead"
        BY <1>6 DEF StepRun, GoTo
    <2> QED BY <1>6, <2>1, <2>2 DEF StepRun
<1>7. ASSUME NEW t \in Threads, LoopFail(t) PROVE RunningIsDriven'
    BY <1>7 DEF LoopFail, TransitionAll
<1>8. ASSUME NEW t \in Threads, LoopAfter(t) PROVE RunningIsDriven'
    BY <1>8 DEF LoopAfter, GoTo, engineVars
<1>9. ASSUME NEW c \in Clients, Start(c) \/ ResumeFinish(c) PROVE RunningIsDriven'
    BY <1>2, <1>3, <1>9 DEF Start, ResumeFinish
<1>10. ASSUME NEW c \in Clients, Pause(c) \/ StopBegin(c) PROVE RunningIsDriven'
    BY <1>10 DEF Pause, StopBegin, TransitionAll
<1>11. ASSUME NEW c \in Clients,
              Play(c) \/ ResumeBegin(c) \/ StopFinish(c) \/ Snapshot(c)
       PROVE RunningIsDriven'
    BY <1>2, <1>11 DEF Play, ResumeBegin, StopFinish, Snapshot, engineVars
<1> QED
    BY <1>2, <1>4, <1>5, <1>6, <1>7, <1>8, <1>9, <1>10, <1>11
    DEF Next, LoopStep, Proceed, Request, vars, loopVars

(* A comparison that says RUNNING has a living loop: a thread leaves on a  *)
(* status only after the lead's has changed, which LeadInv gives, and who  *)
(* sets the stop event takes RUNNING away under the same lock.             *)
THEOREM AlwaysDriven == Spec => []RunningIsDriven
<1>1. Init => RunningIsDriven
    BY LeadIsRun DEF Init, RunningIsDriven, Lead
<1> QED BY <1>1, DrivenNext, Inductive, PTL DEF Spec

(* Behind its threads and locks a comparison is one simulation: every step *)
(* of the loop and of a request is a step of ComparisonLifecycle.tla or    *)
(* changes nothing a viewer sees.                                          *)
THEOREM Implements == Spec => ImplementsComparison
<1>1. Init => Shown!Watch
    BY LeadIsRun DEF Init, Shown!Watch
<1>2. LockstepInv /\ [Next]_vars => [Shown!WatchNext]_Shown!shownVars
    <2> SUFFICES ASSUME LockstepInv, [Next]_vars
                 PROVE  Shown!WatchNext \/ UNCHANGED Shown!shownVars
        OBVIOUS
    <2>1. TypeOK /\ 1 \in Runs
        BY LeadIsRun DEF LockstepInv
    <2> USE <2>1 DEF TypeOK, Lead, Shown!shownVars, TransitionAll
    <2>2. CASE UNCHANGED engineVars
        BY <2>2 DEF engineVars
    <2>3. ASSUME NEW t \in Threads, StepRun(t)
          PROVE  Shown!WatchNext \/ UNCHANGED Shown!shownVars
        <3>1. status[cursor] = "RUNNING"
            BY <2>3 DEF StepRun, LockstepInv, LockInv, StepInv, InTick, Runs
        <3>2. CASE cursor = 1
            BY <2>3, <3>1, <3>2 DEF StepRun, Shown!WatchNext, Shown!Advance
        <3>3. CASE cursor # 1
            <4>1. status'[1] = status[1] /\ ticks'[1] = ticks[1]
                BY <2>3, <3>1, <3>3 DEF StepRun
            <4>2. faulted' = faulted \/ faulted' = TRUE
                BY <2>3 DEF StepRun, engineVars
            <4> QED BY <4>1, <4>2 DEF Shown!WatchNext, Shown!LateFault
        <3> QED BY <3>2, <3>3
    <2>4. ASSUME NEW t \in Threads, LoopFail(t) PROVE Shown!WatchNext
        BY <2>4 DEF LoopFail, LockstepInv, FaultInv, Shown!WatchNext, Shown!Report
    <2>5. ASSUME NEW c \in Clients, Start(c)
          PROVE  Shown!WatchNext \/ UNCHANGED Shown!shownVars
        BY <2>5 DEF Start, Shown!WatchNext, Shown!Start
    <2>6. ASSUME NEW c \in Clients, ResumeFinish(c)
          PROVE  Shown!WatchNext \/ UNCHANGED Shown!shownVars
        BY <2>6 DEF ResumeFinish, Shown!WatchNext, Shown!Resume
    <2>7. ASSUME NEW c \in Clients, Pause(c) PROVE Shown!WatchNext
        BY <2>7 DEF Pause, Shown!WatchNext, Shown!Pause
    <2>8. ASSUME NEW c \in Clients, StopBegin(c) PROVE Shown!WatchNext
        BY <2>8 DEF StopBegin, Shown!WatchNext, Shown!Stop
    <2>9. ASSUME NEW c \in Clients,
                 Play(c) \/ ResumeBegin(c) \/ StopFinish(c) \/ Snapshot(c)
          PROVE  UNCHANGED engineVars
        BY <2>9 DEF Play, ResumeBegin, StopFinish, Snapshot
    <2>10. ASSUME NEW t \in Threads, LoopTest(t) \/ LoopCheck(t) \/ LoopAfter(t)
           PROVE  UNCHANGED engineVars
        BY <2>10 DEF LoopTest, LoopCheck, LoopAfter
    <2>11. CASE UNCHANGED vars
        BY <2>11 DEF vars
    <2> QED
        BY <2>2, <2>3, <2>4, <2>5, <2>6, <2>7, <2>8, <2>9, <2>10, <2>11
        DEF Next, LoopStep, Proceed, Request
<1> QED
    BY <1>1, <1>2, Inductive, PTL DEF Spec, ImplementsComparison, Shown!WatchSpec
=============================================================================
