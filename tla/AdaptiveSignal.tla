--------------------------- MODULE AdaptiveSignal ---------------------------
(***************************************************************************)
(* The vehicle-actuated signal (controllers/adaptive_signal.py with        *)
(* controllers/signal_detection.py). One action, Tick, is one call of      *)
(* update(): the traffic the stop-line detectors see is chosen freely, the *)
(* controller decides whether the phase ends and what follows it.          *)
(*                                                                         *)
(* The green timers are kept only as far as they are compared: elapsed     *)
(* stops counting at MinGreen, the gap timer at Extension and the time     *)
(* since the first call at MaxGreen.                                       *)
(***************************************************************************)
EXTENDS SignalPlan

CONSTANTS
    MinGreen, MaxGreen, Extension,  \* minGreen, maxGreen, extensionStep
    Threshold,                      \* demandThreshold
    MaxPresent                      \* bound: vehicles seen on one lane

ASSUME AdaptiveAssumption ==
    /\ MinGreen \in Nat \ {0} /\ MaxGreen \in Nat /\ Extension \in Nat \ {0}
    /\ MaxGreen > MinGreen
    /\ Threshold \in Nat \ {0} /\ MaxPresent \in Nat \ {0}
    /\ Accepted

VARIABLES
    idx,        \* current_phase_idx
    elapsed,    \* time_in_current_state
    gap,        \* _gap_timer
    sinceCall,  \* time since _max_timer_start; 0 while it is None
    target,     \* _target; 0 stands for None
    lastGreen,  \* history: the green that was cleared last; 0: none yet
    cleared,    \* history: how long its clearance has been shown
    watched,    \* history: one green phase, and how long its call has
    waited      \*   been standing without a break

timers  == <<elapsed, gap, sinceCall>>
history == <<lastGreen, cleared, watched, waited>>
vars    == <<idx, timers, target, history>>

None == 0

(* reset(): the plan starts at its first phase. *)
Init ==
    /\ idx = 1
    /\ elapsed = 0 /\ gap = 0 /\ sinceCall = 0
    /\ target = None
    /\ lastGreen = None /\ cleared = 0
    /\ watched \in Greens /\ waited = 0

-----------------------------------------------------------------------------
(***************************************************************************)
(* What StopLineDetection.observe reports, for vehicle counts `present`.   *)
(***************************************************************************)

Detected(present, lanes) == MapThenSumSet(LAMBDA l : present[l], lanes)

(* The greens with a call: enough vehicles on lanes only they release. *)
Waiting(present) ==
    {i \in Greens \ {idx} :
        Detected(present, Released(i) \ Released(idx)) >= Threshold}

(* Fault: the position after the first green with a call. *)
NextCalledOffByOne(called) == FirstFrom(Ahead(idx, 1), called) + 1

(* The first green with a call in cyclic order after the current one. *)
NextCalled(called) == FirstFrom(Ahead(idx, 1), called)

-----------------------------------------------------------------------------
(* _enter_green; _after_clearance then puts the time it carries over back. *)
EnterGreen(i, carry) ==
    /\ idx' = i
    /\ elapsed' = carry
    /\ gap' = 0
    /\ sinceCall' = 0

(* Fault: the clearance starts with the time the green has run. *)
EnterClearanceLate ==
    /\ idx' = ClearanceOf(idx)
    /\ UNCHANGED timers

EnterClearance ==
    /\ idx' = ClearanceOf(idx)
    /\ elapsed' = 0
    /\ UNCHANGED <<gap, sinceCall>>

(* Fault: any green with a call may follow the current one directly. *)
TerminateDirectly(called) ==
    LET next == NextCalled(called)
    IN  EnterGreen(next, 0) /\ UNCHANGED target

(* _terminate: straight on to a later green of the same stage, otherwise   *)
(* through this stage's clearance to the green that was called.            *)
Terminate(called) ==
    LET next == NextCalled(called)
    IN  IF StageOf(next) = StageOf(idx) /\ next > idx
        THEN EnterGreen(next, 0) /\ UNCHANGED target
        ELSE EnterClearance /\ target' = next

(* Fault: passing traffic holds a green for as long as it lasts. *)
UpdateGreenNoMaximum(called, passing) ==
    LET time == elapsed + Dt
        idle == IF passing THEN 0 ELSE gap + Dt
        call == IF sinceCall = 0 /\ called = {} THEN 0 ELSE sinceCall + Dt
    IN  \/ /\ time < MinGreen \/ called = {} \/ idle < Extension
           /\ elapsed' = Min({time, MinGreen})
           /\ gap' = Min({idle, Extension})
           /\ sinceCall' = Min({call, MaxGreen})
           /\ UNCHANGED <<idx, target>>
        \/ /\ time >= MinGreen /\ called # {} /\ idle >= Extension
           /\ Terminate(called)

(* _update_green: hold for the minimum, rest while nobody else calls, then *)
(* hold while traffic passes and the maximum since the first call allows.  *)
UpdateGreen(called, passing) ==
    LET time == elapsed + Dt
        idle == IF passing THEN 0 ELSE gap + Dt
        call == IF sinceCall = 0 /\ called = {} THEN 0 ELSE sinceCall + Dt
    IN  \/ /\ \/ time < MinGreen
              \/ called = {}
              \/ idle < Extension /\ call < MaxGreen
           /\ elapsed' = Min({time, MinGreen})
           /\ gap' = Min({idle, Extension})
           /\ sinceCall' = Min({call, MaxGreen})
           /\ UNCHANGED <<idx, target>>
        \/ /\ time >= MinGreen /\ called # {}
           /\ idle >= Extension \/ call >= MaxGreen
           /\ Terminate(called)

(* How many phases from the current one on a clearance of this length has  *)
(* used up: the loop of update() stops at a green or at a phase with time  *)
(* left in it.                                                             *)
UsedUp(time) ==
    Min({k \in 0..N : \/ Ahead(idx, k) \in Greens
                      \/ time < Spent(idx, k) + Plan[Ahead(idx, k)].duration})

(* The clearance branch of update() with _after_clearance: zero-length     *)
(* phases are passed through, the last one hands over to the target, and   *)
(* the time left over is carried into what follows.                        *)
UpdateClearance ==
    LET time == elapsed + Dt
        k    == UsedUp(time)
        next == Ahead(idx, k)
        left == time - Spent(idx, k)
    IN  IF next \in Greens
        THEN /\ EnterGreen(IF target = None THEN next ELSE target, left)
             /\ target' = None
        ELSE /\ idx' = next
             /\ elapsed' = left
             /\ UNCHANGED <<gap, sinceCall, target>>

Observe(called) ==
    /\ lastGreen' = IF idx \in Greens /\ idx' \in Clearances THEN idx ELSE lastGreen
    /\ cleared'   = IF idx \in Clearances THEN cleared + Dt
                    ELSE IF idx' \in Clearances THEN 0 ELSE cleared
    /\ waited'    = IF watched \in called /\ idx' # watched THEN waited + Dt ELSE 0
    /\ UNCHANGED watched

Tick ==
    \E present \in [Lanes -> 0..MaxPresent] :
        LET called == Waiting(present)
        IN  /\ IF idx \in Greens
               THEN \/ UpdateGreen(called, FALSE)
                    \/ /\ \E l \in Released(idx) : present[l] > 0
                       /\ UpdateGreen(called, TRUE)
               ELSE UpdateClearance
            /\ Observe(called)

Next == Tick
Spec == Init /\ [][Next]_vars

-----------------------------------------------------------------------------
(***************************************************************************)
(* Properties.                                                             *)
(***************************************************************************)

TypeOK ==
    /\ idx \in Phases
    /\ elapsed \in Nat /\ gap \in 0..Extension /\ sinceCall \in 0..MaxGreen
    /\ target \in Greens \cup {None}
    /\ lastGreen \in Greens \cup {None}
    /\ cleared \in Nat
    /\ watched \in Greens /\ waited \in Nat

(* No approach goes from green to red without its yellow, and a yellow is  *)
(* never shown to an approach that was red, whatever the green's end was   *)
(* decided by and whichever stages are skipped. The head of a single lane  *)
(* does go from green to red when the next green of its own stage is for   *)
(* other lanes of the approach, but never for another approach (K18).      *)
HeadsChangeSafely == [][SafeChange(idx, idx')]_vars

(* A green that ended has had the whole of its stage's clearance shown     *)
(* before the next green, also when the time step does not divide the      *)
(* phase durations and time is carried over from one phase to the next.    *)
ClearanceServed ==
    idx \in Greens /\ lastGreen # None => cleared >= ClearTime(lastGreen)

(* Rounded up to whole time steps. *)
Whole(time) == ((time + Dt - 1) \div Dt) * Dt

(* What phase i may add to a wait: a green its maximum, the first phase of *)
(* a clearance the whole of that clearance.                                *)
Allowance(i) ==
    LET before == Ahead(i, N - 1)
    IN  IF i \in Greens THEN Whole(MaxGreen)
        ELSE IF before \in Greens THEN Whole(ClearTime(before))
        ELSE 0

Allowed[i \in 0..N] == IF i = 0 THEN 0 ELSE Allowed[i - 1] + Allowance(i)

LongestClearance == Max({Whole(ClearTime(g)) : g \in Greens})

(* A cycle but for the green waited for: one maximum green of every other  *)
(* phase and one clearance of every stage. As the next green is settled    *)
(* when a clearance begins, what is left of the clearance in which the call*)
(* came too late comes on top.                                             *)
WaitLimit == (Allowed[N] - Whole(MaxGreen)) + LongestClearance

(* A stage that the end of the plan cuts in two releases no lane after the *)
(* cut that it does not release before it: the default plan has no such    *)
(* stage, and a phaseSequence gives all the greens of a stage one group.   *)
CutStagesAlike ==
    \A i, j \in Greens :
        j < i /\ 1..j \cup i..N \subseteq Greens
            => Released(j) \subseteq Released(i)

(* Cyclic order and the maximum green bound how long any movement is kept  *)
(* waiting: one that keeps calling is shown green within WaitLimit, however*)
(* traffic comes and goes elsewhere and whenever the call first came.      *)
WaitIsBounded == waited <= WaitLimit
=============================================================================
