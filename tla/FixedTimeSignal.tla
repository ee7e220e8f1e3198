--------------------------- MODULE FixedTimeSignal ---------------------------
(***************************************************************************)
(* The fixed-time signal (controllers/fixed_time_signal.py): reset() seeds *)
(* the plan with the coordination offset, update() runs it one time step   *)
(* at a time and carries what is left of a step into the next phase.       *)
(***************************************************************************)
EXTENDS SignalPlan, Integers

CONSTANTS MaxOffset     \* bound: the largest coordination offset tried

ASSUME OffsetAssumption == MaxOffset \in Nat /\ PlanTime > 0

VARIABLES
    idx,        \* current_phase_idx
    elapsed,    \* time_in_current_state
    offset,     \* self.offset
    clock,      \* history: simulated time since reset(), modulo PlanTime
    shown,      \* history: how long the current run of non-greens was shown
    lastGreen   \* history: the green before that run; 0 at the start

vars == <<idx, elapsed, offset, clock, shown, lastGreen>>

(* The position reached after the phases that `time` uses up, counted from *)
(* phase i, and the time left in it. At most `limit` phases are passed.    *)
Reached(i, time, limit) ==
    LET k == Min({limit} \cup
                 {j \in 0..limit : time < Spent(i, j) + Plan[Ahead(i, j)].duration})
    IN  [at |-> Ahead(i, k), left |-> time - Spent(i, k)]

(* _advance_by(offset % total): stops where nothing remains, so an offset  *)
(* that ends with a phase rests on the one after it.                       *)
AdvanceBy(seconds) ==
    LET k == Min({j \in 0..N : \/ seconds = Spent(1, j)
                               \/ seconds < Spent(1, j + 1)})
    IN  [at |-> Ahead(1, k), left |-> seconds - Spent(1, k)]

Init ==
    /\ offset \in 0..MaxOffset
    /\ LET start == AdvanceBy(offset % PlanTime)
       IN  idx = start.at /\ elapsed = start.left
    /\ clock = 0 /\ shown = 0 /\ lastGreen = 0

(* Fault: a phase that ends drops what is left of the time step. *)
UpdateDropsCarry ==
    LET next == Reached(idx, elapsed + Dt, N)
    IN  /\ idx' = next.at
        /\ elapsed' = IF next.at = idx THEN next.left ELSE 0

(* Fault: a phase that ends hands over to the one after the next. *)
UpdateOffByOne ==
    LET next == Reached(idx, elapsed + Dt, N)
    IN  /\ idx' = IF next.at = idx THEN idx ELSE Ahead(next.at, 1)
        /\ elapsed' = next.left

(* Fault: the test looks one time step ahead, so every phase ends early. *)
UpdateEarly ==
    LET next == Reached(idx, elapsed + 2 * Dt, N)
    IN  /\ idx' = next.at
        /\ elapsed' = IF next.at = idx THEN elapsed + Dt ELSE next.left

(* update(): every phase whose time is used up ends in this tick. *)
Update ==
    LET next == Reached(idx, elapsed + Dt, N)
    IN  /\ idx' = next.at
        /\ elapsed' = next.left

(* How long the non-greens were shown, and after which green. *)
Watched ==
    /\ shown' = IF idx \in Clearances THEN shown + Dt
                ELSE IF idx' \in Clearances THEN 0 ELSE shown
    /\ lastGreen' = IF idx \in Greens /\ idx' \in Clearances THEN idx ELSE lastGreen

Tick ==
    /\ Update /\ Watched
    /\ clock' = (clock + Dt) % PlanTime
    /\ UNCHANGED offset

Next == Tick
Spec == Init /\ [][Next]_vars

-----------------------------------------------------------------------------
TypeOK ==
    /\ idx \in Phases
    /\ elapsed \in Nat
    /\ offset \in 0..MaxOffset
    /\ clock \in 0..PlanTime - 1
    /\ shown \in Nat
    /\ lastGreen \in Greens \cup {0}

(* The plan never drifts: where the signal is in its cycle is exactly the  *)
(* time since reset plus the offset, for every time step and offset, so    *)
(* signals coordinated by their offsets stay coordinated.                  *)
NoDrift == (Spent(1, idx - 1) + elapsed) % PlanTime = (offset + clock) % PlanTime

(* No approach goes from green to red without its yellow, and a yellow is  *)
(* never shown to an approach that was red; nor any of its lanes' heads.   *)
HeadsChangeSafely == [][SafeChange(idx, idx')]_vars

(* The clearance of a green is shown for its configured time, less at most *)
(* the part of a time step the green itself ran over, although the yellow  *)
(* and the all-red end in the middle of a tick.                            *)
ClearanceServed ==
    idx \in Greens /\ lastGreen # 0 => shown + Dt > ClearTime(lastGreen)
=============================================================================
