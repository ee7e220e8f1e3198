----------------------------- MODULE SignalPlan -----------------------------
(***************************************************************************)
(* The phase plan of a signalised junction (Phase and the plan builders of *)
(* controllers/fixed_time_signal.py), the stages the adaptive signal cuts  *)
(* it into (_split_stages) and the clearance arithmetic both signals do.   *)
(*                                                                         *)
(* A phase is a record: its colour, the approaches it is shown to, their   *)
(* lanes whose heads show it (those that serve one of its allowed_turns)   *)
(* and its duration. A lane is a pair of its approach and its index.       *)
(* Positions in the plan are cyclic and run from 1 to N.                   *)
(***************************************************************************)
EXTENDS Naturals, Sequences, FiniteSets, FiniteSetsExt

CONSTANTS
    Plan,   \* self.phases
    Dt      \* the engine's time step, in the unit of the durations

N          == Len(Plan)
Phases     == 1..N
Greens     == {i \in Phases : Plan[i].color = "green"}
Clearances == Phases \ Greens
Lanes      == UNION {Plan[i].lanes : i \in Greens}
Approaches == UNION {Plan[i].directions : i \in Phases}

Approach(l) == l[1]

(* An all-red may be zero. That every green and yellow outlasts a time step*)
(* is a restriction of the model: the schema bounds time steps by a second,*)
(* but a leftDuration only from below, by zero. A yellow allows every turn,*)
(* so all lanes of its approaches show it.                                 *)
ASSUME PlanAssumption ==
    /\ N \in Nat \ {0} /\ Dt \in Nat \ {0}
    /\ \A i \in 1..N :
          /\ Plan[i].color \in {"green", "yellow", "red"}
          /\ Plan[i].duration \in Nat
          /\ Plan[i].color # "red" => Plan[i].duration > Dt
          /\ Plan[i].color = "red" => Plan[i].directions = {}
          /\ \A l \in Plan[i].lanes : Approach(l) \in Plan[i].directions
          /\ Plan[i].color = "yellow" =>
                \A l \in Lanes : Approach(l) \in Plan[i].directions => l \in Plan[i].lanes
    /\ \E i \in 1..N : Plan[i].color = "green"

(* (idx + k) % len(self.phases) *)
Ahead(i, k) == ((i - 1 + k) % N) + 1

(* The first member of S at or after position i. *)
FirstFrom(i, S) == Ahead(i, Min({k \in 0..N - 1 : Ahead(i, k) \in S}))

(* What the head of lane l shows during phase i (_apply_signals), and what *)
(* is reported of the whole approach a (get_state). *)
HeadShows(i, l)     == IF l \in Plan[i].lanes THEN Plan[i].color ELSE "red"
ApproachShows(i, a) == IF a \in Plan[i].directions THEN Plan[i].color ELSE "red"

(* The lanes that may go in phase i. *)
Released(i) == {l \in Lanes : HeadShows(i, l) = "green"}

(* When phase i ends, counted from the start of the plan. *)
Ends[i \in 0..N] == IF i = 0 THEN 0 ELSE Ends[i - 1] + Plan[i].duration

PlanTime == Ends[N]

(* The time that k phases take, counted from phase i: a cycle at most. *)
Spent(i, k) ==
    LET last == i - 1 + k
    IN  (IF last <= N THEN Ends[last] ELSE PlanTime + Ends[last - N]) - Ends[i - 1]

(* What approach a may be shown when phase j follows phase i: never red    *)
(* after green, and a yellow only after a green.                           *)
SafeForApproach(i, j, a) ==
    /\ ApproachShows(i, a) = "green" => ApproachShows(j, a) \in {"green", "yellow"}
    /\ ApproachShows(j, a) = "yellow" => ApproachShows(i, a) \in {"green", "yellow"}

(* ... and its lane l: red after green only where other lanes of it go on  *)
(* with a green (K18), and a yellow only if some lane of it had a green.   *)
SafeForLane(i, j, l) ==
    /\ HeadShows(i, l) = "green" =>
          \/ HeadShows(j, l) \in {"green", "yellow"}
          \/ ApproachShows(j, Approach(l)) = "green"
    /\ HeadShows(j, l) = "yellow" => ApproachShows(i, Approach(l)) \in {"green", "yellow"}

SafeChange(i, j) ==
    /\ \A a \in Approaches : SafeForApproach(i, j, a)
    /\ \A l \in Lanes : SafeForLane(i, j, l)

(* The plan in its own order is safe for every approach. *)
SafeOrder == \A i \in Phases, a \in Approaches : SafeForApproach(i, Ahead(i, 1), a)

-----------------------------------------------------------------------------
(***************************************************************************)
(* Stages: consecutive greens and the clearance phases after them.         *)
(***************************************************************************)

(* A stage starts at a green whose predecessor is not green. *)
StageStarts == {i \in Greens : Ahead(i, N - 1) \notin Greens}

(* The positions from a stage's start up to the next start. *)
Span(s) ==
    LET next == FirstFrom(Ahead(s, 1), StageStarts)
        size == Min({k \in 1..N : Ahead(s, k) = next})
    IN  {Ahead(s, k) : k \in 0..size - 1}

StageOf(i) == CHOOSE s \in StageStarts : i \in Span(s)

(* The clearance that follows green i in its stage, how many phases it has *)
(* and the time they take together.                                        *)
ClearanceOf(i) == FirstFrom(i, Clearances)

ClearanceLength(i) == Min({k \in 0..N : Ahead(ClearanceOf(i), k) \in Greens})

ClearTime(i) == Spent(ClearanceOf(i), ClearanceLength(i))

(* What _split_stages demands of a plan before an adaptive signal runs it. *)
Accepted ==
    /\ StageStarts # {}
    /\ \A s \in StageStarts :
          /\ \A g \in Span(s) \cap Greens : Plan[g].directions = Plan[s].directions
          /\ \E c \in Span(s) : /\ Plan[c].color = "yellow"
                                /\ Plan[s].directions \subseteq Plan[c].directions
          /\ \E c \in Span(s) : Plan[c].color = "red"
=============================================================================
