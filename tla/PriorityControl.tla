--------------------------- MODULE PriorityControl ---------------------------
(***************************************************************************)
(* The priority controller (priority/controller.py, priority/phases.py)    *)
(* around a fixed-time signal: pre-emption for emergency vehicles and      *)
(* extension or early start of a green for late buses. In every tick it    *)
(* either moves the plan's cursor itself or lets the plan run.             *)
(*                                                                         *)
(* A movement (approach and turn) is an incoming lane of the plan. Where   *)
(* vehicles are, and which of them are detected, is any choice of each     *)
(* tick; the emergency vehicles of one movement are told apart only by     *)
(* whether the pre-emption under way has seen them.                        *)
(***************************************************************************)
EXTENDS FixedTimeSignal

CONSTANTS
    MinGreen,           \* PreemptionConfig.min_green_s
    MaxHold,            \* max_hold_s
    MinRecovery,        \* min_recovery_s
    MaxExtension,       \* TransitPriorityConfig.max_extension_s
    MaxEarlyGreen,      \* max_early_green_s
    TransitMinGreen,    \* min_green_s
    MinSpacing,         \* min_spacing_s
    Etas                \* bound: when a bus may expect to reach the stop line

(* build_run gives every priority run the paired plan. Of it the model uses*)
(* that it begins with a green, that its stages are whole and in a safe    *)
(* order and that its greens are for somebody, not all for the same        *)
(* approaches: so next_green and clearance_start find what they look for.  *)
ASSUME PriorityAssumption ==
    /\ Accepted /\ SafeOrder /\ 1 \in Greens
    /\ \A g \in Greens : Plan[g].directions # {}
    /\ \E g, h \in Greens : Plan[g].directions # Plan[h].directions
    /\ MinGreen \in Nat \ {0} /\ TransitMinGreen \in Nat \ {0}
    /\ MaxHold \in Nat /\ MaxHold >= MinGreen
    /\ {MinRecovery, MaxExtension, MaxEarlyGreen, MinSpacing} \cup Etas \subseteq Nat

VARIABLES
    fitted,     \* whether the junction has a priority controller
    state,      \* self.state
    goal,       \* the green asked for; 0 for none
    resume,     \* the green to return to; 0 for none
    held,       \* the time since the hold began
    lockout,    \* the time until the next pre-emption may begin
    greenAge,   \* the time since _green_since, up to MinGreen
    ev,         \* per movement: emergency vehicles on the approach
    extended,   \* _tsp_extended, of the phase showing
    early,      \* whether the phase showing was shortened (_tsp_cut_key)
    spacing,    \* the time since _tsp_last_action, up to MinSpacing
    lit         \* history: how long the green showing has been on

pvars == <<fitted, state, goal, resume, held, lockout, greenAge, ev, extended,
           early, spacing, lit>>

allVars == <<vars, pvars>>

Movements == Lanes
NoOne     == [m \in Movements |-> "none"]
Lesser(a, b)  == IF a < b THEN a ELSE b
Greater(a, b) == IF a > b THEN a ELSE b

(* PriorityController._reset_state; the runs that fit one set no offset. *)
PriorityInit ==
    /\ Init
    /\ fitted \in BOOLEAN /\ (fitted => offset = 0)
    /\ state = "normal" /\ goal = 0 /\ resume = 0
    /\ held = 0 /\ lockout = 0 /\ greenAge = 0
    /\ ev = NoOne
    /\ extended = 0 /\ early = FALSE /\ spacing = MinSpacing
    /\ lit = 0

(***************************************************************************)
(* PhaseDriver: the plan's cursor.                                         *)
(***************************************************************************)

Serves(i, m) == m \in Released(i)

FindGreen(m) == FirstFrom(idx, {i \in Greens : Serves(i, m)})

(* The first green after i that is shown to other approaches than a. *)
NextGreen(i, a) ==
    FirstFrom(Ahead(i, 1), {j \in Greens : Plan[j].directions # a})

(* Where the plan begins to clear green g. *)
ClearanceStart(g) == FirstFrom(Ahead(g, 1), Clearances)

(* _select_toward: the plan's order, but the goal for any other green. *)
SelectToward(i, g) ==
    IF g # 0 /\ Ahead(i, 1) \in Greens THEN g ELSE Ahead(i, 1)

(* advance(), its loop: a phase whose time is used up gives way to the next*)
(* on the way to green g. *)
Hop(p, g) ==
    IF p.left < Plan[p.at].duration THEN p
    ELSE [at |-> SelectToward(p.at, g), left |-> p.left - Plan[p.at].duration]

(* Where `time` into phase i leads. *)
Advance(i, time, g) ==
    LET at[k \in 0..N] ==
          IF k = 0 THEN [at |-> i, left |-> time] ELSE Hop(at[k - 1], g)
    IN  at[N]

MoveTo(p) == idx' = p.at /\ elapsed' = p.left
Jump(i)   == MoveTo([at |-> i, left |-> 0])
Freeze    == UNCHANGED <<idx, elapsed>>

(***************************************************************************)
(* Pre-emption. GreenAge is _green_age(now), the same in a whole tick.     *)
(***************************************************************************)

GreenAge == IF idx \in Greens THEN Lesser(greenAge + Dt, MinGreen) ELSE 0

(* The vehicles of this tick, with the detected ones marked as seen. *)
Seen(e, detected) ==
    [m \in Movements |-> IF m \in detected THEN "seen" ELSE e[m]]

Forgotten(e) == [m \in Movements |-> IF e[m] = "none" THEN "none" ELSE "coming"]

(* Fault: a green is ended as soon as another one is asked for. *)
GreenServedAtOnce == TRUE

(* The green showing may be ended. *)
GreenServed == GreenAge >= MinGreen

(* CLEARING_MIN_GREEN and a green showing. *)
RunMinGreen(g, r, e) ==
    /\ goal' = g /\ resume' = r /\ ev' = e
    /\ \/ /\ ~GreenServed
          /\ MoveTo(Advance(idx, elapsed + Dt, 0))
          /\ state' = "clearing_min_green"
       \/ /\ GreenServed
          /\ Jump(ClearanceStart(idx))
          /\ state' = "clearing"
    /\ UNCHANGED <<held, lockout>>

(* CLEARING: the plan's own yellow and all-red, then the goal. *)
RunClearing(g, r, e) ==
    LET p == Advance(idx, elapsed + Dt, g)
    IN  /\ MoveTo(p)
        /\ goal' = g /\ resume' = r /\ ev' = e
        /\ state' = IF p.at = g THEN "hold" ELSE "clearing"
        /\ held' = 0
        /\ UNCHANGED lockout

Waiting(g, e) == \E m \in Movements : e[m] = "seen" /\ Serves(g, m)

Release(g, r, e) ==
    /\ Jump(ClearanceStart(g))
    /\ state' = "recovering" /\ goal' = g /\ resume' = r
    /\ held' = 0 /\ ev' = Forgotten(e)
    /\ UNCHANGED lockout

Hold(g, r, e, time) ==
    /\ Freeze
    /\ state' = "hold" /\ goal' = g /\ resume' = r
    /\ held' = time /\ ev' = e
    /\ UNCHANGED lockout

(* Fault: a hold has no longest time. *)
RunHoldUntimed(g, r, e, time) ==
    \/ (Waiting(g, e) \/ ~GreenServed) /\ Hold(g, r, e, 0)
    \/ ~Waiting(g, e) /\ GreenServed /\ Release(g, r, e)

(* HOLD, for `time` now: until nobody seen is on the approach, or too long.*)
RunHold(g, r, e, time) ==
    LET over == (~Waiting(g, e) /\ GreenServed) \/ time >= MaxHold
    IN  \/ ~over /\ Hold(g, r, e, time)
        \/ over /\ Release(g, r, e)

(* Fault: the green interrupted is returned to, even if it is the goal. *)
ResumeInterrupted(target) == IF idx \in Greens THEN idx ELSE NextGreen(idx, {})

(* The green to return to: the interrupted one, or the next for others than*)
(* the goal is for.                                                        *)
ResumeAfter(target) ==
    LET interrupted == IF idx \in Greens THEN idx ELSE NextGreen(idx, {})
    IN  IF Plan[interrupted].directions # Plan[target].directions
        THEN interrupted ELSE NextGreen(target, Plan[target].directions)

(* A request in the normal state begins a pre-emption, which is already    *)
(* under way in the same tick.                                             *)
Begin(e, detected) ==
    /\ state = "normal" /\ lockout = 0
    /\ \E m \in detected :
          LET target == FindGreen(m)
              r      == ResumeAfter(target)
              now    == Seen(Forgotten(e), detected)
          IN  \/ idx = target /\ RunHold(target, r, now, 0)
              \/ idx \in Greens \ {target} /\ RunMinGreen(target, r, now)
              \/ idx \notin Greens /\ RunClearing(target, r, now)

UnderWay(e, detected) ==
    LET now == Seen(e, detected)
    IN  \/ /\ state = "clearing_min_green" /\ idx \in Greens
           /\ RunMinGreen(goal, resume, now)
        \/ /\ \/ state = "clearing"
              \/ state = "clearing_min_green" /\ idx \notin Greens
           /\ RunClearing(goal, resume, now)
        \/ /\ state = "hold"
           /\ RunHold(goal, resume, now, held + Dt)

(* RECOVERING: the goal's clearance, then the green to return to. *)
Recover(e) ==
    LET p    == Advance(idx, elapsed + Dt, resume)
        done == p.at \in Greens
    IN  /\ state = "recovering"
        /\ MoveTo(p)
        /\ state' = IF done THEN "normal" ELSE state
        /\ lockout' = IF done THEN MinRecovery ELSE lockout
        /\ goal' = IF done THEN 0 ELSE goal
        /\ resume' = IF done THEN 0 ELSE resume
        /\ ev' = e
        /\ UNCHANGED held

(***************************************************************************)
(* Transit priority, in the normal state: the nearest late bus wants       *)
(* movement m and expects to be at the stop line in `eta`.                 *)
(***************************************************************************)

Remaining == Greater(0, Plan[idx].duration - elapsed)
Spaced    == spacing + Dt >= MinSpacing
Others    == NextGreen(idx, Plan[idx].directions)

(* Hold the bus's green, frozen, within the extension allowed. *)
MayExtend(m, eta) ==
    LET left == MaxExtension - extended
    IN  /\ Serves(idx, m)
        /\ Remaining < eta + 1 /\ eta <= Remaining + left
        /\ left > 0 /\ (extended > 0 \/ Spaced)

(* What may be taken off the green showing for the bus's to begin earlier. *)
EarlyCut(m, eta) ==
    LET between == Min({k \in 0..N : Ahead(idx, k + 1) = Others})
        wait    == Remaining + Spent(Ahead(idx, 1), between)
        keep    == Greater(0, TransitMinGreen - elapsed)
    IN  IF idx \in Greens /\ ~Serves(idx, m) /\ ~early /\ Spaced /\ FindGreen(m) = Others
        THEN Lesser(MaxEarlyGreen, Lesser(Remaining - keep, wait - eta))
        ELSE 0

(* The plan runs, from `time` into the phase showing. *)
Plain(time) == MoveTo(Advance(idx, time + Dt, 0))

(* skip_ahead: never to the very end of the phase. *)
SkipAhead(seconds) == Lesser(elapsed + seconds, Plan[idx].duration - 1)

(* The counters kept per phase, which end with it. *)
Counted(x, cut, space) ==
    /\ extended' = IF idx' = idx THEN x ELSE 0
    /\ early' = (idx' = idx /\ cut)
    /\ spacing' = space

Transit ==
    LET later == Lesser(spacing + Dt, MinSpacing)
    IN  \/ Plain(elapsed) /\ Counted(extended, early, later)
        \/ \E m \in Movements, eta \in Etas :
              \/ /\ MayExtend(m, eta)
                 /\ Freeze /\ Counted(extended + Dt, early, 0)
              \/ /\ EarlyCut(m, eta) > 0
                 /\ Plain(SkipAhead(EarlyCut(m, eta)))
                 /\ Counted(extended, TRUE, 0)

(* A tick in the normal state in which nothing is pre-empted. *)
Normal(e, detected) ==
    /\ state = "normal" /\ (lockout = 0 => detected = {})
    /\ lockout' = Greater(0, lockout - Dt)
    /\ ev' = e
    /\ Transit
    /\ UNCHANGED <<state, goal, resume, held>>

(***************************************************************************)
(* update(): one tick. Emergency vehicles have come to and left approaches.*)
(***************************************************************************)

Traffic ==
    {e \in [Movements -> {"none", "coming", "seen"}] :
        \A m \in Movements : e[m] \in
            IF ev[m] = "none" THEN {"none", "coming"} ELSE {"none", ev[m]}}

(* _after_step: a green begins when it does not continue one for the same  *)
(* approaches.                                                             *)
AfterStep ==
    /\ greenAge' =
          IF idx' \in Greens /\ idx \in Greens
             /\ Plan[idx'].directions = Plan[idx].directions THEN GreenAge ELSE 0
    /\ lit' = IF idx' \in Greens /\ idx \in Greens
              THEN Lesser(lit + Dt, PlanTime) ELSE 0

PriorityTick ==
    /\ fitted
    /\ \E e \in Traffic : \E detected \in SUBSET {m \in Movements : e[m] # "none"} :
          \/ Normal(e, detected)
          \/ /\ \/ Begin(e, detected)
                \/ UnderWay(e, detected)
                \/ Recover(e)
             /\ Counted(extended, early, Lesser(spacing + Dt, MinSpacing))
    /\ AfterStep /\ Watched
    /\ UNCHANGED <<offset, clock, fitted>>

PriorityNext ==
    \/ PriorityTick
    \/ ~fitted /\ Tick /\ UNCHANGED pvars

(* A running engine ticks its controller again and again. *)
PrioritySpec ==
    PriorityInit /\ [][PriorityNext]_allVars /\ WF_allVars(PriorityNext)

(***************************************************************************)
(* Properties.                                                             *)
(***************************************************************************)

(* The variables' ranges; while a pre-emption is under way there is a green*)
(* asked for and another one to return to, for other approaches, and a hold*)
(* shows the green that was asked for and never much longer than allowed.  *)
PriorityTypeOK ==
    /\ TypeOK
    /\ fitted \in BOOLEAN
    /\ state \in {"normal", "clearing_min_green", "clearing", "hold", "recovering"}
    /\ goal \in Greens \cup {0} /\ resume \in Greens \cup {0}
    /\ state # "normal" =>
          /\ goal # 0 /\ resume # 0
          /\ Plan[goal].directions # Plan[resume].directions
    /\ state = "hold" => idx = goal
    /\ held \in 0..MaxHold + Dt /\ lockout \in 0..MinRecovery
    /\ greenAge \in 0..MinGreen /\ lit \in 0..PlanTime
    /\ ev \in [Movements -> {"none", "coming", "seen"}]
    /\ extended \in 0..MaxExtension + Dt /\ early \in BOOLEAN
    /\ spacing \in 0..MinSpacing

(* Without a priority controller the plan never drifts (NoDrift). *)
NoDriftAlone == ~fitted => NoDrift

Least == Min({MinGreen, TransitMinGreen} \cup {Plan[g].duration : g \in Greens})

(* No green is shown for less than the safety minimum, whether it ends by  *)
(* the plan, for an emergency vehicle, after a hold or for a bus, less at  *)
(* most the part of a time step the phase before it ran over.              *)
MinGreenServed ==
    [][fitted /\ idx \in Greens /\ idx' \notin Greens
          => lit + (2 * Dt) > Least]_allVars

(* A stream of emergency vehicles and buses cannot lock cross traffic out: *)
(* on the two-stage plan of the priority runs every green comes back, as   *)
(* often as the engine ticks on.                                           *)
EveryGreenReturns == \A g \in Phases : Plan[g].color = "green" => []<>(idx = g)
=============================================================================
