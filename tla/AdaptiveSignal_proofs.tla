----------------------- MODULE AdaptiveSignal_proofs -----------------------
(***************************************************************************)
(* Theorems about the adaptive signal, for any plan that it accepts, any   *)
(* time step, limits and traffic.                                          *)
(***************************************************************************)
EXTENDS AdaptiveSignal, SignalPlan_proofs

(* A clearance phase is never on for longer than it lasts. *)
TimeInv == idx \in Clearances => elapsed =< Plan[idx].duration

(* During a clearance the signal is m phases into the clearance of the     *)
(* green that ended, and has shown it for as long as it takes to get there.*)
ClearInv ==
    idx \in Clearances /\ lastGreen # None =>
        \E m \in 0..ClearanceLength(lastGreen) - 1 :
            /\ idx = Ahead(ClearanceOf(lastGreen), m)
            /\ cleared = Spent(ClearanceOf(lastGreen), m) + elapsed

Inv == TypeOK /\ TimeInv /\ ClearInv /\ ClearanceServed

LEMMA AdaptiveFacts ==
    /\ MinGreen \in Nat /\ MaxGreen \in Nat /\ Extension \in Nat
    /\ Accepted /\ Greens # {} /\ Clearances # {}
    /\ Greens \in SUBSET Phases /\ Clearances \in SUBSET Phases
    /\ Greens \cup Clearances = Phases /\ None \notin Phases
<1>. USE PlanFacts
<1>1. MinGreen \in Nat /\ MaxGreen \in Nat /\ Extension \in Nat /\ Accepted
  BY AdaptiveAssumption DEF AdaptiveAssumption
<1>2. Greens # {}
  BY PlanAssumption DEF PlanAssumption, Greens, Phases
<1>3. Clearances # {}
  <2>1. PICK s \in StageStarts : \E p \in Span(s) : Plan[p].color = "red"
    BY <1>1 DEF Accepted
  <2>2. PICK p \in Span(s) : Plan[p].color = "red"
    BY <2>1
  <2>3. p \in Phases
    BY SpanInside
  <2>. QED
    BY <2>2, <2>3 DEF Clearances, Greens
<1>4. /\ Greens \in SUBSET Phases /\ Clearances \in SUBSET Phases
      /\ Greens \cup Clearances = Phases /\ None \notin Phases
  BY DEF Greens, Clearances, Phases, None
<1>. QED
  BY <1>1, <1>2, <1>3, <1>4

(***************************************************************************)
(* What a tick does.                                                       *)
(***************************************************************************)

(* How many phases a clearance tick passes. *)
LEMMA UsedUpIs ==
    ASSUME TypeOK, NEW time \in Nat
    PROVE  LET k == UsedUp(time)
           IN  /\ k \in 0..N /\ time >= Spent(idx, k)
               /\ \/ Ahead(idx, k) \in Greens
                  \/ time < Spent(idx, k) + Plan[Ahead(idx, k)].duration
               /\ \A j \in 0..k - 1 : Ahead(idx, j) \notin Greens
<1>. USE PlanFacts, AdaptiveFacts
<1>. DEFINE Stops(j) == \/ Ahead(idx, j) \in Greens
                       \/ time < Spent(idx, j) + Plan[Ahead(idx, j)].duration
            T == {j \in 0..N : Stops(j)}
            k == Min(T)
<1>1. idx \in Phases
  BY DEF TypeOK
<1>2. T # {} /\ T \in SUBSET Nat
  <2>1. PICK g \in Greens : g \in Phases
    OBVIOUS
  <2>2. PICK j \in 0..N - 1 : Ahead(idx, j) = g
    BY <1>1, <2>1, SomeAhead
  <2>3. j \in T
    BY <2>2
  <2>. QED
    BY <2>3
<1>3. k \in T /\ \A x \in T : k =< x
  <2>. HIDE DEF T
  <2>. QED
    BY <1>2, MinNat
<1>4. UsedUp(time) = k
  BY DEF UsedUp
<1>. HIDE DEF k
<1>5. k \in 0..N /\ Stops(k)
  BY <1>3
<1>6. ASSUME NEW j \in 0..k - 1 PROVE ~Stops(j) /\ j \in 0..N
  <2>1. j \in 0..N /\ j < k
    BY <1>5
  <2>2. j \notin T
    <3>. HIDE DEF T
    <3>. QED
      BY <1>3, <1>5, <2>1
  <2>. QED
    BY <2>1, <2>2
<1>7. ASSUME NEW j \in 0..k - 1
      PROVE  time >= Spent(idx, j) + Plan[Ahead(idx, j)].duration
  <2>1. Spent(idx, j) \in Nat /\ Ahead(idx, j) \in Phases
    BY <1>1, <1>6, SpentIs, AheadIs
  <2>2. Plan[Ahead(idx, j)].duration \in Nat
    BY <2>1 DEF Phases
  <2>. QED
    BY <1>6, <2>1, <2>2
<1>8. time >= Spent(idx, k)
  BY <1>1, <1>5, <1>7, LeftOver
<1>. QED
  BY <1>4, <1>5, <1>6, <1>8

(* Nobody is detected on no lane. *)
LEMMA NobodyDetected ==
    ASSUME NEW f PROVE Detected(f, {}) = 0
<1>. DEFINE F(g) == [s \in SUBSET {} |->
                       IF s = {} THEN 0
                       ELSE f[CHOOSE x \in s : TRUE] + g[s \ {CHOOSE x \in s : TRUE}]]
            h == CHOOSE g : g = F(g)
<1>1. \E g : g = F(g)
  <2>. DEFINE g == [s \in SUBSET {} |-> 0]
  <2>1. \A s \in SUBSET {} : F(g)[s] = 0
    OBVIOUS
  <2>2. g = F(g)
    BY <2>1
  <2>. QED
    BY <2>2
<1>2. h = F(h)
  BY <1>1
<1>3. h[{}] = 0
  <2>1. F(h)[{}] = 0
    OBVIOUS
  <2>. HIDE DEF F
  <2>. QED
    BY <1>2, <2>1
<1>4. Detected(f, {}) = h[{}]
  BY DEF Detected, MapThenSumSet, MapThenFoldSet
<1>. QED
  BY <1>3, <1>4

(* A tick is a step of a green or of a clearance; it can only be called to *)
(* greens that release a lane more.                                        *)
LEMMA TickCases ==
    ASSUME Tick
    PROVE  \E called \in SUBSET Greens :
              /\ \A g \in called : ~(Released(g) \subseteq Released(idx))
              /\ Observe(called)
              /\ \/ idx \in Greens /\ \E p \in BOOLEAN : UpdateGreen(called, p)
                 \/ idx \notin Greens /\ UpdateClearance
<1>1. PICK present \in [Lanes -> 0..MaxPresent] :
         LET called == Waiting(present)
         IN  /\ IF idx \in Greens
                THEN \/ UpdateGreen(called, FALSE)
                     \/ /\ \E l \in Released(idx) : present[l] > 0
                        /\ UpdateGreen(called, TRUE)
                ELSE UpdateClearance
             /\ Observe(called)
  BY DEF Tick
<1>2. Waiting(present) \in SUBSET Greens
  BY DEF Waiting
<1>3. ASSUME NEW g \in Waiting(present)
      PROVE  ~(Released(g) \subseteq Released(idx))
  <2>. SUFFICES ASSUME Released(g) \subseteq Released(idx) PROVE FALSE
    OBVIOUS
  <2>1. Detected(present, Released(g) \ Released(idx)) >= Threshold
    BY <1>3 DEF Waiting
  <2>2. Released(g) \ Released(idx) = {}
    OBVIOUS
  <2>3. 0 >= Threshold
    BY <2>1, <2>2, NobodyDetected
  <2>. QED
    BY <2>3, AdaptiveAssumption DEF AdaptiveAssumption
<1>. QED
  BY <1>1, <1>2, <1>3

(* A green goes on, gives way to a green of its stage or is cleared. *)
LEMMA GreenStep ==
    ASSUME TypeOK, idx \in Greens, NEW called \in SUBSET Greens,
           NEW p \in BOOLEAN, UpdateGreen(called, p)
    PROVE  /\ elapsed' \in Nat /\ gap' \in 0..Extension /\ sinceCall' \in 0..MaxGreen
           /\ \/ idx' = idx /\ target' = target
              \/ /\ idx' \in Greens /\ StageOf(idx') = StageOf(idx)
                 /\ target' = target
              \/ idx' = ClearanceOf(idx) /\ elapsed' = 0 /\ target' \in Greens
<1>. USE PlanFacts, AdaptiveFacts
<1>1. idx \in Phases /\ elapsed \in Nat /\ gap \in 0..Extension
      /\ sinceCall \in 0..MaxGreen
  BY DEF TypeOK
<1>. DEFINE time == elapsed + Dt
            idle == IF p THEN 0 ELSE gap + Dt
            call == IF sinceCall = 0 /\ called = {} THEN 0 ELSE sinceCall + Dt
<1>2. time \in Nat /\ idle \in Nat /\ call \in Nat
  BY <1>1
<1>3. CASE /\ elapsed' = Min({time, MinGreen})
           /\ gap' = Min({idle, Extension})
           /\ sinceCall' = Min({call, MaxGreen})
           /\ UNCHANGED <<idx, target>>
  <2>. HIDE DEF time, idle, call
  <2>1. ASSUME NEW x \in Nat, NEW y \in Nat
        PROVE  Min({x, y}) \in 0..y
    <3>1. Min({x, y}) \in {x, y} /\ \A z \in {x, y} : Min({x, y}) =< z
      <4>1. {x, y} \in SUBSET Nat /\ {x, y} # {}
        OBVIOUS
      <4>. QED
        BY <4>1, MinNat
    <3>. QED
      BY <3>1
  <2>. QED
    BY <1>2, <1>3, <2>1
<1>4. CASE called # {} /\ Terminate(called)
  <2>. DEFINE next == NextCalled(called)
  <2>1. next \in Greens
    <3>1. Ahead(idx, 1) \in Phases /\ called \in SUBSET Phases
      BY <1>1, AheadIs
    <3>2. \E k \in 0..N - 1 :
             FirstFrom(Ahead(idx, 1), called) = Ahead(Ahead(idx, 1), k)
             /\ Ahead(Ahead(idx, 1), k) \in called
      BY <1>4, <3>1, FirstFromIs
    <3>. QED
      BY <3>2 DEF NextCalled
  <2>. HIDE DEF next
  <2>2. CASE StageOf(next) = StageOf(idx) /\ EnterGreen(next, 0) /\ UNCHANGED target
    BY <2>1, <2>2 DEF EnterGreen
  <2>3. CASE EnterClearance /\ target' = next
    BY <1>1, <2>1, <2>3 DEF EnterClearance
  <2>. QED
    BY <1>4, <2>2, <2>3 DEF Terminate, next
<1>. QED
  BY <1>3, <1>4 DEF UpdateGreen

(* A clearance goes on, from phase to phase, until it ends with a green. *)
LEMMA ClearanceStep ==
    ASSUME TypeOK, idx \in Clearances, UpdateClearance
    PROVE  \E k \in 0..N :
              /\ \A j \in 0..k - 1 : Ahead(idx, j) \notin Greens
              /\ elapsed + Dt >= Spent(idx, k)
              /\ elapsed' = (elapsed + Dt) - Spent(idx, k) /\ elapsed' \in Nat
              /\ gap' \in 0..Extension /\ sinceCall' \in 0..MaxGreen
              /\ target' \in Greens \cup {None}
              /\ \/ /\ Ahead(idx, k) \in Greens /\ idx' \in Greens
                    /\ target # None => idx' = target
                    /\ target' = None /\ sinceCall' = 0
                 \/ /\ Ahead(idx, k) \in Clearances /\ idx' = Ahead(idx, k)
                    /\ elapsed' < Plan[idx'].duration
                    /\ target' = target
<1>. USE PlanFacts, AdaptiveFacts
<1>1. /\ idx \in Phases /\ elapsed \in Nat /\ gap \in 0..Extension
      /\ sinceCall \in 0..MaxGreen /\ target \in Greens \cup {None}
  BY DEF TypeOK
<1>. DEFINE time == elapsed + Dt
            k    == UsedUp(time)
<1>2. time \in Nat
  BY <1>1
<1>3. /\ k \in 0..N /\ time >= Spent(idx, k)
      /\ \/ Ahead(idx, k) \in Greens
         \/ time < Spent(idx, k) + Plan[Ahead(idx, k)].duration
      /\ \A j \in 0..k - 1 : Ahead(idx, j) \notin Greens
  BY <1>2, UsedUpIs
<1>4. IF Ahead(idx, k) \in Greens
      THEN /\ EnterGreen(IF target = None THEN Ahead(idx, k) ELSE target,
                         time - Spent(idx, k))
           /\ target' = None
      ELSE /\ idx' = Ahead(idx, k)
           /\ elapsed' = time - Spent(idx, k)
           /\ UNCHANGED <<gap, sinceCall, target>>
  BY DEF UpdateClearance
<1>. HIDE DEF k
<1>5. Spent(idx, k) \in Nat /\ Ahead(idx, k) \in Phases
  BY <1>1, <1>3, SpentIs, AheadIs
<1>6. Plan[Ahead(idx, k)].duration \in Nat
  BY <1>5 DEF Phases
<1>7. CASE Ahead(idx, k) \in Greens
  BY <1>1, <1>3, <1>4, <1>5, <1>7 DEF EnterGreen
<1>8. CASE Ahead(idx, k) \notin Greens
  <2>1. /\ idx' = Ahead(idx, k) /\ elapsed' = time - Spent(idx, k)
        /\ UNCHANGED <<gap, sinceCall, target>>
    BY <1>4, <1>8
  <2>2. elapsed' \in Nat /\ elapsed' < Plan[idx'].duration
    BY <1>1, <1>3, <1>5, <1>6, <1>8, <2>1
  <2>. QED
    BY <1>1, <1>3, <1>5, <1>8, <2>1, <2>2
<1>. QED
  BY <1>7, <1>8

(***************************************************************************)
(* The invariant.                                                          *)
(***************************************************************************)

LEMMA InitInv == Init => Inv
<1>. SUFFICES ASSUME Init PROVE Inv
  OBVIOUS
<1>. USE PlanFacts, AdaptiveFacts
<1>1. TypeOK
  BY DEF Init, TypeOK, Phases, None
<1>2. TimeInv
  BY DEF Init, TimeInv, Clearances, Phases
<1>. QED
  BY <1>1, <1>2 DEF Inv, Init, ClearInv, ClearanceServed

(* The history variables keep their types. *)
LEMMA ObserveType ==
    ASSUME TypeOK, NEW called \in SUBSET Greens, Observe(called)
    PROVE  /\ lastGreen' \in Greens \cup {None} /\ cleared' \in Nat
           /\ watched' \in Greens /\ waited' \in Nat
BY PlanFacts DEF TypeOK, Observe

LEMMA StepInv == Inv /\ [Next]_vars => Inv'
<1>. SUFFICES ASSUME Inv, [Next]_vars PROVE Inv'
  OBVIOUS
<1>. USE PlanFacts, AdaptiveFacts
<1>1. TypeOK /\ TimeInv /\ ClearInv /\ ClearanceServed
  BY DEF Inv
<1>2. /\ idx \in Phases /\ elapsed \in Nat /\ cleared \in Nat
      /\ lastGreen \in Greens \cup {None} /\ target \in Greens \cup {None}
  BY <1>1 DEF TypeOK
<1>3. CASE UNCHANGED vars
  BY <1>1, <1>3 DEF Inv, TypeOK, TimeInv, ClearInv, ClearanceServed, vars,
                    timers, history
<1>4. CASE Tick
  <2>1. PICK called \in SUBSET Greens :
           /\ Observe(called)
           /\ \/ idx \in Greens /\ \E p \in BOOLEAN : UpdateGreen(called, p)
              \/ idx \notin Greens /\ UpdateClearance
    BY <1>4, TickCases
  <2>2. /\ lastGreen' \in Greens \cup {None} /\ cleared' \in Nat
        /\ watched' \in Greens /\ waited' \in Nat
    BY <1>1, <2>1, ObserveType
  <2>3. CASE idx \in Greens /\ \E p \in BOOLEAN : UpdateGreen(called, p)
    <3>1. /\ elapsed' \in Nat /\ gap' \in 0..Extension
          /\ sinceCall' \in 0..MaxGreen
          /\ \/ idx' = idx /\ target' = target
             \/ idx' \in Greens /\ target' = target
             \/ idx' = ClearanceOf(idx) /\ elapsed' = 0 /\ target' \in Greens
      BY <1>1, <2>3, GreenStep
    <3>2. ClearanceOf(idx) \in Clearances
      BY <2>3, ClearanceIs
    <3>3. idx \notin Clearances
      BY <2>3 DEF Clearances
    <3>4. CASE idx' \in Greens
      <4>1. idx' \notin Clearances /\ idx' \in Phases
        BY <3>4 DEF Clearances
      <4>2. lastGreen' = lastGreen /\ cleared' = cleared
        BY <2>1, <3>3, <4>1 DEF Observe
      <4>3. TypeOK'
        BY <1>2, <2>2, <3>1, <4>1, <3>2, <3>4 DEF TypeOK, Clearances
      <4>4. ClearanceServed'
        BY <1>1, <2>3, <4>2 DEF ClearanceServed
      <4>. QED
        BY <4>1, <4>3, <4>4 DEF Inv, TimeInv, ClearInv
    <3>5. CASE idx' \notin Greens
      <4>1. /\ idx' = ClearanceOf(idx) /\ elapsed' = 0 /\ target' \in Greens
            /\ idx' \in Clearances /\ idx' \in Phases
        BY <2>3, <3>1, <3>2, <3>5
      <4>2. lastGreen' = idx /\ cleared' = 0
        BY <2>1, <2>3, <3>3, <4>1 DEF Observe
      <4>3. TypeOK'
        BY <2>2, <3>1, <4>1 DEF TypeOK
      <4>4. TimeInv'
        BY <4>1 DEF TimeInv, Phases
      <4>5. ClearInv'
        <5>1. 0 \in 0..ClearanceLength(idx) - 1
          BY <2>3, ClearanceIs
        <5>2. Ahead(idx', 0) = idx' /\ Spent(idx', 0) = 0
          BY <4>1, AheadZero, SpentParts
        <5>. QED
          BY <4>1, <4>2, <5>1, <5>2 DEF ClearInv
      <4>. QED
        BY <3>5, <4>3, <4>4, <4>5 DEF Inv, ClearanceServed
    <3>. QED
      BY <3>4, <3>5
  <2>4. CASE idx \notin Greens /\ UpdateClearance
    <3>1. idx \in Clearances
      BY <1>2, <2>4
    <3>2. PICK k \in 0..N :
             /\ \A j \in 0..k - 1 : Ahead(idx, j) \notin Greens
             /\ elapsed + Dt >= Spent(idx, k)
             /\ elapsed' = (elapsed + Dt) - Spent(idx, k) /\ elapsed' \in Nat
             /\ gap' \in 0..Extension /\ sinceCall' \in 0..MaxGreen
             /\ target' \in Greens \cup {None}
             /\ \/ Ahead(idx, k) \in Greens /\ idx' \in Greens
                \/ /\ Ahead(idx, k) \in Clearances /\ idx' = Ahead(idx, k)
                   /\ elapsed' < Plan[idx'].duration
      BY <1>1, <2>4, <3>1, ClearanceStep
    <3>3. lastGreen' = lastGreen /\ cleared' = cleared + Dt
      BY <2>1, <2>4, <3>1 DEF Observe
    <3>4. Spent(idx, k) \in Nat
      BY <1>2, SpentIs
    <3>5. TypeOK'
      BY <2>2, <3>2 DEF TypeOK
    <3>6. TimeInv'
      <4>1. idx' \in Clearances => elapsed' < Plan[idx'].duration
        BY <3>2 DEF Clearances
      <4>2. idx' \in Clearances => Plan[idx'].duration \in Nat
        BY DEF Phases
      <4>. QED
        BY <3>2, <4>1, <4>2 DEF TimeInv
    <3>7. ClearInv' /\ ClearanceServed'
      <4>. SUFFICES ASSUME lastGreen \in Greens
                   PROVE  ClearInv' /\ ClearanceServed'
        BY <1>2, <3>3 DEF ClearInv, ClearanceServed
      <4>. DEFINE c == ClearanceOf(lastGreen)
                  L == ClearanceLength(lastGreen)
      <4>1. PICK m \in 0..L - 1 :
               idx = Ahead(c, m) /\ cleared = Spent(c, m) + elapsed
        BY <1>1, <3>1 DEF ClearInv
      <4>2. /\ Ahead(c, m + k) = Ahead(idx, k)
            /\ Spent(c, m + k) = Spent(c, m) + Spent(idx, k)
            /\ Ahead(idx, k) \in Clearances => m + k \in 0..L - 1
            /\ Ahead(idx, k) \in Greens => m + k = L
        BY <3>2, <4>1, ClearingOn
      <4>3. Spent(c, m) \in Nat
        <5>1. c \in Phases /\ L \in 1..N - 1
          BY ClearanceIs
        <5>2. m \in 0..N
          BY <5>1
        <5>. QED
          BY <5>1, <5>2, SpentIs
      <4>4. CASE Ahead(idx, k) \in Greens /\ idx' \in Greens
        <5>1. idx' \notin Clearances
          BY <4>4 DEF Clearances
        <5>2. ClearTime(lastGreen) = Spent(c, m) + Spent(idx, k)
          BY <4>2, <4>4 DEF ClearTime
        <5>3. cleared + Dt >= ClearTime(lastGreen)
          BY <1>2, <3>2, <3>4, <4>1, <4>3, <5>2
        <5>4. ClearTime(lastGreen)' = ClearTime(lastGreen)
          BY <3>3
        <5>. QED
          BY <3>3, <5>1, <5>3, <5>4 DEF ClearInv, ClearanceServed
      <4>5. CASE /\ Ahead(idx, k) \in Clearances /\ idx' = Ahead(idx, k)
                 /\ elapsed' < Plan[idx'].duration
        <5>1. idx' \notin Greens
          BY <4>5 DEF Clearances
        <5>2. m + k \in 0..L - 1 /\ idx' = Ahead(c, m + k)
          BY <4>2, <4>5
        <5>3. cleared' = Spent(c, m + k) + elapsed'
          BY <1>2, <3>2, <3>3, <3>4, <4>1, <4>2, <4>3
        <5>. QED
          BY <3>3, <5>1, <5>2, <5>3 DEF ClearInv, ClearanceServed
      <4>. QED
        BY <3>2, <4>4, <4>5
    <3>. QED
      BY <3>5, <3>6, <3>7 DEF Inv
  <2>. QED
    BY <2>1, <2>3, <2>4
<1>. QED
  BY <1>3, <1>4 DEF Next

(* In every run the adaptive signal's phase, timers and target are what    *)
(* AdaptiveSignalController expects them to be: it always shows a phase of *)
(* its plan and hands a clearance over to a green.                         *)
THEOREM TypeCorrect == Spec => []TypeOK
<1>1. Inv => TypeOK
  BY DEF Inv
<1>. QED
  BY InitInv, StepInv, <1>1, PTL DEF Spec

(* No green follows another one's end before that one's clearance has been *)
(* shown in full, for every plan, time step and traffic.                   *)
THEOREM ClearancesServed == Spec => []ClearanceServed
<1>1. Inv => ClearanceServed
  BY DEF Inv
<1>. QED
  BY InitInv, StepInv, <1>1, PTL DEF Spec

(***************************************************************************)
(* The heads.                                                              *)
(***************************************************************************)

LEMMA SafeStep ==
    ASSUME SafeOrder, Inv, Next, NEW a \in Approaches
    PROVE  SafeForApproach(idx, idx', a)
<1>. USE PlanFacts, AdaptiveFacts
<1>1. TypeOK /\ TimeInv /\ idx \in Phases /\ elapsed \in Nat
  BY DEF Inv, TypeOK
<1>2. PICK called \in SUBSET Greens :
         \/ idx \in Greens /\ \E p \in BOOLEAN : UpdateGreen(called, p)
         \/ idx \notin Greens /\ UpdateClearance
  BY TickCases DEF Next
<1>3. CASE idx \in Greens /\ \E p \in BOOLEAN : UpdateGreen(called, p)
  <2>1. \/ idx' = idx
        \/ idx' \in Greens /\ StageOf(idx') = StageOf(idx)
        \/ idx' = ClearanceOf(idx)
    BY <1>1, <1>3, GreenStep
  <2>2. CASE idx' \in Greens /\ StageOf(idx') = StageOf(idx)
    <3>1. StageStarts # {} /\ idx' \in Phases
      BY <2>2 DEF Accepted
    <3>2. /\ StageOf(idx) \in StageStarts /\ idx \in Span(StageOf(idx))
          /\ StageOf(idx') \in StageStarts /\ idx' \in Span(StageOf(idx'))
      BY <1>1, <3>1, StageIs
    <3>3. Plan[idx].directions = Plan[idx'].directions
      BY <1>3, <2>2, <3>2 DEF Accepted
    <3>4. Plan[idx].color = "green" /\ Plan[idx'].color = "green"
      BY <1>3, <2>2 DEF Greens
    <3>. QED
      BY <3>3, <3>4 DEF SafeForApproach, ApproachShows
  <2>3. CASE idx' = idx
    BY <1>3, <2>3 DEF SafeForApproach, ApproachShows, Greens
  <2>4. CASE idx' = ClearanceOf(idx)
    BY <1>3, <2>4, SafeToClearance
  <2>. QED
    BY <2>1, <2>2, <2>3, <2>4
<1>4. CASE idx \notin Greens /\ UpdateClearance
  <2>1. idx \in Clearances /\ elapsed =< Plan[idx].duration
    BY <1>1, <1>4 DEF TimeInv
  <2>2. PICK k \in 0..N :
           /\ elapsed + Dt >= Spent(idx, k)
           /\ \/ Ahead(idx, k) \in Greens /\ idx' \in Greens
              \/ Ahead(idx, k) \in Clearances /\ idx' = Ahead(idx, k)
    BY <1>1, <1>4, <2>1, ClearanceStep
  <2>3. CASE idx' \in Greens
    BY <1>1, <1>4, <2>3, SafeToGreen
  <2>4. CASE idx' = Ahead(idx, k)
    <3>1. CASE k = 0
      <4>1. idx' = idx
        BY <1>1, <2>4, <3>1, AheadZero
      <4>. QED
        BY <4>1 DEF SafeForApproach, ApproachShows
    <3>2. CASE k # 0
      <4>1. k \in 1..N
        BY <3>2
      <4>2. \A j \in 1..k - 1 : Plan[Ahead(idx, j)].color = "red"
        BY <1>1, <2>1, <2>2, <4>1, OnlyReds
      <4>. QED
        BY <1>1, <2>4, <4>1, <4>2, SafePassing
    <3>. QED
      BY <3>1, <3>2
  <2>. QED
    BY <2>2, <2>3, <2>4
<1>. QED
  BY <1>2, <1>3, <1>4

(* A plan whose own order changes every head safely is shown safely by the *)
(* adaptive signal too, which skips stages, ends greens early and carries  *)
(* time over: no approach loses its green without a yellow or gets a yellow*)
(* out of a red, and the head of a lane goes from green to red only while  *)
(* other lanes of its approach go on with a green (K18).                   *)
THEOREM HeadsAreSafe == SafeOrder => (Spec => HeadsChangeSafely)
<1>. SUFFICES ASSUME SafeOrder PROVE Spec => HeadsChangeSafely
  OBVIOUS
<1>1. Inv /\ Inv' /\ [Next]_vars => [SafeChange(idx, idx')]_vars
  <2>. SUFFICES ASSUME Inv, Inv', Next PROVE SafeChange(idx, idx')
    OBVIOUS
  <2>1. idx \in Phases /\ idx' \in Phases
    BY DEF Inv, TypeOK, Phases, N
  <2>2. \A a \in Approaches : SafeForApproach(idx, idx', a)
    BY SafeStep
  <2>. QED
    BY <2>1, <2>2, LanesFollow
<1>. QED
  BY InitInv, StepInv, <1>1, PTL DEF Spec, HeadsChangeSafely

(***************************************************************************)
(* How long a call waits: whole time steps and allowances.                 *)
(***************************************************************************)

(* A time rounded up is a number of time steps, at most one longer.  *)
LEMMA WholeIs ==
    ASSUME NEW time \in Nat
    PROVE  /\ Whole(time) \in time..time + Dt
           /\ \E q \in Nat : Whole(time) = Dt * q
<1>. DEFINE x == time + Dt - 1
            q == x \div Dt
            r == x % Dt
<1>1. Dt \in Nat \ {0} /\ x \in Nat
  BY PlanFacts
<1>2. r \in 0..Dt - 1 /\ q \in Nat
  <2>. HIDE DEF x
  <2>. QED
    BY <1>1
<1>3. r = x - Dt * q
  <2>. HIDE DEF x
  <2>. QED
    BY <1>1, DivMod
<1>4. Whole(time) = Dt * q
  <2>1. Whole(time) = q * Dt
    BY DEF Whole
  <2>. HIDE DEF q
  <2>. QED
    BY <1>1, <1>2, <2>1
<1>5. Dt * q \in Nat
  <2>. HIDE DEF q
  <2>. QED
    BY <1>1, <1>2
<1>6. Dt * q >= time /\ Dt * q =< time + Dt
  <2>. DEFINE y == Dt * q
  <2>1. r = x - y /\ y \in Nat
    BY <1>3, <1>5
  <2>. HIDE DEF y, r, q
  <2>2. y >= time /\ y =< time + Dt
    BY <1>1, <1>2, <2>1
  <2>. QED
    BY <2>2 DEF y
<1>. HIDE DEF q, r, x
<1>. QED
  BY <1>2, <1>4, <1>5, <1>6

(* Time steps that do not make up a time yet, and one more, are no more    *)
(* than the time rounded up.                                               *)
LEMMA OneMoreStep ==
    ASSUME NEW time \in Nat, NEW q \in Nat, Dt * q < time
    PROVE  Dt * q + Dt =< Whole(time)
<1>1. PICK k \in Nat : Whole(time) = Dt * k /\ Whole(time) >= time
  BY WholeIs
<1>2. Dt \in Nat \ {0} /\ Dt * q \in Nat /\ Dt * k \in Nat
  BY PlanFacts
<1>3. q < k
  <2>. SUFFICES ASSUME k =< q PROVE FALSE
    OBVIOUS
  <2>1. Dt * k =< Dt * q
    BY <1>2
  <2>. QED
    BY <1>1, <1>2, <2>1
<1>4. Dt * (q + 1) =< Dt * k
  BY <1>2, <1>3
<1>5. Dt * (q + 1) = Dt * q + Dt
  BY <1>2
<1>. QED
  BY <1>1, <1>4, <1>5

(***************************************************************************)
(* The allowances.                                                         *)
(***************************************************************************)

LEMMA ClearTimeIs ==
    ASSUME NEW g \in Greens
    PROVE  ClearTime(g) \in Nat
<1>. USE PlanFacts, AdaptiveFacts
<1>1. ClearanceOf(g) \in Phases /\ ClearanceLength(g) \in 0..N
  BY ClearanceIs
<1>. QED
  BY <1>1, SpentIs DEF ClearTime

LEMMA AllowanceIs ==
    ASSUME NEW i \in Phases
    PROVE  /\ Allowance(i) \in Nat
           /\ i \in Greens => Allowance(i) = Whole(MaxGreen)
<1>. USE PlanFacts, AdaptiveFacts
<1>1. Whole(MaxGreen) \in Nat
  BY WholeIs
<1>2. ASSUME NEW g \in Greens PROVE Whole(ClearTime(g)) \in Nat
  BY ClearTimeIs, WholeIs
<1>. QED
  BY <1>1, <1>2 DEF Allowance

LEMMA AllowedAdd ==
    /\ Allowed[0] = 0
    /\ \A i \in 0..N : Allowed[i] \in Nat
    /\ \A i \in 1..N : Allowed[i] = Allowed[i - 1] + Allowance(i)
    /\ \A i, j \in 0..N : i =< j => Allowed[i] =< Allowed[j]
<1>. USE PlanFacts
<1>. DEFINE d == [i \in 1..N |-> Allowance(i)]
            Sums(f) == [i \in 0..N |-> IF i = 0 THEN 0
                                      ELSE f[i - 1] + Allowance(i)]
<1>1. d \in [1..N -> Nat]
  BY AllowanceIs DEF Phases
<1>2. PICK f : f = [i \in 0..N |-> IF i = 0 THEN 0 ELSE f[i - 1] + d[i]]
  BY <1>1, SumsExist
<1>3. f = Sums(f)
  <2>1. Sums(f) = [i \in 0..N |-> IF i = 0 THEN 0 ELSE f[i - 1] + d[i]]
    OBVIOUS
  <2>. QED
    BY <1>2, <2>1
<1>4. Allowed = Sums(Allowed)
  BY <1>3 DEF Allowed
<1>5. /\ Allowed[0] = 0
      /\ \A i \in 1..N : Allowed[i] = Allowed[i - 1] + Allowance(i)
  BY <1>4
<1>6. Adds(Allowed, d, N)
  BY <1>5 DEF Adds
<1>. QED
  BY <1>1, <1>5, <1>6, SumsGrow

(* The allowances of the phases after w and before i, and so of the whole  *)
(* cycle but w itself when i is w.                                         *)
Behind(w, i) == ((IF i > w THEN 0 ELSE Allowed[N]) + Allowed[i - 1]) - Allowed[w]

LEMMA BehindIs ==
    ASSUME NEW w \in Phases, NEW i \in Phases PROVE Behind(w, i) \in Nat
<1>. USE PlanFacts
<1>1. w \in 0..N /\ i - 1 \in 0..N /\ N \in 0..N /\ i \in Int
  BY DEF Phases
<1>2. /\ Allowed[w] \in Nat /\ Allowed[i - 1] \in Nat /\ Allowed[N] \in Nat
      /\ Allowed[w] =< Allowed[N]
      /\ i > w => Allowed[w] =< Allowed[i - 1]
  BY <1>1, AllowedAdd
<1>. QED
  BY <1>1, <1>2 DEF Behind

(* From one phase to the next it grows by the first one's allowance. *)
LEMMA BehindNext ==
    ASSUME NEW w \in Phases, NEW p \in 1..N - 1
    PROVE  Behind(w, Ahead(w, p + 1)) = Behind(w, Ahead(w, p)) + Allowance(Ahead(w, p))
<1>. USE PlanFacts
<1>. DEFINE i == Ahead(w, p)
            j == Ahead(w, p + 1)
<1>1. /\ i = IF w + p =< N THEN w + p ELSE w + p - N
      /\ j = IF w + (p + 1) =< N THEN w + (p + 1) ELSE w + (p + 1) - N
      /\ i \in Phases /\ j \in Phases
  BY AheadIs
<1>. HIDE DEF i, j
<1>2. w \in 1..N /\ i \in 1..N /\ j \in 1..N
  BY <1>1 DEF Phases
<1>3. /\ Allowed[i] = Allowed[i - 1] + Allowance(i) /\ Allowance(i) \in Nat
      /\ Allowed[w] \in Nat /\ Allowed[i - 1] \in Nat /\ Allowed[N] \in Nat
      /\ Allowed[0] = 0 /\ Allowed[i] \in Nat
  <2>1. w \in 0..N /\ i - 1 \in 0..N /\ N \in 0..N /\ i \in 0..N
    BY <1>2
  <2>. QED
    BY <1>1, <1>2, <2>1, AllowedAdd, AllowanceIs
<1>4. CASE j = i + 1
  <2>1. (j > w) = (i > w)
    BY <1>1, <1>2, <1>4
  <2>2. Behind(w, j) = ((IF i > w THEN 0 ELSE Allowed[N]) + Allowed[i]) - Allowed[w]
    BY <1>2, <1>4, <2>1 DEF Behind
  <2>. QED
    BY <1>3, <2>2 DEF Behind, i, j
<1>5. CASE j # i + 1
  <2>1. i = N /\ j = 1 /\ i > w /\ ~(j > w)
    BY <1>1, <1>2, <1>5
  <2>2. Behind(w, j) = (Allowed[N] + Allowed[0]) - Allowed[w]
    BY <2>1 DEF Behind
  <2>3. Behind(w, i) = (0 + Allowed[i - 1]) - Allowed[w]
    BY <2>1 DEF Behind
  <2>. QED
    BY <1>3, <2>1, <2>2, <2>3 DEF i, j
<1>. QED
  BY <1>4, <1>5

(* And from any phase to any later one, the one waited for the last, by no *)
(* less than the allowance of every phase before that.                     *)
LEMMA BehindGrows ==
    ASSUME NEW w \in Phases, NEW p \in 1..N, NEW q \in 1..N, p < q
    PROVE  Behind(w, Ahead(w, q)) >= Behind(w, Ahead(w, p)) + Allowance(Ahead(w, p))
<1>. USE PlanFacts
<1>. DEFINE B(n) == Behind(w, Ahead(w, n))
            A(n) == Allowance(Ahead(w, n))
            S == {n \in Nat : p + 1 + n =< N => B(p + 1 + n) >= B(p) + A(p)}
<1>1. ASSUME NEW n \in 1..N PROVE B(n) \in Nat /\ A(n) \in Nat
  <2>1. Ahead(w, n) \in Phases
    BY AheadIs
  <2>. QED
    BY <2>1, BehindIs, AllowanceIs
<1>2. ASSUME NEW n \in 1..N - 1 PROVE B(n + 1) = B(n) + A(n)
  BY BehindNext
<1>. HIDE DEF B, A
<1>3. 0 \in S
  <2>1. p \in 1..N - 1 /\ p + 1 + 0 = p + 1 /\ p + 1 \in 1..N
    OBVIOUS
  <2>2. B(p + 1) = B(p) + A(p)
    BY <1>2, <2>1
  <2>. QED
    BY <1>1, <2>1, <2>2
<1>4. ASSUME NEW n \in Nat, n \in S PROVE n + 1 \in S
  <2>. SUFFICES ASSUME p + 1 + (n + 1) =< N PROVE B(p + 1 + (n + 1)) >= B(p) + A(p)
    OBVIOUS
  <2>. DEFINE m == p + 1 + n
  <2>1. m \in 1..N - 1 /\ m \in 1..N /\ m =< N /\ p + 1 + (n + 1) = m + 1
    OBVIOUS
  <2>2. B(m) >= B(p) + A(p)
    BY <1>4, <2>1
  <2>. HIDE DEF m
  <2>3. B(m + 1) = B(m) + A(m)
    BY <1>2, <2>1
  <2>. QED
    BY <1>1, <2>1, <2>2, <2>3
<1>5. Nat \subseteq S
  <2>. HIDE DEF S
  <2>. QED
    BY <1>3, <1>4, NatInd
<1>6. q - (p + 1) \in Nat /\ p + 1 + (q - (p + 1)) = q
  OBVIOUS
<1>7. q - (p + 1) \in S
  BY <1>5, <1>6
<1>8. B(q) >= B(p) + A(p)
  BY <1>6, <1>7
<1>. QED
  BY <1>8 DEF B, A

(* A cycle leaves out nothing but the phase waited for, and WaitLimit adds *)
(* the longest clearance to it.                                            *)
LEMMA WaitLimitIs ==
    ASSUME NEW w \in Greens PROVE WaitLimit = Behind(w, w) + LongestClearance
<1>. USE PlanFacts, AdaptiveFacts
<1>1. w \in 1..N /\ w \in Phases
  BY DEF Phases
<1>2. Allowed[w] = Allowed[w - 1] + Allowance(w)
  BY <1>1, AllowedAdd
<1>3. Allowance(w) = Whole(MaxGreen) /\ Allowance(w) \in Nat
  BY <1>1, AllowanceIs
<1>4. Allowed[w] \in Nat /\ Allowed[w - 1] \in Nat /\ Allowed[N] \in Nat
  <2>1. w \in 0..N /\ w - 1 \in 0..N /\ N \in 0..N
    BY <1>1
  <2>. QED
    BY <2>1, AllowedAdd
<1>5. Behind(w, w) = (Allowed[N] + Allowed[w - 1]) - Allowed[w]
  BY <1>1 DEF Behind
<1>6. Behind(w, w) = Allowed[N] - Whole(MaxGreen)
  BY <1>2, <1>3, <1>4, <1>5
<1>. QED
  BY <1>6 DEF WaitLimit

(* The greatest of some natural numbers with a bound. *)
LEMMA MaxNat ==
    ASSUME NEW S \in SUBSET Nat, S # {}, NEW b \in Nat, \A x \in S : x =< b
    PROVE  Max(S) \in S /\ \A x \in S : x =< Max(S)
<1>. DEFINE T == {n \in Nat : \A x \in S : x =< n}
            m == Min(T)
<1>1. m \in T /\ \A n \in T : m =< n
  <2>1. T # {} /\ T \in SUBSET Nat
    OBVIOUS
  <2>. HIDE DEF T
  <2>. QED
    BY <2>1, MinNat
<1>. HIDE DEF m
<1>2. m \in Nat /\ \A x \in S : x =< m
  BY <1>1
<1>3. m \in S
  <2>. SUFFICES ASSUME m \notin S PROVE FALSE
    OBVIOUS
  <2>1. \A x \in S : x =< m - 1
    BY <1>2
  <2>2. m - 1 \in Nat
    <3>1. PICK x \in S : x \in Nat
      OBVIOUS
    <3>2. x =< m - 1
      BY <2>1
    <3>. QED
      BY <1>2, <3>1, <3>2
  <2>3. m - 1 \in T
    BY <2>1, <2>2
  <2>. QED
    BY <1>1, <1>2, <2>2, <2>3
<1>4. \E x \in S : \A y \in S : x >= y
  BY <1>2, <1>3
<1>. QED
  BY <1>4 DEF Max

LEMMA LongestClearanceIs ==
    /\ LongestClearance \in Nat
    /\ \A g \in Greens : Whole(ClearTime(g)) =< LongestClearance
<1>. USE PlanFacts, AdaptiveFacts
<1>. DEFINE S == {Whole(ClearTime(g)) : g \in Greens}
<1>1. ASSUME NEW g \in Greens
      PROVE  Whole(ClearTime(g)) \in Nat /\ Whole(ClearTime(g)) =< PlanTime + Dt
  <2>1. ClearTime(g) \in Nat /\ PlanTime \in Nat /\ ClearTime(g) =< PlanTime
    <3>1. ClearanceOf(g) \in Phases /\ ClearanceLength(g) \in 0..N /\ N \in 0..N
      BY ClearanceIs
    <3>2. Spent(ClearanceOf(g), ClearanceLength(g)) =< Spent(ClearanceOf(g), N)
      BY <3>1, SpentGrows
    <3>. QED
      BY <3>1, <3>2, SpentIs, SpentParts DEF ClearTime
  <2>. QED
    BY <2>1, WholeIs
<1>2. S \in SUBSET Nat /\ S # {} /\ \A x \in S : x =< PlanTime + Dt
  BY <1>1
<1>3. PlanTime + Dt \in Nat
  BY EndsAdd DEF PlanTime
<1>4. Max(S) \in S /\ \A x \in S : x =< Max(S)
  <2>. HIDE DEF S
  <2>. QED
    BY <1>2, <1>3, MaxNat
<1>. QED
  BY <1>2, <1>4 DEF LongestClearance

(***************************************************************************)
(* The green that follows.                                                 *)
(***************************************************************************)

(* While w calls, what follows the current green is no later than w: where *)
(* they are, counted from w.                                               *)
LEMMA CalledAhead ==
    ASSUME NEW w \in Greens, idx \in Greens, idx # w,
           NEW called \in SUBSET Greens, w \in called
    PROVE  \E p \in 1..N - 1, q \in 1..N :
              /\ p < q /\ idx = Ahead(w, p) /\ NextCalled(called) = Ahead(w, q)
              /\ NextCalled(called) \in called
<1>. USE PlanFacts, AdaptiveFacts
<1>1. w \in Phases /\ idx \in Phases /\ called \in SUBSET Phases /\ called # {}
  OBVIOUS
<1>2. PICK p \in 0..N - 1 : Ahead(w, p) = idx
  BY <1>1, SomeAhead
<1>3. p # 0
  BY <1>1, <1>2, AheadZero
<1>. DEFINE i == Ahead(idx, 1)
<1>4. i \in Phases
  BY <1>1, AheadIs
<1>5. PICK k \in 0..N - 1 :
         /\ NextCalled(called) = Ahead(i, k) /\ Ahead(i, k) \in called
         /\ \A j \in 0..k - 1 : Ahead(i, j) \notin called
  BY <1>1, <1>4, FirstFromIs DEF NextCalled
<1>6. Ahead(i, (N - p) - 1) = w
  <2>1. 1 \in Nat /\ (N - p) - 1 \in Nat /\ 1 + ((N - p) - 1) = N - p /\ N - p =< N
        /\ p \in Nat /\ N - p \in Nat /\ p + (N - p) = N
    BY <1>2, <1>3
  <2>2. Ahead(idx, N - p) = Ahead(w, N)
    BY <1>1, <1>2, <2>1, AheadAhead
  <2>3. Ahead(i, (N - p) - 1) = Ahead(idx, N - p)
    BY <1>1, <2>1, AheadAhead
  <2>. QED
    BY <1>1, <2>2, <2>3, AheadZero
<1>7. k =< (N - p) - 1
  <2>1. (N - p) - 1 \in Nat
    BY <1>2
  <2>. QED
    BY <1>5, <1>6, <2>1
<1>8. Ahead(i, k) = Ahead(w, p + (1 + k))
  <2>1. 1 \in Nat /\ k \in Nat /\ p \in Nat /\ 1 + k \in Nat /\ 1 + k =< N
        /\ p + (1 + k) =< N
    BY <1>2, <1>7
  <2>2. Ahead(i, k) = Ahead(idx, 1 + k)
    BY <1>1, <2>1, AheadAhead
  <2>. QED
    BY <1>1, <1>2, <2>1, <2>2, AheadAhead
<1>9. p \in 1..N - 1 /\ p + (1 + k) \in 1..N /\ p < p + (1 + k)
  BY <1>2, <1>3, <1>5, <1>7
<1>. QED
  BY <1>2, <1>5, <1>8, <1>9

(* The greens of a stage without a break, if they are cut by the end of the*)
(* plan, are those up to its end and those from its start.                 *)
LEMMA CutStage ==
    ASSUME NEW i \in Greens, NEW m \in 0..N - 1,
           \A j \in 0..m : Ahead(i, j) \in Greens, Ahead(i, m) < i
    PROVE  1..Ahead(i, m) \cup i..N \subseteq Greens
<1>. USE PlanFacts
<1>1. i \in 1..N /\ i \in Phases
  BY DEF Greens, Phases
<1>2. ASSUME NEW j \in 0..m
      PROVE  Ahead(i, j) = IF i + j =< N THEN i + j ELSE i + j - N
  <2>1. j \in 0..N
    OBVIOUS
  <2>. QED
    BY <1>1, <2>1, AheadIs
<1>. DEFINE t == Ahead(i, m)
<1>3. t = i + m - N /\ i + m > N /\ t \in Int
  <2>1. t = IF i + m =< N THEN i + m ELSE i + m - N
    BY <1>2
  <2>. QED
    BY <1>1, <2>1
<1>. HIDE DEF t
<1>4. ASSUME NEW x \in i..N PROVE x \in Greens
  <2>1. x - i \in 0..m /\ i + (x - i) = x /\ x =< N
    BY <1>1, <1>3
  <2>2. Ahead(i, x - i) = x
    BY <1>2, <2>1
  <2>. QED
    BY <2>1, <2>2
<1>5. ASSUME NEW x \in 1..t PROVE x \in Greens
  <2>. DEFINE j == (x + N) - i
  <2>1. j \in 0..m /\ ~(i + j =< N) /\ i + j - N = x
    BY <1>1, <1>3
  <2>. HIDE DEF j
  <2>2. Ahead(i, j) = x
    BY <1>2, <2>1
  <2>. QED
    BY <2>1, <2>2
<1>. QED
  BY <1>4, <1>5 DEF t

(* A green that is reached through the clearance comes after it, and a wait*)
(* for w has the allowance for both.                                       *)
LEMMA OverClearance ==
    ASSUME CutStagesAlike, idx \in Greens, NEW w \in Phases,
           NEW p \in 1..N - 1, NEW q \in 1..N, p < q, idx = Ahead(w, p),
           NEW t \in Greens, t = Ahead(w, q), ~(Released(t) \subseteq Released(idx)),
           ~(StageOf(t) = StageOf(idx) /\ t > idx)
    PROVE  Behind(w, t) >= (Behind(w, idx) + Whole(MaxGreen)) + Whole(ClearTime(idx))
<1>. USE PlanFacts, AdaptiveFacts
<1>1. idx \in Phases /\ t \in Phases /\ StageStarts # {}
  BY DEF Accepted
<1>2. PICK k \in 1..N - 1 :
         /\ ClearanceOf(idx) = Ahead(idx, k) /\ Ahead(idx, k) \in Clearances
         /\ \A j \in 0..k - 1 :
               Ahead(idx, j) \in Greens /\ ClearanceOf(Ahead(idx, j)) = ClearanceOf(idx)
  BY SameClearance
<1>3. ASSUME NEW j \in 0..q - p PROVE Ahead(idx, j) = Ahead(w, p + j)
  <2>1. p \in Nat /\ j \in Nat /\ p + j =< N
    OBVIOUS
  <2>. QED
    BY <2>1, AheadAhead
<1>4. q - p \in 0..q - p /\ p + (q - p) = q /\ q - p \in 1..N - 1
  OBVIOUS
<1>5. Ahead(idx, q - p) = t
  BY <1>3, <1>4
<1>6. k < q - p
  <2>. SUFFICES ASSUME q - p =< k PROVE FALSE
    BY <1>4
  <2>1. q - p # k
    BY <1>2, <1>5 DEF Clearances
  <2>2. \A j \in 0..q - p : Ahead(idx, j) \in Greens
    BY <1>2, <1>4, <2>1
  <2>3. StageOf(t) = StageOf(idx)
    BY <1>1, <1>4, <1>5, <2>2, SameStage
  <2>4. t < idx
    BY <1>1, <2>3 DEF Phases
  <2>5. 1..t \cup idx..N \subseteq Greens
    BY <1>4, <1>5, <2>2, <2>4, CutStage
  <2>. QED
    BY <2>4, <2>5 DEF CutStagesAlike
<1>. DEFINE c == Ahead(idx, k)
<1>7. c = Ahead(w, p + k) /\ c \in Phases
  BY <1>2, <1>3, <1>6 DEF Clearances
<1>8. Allowance(c) = Whole(ClearTime(idx))
  <2>1. Ahead(c, N - 1) = Ahead(idx, k - 1)
    BY <1>1, AheadBefore
  <2>. DEFINE b == Ahead(idx, k - 1)
  <2>2. b \in Greens /\ ClearanceOf(b) = ClearanceOf(idx)
    BY <1>2
  <2>. HIDE DEF b
  <2>3. ClearTime(b) = ClearTime(idx)
    BY <2>2 DEF ClearTime, ClearanceLength
  <2>4. c \notin Greens
    BY <1>2 DEF Clearances
  <2>. QED
    BY <2>1, <2>2, <2>3, <2>4 DEF Allowance, b
<1>9. Allowance(idx) = Whole(MaxGreen)
  BY <1>1, AllowanceIs
<1>. HIDE DEF c
<1>10. p + k \in 1..N /\ p < p + k /\ p + k < q /\ p \in 1..N
  BY <1>4, <1>6
<1>11. Behind(w, c) >= Behind(w, idx) + Allowance(idx)
  BY <1>7, <1>10, BehindGrows
<1>12. Behind(w, t) >= Behind(w, c) + Allowance(c)
  BY <1>7, <1>10, BehindGrows
<1>13. /\ Behind(w, t) \in Nat /\ Behind(w, c) \in Nat /\ Behind(w, idx) \in Nat
       /\ Allowance(c) \in Nat /\ Allowance(idx) \in Nat
  BY <1>1, <1>7, BehindIs, AllowanceIs
<1>. QED
  BY <1>8, <1>9, <1>11, <1>12, <1>13

LEMMA BehindMost ==
    ASSUME NEW w \in Phases, NEW i \in Phases
    PROVE  /\ Behind(w, i) =< Behind(w, w)
           /\ i # w => Behind(w, i) + Allowance(i) =< Behind(w, w)
<1>. USE PlanFacts
<1>1. PICK p \in 0..N - 1 : Ahead(w, p) = i
  BY SomeAhead
<1>2. Ahead(w, 0) = w /\ Ahead(w, N) = w
  BY AheadZero
<1>3. /\ Behind(w, i) \in Nat /\ Behind(w, w) \in Nat /\ Allowance(i) \in Nat
  BY BehindIs, AllowanceIs
<1>4. CASE i # w
  <2>1. p \in 1..N /\ N \in 1..N /\ p < N
    BY <1>1, <1>2, <1>4
  <2>2. Behind(w, w) >= Behind(w, i) + Allowance(i)
    BY <1>1, <1>2, <2>1, BehindGrows
  <2>. QED
    BY <1>3, <2>2
<1>. QED
  BY <1>3, <1>4

(***************************************************************************)
(* The invariant.                                                          *)
(***************************************************************************)

InSteps(time) == \E q \in Nat : time = Dt * q

(* In a green: the timer of the maximum runs in time steps and, before the *)
(* minimum, is no longer than the time in the green.                       *)
GreenInv ==
    idx \in Greens =>
        /\ elapsed < MinGreen => sinceCall =< elapsed
        /\ sinceCall < MaxGreen => InSteps(sinceCall)

(* In a clearance: what follows is settled, unless the plan started there, *)
(* and the clearance is m phases in, for less than it takes.               *)
ClearingInv ==
    idx \in Clearances =>
        /\ lastGreen # None => target # None
        /\ InSteps(cleared)
        /\ \E g \in Greens, m \in 0..N :
              /\ m \in 0..ClearanceLength(g) - 1 /\ lastGreen \in {g, None}
              /\ idx = Ahead(ClearanceOf(g), m)
              /\ cleared =< Spent(ClearanceOf(g), m) + elapsed
              /\ cleared = 0 \/ elapsed < Plan[idx].duration

(* In a green the call has waited for the phases behind it, its own time   *)
(* since the first call and perhaps the clearance that it came in. In a    *)
(* clearance it came in that one or what follows is settled for it: it will*)
(* have waited for the phases behind that one.                             *)
WaitInv ==
    waited # 0 =>
        /\ idx # watched
        /\ idx \in Greens =>
              /\ sinceCall < MaxGreen
              /\ waited =< (LongestClearance + Behind(watched, idx)) + sinceCall
        /\ idx \in Clearances =>
              \/ waited =< cleared
              \/ /\ lastGreen # None /\ target # None
                 /\ waited + Whole(ClearTime(lastGreen))
                       =< (LongestClearance + Behind(watched, target)) + cleared

BoundInv == Inv /\ GreenInv /\ ClearingInv /\ WaitInv

LEMMA StepsAdd ==
    /\ InSteps(0)
    /\ \A t \in Nat : InSteps(t) => InSteps(t + Dt)
    /\ \A t, x \in Nat : InSteps(t) /\ t < x => t + Dt =< Whole(x)
<1>. USE PlanFacts
<1>1. InSteps(0)
  <2>1. 0 = Dt * 0
    OBVIOUS
  <2>. QED
    BY <2>1 DEF InSteps
<1>2. ASSUME NEW t \in Nat, InSteps(t) PROVE InSteps(t + Dt)
  <2>1. PICK q \in Nat : t = Dt * q
    BY <1>2 DEF InSteps
  <2>2. t + Dt = Dt * (q + 1) /\ q + 1 \in Nat
    BY <2>1
  <2>. QED
    BY <2>2 DEF InSteps
<1>3. ASSUME NEW t \in Nat, NEW x \in Nat, InSteps(t), t < x
      PROVE  t + Dt =< Whole(x)
  <2>1. PICK q \in Nat : t = Dt * q
    BY <1>3 DEF InSteps
  <2>. QED
    BY <1>3, <2>1, OneMoreStep
<1>. QED
  BY <1>1, <1>2, <1>3

(* A clearance that is still on ends with the next time step, rounded up.  *)
LEMMA ClearedSoFar ==
    ASSUME Inv, ClearingInv, idx \in Clearances
    PROVE  /\ cleared + Dt =< LongestClearance
           /\ lastGreen # None => cleared + Dt =< Whole(ClearTime(lastGreen))
<1>. USE PlanFacts, AdaptiveFacts
<1>1. idx \in Phases /\ cleared \in Nat /\ elapsed \in Nat
  BY DEF Inv, TypeOK
<1>2. InSteps(cleared)
  BY DEF ClearingInv
<1>3. PICK g \in Greens, m \in 0..N :
         /\ m \in 0..ClearanceLength(g) - 1 /\ lastGreen \in {g, None}
         /\ idx = Ahead(ClearanceOf(g), m)
         /\ cleared =< Spent(ClearanceOf(g), m) + elapsed
         /\ cleared = 0 \/ elapsed < Plan[idx].duration
  BY DEF ClearingInv
<1>4. ClearTime(g) \in Nat /\ ClearTime(g) > 0
  BY ClearTimePositive
<1>5. cleared < ClearTime(g)
  <2>1. CASE cleared = 0
    BY <1>4, <2>1
  <2>2. CASE elapsed < Plan[idx].duration
    <3>. DEFINE c == ClearanceOf(g)
                L == ClearanceLength(g)
    <3>1. c \in Phases /\ L \in 1..N - 1
      BY ClearanceIs
    <3>. HIDE DEF c, L
    <3>2. m \in 0..N - 1 /\ m + 1 \in 0..N /\ L \in 0..N /\ m + 1 =< L
      BY <1>3, <3>1 DEF L
    <3>3. /\ Spent(c, m + 1) = Spent(c, m) + Plan[idx].duration
          /\ Spent(c, m + 1) =< Spent(c, L)
          /\ Spent(c, m) \in Nat /\ Spent(c, L) \in Nat
      BY <1>3, <3>1, <3>2, SpentStep, SpentGrows, SpentIs DEF c
    <3>4. Plan[idx].duration \in Nat
      BY <1>1 DEF Phases
    <3>5. ClearTime(g) = Spent(c, L)
      BY DEF ClearTime, c, L
    <3>6. cleared =< Spent(c, m) + elapsed
      BY <1>3 DEF c
    <3>. QED
      BY <1>1, <2>2, <3>3, <3>4, <3>5, <3>6
  <2>. QED
    BY <1>3, <2>1, <2>2
<1>6. cleared + Dt =< Whole(ClearTime(g))
  BY <1>1, <1>2, <1>4, <1>5, StepsAdd
<1>7. /\ Whole(ClearTime(g)) =< LongestClearance /\ LongestClearance \in Nat
      /\ Whole(ClearTime(g)) \in Nat
  BY <1>4, LongestClearanceIs, WholeIs
<1>. QED
  BY <1>1, <1>3, <1>6, <1>7

(* A wait that the invariant allows is within the limit. *)
LEMMA BoundHolds == BoundInv => WaitIsBounded
<1>. SUFFICES ASSUME BoundInv PROVE WaitIsBounded
  OBVIOUS
<1>. USE PlanFacts, AdaptiveFacts
<1>1. /\ Inv /\ ClearingInv /\ WaitInv
      /\ idx \in Phases /\ waited \in Nat /\ watched \in Greens
      /\ sinceCall \in Nat /\ cleared \in Nat /\ lastGreen \in Greens \cup {None}
      /\ target \in Greens \cup {None}
  BY DEF BoundInv, Inv, TypeOK
<1>2. WaitLimit = Behind(watched, watched) + LongestClearance
  BY <1>1, WaitLimitIs
<1>3. Behind(watched, watched) \in Nat /\ LongestClearance \in Nat
  BY <1>1, BehindIs, LongestClearanceIs
<1>4. CASE waited = 0
  BY <1>2, <1>3, <1>4 DEF WaitIsBounded
<1>5. CASE waited # 0 /\ idx \in Greens
  <2>1. /\ idx # watched /\ sinceCall < MaxGreen
        /\ waited =< (LongestClearance + Behind(watched, idx)) + sinceCall
    BY <1>1, <1>5 DEF WaitInv
  <2>2. Behind(watched, idx) + Allowance(idx) =< Behind(watched, watched)
    BY <1>1, <2>1, BehindMost
  <2>3. Allowance(idx) = Whole(MaxGreen)
    BY <1>1, <1>5, AllowanceIs
  <2>4. Whole(MaxGreen) >= MaxGreen /\ Whole(MaxGreen) \in Nat
    BY WholeIs
  <2>5. Behind(watched, idx) \in Nat
    BY <1>1, BehindIs
  <2>. QED
    BY <1>1, <1>2, <1>3, <2>1, <2>2, <2>3, <2>4, <2>5 DEF WaitIsBounded
<1>6. CASE waited # 0 /\ idx \in Clearances
  <2>1. /\ cleared + Dt =< LongestClearance
        /\ lastGreen # None => cleared + Dt =< Whole(ClearTime(lastGreen))
    BY <1>1, <1>6, ClearedSoFar
  <2>2. CASE waited =< cleared
    BY <1>1, <1>2, <1>3, <2>1, <2>2 DEF WaitIsBounded
  <2>3. CASE /\ lastGreen # None /\ target # None
             /\ waited + Whole(ClearTime(lastGreen))
                   =< (LongestClearance + Behind(watched, target)) + cleared
    <3>1. lastGreen \in Greens /\ target \in Phases
      BY <1>1, <2>3
    <3>2. Behind(watched, target) \in Nat /\ Whole(ClearTime(lastGreen)) \in Nat
      BY <1>1, <3>1, BehindIs, ClearTimeIs, WholeIs
    <3>3. Behind(watched, target) =< Behind(watched, watched)
      BY <1>1, <3>1, BehindMost
    <3>. QED
      BY <1>1, <1>2, <1>3, <2>1, <2>3, <3>2, <3>3 DEF WaitIsBounded
  <2>. QED
    BY <1>1, <1>6, <2>2, <2>3 DEF WaitInv
<1>. QED
  BY <1>1, <1>4, <1>5, <1>6

LEMMA BoundInit == Init => BoundInv
<1>. SUFFICES ASSUME Init PROVE BoundInv
  OBVIOUS
<1>. USE PlanFacts, AdaptiveFacts
<1>1. Inv
  BY InitInv
<1>2. /\ idx = 1 /\ elapsed = 0 /\ sinceCall = 0 /\ lastGreen = None
      /\ cleared = 0 /\ waited = 0
  BY DEF Init
<1>3. GreenInv /\ WaitInv
  BY <1>2, StepsAdd DEF GreenInv, WaitInv
<1>4. ClearingInv
  <2>. SUFFICES ASSUME idx \in Clearances PROVE ClearingInv
    BY DEF ClearingInv
  <2>1. PICK g \in Greens, m \in 0..N :
           m \in 0..ClearanceLength(g) - 1 /\ idx = Ahead(ClearanceOf(g), m)
    BY GreenBehind
  <2>2. Spent(ClearanceOf(g), m) \in Nat
    <3>1. ClearanceOf(g) \in Phases
      BY ClearanceIs
    <3>. QED
      BY <3>1, SpentIs
  <2>3. cleared =< Spent(ClearanceOf(g), m) + elapsed
    BY <1>2, <2>2
  <2>. QED
    BY <1>2, <2>1, <2>3, StepsAdd DEF ClearingInv
<1>. QED
  BY <1>1, <1>3, <1>4 DEF BoundInv

LEMMA MinTwo ==
    ASSUME NEW x \in Nat, NEW y \in Nat
    PROVE  Min({x, y}) = IF x =< y THEN x ELSE y
<1>1. Min({x, y}) \in {x, y} /\ \A z \in {x, y} : Min({x, y}) =< z
  <2>1. {x, y} \in SUBSET Nat /\ {x, y} # {}
    OBVIOUS
  <2>. QED
    BY <2>1, MinNat
<1>. QED
  BY <1>1

(* A green tick in full: it stays, as the maximum allows it, or ends. *)
LEMMA GreenTick ==
    ASSUME BoundInv, idx \in Greens, NEW called \in SUBSET Greens,
           NEW passing \in BOOLEAN, UpdateGreen(called, passing)
    PROVE  LET call == IF sinceCall = 0 /\ called = {} THEN 0 ELSE sinceCall + Dt
           IN  \/ /\ idx' = idx
                  /\ elapsed' = IF elapsed + Dt =< MinGreen THEN elapsed + Dt ELSE MinGreen
                  /\ sinceCall' = IF call =< MaxGreen THEN call ELSE MaxGreen
                  /\ called # {} => call < MaxGreen
               \/ /\ called # {} /\ idx' = NextCalled(called)
                  /\ sinceCall' = 0 /\ elapsed' = 0
               \/ /\ called # {} /\ idx' = ClearanceOf(idx)
                  /\ target' = NextCalled(called)
                  /\ ~(StageOf(target') = StageOf(idx) /\ target' > idx)
<1>. USE PlanFacts, AdaptiveFacts
<1>. DEFINE time == elapsed + Dt
            idle == IF passing THEN 0 ELSE gap + Dt
            call == IF sinceCall = 0 /\ called = {} THEN 0 ELSE sinceCall + Dt
<1>1. /\ elapsed \in Nat /\ sinceCall \in Nat
      /\ elapsed < MinGreen => sinceCall =< elapsed
  BY DEF BoundInv, Inv, TypeOK, GreenInv
<1>2. MinGreen < MaxGreen
  BY AdaptiveAssumption DEF AdaptiveAssumption
<1>3. time \in Nat /\ call \in Nat
  BY <1>1
<1>4. CASE /\ \/ time < MinGreen
              \/ called = {}
              \/ idle < Extension /\ call < MaxGreen
           /\ elapsed' = Min({time, MinGreen})
           /\ gap' = Min({idle, Extension})
           /\ sinceCall' = Min({call, MaxGreen})
           /\ UNCHANGED <<idx, target>>
  <2>1. time < MinGreen /\ called # {} => call < MaxGreen
    BY <1>1, <1>2
  <2>. HIDE DEF time, idle, call
  <2>2. /\ elapsed' = IF time =< MinGreen THEN time ELSE MinGreen
        /\ sinceCall' = IF call =< MaxGreen THEN call ELSE MaxGreen
    BY <1>3, <1>4, MinTwo
  <2>3. called # {} => call < MaxGreen
    BY <1>4, <2>1
  <2>. QED
    BY <1>4, <2>2, <2>3 DEF time, call
<1>5. CASE called # {} /\ Terminate(called)
  <2>. DEFINE next == NextCalled(called)
  <2>1. CASE StageOf(next) = StageOf(idx) /\ next > idx
    <3>1. EnterGreen(next, 0)
      BY <1>5, <2>1 DEF Terminate
    <3>. QED
      BY <1>5, <3>1 DEF EnterGreen
  <2>2. CASE ~(StageOf(next) = StageOf(idx) /\ next > idx)
    <3>1. EnterClearance /\ target' = next
      BY <1>5, <2>2 DEF Terminate
    <3>. QED
      BY <1>5, <2>2, <3>1 DEF EnterClearance
  <2>. QED
    BY <2>1, <2>2
<1>. QED
  BY <1>4, <1>5 DEF UpdateGreen

(* The next green is green. *)
LEMMA NextCalledIs ==
    ASSUME idx \in Greens, NEW called \in SUBSET Greens, called # {}
    PROVE  NextCalled(called) \in Greens
<1>. USE PlanFacts, AdaptiveFacts
<1>1. idx \in Phases /\ called \in SUBSET Phases
  OBVIOUS
<1>2. Ahead(idx, 1) \in Phases
  BY <1>1, AheadIs
<1>3. \E k \in 0..N - 1 :
         FirstFrom(Ahead(idx, 1), called) = Ahead(Ahead(idx, 1), k)
         /\ Ahead(Ahead(idx, 1), k) \in called
  BY <1>1, <1>2, FirstFromIs
<1>. QED
  BY <1>3 DEF NextCalled

(***************************************************************************)
(* The invariant in a green.                                               *)
(***************************************************************************)

LEMMA GreenKeeps ==
    ASSUME BoundInv, idx \in Greens, NEW called \in SUBSET Greens,
           NEW passing \in BOOLEAN, UpdateGreen(called, passing), Observe(called)
    PROVE  GreenInv' /\ ClearingInv'
<1>. USE PlanFacts, AdaptiveFacts
<1>. DEFINE call == IF sinceCall = 0 /\ called = {} THEN 0 ELSE sinceCall + Dt
<1>1. /\ elapsed \in Nat /\ sinceCall \in Nat
      /\ elapsed < MinGreen => sinceCall =< elapsed
      /\ sinceCall < MaxGreen => InSteps(sinceCall)
  BY DEF BoundInv, Inv, TypeOK, GreenInv
<1>2. call \in Nat /\ idx \notin Clearances
  BY <1>1 DEF Clearances
<1>3. CASE /\ idx' = idx
           /\ elapsed' = IF elapsed + Dt =< MinGreen THEN elapsed + Dt ELSE MinGreen
           /\ sinceCall' = IF call =< MaxGreen THEN call ELSE MaxGreen
  <2>1. call < MaxGreen => InSteps(call)
    <3>1. CASE call = 0
      BY <3>1, StepsAdd
    <3>2. CASE call = sinceCall + Dt /\ call < MaxGreen
      <4>1. InSteps(sinceCall)
        BY <1>1, <3>2
      <4>. QED
        BY <1>1, <3>2, <4>1, StepsAdd
    <3>. QED
      BY <3>1, <3>2
  <2>2. elapsed + Dt < MinGreen => call =< elapsed + Dt
    BY <1>1
  <2>. HIDE DEF call
  <2>3. sinceCall' < MaxGreen => InSteps(sinceCall')
    BY <1>2, <1>3, <2>1
  <2>4. elapsed' < MinGreen => sinceCall' =< elapsed'
    BY <1>1, <1>2, <1>3, <2>2
  <2>. QED
    BY <1>2, <1>3, <2>3, <2>4 DEF GreenInv, ClearingInv, InSteps
<1>4. CASE called # {} /\ idx' = NextCalled(called) /\ sinceCall' = 0 /\ elapsed' = 0
  <2>1. idx' \in Greens
    BY <1>4, NextCalledIs
  <2>2. idx' \notin Clearances
    BY <2>1 DEF Clearances
  <2>3. InSteps(sinceCall')
    BY <1>4, StepsAdd
  <2>. QED
    BY <1>4, <2>2, <2>3 DEF GreenInv, ClearingInv, InSteps
<1>5. CASE called # {} /\ idx' = ClearanceOf(idx) /\ target' = NextCalled(called)
  <2>1. /\ idx' \in Clearances /\ idx' \notin Greens /\ idx' \in Phases
        /\ 0 \in 0..ClearanceLength(idx) - 1
    BY <1>5, ClearanceIs DEF Clearances
  <2>2. lastGreen' = idx /\ cleared' = 0
    BY <1>2, <2>1 DEF Observe
  <2>3. target' # None
    BY <1>5, NextCalledIs
  <2>4. /\ Ahead(ClearanceOf(idx), 0) = idx' /\ Spent(ClearanceOf(idx), 0) = 0
        /\ elapsed' \in Nat
    <3>1. elapsed' \in Nat
      BY GreenStep DEF BoundInv, Inv
    <3>. QED
      BY <1>5, <2>1, <3>1, AheadZero, SpentParts
  <2>5. InSteps(cleared')
    BY <2>2, StepsAdd
  <2>6. \E g \in Greens, m \in 0..N :
           /\ m \in 0..ClearanceLength(g) - 1 /\ lastGreen' \in {g, None}
           /\ idx' = Ahead(ClearanceOf(g), m)
           /\ cleared' =< Spent(ClearanceOf(g), m) + elapsed'
           /\ cleared' = 0
    <3>1. 0 \in 0..N /\ cleared' =< Spent(ClearanceOf(idx), 0) + elapsed'
      BY <2>2, <2>4
    <3>. QED
      BY <2>1, <2>2, <2>4, <3>1
  <2>. QED
    BY <2>1, <2>3, <2>5, <2>6 DEF GreenInv, ClearingInv, InSteps
<1>. QED
  BY <1>3, <1>4, <1>5, GreenTick

(* A call that waits while a green is shown: as long as the green stays it *)
(* waits with it, and then for a phase that is settled.                    *)
LEMMA GreenWaits ==
    ASSUME CutStagesAlike, BoundInv, idx \in Greens, NEW called \in SUBSET Greens,
           \A g \in called : ~(Released(g) \subseteq Released(idx)),
           NEW passing \in BOOLEAN, UpdateGreen(called, passing), Observe(called)
    PROVE  WaitInv'
<1>. USE PlanFacts, AdaptiveFacts
<1>. DEFINE w == watched
            call == IF sinceCall = 0 /\ called = {} THEN 0 ELSE sinceCall + Dt
<1>1. /\ elapsed \in Nat /\ sinceCall \in Nat /\ waited \in Nat
      /\ w \in Greens /\ w \in Phases /\ idx \in Phases /\ WaitInv
      /\ sinceCall < MaxGreen => InSteps(sinceCall)
  BY DEF BoundInv, Inv, TypeOK, GreenInv
<1>2. watched' = w /\ waited' = IF w \in called /\ idx' # w THEN waited + Dt ELSE 0
  BY DEF Observe
<1>. SUFFICES ASSUME w \in called, idx' # w, waited' = waited + Dt PROVE WaitInv'
  BY <1>2 DEF WaitInv
<1>3. called # {} /\ call = sinceCall + Dt /\ idx # w /\ idx \notin Clearances
  BY DEF Clearances
<1>4. /\ waited = 0 \/ (/\ sinceCall < MaxGreen
                        /\ waited =< (LongestClearance + Behind(w, idx)) + sinceCall)
      /\ LongestClearance \in Nat /\ Behind(w, idx) \in Nat
  BY <1>1, LongestClearanceIs, BehindIs DEF WaitInv
<1>. HIDE DEF call
<1>5. CASE idx' = idx /\ call < MaxGreen
           /\ sinceCall' = IF call =< MaxGreen THEN call ELSE MaxGreen
  <2>1. sinceCall' = sinceCall + Dt /\ sinceCall' < MaxGreen
    BY <1>1, <1>3, <1>5
  <2>2. waited + Dt =< (LongestClearance + Behind(w, idx)) + (sinceCall + Dt)
    BY <1>1, <1>4
  <2>3. Behind(watched, idx)' = Behind(w, idx)
    BY <1>2, <1>5
  <2>4. LongestClearance' = LongestClearance
    OBVIOUS
  <2>. QED
    BY <1>2, <1>3, <1>5, <2>1, <2>2, <2>3, <2>4 DEF WaitInv
<1>6. waited + Dt =< (LongestClearance + Behind(w, idx)) + Whole(MaxGreen)
  <2>1. Whole(MaxGreen) \in Nat /\ Dt =< Whole(MaxGreen)
    <3>1. 0 < MaxGreen /\ 0 \in Nat /\ InSteps(0)
      BY AdaptiveAssumption, StepsAdd DEF AdaptiveAssumption
    <3>2. 0 + Dt =< Whole(MaxGreen)
      BY <3>1, StepsAdd
    <3>. QED
      BY <3>2, WholeIs
  <2>2. CASE waited = 0
    BY <1>4, <2>1, <2>2
  <2>3. CASE /\ sinceCall < MaxGreen
             /\ waited =< (LongestClearance + Behind(w, idx)) + sinceCall
    <3>1. sinceCall + Dt =< Whole(MaxGreen)
      BY <1>1, <2>3, StepsAdd
    <3>. QED
      BY <1>1, <1>4, <2>1, <2>3, <3>1
  <2>. QED
    BY <1>4, <2>2, <2>3
<1>. DEFINE next == NextCalled(called)
<1>7. PICK p \in 1..N - 1, q \in 1..N :
         p < q /\ idx = Ahead(w, p) /\ next = Ahead(w, q) /\ next \in called
  BY <1>1, <1>3, CalledAhead
<1>. HIDE DEF next
<1>8. next \in Greens /\ next \in Phases /\ Behind(w, next) \in Nat
      /\ ~(Released(next) \subseteq Released(idx))
  BY <1>1, <1>7, BehindIs
<1>9. CASE idx' = next /\ sinceCall' = 0
  <2>1. Behind(w, next) >= Behind(w, idx) + Whole(MaxGreen)
    <3>1. p \in 1..N
      OBVIOUS
    <3>2. Behind(w, next) >= Behind(w, idx) + Allowance(idx)
      BY <1>1, <1>7, <3>1, BehindGrows
    <3>. QED
      BY <1>1, <3>2, AllowanceIs
  <2>2. Whole(MaxGreen) \in Nat /\ 0 < MaxGreen
    BY WholeIs, AdaptiveAssumption DEF AdaptiveAssumption
  <2>3. waited + Dt =< (LongestClearance + Behind(w, next)) + 0
    BY <1>1, <1>4, <1>6, <1>8, <2>1, <2>2
  <2>4. Behind(watched, idx)' = Behind(w, next) /\ LongestClearance' = LongestClearance
    BY <1>2, <1>9
  <2>5. idx' \notin Clearances
    BY <1>8, <1>9 DEF Clearances
  <2>. QED
    BY <1>2, <1>9, <2>2, <2>3, <2>4, <2>5 DEF WaitInv
<1>10. CASE /\ idx' = ClearanceOf(idx) /\ target' = next
            /\ ~(StageOf(target') = StageOf(idx) /\ target' > idx)
  <2>1. Behind(w, next) >= (Behind(w, idx) + Whole(MaxGreen)) + Whole(ClearTime(idx))
    BY <1>1, <1>7, <1>8, <1>10, OverClearance
  <2>2. Whole(MaxGreen) \in Nat /\ Whole(ClearTime(idx)) \in Nat
    BY WholeIs, ClearTimeIs
  <2>3. idx' \in Clearances /\ idx' \notin Greens
    BY <1>10, ClearanceIs DEF Clearances
  <2>4. lastGreen' = idx /\ cleared' = 0
    BY <1>3, <2>3 DEF Observe
  <2>5. (waited + Dt) + Whole(ClearTime(idx)) =< (LongestClearance + Behind(w, next)) + 0
    BY <1>1, <1>4, <1>6, <1>8, <2>1, <2>2
  <2>6. /\ Behind(watched, target)' = Behind(w, next)
        /\ LongestClearance' = LongestClearance
        /\ Whole(ClearTime(lastGreen))' = Whole(ClearTime(idx))
    BY <1>2, <1>10, <2>4
  <2>7. lastGreen' # None /\ target' # None
    BY <1>8, <1>10, <2>4
  <2>. QED
    BY <1>2, <2>3, <2>4, <2>5, <2>6, <2>7 DEF WaitInv
<1>. QED
  BY <1>3, <1>5, <1>9, <1>10, GreenTick DEF call, next

(***************************************************************************)
(* The invariant in a clearance.                                           *)
(***************************************************************************)

LEMMA ClearanceKeeps ==
    ASSUME BoundInv, idx \in Clearances, NEW called \in SUBSET Greens,
           UpdateClearance, Observe(called)
    PROVE  GreenInv' /\ ClearingInv' /\ WaitInv'
<1>. USE PlanFacts, AdaptiveFacts
<1>. DEFINE w == watched
<1>1. /\ elapsed \in Nat /\ cleared \in Nat /\ waited \in Nat /\ idx \in Phases
      /\ w \in Greens /\ w \in Phases /\ TypeOK /\ WaitInv /\ Inv /\ ClearingInv
      /\ target \in Greens \cup {None} /\ lastGreen \in Greens \cup {None}
  BY DEF BoundInv, Inv, TypeOK
<1>2. PICK k \in 0..N :
         /\ \A j \in 0..k - 1 : Ahead(idx, j) \notin Greens
         /\ elapsed + Dt >= Spent(idx, k)
         /\ elapsed' = (elapsed + Dt) - Spent(idx, k) /\ elapsed' \in Nat
         /\ \/ /\ Ahead(idx, k) \in Greens /\ idx' \in Greens
               /\ target # None => idx' = target
               /\ target' = None /\ sinceCall' = 0
            \/ /\ Ahead(idx, k) \in Clearances /\ idx' = Ahead(idx, k)
               /\ elapsed' < Plan[idx'].duration
               /\ target' = target
  BY <1>1, ClearanceStep
<1>3. /\ lastGreen' = lastGreen /\ cleared' = cleared + Dt
      /\ watched' = w /\ waited' = IF w \in called /\ idx' # w THEN waited + Dt ELSE 0
  BY DEF Observe, Clearances
<1>4. LongestClearance \in Nat /\ LongestClearance' = LongestClearance
  BY LongestClearanceIs
<1>5. idx \notin Greens
  BY DEF Clearances
<1>6. waited # 0 =>
         \/ waited =< cleared
         \/ /\ lastGreen # None /\ target # None
            /\ waited + Whole(ClearTime(lastGreen))
                  =< (LongestClearance + Behind(w, target)) + cleared
  BY <1>1 DEF WaitInv
<1>7. CASE /\ Ahead(idx, k) \in Greens /\ idx' \in Greens
           /\ target # None => idx' = target
           /\ target' = None /\ sinceCall' = 0
  <2>1. idx' \notin Clearances /\ idx' \in Phases
    BY <1>7 DEF Clearances
  <2>2. GreenInv'
    <3>1. InSteps(sinceCall')
      BY <1>7, StepsAdd
    <3>. QED
      BY <1>2, <1>7, <3>1 DEF GreenInv, InSteps
  <2>3. /\ cleared + Dt =< LongestClearance
        /\ lastGreen # None => cleared + Dt =< Whole(ClearTime(lastGreen))
    BY <1>1, ClearedSoFar
  <2>4. Behind(w, idx') \in Nat /\ 0 < MaxGreen
    BY <1>1, <2>1, BehindIs, AdaptiveAssumption DEF AdaptiveAssumption
  <2>5. waited + Dt =< (LongestClearance + Behind(w, idx')) + 0
    <3>1. CASE waited =< cleared
      BY <1>1, <1>4, <2>3, <2>4, <3>1
    <3>2. CASE /\ lastGreen # None /\ target # None
               /\ waited + Whole(ClearTime(lastGreen))
                     =< (LongestClearance + Behind(w, target)) + cleared
      <4>1. Whole(ClearTime(lastGreen)) \in Nat
        BY <1>1, <3>2, ClearTimeIs, WholeIs
      <4>2. idx' = target
        BY <1>7, <3>2
      <4>. QED
        BY <1>1, <1>4, <2>3, <2>4, <3>2, <4>1, <4>2
    <3>3. CASE waited = 0
      BY <1>1, <1>4, <2>3, <2>4, <3>3
    <3>. QED
      BY <1>6, <3>1, <3>2, <3>3
  <2>6. Behind(watched, idx)' = Behind(w, idx')
    BY <1>3
  <2>7. WaitInv'
    BY <1>3, <1>4, <1>7, <2>1, <2>4, <2>5, <2>6 DEF WaitInv
  <2>8. ClearingInv'
    BY <2>1 DEF ClearingInv
  <2>. QED
    BY <2>2, <2>7, <2>8
<1>8. CASE /\ Ahead(idx, k) \in Clearances /\ idx' = Ahead(idx, k)
           /\ elapsed' < Plan[idx'].duration /\ target' = target
  <2>1. idx' \notin Greens /\ idx' \in Clearances
    BY <1>8 DEF Clearances
  <2>2. GreenInv'
    BY <2>1 DEF GreenInv
  <2>3. ClearingInv'
    <3>1. /\ lastGreen # None => target # None
          /\ InSteps(cleared)
      BY <1>1 DEF ClearingInv
    <3>2. PICK g \in Greens, m \in 0..N :
             /\ m \in 0..ClearanceLength(g) - 1 /\ lastGreen \in {g, None}
             /\ idx = Ahead(ClearanceOf(g), m)
             /\ cleared =< Spent(ClearanceOf(g), m) + elapsed
      BY <1>1 DEF ClearingInv
    <3>. DEFINE c == ClearanceOf(g)
    <3>3. /\ Ahead(c, m + k) = Ahead(idx, k)
          /\ Spent(c, m + k) = Spent(c, m) + Spent(idx, k)
          /\ m + k \in 0..ClearanceLength(g) - 1
      BY <1>2, <1>8, <3>2, ClearingOn
    <3>4. c \in Phases /\ ClearanceLength(g) \in 1..N - 1
      BY ClearanceIs
    <3>5. Spent(c, m) \in Nat /\ Spent(idx, k) \in Nat /\ m + k \in 0..N
      BY <1>1, <3>3, <3>4, SpentIs
    <3>6. cleared + Dt =< Spent(c, m + k) + elapsed'
      BY <1>1, <1>2, <3>2, <3>3, <3>5
    <3>7. InSteps(cleared + Dt)
      BY <1>1, <3>1, StepsAdd
    <3>8. \E h \in Greens, n \in 0..N :
             /\ n \in 0..ClearanceLength(h) - 1 /\ lastGreen' \in {h, None}
             /\ idx' = Ahead(ClearanceOf(h), n)
             /\ cleared' =< Spent(ClearanceOf(h), n) + elapsed'
             /\ elapsed' < Plan[idx'].duration
      BY <1>3, <1>8, <3>2, <3>3, <3>5, <3>6
    <3>. QED
      BY <1>3, <1>8, <3>1, <3>7, <3>8 DEF ClearingInv, InSteps
  <2>4. WaitInv'
    <3>. SUFFICES ASSUME w \in called, idx' # w, waited' = waited + Dt PROVE WaitInv'
      BY <1>3 DEF WaitInv
    <3>1. CASE waited =< cleared
      <4>1. waited' =< cleared'
        BY <1>1, <1>3, <3>1
      <4>. QED
        BY <1>3, <2>1, <4>1 DEF WaitInv
    <3>2. CASE /\ lastGreen # None /\ target # None
               /\ waited + Whole(ClearTime(lastGreen))
                     =< (LongestClearance + Behind(w, target)) + cleared
      <4>1. Whole(ClearTime(lastGreen)) \in Nat /\ Behind(w, target) \in Nat
        BY <1>1, <3>2, ClearTimeIs, WholeIs, BehindIs
      <4>2. (waited + Dt) + Whole(ClearTime(lastGreen))
               =< (LongestClearance + Behind(w, target)) + (cleared + Dt)
        BY <1>1, <1>4, <3>2, <4>1
      <4>3. /\ Whole(ClearTime(lastGreen))' = Whole(ClearTime(lastGreen))
            /\ Behind(watched, target)' = Behind(w, target)
        BY <1>3, <1>8
      <4>. QED
        BY <1>3, <1>4, <1>8, <2>1, <3>2, <4>2, <4>3 DEF WaitInv
    <3>3. CASE waited = 0
      <4>1. waited' =< cleared'
        BY <1>1, <1>3, <3>3
      <4>. QED
        BY <1>3, <2>1, <4>1 DEF WaitInv
    <3>. QED
      BY <1>6, <3>1, <3>2, <3>3
  <2>. QED
    BY <2>2, <2>3, <2>4
<1>. QED
  BY <1>2, <1>7, <1>8

LEMMA BoundStep ==
    ASSUME CutStagesAlike PROVE BoundInv /\ [Next]_vars => BoundInv'
<1>. SUFFICES ASSUME BoundInv, [Next]_vars PROVE BoundInv'
  OBVIOUS
<1>. USE PlanFacts, AdaptiveFacts
<1>1. Inv /\ Inv'
  BY StepInv DEF BoundInv
<1>2. CASE UNCHANGED vars
  <2>1. GreenInv' /\ ClearingInv' /\ WaitInv'
    BY <1>2 DEF BoundInv, GreenInv, ClearingInv, WaitInv, InSteps, vars,
                timers, history
  <2>. QED
    BY <1>1, <2>1 DEF BoundInv
<1>3. CASE Tick
  <2>1. PICK called \in SUBSET Greens :
           /\ \A g \in called : ~(Released(g) \subseteq Released(idx))
           /\ Observe(called)
           /\ \/ idx \in Greens /\ \E p \in BOOLEAN : UpdateGreen(called, p)
              \/ idx \notin Greens /\ UpdateClearance
    BY <1>3, TickCases
  <2>2. CASE idx \in Greens /\ \E p \in BOOLEAN : UpdateGreen(called, p)
    <3>1. PICK p \in BOOLEAN : UpdateGreen(called, p)
      BY <2>2
    <3>2. GreenInv' /\ ClearingInv'
      BY <2>1, <2>2, <3>1, GreenKeeps
    <3>3. WaitInv'
      BY <2>1, <2>2, <3>1, GreenWaits
    <3>. QED
      BY <1>1, <3>2, <3>3 DEF BoundInv
  <2>3. CASE idx \notin Greens /\ UpdateClearance
    <3>1. idx \in Clearances
      BY <1>1, <2>3 DEF Inv, TypeOK
    <3>2. GreenInv' /\ ClearingInv' /\ WaitInv'
      BY <2>1, <2>3, <3>1, ClearanceKeeps
    <3>. QED
      BY <1>1, <3>2 DEF BoundInv
  <2>. QED
    BY <2>1, <2>2, <2>3
<1>. QED
  BY <1>2, <1>3 DEF Next

(* Whatever traffic comes and goes, a movement that keeps calling is shown *)
(* green within WaitLimit: "cyclic order and the maximum green bound how   *)
(* long any waiting movement can be kept waiting", for every plan the      *)
(* adaptive signal accepts that does not cut a stage whose greens differ.  *)
THEOREM WaitsAreBounded == CutStagesAlike => (Spec => []WaitIsBounded)
<1>. SUFFICES ASSUME CutStagesAlike PROVE Spec => []WaitIsBounded
  OBVIOUS
<1>1. BoundInv /\ [Next]_vars => BoundInv'
  BY BoundStep
<1>. QED
  BY BoundInit, <1>1, BoundHolds, PTL DEF Spec
=============================================================================
