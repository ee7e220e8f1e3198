---------------------- MODULE PriorityControl_proofs ----------------------
(***************************************************************************)
(* Theorems about the fixed-time signal and about the priority controller  *)
(* around it, for any durations, time step, offsets and vehicles.          *)
(***************************************************************************)
EXTENDS PriorityControl, SignalPlan_proofs

LEMMA FixedFacts ==
    /\ PlanTime \in Nat \ {0} /\ MaxOffset \in Nat
    /\ Greens # {} /\ Greens \in SUBSET Phases /\ Clearances \in SUBSET Phases
    /\ Greens \cup Clearances = Phases /\ Greens \cap Clearances = {}
    /\ 0 \notin Phases
<1>1. PlanTime \in Nat
  BY EndsAdd, PlanFacts DEF PlanTime
<1>2. Greens # {}
  BY PlanAssumption DEF PlanAssumption, Greens, Phases
<1>. QED
  BY <1>1, <1>2, OffsetAssumption, PlanFacts
     DEF OffsetAssumption, Greens, Clearances, Phases

(* A phase that is not all-red lasts longer than a time step. *)
LEMMA Lasting ==
    ASSUME NEW i \in Phases, Plan[i].color # "red"
    PROVE  Plan[i].duration > Dt /\ Plan[i].duration \in Nat
BY PlanAssumption DEF PlanAssumption, Phases

(***************************************************************************)
(* The cursor: what a tick of the plan does to it, from `e` into its phase *)
(* and on the way to the green g (0: wherever the plan leads).             *)
(***************************************************************************)

Onward(i, k, g) ==
    IF k > 0 /\ Ahead(i, k) \in Greens /\ g # 0 THEN g ELSE Ahead(i, k)

Lands(i, e, g, k, p) ==
    /\ e + Dt >= Spent(i, k) /\ p.left = (e + Dt) - Spent(i, k)
    /\ p.left \in Nat /\ p.left < Plan[p.at].duration
    /\ p.at = Onward(i, k, g)

(* update() lands where the time runs out. *)
LEMMA ReachedLands ==
    ASSUME NEW i \in Phases, NEW e \in Nat, e =< Plan[i].duration
    PROVE  \E k \in 0..N : Lands(i, e, 0, k, Reached(i, e + Dt, N))
<1>. USE PlanFacts
<1>. DEFINE time == e + Dt
            T == {N} \cup
                 {j \in 0..N : time < Spent(i, j) + Plan[Ahead(i, j)].duration}
            k == Min(T)
            p == Reached(i, time, N)
<1>1. T # {} /\ T \in SUBSET Nat
  OBVIOUS
<1>2. k \in T /\ \A x \in T : k =< x
  <2>. HIDE DEF T
  <2>. QED
    BY <1>1, MinNat
<1>3. p = [at |-> Ahead(i, k), left |-> time - Spent(i, k)]
  BY DEF Reached
<1>. HIDE DEF k, p
<1>4. k \in 0..N
  BY <1>2
<1>5. ASSUME NEW j \in 0..k - 1
      PROVE  time >= Spent(i, j) + Plan[Ahead(i, j)].duration
  <2>1. j \in 0..N /\ j < k
    BY <1>4
  <2>2. j \notin T
    <3>. HIDE DEF T
    <3>. QED
      BY <1>2, <1>4, <2>1
  <2>3. Spent(i, j) \in Nat /\ Ahead(i, j) \in 1..N
    BY <2>1, SpentIs, AheadIs DEF Phases
  <2>. QED
    BY <2>1, <2>2, <2>3
<1>6. time >= Spent(i, k)
  BY <1>4, <1>5, LeftOver
<1>7. \/ time < Spent(i, k) + Plan[Ahead(i, k)].duration
      \/ k = N
  BY <1>2
<1>9. /\ (e + Dt) - Spent(i, k) \in Nat
      /\ (e + Dt) - Spent(i, k) < Plan[Ahead(i, k)].duration
  <2>. HIDE PlanFacts
  <2>. QED
    BY <1>4, <1>6, <1>7, Landing
<1>10. p.at = Ahead(i, k) /\ p.left = (e + Dt) - Spent(i, k)
  BY <1>3
<1>11. Onward(i, k, 0) = Ahead(i, k)
  BY DEF Onward
<1>12. Lands(i, e, 0, k, p)
  BY <1>6, <1>9, <1>10, <1>11 DEF Lands
<1>. QED
  BY <1>4, <1>12 DEF p

(* advance()'s loop as a function of how often it went round. *)
Loop(i, time, g, n, f) ==
    f = [k \in 0..n |-> IF k = 0 THEN [at |-> i, left |-> time]
                        ELSE Hop(f[k - 1], g)]

LEMMA LoopRuns ==
    ASSUME NEW i, NEW time, NEW g, NEW n \in Nat
    PROVE  \E f : Loop(i, time, g, n, f)
<1>. DEFINE S == {m \in Nat : \E f : Loop(i, time, g, m, f)}
            start == [at |-> i, left |-> time]
<1>1. 0 \in S
  <2>. DEFINE f == [k \in 0..0 |-> start]
  <2>1. Loop(i, time, g, 0, f)
    BY DEF Loop
  <2>. QED
    BY <2>1
<1>2. ASSUME NEW m \in Nat, m \in S PROVE m + 1 \in S
  <2>1. PICK f : Loop(i, time, g, m, f)
    BY <1>2
  <2>. DEFINE h == [k \in 0..m + 1 |-> IF k =< m THEN f[k] ELSE Hop(f[m], g)]
              r == [k \in 0..m + 1 |-> IF k = 0 THEN start ELSE Hop(h[k - 1], g)]
  <2>. HIDE DEF start
  <2>2. \A k \in 0..m : f[k] = IF k = 0 THEN start ELSE Hop(f[k - 1], g)
    BY <2>1 DEF Loop, start
  <2>3. ASSUME NEW k \in 0..m + 1
        PROVE  h[k] = IF k = 0 THEN start ELSE Hop(h[k - 1], g)
    <3>1. CASE k = 0
      BY <2>2, <3>1
    <3>2. CASE k # 0 /\ k =< m
      BY <2>2, <3>2
    <3>3. CASE k = m + 1
      BY <3>3
    <3>. QED
      BY <3>1, <3>2, <3>3
  <2>4. h = r
    BY <2>3
  <2>5. Loop(i, time, g, m + 1, h)
    BY <2>4 DEF Loop, start
  <2>. QED
    BY <2>5
<1>3. n \in S
  <2>. HIDE DEF S
  <2>. QED
    BY <1>1, <1>2, NatInd
<1>. QED
  BY <1>3

LEMMA AdvanceLoops ==
    ASSUME NEW i, NEW time, NEW g
    PROVE  \E f : /\ Advance(i, time, g) = f[N]
                  /\ f[0] = [at |-> i, left |-> time]
                  /\ \A k \in 1..N : f[k] = Hop(f[k - 1], g)
<1>. USE PlanFacts
<1>. DEFINE f == CHOOSE at : Loop(i, time, g, N, at)
<1>1. Loop(i, time, g, N, f)
  BY LoopRuns
<1>2. Advance(i, time, g) = f[N]
  BY DEF Advance, Loop
<1>. HIDE DEF f
<1>. QED
  BY <1>1, <1>2 DEF Loop

(* A tick that ends a phase lands early in the next. *)
LEMMA EarlyLanding ==
    ASSUME NEW i \in Phases, NEW e \in Nat, e =< Plan[i].duration,
           NEW k \in 1..N, e + Dt >= Spent(i, k)
    PROVE  /\ Spent(i, k) \in Nat /\ Spent(i, k) >= Plan[i].duration
           /\ (e + Dt) - Spent(i, k) =< Dt
           /\ e < Plan[i].duration => (e + Dt) - Spent(i, k) < Dt
<1>. USE PlanFacts
<1>1. 1 \in 0..N /\ k \in 0..N /\ i \in 1..N
  BY DEF Phases
<1>2. Spent(i, 1) =< Spent(i, k) /\ Spent(i, 1) = Plan[i].duration
  BY <1>1, SpentGrows, SpentParts
<1>3. Spent(i, k) \in Nat /\ Plan[i].duration \in Nat
  BY <1>1, SpentIs
<1>. QED
  BY <1>2, <1>3

(* advance() lands where the time runs out, or at the green it goes to. *)
LEMMA AdvanceLands ==
    ASSUME NEW i \in Phases, NEW e \in Nat, e =< Plan[i].duration,
           NEW g \in Greens \cup {0}
    PROVE  \E k \in 0..N : Lands(i, e, g, k, Advance(i, e + Dt, g))
<1>. USE PlanFacts
<1>. DEFINE time == e + Dt
            Here(p, k) == /\ time >= Spent(i, k) /\ p.left = time - Spent(i, k)
                          /\ p.at = Onward(i, k, g)
            Stopped(p) == p.left < Plan[p.at].duration
<1>1. PICK f : /\ Advance(i, time, g) = f[N]
               /\ f[0] = [at |-> i, left |-> time]
               /\ \A k \in 1..N : f[k] = Hop(f[k - 1], g)
  BY AdvanceLoops
<1>2. \A j \in Phases : Plan[j].duration \in Nat
  BY DEF Phases
<1>3. g # 0 => g \in Phases /\ Plan[g].duration > Dt
  BY Lasting DEF Greens
<1>4. ASSUME NEW k \in 1..N, NEW p, Here(p, k), g # 0, Ahead(i, k) \in Greens
      PROVE  Stopped(p)
  <2>1. (e + Dt) - Spent(i, k) =< Dt /\ Spent(i, k) \in Nat
    BY <1>4, EarlyLanding
  <2>2. p.at = g
    BY <1>4 DEF Onward
  <2>3. p.left =< Dt /\ p.left \in Nat
    BY <1>4, <2>1
  <2>. QED
    BY <1>2, <1>3, <1>4, <2>2, <2>3
<1>. DEFINE Q(n) == \E k \in 0..n : Here(f[n], k) /\ (k = n \/ Stopped(f[n]))
            S == {n \in Nat : n =< N => Q(n)}
<1>5. 0 \in S
  <2>1. Here(f[0], 0)
    BY <1>1, SpentParts, AheadZero DEF Onward
  <2>2. Q(0)
    BY <2>1
  <2>. QED
    BY <2>2
<1>6. ASSUME NEW n \in Nat, n \in S PROVE n + 1 \in S
  <2>. SUFFICES ASSUME n + 1 =< N PROVE Q(n + 1)
    OBVIOUS
  <2>. DEFINE p == f[n]
              q == f[n + 1]
  <2>1. PICK k \in 0..n : Here(p, k) /\ (k = n \/ Stopped(p))
    BY <1>6
  <2>2. q = Hop(p, g)
    BY <1>1
  <2>. HIDE DEF p, q
  <2>3. CASE Stopped(p)
    <3>1. q = p
      BY <2>2, <2>3 DEF Hop
    <3>2. k \in 0..n + 1 /\ Here(q, k) /\ Stopped(q)
      BY <2>1, <2>3, <3>1
    <3>. QED
      BY <3>2 DEF q
  <2>4. CASE ~Stopped(p)
    <3>1. k = n /\ n \in 0..N - 1 /\ n \in 0..N /\ n + 1 \in 0..N
      BY <2>1, <2>4
    <3>2. ~(n > 0 /\ Ahead(i, n) \in Greens /\ g # 0)
      <4>1. n > 0 => n \in 1..N
        BY <3>1
      <4>. QED
        BY <1>4, <2>1, <2>4, <3>1, <4>1
    <3>3. p.at = Ahead(i, n) /\ p.left = time - Spent(i, n)
      BY <2>1, <3>1, <3>2 DEF Onward
    <3>4. Ahead(i, n) \in Phases /\ Spent(i, n) \in Nat
      BY <3>1, AheadIs, SpentIs
    <3>5. Plan[Ahead(i, n)].duration \in Nat
      BY <1>2, <3>4
    <3>6. Ahead(Ahead(i, n), 1) = Ahead(i, n + 1)
      BY <3>1, AheadAhead
    <3>7. Spent(i, n + 1) = Spent(i, n) + Plan[Ahead(i, n)].duration
      BY <3>1, SpentStep
    <3>8. /\ q.at = SelectToward(p.at, g)
          /\ q.left = p.left - Plan[p.at].duration
      BY <2>2, <2>4 DEF Hop
    <3>9. q.at = Onward(i, n + 1, g)
      BY <3>3, <3>6, <3>8 DEF SelectToward, Onward
    <3>10. time >= Spent(i, n + 1) /\ q.left = time - Spent(i, n + 1)
      BY <2>1, <2>4, <3>1, <3>3, <3>4, <3>5, <3>7, <3>8
    <3>11. Here(q, n + 1) /\ n + 1 \in 0..n + 1
      BY <3>9, <3>10
    <3>. QED
      BY <3>11 DEF q
  <2>. QED
    BY <2>3, <2>4
<1>7. Q(N)
  <2>. HIDE DEF Q
  <2>1. Nat \subseteq S
    <3>. HIDE DEF S
    <3>. QED
      BY <1>5, <1>6, NatInd
  <2>. QED
    BY <2>1
<1>. DEFINE p == f[N]
<1>8. PICK k \in 0..N : Here(p, k) /\ (k = N \/ Stopped(p))
  BY <1>7
<1>. HIDE DEF p
<1>9. Spent(i, k) \in Nat /\ Ahead(i, k) \in Phases
  BY <1>8, SpentIs, AheadIs
<1>10. p.left \in Nat
  BY <1>8, <1>9
<1>11. p.left < Plan[p.at].duration
  <2>1. CASE k > 0 /\ Ahead(i, k) \in Greens /\ g # 0
    <3>1. k \in 1..N
      BY <1>8, <2>1
    <3>. QED
      BY <1>4, <1>8, <2>1, <3>1
  <2>2. CASE ~(k > 0 /\ Ahead(i, k) \in Greens /\ g # 0)
    <3>1. p.at = Ahead(i, k) /\ p.left = time - Spent(i, k)
      BY <1>8, <2>2 DEF Onward
    <3>2. \/ time < Spent(i, k) + Plan[Ahead(i, k)].duration
          \/ k = N
      BY <1>2, <1>8, <1>9, <3>1
    <3>4. (e + Dt) - Spent(i, k) < Plan[Ahead(i, k)].duration
      BY <1>8, <3>2, Landing
    <3>. QED
      BY <3>1, <3>4
  <2>. QED
    BY <2>1, <2>2
<1>12. Lands(i, e, g, k, p)
  BY <1>8, <1>10, <1>11 DEF Lands
<1>. QED
  BY <1>1, <1>8, <1>12 DEF p

(* The plan of a priority run: what the search for a green or for the      *)
(* clearance after one finds.                                              *)
LEMMA PlanOfPriority ==
    /\ Accepted /\ SafeOrder /\ Clearances # {}
    /\ 1 \in Greens /\ 1 \in Phases
    /\ \A g \in Greens : Plan[g].directions # {}
    /\ \E g, h \in Greens : Plan[g].directions # Plan[h].directions
<1>1. PICK s \in StageStarts : \E p \in Span(s) : Plan[p].color = "red"
  BY PriorityAssumption DEF PriorityAssumption, Accepted
<1>2. PICK p \in Span(s) : Plan[p].color = "red"
  BY <1>1
<1>3. p \in Phases
  BY SpanInside
<1>4. Clearances # {}
  BY <1>2, <1>3 DEF Clearances, Greens
<1>. QED
  BY <1>4, PriorityAssumption DEF PriorityAssumption, Greens

(* clearance_start finds the yellow that ends the green. *)
LEMMA StartIs ==
    ASSUME NEW g \in Greens
    PROVE  /\ ClearanceStart(g) = ClearanceOf(g)
           /\ ClearanceOf(g) \in Clearances
           /\ Plan[ClearanceOf(g)].duration > Dt
<1>. USE PlanFacts, FixedFacts, PlanOfPriority
<1>1. g \in Phases /\ g \notin Clearances
  BY DEF Clearances
<1>2. PICK k \in 0..N - 1 :
         /\ ClearanceOf(g) = Ahead(g, k) /\ Ahead(g, k) \in Clearances
         /\ \A j \in 0..k - 1 : Ahead(g, j) \notin Clearances
  BY <1>1, FirstFromIs DEF ClearanceOf
<1>3. k # 0
  BY <1>1, <1>2, AheadZero
<1>4. k \in 1..N - 1 /\ 1 \in 0..N /\ k - 1 \in 0..N - 1
  BY <1>2, <1>3
<1>5. Ahead(g, 1) \in Phases
  BY <1>1, <1>4, AheadIs
<1>6. PICK j \in 0..N - 1 :
         /\ ClearanceStart(g) = Ahead(Ahead(g, 1), j)
         /\ Ahead(Ahead(g, 1), j) \in Clearances
         /\ \A l \in 0..j - 1 : Ahead(Ahead(g, 1), l) \notin Clearances
  BY <1>5, FirstFromIs DEF ClearanceStart
<1>7. \A l \in 0..N - 1 : Ahead(Ahead(g, 1), l) = Ahead(g, l + 1)
  <2>. TAKE l \in 0..N - 1
  <2>1. 1 + l =< N /\ l \in Nat /\ 1 + l = l + 1
    OBVIOUS
  <2>. QED
    BY <1>1, <2>1, AheadAhead
<1>8. Ahead(Ahead(g, 1), k - 1) = Ahead(g, k)
  BY <1>4, <1>7
<1>9. ~(k - 1 < j)
  BY <1>2, <1>4, <1>6, <1>8
<1>10. ~(j < k - 1)
  <2>. SUFFICES ASSUME j < k - 1 PROVE FALSE
    OBVIOUS
  <2>1. j + 1 \in 0..k - 1 /\ Ahead(g, j + 1) \in Clearances
    BY <1>4, <1>6, <1>7
  <2>. QED
    BY <1>2, <2>1
<1>11. ClearanceStart(g) = ClearanceOf(g)
  BY <1>2, <1>4, <1>6, <1>8, <1>9, <1>10
<1>12. PICK a : a \in Plan[g].directions
  OBVIOUS
<1>13. a \in Approaches /\ ApproachShows(g, a) = "green"
  BY <1>1, <1>12 DEF Approaches, ApproachShows, Greens
<1>14. ApproachShows(ClearanceOf(g), a) \in {"green", "yellow"}
  BY <1>13, SafeToClearance DEF SafeForApproach
<1>15. ClearanceOf(g) \in Clearances
  BY <1>2
<1>16. Plan[ClearanceOf(g)].color # "red"
  BY <1>14 DEF ApproachShows
<1>. QED
  BY <1>11, <1>15, <1>16, Lasting DEF Clearances

(***************************************************************************)
(* The clearance, however the cursor moves: with the plan or towards a     *)
(* green, from further on in a green, to a green's clearance, or not.      *)
(***************************************************************************)

Runs(e, g, k) ==
    /\ e >= elapsed /\ e =< Plan[idx].duration
    /\ idx \in Greens => e < Plan[idx].duration
    /\ idx \notin Greens => e = elapsed
    /\ g # 0 => idx \notin Greens
    /\ Lands(idx, e, g, k, [at |-> idx', left |-> elapsed'])

Moved ==
    \/ Freeze
    \/ \E e \in Nat, g \in Greens \cup {0}, k \in 0..N : Runs(e, g, k)
    \/ idx \in Greens /\ idx' = ClearanceOf(idx) /\ elapsed' = 0

CursorOK ==
    /\ idx \in Phases /\ elapsed \in Nat /\ elapsed =< Plan[idx].duration
    /\ idx \in Greens => elapsed < Plan[idx].duration

(* During a clearance the signal is m phases into the clearance of the     *)
(* green that ended, and has shown it for nearly as long as it takes to get*)
(* there: the green may have run over by less than a time step.            *)
ShownInv ==
    idx \in Clearances /\ lastGreen # 0 =>
        \E m \in 0..ClearanceLength(lastGreen) - 1 :
            /\ idx = Ahead(ClearanceOf(lastGreen), m)
            /\ shown + Dt > Spent(ClearanceOf(lastGreen), m) + elapsed

Watching == shown \in Nat /\ lastGreen \in Greens \cup {0}

(* Where a run leads, and over which phases. *)
LEMMA RunsTo ==
    ASSUME CursorOK, NEW e \in Nat, NEW g \in Greens \cup {0}, NEW k \in 0..N,
           Runs(e, g, k)
    PROVE  /\ e + Dt >= Spent(idx, k) /\ elapsed' = (e + Dt) - Spent(idx, k)
           /\ Spent(idx, k) \in Nat
           /\ elapsed' \in Nat /\ elapsed' < Plan[idx'].duration
           /\ idx' \in Phases /\ Ahead(idx, k) \in Phases
           /\ Ahead(idx, k) \in Greens <=> idx' \in Greens
           /\ idx' # Ahead(idx, k) =>
                 idx \notin Greens /\ idx' = g /\ k \in 1..N
           /\ k = 0 => idx' = idx
           /\ \A j \in 1..k - 1 : Plan[Ahead(idx, j)].color = "red"
<1>. USE PlanFacts, FixedFacts
<1>1. idx \in Phases /\ e =< Plan[idx].duration
  BY DEF CursorOK, Runs
<1>2. /\ e + Dt >= Spent(idx, k) /\ elapsed' = (e + Dt) - Spent(idx, k)
      /\ elapsed' \in Nat /\ elapsed' < Plan[idx'].duration
      /\ idx' = Onward(idx, k, g)
      /\ g # 0 => idx \notin Greens
  BY DEF Runs, Lands
<1>3. Spent(idx, k) \in Nat /\ Ahead(idx, k) \in Phases
  BY <1>1, SpentIs, AheadIs
<1>4. \/ idx' = Ahead(idx, k)
      \/ k > 0 /\ Ahead(idx, k) \in Greens /\ g # 0 /\ idx' = g
  BY <1>2 DEF Onward
<1>5. k = 0 => idx' = idx
  BY <1>1, <1>4, AheadZero
<1>6. \A j \in 1..k - 1 : Plan[Ahead(idx, j)].color = "red"
  <2>1. CASE k = 0
    BY <2>1
  <2>2. CASE k # 0
    <3>1. k \in 1..N
      BY <2>2
    <3>. QED
      BY <1>1, <1>2, <3>1, OnlyReds
  <2>. QED
    BY <2>1, <2>2
<1>7. idx' # Ahead(idx, k) => idx \notin Greens /\ idx' = g /\ k \in 1..N
  <2>1. k > 0 => k \in 1..N
    OBVIOUS
  <2>. QED
    BY <1>2, <1>4, <2>1, Zenon
<1>8. (Ahead(idx, k) \in Greens <=> idx' \in Greens) /\ idx' \in Phases
  BY <1>3, <1>4
<1>. QED
  BY <1>2, <1>3, <1>5, <1>6, <1>7, <1>8

LEMMA MovedCursor ==
    ASSUME CursorOK, Moved
    PROVE  /\ CursorOK'
           /\ Freeze \/ elapsed' < Plan[idx'].duration
<1>. USE PlanFacts, FixedFacts, PlanOfPriority
<1>1. CASE Freeze
  BY <1>1 DEF CursorOK, Freeze
<1>2. CASE ~Freeze
  <2>1. idx' \in Phases /\ elapsed' \in Nat /\ elapsed' < Plan[idx'].duration
    <3>1. CASE \E e \in Nat, g \in Greens \cup {0}, k \in 0..N : Runs(e, g, k)
      BY <3>1, RunsTo
    <3>2. CASE idx \in Greens /\ idx' = ClearanceOf(idx) /\ elapsed' = 0
      BY <3>2, StartIs DEF Phases
    <3>. QED
      BY <1>2, <3>1, <3>2 DEF Moved
  <2>2. Plan[idx'].duration \in Nat
    BY <2>1 DEF Phases
  <2>. QED
    BY <2>1, <2>2 DEF CursorOK
<1>. QED
  BY <1>1, <1>2

(* A run out of a green into its clearance: how far it gets. *)
LEMMA IntoClearance ==
    ASSUME CursorOK, idx \in Greens, idx' \in Clearances,
           NEW e \in Nat, NEW g \in Greens \cup {0}, NEW k \in 0..N,
           Runs(e, g, k)
    PROVE  \E m \in 0..ClearanceLength(idx) - 1 :
              /\ idx' = Ahead(ClearanceOf(idx), m)
              /\ Dt > Spent(ClearanceOf(idx), m) + elapsed'
<1>. USE PlanFacts, FixedFacts, PlanOfPriority
<1>1. /\ e + Dt >= Spent(idx, k) /\ elapsed' = (e + Dt) - Spent(idx, k)
      /\ Spent(idx, k) \in Nat
      /\ idx' = Ahead(idx, k) /\ k \in 1..N
      /\ \A j \in 1..k - 1 : Plan[Ahead(idx, j)].color = "red"
  <2>1. idx' = Ahead(idx, k) /\ (k = 0 => idx' = idx)
    BY RunsTo
  <2>2. k # 0
    BY <2>1 DEF Clearances
  <2>3. k \in 1..N
    BY <2>2
  <2>. QED
    BY <2>1, <2>3, RunsTo
<1>2. idx \in Phases /\ e < Plan[idx].duration /\ Plan[idx].duration \in Nat
  BY DEF Runs, CursorOK, Phases
<1>3. \A j \in 1..k - 1 : Ahead(idx, j) \notin Greens
  BY <1>1 DEF Greens
<1>4. k # N
  BY <1>1, <1>2, AheadZero DEF Clearances
<1>5. k \in 1..N - 1 /\ k \in Nat /\ k - 1 \in 0..N /\ 1 \in 0..N - 1
      /\ 1 + (k - 1) = k
  BY <1>1, <1>4
<1>. DEFINE c == ClearanceOf(idx)
<1>6. c = Ahead(idx, 1)
  <2>1. PICK j \in 0..N - 1 :
           /\ c = Ahead(idx, j) /\ Ahead(idx, j) \in Clearances
           /\ \A l \in 0..j - 1 : Ahead(idx, l) \notin Clearances
    BY <1>2, FirstFromIs DEF ClearanceOf
  <2>2. Ahead(idx, 1) \in Clearances
    <3>1. CASE k = 1
      BY <1>1, <3>1
    <3>2. CASE k # 1
      <4>1. 1 \in 1..k - 1 /\ 1 \in 0..N
        BY <1>5, <3>2
      <4>2. Ahead(idx, 1) \in Phases /\ Ahead(idx, 1) \notin Greens
        BY <1>2, <1>3, <4>1, AheadIs
      <4>. QED
        BY <4>2 DEF Clearances
    <3>. QED
      BY <3>1, <3>2
  <2>3. j # 0
    BY <1>2, <2>1, AheadZero DEF Clearances
  <2>4. ~(1 < j)
    BY <2>1, <2>2
  <2>5. j = 1
    BY <2>3, <2>4
  <2>. QED
    BY <2>1, <2>5
<1>7. \A j \in 0..k - 1 : Ahead(c, j) = Ahead(idx, j + 1)
  <2>. TAKE j \in 0..k - 1
  <2>1. 1 + j =< N /\ j \in Nat /\ 1 + j = j + 1
    BY <1>5
  <2>. QED
    BY <1>2, <1>6, <2>1, AheadAhead
<1>8. Ahead(c, 0) = c /\ 0 \in 0..ClearanceLength(idx) - 1 /\ Spent(c, 0) = 0
      /\ c \in Phases
  <2>1. c \in Phases /\ ClearanceLength(idx) \in 1..N - 1
    BY ClearanceIs
  <2>. QED
    BY <2>1, AheadZero, SpentParts
<1>9. \A j \in 0..(k - 1) - 1 : Ahead(Ahead(c, 0), j) \notin Greens
  <2>. TAKE j \in 0..(k - 1) - 1
  <2>1. j \in 0..k - 1 /\ j + 1 \in 1..k - 1
    BY <1>5
  <2>. QED
    BY <1>3, <1>7, <1>8, <2>1
<1>10. Ahead(c, k - 1) = idx' /\ Ahead(Ahead(c, 0), k - 1) = idx'
  <2>1. k - 1 \in 0..k - 1 /\ (k - 1) + 1 = k
    BY <1>5
  <2>. QED
    BY <1>1, <1>7, <1>8, <2>1
<1>11. k - 1 \in 0..ClearanceLength(idx) - 1
  <2>1. 0 + (k - 1) \in 0..ClearanceLength(idx) - 1
    BY <1>5, <1>8, <1>9, <1>10, ClearingOn
  <2>. QED
    BY <1>5, <2>1
<1>12. Spent(idx, k) = Plan[idx].duration + Spent(c, k - 1)
  <2>1. Spent(idx, 1 + (k - 1)) = Spent(idx, 1) + Spent(Ahead(idx, 1), k - 1)
    <3>1. 1 \in Nat /\ k - 1 \in Nat /\ 1 + (k - 1) =< N
      BY <1>5
    <3>. QED
      BY <1>2, <3>1, SpentSum
  <2>. QED
    BY <1>2, <1>5, <1>6, <2>1, SpentParts
<1>13. Spent(c, k - 1) \in Nat
  BY <1>5, <1>8, SpentIs
<1>14. Dt > Spent(c, k - 1) + elapsed'
  BY <1>1, <1>2, <1>12, <1>13
<1>. QED
  BY <1>10, <1>11, <1>14

(* A run during a clearance goes on in the clearance or ends it. *)
LEMMA ThroughClearance ==
    ASSUME CursorOK, Watching, ShownInv, idx \in Clearances, lastGreen # 0,
           NEW g \in Greens \cup {0}, NEW k \in 0..N, Runs(elapsed, g, k),
           shown' = shown + Dt, lastGreen' = lastGreen
    PROVE  ShownInv' /\ ClearanceServed'
<1>. USE PlanFacts, FixedFacts, PlanOfPriority
<1>. DEFINE c == ClearanceOf(lastGreen)
            L == ClearanceLength(lastGreen)
<1>1. /\ idx \in Phases /\ elapsed \in Nat /\ shown \in Nat
      /\ lastGreen \in Greens
  BY DEF CursorOK, Watching
<1>2. PICK m \in 0..L - 1 :
         idx = Ahead(c, m) /\ shown + Dt > Spent(c, m) + elapsed
  BY DEF ShownInv
<1>3. /\ elapsed + Dt >= Spent(idx, k) /\ elapsed' = (elapsed + Dt) - Spent(idx, k)
      /\ Spent(idx, k) \in Nat /\ Ahead(idx, k) \in Phases /\ idx' \in Phases
      /\ Ahead(idx, k) \in Greens <=> idx' \in Greens
      /\ idx' # Ahead(idx, k) => idx' = g
      /\ \A j \in 1..k - 1 : Plan[Ahead(idx, j)].color = "red"
  BY <1>1, RunsTo
<1>4. \A j \in 0..k - 1 : Ahead(idx, j) \notin Greens
  <2>. TAKE j \in 0..k - 1
  <2>1. CASE j = 0
    BY <1>1, <2>1, AheadZero DEF Clearances
  <2>2. CASE j # 0
    BY <1>3, <2>2 DEF Greens
  <2>. QED
    BY <2>1, <2>2
<1>5. /\ Ahead(c, m + k) = Ahead(idx, k)
      /\ Spent(c, m + k) = Spent(c, m) + Spent(idx, k)
      /\ Ahead(idx, k) \in Clearances => m + k \in 0..L - 1
      /\ Ahead(idx, k) \in Greens => m + k = L
  BY <1>1, <1>2, <1>4, ClearingOn
<1>6. Spent(c, m) \in Nat
  <2>1. c \in Phases /\ L \in 1..N - 1
    BY <1>1, ClearanceIs
  <2>2. m \in 0..N
    BY <2>1
  <2>. QED
    BY <2>1, <2>2, SpentIs
<1>7. CASE Ahead(idx, k) \in Greens
  <2>1. idx' \in Greens /\ idx' \notin Clearances
    BY <1>3, <1>7 DEF Clearances
  <2>2. ClearTime(lastGreen) = Spent(c, m) + Spent(idx, k)
    BY <1>5, <1>7 DEF ClearTime
  <2>3. shown' + Dt > ClearTime(lastGreen)
    BY <1>1, <1>2, <1>3, <1>6, <2>2
  <2>4. ClearTime(lastGreen)' = ClearTime(lastGreen)
    OBVIOUS
  <2>. QED
    BY <2>1, <2>3, <2>4 DEF ShownInv, ClearanceServed
<1>8. CASE Ahead(idx, k) \notin Greens
  <2>1. idx' \notin Greens /\ Ahead(idx, k) \in Clearances
    BY <1>3, <1>8
  <2>2. idx' = Ahead(idx, k)
    BY <1>3, <2>1
  <2>3. m + k \in 0..L - 1 /\ idx' = Ahead(c, m + k)
    BY <1>5, <2>1, <2>2
  <2>4. shown' + Dt > Spent(c, m + k) + elapsed'
    BY <1>1, <1>2, <1>3, <1>5, <1>6
  <2>. QED
    BY <2>1, <2>3, <2>4 DEF ShownInv, ClearanceServed
<1>. QED
  BY <1>7, <1>8

(* However the cursor moves, the clearances stay served. *)
LEMMA MovedServed ==
    ASSUME CursorOK, Watching, ShownInv, ClearanceServed, Moved, Watched
    PROVE  Watching' /\ ShownInv' /\ ClearanceServed'
<1>. USE PlanFacts, FixedFacts, PlanOfPriority
<1>1. /\ idx \in Phases /\ elapsed \in Nat /\ shown \in Nat
      /\ lastGreen \in Greens \cup {0}
  BY DEF CursorOK, Watching
<1>2. Watching'
  BY <1>1 DEF Watching, Watched
<1>3. CASE idx \in Greens /\ idx' \in Greens
  <2>1. idx \notin Clearances /\ idx' \notin Clearances
    BY <1>3 DEF Clearances
  <2>2. shown' = shown /\ lastGreen' = lastGreen
    BY <2>1 DEF Watched
  <2>3. ShownInv' /\ ClearanceServed'
    BY <1>3, <2>1, <2>2 DEF ShownInv, ClearanceServed
  <2>. QED
    BY <1>2, <2>3
<1>4. CASE idx \in Greens /\ idx' \notin Greens
  <2>1. idx \notin Clearances /\ idx' \in Clearances /\ idx' # idx
    BY <1>4, MovedCursor DEF Clearances, CursorOK
  <2>2. shown' = 0 /\ lastGreen' = idx
    BY <1>4, <2>1 DEF Watched
  <2>3. \E m \in 0..ClearanceLength(idx) - 1 :
           /\ idx' = Ahead(ClearanceOf(idx), m)
           /\ Dt > Spent(ClearanceOf(idx), m) + elapsed'
    <3>1. CASE \E e \in Nat, g \in Greens \cup {0}, k \in 0..N : Runs(e, g, k)
      BY <1>4, <2>1, <3>1, IntoClearance
    <3>2. CASE idx' = ClearanceOf(idx) /\ elapsed' = 0
      <4>1. /\ idx' \in Phases /\ Ahead(idx', 0) = idx' /\ Spent(idx', 0) = 0
            /\ 0 \in 0..ClearanceLength(idx) - 1
        BY <1>4, <2>1, AheadZero, SpentParts, ClearanceIs
      <4>. QED
        BY <3>2, <4>1
    <3>. QED
      BY <2>1, <3>1, <3>2 DEF Moved, Freeze
  <2>4. ShownInv'
    BY <2>2, <2>3 DEF ShownInv
  <2>. QED
    BY <1>2, <1>4, <2>4 DEF ClearanceServed
<1>5. CASE idx \in Clearances /\ ~Freeze
  <2>1. idx \notin Greens
    BY <1>5 DEF Clearances
  <2>2. PICK g \in Greens \cup {0}, k \in 0..N : Runs(elapsed, g, k)
    BY <1>5, <2>1 DEF Moved, Runs
  <2>3. shown' = shown + Dt /\ lastGreen' = lastGreen
    BY <1>5, <2>1 DEF Watched
  <2>4. CASE lastGreen # 0
    BY <1>2, <1>5, <2>2, <2>3, <2>4, ThroughClearance
  <2>5. CASE lastGreen = 0
    BY <1>2, <2>3, <2>5 DEF ShownInv, ClearanceServed
  <2>. QED
    BY <2>4, <2>5
<1>6. CASE idx \in Clearances /\ Freeze
  <2>1. /\ idx \notin Greens /\ idx' = idx /\ elapsed' = elapsed
        /\ shown' = shown + Dt /\ lastGreen' = lastGreen
    BY <1>6 DEF Clearances, Watched, Freeze
  <2>2. ClearanceServed'
    BY <2>1 DEF ClearanceServed
  <2>3. ASSUME lastGreen # 0 PROVE ShownInv'
    <3>1. PICK m \in 0..ClearanceLength(lastGreen) - 1 :
             /\ idx = Ahead(ClearanceOf(lastGreen), m)
             /\ shown + Dt > Spent(ClearanceOf(lastGreen), m) + elapsed
      BY <1>6, <2>3 DEF ShownInv
    <3>2. Spent(ClearanceOf(lastGreen), m) \in Nat
      <4>1. ClearanceOf(lastGreen) \in Phases /\ ClearanceLength(lastGreen) \in 1..N - 1
        BY <1>1, <2>3, ClearanceIs
      <4>2. m \in 0..N
        BY <4>1
      <4>. QED
        BY <4>1, <4>2, SpentIs
    <3>3. shown' + Dt > Spent(ClearanceOf(lastGreen), m) + elapsed
      BY <1>1, <2>1, <3>1, <3>2
    <3>. QED
      BY <2>1, <3>1, <3>3 DEF ShownInv
  <2>4. lastGreen = 0 => ShownInv'
    BY <2>1 DEF ShownInv
  <2>. QED
    BY <1>2, <2>2, <2>3, <2>4
<1>. QED
  BY <1>1, <1>3, <1>4, <1>5, <1>6

(* However the cursor moves, the heads change safely. *)
LEMMA MovedSafely ==
    ASSUME CursorOK, Moved, NEW a \in Approaches
    PROVE  SafeForApproach(idx, idx', a)
<1>. USE PlanFacts, FixedFacts, PlanOfPriority
<1>1. idx \in Phases
  BY DEF CursorOK
<1>2. CASE idx' = idx
  BY <1>2 DEF SafeForApproach, ApproachShows
<1>3. CASE idx \in Greens /\ idx' = ClearanceOf(idx)
  BY <1>3, SafeToClearance
<1>4. CASE \E e \in Nat, g \in Greens \cup {0}, k \in 0..N : Runs(e, g, k)
  <2>1. PICK e \in Nat, g \in Greens \cup {0}, k \in 0..N : Runs(e, g, k)
    BY <1>4
  <2>2. /\ Ahead(idx, k) \in Greens <=> idx' \in Greens
        /\ idx' # Ahead(idx, k) => idx \notin Greens /\ idx' = g /\ k \in 1..N
        /\ idx' \in Phases
        /\ k = 0 => idx' = idx
        /\ \A j \in 1..k - 1 : Plan[Ahead(idx, j)].color = "red"
    BY <2>1, RunsTo
  <2>3. CASE idx' = Ahead(idx, k)
    <3>1. CASE k = 0
      BY <1>2, <2>2, <3>1
    <3>2. CASE k # 0
      <4>1. k \in 1..N
        BY <3>2
      <4>. QED
        BY <1>1, <2>2, <2>3, <4>1, SafePassing
    <3>. QED
      BY <3>1, <3>2
  <2>4. CASE idx' # Ahead(idx, k)
    <3>1. idx \notin Greens /\ idx' \in Greens
      BY <2>2, <2>4
    <3>. QED
      BY <1>1, <3>1, SafeToGreen
  <2>. QED
    BY <2>3, <2>4
<1>. QED
  BY <1>2, <1>3, <1>4 DEF Moved, Freeze

(***************************************************************************)
(* The fixed-time signal.                                                  *)
(***************************************************************************)

LEMMA Distributes ==
    ASSUME NEW p \in Int, NEW a \in Int, NEW b \in Int
    PROVE  p * (a - b) = (p * a) - (p * b) /\ p * (-a) = -(p * a)
OBVIOUS

(* Where reset() leaves the cursor: `seconds` into the plan. *)
LEMMA StartsAt ==
    ASSUME NEW s \in 0..PlanTime - 1
    PROVE  LET p == AdvanceBy(s)
           IN  /\ p.at \in Phases /\ p.left \in Nat
               /\ p.left =< Plan[p.at].duration
               /\ p.at \in Greens => p.left < Plan[p.at].duration
               /\ Ends[p.at - 1] + p.left = s
               /\ s = 0 => p.at = 1 /\ p.left = 0
<1>. USE PlanFacts, FixedFacts
<1>. DEFINE Rests(j) == s = Spent(1, j) \/ s < Spent(1, j + 1)
            T == {j \in 0..N : Rests(j)}
            k == Min(T)
            p == AdvanceBy(s)
<1>1. 1 \in Phases /\ \A j \in 0..N : Spent(1, j) = Ends[j] /\ Ends[j] \in Nat
  <2>1. 1 \in Phases
    BY DEF Phases
  <2>2. \A j \in 0..N : Spent(1, j) = Ends[j] /\ Ends[j] \in Nat
    <3>. TAKE j \in 0..N
    <3>1. Spent(1, j) = Ends[1 - 1 + j] - Ends[1 - 1]
      BY DEF Spent
    <3>2. 1 - 1 + j = j /\ 1 - 1 = 0
      OBVIOUS
    <3>. QED
      BY <3>1, <3>2, EndsAdd
  <2>. QED
    BY <2>1, <2>2, Zenon
<1>2. T # {} /\ T \in SUBSET Nat
  <2>1. N - 1 \in 0..N /\ (N - 1) + 1 = N /\ N \in 0..N
    OBVIOUS
  <2>2. Rests(N - 1)
    BY <1>1, <2>1 DEF PlanTime
  <2>3. N - 1 \in T
    BY <2>1, <2>2
  <2>4. T \in SUBSET Nat
    OBVIOUS
  <2>. QED
    BY <2>3, <2>4
<1>3. k \in T /\ \A x \in T : k =< x
  <2>. HIDE DEF T
  <2>. QED
    BY <1>2, MinNat
<1>4. N - 1 \in T
  <2>1. N - 1 \in 0..N /\ (N - 1) + 1 = N /\ N \in 0..N
    OBVIOUS
  <2>. QED
    BY <1>1, <2>1 DEF PlanTime
<1>5. p = [at |-> Ahead(1, k), left |-> s - Spent(1, k)]
  BY DEF AdvanceBy
<1>. HIDE DEF k, p
<1>6. k \in 0..N - 1 /\ k \in 0..N /\ Rests(k)
  <2>1. k =< N - 1
    BY <1>3, <1>4
  <2>. QED
    BY <1>3, <2>1
<1>7. Ahead(1, k) = k + 1 /\ k + 1 \in Phases /\ k + 1 \in 0..N
  BY <1>1, <1>6, AheadIs DEF Phases
<1>8. Ends[k + 1] = Ends[k] + Plan[k + 1].duration /\ Plan[k + 1].duration \in Nat
  <2>1. k + 1 \in 1..N /\ (k + 1) - 1 = k
    BY <1>6
  <2>. QED
    BY <2>1, EndsAdd
<1>9. s >= Ends[k]
  <2>1. CASE k = 0
    BY <2>1, EndsAdd
  <2>2. CASE k # 0
    <3>1. k - 1 \in 0..N /\ (k - 1) + 1 = k /\ k - 1 < k
      BY <1>6, <2>2
    <3>2. k - 1 \notin T
      <4>. HIDE DEF T
      <4>. QED
        BY <1>3, <1>6, <3>1
    <3>3. ~(s < Spent(1, (k - 1) + 1))
      BY <3>1, <3>2
    <3>. QED
      BY <1>1, <1>6, <3>1, <3>3
  <2>. QED
    BY <2>1, <2>2
<1>10. s = Ends[k] \/ s < Ends[k + 1]
  BY <1>1, <1>6, <1>7
<1>11. p.at = k + 1 /\ p.left = s - Ends[k]
  BY <1>1, <1>5, <1>6, <1>7
<1>12. Ends[p.at - 1] + p.left = s
  <2>1. p.at - 1 = k
    BY <1>6, <1>11
  <2>. QED
    BY <1>1, <1>6, <1>11, <2>1
<1>13. /\ p.left \in Nat /\ p.left =< Plan[p.at].duration
       /\ p.left = 0 \/ p.left < Plan[p.at].duration
  BY <1>1, <1>6, <1>8, <1>9, <1>10, <1>11
<1>14. p.at \in Greens => p.left < Plan[p.at].duration
  <2>1. p.at \in Greens => Plan[p.at].duration > Dt /\ Plan[p.at].duration \in Nat
    BY Lasting DEF Greens
  <2>. QED
    BY <1>13, <2>1
<1>15. s = 0 => p.at = 1 /\ p.left = 0
  <2>. SUFFICES ASSUME s = 0 PROVE p.at = 1 /\ p.left = 0
    OBVIOUS
  <2>1. 0 \in T
    BY <1>1, EndsAdd
  <2>2. k =< 0
    BY <1>3, <2>1
  <2>3. k = 0
    BY <1>6, <2>2
  <2>. QED
    BY <1>11, <2>3, EndsAdd
<1>. QED
  BY <1>7, <1>11, <1>12, <1>13, <1>14, <1>15 DEF p

(* update() moves the cursor with the plan. *)
LEMMA UpdateMoves ==
    ASSUME CursorOK, Update
    PROVE  \E k \in 0..N : Runs(elapsed, 0, k)
<1>. USE PlanFacts, FixedFacts
<1>. DEFINE next == Reached(idx, elapsed + Dt, N)
<1>1. idx \in Phases /\ elapsed \in Nat /\ elapsed =< Plan[idx].duration
      /\ (idx \in Greens => elapsed < Plan[idx].duration)
  BY DEF CursorOK
<1>2. PICK k \in 0..N : Lands(idx, elapsed, 0, k, next)
  BY <1>1, ReachedLands
<1>3. idx' = next.at /\ elapsed' = next.left
  BY DEF Update
<1>4. Lands(idx, elapsed, 0, k, [at |-> idx', left |-> elapsed'])
  BY <1>2, <1>3 DEF Lands
<1>. QED
  BY <1>1, <1>4 DEF Runs

(* How far the plan is in its cycle is the time since reset() and the      *)
(* offset, but for whole cycles.                                           *)
InStep ==
    \E q \in Int : Ends[idx - 1] + elapsed = (offset + clock) + (PlanTime * q)

Clocked == offset \in 0..MaxOffset /\ clock \in 0..PlanTime - 1

LEMMA InitInStep == Init => CursorOK /\ Watching /\ Clocked /\ InStep
<1>. SUFFICES ASSUME Init PROVE CursorOK /\ Watching /\ Clocked /\ InStep
  OBVIOUS
<1>. USE FixedFacts
<1>1. Clocked /\ Watching /\ clock = 0 /\ offset \in Nat
  BY DEF Init, Clocked, Watching
<1>2. PICK q \in Int, s \in 0..PlanTime - 1 :
         s = offset % PlanTime /\ offset = (PlanTime * q) + s
  BY <1>1, ModIs
<1>3. idx = AdvanceBy(s).at /\ elapsed = AdvanceBy(s).left
  BY <1>2 DEF Init
<1>4. CursorOK /\ Ends[idx - 1] + elapsed = s
  BY <1>3, StartsAt DEF CursorOK
<1>5. Ends[idx - 1] + elapsed = (offset + clock) + (PlanTime * (-q))
  <2>1. PlanTime * (-q) = -(PlanTime * q) /\ PlanTime * q \in Int
    BY Distributes
  <2>. QED
    BY <1>1, <1>2, <1>4, <2>1
<1>6. -q \in Int
  OBVIOUS
<1>7. InStep
  BY <1>5, <1>6, Zenon DEF InStep
<1>. QED
  BY <1>1, <1>4, <1>7

LEMMA TickInStep ==
    ASSUME CursorOK, Clocked, InStep, Tick
    PROVE  Clocked' /\ InStep'
<1>. USE PlanFacts, FixedFacts
<1>1. /\ idx \in Phases /\ elapsed \in Nat /\ offset \in Nat
      /\ clock \in Nat /\ offset' = offset /\ clock' = (clock + Dt) % PlanTime
  BY DEF CursorOK, Clocked, Tick
<1>2. PICK k \in 0..N : Runs(elapsed, 0, k)
  BY UpdateMoves DEF Tick
<1>3. /\ elapsed' = (elapsed + Dt) - Spent(idx, k) /\ Spent(idx, k) \in Nat
      /\ elapsed' \in Nat /\ idx' = Ahead(idx, k)
  <2>1. 0 \in Greens \cup {0}
    OBVIOUS
  <2>2. /\ elapsed' = (elapsed + Dt) - Spent(idx, k) /\ Spent(idx, k) \in Nat
        /\ elapsed' \in Nat /\ idx' \in Phases
        /\ idx' # Ahead(idx, k) => idx' = 0
    BY <1>1, <1>2, <2>1, RunsTo
  <2>. QED
    BY <2>2
<1>4. PICK q \in Int :
         Ends[idx - 1] + elapsed = (offset + clock) + (PlanTime * q)
  BY DEF InStep
<1>5. PICK t \in Int, r \in 0..PlanTime - 1 :
         r = (clock + Dt) % PlanTime /\ clock + Dt = (PlanTime * t) + r
  <2>1. clock + Dt \in Int
    BY <1>1
  <2>. QED
    BY <2>1, ModIs
<1>6. Clocked'
  BY <1>1, <1>5 DEF Clocked
<1>7. \E w \in {0, 1} :
         Ends[idx' - 1] + elapsed'
            = ((Ends[idx - 1] + elapsed) + Dt) - (PlanTime * w)
  <2>. DEFINE a == Ends[idx - 1]
              b == Ends[idx' - 1]
  <2>1. idx - 1 \in 0..N /\ idx \in 1..N
    BY <1>1 DEF Phases
  <2>2. a \in Nat
    BY <2>1, EndsAdd
  <2>3. CASE idx + k =< N
    <3>1. idx' = idx + k /\ idx' - 1 = idx - 1 + k /\ idx' - 1 \in 0..N
      BY <1>1, <1>3, <2>1, <2>3, AheadIs
    <3>2. Spent(idx, k) = b - a
      BY <1>1, <2>1, <2>3, <3>1, SpentIs
    <3>3. b \in Nat /\ PlanTime * 0 = 0
      BY <3>1, EndsAdd
    <3>4. b + elapsed' = ((a + elapsed) + Dt) - (PlanTime * 0)
      BY <1>1, <1>3, <2>2, <3>2, <3>3
    <3>. QED
      BY <3>4
  <2>4. CASE ~(idx + k =< N)
    <3>1. idx' = idx + k - N /\ idx' - 1 = idx - 1 + k - N /\ idx' - 1 \in 0..N
      BY <1>1, <1>3, <2>1, <2>4, AheadIs
    <3>2. Spent(idx, k) = (PlanTime + b) - a
      <4>1. CASE idx + k = N + 1
        <5>1. Spent(idx, k) = Ends[idx - 1 + k] - a
          BY <1>1, <2>1, <4>1, SpentIs
        <5>2. idx - 1 + k = N /\ idx' - 1 = 0
          BY <2>1, <3>1, <4>1
        <5>3. b = 0
          BY <5>2, EndsAdd
        <5>. QED
          BY <5>1, <5>2, <5>3 DEF PlanTime
      <4>2. CASE idx + k # N + 1
        <5>1. ~(idx + k =< N + 1)
          BY <2>1, <2>4, <4>2
        <5>2. Spent(idx, k) = (Ends[N] + Ends[idx - 1 + k - N]) - a
          BY <1>1, <5>1, SpentIs
        <5>. QED
          BY <3>1, <5>2 DEF PlanTime
      <4>. QED
        BY <4>1, <4>2
    <3>3. b \in Nat /\ PlanTime * 1 = PlanTime
      BY <3>1, EndsAdd
    <3>4. b + elapsed' = ((a + elapsed) + Dt) - (PlanTime * 1)
      BY <1>1, <1>3, <2>2, <3>2, <3>3
    <3>. QED
      BY <3>4
  <2>. QED
    BY <2>3, <2>4
<1>8. PICK w \in {0, 1} :
         Ends[idx' - 1] + elapsed'
            = ((Ends[idx - 1] + elapsed) + Dt) - (PlanTime * w)
  BY <1>7
<1>9. Ends[idx' - 1] + elapsed' = (offset' + clock') + (PlanTime * ((q + t) - w))
  <2>1. /\ PlanTime * ((q + t) - w) = (PlanTime * (q + t)) - (PlanTime * w)
        /\ PlanTime * (q + t) = (PlanTime * q) + (PlanTime * t)
    <3>1. q + t = q - (-t) /\ -t \in Int /\ q + t \in Int /\ w \in Int
      OBVIOUS
    <3>2. PlanTime * (q - (-t)) = (PlanTime * q) - (PlanTime * (-t))
      BY <3>1, Distributes
    <3>3. PlanTime * (-t) = -(PlanTime * t) /\ PlanTime * t \in Int
      BY Distributes
    <3>4. PlanTime * ((q + t) - w) = (PlanTime * (q + t)) - (PlanTime * w)
      BY <3>1, Distributes
    <3>5. PlanTime * (q + t) = (PlanTime * q) + (PlanTime * t)
      BY <3>1, <3>2, <3>3
    <3>. QED
      BY <3>4, <3>5
  <2>2. PlanTime * q \in Int /\ PlanTime * t \in Int /\ PlanTime * w \in Int
    OBVIOUS
  <2>. QED
    BY <1>1, <1>4, <1>5, <1>8, <2>1, <2>2
<1>10. (q + t) - w \in Int
  OBVIOUS
<1>. QED
  BY <1>6, <1>9, <1>10 DEF InStep

LEMMA InStepIsNoDrift ==
    ASSUME CursorOK, Clocked, InStep PROVE NoDrift
<1>. USE PlanFacts, FixedFacts
<1>1. idx \in Phases /\ elapsed \in Nat /\ offset \in Nat /\ clock \in Nat
  BY DEF CursorOK, Clocked
<1>2. PICK q \in Int :
         Ends[idx - 1] + elapsed = (offset + clock) + (PlanTime * q)
  BY DEF InStep
<1>3. Spent(1, idx - 1) = Ends[idx - 1]
  <2>1. 1 \in Phases /\ idx - 1 \in 0..N /\ 1 + (idx - 1) =< N + 1
        /\ 1 - 1 + (idx - 1) = idx - 1 /\ 1 - 1 = 0
    BY <1>1 DEF Phases
  <2>2. Spent(1, idx - 1) = Ends[1 - 1 + (idx - 1)] - Ends[1 - 1]
    BY <2>1, SpentIs
  <2>. QED
    BY <2>1, <2>2, EndsAdd
<1>4. offset + clock \in Int
  BY <1>1
<1>5. ((offset + clock) + (PlanTime * q)) % PlanTime = (offset + clock) % PlanTime
  BY <1>4, SameMod
<1>. QED
  BY <1>2, <1>3, <1>5 DEF NoDrift

(* In every run without a priority controller the signal is exactly where  *)
(* the time since reset() and its offset put it: update() never loses or   *)
(* gains a part of a time step, for any plan, time step and offset.        *)
THEOREM PlanNeverDrifts == Spec => []NoDrift
<1>. DEFINE I == CursorOK /\ Clocked /\ InStep
<1>1. Init => I
  BY InitInStep
<1>2. I /\ [Next]_vars => I'
  <2>. SUFFICES ASSUME I, [Next]_vars PROVE I'
    OBVIOUS
  <2>1. CASE Tick
    <3>1. \E k \in 0..N : Runs(elapsed, 0, k)
      BY <2>1, UpdateMoves DEF Tick
    <3>2. 0 \in Greens \cup {0} /\ elapsed \in Nat
      BY DEF CursorOK
    <3>3. Moved
      BY <3>1, <3>2 DEF Moved
    <3>. QED
      BY <2>1, <3>3, MovedCursor, TickInStep
  <2>2. CASE UNCHANGED vars
    BY <2>2 DEF vars, CursorOK, Clocked, InStep
  <2>. QED
    BY <2>1, <2>2 DEF Next
<1>3. I => NoDrift
  BY InStepIsNoDrift
<1>. QED
  BY <1>1, <1>2, <1>3, PTL DEF Spec

(***************************************************************************)
(* The priority controller.                                                *)
(***************************************************************************)

LEMMA PriorityFacts ==
    /\ MinGreen \in Nat \ {0} /\ TransitMinGreen \in Nat \ {0}
    /\ MaxHold \in Nat /\ MaxHold >= MinGreen /\ MinRecovery \in Nat
    /\ MaxExtension \in Nat /\ MaxEarlyGreen \in Nat /\ MinSpacing \in Nat
    /\ Etas \in SUBSET Nat
BY PriorityAssumption DEF PriorityAssumption

Vehicles == [Movements -> {"none", "coming", "seen"}]

(* A pre-emption's part of the state. *)
ControlOK ==
    /\ state \in {"normal", "clearing_min_green", "clearing", "hold", "recovering"}
    /\ goal \in Greens \cup {0} /\ resume \in Greens \cup {0}
    /\ state # "normal" =>
          /\ goal # 0 /\ resume # 0
          /\ Plan[goal].directions # Plan[resume].directions
    /\ state = "hold" => idx = goal
    /\ state \in {"clearing", "recovering"} => idx \notin Greens
    /\ held \in 0..MaxHold + Dt /\ lockout \in 0..MinRecovery
    /\ ev \in Vehicles

Ready == CursorOK /\ ControlOK /\ greenAge \in 0..MinGreen

(* A green that pre-emption ends was on for its minimum or held too long.  *)
Ended ==
    /\ idx \in Greens /\ idx' = ClearanceOf(idx) /\ elapsed' = 0
    /\ \/ GreenServed
       \/ state = "hold" /\ held + Dt >= MaxHold

Driven ==
    \/ Freeze
    \/ \E g \in Greens \cup {0}, k \in 0..N : Runs(elapsed, g, k)
    \/ Ended

(* A hold is timed from its beginning. *)
HoldTimed == state' = "hold" => held' = 0 \/ (state = "hold" /\ held' = held + Dt)

(* Two greens for different approaches. *)
Asked(g, r) ==
    /\ g \in Greens /\ r \in Greens
    /\ Plan[g].directions # Plan[r].directions

LEMMA AdvanceRuns ==
    ASSUME CursorOK, NEW e \in Nat, e >= elapsed, e =< Plan[idx].duration,
           idx \in Greens => e < Plan[idx].duration,
           idx \notin Greens => e = elapsed,
           NEW g \in Greens \cup {0}, g # 0 => idx \notin Greens,
           MoveTo(Advance(idx, e + Dt, g))
    PROVE  \E k \in 0..N : Runs(e, g, k)
<1>. DEFINE p == Advance(idx, e + Dt, g)
<1>1. idx \in Phases
  BY DEF CursorOK
<1>2. PICK k \in 0..N : Lands(idx, e, g, k, p)
  BY <1>1, AdvanceLands
<1>3. idx' = p.at /\ elapsed' = p.left
  BY DEF MoveTo
<1>. HIDE DEF p
<1>4. Lands(idx, e, g, k, [at |-> idx', left |-> elapsed'])
  BY <1>2, <1>3 DEF Lands
<1>. QED
  BY <1>4 DEF Runs

(* The plan as it runs on, or towards a green. *)
LEMMA AdvanceDrives ==
    ASSUME CursorOK, NEW g \in Greens \cup {0}, g # 0 => idx \notin Greens,
           MoveTo(Advance(idx, elapsed + Dt, g))
    PROVE  /\ Driven /\ \E k \in 0..N : Runs(elapsed, g, k)
           /\ g # 0 /\ idx' \in Greens => idx' = g
<1>. USE PlanFacts, FixedFacts
<1>1. /\ idx \in Phases /\ elapsed \in Nat /\ elapsed =< Plan[idx].duration
      /\ elapsed >= elapsed /\ (idx \in Greens => elapsed < Plan[idx].duration)
      /\ (idx \notin Greens => elapsed = elapsed)
  BY DEF CursorOK
<1>2. PICK k \in 0..N : Runs(elapsed, g, k)
  BY <1>1, AdvanceRuns
<1>3. Driven
  BY <1>2 DEF Driven
<1>4. ASSUME g # 0, idx' \in Greens PROVE idx' = g
  <2>1. idx' = Onward(idx, k, g)
    BY <1>2 DEF Runs, Lands
  <2>2. (Ahead(idx, k) \in Greens <=> idx' \in Greens) /\ (k = 0 => idx' = idx)
    BY <1>1, <1>2, RunsTo
  <2>3. Ahead(idx, k) \in Greens /\ k > 0
    BY <1>4, <2>2
  <2>. QED
    BY <1>4, <2>1, <2>3 DEF Onward
<1>. QED
  BY <1>2, <1>3, <1>4

LEMMA JumpEnds ==
    ASSUME idx \in Greens, Jump(ClearanceStart(idx))
    PROVE  idx' = ClearanceOf(idx) /\ elapsed' = 0 /\ idx' \notin Greens
BY StartIs DEF Jump, MoveTo, Clearances

LEMMA MinGreenStep ==
    ASSUME Ready, idx \in Greens, NEW g, NEW r, Asked(g, r), NEW e \in Vehicles,
           RunMinGreen(g, r, e)
    PROVE  Driven /\ HoldTimed /\ ControlOK'
<1>. USE PlanFacts, FixedFacts, PriorityFacts
<1>1. /\ goal' = g /\ resume' = r /\ ev' = e /\ held' = held /\ lockout' = lockout
      /\ \/ /\ MoveTo(Advance(idx, elapsed + Dt, 0))
            /\ state' = "clearing_min_green"
         \/ /\ GreenServed /\ Jump(ClearanceStart(idx))
            /\ state' = "clearing"
  BY DEF RunMinGreen
<1>2. held \in 0..MaxHold + Dt /\ lockout \in 0..MinRecovery /\ CursorOK
  BY DEF Ready, ControlOK
<1>3. g # 0 /\ r # 0
  BY DEF Asked
<1>4. HoldTimed
  BY <1>1 DEF HoldTimed
<1>5. CASE MoveTo(Advance(idx, elapsed + Dt, 0)) /\ state' = "clearing_min_green"
  <2>1. Driven
    BY <1>2, <1>5, AdvanceDrives
  <2>2. ControlOK'
    BY <1>1, <1>2, <1>3, <1>5 DEF ControlOK, Asked
  <2>. QED
    BY <1>4, <2>1, <2>2
<1>6. CASE GreenServed /\ Jump(ClearanceStart(idx)) /\ state' = "clearing"
  <2>1. Ended /\ idx' \notin Greens
    BY <1>6, JumpEnds DEF Ended
  <2>2. ControlOK'
    BY <1>1, <1>2, <1>3, <1>6, <2>1 DEF ControlOK, Asked
  <2>. QED
    BY <1>4, <2>1, <2>2 DEF Driven
<1>. QED
  BY <1>1, <1>5, <1>6

LEMMA ClearingStep ==
    ASSUME Ready, idx \notin Greens, NEW g, NEW r, Asked(g, r),
           NEW e \in Vehicles, RunClearing(g, r, e)
    PROVE  Driven /\ HoldTimed /\ ControlOK'
<1>. USE PlanFacts, FixedFacts, PriorityFacts
<1>. DEFINE p == Advance(idx, elapsed + Dt, g)
<1>1. /\ MoveTo(p) /\ goal' = g /\ resume' = r /\ ev' = e
      /\ state' = IF p.at = g THEN "hold" ELSE "clearing"
      /\ held' = 0 /\ lockout' = lockout
  BY DEF RunClearing
<1>2. lockout \in 0..MinRecovery /\ CursorOK
  BY DEF Ready, ControlOK
<1>3. g # 0 /\ r # 0 /\ g \in Greens
  BY DEF Asked
<1>4. Driven /\ (idx' \in Greens => idx' = g)
  BY <1>1, <1>2, <1>3, AdvanceDrives
<1>5. idx' = p.at
  BY <1>1 DEF MoveTo
<1>. HIDE DEF p
<1>6. CASE p.at = g
  BY <1>1, <1>2, <1>3, <1>4, <1>5, <1>6 DEF ControlOK, Asked, HoldTimed
<1>7. CASE p.at # g
  BY <1>1, <1>2, <1>3, <1>4, <1>5, <1>7 DEF ControlOK, Asked, HoldTimed
<1>. QED
  BY <1>6, <1>7

LEMMA HoldStep ==
    ASSUME Ready, NEW g, NEW r, Asked(g, r), idx = g, NEW e \in Vehicles,
           NEW time \in Nat, RunHold(g, r, e, time),
           time = 0 \/ (state = "hold" /\ time = held + Dt)
    PROVE  Driven /\ HoldTimed /\ ControlOK'
<1>. USE PlanFacts, FixedFacts, PriorityFacts
<1>1. /\ held \in 0..MaxHold + Dt /\ lockout \in 0..MinRecovery
      /\ g # 0 /\ r # 0 /\ idx \in Greens
  BY DEF Ready, ControlOK, Asked
<1>2. CASE time < MaxHold /\ Hold(g, r, e, time)
  <2>1. /\ idx' = idx /\ state' = "hold" /\ goal' = g /\ resume' = r
        /\ held' = time /\ ev' = e /\ lockout' = lockout /\ Freeze
    BY <1>2 DEF Hold, Freeze
  <2>2. HoldTimed
    BY <2>1 DEF HoldTimed
  <2>3. ControlOK'
    BY <1>1, <1>2, <2>1 DEF ControlOK, Asked
  <2>. QED
    BY <2>1, <2>2, <2>3 DEF Driven
<1>3. CASE /\ GreenServed \/ time >= MaxHold
           /\ Release(g, r, e)
  <2>1. /\ Jump(ClearanceStart(idx))
        /\ state' = "recovering" /\ goal' = g /\ resume' = r
        /\ held' = 0 /\ ev' = Forgotten(e) /\ lockout' = lockout
    BY <1>3 DEF Release
  <2>2. idx' = ClearanceOf(idx) /\ elapsed' = 0 /\ idx' \notin Greens
    BY <1>1, <2>1, JumpEnds
  <2>3. Ended
    BY <1>1, <1>3, <2>2 DEF Ended
  <2>4. Forgotten(e) \in Vehicles
    BY DEF Forgotten, Vehicles
  <2>5. ControlOK'
    BY <1>1, <2>1, <2>2, <2>4 DEF ControlOK, Asked
  <2>. QED
    BY <2>1, <2>3, <2>5 DEF Driven, HoldTimed
<1>. QED
  <2>1. \/ time < MaxHold /\ Hold(g, r, e, time)
        \/ (GreenServed \/ time >= MaxHold) /\ Release(g, r, e)
    BY DEF RunHold
  <2>. QED
    BY <1>2, <1>3, <2>1

(* The search for a green finds one. *)
LEMMA NextGreenIs ==
    ASSUME NEW i \in Phases, NEW d, \E g \in Greens : Plan[g].directions # d
    PROVE  NextGreen(i, d) \in Greens /\ Plan[NextGreen(i, d)].directions # d
<1>. USE PlanFacts, FixedFacts
<1>. DEFINE S == {j \in Greens : Plan[j].directions # d}
<1>1. S # {} /\ S \in SUBSET Phases /\ S \in SUBSET Greens
  OBVIOUS
<1>2. Ahead(i, 1) \in Phases
  BY AheadIs
<1>3. FirstFrom(Ahead(i, 1), S) \in S
  <2>. HIDE DEF S
  <2>. QED
    BY <1>1, <1>2, FirstFromIs
<1>. QED
  BY <1>3 DEF NextGreen

LEMMA FindGreenIs ==
    ASSUME idx \in Phases, NEW m \in Movements PROVE FindGreen(m) \in Greens
<1>. USE PlanFacts, FixedFacts
<1>. DEFINE S == {i \in Greens : Serves(i, m)}
<1>1. PICK i \in Greens : m \in Plan[i].lanes
  BY DEF Movements, Lanes
<1>2. Serves(i, m)
  BY <1>1, ReleasedIs DEF Serves
<1>3. S # {} /\ S \in SUBSET Phases /\ S \in SUBSET Greens
  BY <1>2 DEF Greens
<1>4. FirstFrom(idx, S) \in S
  <2>. HIDE DEF S
  <2>. QED
    BY <1>3, FirstFromIs
<1>. QED
  BY <1>3, <1>4 DEF FindGreen

(* A pre-emption returns to a green for other approaches than its goal's. *)
LEMMA ResumeIs ==
    ASSUME idx \in Phases, NEW g \in Greens
    PROVE  Asked(g, ResumeAfter(g))
<1>. USE PlanFacts, FixedFacts, PlanOfPriority
<1>. DEFINE i == IF idx \in Greens THEN idx ELSE NextGreen(idx, {})
<1>1. i \in Greens
  BY NextGreenIs
<1>2. /\ NextGreen(g, Plan[g].directions) \in Greens
      /\ Plan[NextGreen(g, Plan[g].directions)].directions # Plan[g].directions
  <2>1. \E h \in Greens : Plan[h].directions # Plan[g].directions
    OBVIOUS
  <2>. QED
    BY <2>1, NextGreenIs
<1>3. ResumeAfter(g) = IF Plan[i].directions # Plan[g].directions
                       THEN i ELSE NextGreen(g, Plan[g].directions)
  BY DEF ResumeAfter
<1>. HIDE DEF i
<1>. QED
  BY <1>1, <1>2, <1>3 DEF Asked

LEMMA SeenIs ==
    ASSUME NEW e \in Vehicles, NEW d
    PROVE  Seen(e, d) \in Vehicles /\ Forgotten(e) \in Vehicles
BY DEF Seen, Forgotten, Vehicles

LEMMA BeginStep ==
    ASSUME Ready, NEW e \in Vehicles, NEW d \in SUBSET Movements, Begin(e, d)
    PROVE  Driven /\ HoldTimed /\ ControlOK'
<1>. USE FixedFacts
<1>1. PICK m \in d :
         LET target == FindGreen(m)
             r      == ResumeAfter(target)
             now    == Seen(Forgotten(e), d)
         IN  \/ idx = target /\ RunHold(target, r, now, 0)
             \/ idx \in Greens \ {target} /\ RunMinGreen(target, r, now)
             \/ idx \notin Greens /\ RunClearing(target, r, now)
  BY DEF Begin
<1>. DEFINE target == FindGreen(m)
            r      == ResumeAfter(target)
            now    == Seen(Forgotten(e), d)
<1>2. idx \in Phases
  BY DEF Ready, CursorOK
<1>3. Asked(target, r)
  BY <1>2, FindGreenIs, ResumeIs
<1>4. now \in Vehicles
  BY SeenIs
<1>5. \/ idx = target /\ RunHold(target, r, now, 0)
      \/ idx \in Greens /\ RunMinGreen(target, r, now)
      \/ idx \notin Greens /\ RunClearing(target, r, now)
  BY <1>1
<1>. HIDE DEF target, r, now
<1>6. 0 \in Nat
  OBVIOUS
<1>7. CASE idx = target /\ RunHold(target, r, now, 0)
  BY <1>3, <1>4, <1>6, <1>7, HoldStep
<1>8. CASE idx \in Greens /\ RunMinGreen(target, r, now)
  BY <1>3, <1>4, <1>8, MinGreenStep
<1>9. CASE idx \notin Greens /\ RunClearing(target, r, now)
  BY <1>3, <1>4, <1>9, ClearingStep
<1>. QED
  BY <1>5, <1>7, <1>8, <1>9

LEMMA UnderWayStep ==
    ASSUME Ready, NEW e \in Vehicles, NEW d \in SUBSET Movements, UnderWay(e, d)
    PROVE  Driven /\ HoldTimed /\ ControlOK'
<1>. USE FixedFacts, PlanFacts
<1>. DEFINE now == Seen(e, d)
<1>1. now \in Vehicles
  BY SeenIs
<1>2. \/ state = "clearing_min_green" /\ idx \in Greens /\ RunMinGreen(goal, resume, now)
      \/ /\ \/ state = "clearing"
            \/ state = "clearing_min_green" /\ idx \notin Greens
         /\ RunClearing(goal, resume, now)
      \/ state = "hold" /\ RunHold(goal, resume, now, held + Dt)
  BY DEF UnderWay
<1>. HIDE DEF now
<1>3. /\ goal \in Greens \cup {0} /\ resume \in Greens \cup {0}
      /\ state # "normal" =>
            /\ goal # 0 /\ resume # 0
            /\ Plan[goal].directions # Plan[resume].directions
      /\ state = "hold" => idx = goal
      /\ state = "clearing" => idx \notin Greens
      /\ held + Dt \in Nat
  BY PriorityFacts DEF Ready, ControlOK
<1>4. state # "normal"
  BY <1>2
<1>5. Asked(goal, resume)
  BY <1>3, <1>4 DEF Asked
<1>6. CASE idx \in Greens /\ RunMinGreen(goal, resume, now)
  BY <1>1, <1>5, <1>6, MinGreenStep
<1>7. CASE idx \notin Greens /\ RunClearing(goal, resume, now)
  BY <1>1, <1>5, <1>7, ClearingStep
<1>8. CASE state = "hold" /\ RunHold(goal, resume, now, held + Dt)
  BY <1>1, <1>3, <1>5, <1>8, HoldStep
<1>. QED
  BY <1>2, <1>3, <1>6, <1>7, <1>8

LEMMA RecoverStep ==
    ASSUME Ready, NEW e \in Vehicles, Recover(e)
    PROVE  Driven /\ HoldTimed /\ ControlOK'
<1>. USE PlanFacts, FixedFacts, PriorityFacts
<1>. DEFINE p == Advance(idx, elapsed + Dt, resume)
<1>1. /\ state = "recovering" /\ MoveTo(p)
      /\ state' = IF p.at \in Greens THEN "normal" ELSE state
      /\ lockout' = IF p.at \in Greens THEN MinRecovery ELSE lockout
      /\ goal' = IF p.at \in Greens THEN 0 ELSE goal
      /\ resume' = IF p.at \in Greens THEN 0 ELSE resume
      /\ ev' = e /\ held' = held
  BY DEF Recover
<1>2. /\ CursorOK /\ held \in 0..MaxHold + Dt /\ lockout \in 0..MinRecovery
      /\ idx \notin Greens
      /\ goal \in Greens /\ resume \in Greens
      /\ Plan[goal].directions # Plan[resume].directions
  BY <1>1 DEF Ready, ControlOK
<1>3. Driven /\ idx' = p.at
  BY <1>1, <1>2, AdvanceDrives DEF MoveTo
<1>. HIDE DEF p
<1>4. HoldTimed
  BY <1>1 DEF HoldTimed
<1>5. CASE p.at \in Greens
  BY <1>1, <1>2, <1>3, <1>4, <1>5 DEF ControlOK
<1>6. CASE p.at \notin Greens
  BY <1>1, <1>2, <1>3, <1>4, <1>6 DEF ControlOK
<1>. QED
  BY <1>5, <1>6

(* The counters of a phase. *)
CountersOK ==
    /\ extended \in 0..MaxExtension + Dt /\ early \in BOOLEAN
    /\ spacing \in 0..MinSpacing

(* A cut leaves the green showing at least its safety minimum. *)
Cut ==
    /\ idx \in Greens /\ early = FALSE /\ early' = (idx' = idx)
    /\ \E e \in Nat, k \in 0..N :
          /\ Runs(e, 0, k)
          /\ (Plan[idx].duration - e) + elapsed >= TransitMinGreen

Kept == early' = (idx' = idx /\ early)

LEMMA LesserIs ==
    ASSUME NEW a \in Int, NEW b \in Int
    PROVE  /\ Lesser(a, b) \in Int /\ Lesser(a, b) =< a /\ Lesser(a, b) =< b
           /\ Lesser(a, b) = a \/ Lesser(a, b) = b
           /\ Greater(a, b) \in Int /\ Greater(a, b) >= a /\ Greater(a, b) >= b
           /\ Greater(a, b) = a \/ Greater(a, b) = b
BY DEF Lesser, Greater

(* The time until the bus's green is a number. *)
LEMMA WaitIs ==
    ASSUME idx \in Phases, idx \in Greens
    PROVE  LET between == Min({k \in 0..N : Ahead(idx, k + 1) = Others})
           IN  Spent(Ahead(idx, 1), between) \in Nat
<1>. USE PlanFacts, FixedFacts, PlanOfPriority
<1>. DEFINE T == {k \in 0..N : Ahead(idx, k + 1) = Others}
            between == Min(T)
<1>1. Others \in Greens
  <2>1. \E g \in Greens : Plan[g].directions # Plan[idx].directions
    OBVIOUS
  <2>. QED
    BY <2>1, NextGreenIs DEF Others
<1>2. Ahead(idx, 1) \in Phases /\ Others \in Phases
  BY <1>1, AheadIs
<1>3. PICK j \in 0..N - 1 : Ahead(Ahead(idx, 1), j) = Others
  BY <1>2, SomeAhead
<1>4. j \in T
  <2>1. j \in Nat /\ 1 \in Nat /\ 1 + j =< N /\ 1 + j = j + 1 /\ j \in 0..N
    OBVIOUS
  <2>2. Ahead(idx, j + 1) = Others
    BY <1>3, <2>1, AheadAhead
  <2>. QED
    BY <2>1, <2>2
<1>5. between \in T
  <2>1. T \in SUBSET Nat /\ T # {}
    BY <1>4
  <2>. HIDE DEF T
  <2>. QED
    BY <2>1, MinNat
<1>6. between \in 0..N
  BY <1>5
<1>. HIDE DEF between
<1>7. Spent(Ahead(idx, 1), between) \in Nat
  BY <1>2, <1>6, SpentIs
<1>. QED
  BY <1>7 DEF between

(* What may be cut off a green leaves it its minimum. *)
LEMMA CutIs ==
    ASSUME CursorOK, NEW m, NEW eta \in Nat, EarlyCut(m, eta) > 0
    PROVE  /\ idx \in Greens /\ ~early
           /\ EarlyCut(m, eta) \in Nat
           /\ (Plan[idx].duration - EarlyCut(m, eta)) >= TransitMinGreen
           /\ elapsed + EarlyCut(m, eta) =< Plan[idx].duration
<1>. USE PlanFacts, FixedFacts, PriorityFacts
<1>. DEFINE between == Min({k \in 0..N : Ahead(idx, k + 1) = Others})
            wait == Remaining + Spent(Ahead(idx, 1), between)
            keep == Greater(0, TransitMinGreen - elapsed)
            cut  == Lesser(MaxEarlyGreen, Lesser(Remaining - keep, wait - eta))
            d    == Plan[idx].duration
<1>1. /\ idx \in Greens /\ ~early
      /\ EarlyCut(m, eta) = cut
  <2>1. EarlyCut(m, eta) =
           IF /\ idx \in Greens /\ ~Serves(idx, m) /\ ~early /\ Spaced
              /\ FindGreen(m) = Others
           THEN cut ELSE 0
    BY DEF EarlyCut
  <2>. HIDE DEF cut
  <2>. QED
    BY <2>1
<1>2. idx \in Phases /\ elapsed \in Nat /\ d \in Nat /\ elapsed < d
  BY <1>1 DEF CursorOK, Phases
<1>3. Spent(Ahead(idx, 1), between) \in Nat
  BY <1>1, <1>2, WaitIs
<1>. HIDE DEF between
<1>4. Remaining = d - elapsed
  BY <1>2 DEF Remaining, Greater
<1>5. wait - eta \in Int
  BY <1>2, <1>3, <1>4
<1>6. keep \in Int /\ keep >= 0 /\ keep >= TransitMinGreen - elapsed
  <2>1. TransitMinGreen - elapsed \in Int /\ 0 \in Int
    BY <1>2
  <2>. QED
    BY <2>1, LesserIs
<1>. HIDE DEF wait, keep
<1>7. cut \in Int /\ cut =< Remaining - keep
  <2>1. Remaining - keep \in Int
    BY <1>2, <1>4, <1>6
  <2>2. /\ Lesser(Remaining - keep, wait - eta) \in Int
        /\ Lesser(Remaining - keep, wait - eta) =< Remaining - keep
    BY <1>5, <2>1, LesserIs
  <2>3. MaxEarlyGreen \in Int
    OBVIOUS
  <2>4. cut \in Int /\ cut =< Lesser(Remaining - keep, wait - eta)
    BY <2>2, <2>3, LesserIs
  <2>. HIDE DEF cut
  <2>. QED
    BY <2>1, <2>2, <2>4
<1>. HIDE DEF cut
<1>8. cut > 0
  BY <1>1
<1>9. /\ cut \in Nat /\ (d - cut) >= TransitMinGreen
      /\ elapsed + cut =< d
  BY <1>2, <1>4, <1>6, <1>7, <1>8
<1>. QED
  BY <1>1, <1>9

LEMMA TransitStep ==
    ASSUME CursorOK, CountersOK, Transit
    PROVE  /\ CountersOK'
           /\ \/ Driven /\ Kept
              \/ Cut
<1>. USE PlanFacts, FixedFacts, PriorityFacts
<1>. DEFINE later == Lesser(spacing + Dt, MinSpacing)
<1>1. /\ extended \in 0..MaxExtension + Dt /\ early \in BOOLEAN
      /\ spacing \in 0..MinSpacing
  BY DEF CountersOK
<1>2. later \in 0..MinSpacing
  BY <1>1 DEF Lesser
<1>3. ASSUME NEW x \in 0..MaxExtension + Dt, NEW cut \in BOOLEAN,
             NEW s \in 0..MinSpacing, Counted(x, cut, s)
      PROVE  CountersOK' /\ early' = (idx' = idx /\ cut)
  BY <1>3 DEF Counted, CountersOK
<1>. HIDE DEF later
<1>4. CASE Plain(elapsed) /\ Counted(extended, early, later)
  <2>1. 0 \in Greens \cup {0} /\ MoveTo(Advance(idx, elapsed + Dt, 0))
    BY <1>4 DEF Plain
  <2>2. Driven
    BY <2>1, AdvanceDrives
  <2>. QED
    BY <1>1, <1>2, <1>3, <1>4, <2>2 DEF Kept
<1>5. ASSUME NEW m \in Movements, NEW eta \in Etas, MayExtend(m, eta),
             Freeze, Counted(extended + Dt, early, 0)
      PROVE  CountersOK' /\ Driven /\ Kept
  <2>1. MaxExtension - extended > 0
    BY <1>5 DEF MayExtend
  <2>2. extended + Dt \in 0..MaxExtension + Dt /\ 0 \in 0..MinSpacing
    BY <1>1, <2>1
  <2>. QED
    BY <1>1, <1>3, <1>5, <2>2 DEF Driven, Kept
<1>6. ASSUME NEW m \in Movements, NEW eta \in Etas, EarlyCut(m, eta) > 0,
             Plain(SkipAhead(EarlyCut(m, eta))), Counted(extended, TRUE, 0)
      PROVE  CountersOK' /\ Cut
  <2>. DEFINE cut == EarlyCut(m, eta)
              d == Plan[idx].duration
              e == SkipAhead(cut)
  <2>1. /\ idx \in Greens /\ ~early /\ cut \in Nat
        /\ (d - cut) >= TransitMinGreen /\ elapsed + cut =< d
    BY <1>6, CutIs
  <2>. HIDE DEF cut
  <2>2. idx \in Phases /\ elapsed \in Nat /\ d \in Nat /\ elapsed < d
    BY <2>1 DEF CursorOK, Phases
  <2>3. /\ e \in Nat /\ e >= elapsed /\ e < d
        /\ (d - e) + elapsed >= TransitMinGreen
    BY <2>1, <2>2 DEF SkipAhead, Lesser
  <2>4. 0 \in Greens \cup {0} /\ MoveTo(Advance(idx, e + Dt, 0))
    BY <1>6 DEF Plain, cut
  <2>. HIDE DEF e
  <2>5. \E k \in 0..N : Runs(e, 0, k)
    BY <2>1, <2>2, <2>3, <2>4, AdvanceRuns
  <2>6. 0 \in 0..MinSpacing
    OBVIOUS
  <2>7. CountersOK' /\ early' = (idx' = idx /\ TRUE)
    BY <1>1, <1>3, <1>6, <2>6
  <2>. QED
    BY <1>1, <2>1, <2>3, <2>5, <2>7 DEF Cut
<1>. QED
  BY <1>4, <1>5, <1>6 DEF Transit, later

LEMMA NormalStep ==
    ASSUME Ready, CountersOK, NEW e \in Vehicles, NEW d, Normal(e, d)
    PROVE  /\ HoldTimed /\ ControlOK' /\ CountersOK'
           /\ \/ Driven /\ Kept
              \/ Cut
<1>. USE PlanFacts, PriorityFacts
<1>1. /\ state = "normal" /\ state' = state /\ goal' = goal /\ resume' = resume
      /\ held' = held /\ ev' = e /\ lockout' = Greater(0, lockout - Dt) /\ Transit
  BY DEF Normal
<1>2. /\ CountersOK'
      /\ \/ Driven /\ Kept
         \/ Cut
  BY <1>1, TransitStep DEF Ready
<1>3. HoldTimed
  BY <1>1 DEF HoldTimed
<1>4. lockout' \in 0..MinRecovery
  BY <1>1 DEF Ready, ControlOK, Greater
<1>5. ControlOK'
  BY <1>1, <1>4 DEF Ready, ControlOK
<1>. QED
  BY <1>2, <1>3, <1>5

(* A tick of the priority controller. *)
LEMMA TickStep ==
    ASSUME Ready, CountersOK, PriorityTick
    PROVE  /\ HoldTimed /\ ControlOK' /\ CountersOK'
           /\ AfterStep /\ Watched /\ UNCHANGED <<offset, clock, fitted>>
           /\ \/ Driven /\ Kept
              \/ Cut
<1>. USE PlanFacts, PriorityFacts
<1>. DEFINE Acts(e, d) ==
              \/ Normal(e, d)
              \/ /\ \/ Begin(e, d)
                    \/ UnderWay(e, d)
                    \/ Recover(e)
                 /\ Counted(extended, early, Lesser(spacing + Dt, MinSpacing))
<1>0. PICK e \in Traffic :
         \E d \in SUBSET {m \in Movements : e[m] # "none"} : Acts(e, d)
  BY DEF PriorityTick
<1>1. PICK d \in SUBSET {m \in Movements : e[m] # "none"} : Acts(e, d)
  BY <1>0
<1>2. e \in Vehicles /\ d \in SUBSET Movements
  BY DEF Traffic, Vehicles
<1>3. AfterStep /\ Watched /\ UNCHANGED <<offset, clock, fitted>>
  BY DEF PriorityTick
<1>4. CASE Normal(e, d)
  BY <1>2, <1>3, <1>4, NormalStep
<1>5. CASE /\ \/ Begin(e, d)
              \/ UnderWay(e, d)
              \/ Recover(e)
           /\ Counted(extended, early, Lesser(spacing + Dt, MinSpacing))
  <2>1. Driven /\ HoldTimed /\ ControlOK'
    BY <1>2, <1>5, BeginStep, UnderWayStep, RecoverStep
  <2>2. /\ extended' = IF idx' = idx THEN extended ELSE 0
        /\ early' = (idx' = idx /\ early)
        /\ spacing' = Lesser(spacing + Dt, MinSpacing)
    BY <1>5 DEF Counted
  <2>3. CountersOK'
    BY <2>2 DEF CountersOK, Lesser
  <2>. QED
    BY <1>3, <2>1, <2>2, <2>3 DEF Kept
<1>. QED
  BY <1>1, <1>4, <1>5

LEMMA StepMoves ==
    ASSUME CursorOK, (Driven /\ Kept) \/ Cut PROVE Moved
<1>1. CASE Freeze
  BY <1>1 DEF Moved
<1>2. CASE \E g \in Greens \cup {0}, k \in 0..N : Runs(elapsed, g, k)
  BY <1>2 DEF Moved, CursorOK
<1>3. CASE Ended
  BY <1>3 DEF Moved, Ended
<1>4. CASE Cut
  <2>1. 0 \in Greens \cup {0}
    OBVIOUS
  <2>. QED
    BY <1>4, <2>1 DEF Moved, Cut
<1>. QED
  BY <1>1, <1>2, <1>3, <1>4 DEF Driven

(***************************************************************************)
(* How long a green is on.                                                 *)
(***************************************************************************)

(* What of the green showing is still to come, or was, against how long it *)
(* has been on: its age and its hold no longer than that, its place in the *)
(* plan less than a step ahead of that, and after a cut what is left of it *)
(* enough for its minimum.                                                 *)
LitOK ==
    idx \in Greens =>
        \/ lit >= PlanTime
        \/ /\ greenAge =< lit
           /\ state = "hold" => held =< lit
           /\ ~early => elapsed < lit + Dt
           /\ early => ((Plan[idx].duration - elapsed) + lit) + Dt > TransitMinGreen

LitRange == greenAge \in 0..MinGreen /\ lit \in 0..PlanTime

LEMMA PlanCovers == \A i \in Phases : Plan[i].duration =< PlanTime
<1>. USE PlanFacts
<1>. TAKE i \in Phases
<1>1. i \in 1..N /\ i \in 0..N /\ i - 1 \in 0..N /\ N \in 0..N
  BY DEF Phases
<1>2. Ends[i] = Ends[i - 1] + Plan[i].duration /\ Ends[i] =< Ends[N]
  BY <1>1, EndsAdd, EndsGrow
<1>3. Ends[i - 1] \in Nat /\ Ends[i] \in Nat /\ Ends[N] \in Nat
      /\ Plan[i].duration \in Nat
  BY <1>1, EndsAdd
<1>. QED
  BY <1>2, <1>3 DEF PlanTime

LEMMA LeastIs ==
    /\ Least \in Nat /\ Least =< MinGreen /\ Least =< TransitMinGreen
    /\ \A g \in Greens : Least =< Plan[g].duration
<1>. USE PlanFacts, FixedFacts, PriorityFacts
<1>. DEFINE S == {MinGreen, TransitMinGreen} \cup {Plan[g].duration : g \in Greens}
<1>1. S \in SUBSET Nat /\ MinGreen \in S /\ TransitMinGreen \in S
  BY DEF Phases
<1>2. \A g \in Greens : Plan[g].duration \in S
  OBVIOUS
<1>3. Min(S) \in S /\ \A x \in S : Min(S) =< x
  <2>. HIDE DEF S
  <2>. QED
    BY <1>1, MinNat
<1>4. Least = Min(S)
  BY DEF Least
<1>. HIDE DEF S
<1>. QED
  BY <1>1, <1>2, <1>3, <1>4

(* A run out of a green never comes back to it in the same tick. *)
LEMMA NotRound ==
    ASSUME CursorOK, idx \in Greens, NEW e \in Nat, NEW k \in 1..N,
           Runs(e, 0, k)
    PROVE  idx' # idx
<1>. USE PlanFacts, FixedFacts, PlanOfPriority
<1>1. /\ idx \in Phases /\ k \in 0..N /\ 0 \in Greens \cup {0}
  BY DEF CursorOK
<1>2. /\ idx' \in Phases
      /\ idx' # Ahead(idx, k) => idx' = 0
      /\ \A j \in 1..k - 1 : Plan[Ahead(idx, j)].color = "red"
  BY <1>1, RunsTo
<1>3. idx' = Ahead(idx, k)
  BY <1>2
<1>4. PICK h \in Greens : h # idx
  OBVIOUS
<1>5. PICK j \in 0..N - 1 : Ahead(idx, j) = h
  BY <1>1, SomeAhead
<1>6. j # 0
  BY <1>1, <1>4, <1>5, AheadZero
<1>7. Plan[h].color # "red"
  BY DEF Greens
<1>8. ~(j < k)
  BY <1>2, <1>5, <1>6, <1>7
<1>9. k \in 0..N - 1 /\ 0 \in 0..N - 1
  BY <1>5, <1>8
<1>10. Ahead(idx, k) # Ahead(idx, 0)
  BY <1>1, <1>9, AheadDiffers
<1>. QED
  BY <1>1, <1>3, <1>10, AheadZero

(* A tick of a phase either goes on in it or leaves it behind. *)
LEMMA RunsOn ==
    ASSUME CursorOK, NEW e \in Nat, NEW g \in Greens \cup {0}, NEW k \in 0..N,
           Runs(e, g, k)
    PROVE  \/ k = 0 /\ idx' = idx /\ elapsed' = e + Dt
           \/ /\ k \in 1..N /\ e + Dt >= Plan[idx].duration
              /\ e < Plan[idx].duration => elapsed' < Dt
<1>. USE PlanFacts, FixedFacts
<1>1. idx \in Phases /\ e =< Plan[idx].duration /\ Plan[idx].duration \in Nat
  BY DEF CursorOK, Runs, Phases
<1>2. /\ e + Dt >= Spent(idx, k) /\ elapsed' = (e + Dt) - Spent(idx, k)
      /\ Spent(idx, k) \in Nat /\ (k = 0 => idx' = idx)
  BY RunsTo
<1>3. CASE k = 0
  BY <1>1, <1>2, <1>3, SpentParts
<1>4. CASE k # 0
  <2>1. k \in 1..N
    BY <1>4
  <2>2. /\ Spent(idx, k) >= Plan[idx].duration
        /\ e < Plan[idx].duration => (e + Dt) - Spent(idx, k) < Dt
    BY <1>1, <1>2, <2>1, EarlyLanding
  <2>. QED
    BY <1>1, <1>2, <2>1, <2>2
<1>. QED
  BY <1>3, <1>4

(* A green begins. *)
LEMMA LitBegins ==
    ASSUME Ready, elapsed < Plan[idx].duration, HoldTimed, AfterStep,
           (Driven /\ Kept) \/ Cut, idx \notin Greens
    PROVE  LitRange' /\ LitOK'
<1>. USE PlanFacts, FixedFacts, PriorityFacts
<1>1. greenAge' = 0 /\ lit' = 0
  BY DEF AfterStep
<1>2. LitRange'
  BY <1>1 DEF LitRange
<1>3. ASSUME idx' \in Greens PROVE LitOK'
  <2>1. idx' # idx /\ ~Ended /\ ~Cut /\ ~Freeze
    BY <1>3 DEF Ended, Cut, Freeze
  <2>2. PICK g \in Greens \cup {0}, k \in 0..N : Runs(elapsed, g, k)
    BY <2>1 DEF Driven
  <2>3. early' = FALSE
    BY <2>1 DEF Kept
  <2>4. elapsed \in Nat /\ CursorOK
    BY DEF Ready, CursorOK
  <2>5. elapsed' < Dt
    BY <2>1, <2>2, <2>4, RunsOn
  <2>6. state # "hold"
    BY DEF Ready, ControlOK
  <2>7. state' = "hold" => held' = 0
    BY <2>6 DEF HoldTimed
  <2>. QED
    BY <1>1, <2>3, <2>5, <2>7 DEF LitOK
<1>. QED
  BY <1>2, <1>3 DEF LitOK

(* A green goes on, or gives way to another. *)
LEMMA LitGoesOn ==
    ASSUME Ready, CountersOK, LitRange, LitOK, HoldTimed, AfterStep,
           (Driven /\ Kept) \/ Cut, idx \in Greens, idx' \in Greens
    PROVE  LitRange' /\ LitOK'
<1>. USE PlanFacts, FixedFacts, PriorityFacts
<1>1. /\ idx \in Phases /\ elapsed \in Nat /\ elapsed < Plan[idx].duration
      /\ Plan[idx].duration \in Nat /\ CursorOK
  BY DEF Ready, CursorOK, Phases
<1>2. greenAge \in 0..MinGreen /\ lit \in 0..PlanTime /\ held \in Nat /\ early \in BOOLEAN
  BY DEF LitRange, Ready, ControlOK, CountersOK
<1>3. /\ lit' = Lesser(lit + Dt, PlanTime)
      /\ greenAge' = GreenAge \/ greenAge' = 0
      /\ GreenAge = Lesser(greenAge + Dt, MinGreen)
  BY DEF AfterStep, GreenAge
<1>4. LitRange'
  BY <1>2, <1>3 DEF LitRange, Lesser
<1>5. CASE lit + Dt >= PlanTime
  <2>1. lit' = PlanTime
    BY <1>2, <1>3, <1>5 DEF Lesser
  <2>2. lit' >= PlanTime' /\ PlanTime' = PlanTime
    BY <2>1
  <2>. QED
    BY <1>4, <2>2 DEF LitOK
<1>6. CASE lit + Dt < PlanTime
  <2>1. lit' = lit + Dt /\ ~(lit >= PlanTime)
    BY <1>2, <1>3, <1>6 DEF Lesser
  <2>2. /\ greenAge =< lit
        /\ state = "hold" => held =< lit
        /\ ~early => elapsed < lit + Dt
        /\ early => ((Plan[idx].duration - elapsed) + lit) + Dt > TransitMinGreen
    BY <2>1 DEF LitOK
  <2>3. greenAge' =< lit'
    BY <1>2, <1>3, <2>1, <2>2 DEF Lesser
  <2>4. state' = "hold" => held' =< lit'
    BY <1>2, <2>1, <2>2 DEF HoldTimed
  <2>. DEFINE Rest == /\ ~early' => elapsed' < lit' + Dt
                      /\ early' => ((Plan[idx'].duration - elapsed') + lit') + Dt
                                      > TransitMinGreen
  <2>5. ASSUME Freeze, Kept PROVE Rest
    <3>1. idx' = idx /\ elapsed' = elapsed
      BY <2>5 DEF Freeze
    <3>2. early' = early
      BY <1>2, <2>5, <3>1, Zenon DEF Kept
    <3>. QED
      BY <1>1, <1>2, <2>1, <2>2, <3>1, <3>2
  <2>6. ASSUME NEW g \in Greens \cup {0}, NEW k \in 0..N, Runs(elapsed, g, k), Kept
        PROVE  Rest
    <3>1. g = 0
      BY <2>6 DEF Runs
    <3>2. CASE k = 0 /\ idx' = idx /\ elapsed' = elapsed + Dt
      <4>1. early' = early
        BY <1>2, <2>6, <3>2, Zenon DEF Kept
      <4>. QED
        BY <1>1, <1>2, <2>1, <2>2, <3>2, <4>1
    <3>3. CASE k \in 1..N /\ elapsed' < Dt
      <4>1. idx' # idx
        BY <1>1, <2>6, <3>1, <3>3, NotRound
      <4>2. early' = FALSE
        BY <2>6, <4>1 DEF Kept
      <4>. QED
        <5>1. elapsed' < lit' + Dt
          <6>1. elapsed' \in Nat
            BY <1>1, <2>6, RunsTo
          <6>. QED
            BY <1>2, <2>1, <3>3, <6>1
        <5>. QED
          BY <4>2, <5>1
    <3>. QED
      BY <1>1, <2>6, <3>2, <3>3, RunsOn
  <2>7. ASSUME Cut PROVE Rest
    <3>1. PICK e \in Nat, k \in 0..N :
             /\ Runs(e, 0, k) /\ (Plan[idx].duration - e) + elapsed >= TransitMinGreen
      BY <2>7 DEF Cut
    <3>2. early = FALSE /\ early' = (idx' = idx) /\ 0 \in Greens \cup {0}
          /\ e < Plan[idx].duration
      BY <2>7, <3>1 DEF Cut, Runs
    <3>3. elapsed < lit + Dt
      BY <2>2, <3>2
    <3>4. CASE k = 0 /\ idx' = idx /\ elapsed' = e + Dt
      <4>1. early' = TRUE
        BY <3>2, <3>4
      <4>2. ((Plan[idx].duration - elapsed') + lit') + Dt > TransitMinGreen
        BY <1>1, <1>2, <2>1, <3>1, <3>3, <3>4
      <4>. QED
        BY <3>4, <4>1, <4>2
    <3>5. CASE k \in 1..N /\ elapsed' < Dt
      <4>1. idx' # idx
        BY <1>1, <3>1, <3>5, NotRound
      <4>2. early' = FALSE
        BY <3>2, <4>1
      <4>3. elapsed' \in Nat
        BY <1>1, <3>1, <3>2, RunsTo
      <4>4. elapsed' < lit' + Dt
        BY <1>2, <2>1, <3>5, <4>3
      <4>. QED
        BY <4>2, <4>4
    <3>. QED
      BY <1>1, <3>1, <3>2, <3>4, <3>5, RunsOn
  <2>8. ~Ended
    BY StartIs DEF Ended, Clearances
  <2>9. Rest
    BY <2>5, <2>6, <2>7, <2>8 DEF Driven
  <2>. QED
    BY <1>4, <2>3, <2>4, <2>9 DEF LitOK
<1>. QED
  BY <1>2, <1>5, <1>6, FixedFacts

(* A green ends, not before its minimum. *)
LEMMA LitEnds ==
    ASSUME Ready, CountersOK, LitRange, LitOK, AfterStep,
           (Driven /\ Kept) \/ Cut, idx \in Greens, idx' \notin Greens
    PROVE  LitRange' /\ LitOK' /\ lit + (2 * Dt) > Least
<1>. USE PlanFacts, FixedFacts, PriorityFacts, LeastIs
<1>1. /\ idx \in Phases /\ elapsed \in Nat /\ elapsed < Plan[idx].duration
      /\ Plan[idx].duration \in Nat /\ CursorOK
  BY DEF Ready, CursorOK, Phases
<1>2. greenAge \in 0..MinGreen /\ lit \in 0..PlanTime /\ held \in Nat /\ early \in BOOLEAN
  BY DEF LitRange, Ready, ControlOK, CountersOK
<1>3. greenAge' = 0 /\ lit' = 0
  BY DEF AfterStep
<1>4. LitRange' /\ LitOK'
  BY <1>3 DEF LitRange, LitOK
<1>5. CASE lit >= PlanTime
  <2>1. Plan[idx].duration =< PlanTime
    BY <1>1, PlanCovers
  <2>. QED
    BY <1>1, <1>2, <1>4, <1>5, <2>1
<1>6. CASE ~(lit >= PlanTime)
  <2>1. /\ greenAge =< lit
        /\ state = "hold" => held =< lit
        /\ ~early => elapsed < lit + Dt
        /\ early => ((Plan[idx].duration - elapsed) + lit) + Dt > TransitMinGreen
    BY <1>6 DEF LitOK
  <2>2. ASSUME Ended PROVE lit + (2 * Dt) > Least
    <3>1. CASE GreenServed
      <4>1. greenAge + Dt >= MinGreen
        BY <1>2, <3>1 DEF GreenServed, GreenAge, Lesser
      <4>. QED
        BY <1>2, <2>1, <4>1
    <3>2. CASE state = "hold" /\ held + Dt >= MaxHold
      BY <1>2, <2>1, <3>2
    <3>. QED
      BY <2>2, <3>1, <3>2 DEF Ended
  <2>3. ASSUME NEW g \in Greens \cup {0}, NEW k \in 0..N, Runs(elapsed, g, k)
        PROVE  lit + (2 * Dt) > Least
    <3>1. elapsed + Dt >= Plan[idx].duration
      BY <1>1, <2>3, RunsOn
    <3>2. CASE early
      BY <1>1, <1>2, <2>1, <3>1, <3>2
    <3>3. CASE ~early
      BY <1>1, <1>2, <2>1, <3>1, <3>3
    <3>. QED
      BY <3>2, <3>3
  <2>4. ASSUME Cut PROVE lit + (2 * Dt) > Least
    <3>1. PICK e \in Nat, k \in 0..N :
             /\ Runs(e, 0, k) /\ (Plan[idx].duration - e) + elapsed >= TransitMinGreen
      BY <2>4 DEF Cut
    <3>2. early = FALSE /\ 0 \in Greens \cup {0}
      BY <2>4 DEF Cut
    <3>3. e + Dt >= Plan[idx].duration
      BY <1>1, <3>1, <3>2, RunsOn
    <3>4. elapsed < lit + Dt
      BY <2>1, <3>2
    <3>. QED
      BY <1>1, <1>2, <3>1, <3>3, <3>4
  <2>5. ~Freeze
    BY DEF Freeze
  <2>. QED
    BY <1>4, <2>2, <2>3, <2>4, <2>5 DEF Driven
<1>. QED
  BY <1>5, <1>6

(***************************************************************************)
(* The invariant.                                                          *)
(***************************************************************************)

PriorityInv ==
    /\ CursorOK /\ Clocked /\ Watching
    /\ ControlOK /\ CountersOK /\ LitRange /\ fitted \in BOOLEAN
    /\ fitted => elapsed < Plan[idx].duration /\ LitOK
    /\ ~fitted => state = "normal" /\ InStep
    /\ ShownInv /\ ClearanceServed

LEMMA PriorityInitInv == PriorityInit => PriorityInv
<1>. SUFFICES ASSUME PriorityInit PROVE PriorityInv
  OBVIOUS
<1>. USE PlanFacts, FixedFacts, PriorityFacts, PlanOfPriority
<1>1. /\ Init /\ fitted \in BOOLEAN /\ (fitted => offset = 0)
      /\ state = "normal" /\ goal = 0 /\ resume = 0
      /\ held = 0 /\ lockout = 0 /\ greenAge = 0 /\ ev = NoOne
      /\ extended = 0 /\ early = FALSE /\ spacing = MinSpacing /\ lit = 0
  BY DEF PriorityInit
<1>2. CursorOK /\ Watching /\ Clocked /\ InStep
  BY <1>1, InitInStep
<1>3. ControlOK
  <2>1. NoOne \in Vehicles
    BY DEF NoOne, Vehicles
  <2>. QED
    BY <1>1, <2>1 DEF ControlOK
<1>4. CountersOK /\ LitRange
  <2>. HIDE PlanOfPriority
  <2>1. 0 \in 0..MaxExtension + Dt /\ MinSpacing \in 0..MinSpacing
        /\ 0 \in 0..MinGreen /\ 0 \in 0..PlanTime
    OBVIOUS
  <2>. QED
    BY <1>1, <2>1 DEF CountersOK, LitRange
<1>5. lastGreen = 0
  BY <1>1 DEF Init
<1>6. ShownInv /\ ClearanceServed
  BY <1>5 DEF ShownInv, ClearanceServed
<1>7. ASSUME fitted PROVE elapsed < Plan[idx].duration /\ LitOK
  <2>1. 0 % PlanTime = 0 /\ 0 \in 0..PlanTime - 1
    <3>1. 0 \in 0..PlanTime - 1 /\ 0 \in Int /\ (PlanTime * 0) + 0 = 0
      OBVIOUS
    <3>. QED
      BY <3>1, ModUnique
  <2>2. idx = AdvanceBy(0).at /\ elapsed = AdvanceBy(0).left
    BY <1>1, <1>7, <2>1 DEF Init
  <2>3. idx = 1 /\ elapsed = 0
    BY <2>1, <2>2, StartsAt
  <2>4. elapsed < Plan[idx].duration
    BY <1>2, <2>3 DEF CursorOK
  <2>5. LitOK
    BY <1>1, <2>3 DEF LitOK
  <2>. QED
    BY <2>4, <2>5
<1>. QED
  BY <1>1, <1>2, <1>3, <1>4, <1>6, <1>7 DEF PriorityInv

(* What a tick does to the invariant, with a priority controller... *)
LEMMA FittedStep ==
    ASSUME PriorityInv, PriorityTick
    PROVE  /\ PriorityInv' /\ Moved
           /\ fitted /\ idx \in Greens /\ idx' \notin Greens
                 => lit + (2 * Dt) > Least
<1>. USE FixedFacts
<1>1. /\ fitted /\ Ready /\ CursorOK /\ Clocked /\ Watching /\ CountersOK
      /\ LitRange /\ LitOK /\ ShownInv /\ ClearanceServed
      /\ elapsed < Plan[idx].duration
  BY DEF PriorityInv, Ready, PriorityTick, LitRange
<1>2. /\ HoldTimed /\ ControlOK' /\ CountersOK'
      /\ AfterStep /\ Watched /\ UNCHANGED <<offset, clock, fitted>>
      /\ (Driven /\ Kept) \/ Cut
  BY <1>1, TickStep
<1>3. Moved
  BY <1>1, <1>2, StepMoves
<1>4. CursorOK' /\ elapsed' < Plan[idx'].duration
  BY <1>1, <1>3, MovedCursor DEF Freeze
<1>5. Watching' /\ ShownInv' /\ ClearanceServed'
  BY <1>1, <1>2, <1>3, MovedServed
<1>6. Clocked'
  BY <1>1, <1>2 DEF Clocked
<1>7. /\ LitRange' /\ LitOK'
      /\ idx \in Greens /\ idx' \notin Greens => lit + (2 * Dt) > Least
  <2>1. CASE idx \notin Greens
    BY <1>1, <1>2, <2>1, LitBegins
  <2>2. CASE idx \in Greens /\ idx' \in Greens
    BY <1>1, <1>2, <2>2, LitGoesOn
  <2>3. CASE idx \in Greens /\ idx' \notin Greens
    BY <1>1, <1>2, <2>3, LitEnds
  <2>. QED
    BY <2>1, <2>2, <2>3
<1>8. fitted' = fitted
  BY <1>2
<1>9. PriorityInv'
  BY <1>1, <1>2, <1>4, <1>5, <1>6, <1>7, <1>8 DEF PriorityInv
<1>. QED
  BY <1>3, <1>7, <1>9

(* ... and without one. *)
LEMMA AloneStep ==
    ASSUME PriorityInv, ~fitted, Tick, UNCHANGED pvars
    PROVE  PriorityInv' /\ Moved
<1>. USE FixedFacts
<1>1. /\ CursorOK /\ Clocked /\ Watching /\ ControlOK /\ CountersOK /\ LitRange
      /\ state = "normal" /\ InStep /\ ShownInv /\ ClearanceServed
  BY DEF PriorityInv
<1>2. Moved
  <2>1. \E k \in 0..N : Runs(elapsed, 0, k)
    BY <1>1, UpdateMoves DEF Tick
  <2>2. 0 \in Greens \cup {0} /\ elapsed \in Nat
    BY <1>1 DEF CursorOK
  <2>. QED
    BY <2>1, <2>2 DEF Moved
<1>3. CursorOK' /\ Clocked' /\ InStep'
  BY <1>1, <1>2, MovedCursor, TickInStep
<1>4. Watching' /\ ShownInv' /\ ClearanceServed'
  BY <1>1, <1>2, MovedServed DEF Tick
<1>5. ControlOK' /\ CountersOK' /\ LitRange' /\ fitted' = fitted /\ state' = state
  BY <1>1 DEF pvars, ControlOK, CountersOK, LitRange
<1>. QED
  BY <1>1, <1>2, <1>3, <1>4, <1>5 DEF PriorityInv

LEMMA PriorityStepInv == PriorityInv /\ [PriorityNext]_allVars => PriorityInv'
<1>. SUFFICES ASSUME PriorityInv, [PriorityNext]_allVars PROVE PriorityInv'
  OBVIOUS
<1>1. CASE PriorityTick
  BY <1>1, FittedStep
<1>2. CASE ~fitted /\ Tick /\ UNCHANGED pvars
  BY <1>2, AloneStep
<1>3. CASE UNCHANGED allVars
  <2>1. UNCHANGED vars /\ UNCHANGED pvars
    BY <1>3 DEF allVars
  <2>. QED
    BY <2>1 DEF vars, pvars, PriorityInv, CursorOK, Clocked, Watching, ControlOK,
                CountersOK, LitRange, LitOK, InStep, ShownInv, ClearanceServed
<1>. QED
  BY <1>1, <1>2, <1>3 DEF PriorityNext

(* In every run the priority controller's state is what its handlers expect*)
(* of it: while a pre-emption is under way there are a green asked for and *)
(* another to return to, for other approaches, and a hold shows its green  *)
(* and never lasts longer than max_hold_s but for one time step.           *)
THEOREM PriorityTypeCorrect == PrioritySpec => []PriorityTypeOK
<1>1. PriorityInv => PriorityTypeOK
  <2>. SUFFICES ASSUME PriorityInv PROVE PriorityTypeOK
    OBVIOUS
  <2>1. TypeOK
    BY DEF PriorityInv, CursorOK, Clocked, Watching, TypeOK
  <2>2. ControlOK /\ CountersOK /\ LitRange /\ fitted \in BOOLEAN
    BY DEF PriorityInv
  <2>. QED
    BY <2>1, <2>2 DEF ControlOK, CountersOK, LitRange, PriorityTypeOK, Vehicles
<1>. QED
  BY PriorityInitInv, PriorityStepInv, <1>1, PTL DEF PrioritySpec

(* A junction without a priority controller keeps in step with the clock.  *)
THEOREM AloneNeverDrifts == PrioritySpec => []NoDriftAlone
<1>1. PriorityInv => NoDriftAlone
  BY InStepIsNoDrift DEF PriorityInv, NoDriftAlone
<1>. QED
  BY PriorityInitInv, PriorityStepInv, <1>1, PTL DEF PrioritySpec

(* No green follows another one's end before that one's clearance has been *)
(* shown, less at most a part of a time step: neither emergency vehicles   *)
(* nor buses shorten a yellow or an all-red.                               *)
THEOREM PriorityClearancesServed == PrioritySpec => []ClearanceServed
<1>1. PriorityInv => ClearanceServed
  BY DEF PriorityInv
<1>. QED
  BY PriorityInitInv, PriorityStepInv, <1>1, PTL DEF PrioritySpec

(* No approach loses its green without a yellow or gets a yellow out of a  *)
(* red, whatever pre-emption, recovery or transit priority make of the plan*)
(* and however many of its all-reds a time step passes; the head of a lane *)
(* goes from green to red only while other lanes of its approach go on.    *)
THEOREM PriorityHeadsAreSafe == PrioritySpec => HeadsChangeSafely
<1>1. PriorityInv /\ PriorityInv' /\ [PriorityNext]_allVars => [SafeChange(idx, idx')]_vars
  <2>. SUFFICES ASSUME PriorityInv, PriorityInv', [PriorityNext]_allVars
               PROVE  [SafeChange(idx, idx')]_vars
    OBVIOUS
  <2>1. CASE Moved
    <3>1. idx \in Phases /\ idx' \in Phases
      BY DEF PriorityInv, CursorOK, Phases, N
    <3>2. \A a \in Approaches : SafeForApproach(idx, idx', a)
      BY <2>1, MovedSafely DEF PriorityInv
    <3>. QED
      BY <3>1, <3>2, LanesFollow
  <2>2. CASE UNCHANGED allVars
    BY <2>2 DEF allVars
  <2>. QED
    BY <2>1, <2>2, FittedStep, AloneStep DEF PriorityNext
<1>. QED
  BY PriorityInitInv, PriorityStepInv, <1>1, PTL DEF PrioritySpec, HeadsChangeSafely

(* No green is shown for less than the safety minimum, less at most the    *)
(* parts of two time steps, however it comes to end: by the plan, for an   *)
(* emergency vehicle, after a hold or cut short for a bus.                 *)
THEOREM MinimumServed == PrioritySpec => MinGreenServed
<1>. DEFINE Served == fitted /\ idx \in Greens /\ idx' \notin Greens
                         => lit + (2 * Dt) > Least
<1>1. PriorityInv /\ [PriorityNext]_allVars => [Served]_allVars
  BY FittedStep DEF PriorityNext
<1>. QED
  BY PriorityInitInv, PriorityStepInv, <1>1, PTL DEF PrioritySpec, MinGreenServed
=============================================================================
