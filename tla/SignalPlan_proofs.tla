------------------------- MODULE SignalPlan_proofs -------------------------
(***************************************************************************)
(* Lemmas about the operators of SignalPlan: cyclic positions, the first   *)
(* position of a set, and the times between positions.                     *)
(***************************************************************************)
EXTENDS SignalPlan, WellFoundedInduction, TLAPS

(***************************************************************************)
(* Induction and least elements, for sets of numbers.                      *)
(***************************************************************************)

(* A nonempty set of natural numbers has a least member, and Min is it. *)
LEMMA MinNat ==
    ASSUME NEW S \in SUBSET Nat, S # {}
    PROVE  Min(S) \in S /\ \A x \in S : Min(S) =< x
<1>1. IsWellFoundedOn(OpToRel(<, Nat), Nat)
  BY NatLessThanWellFounded
<1>2. \E x \in S : \A y \in S : <<y, x>> \notin OpToRel(<, Nat)
  BY <1>1, WFMin
<1>3. PICK x \in S : \A y \in S : <<y, x>> \notin OpToRel(<, Nat)
  BY <1>2
<1>4. ASSUME NEW y \in S, y < x PROVE FALSE
  <2>1. <<y, x>> \in Nat \X Nat /\ <<y, x>>[1] = y /\ <<y, x>>[2] = x
    BY <1>3
  <2>2. <<y, x>>[1] < <<y, x>>[2]
    BY <2>1, <1>4
  <2>3. <<y, x>> \in OpToRel(<, Nat)
    BY <2>1, <2>2, Zenon DEF OpToRel
  <2>. QED
    BY <1>3, <2>3
<1>5. \A y \in S : x =< y
  <2>1. x \in Nat
    OBVIOUS
  <2>. QED
    BY <1>4, <2>1
<1>. QED
  BY <1>5 DEF Min

(* A set of natural numbers with 0 and the successors of its members is *)
(* all of them. *)
LEMMA NatInd ==
    ASSUME NEW S, 0 \in S, \A n \in Nat : n \in S => n + 1 \in S
    PROVE  Nat \subseteq S
<1>. SUFFICES ASSUME Nat \ S # {} PROVE FALSE
  OBVIOUS
<1>. DEFINE m == Min(Nat \ S)
<1>1. m \in Nat \ S /\ \A x \in Nat \ S : m =< x
  BY MinNat
<1>. HIDE DEF m
<1>2. m # 0 /\ m - 1 \in Nat
  BY <1>1
<1>3. m - 1 \in S
  BY <1>1, <1>2
<1>. QED
  BY <1>1, <1>2, <1>3

(* Division with remainder, and that whole periods do not change the rest. *)
LEMMA DivMod ==
    ASSUME NEW p \in Nat \ {0}, NEW x \in Int
    PROVE  x % p = x - p * (x \div p)
OBVIOUS

LEMMA ModIs ==
    ASSUME NEW p \in Nat \ {0}, NEW x \in Int
    PROVE  \E q \in Int, r \in 0..p - 1 : r = x % p /\ x = p * q + r
<1>. DEFINE r == x % p
            q == x \div p
<1>1. r \in 0..p - 1 /\ q \in Int
  OBVIOUS
<1>2. r = x - p * q
  BY DivMod
<1>. HIDE DEF r, q
<1>3. x = p * q + r
  <2>. DEFINE y == p * q
  <2>1. r = x - y /\ y \in Int
    BY <1>1, <1>2
  <2>. HIDE DEF y
  <2>2. x = y + r
    BY <1>1, <2>1
  <2>. QED
    BY <2>2 DEF y
<1>. QED
  BY <1>1, <1>3 DEF r

LEMMA ModUnique ==
    ASSUME NEW p \in Nat \ {0}, NEW q \in Int, NEW r \in 0..p - 1
    PROVE  (p * q + r) % p = r
OBVIOUS

LEMMA SameMod ==
    ASSUME NEW p \in Nat \ {0}, NEW x \in Int, NEW q \in Int
    PROVE  (x + p * q) % p = x % p
<1>1. PICK h \in Int, r \in 0..p - 1 : r = x % p /\ x = p * h + r
  BY ModIs
<1>2. x + p * q = p * (h + q) + r
  BY <1>1
<1>3. h + q \in Int
  OBVIOUS
<1>. QED
  BY <1>1, <1>2, <1>3, ModUnique

(***************************************************************************)
(* Times.                                                                  *)
(***************************************************************************)

LEMMA PlanFacts ==
    /\ N \in Nat \ {0} /\ Dt \in Nat \ {0}
    /\ \A i \in 1..N : Plan[i].duration \in Nat
BY PlanAssumption DEF PlanAssumption

(* The sums of d, from the first position to each. *)
Adds(f, d, n) == f[0] = 0 /\ \A i \in 1..n : f[i] = f[i - 1] + d[i]

LEMMA PartialSums ==
    ASSUME NEW d \in [1..N -> Nat], NEW n \in 0..N
    PROVE  \E f \in [0..n -> Nat] : Adds(f, d, n)
<1>. DEFINE S == {m \in Nat : m =< N => \E f \in [0..m -> Nat] : Adds(f, d, m)}
<1>1. 0 \in S
  <2>. DEFINE f == [i \in 0..0 |-> 0]
  <2>1. f \in [0..0 -> Nat] /\ Adds(f, d, 0)
    BY DEF Adds
  <2>. QED
    BY <2>1
<1>2. ASSUME NEW m \in Nat, m \in S PROVE m + 1 \in S
  <2>. SUFFICES ASSUME m + 1 =< N
               PROVE  \E f \in [0..m + 1 -> Nat] : Adds(f, d, m + 1)
    OBVIOUS
  <2>1. m =< N /\ d[m + 1] \in Nat
    BY PlanFacts
  <2>2. PICK f \in [0..m -> Nat] : Adds(f, d, m)
    BY <1>2, <2>1
  <2>. DEFINE g == [i \in 0..m + 1 |-> IF i =< m THEN f[i] ELSE f[m] + d[m + 1]]
  <2>3. g \in [0..m + 1 -> Nat]
    BY <2>1
  <2>4. g[0] = 0
    BY <2>2 DEF Adds
  <2>5. ASSUME NEW i \in 1..m + 1 PROVE g[i] = g[i - 1] + d[i]
    <3>1. CASE i =< m
      BY <2>2, <3>1 DEF Adds
    <3>2. CASE i = m + 1
      BY <3>2
    <3>. QED
      BY <3>1, <3>2
  <2>. QED
    BY <2>3, <2>4, <2>5 DEF Adds
<1>. HIDE DEF S
<1>3. Nat \subseteq S
  BY <1>1, <1>2, NatInd
<1>4. n \in Nat /\ n =< N
  BY PlanFacts
<1>5. n \in S
  BY <1>3, <1>4
<1>. QED
  BY <1>4, <1>5 DEF S

(* There is a function as Ends asks for, for any durations d. *)
LEMMA SumsExist ==
    ASSUME NEW d \in [1..N -> Nat]
    PROVE  \E f : f = [i \in 0..N |-> IF i = 0 THEN 0 ELSE f[i - 1] + d[i]]
<1>. DEFINE Sums(f) == [i \in 0..N |-> IF i = 0 THEN 0 ELSE f[i - 1] + d[i]]
<1>1. PICK f \in [0..N -> Nat] : Adds(f, d, N)
  <2>1. N \in 0..N
    BY PlanFacts
  <2>. QED
    BY <2>1, PartialSums
<1>2. \A i \in 0..N : f[i] = Sums(f)[i]
  BY <1>1, PlanFacts DEF Adds
<1>3. f = Sums(f)
  BY <1>2
<1>. QED
  BY <1>3

(* Such a function has natural numbers as values, which grow. *)
LEMMA SumsGrow ==
    ASSUME NEW d \in [1..N -> Nat], NEW f, Adds(f, d, N)
    PROVE  /\ \A i \in 0..N : f[i] \in Nat
           /\ \A i, j \in 0..N : i =< j => f[i] =< f[j]
<1>. USE PlanFacts
<1>. DEFINE S == {n \in Nat : n =< N =>
                     \A i \in 0..n : f[i] \in Nat /\ f[i] =< f[n]}
<1>1. 0 \in S
  BY DEF Adds
<1>2. ASSUME NEW n \in Nat, n \in S PROVE n + 1 \in S
  <2>. SUFFICES ASSUME n + 1 =< N
               PROVE  \A i \in 0..n + 1 : f[i] \in Nat /\ f[i] =< f[n + 1]
    OBVIOUS
  <2>1. n + 1 \in 1..N /\ d[n + 1] \in Nat /\ (n + 1) - 1 = n
    OBVIOUS
  <2>2. f[n + 1] = f[n] + d[n + 1]
    BY <2>1 DEF Adds
  <2>3. \A i \in 0..n : f[i] \in Nat /\ f[i] =< f[n]
    BY <1>2
  <2>4. f[n] \in Nat /\ f[n + 1] \in Nat /\ f[n] =< f[n + 1]
    BY <2>1, <2>2, <2>3
  <2>5. ASSUME NEW i \in 0..n + 1 PROVE f[i] \in Nat /\ f[i] =< f[n + 1]
    <3>1. CASE i = n + 1
      BY <2>4, <3>1
    <3>2. CASE i # n + 1
      <4>1. i \in 0..n
        BY <3>2
      <4>. QED
        BY <2>3, <2>4, <4>1
    <3>. QED
      BY <3>1, <3>2
  <2>. QED
    BY <2>5
<1>3. Nat \subseteq S
  <2>. HIDE DEF S
  <2>. QED
    BY <1>1, <1>2, NatInd
<1>. QED
  BY <1>3

LEMMA EndsAdd ==
    /\ Ends \in [0..N -> Nat]
    /\ Ends[0] = 0
    /\ \A i \in 1..N : Ends[i] = Ends[i - 1] + Plan[i].duration
<1>. USE PlanFacts
<1>. DEFINE d == [i \in 1..N |-> Plan[i].duration]
            Sums(f) == [i \in 0..N |-> IF i = 0 THEN 0
                                      ELSE f[i - 1] + Plan[i].duration]
<1>1. d \in [1..N -> Nat]
  OBVIOUS
<1>2. PICK f : f = [i \in 0..N |-> IF i = 0 THEN 0 ELSE f[i - 1] + d[i]]
  BY <1>1, SumsExist
<1>3. f = Sums(f)
  <2>1. Sums(f) = [i \in 0..N |-> IF i = 0 THEN 0 ELSE f[i - 1] + d[i]]
    OBVIOUS
  <2>. QED
    BY <1>2, <2>1
<1>4. Ends = Sums(Ends)
  BY <1>3 DEF Ends
<1>5. /\ Ends[0] = 0
      /\ \A i \in 1..N : Ends[i] = Ends[i - 1] + Plan[i].duration
  BY <1>4
<1>6. Adds(Ends, d, N)
  BY <1>5 DEF Adds
<1>7. \A i \in 0..N : Ends[i] \in Nat
  BY <1>1, <1>6, SumsGrow
<1>. QED
  BY <1>4, <1>5, <1>7

(* Ends grows from phase to phase. *)
LEMMA EndsGrow ==
    ASSUME NEW i \in 0..N, NEW j \in 0..N, i =< j
    PROVE  Ends[i] =< Ends[j]
<1>. DEFINE d == [n \in 1..N |-> Plan[n].duration]
<1>1. d \in [1..N -> Nat]
  BY PlanFacts
<1>2. Adds(Ends, d, N)
  BY EndsAdd DEF Adds
<1>. QED
  BY <1>1, <1>2, SumsGrow

(***************************************************************************)
(* Positions.                                                              *)
(***************************************************************************)

(* A position within a cycle of i wraps around at most once. *)
LEMMA AheadIs ==
    ASSUME NEW i \in Phases, NEW k \in 0..N
    PROVE  /\ Ahead(i, k) = IF i + k =< N THEN i + k ELSE i + k - N
           /\ Ahead(i, k) \in Phases
<1>. DEFINE x == i - 1 + k
<1>1. N \in Nat /\ N > 0 /\ i \in 1..N
  BY PlanFacts DEF Phases
<1>2. CASE i + k =< N
  <2>1. x % N = x
    BY <1>1, <1>2
  <2>. QED
    BY <1>1, <1>2, <2>1 DEF Ahead, Phases
<1>3. CASE i + k > N
  <2>1. x % N = x - N
    BY <1>1, <1>3
  <2>. QED
    BY <1>1, <1>3, <2>1 DEF Ahead, Phases
<1>. QED
  BY <1>1, <1>2, <1>3

(* Going round: nowhere, in two parts, the whole way, and to any position. *)
LEMMA AheadZero ==
    ASSUME NEW i \in Phases PROVE Ahead(i, 0) = i /\ Ahead(i, N) = i
BY AheadIs, PlanFacts DEF Phases

LEMMA AheadAhead ==
    ASSUME NEW i \in Phases, NEW m \in Nat, NEW k \in Nat, m + k =< N
    PROVE  Ahead(Ahead(i, m), k) = Ahead(i, m + k)
<1>1. m \in 0..N /\ k \in 0..N /\ m + k \in 0..N
  BY PlanFacts
<1>2. /\ Ahead(i, m) \in Phases
      /\ Ahead(i, m) = IF i + m =< N THEN i + m ELSE i + m - N
      /\ Ahead(i, m + k) = IF i + (m + k) =< N THEN i + (m + k) ELSE i + (m + k) - N
  BY <1>1, AheadIs
<1>. DEFINE j == Ahead(i, m)
<1>3. Ahead(j, k) = IF j + k =< N THEN j + k ELSE j + k - N
  BY <1>1, <1>2, AheadIs
<1>. QED
  BY <1>1, <1>2, <1>3, PlanFacts DEF Phases

LEMMA SomeAhead ==
    ASSUME NEW i \in Phases, NEW j \in Phases
    PROVE  \E k \in 0..N - 1 : Ahead(i, k) = j
<1>. DEFINE k == IF i =< j THEN j - i ELSE j - i + N
<1>1. k \in 0..N - 1 /\ k \in 0..N
  BY PlanFacts DEF Phases
<1>2. Ahead(i, k) = IF i + k =< N THEN i + k ELSE i + k - N
  BY <1>1, AheadIs
<1>3. Ahead(i, k) = j
  BY <1>2, PlanFacts DEF Phases
<1>. QED
  BY <1>1, <1>3

(* Different ways short of a cycle lead to different positions. *)
LEMMA AheadDiffers ==
    ASSUME NEW i \in Phases, NEW k \in 0..N - 1, NEW m \in 0..N - 1,
           Ahead(i, k) = Ahead(i, m)
    PROVE  k = m
<1>1. k \in 0..N /\ m \in 0..N /\ k < N /\ m < N
  BY PlanFacts
<1>2. /\ Ahead(i, k) = IF i + k =< N THEN i + k ELSE i + k - N
      /\ Ahead(i, m) = IF i + m =< N THEN i + m ELSE i + m - N
  BY <1>1, AheadIs
<1>3. N \in Nat /\ i \in 1..N
  BY PlanFacts DEF Phases
<1>4. (IF i + k =< N THEN i + k ELSE i + k - N)
         = (IF i + m =< N THEN i + m ELSE i + m - N)
  BY <1>2
<1>. QED
  BY <1>1, <1>3, <1>4

(* One cycle less one phase leads to the phase before. *)
LEMMA AheadBefore ==
    ASSUME NEW i \in Phases, NEW j \in 1..N
    PROVE  Ahead(Ahead(i, j), N - 1) = Ahead(i, j - 1)
<1>. USE PlanFacts
<1>. DEFINE h == Ahead(i, j)
<1>1. /\ h \in Phases
      /\ h = IF i + j =< N THEN i + j ELSE i + j - N
      /\ Ahead(i, j - 1) = IF i + (j - 1) =< N THEN i + (j - 1) ELSE i + (j - 1) - N
  <2>1. j \in 0..N /\ j - 1 \in 0..N
    OBVIOUS
  <2>. QED
    BY <2>1, AheadIs
<1>. HIDE DEF h
<1>2. Ahead(h, N - 1) = IF h + (N - 1) =< N THEN h + (N - 1) ELSE h + (N - 1) - N
  <2>1. N - 1 \in 0..N
    OBVIOUS
  <2>. QED
    BY <1>1, <2>1, AheadIs
<1>3. i \in 1..N /\ h \in 1..N
  BY <1>1 DEF Phases
<1>4. Ahead(h, N - 1) = Ahead(i, j - 1)
  BY <1>1, <1>2, <1>3
<1>. QED
  BY <1>4 DEF h

(* FirstFrom goes to a member of the set and passes no other. *)
LEMMA FirstFromIs ==
    ASSUME NEW i \in Phases, NEW S \in SUBSET Phases, S # {}
    PROVE  \E k \in 0..N - 1 :
              /\ FirstFrom(i, S) = Ahead(i, k) /\ Ahead(i, k) \in S
              /\ \A j \in 0..k - 1 : Ahead(i, j) \notin S
<1>. DEFINE T == {k \in 0..N - 1 : Ahead(i, k) \in S}
<1>1. T \in SUBSET Nat /\ T # {}
  <2>1. PICK p \in S : p \in Phases
    OBVIOUS
  <2>. QED
    BY <2>1, SomeAhead, PlanFacts
<1>2. Min(T) \in T /\ \A x \in T : Min(T) =< x
  <2>. HIDE DEF T
  <2>. QED
    BY <1>1, MinNat
<1>. DEFINE k == Min(T)
<1>3. k \in 0..N - 1 /\ Ahead(i, k) \in S
  BY <1>2
<1>4. FirstFrom(i, S) = Ahead(i, k)
  BY DEF FirstFrom
<1>5. ASSUME NEW j \in 0..k - 1 PROVE Ahead(i, j) \notin S
  <2>1. j \in 0..N - 1 /\ j < k
    BY <1>3, PlanFacts
  <2>2. j \notin T
    <3>. HIDE DEF T
    <3>. QED
      BY <1>2, <1>3, <2>1
  <2>. QED
    BY <2>1, <2>2
<1>. HIDE DEF k
<1>. QED
  BY <1>3, <1>4, <1>5

(***************************************************************************)
(* Times between positions.                                                *)
(***************************************************************************)

(* Spent, as the difference of two ends. *)
LEMMA SpentIs ==
    ASSUME NEW i \in Phases, NEW k \in 0..N
    PROVE  /\ Spent(i, k) =
                 (IF i + k =< N + 1 THEN Ends[i - 1 + k]
                  ELSE Ends[N] + Ends[i - 1 + k - N]) - Ends[i - 1]
           /\ Spent(i, k) \in Nat
<1>. USE PlanFacts DEF Phases
<1>1. Spent(i, k) = (IF i + k =< N + 1 THEN Ends[i - 1 + k]
                     ELSE Ends[N] + Ends[i - 1 + k - N]) - Ends[i - 1]
  BY DEF Spent, PlanTime
<1>2. CASE i + k =< N + 1
  <2>1. i - 1 \in 0..N /\ i - 1 + k \in 0..N /\ i - 1 =< i - 1 + k
    BY <1>2
  <2>2. Ends[i - 1] =< Ends[i - 1 + k]
    BY <2>1, EndsGrow
  <2>. QED
    BY <1>1, <1>2, <2>1, <2>2, EndsAdd
<1>3. CASE i + k > N + 1
  <2>1. i - 1 \in 0..N /\ i - 1 + k - N \in 0..N /\ N \in 0..N /\ i - 1 =< N
    BY <1>3
  <2>2. Ends[i - 1] =< Ends[N]
    BY <2>1, EndsGrow
  <2>3. Ends[i - 1] \in Nat /\ Ends[N] \in Nat /\ Ends[i - 1 + k - N] \in Nat
    BY <2>1, EndsAdd
  <2>4. Spent(i, k) = (Ends[N] + Ends[i - 1 + k - N]) - Ends[i - 1]
    BY <1>1, <1>3
  <2>. QED
    BY <1>1, <2>2, <2>3, <2>4
<1>. QED
  BY <1>2, <1>3, <1>1

(* No phase, one phase and the whole cycle. *)
LEMMA SpentParts ==
    ASSUME NEW i \in Phases
    PROVE  /\ Spent(i, 0) = 0
           /\ Spent(i, 1) = Plan[i].duration
           /\ Spent(i, N) = PlanTime
<1>. USE PlanFacts DEF Phases
<1>1. 0 \in 0..N /\ 1 \in 0..N /\ N \in 0..N /\ i \in 1..N
  OBVIOUS
<1>2. /\ Ends[i - 1] \in Nat /\ Ends[i] \in Nat /\ Ends[N] \in Nat
      /\ Ends[0] = 0 /\ Ends[i] = Ends[i - 1] + Plan[i].duration
  BY <1>1, EndsAdd
<1>3. Spent(i, 0) = 0
  BY <1>1, <1>2, SpentIs
<1>4. Spent(i, 1) = Plan[i].duration
  BY <1>1, <1>2, SpentIs
<1>5. Spent(i, N) = PlanTime
  BY <1>1, <1>2, SpentIs DEF PlanTime
<1>. QED
  BY <1>3, <1>4, <1>5

(* The time of two parts of the way is the sum of their times. *)
LEMMA SpentSum ==
    ASSUME NEW i \in Phases, NEW m \in Nat, NEW k \in Nat, m + k =< N
    PROVE  Spent(i, m + k) = Spent(i, m) + Spent(Ahead(i, m), k)
<1>. USE PlanFacts DEF Phases
<1>. DEFINE j == Ahead(i, m)
<1>1. m \in 0..N /\ k \in 0..N /\ m + k \in 0..N
  OBVIOUS
<1>2. j \in Phases /\ j = IF i + m =< N THEN i + m ELSE i + m - N
  BY <1>1, AheadIs
<1>3. /\ Spent(i, m) = (IF i + m =< N + 1 THEN Ends[i - 1 + m]
                        ELSE Ends[N] + Ends[i - 1 + m - N]) - Ends[i - 1]
      /\ Spent(i, m + k) = (IF i + (m + k) =< N + 1 THEN Ends[i - 1 + (m + k)]
                        ELSE Ends[N] + Ends[i - 1 + (m + k) - N]) - Ends[i - 1]
  BY <1>1, SpentIs
<1>4. Spent(j, k) = (IF j + k =< N + 1 THEN Ends[j - 1 + k]
                     ELSE Ends[N] + Ends[j - 1 + k - N]) - Ends[j - 1]
  BY <1>1, <1>2, SpentIs
<1>. HIDE DEF j
<1>5. /\ Ends[i - 1] \in Nat /\ Ends[N] \in Nat /\ Ends[j - 1] \in Nat
      /\ Ends[0] = 0
  BY <1>2, EndsAdd
<1>6. CASE i + m =< N
  <2>1. j - 1 = i - 1 + m /\ j - 1 + k = i - 1 + (m + k)
    BY <1>1, <1>2, <1>6
  <2>2. CASE j + k =< N + 1
    <3>1. Ends[j - 1 + k] \in Nat
      BY <1>1, <1>2, <2>2, EndsAdd
    <3>2. Spent(i, m) = Ends[j - 1] - Ends[i - 1]
      BY <1>1, <1>3, <1>6, <2>1
    <3>3. Spent(i, m + k) = Ends[j - 1 + k] - Ends[i - 1]
      BY <1>1, <1>2, <1>3, <2>1, <2>2
    <3>4. Spent(j, k) = Ends[j - 1 + k] - Ends[j - 1]
      BY <1>4, <2>2
    <3>. QED
      BY <1>5, <3>1, <3>2, <3>3, <3>4 DEF j
  <2>3. CASE j + k > N + 1
    <3>1. j - 1 + k - N \in 0..N
      BY <1>1, <1>2, <2>3
    <3>2. Ends[j - 1 + k - N] \in Nat
      BY <3>1, EndsAdd
    <3>3. Spent(i, m) = Ends[j - 1] - Ends[i - 1]
      BY <1>1, <1>3, <1>6, <2>1
    <3>4. Spent(i, m + k) = (Ends[N] + Ends[j - 1 + k - N]) - Ends[i - 1]
      <4>1. /\ i + (m + k) > N + 1
            /\ i - 1 + (m + k) - N = j - 1 + k - N
        BY <1>1, <1>2, <2>1, <2>3
      <4>. QED
        BY <1>1, <1>3, <4>1
    <3>5. Spent(j, k) = (Ends[N] + Ends[j - 1 + k - N]) - Ends[j - 1]
      BY <1>1, <1>2, <1>4, <2>3
    <3>. QED
      BY <1>5, <3>2, <3>3, <3>4, <3>5 DEF j
  <2>. QED
    BY <1>1, <1>2, <2>2, <2>3
<1>7. CASE i + m = N + 1
  <2>1. j = 1 /\ j - 1 = 0 /\ i - 1 + m = N /\ i - 1 + (m + k) - N = k /\ j - 1 + k = k
    BY <1>1, <1>2, <1>7
  <2>2. Ends[k] \in Nat
    BY <1>1, EndsAdd
  <2>3. Spent(i, m) = Ends[N] - Ends[i - 1]
    BY <1>3, <1>7, <2>1
  <2>4. Spent(j, k) = Ends[k]
    BY <1>1, <1>4, <1>5, <2>1, <2>2
  <2>5. Spent(i, m + k) = (Ends[N] + Ends[k]) - Ends[i - 1]
    <3>1. CASE k = 0
      BY <1>1, <1>3, <1>5, <1>7, <2>1, <3>1
    <3>2. CASE k # 0
      BY <1>1, <1>3, <1>7, <2>1, <3>2
    <3>. QED
      BY <3>1, <3>2
  <2>. QED
    BY <1>5, <2>2, <2>3, <2>4, <2>5 DEF j
<1>8. CASE i + m > N + 1
  <2>1. /\ j = i + m - N /\ j - 1 = i - 1 + m - N
        /\ j - 1 + k = i - 1 + (m + k) - N
    BY <1>1, <1>2, <1>8
  <2>2. j + k =< N /\ j - 1 + k \in 0..N
    BY <1>1, <1>2, <2>1
  <2>3. Ends[j - 1 + k] \in Nat
    BY <2>2, EndsAdd
  <2>4. Spent(i, m) = (Ends[N] + Ends[j - 1]) - Ends[i - 1]
    BY <1>1, <1>3, <1>8, <2>1
  <2>5. Spent(i, m + k) = (Ends[N] + Ends[j - 1 + k]) - Ends[i - 1]
    BY <1>1, <1>3, <1>8, <2>1
  <2>6. Spent(j, k) = Ends[j - 1 + k] - Ends[j - 1]
    BY <1>1, <1>2, <1>4, <2>2
  <2>. QED
    BY <1>5, <2>3, <2>4, <2>5, <2>6 DEF j
<1>. QED
  BY <1>1, <1>6, <1>7, <1>8

(* One phase more. *)
LEMMA SpentStep ==
    ASSUME NEW i \in Phases, NEW k \in 0..N - 1
    PROVE  Spent(i, k + 1) = Spent(i, k) + Plan[Ahead(i, k)].duration
<1>1. k \in Nat /\ 1 \in Nat /\ k + 1 =< N /\ k \in 0..N
  BY PlanFacts
<1>2. Ahead(i, k) \in Phases
  BY <1>1, AheadIs
<1>3. Spent(i, k + 1) = Spent(i, k) + Spent(Ahead(i, k), 1)
  BY <1>1, SpentSum
<1>. QED
  BY <1>2, <1>3, SpentParts

(* More phases take no less time. *)
LEMMA SpentGrows ==
    ASSUME NEW i \in Phases, NEW m \in 0..N, NEW k \in 0..N, m =< k
    PROVE  Spent(i, m) =< Spent(i, k)
<1>1. m \in Nat /\ k - m \in 0..N /\ m + (k - m) = k /\ m + (k - m) =< N
  BY PlanFacts
<1>2. Ahead(i, m) \in Phases
  BY AheadIs
<1>3. Spent(i, m + (k - m)) = Spent(i, m) + Spent(Ahead(i, m), k - m)
  BY <1>1, SpentSum
<1>4. Spent(Ahead(i, m), k - m) \in Nat /\ Spent(i, m) \in Nat
  BY <1>1, <1>2, SpentIs
<1>. QED
  BY <1>1, <1>3, <1>4

(* A time that covers each of the first k phases covers them all. *)
LEMMA LeftOver ==
    ASSUME NEW i \in Phases, NEW k \in 0..N, NEW time \in Nat,
           \A j \in 0..k - 1 : time >= Spent(i, j) + Plan[Ahead(i, j)].duration
    PROVE  time >= Spent(i, k)
<1>1. CASE k = 0
  BY <1>1, SpentParts
<1>2. CASE k # 0
  <2>1. k - 1 \in 0..N - 1 /\ k - 1 \in 0..k - 1 /\ k - 1 + 1 = k
    BY <1>2, PlanFacts
  <2>2. Spent(i, k) = Spent(i, k - 1) + Plan[Ahead(i, k - 1)].duration
    BY <2>1, SpentStep
  <2>. QED
    BY <2>1, <2>2
<1>. QED
  BY <1>1, <1>2

(***************************************************************************)
(* One tick. A time step ends the phase showing and, after it, only phases *)
(* that show red to everybody: the others last longer than a time step.    *)
(***************************************************************************)

LEMMA OnlyReds ==
    ASSUME NEW i \in Phases, NEW e \in Nat, e =< Plan[i].duration,
           NEW k \in 1..N, e + Dt >= Spent(i, k), NEW j \in 1..k - 1
    PROVE  Plan[Ahead(i, j)].color = "red"
<1>1. 1 \in 0..N /\ j \in 0..N /\ j \in 0..N - 1 /\ j + 1 \in 0..N /\ k \in 0..N
  BY PlanFacts
<1>2. Ahead(i, j) \in 1..N
  BY <1>1, AheadIs DEF Phases
<1>3. Spent(i, 1) =< Spent(i, j) /\ Spent(i, j + 1) =< Spent(i, k)
  BY <1>1, SpentGrows
<1>4. /\ Spent(i, 1) = Plan[i].duration
      /\ Spent(i, j + 1) = Spent(i, j) + Plan[Ahead(i, j)].duration
  BY <1>1, SpentParts, SpentStep
<1>5. Spent(i, j) \in Nat /\ Spent(i, k) \in Nat
  BY <1>1, SpentIs
<1>6. Plan[i].duration \in Nat /\ Plan[Ahead(i, j)].duration \in Nat /\ Dt \in Nat
  BY <1>2, PlanFacts DEF Phases
<1>7. Plan[Ahead(i, j)].duration =< Dt
  BY <1>3, <1>4, <1>5, <1>6
<1>. QED
  BY <1>2, <1>6, <1>7, PlanAssumption DEF PlanAssumption

(* Where it stops, some of the phase is left, if the time is not enough    *)
(* for that phase or all have been passed.                                 *)
LEMMA Landing ==
    ASSUME NEW i \in Phases, NEW e \in Nat, e =< Plan[i].duration,
           NEW k \in 0..N, e + Dt >= Spent(i, k),
           \/ e + Dt < Spent(i, k) + Plan[Ahead(i, k)].duration
           \/ k = N
    PROVE  /\ (e + Dt) - Spent(i, k) \in Nat
           /\ (e + Dt) - Spent(i, k) < Plan[Ahead(i, k)].duration
<1>1. Spent(i, k) \in Nat /\ Ahead(i, k) \in 1..N /\ i \in 1..N
  BY SpentIs, AheadIs DEF Phases
<1>2. Plan[i].duration \in Nat /\ Plan[Ahead(i, k)].duration \in Nat /\ Dt \in Nat
  BY <1>1, PlanFacts
<1>3. CASE e + Dt < Spent(i, k) + Plan[Ahead(i, k)].duration
  BY <1>1, <1>2, <1>3
<1>4. CASE k = N
  <2>1. Ahead(i, N) = i /\ N \in 1..N
    BY AheadZero, PlanFacts
  <2>2. PICK g \in Phases : Plan[g].color = "green"
    BY PlanAssumption DEF PlanAssumption, Phases
  <2>3. PICK j \in 0..N - 1 : Ahead(i, j) = g
    BY SomeAhead
  <2>4. j = 0
    <3>. SUFFICES ASSUME j # 0 PROVE FALSE
      OBVIOUS
    <3>1. j \in 1..N - 1
      BY PlanFacts
    <3>2. Plan[Ahead(i, j)].color = "red"
      BY <1>4, <2>1, <3>1, OnlyReds
    <3>. QED
      BY <2>2, <2>3, <3>2
  <2>5. i = g
    BY <2>3, <2>4, AheadZero
  <2>6. Plan[i].duration > Dt
    BY <1>1, <2>2, <2>5, PlanAssumption DEF PlanAssumption
  <2>7. Spent(i, 1) =< Spent(i, N) /\ Spent(i, 1) = Plan[i].duration
    BY <2>1, SpentGrows, SpentParts, PlanFacts
  <2>. QED
    BY <1>1, <1>2, <1>4, <2>1, <2>6, <2>7
<1>. QED
  BY <1>3, <1>4

(* A plan safe in its own order is safe where reds are skipped. *)
LEMMA SafePassing ==
    ASSUME SafeOrder, NEW i \in Phases, NEW k \in 1..N,
           \A j \in 1..k - 1 : Plan[Ahead(i, j)].color = "red",
           NEW a \in Approaches
    PROVE  SafeForApproach(i, Ahead(i, k), a)
<1>1. CASE k = 1
  BY <1>1 DEF SafeOrder
<1>2. CASE k # 1
  <2>1. 1 \in 1..k - 1 /\ k - 1 \in 1..k - 1 /\ k - 1 \in 0..N /\ 1 \in 0..N
    BY <1>2, PlanFacts
  <2>2. Ahead(i, 1) \in Phases /\ Ahead(i, k - 1) \in Phases
    BY <2>1, AheadIs
  <2>3. Ahead(Ahead(i, k - 1), 1) = Ahead(i, k)
    BY <2>1, AheadAhead, PlanFacts
  <2>4. /\ SafeForApproach(i, Ahead(i, 1), a)
        /\ SafeForApproach(Ahead(i, k - 1), Ahead(i, k), a)
    BY <2>2, <2>3 DEF SafeOrder
  <2>5. Plan[Ahead(i, 1)].color = "red" /\ Plan[Ahead(i, k - 1)].color = "red"
    BY <2>1
  <2>6. ApproachShows(Ahead(i, 1), a) = "red" /\ ApproachShows(Ahead(i, k - 1), a) = "red"
    BY <2>5 DEF ApproachShows
  <2>. QED
    BY <2>4, <2>6 DEF SafeForApproach
<1>. QED
  BY <1>1, <1>2

(* A change to a green, except from another green, is always safe. *)
LEMMA SafeToGreen ==
    ASSUME NEW i \in Phases, NEW j \in Greens, i \notin Greens, NEW a
    PROVE  SafeForApproach(i, j, a)
BY DEF SafeForApproach, ApproachShows, Greens

(***************************************************************************)
(* Stages.                                                                 *)
(***************************************************************************)

(* A span is the stretch of positions from its start to the next start. *)
LEMMA SpanIs ==
    ASSUME NEW s \in StageStarts
    PROVE  \E size \in 1..N :
              /\ Ahead(s, size) \in StageStarts
              /\ Span(s) = {Ahead(s, j) : j \in 0..size - 1}
              /\ \A j \in 1..size - 1 : Ahead(s, j) \notin StageStarts
<1>. USE PlanFacts
<1>. DEFINE next == FirstFrom(Ahead(s, 1), StageStarts)
            T    == {j \in 1..N : Ahead(s, j) = next}
<1>1. s \in Phases /\ StageStarts \in SUBSET Phases
  BY DEF StageStarts, Greens
<1>2. Ahead(s, 1) \in Phases
  BY <1>1, AheadIs
<1>3. PICK m \in 0..N - 1 :
         /\ next = Ahead(Ahead(s, 1), m) /\ next \in StageStarts
         /\ \A j \in 0..m - 1 : Ahead(Ahead(s, 1), j) \notin StageStarts
  BY <1>1, <1>2, FirstFromIs
<1>4. 1 + m \in 1..N /\ Ahead(s, 1 + m) = next
  BY <1>1, <1>3, AheadAhead
<1>5. T # {} /\ T \in SUBSET Nat
  BY <1>4
<1>6. Min(T) \in T /\ Min(T) =< 1 + m
  BY <1>4, <1>5, MinNat
<1>. DEFINE size == Min(T)
<1>7. size \in 1..N /\ Ahead(s, size) \in StageStarts
  BY <1>3, <1>6
<1>8. Span(s) = {Ahead(s, j) : j \in 0..size - 1}
  BY DEF Span
<1>9. size =< 1 + m
  BY <1>6
<1>. HIDE DEF size, next, T
<1>10. ASSUME NEW j \in 1..size - 1 PROVE Ahead(s, j) \notin StageStarts
  <2>1. /\ j - 1 \in 0..m - 1 /\ 1 + (j - 1) = j /\ 1 + (j - 1) =< N
        /\ 1 \in Nat /\ j - 1 \in Nat
    BY <1>7, <1>9
  <2>2. Ahead(Ahead(s, 1), j - 1) = Ahead(s, j)
    BY <1>1, <2>1, AheadAhead
  <2>. QED
    BY <1>3, <2>1, <2>2
<1>. QED
  BY <1>7, <1>8, <1>10

LEMMA SpanInside ==
    ASSUME NEW s \in StageStarts PROVE Span(s) \in SUBSET Phases
<1>1. s \in Phases
  BY DEF StageStarts, Greens
<1>2. PICK size \in 1..N : Span(s) = {Ahead(s, j) : j \in 0..size - 1}
  BY SpanIs
<1>3. \A j \in 0..size - 1 : Ahead(s, j) \in Phases
  BY <1>1, AheadIs, PlanFacts
<1>. QED
  BY <1>2, <1>3

(* A span holds the positions after its start up to the next start. *)
LEMMA SpanHolds ==
    ASSUME NEW s \in StageStarts, NEW k \in 0..N - 1,
           \A j \in 1..k : Ahead(s, j) \notin StageStarts
    PROVE  Ahead(s, k) \in Span(s)
<1>1. PICK size \in 1..N :
         /\ Ahead(s, size) \in StageStarts
         /\ Span(s) = {Ahead(s, j) : j \in 0..size - 1}
  BY SpanIs
<1>2. size > k
  BY <1>1, PlanFacts
<1>. QED
  BY <1>1, <1>2, PlanFacts

(* Every position has a nearest start behind it. *)
LEMMA StartBehind ==
    ASSUME NEW i \in Phases, StageStarts # {}
    PROVE  \E s \in StageStarts, k \in 0..N - 1 :
              i = Ahead(s, k) /\ \A j \in 1..k : Ahead(s, j) \notin StageStarts
<1>. USE PlanFacts
<1>. DEFINE T == {k \in 0..N - 1 : \E s \in StageStarts : Ahead(s, k) = i}
<1>1. StageStarts \in SUBSET Phases
  BY DEF StageStarts, Greens
<1>2. T # {} /\ T \in SUBSET Nat
  <2>1. PICK s \in StageStarts : s \in Phases
    BY <1>1
  <2>2. \E k \in 0..N - 1 : Ahead(s, k) = i
    BY <2>1, SomeAhead
  <2>. QED
    BY <2>2
<1>. DEFINE k == Min(T)
<1>3. k \in T /\ \A x \in T : k =< x
  <2>. HIDE DEF T
  <2>. QED
    BY <1>2, MinNat
<1>. HIDE DEF k
<1>4. PICK s \in StageStarts : Ahead(s, k) = i
  BY <1>3
<1>5. ASSUME NEW j \in 1..k, Ahead(s, j) \in StageStarts PROVE FALSE
  <2>1. /\ s \in Phases /\ j \in Nat /\ k - j \in Nat /\ k - j \in 0..N - 1
        /\ j + (k - j) = k /\ j + (k - j) =< N /\ k - j < k
    BY <1>1, <1>3
  <2>2. Ahead(Ahead(s, j), k - j) = Ahead(s, j + (k - j))
    BY <2>1, AheadAhead
  <2>3. k - j \in T
    BY <1>4, <1>5, <2>1, <2>2
  <2>. HIDE DEF T
  <2>. QED
    BY <1>3, <2>1, <2>3
<1>. QED
  BY <1>3, <1>4, <1>5

(* The stage of a position is one whose span holds it. *)
LEMMA StageIs ==
    ASSUME NEW i \in Phases, StageStarts # {}
    PROVE  StageOf(i) \in StageStarts /\ i \in Span(StageOf(i))
BY StartBehind, SpanHolds DEF StageOf

(* Two ways to one position, with the shorter cut off both. *)
LEMMA AheadBack ==
    ASSUME NEW i \in Phases, NEW h \in Phases, NEW k \in 0..N - 1,
           NEW m \in 0..k, Ahead(i, k) = Ahead(h, m)
    PROVE  Ahead(i, k - m) = h
<1>. USE PlanFacts
<1>1. /\ Ahead(i, k) = IF i + k =< N THEN i + k ELSE i + k - N
      /\ Ahead(h, m) = IF h + m =< N THEN h + m ELSE h + m - N
      /\ Ahead(i, k - m) = IF i + (k - m) =< N THEN i + (k - m) ELSE i + (k - m) - N
  <2>1. k \in 0..N /\ m \in 0..N /\ k - m \in 0..N
    OBVIOUS
  <2>. QED
    BY <2>1, AheadIs
<1>2. i \in 1..N /\ h \in 1..N
  BY DEF Phases
<1>3. (IF i + k =< N THEN i + k ELSE i + k - N)
         = (IF h + m =< N THEN h + m ELSE h + m - N)
  BY <1>1
<1>4. h = IF i + (k - m) =< N THEN i + (k - m) ELSE i + (k - m) - N
  BY <1>2, <1>3
<1>. QED
  BY <1>1, <1>4

(* No other span than that of the nearest start behind it holds a position.*)
LEMMA StageUnique ==
    ASSUME NEW s \in StageStarts, NEW k \in 0..N - 1,
           \A j \in 1..k : Ahead(s, j) \notin StageStarts
    PROVE  StageOf(Ahead(s, k)) = s
<1>. USE PlanFacts
<1>1. s \in Phases /\ StageStarts \in SUBSET Phases
  BY DEF StageStarts, Greens
<1>2. Ahead(s, k) \in Span(s)
  BY SpanHolds
<1>3. ASSUME NEW r \in StageStarts, Ahead(s, k) \in Span(r) PROVE r = s
  <2>1. PICK size \in 1..N :
           /\ Span(r) = {Ahead(r, j) : j \in 0..size - 1}
           /\ \A j \in 1..size - 1 : Ahead(r, j) \notin StageStarts
    BY SpanIs
  <2>2. PICK m \in 0..size - 1 : Ahead(s, k) = Ahead(r, m)
    BY <1>3, <2>1
  <2>3. r \in Phases /\ m \in 0..N - 1
    BY <1>1
  <2>4. CASE m =< k
    <3>1. Ahead(s, k - m) = r
      BY <1>1, <2>2, <2>3, <2>4, AheadBack
    <3>2. k - m = 0
      BY <2>3, <2>4, <3>1
    <3>. QED
      BY <1>1, <3>1, <3>2, AheadZero
  <2>5. CASE k =< m
    <3>1. Ahead(r, m - k) = s
      BY <1>1, <2>2, <2>3, <2>5, AheadBack
    <3>2. m - k = 0
      BY <2>1, <2>3, <2>5, <3>1
    <3>. QED
      BY <2>3, <3>1, <3>2, AheadZero
  <2>. QED
    BY <2>3, <2>4, <2>5
<1>. QED
  BY <1>2, <1>3 DEF StageOf

(* The greens as far as the first clearance are in one stretch after their *)
(* stage's start.                                                          *)
LEMMA OneStretch ==
    ASSUME StageStarts # {}, NEW i \in Greens, NEW m \in 0..N - 1,
           \A j \in 0..m : Ahead(i, j) \in Greens
    PROVE  \E s \in StageStarts, k \in 0..N - 1 :
              /\ i = Ahead(s, k) /\ k + m \in 0..N - 1
              /\ Ahead(i, m) = Ahead(s, k + m)
              /\ \A j \in 1..k + m : Ahead(s, j) \notin StageStarts
<1>. USE PlanFacts
<1>1. i \in Phases /\ StageStarts # {}
  BY DEF Greens
<1>2. PICK s \in StageStarts, k \in 0..N - 1 :
         i = Ahead(s, k) /\ \A j \in 1..k : Ahead(s, j) \notin StageStarts
  BY <1>1, StartBehind
<1>3. s \in Phases
  BY DEF StageStarts, Greens
<1>4. ASSUME NEW j \in 1..m PROVE Ahead(i, j) \notin StageStarts
  <2>1. j - 1 \in 0..m /\ j - 1 \in Nat /\ j \in 0..N /\ Ahead(i, j) \in Phases
    BY <1>1, AheadIs
  <2>2. Ahead(Ahead(i, j), N - 1) = Ahead(i, j - 1)
    BY <1>1, <2>1, AheadBefore
  <2>. QED
    BY <2>1, <2>2 DEF StageStarts
<1>5. k + m < N
  <2>. SUFFICES ASSUME k + m >= N PROVE FALSE
    BY <1>2
  <2>1. /\ N - k \in 1..m /\ k \in Nat /\ N - k \in Nat
        /\ k + (N - k) =< N /\ k + (N - k) = N
    OBVIOUS
  <2>2. Ahead(i, N - k) = s
    BY <1>2, <1>3, <2>1, AheadAhead, AheadZero
  <2>. QED
    BY <1>4, <2>1, <2>2
<1>6. ASSUME NEW j \in 1..k + m PROVE Ahead(s, j) \notin StageStarts
  <2>1. CASE j =< k
    BY <1>2, <2>1
  <2>2. CASE j > k
    <3>1. /\ j - k \in 1..m /\ k \in Nat /\ j - k \in Nat
          /\ k + (j - k) = j /\ k + (j - k) =< N
      BY <1>5, <2>2
    <3>2. Ahead(i, j - k) = Ahead(s, j)
      BY <1>2, <1>3, <3>1, AheadAhead
    <3>. QED
      BY <1>4, <3>1, <3>2
  <2>. QED
    BY <2>1, <2>2
<1>7. Ahead(i, m) = Ahead(s, k + m) /\ k + m \in 0..N - 1
  <2>1. k + m \in 0..N - 1 /\ k \in Nat /\ m \in Nat /\ k + m =< N
    BY <1>5
  <2>. QED
    BY <1>2, <1>3, <2>1, AheadAhead
<1>. QED
  BY <1>2, <1>6, <1>7

(* They are in the same stage... *)
LEMMA SameStage ==
    ASSUME StageStarts # {}, NEW i \in Greens, NEW m \in 0..N - 1,
           \A j \in 0..m : Ahead(i, j) \in Greens
    PROVE  StageOf(Ahead(i, m)) = StageOf(i)
<1>1. PICK s \in StageStarts, k \in 0..N - 1 :
         /\ i = Ahead(s, k) /\ k + m \in 0..N - 1
         /\ Ahead(i, m) = Ahead(s, k + m)
         /\ \A j \in 1..k + m : Ahead(s, j) \notin StageStarts
  BY OneStretch
<1>2. \A j \in 1..k : Ahead(s, j) \notin StageStarts
  BY <1>1
<1>3. StageOf(Ahead(s, k)) = s
  BY <1>2, StageUnique
<1>4. StageOf(Ahead(s, k + m)) = s
  BY <1>1, StageUnique
<1>. QED
  BY <1>1, <1>3, <1>4

(* ...and so, in a plan that is accepted, for the same approaches.         *)
LEMMA SameUntilClearance ==
    ASSUME Accepted, NEW i \in Greens, NEW m \in 0..N - 1,
           \A j \in 0..m : Ahead(i, j) \in Greens
    PROVE  Plan[Ahead(i, m)].directions = Plan[i].directions
<1>1. StageStarts # {}
  BY DEF Accepted
<1>2. PICK s \in StageStarts, k \in 0..N - 1 :
         /\ i = Ahead(s, k) /\ k + m \in 0..N - 1
         /\ Ahead(i, m) = Ahead(s, k + m)
         /\ \A j \in 1..k + m : Ahead(s, j) \notin StageStarts
  BY <1>1, OneStretch
<1>3. \A j \in 1..k : Ahead(s, j) \notin StageStarts
  BY <1>2
<1>4. i \in Span(s)
  BY <1>2, <1>3, SpanHolds
<1>5. Ahead(i, m) \in Span(s)
  BY <1>2, SpanHolds
<1>6. Ahead(i, m) \in Greens
  OBVIOUS
<1>. QED
  BY <1>4, <1>5, <1>6 DEF Accepted

(* The way from a green to its clearance leads over such greens only, and  *)
(* is safe in a plan that is safe in its own order.                        *)
LEMMA SafeToClearance ==
    ASSUME Accepted, SafeOrder, Clearances # {}, NEW i \in Greens,
           NEW a \in Approaches
    PROVE  SafeForApproach(i, ClearanceOf(i), a)
<1>. USE PlanFacts
<1>1. i \in Phases /\ Clearances \in SUBSET Phases
  BY DEF Greens, Clearances
<1>2. PICK k \in 0..N - 1 :
         /\ ClearanceOf(i) = Ahead(i, k) /\ Ahead(i, k) \in Clearances
         /\ \A j \in 0..k - 1 : Ahead(i, j) \notin Clearances
  BY <1>1, FirstFromIs DEF ClearanceOf
<1>3. k # 0
  BY <1>1, <1>2, AheadZero DEF Clearances
<1>4. k - 1 \in 0..N - 1 /\ 1 \in Nat /\ k - 1 \in Nat /\ (k - 1) + 1 = k
  BY <1>3
<1>5. ASSUME NEW j \in 0..k - 1 PROVE Ahead(i, j) \in Greens
  <2>1. j \in 0..N
    OBVIOUS
  <2>2. Ahead(i, j) \in Phases
    BY <1>1, <2>1, AheadIs
  <2>. QED
    BY <1>2, <2>2 DEF Clearances
<1>. DEFINE h == Ahead(i, k - 1)
<1>6. h \in Greens /\ h \in Phases
  BY <1>3, <1>5 DEF Greens
<1>7. Plan[h].directions = Plan[i].directions
  BY <1>4, <1>5, SameUntilClearance
<1>8. Ahead(h, 1) = ClearanceOf(i)
  BY <1>1, <1>2, <1>4, AheadAhead
<1>9. ApproachShows(h, a) = ApproachShows(i, a)
  BY <1>6, <1>7 DEF ApproachShows, Greens
<1>10. SafeForApproach(h, Ahead(h, 1), a)
  BY <1>6 DEF SafeOrder
<1>. QED
  BY <1>8, <1>9, <1>10 DEF SafeForApproach

(* The clearance of a green: clearance phases up to the next green. *)
LEMMA ClearanceIs ==
    ASSUME NEW i \in Greens, Clearances # {}
    PROVE  /\ ClearanceOf(i) \in Clearances
           /\ ClearanceLength(i) \in 1..N - 1
           /\ Ahead(ClearanceOf(i), ClearanceLength(i)) \in Greens
           /\ \A j \in 0..ClearanceLength(i) - 1 :
                 Ahead(ClearanceOf(i), j) \in Clearances
<1>. USE PlanFacts
<1>. DEFINE c == ClearanceOf(i)
            T == {k \in 0..N : Ahead(c, k) \in Greens}
            m == Min(T)
<1>1. i \in Phases /\ Clearances \in SUBSET Phases
  BY DEF Greens, Clearances
<1>2. c \in Clearances /\ c \in Phases
  <2>1. \E k \in 0..N - 1 : ClearanceOf(i) = Ahead(i, k) /\ Ahead(i, k) \in Clearances
    BY <1>1, FirstFromIs DEF ClearanceOf
  <2>. QED
    BY <1>1, <2>1
<1>. HIDE DEF c
<1>3. T # {} /\ T \in SUBSET Nat
  <2>1. PICK k \in 0..N - 1 : Ahead(c, k) = i
    BY <1>1, <1>2, SomeAhead
  <2>2. k \in T
    BY <2>1
  <2>. QED
    BY <2>2
<1>4. m \in T /\ \A x \in T : m =< x
  <2>. HIDE DEF T
  <2>. QED
    BY <1>3, MinNat
<1>5. ClearanceLength(i) = m
  BY DEF ClearanceLength, c
<1>. HIDE DEF m
<1>6. m \in 0..N /\ Ahead(c, m) \in Greens
  BY <1>4
<1>7. m # 0 /\ m # N
  BY <1>2, <1>6, AheadZero DEF Clearances
<1>8. ASSUME NEW j \in 0..m - 1 PROVE Ahead(c, j) \in Clearances
  <2>1. j \in 0..N /\ j < m
    BY <1>6
  <2>2. Ahead(c, j) \in Phases
    BY <1>2, <2>1, AheadIs
  <2>3. j \notin T
    <3>. HIDE DEF T
    <3>. QED
      BY <1>4, <1>6, <2>1
  <2>. QED
    BY <2>1, <2>2, <2>3 DEF Clearances
<1>. QED
  BY <1>2, <1>5, <1>6, <1>7, <1>8 DEF c

(* From within a clearance, k phases that meet no green before their end   *)
(* lead further into it, or to its end exactly.                            *)
LEMMA ClearingOn ==
    ASSUME NEW i \in Greens, Clearances # {},
           NEW m \in 0..ClearanceLength(i) - 1, NEW k \in 0..N,
           \A j \in 0..k - 1 : Ahead(Ahead(ClearanceOf(i), m), j) \notin Greens
    PROVE  LET c == ClearanceOf(i)
               d == Ahead(c, m)
           IN  /\ m + k =< ClearanceLength(i)
               /\ Ahead(c, m + k) = Ahead(d, k)
               /\ Spent(c, m + k) = Spent(c, m) + Spent(d, k)
               /\ Ahead(d, k) \in Clearances => m + k \in 0..ClearanceLength(i) - 1
               /\ Ahead(d, k) \in Greens => m + k = ClearanceLength(i)
<1>. USE PlanFacts
<1>. DEFINE c == ClearanceOf(i)
            d == Ahead(c, m)
            L == ClearanceLength(i)
<1>1. /\ c \in Phases /\ L \in 1..N - 1 /\ Ahead(c, L) \in Greens
      /\ \A j \in 0..L - 1 : Ahead(c, j) \in Clearances
  BY ClearanceIs DEF Clearances
<1>2. m + k =< L
  <2>. SUFFICES ASSUME m + k > L PROVE FALSE
    BY <1>1
  <2>1. m \in Nat /\ L - m \in Nat /\ m + (L - m) = L /\ m + (L - m) =< N
        /\ L - m \in 0..k - 1
    BY <1>1
  <2>2. Ahead(d, L - m) = Ahead(c, L)
    BY <1>1, <2>1, AheadAhead
  <2>. QED
    BY <1>1, <2>1, <2>2
<1>3. m \in Nat /\ k \in Nat /\ m + k =< N /\ m + k \in 0..L
  BY <1>1, <1>2
<1>4. Ahead(c, m + k) = Ahead(d, k) /\ Spent(c, m + k) = Spent(c, m) + Spent(d, k)
  BY <1>1, <1>3, AheadAhead, SpentSum
<1>5. Ahead(d, k) \in Clearances => m + k \in 0..L - 1
  BY <1>1, <1>3, <1>4 DEF Clearances
<1>6. Ahead(d, k) \in Greens => m + k = L
  BY <1>1, <1>3, <1>4 DEF Clearances
<1>. QED
  BY <1>2, <1>4, <1>5, <1>6

(* The clearance of a green is the first not green ahead of it. *)
LEMMA FirstClearance ==
    ASSUME NEW i \in Greens, NEW k \in 1..N - 1,
           Ahead(i, k) \in Clearances, \A j \in 0..k - 1 : Ahead(i, j) \in Greens
    PROVE  ClearanceOf(i) = Ahead(i, k)
<1>. USE PlanFacts
<1>1. i \in Phases /\ Clearances \in SUBSET Phases
  BY DEF Greens, Clearances
<1>2. PICK m \in 0..N - 1 :
         /\ ClearanceOf(i) = Ahead(i, m) /\ Ahead(i, m) \in Clearances
         /\ \A j \in 0..m - 1 : Ahead(i, j) \notin Clearances
  BY <1>1, FirstFromIs DEF ClearanceOf
<1>3. ~(m < k)
  BY <1>2 DEF Clearances
<1>4. ~(k < m)
  BY <1>2
<1>5. m = k
  BY <1>3, <1>4
<1>. QED
  BY <1>2, <1>5

(* It is found, and every green before it has the same. *)
LEMMA SameClearance ==
    ASSUME NEW i \in Greens, Clearances # {}
    PROVE  \E k \in 1..N - 1 :
              /\ ClearanceOf(i) = Ahead(i, k) /\ Ahead(i, k) \in Clearances
              /\ \A j \in 0..k - 1 :
                    Ahead(i, j) \in Greens /\ ClearanceOf(Ahead(i, j)) = ClearanceOf(i)
<1>. USE PlanFacts
<1>1. i \in Phases /\ Clearances \in SUBSET Phases
  BY DEF Greens, Clearances
<1>2. PICK k \in 0..N - 1 :
         /\ ClearanceOf(i) = Ahead(i, k) /\ Ahead(i, k) \in Clearances
         /\ \A j \in 0..k - 1 : Ahead(i, j) \notin Clearances
  BY <1>1, FirstFromIs DEF ClearanceOf
<1>3. k # 0
  <2>1. Ahead(i, 0) \notin Clearances
    BY <1>1, AheadZero DEF Clearances
  <2>. QED
    BY <1>2, <2>1
<1>4. ASSUME NEW j \in 0..k - 1 PROVE Ahead(i, j) \in Greens
  <2>1. Ahead(i, j) \in Phases
    <3>1. j \in 0..N
      OBVIOUS
    <3>. QED
      BY <1>1, <3>1, AheadIs
  <2>. QED
    BY <1>2, <2>1 DEF Clearances
<1>5. ASSUME NEW j \in 0..k - 1 PROVE ClearanceOf(Ahead(i, j)) = Ahead(i, k)
  <2>. DEFINE b == Ahead(i, j)
  <2>1. b \in Greens
    BY <1>4
  <2>2. ASSUME NEW n \in 0..k - j PROVE Ahead(b, n) = Ahead(i, j + n)
    <3>1. j \in Nat /\ n \in Nat /\ j + n =< N
      OBVIOUS
    <3>. QED
      BY <1>1, <3>1, AheadAhead
  <2>. HIDE DEF b
  <2>3. Ahead(b, k - j) = Ahead(i, k)
    <3>1. k - j \in 0..k - j /\ j + (k - j) = k
      OBVIOUS
    <3>. QED
      BY <2>2, <3>1
  <2>4. ASSUME NEW n \in 0..(k - j) - 1 PROVE Ahead(b, n) \in Greens
    <3>1. n \in 0..k - j /\ j + n \in 0..k - 1
      OBVIOUS
    <3>2. Ahead(i, j + n) \in Greens
      BY <1>4, <3>1
    <3>. QED
      BY <2>2, <3>1, <3>2
  <2>5. k - j \in 1..N - 1
    OBVIOUS
  <2>6. ClearanceOf(b) = Ahead(b, k - j)
    BY <1>2, <2>1, <2>3, <2>4, <2>5, FirstClearance
  <2>. QED
    BY <2>3, <2>6 DEF b
<1>. QED
  BY <1>2, <1>3, <1>4, <1>5

(* Every clearance phase is one of the clearance of some green. *)
LEMMA GreenBehind ==
    ASSUME NEW c \in Clearances
    PROVE  \E g \in Greens, m \in 0..N :
              m \in 0..ClearanceLength(g) - 1 /\ c = Ahead(ClearanceOf(g), m)
<1>. USE PlanFacts
<1>1. c \in Phases /\ Greens \in SUBSET Phases /\ Greens # {} /\ Clearances # {}
  BY PlanAssumption DEF PlanAssumption, Clearances, Greens, Phases
<1>. DEFINE T == {n \in 0..N - 1 : \E g \in Greens : Ahead(g, n) = c}
            k == Min(T)
<1>2. T # {} /\ T \in SUBSET Nat
  <2>1. PICK g \in Greens : g \in Phases
    BY <1>1
  <2>2. \E n \in 0..N - 1 : Ahead(g, n) = c
    BY <1>1, <2>1, SomeAhead
  <2>. QED
    BY <2>2
<1>3. k \in T /\ \A x \in T : k =< x
  <2>. HIDE DEF T
  <2>. QED
    BY <1>2, MinNat
<1>. HIDE DEF k
<1>4. PICK g \in Greens : Ahead(g, k) = c
  BY <1>3
<1>5. k # 0
  BY <1>1, <1>4, AheadZero DEF Clearances
<1>6. ASSUME NEW j \in 1..k PROVE Ahead(g, j) \notin Greens
  <2>. SUFFICES ASSUME Ahead(g, j) \in Greens PROVE FALSE
    OBVIOUS
  <2>1. /\ g \in Phases /\ j \in Nat /\ k - j \in Nat /\ k - j \in 0..N - 1
        /\ j + (k - j) = k /\ j + (k - j) =< N /\ k - j < k
    BY <1>1, <1>3
  <2>2. Ahead(Ahead(g, j), k - j) = c
    BY <1>4, <2>1, AheadAhead
  <2>3. k - j \in T
    BY <2>1, <2>2
  <2>. HIDE DEF T
  <2>. QED
    BY <1>3, <2>1, <2>3
<1>7. k \in 1..N - 1 /\ g \in Phases
  BY <1>1, <1>3, <1>5
<1>8. ClearanceOf(g) = Ahead(g, 1)
  <2>1. 1 \in 1..N - 1 /\ 1 \in 0..N /\ 1 \in 1..k /\ 0..1 - 1 = {0}
    BY <1>7
  <2>2. Ahead(g, 1) \in Clearances
    BY <1>6, <1>7, <2>1, AheadIs DEF Clearances
  <2>3. Ahead(g, 0) \in Greens
    BY <1>7, AheadZero
  <2>. QED
    BY <2>1, <2>2, <2>3, FirstClearance
<1>. DEFINE L == ClearanceLength(g)
<1>9. L \in 1..N - 1 /\ Ahead(Ahead(g, 1), L) \in Greens
  BY <1>1, <1>8, ClearanceIs
<1>. HIDE DEF L
<1>10. k - 1 \in 0..L - 1
  <2>. SUFFICES ASSUME L =< k - 1 PROVE FALSE
    BY <1>7, <1>9
  <2>1. 1 \in Nat /\ L \in Nat /\ 1 + L =< N /\ 1 + L \in 1..k
    BY <1>7, <1>9
  <2>2. Ahead(Ahead(g, 1), L) = Ahead(g, 1 + L)
    BY <1>7, <2>1, AheadAhead
  <2>. QED
    BY <1>6, <1>9, <2>1, <2>2
<1>11. Ahead(Ahead(g, 1), k - 1) = c
  <2>1. 1 \in Nat /\ k - 1 \in Nat /\ 1 + (k - 1) =< N /\ 1 + (k - 1) = k
    BY <1>7
  <2>. QED
    BY <1>4, <1>7, <2>1, AheadAhead
<1>12. k - 1 \in 0..N
  BY <1>7
<1>. QED
  BY <1>8, <1>10, <1>11, <1>12 DEF L

(* The greens of a span come before its clearance. *)
LEMMA SpanGreens ==
    ASSUME NEW s \in StageStarts, NEW size \in 1..N,
           \A j \in 1..size - 1 : Ahead(s, j) \notin StageStarts,
           NEW j \in 0..size - 1, Ahead(s, j) \in Greens
    PROVE  \A i \in 0..j : Ahead(s, i) \in Greens
<1>. USE PlanFacts
<1>1. s \in Phases
  BY DEF StageStarts, Greens
<1>. DEFINE S == {n \in Nat : n =< j => Ahead(s, j - n) \in Greens}
<1>2. 0 \in S
  OBVIOUS
<1>3. ASSUME NEW n \in Nat, n \in S PROVE n + 1 \in S
  <2>. SUFFICES ASSUME n + 1 =< j PROVE Ahead(s, j - (n + 1)) \in Greens
    OBVIOUS
  <2>1. Ahead(s, j - n) \in Greens
    BY <1>3
  <2>2. j - n \in 1..size - 1 /\ j - n \in 1..N - 1 /\ (j - n) - 1 = j - (n + 1)
    OBVIOUS
  <2>3. Ahead(Ahead(s, j - n), N - 1) \in Greens
    BY <2>1, <2>2 DEF StageStarts
  <2>4. Ahead(Ahead(s, j - n), N - 1) = Ahead(s, (j - n) - 1)
    BY <1>1, <2>2, AheadBefore
  <2>. QED
    BY <2>2, <2>3, <2>4
<1>4. Nat \subseteq S
  <2>. HIDE DEF S
  <2>. QED
    BY <1>2, <1>3, NatInd
<1>. QED
  <2> SUFFICES ASSUME NEW i \in 0..j PROVE Ahead(s, i) \in Greens
    OBVIOUS
  <2>1. j - i \in Nat /\ j - i =< j /\ j - (j - i) = i
    OBVIOUS
  <2>2. j - i \in S
    BY <1>4, <2>1
  <2>. QED
    BY <2>1, <2>2

(* In a plan that is accepted every clearance takes some time: it has a    *)
(* yellow.                                                                 *)
LEMMA ClearTimePositive ==
    ASSUME Accepted, NEW g \in Greens
    PROVE  ClearTime(g) \in Nat /\ ClearTime(g) > 0
<1>. USE PlanFacts
<1>1. g \in Phases /\ StageStarts # {}
  BY DEF Greens, Accepted
<1>. DEFINE s == StageOf(g)
<1>2. s \in StageStarts /\ g \in Span(s)
  BY <1>1, StageIs
<1>. HIDE DEF s
<1>3. s \in Greens /\ s \in Phases
  BY <1>2 DEF StageStarts, Greens
<1>4. PICK size \in 1..N :
         /\ Span(s) = {Ahead(s, j) : j \in 0..size - 1}
         /\ \A j \in 1..size - 1 : Ahead(s, j) \notin StageStarts
  BY <1>2, SpanIs
<1>5. PICK y \in 0..size - 1 : Plan[Ahead(s, y)].color = "yellow"
  BY <1>2, <1>4 DEF Accepted
<1>6. /\ Ahead(s, y) \in Phases /\ Ahead(s, y) \notin Greens
      /\ Ahead(s, y) \in Clearances
  <2>1. y \in 0..N
    OBVIOUS
  <2>. QED
    BY <1>3, <1>5, <2>1, AheadIs DEF Greens, Clearances
<1>7. Plan[Ahead(s, y)].duration \in Nat /\ Plan[Ahead(s, y)].duration > 0
  BY <1>5, <1>6, PlanAssumption DEF PlanAssumption, Phases
<1>8. PICK k \in 1..N - 1 :
         /\ ClearanceOf(s) = Ahead(s, k) /\ Ahead(s, k) \in Clearances
         /\ \A j \in 0..k - 1 :
               Ahead(s, j) \in Greens /\ ClearanceOf(Ahead(s, j)) = ClearanceOf(s)
  BY <1>3, <1>6, SameClearance
<1>9. ClearanceOf(g) = Ahead(s, k)
  <2>1. PICK a \in 0..size - 1 : g = Ahead(s, a)
    BY <1>2, <1>4
  <2>2. \A i \in 0..a : Ahead(s, i) \in Greens
    BY <1>2, <1>4, <2>1, SpanGreens
  <2>3. a < k
    BY <1>8, <2>2 DEF Clearances
  <2>. QED
    BY <1>8, <2>1, <2>3
<1>10. y >= k
  BY <1>6, <1>8
<1>. DEFINE c == Ahead(s, k)
            L == ClearanceLength(g)
<1>11. /\ L \in 1..N - 1 /\ Ahead(c, L) \in Greens /\ c \in Phases
  BY <1>6, <1>8, <1>9, ClearanceIs DEF Clearances
<1>12. y - k \in 0..L - 1
  <2>. HIDE DEF L
  <2>. SUFFICES ASSUME k + L =< y PROVE FALSE
    BY <1>10, <1>11
  <2>1. k \in Nat /\ L \in Nat /\ k + L =< N /\ k + L \in 0..size - 1 /\ k \in 0..k + L
    BY <1>11
  <2>2. Ahead(s, k + L) \in Greens
    BY <1>3, <1>11, <2>1, AheadAhead
  <2>3. Ahead(s, k) \in Greens
    BY <1>2, <1>4, <2>1, <2>2, SpanGreens
  <2>. QED
    BY <1>8, <2>3 DEF Clearances
<1>13. Ahead(c, y - k) = Ahead(s, y)
  <2>1. k \in Nat /\ y - k \in Nat /\ k + (y - k) = y /\ k + (y - k) =< N
    BY <1>10
  <2>. QED
    BY <1>3, <2>1, AheadAhead
<1>. HIDE DEF L, c
<1>14. /\ y - k \in 0..N - 1 /\ y - k \in 0..N /\ (y - k) + 1 \in 0..N
       /\ L \in 0..N /\ (y - k) + 1 =< L
  BY <1>11, <1>12
<1>15. /\ Spent(c, (y - k) + 1) = Spent(c, y - k) + Plan[Ahead(s, y)].duration
       /\ Spent(c, (y - k) + 1) =< Spent(c, L)
       /\ Spent(c, y - k) \in Nat /\ Spent(c, L) \in Nat
  BY <1>11, <1>13, <1>14, SpentStep, SpentGrows, SpentIs
<1>16. ClearTime(g) = Spent(c, L)
  BY <1>9 DEF ClearTime, c, L
<1>. QED
  BY <1>7, <1>15, <1>16

(***************************************************************************)
(* Heads.                                                                  *)
(***************************************************************************)

LEMMA LaneFacts ==
    ASSUME NEW i \in Phases
    PROVE  /\ Plan[i].color \in {"green", "yellow", "red"}
           /\ Plan[i].color = "red" => Plan[i].directions = {}
           /\ \A l \in Plan[i].lanes : Approach(l) \in Plan[i].directions
           /\ Plan[i].color = "yellow" =>
                \A l \in Lanes : Approach(l) \in Plan[i].directions => l \in Plan[i].lanes
BY PlanAssumption DEF PlanAssumption, Phases

LEMMA LaneApproach ==
    ASSUME NEW l \in Lanes PROVE Approach(l) \in Approaches
<1>1. PICK i \in Greens : l \in Plan[i].lanes
  BY DEF Lanes
<1>2. i \in Phases
  BY DEF Greens
<1>3. Approach(l) \in Plan[i].directions
  BY <1>1, <1>2, LaneFacts
<1>. QED
  BY <1>2, <1>3 DEF Approaches

(* A green releases the lanes of the phase. *)
LEMMA ReleasedIs ==
    ASSUME NEW i \in Greens PROVE Released(i) = Plan[i].lanes
<1>1. Plan[i].lanes \subseteq Lanes
  BY DEF Lanes
<1>2. Plan[i].color = "green"
  BY DEF Greens
<1>. QED
  BY <1>1, <1>2 DEF Released, HeadShows

(* What changes safely for every approach changes safely for every lane, as*)
(* a yellow is for all the lanes of its approaches.                        *)
LEMMA LanesFollow ==
    ASSUME NEW i \in Phases, NEW j \in Phases,
           \A a \in Approaches : SafeForApproach(i, j, a)
    PROVE  SafeChange(i, j)
<1>1. ASSUME NEW l \in Lanes PROVE SafeForLane(i, j, l)
  <2>. DEFINE a == Approach(l)
  <2>1. SafeForApproach(i, j, a)
    BY LaneApproach
  <2>2. ASSUME HeadShows(i, l) = "green"
        PROVE  HeadShows(j, l) \in {"green", "yellow"} \/ ApproachShows(j, a) = "green"
    <3>1. ApproachShows(i, a) = "green"
      BY <2>2, LaneFacts DEF HeadShows, ApproachShows
    <3>2. ApproachShows(j, a) \in {"green", "yellow"}
      BY <2>1, <3>1 DEF SafeForApproach
    <3>3. CASE ApproachShows(j, a) = "yellow"
      <4>1. Plan[j].color = "yellow" /\ a \in Plan[j].directions
        BY <3>3 DEF ApproachShows
      <4>. QED
        BY <4>1, LaneFacts DEF HeadShows
    <3>. QED
      BY <3>2, <3>3
  <2>3. ASSUME HeadShows(j, l) = "yellow"
        PROVE  ApproachShows(i, a) \in {"green", "yellow"}
    <3>1. ApproachShows(j, a) = "yellow"
      BY <2>3, LaneFacts DEF HeadShows, ApproachShows
    <3>. QED
      BY <2>1, <3>1 DEF SafeForApproach
  <2>. QED
    BY <2>2, <2>3 DEF SafeForLane
<1>. QED
  BY <1>1 DEF SafeChange
=============================================================================
