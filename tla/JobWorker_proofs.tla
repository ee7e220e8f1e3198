-------------------------- MODULE JobWorker_proofs --------------------------
(***************************************************************************)
(* Theorems about JobWorker, for any messages (several may ask for one     *)
(* run), workers, budgets and batch sizes.                                 *)
(***************************************************************************)
EXTENDS JobWorker, SequenceTheorems, TLAPS

Busy(w) == pc[w] \notin {"idle", "stopped"}

(* The parts of the type invariant. *)
QueueTyped ==
    /\ place \in [Messages -> Places]
    /\ received \in [Messages -> 0 .. QueueBudget]
    /\ receipt \in [Messages -> 0 .. QueueBudget]

WorkersTyped ==
    /\ pc \in [Workers -> Steps]
    /\ batch \in [Workers -> Seq(Deliveries)]
    /\ \A w \in Workers : batch[w] = << >> <=> pc[w] \in {"idle", "stopped"}

StoreTyped == store \in [Runs -> [Objects -> Deliveries \cup {Absent}]]

(* A busy worker has a delivery in hand, and it names a run. *)
LEMMA JobInHand ==
    ASSUME TypeOK, NEW w \in Workers, Busy(w)
    PROVE  /\ Job(w) \in Deliveries
           /\ Job(w).msg \in Messages
           /\ RunId(w) \in Runs
           /\ Len(batch[w]) \in Nat \ {0}
           /\ Tail(batch[w]) \in Seq(Deliveries)
           /\ Len(Tail(batch[w])) = Len(batch[w]) - 1
<1>1. batch[w] \in Seq(Deliveries) /\ batch[w] # << >>
    BY DEF TypeOK, Busy
<1>2. Head(batch[w]) \in Deliveries
    BY <1>1, HeadTailProperties
<1>3. /\ Tail(batch[w]) \in Seq(Deliveries)
      /\ Len(Tail(batch[w])) = Len(batch[w]) - 1
    BY <1>1, HeadTailProperties
<1>4. Len(batch[w]) \in Nat \ {0}
    BY <1>1, EmptySeq
<1>5. Head(batch[w]).msg \in Messages
    BY <1>2 DEF Deliveries
<1> QED BY <1>2, <1>3, <1>4, <1>5, RunOfAssumption DEF Job, RunId

(* Settling the delivery in hand: idle exactly when it was the last one. *)
LEMMA SettleTyped ==
    ASSUME TypeOK, NEW w \in Workers, Busy(w), Settle(w)
    PROVE  WorkersTyped'
<1> DEFINE rest == Tail(batch[w])
<1>1. rest \in Seq(Deliveries) /\ Len(rest) = Len(batch[w]) - 1
      /\ Len(batch[w]) \in Nat \ {0}
    BY JobInHand
<1>2. batch' = [batch EXCEPT ![w] = rest]
    BY DEF Settle
<1>3. pc' = [pc EXCEPT ![w] = IF Len(batch[w]) = 1 THEN "idle" ELSE "next"]
    BY DEF Settle, GoTo
<1> HIDE DEF rest
<1>4. rest = << >> <=> Len(batch[w]) = 1
    <2>1. rest # << >> => Len(rest) \in Nat \ {0}
        BY <1>1, EmptySeq
    <2>2. rest = << >> => Len(rest) = 0
        BY EmptySeq, Zenon
    <2>3. rest = << >> <=> Len(rest) = 0
        BY <2>1, <2>2
    <2> QED BY <1>1, <2>3
<1>5. batch' \in [Workers -> Seq(Deliveries)] /\ pc' \in [Workers -> Steps]
    BY <1>1, <1>2, <1>3 DEF TypeOK, Steps
<1>6. ASSUME NEW v \in Workers
      PROVE  batch'[v] = << >> <=> pc'[v] \in {"idle", "stopped"}
    <2>1. CASE v = w
        BY <1>2, <1>3, <1>4, <2>1 DEF TypeOK
    <2>2. CASE v # w
        BY <1>2, <1>3, <2>2 DEF TypeOK
    <2> QED BY <2>1, <2>2
<1> QED BY <1>5, <1>6 DEF WorkersTyped

(* Going on to another call with the same delivery. *)
LEMMA GoOnTyped ==
    ASSUME TypeOK, NEW w \in Workers, Busy(w), UNCHANGED batch,
           NEW step \in Steps \ {"idle", "stopped"}, GoTo(w, step)
    PROVE  WorkersTyped'
BY DEF TypeOK, WorkersTyped, GoTo, Busy

(* What the queue's methods do keeps its types. *)
LEMMA QueueCallTyped ==
    ASSUME TypeOK, NEW d \in Deliveries,
           \/ Ack(d) \/ Nack(d, TRUE) \/ Nack(d, FALSE)
           \/ Extend(d) \/ Reject(d) \/ UNCHANGED queueVars
    PROVE  QueueTyped'
<1> USE QueueBudgetAssumption
    DEF TypeOK, QueueTyped, Places, Deliveries
<1>1. CASE Ack(d)    BY <1>1 DEF Ack, Move
<1>2. CASE Nack(d, TRUE) \/ Nack(d, FALSE)
    BY <1>2 DEF Nack, Move
<1>3. CASE Extend(d) BY <1>3 DEF Extend, Move
<1>4. CASE Reject(d) BY <1>4 DEF Reject, Move
<1>5. CASE UNCHANGED queueVars BY <1>5 DEF queueVars
<1> QED BY <1>1, <1>2, <1>3, <1>4, <1>5

LEMMA QueueStepTyped ==
    ASSUME TypeOK, NEW m \in Messages, QueueStep(m)
    PROVE  TypeOK'
<1>1. place' \in [Messages -> Places]
    BY DEF TypeOK, QueueStep, Send, Expire, Move, Places
<1> QED BY <1>1 DEF TypeOK, QueueStep, Send, Expire

LEMMA ReceiveTyped ==
    ASSUME TypeOK, NEW w \in Workers, ReceiveBatch(w)
    PROVE  TypeOK'
<1>0. PICK k \in 0 .. BatchSize :
        \E ms \in Injection(1 .. k, Due \ Exhausted) :
        \E dead \in SUBSET Exhausted :
            /\ Receive(Range(ms), dead)
            /\ batch' = [batch EXCEPT ![w] =
                   [i \in 1 .. k |-> [msg |-> ms[i],
                                      count |-> received[ms[i]] + 1]]]
            /\ GoTo(w, IF k = 0 THEN "idle" ELSE "next")
    BY DEF ReceiveBatch
<1>1. PICK ms \in Injection(1 .. k, Due \ Exhausted) :
        \E dead \in SUBSET Exhausted :
            /\ Receive(Range(ms), dead)
            /\ batch' = [batch EXCEPT ![w] =
                   [i \in 1 .. k |-> [msg |-> ms[i],
                                      count |-> received[ms[i]] + 1]]]
            /\ GoTo(w, IF k = 0 THEN "idle" ELSE "next")
    BY <1>0
<1>2. k \in Nat
    BY <1>0, BatchSizeAssumption
<1>3. ms \in [1 .. k -> Due \ Exhausted]
    BY <1>1 DEF Injection
<1>4. ASSUME NEW m \in Due \ Exhausted
      PROVE  m \in Messages /\ received[m] + 1 \in 1 .. QueueBudget
    BY <1>4, QueueBudgetAssumption DEF Due, Exhausted, TypeOK
<1> DEFINE ds == [i \in 1 .. k |-> [msg |-> ms[i],
                                    count |-> received[ms[i]] + 1]]
<1>5. \A i \in 1 .. k : [msg |-> ms[i], count |-> received[ms[i]] + 1]
                            \in Deliveries
    BY <1>3, <1>4 DEF Deliveries
<1>6. ds \in [1 .. k -> Deliveries]
    BY <1>5
<1>7. ds \in Seq(Deliveries) /\ Len(ds) = k
    BY <1>2, <1>6, SeqDef
<1>8. ds = << >> <=> k = 0
    BY <1>7, EmptySeq, <1>2
<1>9. Range(ms) \subseteq Due \ Exhausted
    BY <1>3 DEF Range
<1>10. QueueTyped'
    <2>1. place' \in [Messages -> Places]
        BY <1>1 DEF Receive, TypeOK, Places
    <2>2. received' \in [Messages -> 0 .. QueueBudget]
        <3>1. \A m \in Range(ms) : received[m] + 1 \in 0 .. QueueBudget
            BY <1>9, <1>4, QueueBudgetAssumption
        <3> QED BY <1>1, <3>1 DEF Receive, TypeOK
    <2>3. receipt' \in [Messages -> 0 .. QueueBudget]
        BY <1>1, <2>2 DEF Receive, TypeOK
    <2> QED BY <2>1, <2>2, <2>3 DEF QueueTyped
<1>11. WorkersTyped'
    <2>1. batch' = [batch EXCEPT ![w] = ds]
        BY <1>1
    <2>2. pc' = [pc EXCEPT ![w] = IF k = 0 THEN "idle" ELSE "next"]
        BY <1>1 DEF GoTo
    <2> HIDE DEF ds
    <2>3. batch' \in [Workers -> Seq(Deliveries)] /\ pc' \in [Workers -> Steps]
        BY <1>7, <2>1, <2>2 DEF TypeOK, Steps
    <2>4. ASSUME NEW v \in Workers
          PROVE  batch'[v] = << >> <=> pc'[v] \in {"idle", "stopped"}
        <3>1. CASE v = w
            BY <1>8, <2>1, <2>2, <3>1 DEF TypeOK
        <3>2. CASE v # w
            BY <2>1, <2>2, <3>2 DEF TypeOK
        <3> QED BY <3>1, <3>2
    <2> QED BY <2>3, <2>4 DEF WorkersTyped
<1> QED BY <1>10, <1>11 DEF ReceiveBatch, TypeOK, QueueTyped, WorkersTyped

(* A put, carried out or not, and what it leaves alone. *)
LEMMA PutTyped ==
    ASSUME TypeOK, NEW w \in Workers, Busy(w), NEW o \in Objects,
           Put(w, o) \/ UNCHANGED store
    PROVE  /\ StoreTyped'
           /\ \A r \in Runs, x \in Objects :
                 store[r][x] # Absent => store'[r][x] # Absent
           /\ \A r \in Runs, x \in Objects :
                 x # o => store'[r][x] = store[r][x]
           /\ \A r \in Runs : r # RunId(w) => store'[r] = store[r]
           /\ Put(w, o) => store'[RunId(w)][o] # Absent
<1>1. Job(w) \in Deliveries /\ RunId(w) \in Runs /\ Job(w) # Absent
    BY JobInHand, AbsentAssumption
<1>2. CASE Put(w, o)
    BY <1>1, <1>2 DEF Put, TypeOK, StoreTyped
<1>3. CASE UNCHANGED store /\ ~Put(w, o)
    BY <1>3 DEF TypeOK, StoreTyped
<1> QED BY <1>2, <1>3

(* The pieces together are the type invariant. *)
LEMMA TypePieces ==
    ASSUME QueueTyped, WorkersTyped, StoreTyped,
           stopping \in [Workers -> BOOLEAN]
    PROVE  TypeOK
BY DEF QueueTyped, WorkersTyped, StoreTyped, TypeOK

(* A worker's step keeps the types, action by action. *)
LEMMA WorkerStepTyped ==
    ASSUME TypeOK, NEW w \in Workers, WorkerStep(w)
    PROVE  TypeOK'
<1>1. CASE HandBack(w)
    <2>1. Busy(w) /\ UNCHANGED <<stopping, store>>
        BY <1>1 DEF HandBack, Busy
    <2>2. QueueTyped'
        BY <1>1, <2>1, JobInHand, QueueCallTyped DEF HandBack
    <2>3. WorkersTyped'
        BY <1>1, <2>1, SettleTyped DEF HandBack
    <2> QED BY <2>1, <2>2, <2>3 DEF QueueTyped, WorkersTyped, TypeOK
<1>2. CASE Halt(w)
    BY <1>2 DEF Halt, GoTo, TypeOK, queueVars, Steps
<1>3. CASE Handle(w) \/ Run(w) \/ CheckRun(w)
    <2>1. Busy(w) /\ UNCHANGED <<queueVars, batch, stopping, store>>
        BY <1>3 DEF Handle, Run, CheckRun, Busy
    <2>2. \E step \in Steps \ {"idle", "stopped"} : GoTo(w, step)
        BY <1>3 DEF Handle, Run, CheckRun, Steps
    <2>3. WorkersTyped'
        BY <2>1, <2>2, GoOnTyped
    <2> QED BY <2>1, <2>3 DEF WorkersTyped, TypeOK, queueVars
<1>4. CASE ExtendVisibility(w)
    <2>1. Busy(w) /\ UNCHANGED <<stopping, store>>
        BY <1>4 DEF ExtendVisibility, Busy
    <2>2. QueueTyped'
        BY <1>4, <2>1, JobInHand, QueueCallTyped DEF ExtendVisibility, queueVars
    <2>3. WorkersTyped'
        <3>1. CASE GoTo(w, "run") /\ UNCHANGED batch
            BY <2>1, <3>1, GoOnTyped DEF Steps
        <3>2. CASE Settle(w)
            BY <2>1, <3>2, SettleTyped
        <3> QED BY <1>4, <3>1, <3>2 DEF ExtendVisibility
    <2> QED BY <2>1, <2>2, <2>3 DEF QueueTyped, WorkersTyped, TypeOK
<1>5. CASE StoreUsage(w) \/ StoreTable(w) \/ StoreManifest(w)
    <2>1. Busy(w) /\ UNCHANGED <<queueVars, batch, stopping>>
        BY <1>5 DEF StoreUsage, StoreTable, StoreManifest, PutStep, Busy
    <2>2. \E o \in Objects : Put(w, o) \/ UNCHANGED store
        BY <1>5 DEF StoreUsage, StoreTable, StoreManifest, PutStep, Objects
    <2>3. \E step \in Steps \ {"idle", "stopped"} : GoTo(w, step)
        BY <1>5 DEF StoreUsage, StoreTable, StoreManifest, PutStep, Steps
    <2>4. StoreTyped'
        BY <2>1, <2>2, PutTyped
    <2>5. WorkersTyped'
        BY <2>1, <2>3, GoOnTyped
    <2> QED BY <2>1, <2>4, <2>5 DEF WorkersTyped, StoreTyped, TypeOK, queueVars
<1>6. CASE Finish(w) \/ Retry(w) \/ RejectJob(w)
    <2>1. Busy(w) /\ UNCHANGED <<stopping, store>>
        BY <1>6 DEF Finish, Retry, RejectJob, Busy
    <2>2. QueueTyped'
        BY <1>6, <2>1, JobInHand, QueueCallTyped DEF Finish, Retry, RejectJob
    <2>3. WorkersTyped'
        BY <1>6, <2>1, SettleTyped DEF Finish, Retry, RejectJob
    <2> QED BY <2>1, <2>2, <2>3 DEF QueueTyped, WorkersTyped, TypeOK
<1> QED BY <1>1, <1>2, <1>3, <1>4, <1>5, <1>6 DEF WorkerStep

LEMMA TypeInit == Init => TypeOK
<1> SUFFICES ASSUME Init PROVE TypeOK
    OBVIOUS
<1>1. << >> \in Seq(Deliveries)
    BY EmptySeq
<1> QED
    BY <1>1, QueueBudgetAssumption
    DEF Init, QueueInit, TypeOK, Places, Steps, Objects

LEMMA TypeNext == TypeOK /\ [Next]_vars => TypeOK'
<1> SUFFICES ASSUME TypeOK, [Next]_vars PROVE TypeOK'
    OBVIOUS
<1>1. ASSUME NEW m \in Messages, QueueStep(m) PROVE TypeOK'
    BY <1>1, QueueStepTyped
<1>2. ASSUME NEW w \in Workers, WorkerStep(w) PROVE TypeOK'
    BY <1>2, WorkerStepTyped
<1>3. ASSUME NEW w \in Workers, ReceiveBatch(w) PROVE TypeOK'
    BY <1>3, ReceiveTyped
<1>4. ASSUME NEW w \in Workers, RequestStop(w) PROVE TypeOK'
    BY <1>4 DEF RequestStop, TypeOK, queueVars
<1>5. ASSUME NEW w \in Workers, Crash(w) PROVE TypeOK'
    <2>1. << >> \in Seq(Deliveries)
        BY EmptySeq
    <2> QED BY <1>5, <2>1 DEF Crash, GoTo, TypeOK, queueVars, Steps
<1>6. ASSUME NEW w \in Workers, Restart(w) PROVE TypeOK'
    BY <1>6 DEF Restart, GoTo, TypeOK, queueVars, Steps
<1>7. CASE UNCHANGED vars
    BY <1>7 DEF vars, queueVars, TypeOK
<1> QED BY <1>1, <1>2, <1>3, <1>4, <1>5, <1>6, <1>7 DEF Next

(* The queue, the workers and the run store keep their types, and a worker *)
(* between two batches holds no delivery: whatever the queue answers, each *)
(* delivery a receive returned is settled before the next receive.         *)
THEOREM JobTypes == Spec => []TypeOK
BY TypeInit, TypeNext, PTL DEF Spec

-----------------------------------------------------------------------------
(***************************************************************************)
(* What the store holds. The inductive invariant adds to the two           *)
(* properties what the delivery in hand has achieved at each call.         *)
(***************************************************************************)

Achieved(w) ==
    /\ pc[w] \in {"check", "table", "manifest"} =>
           store[RunId(w)]["usage"] # Absent
    /\ pc[w] = "manifest" => store[RunId(w)]["table"] # Absent
    /\ pc[w] = "ack" => store[RunId(w)]["manifest"] # Absent

StoreInv ==
    /\ WholeRuns
    /\ NoJobLost
    /\ \A w \in Workers : Achieved(w)

(* No object of the store ever goes away. *)
Grows ==
    \A r \in Runs, o \in Objects : store[r][o] # Absent => store'[r][o] # Absent

(* What another worker has achieved stays achieved. *)
LEMMA OthersKeep ==
    ASSUME TypeOK, StoreInv, NEW w \in Workers, Grows,
           \A v \in Workers \ {w} : pc'[v] = pc[v] /\ batch'[v] = batch[v]
    PROVE  \A v \in Workers \ {w} : Achieved(v)'
<1> SUFFICES ASSUME NEW v \in Workers \ {w} PROVE Achieved(v)'
    OBVIOUS
<1>1. pc'[v] = pc[v] /\ RunId(v)' = RunId(v) /\ Achieved(v)
    BY DEF RunId, Job, StoreInv
<1>2. CASE Busy(v)
    <2>1. RunId(v) \in Runs
        BY <1>2, JobInHand
    <2> QED BY <1>1, <2>1 DEF Grows, Achieved, Objects
<1>3. CASE ~Busy(v)
    BY <1>1, <1>3 DEF Busy, Achieved
<1> QED BY <1>2, <1>3

(* A step that leaves the store alone and deletes no message. *)
LEMMA StoreUntouched ==
    ASSUME TypeOK, StoreInv, NEW w \in Workers, UNCHANGED store,
           \A v \in Workers \ {w} : pc'[v] = pc[v] /\ batch'[v] = batch[v],
           \A m \in Messages : place'[m] = "deleted" => place[m] = "deleted",
           Achieved(w)'
    PROVE  StoreInv'
<1>1. \A v \in Workers : Achieved(v)'
    BY OthersKeep DEF Grows
<1>2. WholeRuns' /\ NoJobLost'
    BY RunOfAssumption DEF StoreInv, WholeRuns, NoJobLost, HasRun
<1> QED BY <1>1, <1>2 DEF StoreInv

(* No method but ack deletes. *)
LEMMA OnlyAckDeletes ==
    ASSUME TypeOK, NEW d,
           \/ Nack(d, TRUE) \/ Nack(d, FALSE) \/ Extend(d) \/ Reject(d)
           \/ UNCHANGED queueVars
    PROVE  \A m \in Messages : place'[m] = "deleted" => place[m] = "deleted"
BY DEF Nack, Extend, Reject, Move, queueVars

(* The delivery in hand is settled: the worker is between two deliveries. *)
LEMMA SettledAchieves ==
    ASSUME TypeOK, NEW w \in Workers, Settle(w)
    PROVE  /\ Achieved(w)'
           /\ \A v \in Workers \ {w} : pc'[v] = pc[v] /\ batch'[v] = batch[v]
<1>1. pc'[w] \in {"idle", "next"}
    BY DEF Settle, GoTo, TypeOK
<1> QED BY <1>1 DEF Settle, GoTo, TypeOK, Achieved

LEMMA StoreWorkerStep ==
    ASSUME TypeOK, StoreInv, NEW w \in Workers, WorkerStep(w)
    PROVE  StoreInv'
<1>1. CASE HandBack(w) \/ Retry(w) \/ RejectJob(w)
    <2>1. UNCHANGED store /\ Settle(w)
        BY <1>1 DEF HandBack, Retry, RejectJob
    <2>2. \A m \in Messages : place'[m] = "deleted" => place[m] = "deleted"
        BY <1>1, OnlyAckDeletes DEF HandBack, Retry, RejectJob
    <2> QED BY <2>1, <2>2, SettledAchieves, StoreUntouched
<1>2. CASE Halt(w)
    <2>1. Achieved(w)'
        BY <1>2 DEF Halt, GoTo, TypeOK, Achieved
    <2>2. \A v \in Workers \ {w} : pc'[v] = pc[v] /\ batch'[v] = batch[v]
        BY <1>2 DEF Halt, GoTo, TypeOK
    <2>3. UNCHANGED <<store, place>>
        BY <1>2 DEF Halt, queueVars
    <2> QED BY <2>1, <2>2, <2>3, StoreUntouched
<1>3. CASE Handle(w) \/ Run(w) \/ CheckRun(w)
    <2>1. UNCHANGED <<store, place, batch>>
        BY <1>3 DEF Handle, Run, CheckRun, queueVars
    <2>2. RunId(w)' = RunId(w) /\ HasRun(RunId(w))' = HasRun(RunId(w))
        BY <2>1 DEF RunId, Job, HasRun
    <2>3. Achieved(w)'
        <3>1. CASE Handle(w)
            BY <3>1, <2>1, <2>2 DEF Handle, GoTo, TypeOK, Achieved, HasRun
        <3>2. CASE Run(w)
            BY <3>2, <2>1, <2>2 DEF Run, GoTo, TypeOK, Achieved
        <3>3. CASE CheckRun(w)
            BY <3>3, <2>1, <2>2
            DEF CheckRun, GoTo, TypeOK, Achieved, HasRun, StoreInv
        <3> QED BY <1>3, <3>1, <3>2, <3>3
    <2>4. \A v \in Workers \ {w} : pc'[v] = pc[v] /\ batch'[v] = batch[v]
        BY <1>3, <2>1 DEF Handle, Run, CheckRun, GoTo, TypeOK
    <2> QED BY <2>1, <2>3, <2>4, StoreUntouched
<1>4. CASE ExtendVisibility(w)
    <2>1. UNCHANGED store
        BY <1>4 DEF ExtendVisibility
    <2>2. \A m \in Messages : place'[m] = "deleted" => place[m] = "deleted"
        BY <1>4, OnlyAckDeletes DEF ExtendVisibility
    <2>3. /\ Achieved(w)'
          /\ \A v \in Workers \ {w} : pc'[v] = pc[v] /\ batch'[v] = batch[v]
        <3>1. CASE GoTo(w, "run") /\ UNCHANGED batch
            BY <3>1 DEF GoTo, TypeOK, Achieved
        <3>2. CASE Settle(w)
            BY <3>2, SettledAchieves
        <3> QED BY <1>4, <3>1, <3>2 DEF ExtendVisibility
    <2> QED BY <2>1, <2>2, <2>3, StoreUntouched
<1>5. CASE StoreUsage(w) \/ StoreTable(w) \/ StoreManifest(w)
    <2>0. Busy(w) /\ UNCHANGED <<place, batch>> /\ RunId(w)' = RunId(w)
        BY <1>5 DEF StoreUsage, StoreTable, StoreManifest, PutStep, Busy,
                    queueVars, RunId, Job
    <2>1. PICK o \in Objects :
            /\ Put(w, o) \/ UNCHANGED store
            /\ o = "usage" => pc[w] = "usage" /\ PutStep(w, o, "check")
            /\ o = "table" => pc[w] = "table" /\ PutStep(w, o, "manifest")
            /\ o = "manifest" => pc[w] = "manifest" /\ PutStep(w, o, "ack")
        <3>1. CASE StoreUsage(w)
            BY <3>1 DEF StoreUsage, PutStep, Objects
        <3>2. CASE StoreTable(w)
            BY <3>2 DEF StoreTable, PutStep, Objects
        <3>3. CASE StoreManifest(w)
            BY <3>3 DEF StoreManifest, PutStep, Objects
        <3> QED BY <1>5, <3>1, <3>2, <3>3
    <2>2. /\ Grows
          /\ \A r \in Runs, x \in Objects : x # o => store'[r][x] = store[r][x]
          /\ \A r \in Runs : r # RunId(w) => store'[r] = store[r]
          /\ Put(w, o) => store'[RunId(w)][o] # Absent
        BY <2>0, <2>1, PutTyped DEF Grows
    <2>3. RunId(w) \in Runs
        BY <2>0, JobInHand
    <2>4. \A v \in Workers \ {w} : pc'[v] = pc[v] /\ batch'[v] = batch[v]
        BY <2>0, <2>1 DEF PutStep, GoTo, TypeOK, Objects
    <2>5. Achieved(w)
        BY DEF StoreInv
    <2>6. Achieved(w)'
        <3>1. CASE pc'[w] = "nack"
            BY <3>1 DEF Achieved
        <3>2. CASE Put(w, o) /\ o = "usage" /\ pc'[w] = "check"
            BY <2>0, <2>2, <3>2 DEF Achieved
        <3>3. CASE Put(w, o) /\ o = "table" /\ pc'[w] = "manifest"
            BY <2>0, <2>1, <2>2, <2>3, <2>5, <3>3 DEF Achieved, Grows, Objects
        <3>4. CASE Put(w, o) /\ o = "manifest" /\ pc'[w] = "ack"
            BY <2>0, <2>2, <3>4 DEF Achieved
        <3> QED BY <2>1, <3>1, <3>2, <3>3, <3>4
                DEF PutStep, GoTo, TypeOK, Objects
    <2>7. WholeRuns'
        <3> SUFFICES ASSUME NEW r \in Runs, HasRun(r)', NEW x \in Objects
                     PROVE  store'[r][x] # Absent
            BY DEF WholeRuns
        <3>1. CASE HasRun(r)
            BY <2>2, <3>1 DEF StoreInv, WholeRuns, Grows
        <3>2. CASE ~HasRun(r)
            <4>1. o = "manifest" /\ r = RunId(w)
                BY <2>2, <3>2 DEF HasRun, Objects
            <4>2. store[r]["usage"] # Absent /\ store[r]["table"] # Absent
                BY <2>1, <2>5, <4>1 DEF Achieved
            <4>3. store'[r]["usage"] # Absent /\ store'[r]["table"] # Absent
                BY <2>2, <4>2 DEF Grows, Objects
            <4> QED BY <4>3 DEF HasRun, Objects
        <3> QED BY <3>1, <3>2
    <2>8. NoJobLost'
        BY <2>0, <2>2, RunOfAssumption
        DEF StoreInv, NoJobLost, HasRun, Grows, Objects
    <2> QED BY <2>2, <2>4, <2>6, <2>7, <2>8, OthersKeep DEF StoreInv
<1>6. CASE Finish(w)
    <2>1. UNCHANGED store /\ Settle(w) /\ pc[w] = "ack"
        BY <1>6 DEF Finish
    <2>2. /\ Achieved(w)'
          /\ \A v \in Workers \ {w} : pc'[v] = pc[v] /\ batch'[v] = batch[v]
        BY <2>1, SettledAchieves
    <2>3. \A v \in Workers : Achieved(v)'
        BY <2>1, <2>2, OthersKeep DEF Grows
    <2>4. HasRun(RunId(w))
        BY <2>1 DEF StoreInv, Achieved, HasRun
    <2>5. \A m \in Messages :
            place'[m] = "deleted" => place[m] = "deleted" \/ m = Job(w).msg
        BY <1>6 DEF Finish, Ack, Move, queueVars
    <2>6. NoJobLost'
        BY <2>1, <2>4, <2>5 DEF StoreInv, NoJobLost, HasRun, RunId
    <2>7. WholeRuns'
        BY <2>1 DEF StoreInv, WholeRuns, HasRun
    <2> QED BY <2>3, <2>6, <2>7 DEF StoreInv
<1> QED BY <1>1, <1>2, <1>3, <1>4, <1>5, <1>6 DEF WorkerStep

LEMMA StoreInit == Init => StoreInv
BY DEF Init, QueueInit, StoreInv, WholeRuns, NoJobLost, HasRun, Achieved,
       Objects

LEMMA StoreNext == TypeOK /\ StoreInv /\ [Next]_vars => StoreInv'
<1> SUFFICES ASSUME TypeOK, StoreInv, [Next]_vars PROVE StoreInv'
    OBVIOUS
<1>1. ASSUME NEW m \in Messages, QueueStep(m) PROVE StoreInv'
    <2>1. UNCHANGED <<pc, batch, store>>
        BY <1>1 DEF QueueStep
    <2>2. \A x \in Messages : place'[x] = "deleted" => place[x] = "deleted"
        BY <1>1 DEF QueueStep, Send, Expire, Move
    <2> QED BY <2>1, <2>2
            DEF StoreInv, WholeRuns, NoJobLost, HasRun, Achieved, RunId, Job
<1>2. ASSUME NEW w \in Workers, WorkerStep(w) PROVE StoreInv'
    BY <1>2, StoreWorkerStep
<1>3. ASSUME NEW w \in Workers, ReceiveBatch(w) PROVE StoreInv'
    <2>1. UNCHANGED store
        BY <1>3 DEF ReceiveBatch
    <2>2. Achieved(w)'
        BY <1>3 DEF ReceiveBatch, GoTo, TypeOK, Achieved
    <2>3. \A v \in Workers \ {w} : pc'[v] = pc[v] /\ batch'[v] = batch[v]
        BY <1>3 DEF ReceiveBatch, GoTo, TypeOK
    <2>4. \A m \in Messages : place'[m] = "deleted" => place[m] = "deleted"
        BY <1>3 DEF ReceiveBatch, Receive
    <2> QED BY <2>1, <2>2, <2>3, <2>4, StoreUntouched
<1>4. ASSUME NEW w \in Workers, RequestStop(w) PROVE StoreInv'
    BY <1>4 DEF RequestStop, queueVars, StoreInv, WholeRuns, NoJobLost, HasRun,
                Achieved, RunId, Job
<1>5. ASSUME NEW w \in Workers, Crash(w) \/ Restart(w) PROVE StoreInv'
    <2>1. UNCHANGED <<store, place>>
        BY <1>5 DEF Crash, Restart, queueVars
    <2>2. Achieved(w)'
        BY <1>5 DEF Crash, Restart, GoTo, TypeOK, Achieved
    <2>3. \A v \in Workers \ {w} : pc'[v] = pc[v] /\ batch'[v] = batch[v]
        BY <1>5 DEF Crash, Restart, GoTo, TypeOK
    <2> QED BY <2>1, <2>2, <2>3, StoreUntouched
<1>6. CASE UNCHANGED vars
    BY <1>6 DEF vars, queueVars, StoreInv, WholeRuns, NoJobLost, HasRun,
                Achieved, RunId, Job
<1> QED BY <1>1, <1>2, <1>3, <1>4, <1>5, <1>6 DEF Next

(* A run that has a manifest has its table and its usage record: _store    *)
(* and save_run write them in an order no crash, failing put or second     *)
(* worker can upset.                                                       *)
THEOREM RunsAreWhole == Spec => []WholeRuns
<1>1. StoreInv => WholeRuns
    BY DEF StoreInv
<1> QED BY <1>1, TypeInit, TypeNext, StoreInit, StoreNext, PTL DEF Spec

(* A deleted message has a stored run: _finish is reached only with the    *)
(* manifest in the store, whichever delivery put it there.                 *)
THEOREM JobsAreKept == Spec => []NoJobLost
<1>1. StoreInv => NoJobLost
    BY DEF StoreInv
<1> QED BY <1>1, TypeInit, TypeNext, StoreInit, StoreNext, PTL DEF Spec

-----------------------------------------------------------------------------
(***************************************************************************)
(* Who may write a run.                                                    *)
(***************************************************************************)

Saving == {"table", "manifest"}

Entered(v) ==
    /\ batch'[v] = batch[v]
    /\ pc[v] \in Saving \/ ~HasRun(RunId(v))

(* A worker is at a put of save_run because it was before, or because it   *)
(* has just found no manifest.                                             *)
LEMMA SaveEntry ==
    ASSUME TypeOK, [Next]_vars, NEW v \in Workers, pc'[v] \in Saving
    PROVE  Entered(v)
<1> USE DEF Saving, Entered
<1>1. CASE pc'[v] = pc[v] /\ batch'[v] = batch[v]
    BY <1>1
<1>2. ASSUME NEW w \in Workers, WorkerStep(w) PROVE Entered(v)
    <2>1. CASE w # v
        BY <1>1, <1>2, <2>1
        DEF WorkerStep, HandBack, Halt, Handle, ExtendVisibility, Run, StoreUsage,
            CheckRun, StoreTable, StoreManifest, PutStep, Finish, Retry,
            RejectJob, Settle, GoTo, TypeOK
    <2>2. CASE w = v
        <3>1. CASE \/ HandBack(v) \/ Halt(v) \/ ExtendVisibility(v)
                   \/ Finish(v) \/ Retry(v) \/ RejectJob(v)
            BY <3>1 DEF HandBack, Halt, ExtendVisibility, Finish, Retry,
                        RejectJob, Settle, GoTo, TypeOK
        <3>2. CASE Handle(v) \/ Run(v) \/ StoreUsage(v)
            BY <3>2 DEF Handle, Run, StoreUsage, PutStep, GoTo, TypeOK
        <3>3. CASE CheckRun(v)
            BY <3>3 DEF CheckRun, GoTo, TypeOK
        <3>4. CASE StoreTable(v) \/ StoreManifest(v)
            BY <3>4 DEF StoreTable, StoreManifest, PutStep
        <3> QED BY <1>2, <2>2, <3>1, <3>2, <3>3, <3>4 DEF WorkerStep
    <2> QED BY <2>1, <2>2
<1>3. ASSUME NEW w \in Workers,
             ReceiveBatch(w) \/ RequestStop(w) \/ Crash(w) \/ Restart(w)
      PROVE  Entered(v)
    BY <1>3 DEF ReceiveBatch, RequestStop, Crash, Restart, GoTo, TypeOK
<1>4. ASSUME NEW m \in Messages, QueueStep(m) PROVE Entered(v)
    BY <1>4 DEF QueueStep
<1>5. CASE UNCHANGED vars
    BY <1>5 DEF vars
<1> QED BY <1>2, <1>3, <1>4, <1>5 DEF Next

(* Once a run is stored and the saves under way are over, nobody writes it *)
(* again: the check of save_run keeps out every later delivery.            *)
THEOREM StoredRunsAreLeftAlone == Spec => StoredRunSettles
<1>1. TypeOK /\ [Next]_vars =>
          [\A r \in Runs : HasRun(r) /\ ~SaveUnderWay(r) => ~SaveUnderWay(r)']_vars
    <2> SUFFICES ASSUME TypeOK, [Next]_vars, NEW r \in Runs, HasRun(r),
                        NEW v \in Workers, pc'[v] \in Saving, RunId(v)' = r
                 PROVE  SaveUnderWay(r)
        BY DEF SaveUnderWay, Saving
    <2>1. RunId(v) = r
        BY SaveEntry DEF Entered, RunId, Job
    <2> QED BY <2>1, SaveEntry DEF Entered, SaveUnderWay, Saving
<1> QED BY <1>1, TypeInit, TypeNext, PTL DEF Spec, StoredRunSettles

(***************************************************************************)
(* Giving up. No receive count ever goes back, so what a delivery in some  *)
(* batch says of its message stays true.                                   *)
(***************************************************************************)

(* The receives of a delivery's message are at least those it counted. *)
Truthful(s) == \A i \in 1 .. Len(s) : s[i].count <= received[s[i].msg]

(* A worker rejects a message that is no good, or past the job's budget. *)
RejectsRightly(w) ==
    pc[w] = "reject" =>
        Job(w).msg \in Malformed \cup Invalid \/ Job(w).count > Budget

GiveUpInv ==
    /\ GivenUpOnlyAfterBudget
    /\ \A w \in Workers : Truthful(batch[w]) /\ RejectsRightly(w)

CountsGrow == \A m \in Messages : received[m] <= received'[m]

(* Which messages a step may give up. *)
GivesUp(m) == place[m] # "dead" /\ place'[m] = "dead"

LEMMA TruthfulTail ==
    ASSUME TypeOK, NEW w \in Workers, Busy(w), Truthful(batch[w])
    PROVE  Truthful(Tail(batch[w]))
<1>1. batch[w] \in Seq(Deliveries) /\ batch[w] # << >>
    BY DEF TypeOK, Busy
<1>2. \A i \in 1 .. Len(Tail(batch[w])) :
        i + 1 \in 1 .. Len(batch[w]) /\ Tail(batch[w])[i] = batch[w][i + 1]
    BY <1>1, HeadTailProperties
<1> QED BY <1>2 DEF Truthful

(* If counts only grow and nothing is given up but rightly, the invariant  *)
(* is left to the workers that changed their batch or place.               *)
LEMMA GiveUpKept ==
    ASSUME TypeOK, TypeOK', GiveUpInv, CountsGrow,
           \A m \in Messages \ (Malformed \cup Invalid) :
              GivesUp(m) => received'[m] > Budget \/ received'[m] = QueueBudget,
           NEW w \in Workers,
           \A v \in Workers \ {w} : pc'[v] = pc[v] /\ batch'[v] = batch[v],
           Truthful(batch[w])', RejectsRightly(w)'
    PROVE  GiveUpInv'
<1>1. GivenUpOnlyAfterBudget'
    <2> SUFFICES ASSUME NEW m \in Messages \ (Malformed \cup Invalid),
                        place'[m] = "dead"
                 PROVE  received'[m] > Budget \/ received'[m] = QueueBudget
        BY DEF GivenUpOnlyAfterBudget
    <2>1. received[m] \in 0 .. QueueBudget /\ received'[m] \in 0 .. QueueBudget
          /\ received[m] <= received'[m]
        BY DEF TypeOK, CountsGrow
    <2>2. CASE place[m] = "dead"
        BY <2>1, <2>2, QueueBudgetAssumption, BudgetAssumption
        DEF GiveUpInv, GivenUpOnlyAfterBudget
    <2> QED BY <2>2 DEF GivesUp
<1>2. ASSUME NEW v \in Workers \ {w} PROVE Truthful(batch[v])' /\ RejectsRightly(v)'
    <2>1. RejectsRightly(v)'
        BY DEF GiveUpInv, RejectsRightly, Job
    <2>2. ASSUME NEW i \in 1 .. Len(batch[v])
          PROVE  batch[v][i].count <= received'[batch[v][i].msg]
        <3>1. batch[v][i] \in Deliveries
            BY DEF TypeOK
        <3>2. batch[v][i].count \in Nat /\ batch[v][i].msg \in Messages
            BY <3>1, QueueBudgetAssumption DEF Deliveries
        <3>3. batch[v][i].count <= received[batch[v][i].msg]
            BY DEF GiveUpInv, Truthful
        <3> QED BY <3>2, <3>3, QueueBudgetAssumption DEF CountsGrow, TypeOK
    <2> QED BY <2>1, <2>2 DEF Truthful
<1> QED BY <1>1, <1>2 DEF GiveUpInv

LEMMA GiveUpWorkerStep ==
    ASSUME TypeOK, TypeOK', GiveUpInv, NEW w \in Workers, WorkerStep(w)
    PROVE  GiveUpInv'
<1>1. UNCHANGED received
    BY DEF WorkerStep, HandBack, Halt, Handle, ExtendVisibility, Run, StoreUsage,
           CheckRun, StoreTable, StoreManifest, PutStep, Finish, Retry, RejectJob,
           Ack, Nack, Extend, Reject, queueVars
<1>2. CountsGrow
    BY <1>1, QueueBudgetAssumption DEF CountsGrow, TypeOK
<1>3. \A v \in Workers \ {w} : pc'[v] = pc[v] /\ batch'[v] = batch[v]
    BY DEF WorkerStep, HandBack, Halt, Handle, ExtendVisibility, Run, StoreUsage,
           CheckRun, StoreTable, StoreManifest, PutStep, Finish, Retry, RejectJob,
           Settle, GoTo, TypeOK
<1>4. Truthful(batch[w]) /\ RejectsRightly(w)
    BY DEF GiveUpInv
<1>5. Truthful(batch[w])'
    <2>1. CASE batch' = batch
        BY <1>1, <1>4, <2>1 DEF Truthful
    <2>2. CASE Settle(w)
        <3>1. Busy(w)
            BY <2>2 DEF WorkerStep, HandBack, Halt, Handle, ExtendVisibility, Run,
               StoreUsage, CheckRun, StoreTable, StoreManifest, Finish, Retry,
               RejectJob, Busy, Settle, GoTo, TypeOK
        <3>2. batch'[w] = Tail(batch[w])
            BY <2>2 DEF Settle, TypeOK
        <3>3. Truthful(Tail(batch[w]))
            BY <1>4, <3>1, TruthfulTail
        <3> QED BY <1>1, <3>2, <3>3 DEF Truthful
    <2> QED
        BY <2>1, <2>2
        DEF WorkerStep, HandBack, Halt, Handle, ExtendVisibility, Run, StoreUsage,
            CheckRun, StoreTable, StoreManifest, PutStep, Finish, Retry, RejectJob
<1>6. RejectsRightly(w)'
    <2>1. CASE Handle(w) \/ Run(w)
        BY <2>1 DEF Handle, OverBudget, Run, RejectsRightly, GoTo, Job, TypeOK
    <2>2. CASE ~(Handle(w) \/ Run(w))
        <3>1. pc'[w] # "reject"
            BY <2>2
            DEF WorkerStep, HandBack, Halt, ExtendVisibility, StoreUsage, CheckRun,
                StoreTable, StoreManifest, PutStep, Finish, Retry, RejectJob, Settle,
                GoTo, TypeOK
        <3> QED BY <3>1 DEF RejectsRightly
    <2> QED BY <2>1, <2>2
<1>7. ASSUME NEW m \in Messages \ (Malformed \cup Invalid), GivesUp(m)
      PROVE  received'[m] > Budget
    <2>1. RejectJob(w) /\ Reject(Job(w)) /\ m = Job(w).msg
        BY <1>7
        DEF GivesUp, WorkerStep, HandBack, Halt, Handle, ExtendVisibility, Run,
            StoreUsage, CheckRun, StoreTable, StoreManifest, PutStep, Finish, Retry,
            RejectJob, Ack, Nack, Extend, Reject, Move, queueVars
    <2>2. Busy(w) /\ pc[w] = "reject"
        BY <2>1 DEF RejectJob, Busy
    <2>3. Job(w) \in Deliveries /\ Job(w) = batch[w][1] /\ 1 \in 1 .. Len(batch[w])
        BY <2>2, JobInHand DEF Job
    <2>4. Job(w).count > Budget
        <3>1. Job(w).msg \notin Malformed \cup Invalid
            BY <1>7, <2>1
        <3> QED BY <1>4, <2>2, <3>1 DEF RejectsRightly
    <2>5. Job(w).count <= received[m]
        BY <1>4, <2>1, <2>3 DEF Truthful
    <2>6. Job(w).count \in Nat /\ received[m] \in Nat
        BY <2>3, QueueBudgetAssumption DEF Deliveries, TypeOK
    <2> QED BY <1>1, <2>4, <2>5, <2>6, BudgetAssumption
<1> QED BY <1>2, <1>3, <1>5, <1>6, <1>7, GiveUpKept

LEMMA GiveUpReceive ==
    ASSUME TypeOK, TypeOK', GiveUpInv, NEW w \in Workers, ReceiveBatch(w)
    PROVE  GiveUpInv'
<1>0. PICK k \in 0 .. BatchSize :
        \E ms \in Injection(1 .. k, Due \ Exhausted) :
        \E dead \in SUBSET Exhausted :
            /\ Receive(Range(ms), dead)
            /\ batch' = [batch EXCEPT ![w] =
                   [i \in 1 .. k |-> [msg |-> ms[i],
                                      count |-> received[ms[i]] + 1]]]
            /\ GoTo(w, IF k = 0 THEN "idle" ELSE "next")
    BY DEF ReceiveBatch
<1>1. PICK ms \in Injection(1 .. k, Due \ Exhausted) :
        \E dead \in SUBSET Exhausted :
            /\ Receive(Range(ms), dead)
            /\ batch' = [batch EXCEPT ![w] =
                   [i \in 1 .. k |-> [msg |-> ms[i],
                                      count |-> received[ms[i]] + 1]]]
            /\ GoTo(w, IF k = 0 THEN "idle" ELSE "next")
    BY <1>0
<1>2. PICK dead \in SUBSET Exhausted : Receive(Range(ms), dead)
    BY <1>1
<1>3. k \in Nat /\ ms \in [1 .. k -> Due \ Exhausted]
    BY <1>0, <1>1, BatchSizeAssumption DEF Injection
<1>4. received' = [m \in Messages |->
                     IF m \in Range(ms) THEN received[m] + 1 ELSE received[m]]
    BY <1>2 DEF Receive
<1>5. CountsGrow
    BY <1>4, QueueBudgetAssumption DEF CountsGrow, TypeOK
<1>6. /\ batch'[w] = [i \in 1 .. k |-> [msg |-> ms[i], count |-> received[ms[i]] + 1]]
      /\ pc'[w] # "reject"
      /\ \A v \in Workers \ {w} : pc'[v] = pc[v] /\ batch'[v] = batch[v]
    BY <1>1 DEF GoTo, TypeOK
<1>7. Truthful(batch[w])'
    <2>1. Len(batch'[w]) = k
        BY <1>3, <1>6
    <2>2. ASSUME NEW i \in 1 .. k
          PROVE  batch'[w][i].count <= received'[batch'[w][i].msg]
        <3>1. ms[i] \in Messages /\ ms[i] \in Range(ms)
            BY <1>3 DEF Range, Due
        <3>2. received'[ms[i]] = received[ms[i]] + 1 /\ received[ms[i]] \in Nat
            BY <1>4, <3>1, QueueBudgetAssumption DEF TypeOK
        <3> QED BY <1>6, <3>2
    <2> QED BY <2>1, <2>2 DEF Truthful
<1>8. RejectsRightly(w)'
    BY <1>6 DEF RejectsRightly
<1>9. ASSUME NEW m \in Messages, GivesUp(m) PROVE received'[m] = QueueBudget
    <2>1. m \in Exhausted
        BY <1>2, <1>9 DEF Receive, GivesUp
    <2>2. received[m] + 1 > QueueBudget /\ received[m] \in 0 .. QueueBudget
        BY <2>1 DEF Exhausted, TypeOK
    <2>3. m \notin Range(ms)
        BY <1>3, <2>1 DEF Range
    <2> QED BY <1>4, <2>2, <2>3, QueueBudgetAssumption
<1> QED BY <1>5, <1>6, <1>7, <1>8, <1>9, GiveUpKept

LEMMA GiveUpNext == TypeOK /\ TypeOK' /\ GiveUpInv /\ [Next]_vars => GiveUpInv'
<1> SUFFICES ASSUME TypeOK, TypeOK', GiveUpInv, [Next]_vars PROVE GiveUpInv'
    OBVIOUS
<1>1. CASE UNCHANGED <<place, received, pc, batch>>
    BY <1>1
    DEF GiveUpInv, GivenUpOnlyAfterBudget, Truthful, RejectsRightly, Job
<1>2. ASSUME NEW m \in Messages, QueueStep(m) PROVE GiveUpInv'
    <2>1. GivenUpOnlyAfterBudget'
        BY <1>2
        DEF QueueStep, Send, Expire, Move, GiveUpInv, GivenUpOnlyAfterBudget
    <2> QED
        BY <1>2, <2>1
        DEF QueueStep, Send, Expire, GiveUpInv, Truthful, RejectsRightly, Job
<1>3. ASSUME NEW w \in Workers, WorkerStep(w) PROVE GiveUpInv'
    BY <1>3, GiveUpWorkerStep
<1>4. ASSUME NEW w \in Workers, ReceiveBatch(w) PROVE GiveUpInv'
    BY <1>4, GiveUpReceive
<1>5. ASSUME NEW w \in Workers, Crash(w) PROVE GiveUpInv'
    <2>1. GivenUpOnlyAfterBudget'
        BY <1>5 DEF Crash, queueVars, GiveUpInv, GivenUpOnlyAfterBudget
    <2>2. ASSUME NEW v \in Workers PROVE Truthful(batch[v])' /\ RejectsRightly(v)'
        <3>1. CASE v = w
            <4>1. batch'[v] = << >> /\ pc'[v] = "idle"
                BY <1>5, <3>1 DEF Crash, GoTo, TypeOK
            <4> QED BY <4>1 DEF Truthful, RejectsRightly
        <3>2. CASE v # w
            <4>1. batch'[v] = batch[v] /\ pc'[v] = pc[v] /\ UNCHANGED received
                BY <1>5, <3>2 DEF Crash, GoTo, TypeOK, queueVars
            <4> QED BY <4>1 DEF GiveUpInv, Truthful, RejectsRightly, Job
        <3> QED BY <3>1, <3>2
    <2> QED BY <2>1, <2>2 DEF GiveUpInv
<1>6. ASSUME NEW w \in Workers, Restart(w) PROVE GiveUpInv'
    BY <1>6
    DEF Restart, GoTo, queueVars, TypeOK, GiveUpInv, GivenUpOnlyAfterBudget,
        Truthful, RejectsRightly, Job
<1>7. ASSUME NEW w \in Workers, RequestStop(w) PROVE GiveUpInv'
    BY <1>1, <1>7 DEF RequestStop, queueVars
<1> QED
    BY <1>1, <1>2, <1>3, <1>4, <1>5, <1>6, <1>7 DEF Next, vars, queueVars

(* A well-formed job ends in the dead-letter queue only when its budget or *)
(* the queue's is used up: a crash, a timeout or a failing call costs a    *)
(* delivery, and never more than that.                                     *)
THEOREM GiveUpsAreJustified == Spec => []GivenUpOnlyAfterBudget
<1>1. Init => GiveUpInv
    <2>1. Init => \A w \in Workers : Truthful(batch[w])
        BY DEF Init, Truthful
    <2> QED
        BY <2>1 DEF Init, QueueInit, GiveUpInv, GivenUpOnlyAfterBudget, RejectsRightly
<1>2. GiveUpInv => GivenUpOnlyAfterBudget
    BY DEF GiveUpInv
<1> QED BY <1>1, <1>2, GiveUpNext, TypeInit, TypeNext, PTL DEF Spec
=============================================================================
