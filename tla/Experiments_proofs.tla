------------------------- MODULE Experiments_proofs -------------------------
(***************************************************************************)
(* What Experiments.tla guarantees for any experiments, users, quotas and  *)
(* registry size, and any number of resumes, restarts and days.            *)
(***************************************************************************)
EXTENDS Experiments, FiniteSetTheorems, TLAPS

(***************************************************************************)
(* Type correctness.                                                       *)
(***************************************************************************)

(* A cost is a number of seconds. *)
LEMMA CostType ==
    ASSUME NEW runs \in Nat
    PROVE  Cost(runs) \in Nat
BY SizeAssumption DEF Cost

(* ... and so is that of the simulations an experiment has left.          *)
LEMMA LeftType ==
    ASSUME TypeOK, NEW e \in Experiments, record[e] # Absent
    PROVE  Cost(Left(e)) \in Nat
<1>1. Left(e) \in Nat
    BY SizeAssumption DEF TypeOK, Records, Left
<1> QED BY <1>1, CostType

(* The share of a reservation that is kept is a number of seconds. *)
LEMMA ShareType ==
    ASSUME NEW r \in Nat, NEW done \in Nat
    PROVE  (r * done) \div Total \in Nat
<1>1. r * done \in Nat
    OBVIOUS
<1>2. \A x \in Nat : x \div Total \in Nat
    BY SizeAssumption
<1> QED BY <1>1, <1>2

(* A reservation keeps the day's counts numbers.                           *)
LEMMA ReserveType ==
    ASSUME TypeOK, NEW u \in Users, NEW s \in Nat, Reserve(u, s)
    PROVE  usage' \in [Users -> [1 .. Days -> Nat]]
<1>1. usage[u] \in [1 .. Days -> Nat] /\ day \in 1 .. Days /\ usage[u][day] \in Nat
    BY DEF TypeOK
<1>2. usage[u][day] + s \in Nat
    BY <1>1
<1>3. usage' = [usage EXCEPT ![u] = [@ EXCEPT ![day] = usage[u][day] + s]]
    BY <1>1 DEF Reserve, TypeOK
<1> QED BY <1>1, <1>2, <1>3 DEF TypeOK

(* A refund is floored at zero (UsageStore.release).                       *)
LEMMA ReleaseType ==
    ASSUME TypeOK, NEW u \in Users, NEW s \in Int, NEW d \in 1 .. Days,
           Release(u, s, d)
    PROVE  usage' \in [Users -> [1 .. Days -> Nat]]
<1>1. usage[u] \in [1 .. Days -> Nat] /\ usage[u][d] \in Nat
    BY DEF TypeOK
<1>2. (IF usage[u][d] >= s THEN usage[u][d] - s ELSE 0) \in Nat
    BY <1>1
<1>3. PICK n \in Nat : usage' = [usage EXCEPT ![u] = [@ EXCEPT ![d] = n]]
    BY <1>2 DEF Release
<1> QED BY <1>1, <1>3 DEF TypeOK

(* ExperimentStore.put stores a record in memory and on disk.              *)
LEMMA PutType ==
    ASSUME TypeOK, NEW e \in Experiments, NEW r \in Records, Put(e, r)
    PROVE  /\ record' \in [Experiments -> Records \cup {Absent}]
           /\ kept' \subseteq Experiments
           /\ disk' \in [Experiments -> Records \cup {Absent}]
BY DEF TypeOK, Put, Change, Row, Records

(* _settle_cancelled changes the record only: cancelled, with what was done. *)
LEMMA SettleChanges ==
    ASSUME TypeOK, NEW e \in Experiments, record[e] # Absent,
           NEW done \in 0 .. Total, SettleCancelled(e, done)
    PROVE  /\ \E r \in Records :
                /\ Change(e, r) /\ r.status = "cancelled" /\ r.checkpoint = done
                /\ r.settling = record[e].settling
           /\ usage' \in [Users -> [1 .. Days -> Nat]]
           /\ UNCHANGED <<kept, disk>>
<1> DEFINE r == record[e]
           paid == (r.reserved * done) \div Total
           new == [r EXCEPT !.reserved = paid, !.checkpoint = done,
                            !.status = "cancelled"]
<1>1. r \in Records
    BY DEF TypeOK
<1>2. paid \in Nat
    BY <1>1, ShareType DEF Records
<1>3. new \in Records /\ new.status = "cancelled" /\ new.settling = r.settling
      /\ new.checkpoint = done
    BY <1>1, <1>2 DEF Records, Statuses
<1>4. /\ Change(e, new) /\ Release(Owner[e], r.reserved - paid, r.usageDay)
      /\ UNCHANGED <<kept, disk>>
    BY DEF SettleCancelled
<1>5. Owner[e] \in Users /\ r.usageDay \in 1 .. Days /\ r.reserved - paid \in Int
    BY <1>1, <1>2, OwnerAssumption DEF Records
<1>6. r.settling = record[e].settling
    OBVIOUS
<1> HIDE DEF r, paid, new
<1>7. usage' \in [Users -> [1 .. Days -> Nat]]
    BY <1>4, <1>5, ReleaseType
<1> QED BY <1>3, <1>4, <1>6, <1>7

(* Where a job of a given registry is, to be read in both states of a step:*)
(* its simulations are still to be run, it has refunded what it is about   *)
(* to store, or either.                                                    *)
Pending(j, b) == b[j] # Absent /\ b[j].at \in {"queued", "working"}
Holding(j, b) == b[j] # Absent /\ b[j].at \in {"dropping", "settling"}
Held(j, b)    == Pending(j, b) \/ Holding(j, b)

(* A job has a record to write to, and the request that started it is past *)
(* its first stages; progress names a job that has begun and not ended.    *)
JobInv ==
    /\ \A j \in Jobs : job[j] # Absent =>
          record[job[j].exp] # Absent /\ request[job[j].exp] \in {"known", "resuming"}
    /\ \A e \in Experiments, j \in Jobs : progress[e] = j =>
          /\ job[j] # Absent /\ job[j].exp = e
          /\ job[j].at \in {"dropping", "working", "settling", "finally"}

(* What memory and disk hold of an experiment.                             *)
StoreInv ==
    \A e \in Experiments :
        /\ request[e] = "new" => e \notin kept /\ record[e] = Absent
        /\ e \in kept => /\ record[e] # Absent /\ disk[e] # Absent
                         /\ ~disk[e].settling
        /\ e \notin kept => disk[e] = Absent
        /\ record[e] # Absent /\ record[e].status \in Going => e \in kept

(* _state_lock has one owner: a cancel(), a resume() or a settling job; and*)
(* what the first two have to do with the record while they own it.        *)
LockInv ==
    /\ \A e \in cancelling :
          /\ cancelling = {e} /\ record[e] # Absent
          /\ record[e].status = "cancelled" /\ record[e].settling
          /\ request[e] \notin {"new", "resuming"}
    /\ \A e \in Experiments : request[e] = "resuming" =>
          /\ cancelling = {} /\ e \in kept
          /\ record[e].status = "cancelled" /\ ~record[e].settling
          /\ \A d \in Experiments : request[d] = "resuming" => d = e
    /\ \A j \in Jobs : Holding(j, job) =>
          /\ cancelling = {}
          /\ \A d \in Experiments : request[d] # "resuming"
          /\ \A k \in Jobs : Holding(k, job) => k = j

(* What a submission under way finds when it goes on: its own record.      *)
RequestInv ==
    \A e \in Experiments :
        request[e] \in {"submitting", "deleting"} =>
            /\ Active(e) /\ record[e].checkpoint = 0
            /\ record[e].status \in {"queued", "cancelled"}

(* RunsAreCounted, and that a job goes on from the record's checkpoint.    *)
RunInv ==
    \A j \in Jobs :
        Pending(j, job) /\ job[j].exp \notin overtaken =>
            /\ request[job[j].exp] = "known" /\ Active(job[j].exp)
            /\ record[job[j].exp].status \in {"queued", "running", "cancelled"}
            /\ job[j].from = record[job[j].exp].checkpoint
            /\ \A k \in Jobs \ {j} : Held(k, job) => job[k].exp # job[j].exp

(* A row has no checkpoint that memory has not.                            *)
KeptInv ==
    \A e \in kept : \/ e \in overtaken \/ record[e].status = "completed"
                    \/ record[e].checkpoint >= disk[e].checkpoint

LEMMA LockFree ==
    ASSUME TypeOK
    PROVE  /\ \A j \in Jobs : Settling(j) <=> Holding(j, job)
           /\ \A j \in Jobs : ToRun(j) <=> Pending(j, job)
           /\ StateLockFree <=>
                 /\ cancelling = {}
                 /\ \A e \in Experiments : request[e] # "resuming"
                 /\ \A j \in Jobs : ~Holding(j, job)
BY DEF StateLockFree, Settling, ToRun, Holding, Pending, At, Idle

(* A job that moves on, and a new one, is a job of the registry.           *)
LEMMA JobsType ==
    ASSUME TypeOK, NEW j \in Jobs, ~Idle(j),
           NEW p \in {"dropping", "working", "settling", "finally", "ending"},
           JobGoes(j, p)
    PROVE  /\ job' \in [Jobs -> JobRecords \cup {Absent}]
           /\ job'[j] # Absent /\ job'[j].at = p /\ job'[j].exp = job[j].exp
           /\ job'[j].from = job[j].from
           /\ \A k \in Jobs \ {j} : job'[k] = job[k]
<1>1. job \in [Jobs -> JobRecords \cup {Absent}] /\ job[j] \in JobRecords
    BY DEF TypeOK, Idle
<1> DEFINE new == [job[j] EXCEPT !.at = p]
<1>2. /\ new \in JobRecords
      /\ new.at = p /\ new.exp = job[j].exp /\ new.from = job[j].from
    BY <1>1 DEF JobRecords
<1>3. job' = [job EXCEPT ![j] = new]
    BY DEF JobGoes
<1> HIDE DEF new
<1> QED BY <1>1, <1>2, <1>3, AbsentAssumption

(* A new job takes a slot nothing refers to.                               *)
LEMMA StartedJob ==
    ASSUME TypeOK, JobInv, NEW e \in Experiments, NEW from \in 0 .. Total,
           StartJob(e, from)
    PROVE  /\ job' \in [Jobs -> JobRecords \cup {Absent}]
           /\ \E j \in Jobs :
                 /\ job[j] = Absent
                 /\ job'[j] # Absent /\ job'[j].at = "queued" /\ job'[j].exp = e
                 /\ job'[j].from = from
                 /\ \A d \in Experiments : progress[d] # j
                 /\ \A k \in Jobs \ {j} : job'[k] = job[k]
<1> DEFINE i == CHOOSE j \in Jobs : Idle(j)
<1>1. i \in Jobs /\ Idle(i)
    BY DEF StartJob, AllBusy
<1>2. job' = [job EXCEPT ![i] = NewJob(e, from)]
    BY DEF StartJob
<1> HIDE DEF i
<1>3. NewJob(e, from) \in JobRecords
    BY DEF NewJob, JobRecords
<1>4. job'[i] = NewJob(e, from) /\ job'[i] # Absent
      /\ \A k \in Jobs \ {i} : job'[k] = job[k]
    BY <1>1, <1>2, <1>3, AbsentAssumption DEF TypeOK
<1>5. /\ job[i] = Absent /\ \A d \in Experiments : progress[d] # i
      /\ job'[i].at = "queued" /\ job'[i].exp = e /\ job'[i].from = from
    BY <1>1, <1>4 DEF JobInv, Idle, NewJob
<1>6. job' \in [Jobs -> JobRecords \cup {Absent}]
    BY <1>1, <1>2, <1>3 DEF TypeOK
<1> QED BY <1>1, <1>4, <1>5, <1>6

(* The steps of a request.                                                 *)
RequestStep(e) ==
    Submit(e) \/ Cancel(e) \/ Resume(e) \/ Delete(e) \/ RequestGoesOn(e)

(* What submit, cancel and resume write is a record.                       *)
LEMMA RequestWrites ==
    ASSUME TypeOK, StoreInv, LockInv, NEW e \in Experiments
    PROVE  /\ Submit(e) => \E r \in Records :
                 /\ Put(e, r) /\ r.status = "queued" /\ r.checkpoint = 0
                 /\ r.reserved = Cost(Total) /\ r.usageDay = day
           /\ Cancel(e) => \E r \in Records :
                 /\ record[e] \in Records /\ e \in kept
                 /\ Change(e, r) /\ r.status = "cancelled" /\ r.settling
                 /\ r.checkpoint = record[e].checkpoint
                 /\ r.reserved = record[e].reserved /\ r.usageDay = record[e].usageDay
           /\ CancelPut(e) => record[e] \in Records /\ record[e] # Absent
           /\ ResumeStart(e) => \E r \in Records :
                 /\ record[e] \in Records /\ record[e] # Absent
                 /\ Put(e, r) /\ r.status = "queued"
                 /\ r.checkpoint = record[e].checkpoint
                 /\ r.reserved = record[e].reserved + Cost(Left(e)) /\ r.usageDay = day
<1>1. CASE Submit(e)
    <2> DEFINE new == [status |-> "queued", cancelRequested |-> FALSE,
                       settling |-> FALSE, checkpoint |-> 0,
                       reserved |-> Cost(Total), usageDay |-> day]
    <2>1. Cost(Total) \in Nat
        BY SizeAssumption, CostType
    <2>2. new \in Records
        BY <2>1, SizeAssumption DEF Records, Statuses, TypeOK
    <2>3. Put(e, new) /\ new.status = "queued" /\ new.checkpoint = 0
          /\ new.reserved = Cost(Total) /\ new.usageDay = day
        BY <1>1 DEF Submit
    <2> HIDE DEF new
    <2>4. ~Cancel(e) /\ ~CancelPut(e) /\ ~ResumeStart(e)
        BY <1>1 DEF Submit, Cancel, CancelPut, ResumeStart, StoreInv, LockInv
    <2> QED BY <2>2, <2>3, <2>4
<1>2. CASE Cancel(e)
    <2> DEFINE new == [record[e] EXCEPT !.cancelRequested = TRUE, !.settling = TRUE,
                                        !.status = "cancelled"]
    <2>0. record[e] \in Records /\ e \in kept
        BY <1>2 DEF Cancel, TypeOK, StoreInv
    <2>1. new \in Records /\ new.status = "cancelled" /\ new.settling
          /\ new.checkpoint = record[e].checkpoint
          /\ new.reserved = record[e].reserved /\ new.usageDay = record[e].usageDay
        BY <2>0 DEF Records, Statuses
    <2>2. Change(e, new)
        BY <1>2 DEF Cancel
    <2> HIDE DEF new
    <2>3. ~Submit(e) /\ ~CancelPut(e) /\ ~ResumeStart(e)
        BY <1>2 DEF Submit, Cancel, CancelPut, ResumeStart, StoreInv, StateLockFree
    <2> QED BY <2>0, <2>1, <2>2, <2>3
<1>3. CASE ResumeStart(e)
    <2> DEFINE new == [record[e] EXCEPT !.status = "queued", !.cancelRequested = FALSE,
                                        !.settling = FALSE, !.usageDay = day,
                                        !.reserved = @ + Cost(Left(e))]
    <2>1. record[e] \in Records /\ record[e] # Absent /\ Cost(Left(e)) \in Nat
        BY <1>3, LeftType DEF ResumeStart, LockInv, StoreInv, TypeOK
    <2>2. record[e].reserved + Cost(Left(e)) \in Nat /\ day \in 1 .. Days
        BY <2>1 DEF Records, TypeOK
    <2>3. new \in Records /\ new.status = "queued"
          /\ new.checkpoint = record[e].checkpoint
          /\ new.reserved = record[e].reserved + Cost(Left(e)) /\ new.usageDay = day
        BY <2>1, <2>2 DEF Records, Statuses
    <2>4. Put(e, new)
        BY <1>3 DEF ResumeStart
    <2> HIDE DEF new
    <2>5. ~Submit(e) /\ ~CancelPut(e) /\ ~Cancel(e)
        BY <1>3 DEF Submit, Cancel, CancelPut, ResumeStart, LockInv, StateLockFree
    <2> QED BY <2>1, <2>3, <2>4, <2>5
<1>4. CancelPut(e) => record[e] \in Records /\ record[e] # Absent
    BY DEF CancelPut, LockInv, TypeOK
<1> QED BY <1>1, <1>2, <1>3, <1>4

(* A request's step concerns its own experiment only.                      *)
LEMMA RequestFrame ==
    ASSUME TypeOK, LockInv, NEW e \in Experiments, RequestStep(e)
    PROVE  /\ \A d \in Experiments \ {e} :
                 /\ record'[d] = record[d] /\ request'[d] = request[d]
                 /\ disk'[d] = disk[d] /\ (d \in kept' <=> d \in kept)
                 /\ (d \in cancelling' <=> d \in cancelling)
                 /\ (d \in crossed' <=> d \in crossed)
           /\ UNCHANGED <<day, restarts, overtaken, torn>>
           /\ crossed \subseteq crossed'
<1>1. CASE Submit(e) \/ Cancel(e) \/ Resume(e) \/ Delete(e)
    BY <1>1 DEF Submit, Cancel, Resume, Delete, Put, Change, Remove, GoOn,
                history, TypeOK, StateLockFree
<1>2. CASE SubmitStart(e) \/ SubmitRefused(e) \/ RollBack(e)
    BY <1>2 DEF SubmitStart, SubmitRefused, RollBack, Change, Remove, GoOn,
                history, TypeOK
<1>3. CASE CancelPut(e)
    BY <1>3 DEF CancelPut, Put, Change, TypeOK, LockInv
<1>4. CASE ResumeStart(e) \/ ResumeRefused(e)
    BY <1>4 DEF ResumeStart, ResumeRefused, Put, Change, GoOn, history, TypeOK
<1> QED BY <1>1, <1>2, <1>3, <1>4 DEF RequestStep, RequestGoesOn

(* A step of a request keeps the types.                                    *)
LEMMA TypeRequest ==
    ASSUME TypeOK, StoreInv, LockInv, JobInv, RequestInv,
           NEW e \in Experiments, RequestStep(e)
    PROVE  TypeOK'
<1>0. Owner[e] \in Users /\ record[e] \in Records \cup {Absent}
    BY OwnerAssumption DEF TypeOK
<1>1. CASE Submit(e)
    <2>1. Cost(Total) \in Nat /\ Reserve(Owner[e], Cost(Total))
        BY <1>1, SizeAssumption, CostType DEF Submit
    <2>2. usage' \in [Users -> [1 .. Days -> Nat]]
        BY <1>0, <2>1, ReserveType
    <2>3. PICK r \in Records : Put(e, r)
        BY <1>1, RequestWrites
    <2> QED BY <1>1, <2>2, <2>3, PutType DEF Submit, GoOn, history, TypeOK
<1>2. CASE Cancel(e)
    <2>1. PICK r \in Records : Change(e, r)
        BY <1>2, RequestWrites
    <2>2. job' \in [Jobs -> JobRecords \cup {Absent}]
        <3>1. ASSUME NEW j \in Jobs, j = progress[e] PROVE job[j] \in JobRecords
            BY <3>1 DEF JobInv, TypeOK
        <3>2. ASSUME NEW q \in JobRecords
              PROVE  [q EXCEPT !.cancelled = TRUE] \in JobRecords
            BY DEF JobRecords
        <3>3. job' = [j \in Jobs |->
                        IF j = progress[e] THEN [job[j] EXCEPT !.cancelled = TRUE]
                        ELSE job[j]]
            BY <1>2 DEF Cancel
        <3>4. job \in [Jobs -> JobRecords \cup {Absent}]
            BY DEF TypeOK
        <3> QED BY <3>1, <3>2, <3>3, <3>4
    <2> QED BY <1>2, <2>1, <2>2 DEF Cancel, Change, history, TypeOK
<1>3. CASE Resume(e)
    <2>1. Cost(Left(e)) \in Nat
        BY <1>3, LeftType DEF Resume, StoreInv
    <2>2. usage' \in [Users -> [1 .. Days -> Nat]]
        BY <1>0, <1>3, <2>1, ReserveType DEF Resume
    <2> QED BY <1>3, <2>2, BoundAssumption DEF Resume, GoOn, history, TypeOK
<1>4. CASE Delete(e)
    BY <1>4 DEF Delete, Remove, history, TypeOK
<1>5. CASE SubmitStart(e)
    <2>1. job' \in [Jobs -> JobRecords \cup {Absent}]
        BY <1>5, StartedJob, SizeAssumption DEF SubmitStart
    <2> QED BY <1>5, <2>1 DEF SubmitStart, GoOn, history, TypeOK
<1>6. CASE SubmitRefused(e)
    <2>1. Cost(Total) \in Int /\ record[e].usageDay \in 1 .. Days
        BY <1>0, <1>6, SizeAssumption, CostType
        DEF SubmitRefused, RequestInv, Active, StoreInv, Records
    <2>2. usage' \in [Users -> [1 .. Days -> Nat]]
        BY <1>0, <1>6, <2>1, ReleaseType DEF SubmitRefused
    <2> QED BY <1>6, <2>2 DEF SubmitRefused, GoOn, history, TypeOK
<1>7. CASE RollBack(e)
    BY <1>0, <1>7 DEF RollBack, Remove, Change, GoOn, history, TypeOK
<1>8. CASE CancelPut(e)
    <2>1. record' \in [Experiments -> Records \cup {Absent}]
          /\ kept' \subseteq Experiments
          /\ disk' \in [Experiments -> Records \cup {Absent}]
        <3>1. record[e] \in Records /\ Put(e, record[e])
            BY <1>8, RequestWrites DEF CancelPut
        <3> QED BY <3>1, PutType
    <2> QED BY <1>8, <2>1 DEF CancelPut, TypeOK
<1>9. CASE ResumeStart(e)
    <2>1. PICK r \in Records : Put(e, r)
        BY <1>9, RequestWrites
    <2>2. record[e].checkpoint \in 0 .. Total
        BY <1>0, <1>9, RequestWrites DEF Records
    <2>3. job' \in [Jobs -> JobRecords \cup {Absent}]
        BY <1>9, <2>2, StartedJob DEF ResumeStart
    <2> QED BY <1>9, <2>1, <2>3, PutType DEF ResumeStart, GoOn, history, TypeOK
<1>10. CASE ResumeRefused(e)
    <2>1. Cost(Left(e)) \in Int /\ day \in 1 .. Days
        BY <1>10, LeftType DEF ResumeRefused, LockInv, StoreInv, TypeOK
    <2>2. usage' \in [Users -> [1 .. Days -> Nat]]
        BY <1>0, <1>10, <2>1, ReleaseType DEF ResumeRefused
    <2> QED BY <1>10, <2>2 DEF ResumeRefused, GoOn, history, TypeOK
<1> QED
    BY <1>1, <1>2, <1>3, <1>4, <1>5, <1>6, <1>7, <1>8, <1>9, <1>10
    DEF RequestStep, RequestGoesOn

(* What a job's step does to its experiment, apart from ending: it refunds *)
(* a cancelled one and has that still to store, runs it, has a result that *)
(* is not stored yet, or stores it as settled.                             *)
Stops(j) ==
    /\ ToRun(j) /\ StateLockFree /\ (Begin(j) \/ Finish(j))
    /\ \E r \in Records :
         /\ Change(Exp(j), r) /\ r.status = "cancelled"
         /\ r.settling = Rec(j).settling /\ r.checkpoint >= job[j].from
    /\ UNCHANGED <<kept, disk>>
    /\ JobGoes(j, "dropping") \/ JobGoes(j, "settling")
    /\ progress' = [progress EXCEPT ![Exp(j)] = j] \/ UNCHANGED progress

Runs(j) ==
    /\ ToRun(j) /\ StateLockFree /\ Begin(j)
    /\ \E r \in Records :
         /\ Put(Exp(j), r) /\ r = [Rec(j) EXCEPT !.status = "running"]
         /\ r.status = "running" /\ r.checkpoint = Rec(j).checkpoint
         /\ r.reserved = Rec(j).reserved /\ r.usageDay = Rec(j).usageDay
    /\ JobGoes(j, "working")
    /\ progress' = [progress EXCEPT ![Exp(j)] = j]
    /\ UNCHANGED usage

Returns(j) ==
    /\ ToRun(j) /\ StateLockFree /\ (Finish(j) \/ RunFails(j))
    /\ \E r \in Records :
         /\ Change(Exp(j), r) /\ r.status \in {"completed", "failed"}
         /\ r.status = "failed" => r.checkpoint = Rec(j).checkpoint
         /\ r.settling = Rec(j).settling
         /\ r.reserved = Rec(j).reserved /\ r.usageDay = Rec(j).usageDay
    /\ JobGoes(j, "finally")
    /\ UNCHANGED <<usage, kept, disk, progress>>

Stores(j) ==
    /\ Settle(j) \/ (StateLockFree /\ Finally(j))
    /\ \E r \in Records :
         /\ Put(Exp(j), r) /\ ~r.settling
         /\ r.status = Rec(j).status /\ r.checkpoint = Rec(j).checkpoint
         /\ r.reserved = Rec(j).reserved /\ r.usageDay = Rec(j).usageDay
    /\ JobGoes(j, "finally") \/ JobGoes(j, "ending")
    /\ progress' = [progress EXCEPT ![Exp(j)] = NoJob]
    /\ UNCHANGED usage

LEMMA JobWrites ==
    ASSUME TypeOK, JobInv, NEW j \in Jobs, JobStep(j)
    PROVE  /\ ~Idle(j) /\ job[j] \in JobRecords /\ Exp(j) \in Experiments
           /\ Exp(j) = job[j].exp /\ Rec(j) \in Records /\ Rec(j) # Absent
           /\ record[Exp(j)] = Rec(j)
           /\ usage' \in [Users -> [1 .. Days -> Nat]]
           /\ Stops(j) \/ Runs(j) \/ Returns(j) \/ Stores(j) \/ EndJob(j)
<1>1. ~Idle(j)
    BY DEF JobStep, Begin, Settle, Finish, RunFails, Finally, EndJob, At, Settling
<1>2. /\ job[j] \in JobRecords /\ Exp(j) \in Experiments /\ Exp(j) = job[j].exp
      /\ Rec(j) \in Records /\ Rec(j) # Absent /\ record[Exp(j)] = Rec(j)
    BY <1>1 DEF TypeOK, JobInv, Idle, Exp, Rec, JobRecords
<1>3. CASE Begin(j)
    <2>0. ToRun(j) /\ StateLockFree
        BY <1>3 DEF Begin, ToRun
    <2>1. CASE SettleCancelled(Exp(j), job[j].from) /\ JobGoes(j, "dropping")
        <3>1. job[j].from \in 0 .. Total /\ job[j].from >= job[j].from
            BY <1>2, SizeAssumption DEF JobRecords
        <3>2. Stops(j) /\ usage' \in [Users -> [1 .. Days -> Nat]]
            BY <1>2, <1>3, <2>0, <2>1, <3>1, SettleChanges DEF Begin, Stops
        <3> QED BY <1>1, <1>2, <3>2
    <2>2. CASE ~Rec(j).cancelRequested /\ JobGoes(j, "working") /\ UNCHANGED usage
               /\ Put(Exp(j), [Rec(j) EXCEPT !.status = "running"])
               /\ progress' = [progress EXCEPT ![Exp(j)] = j]
        <3> DEFINE r == [Rec(j) EXCEPT !.status = "running"]
        <3>1. r \in Records /\ r.status = "running" /\ r.checkpoint = Rec(j).checkpoint
              /\ r.reserved = Rec(j).reserved /\ r.usageDay = Rec(j).usageDay
            BY <1>2 DEF Records, Statuses
        <3>2. Put(Exp(j), r) /\ r = [Rec(j) EXCEPT !.status = "running"]
            BY <2>2
        <3> HIDE DEF r
        <3>3. Runs(j)
            BY <1>3, <2>0, <2>2, <3>1, <3>2 DEF Runs
        <3> QED BY <1>1, <1>2, <2>2, <3>3 DEF TypeOK
    <2> QED BY <1>3, <2>1, <2>2 DEF Begin
<1>4. CASE Finish(j)
    <2>0. ToRun(j) /\ StateLockFree
        BY <1>4 DEF Finish, ToRun
    <2>1. CASE \E done \in job[j].from .. Total :
                  SettleCancelled(Exp(j), done) /\ JobGoes(j, "settling")
        <3>1. PICK done \in job[j].from .. Total : SettleCancelled(Exp(j), done)
            BY <2>1
        <3>2. done \in 0 .. Total /\ done >= job[j].from
            BY <1>2, SizeAssumption DEF JobRecords
        <3>3. Stops(j) /\ usage' \in [Users -> [1 .. Days -> Nat]]
            BY <1>2, <1>4, <2>0, <2>1, <3>1, <3>2, SettleChanges DEF Finish, Stops
        <3> QED BY <1>1, <1>2, <3>3
    <2>2. CASE Change(Exp(j), [Rec(j) EXCEPT !.status = "completed", !.checkpoint = 0])
               /\ JobGoes(j, "finally") /\ UNCHANGED <<usage, kept, disk>>
        <3> DEFINE new == [Rec(j) EXCEPT !.status = "completed", !.checkpoint = 0]
        <3>1. 0 \in 0 .. Total
            BY SizeAssumption
        <3>2. new \in Records /\ new.status = "completed"
              /\ new.settling = Rec(j).settling
              /\ new.reserved = Rec(j).reserved /\ new.usageDay = Rec(j).usageDay
            BY <1>2, <3>1 DEF Records, Statuses
        <3>3. Change(Exp(j), new)
            BY <2>2
        <3> HIDE DEF new
        <3>4. Returns(j)
            BY <1>4, <2>0, <2>2, <3>2, <3>3 DEF Finish, Returns
        <3> QED BY <1>1, <1>2, <2>2, <3>4 DEF TypeOK
    <2> QED BY <1>4, <2>1, <2>2 DEF Finish
<1>5. CASE RunFails(j)
    <2> DEFINE new == [Rec(j) EXCEPT !.status = "failed", !.cancelRequested = FALSE]
    <2>1. new \in Records /\ new.status = "failed" /\ new.checkpoint = Rec(j).checkpoint
          /\ new.settling = Rec(j).settling
          /\ new.reserved = Rec(j).reserved /\ new.usageDay = Rec(j).usageDay
        BY <1>2 DEF Records, Statuses
    <2>2. Change(Exp(j), new)
        BY <1>5 DEF RunFails
    <2> HIDE DEF new
    <2>3. Returns(j)
        BY <1>5, <2>1, <2>2 DEF RunFails, Returns, ToRun
    <2> QED BY <1>1, <1>2, <1>5, <2>3 DEF RunFails, TypeOK
<1>6. CASE Settle(j) \/ Finally(j)
    <2> DEFINE new == [Rec(j) EXCEPT !.settling = FALSE]
    <2>1. new \in Records /\ ~new.settling
          /\ new.status = Rec(j).status /\ new.checkpoint = Rec(j).checkpoint
          /\ new.reserved = Rec(j).reserved /\ new.usageDay = Rec(j).usageDay
        BY <1>2 DEF Records
    <2>2. Put(Exp(j), new)
        BY <1>6 DEF Settle, Finally
    <2> HIDE DEF new
    <2>3. Stores(j)
        BY <1>6, <2>1, <2>2 DEF Settle, Finally, Stores
    <2> QED BY <1>1, <1>2, <1>6, <2>3 DEF Settle, Finally, TypeOK
<1>7. CASE EndJob(j)
    BY <1>1, <1>2, <1>7 DEF EndJob, TypeOK
<1> QED BY <1>3, <1>4, <1>5, <1>6, <1>7 DEF JobStep

(* A job's step concerns its own experiment only.                          *)
LEMMA JobFrame ==
    ASSUME TypeOK, JobInv, NEW j \in Jobs, JobStep(j)
    PROVE  /\ \A d \in Experiments \ {Exp(j)} :
                 /\ record'[d] = record[d] /\ disk'[d] = disk[d]
                 /\ (d \in kept' <=> d \in kept)
           /\ record'[Exp(j)] # Absent
           /\ \A k \in Jobs \ {j} : job'[k] = job[k]
           /\ job'[j] # Absent => job'[j].exp = Exp(j)
           /\ UNCHANGED <<day, request, cancelling, resumes, restarts, crossed, torn>>
           /\ overtaken \subseteq overtaken'
<1>1. /\ Exp(j) \in Experiments /\ record[Exp(j)] # Absent /\ ~Idle(j)
      /\ Exp(j) = job[j].exp
      /\ Stops(j) \/ Runs(j) \/ Returns(j) \/ Stores(j) \/ EndJob(j)
    BY JobWrites
<1>2. /\ \A k \in Jobs \ {j} : job'[k] = job[k]
      /\ job'[j] # Absent => job'[j].exp = Exp(j)
    BY <1>1, JobsType DEF Runs, Stores, Returns, Stops, EndJob, TypeOK
<1>3. /\ UNCHANGED <<day, request, cancelling, resumes, restarts, crossed, torn>>
      /\ overtaken \subseteq overtaken'
    BY DEF JobStep, Begin, Settle, Finish, RunFails, Finally, EndJob, history
<1>4. /\ \A d \in Experiments \ {Exp(j)} :
             /\ record'[d] = record[d] /\ disk'[d] = disk[d]
             /\ (d \in kept' <=> d \in kept)
      /\ record'[Exp(j)] # Absent
    <2>1. CASE \E r \in Records : Put(Exp(j), r)
        BY <1>1, <2>1, AbsentAssumption DEF Put, Change, TypeOK
    <2>2. CASE \E r \in Records : Change(Exp(j), r) /\ UNCHANGED <<kept, disk>>
        BY <1>1, <2>2, AbsentAssumption DEF Change, TypeOK
    <2>3. CASE EndJob(j)
        BY <1>1, <2>3 DEF EndJob
    <2> QED BY <1>1, <2>1, <2>2, <2>3 DEF Stops, Runs, Returns, Stores
<1> QED BY <1>2, <1>3, <1>4

(* Steps of a job and of the world keep the types.                         *)
LEMMA TypeJob ==
    ASSUME TypeOK, JobInv, NEW j \in Jobs, JobStep(j)
    PROVE  TypeOK'
<1>1. /\ ~Idle(j) /\ Exp(j) \in Experiments
      /\ usage' \in [Users -> [1 .. Days -> Nat]]
      /\ Stops(j) \/ Runs(j) \/ Returns(j) \/ Stores(j) \/ EndJob(j)
    BY JobWrites
<1>2. job' \in [Jobs -> JobRecords \cup {Absent}]
    BY <1>1, JobsType DEF Stops, Runs, Returns, Stores, EndJob, TypeOK
<1>3. /\ record' \in [Experiments -> Records \cup {Absent}]
      /\ kept' \subseteq Experiments
      /\ disk' \in [Experiments -> Records \cup {Absent}]
    <2>1. CASE \E r \in Records : Put(Exp(j), r)
        BY <1>1, <2>1, PutType
    <2>2. CASE \E r \in Records : Change(Exp(j), r) /\ UNCHANGED <<kept, disk>>
        BY <1>1, <2>2 DEF Change, TypeOK
    <2>3. CASE EndJob(j)
        BY <2>3 DEF EndJob, TypeOK
    <2> QED BY <1>1, <2>1, <2>2, <2>3 DEF Stops, Runs, Returns, Stores
<1>4. progress' \in [Experiments -> Jobs \cup {NoJob}]
    <2>1. progress \in [Experiments -> Jobs \cup {NoJob}]
        BY DEF TypeOK
    <2>2. \/ \E k \in Jobs \cup {NoJob} : progress' = [progress EXCEPT ![Exp(j)] = k]
          \/ UNCHANGED progress
        BY <1>1 DEF Stops, Runs, Returns, Stores, EndJob
    <2> QED BY <1>1, <2>1, <2>2
<1>5. overtaken' \subseteq Experiments
    BY <1>1 DEF JobStep, Begin, Settle, Finish, RunFails, Finally, EndJob, history, TypeOK
<1>6. UNCHANGED <<day, request, cancelling, resumes, restarts, crossed, torn>>
    BY JobFrame
<1> QED BY <1>1, <1>2, <1>3, <1>4, <1>5, <1>6 DEF TypeOK

LEMMA TypeWorld ==
    ASSUME TypeOK, StoreInv, JobInv, NextDay \/ Restart
    PROVE  TypeOK'
<1>1. CASE NextDay
    BY <1>1, BoundAssumption DEF NextDay, history, TypeOK
<1>2. CASE Restart
    <2>1. ASSUME NEW e \in Experiments PROVE Interrupted(e) \in Records \cup {Absent}
        <3>1. disk[e] \in Records \cup {Absent} /\ (e \in kept => disk[e] # Absent)
            BY DEF TypeOK, StoreInv
        <3>2. ASSUME NEW r \in Records
              PROVE  [r EXCEPT !.status = "failed"] \in Records
            BY DEF Records, Statuses
        <3> QED BY <3>1, <3>2 DEF Interrupted
    <2> QED BY <1>2, <2>1, BoundAssumption DEF Restart, TypeOK
<1> QED BY <1>1, <1>2

(***************************************************************************)
(* The registry, the store and the requests under way.                     *)
(***************************************************************************)

(* A request leaves every job where it is, or starts one in a free slot    *)
(* that goes on from the record's checkpoint.                              *)
SameJobs ==
    \A j \in Jobs :
        /\ job'[j] # Absent <=> job[j] # Absent
        /\ job[j] # Absent => /\ job'[j].at = job[j].at /\ job'[j].exp = job[j].exp
                              /\ job'[j].from = job[j].from

Starts(e, i) ==
    /\ job[i] = Absent
    /\ job'[i] # Absent /\ job'[i].at = "queued" /\ job'[i].exp = e
    /\ job'[i].from = record[e].checkpoint
    /\ \A d \in Experiments : progress[d] # i
    /\ \A k \in Jobs \ {i} : job'[k] = job[k]

LEMMA RequestJobs ==
    ASSUME TypeOK, StoreInv, LockInv, JobInv, RequestInv,
           NEW e \in Experiments, RequestStep(e)
    PROVE  /\ progress' = progress
           /\ \/ SameJobs /\ ~SubmitStart(e) /\ ~ResumeStart(e)
              \/ /\ SubmitStart(e) \/ ResumeStart(e)
                 /\ record[e] # Absent /\ \E i \in Jobs : Starts(e, i)
<1>0. progress' = progress
    BY DEF RequestStep, RequestGoesOn, Submit, Cancel, Resume, Delete, SubmitStart,
           SubmitRefused, RollBack, CancelPut, ResumeStart, ResumeRefused
<1>1. CASE SubmitStart(e)
    <2>1. 0 \in 0 .. Total /\ record[e] # Absent /\ record[e].checkpoint = 0
        BY <1>1, SizeAssumption DEF SubmitStart, RequestInv, Active, StoreInv
    <2> QED BY <1>0, <1>1, <2>1, StartedJob DEF SubmitStart, Starts
<1>2. CASE ResumeStart(e)
    <2>1. record[e] # Absent /\ record[e].checkpoint \in 0 .. Total
        BY <1>2, RequestWrites DEF Records
    <2> QED BY <1>0, <1>2, <2>1, StartedJob DEF ResumeStart, Starts
<1>3. CASE Cancel(e)
    <2>1. ASSUME NEW j \in Jobs
          PROVE  /\ job'[j] # Absent <=> job[j] # Absent
                 /\ job[j] # Absent =>
                       /\ job'[j].at = job[j].at /\ job'[j].exp = job[j].exp
                       /\ job'[j].from = job[j].from
        <3>1. CASE j = progress[e]
            <4>1. job[j] \in JobRecords /\ job[j] # Absent
                BY <3>1 DEF JobInv, TypeOK
            <4>2. job'[j] = [job[j] EXCEPT !.cancelled = TRUE]
                BY <1>3, <3>1 DEF Cancel
            <4>3. job'[j] \in JobRecords /\ job'[j].at = job[j].at
                  /\ job'[j].exp = job[j].exp /\ job'[j].from = job[j].from
                BY <4>1, <4>2 DEF JobRecords
            <4> QED BY <4>1, <4>3, AbsentAssumption
        <3>2. CASE j # progress[e]
            BY <1>3, <3>2 DEF Cancel
        <3> QED BY <3>1, <3>2
    <2>2. ~SubmitStart(e) /\ ~ResumeStart(e)
        BY <1>3 DEF Cancel, SubmitStart, ResumeStart, StateLockFree, StartJob, AllBusy,
                    GoOn, TypeOK
    <2> QED BY <1>0, <2>1, <2>2 DEF SameJobs
<1>4. ASSUME ~Cancel(e), ~SubmitStart(e), ~ResumeStart(e) PROVE SameJobs
    <2>1. job' = job
        BY <1>4 DEF RequestStep, RequestGoesOn, Submit, Resume, Delete, SubmitRefused,
                    RollBack, CancelPut, ResumeRefused
    <2> QED BY <2>1 DEF SameJobs
<1> QED BY <1>0, <1>1, <1>2, <1>3, <1>4

(* Which requests and records a request's step leaves as they were.        *)
LEMMA RequestStages ==
    ASSUME TypeOK, LockInv, NEW e \in Experiments, RequestStep(e)
    PROVE  /\ Submit(e) => request[e] = "new" /\ request'[e] = "submitting"
           /\ Resume(e) => request'[e] = "resuming"
           /\ SubmitRefused(e) => request[e] = "submitting" /\ request'[e] = "deleting"
           /\ Cancel(e) \/ Delete(e) \/ CancelPut(e) => request' = request
           /\ SubmitStart(e) => request[e] = "submitting" /\ request'[e] = "known"
           /\ ResumeStart(e) \/ ResumeRefused(e) =>
                 request[e] = "resuming" /\ request'[e] = "known"
           /\ RollBack(e) => request[e] = "deleting" /\ request'[e] = "known"
           /\ Resume(e) \/ Delete(e) \/ SubmitStart(e) \/ SubmitRefused(e)
              \/ ResumeRefused(e) => record' = record
           /\ \A d \in Experiments : request'[d] = "new" => request[d] = "new"
BY DEF RequestStep, RequestGoesOn, Submit, Cancel, Resume, Delete, SubmitStart,
       SubmitRefused, RollBack, CancelPut, ResumeStart, ResumeRefused, GoOn, TypeOK

(* Storing a record, or changing one in memory, keeps StoreInv.            *)
LEMMA WriteStore ==
    ASSUME TypeOK, StoreInv, NEW e \in Experiments, NEW r \in Records,
           \/ Put(e, r)
           \/ Change(e, r) /\ UNCHANGED <<kept, disk>> /\ r.status \notin Going,
           \A d \in Experiments : request'[d] = "new" => request[d] = "new" /\ d # e
    PROVE  StoreInv'
<1> SUFFICES ASSUME NEW d \in Experiments
             PROVE  /\ request'[d] = "new" => d \notin kept' /\ record'[d] = Absent
                    /\ d \in kept' => /\ record'[d] # Absent /\ disk'[d] # Absent
                                      /\ ~disk'[d].settling
                    /\ d \notin kept' => disk'[d] = Absent
                    /\ record'[d] # Absent /\ record'[d].status \in Going => d \in kept'
    BY DEF StoreInv
<1>1. CASE d = e
    <2>1. Row(r) \in Records /\ ~Row(r).settling
        BY DEF Row, Records
    <2>2. record'[d] = r /\ r # Absent
        BY <1>1, AbsentAssumption DEF Put, Change, TypeOK
    <2>3. CASE Put(e, r)
        <3>1. disk'[d] = Row(r) /\ d \in kept'
            BY <1>1, <2>3 DEF Put, TypeOK
        <3> QED BY <1>1, <2>1, <2>2, <3>1, AbsentAssumption
    <2>4. CASE UNCHANGED <<kept, disk>> /\ r.status \notin Going
        BY <1>1, <2>2, <2>4 DEF StoreInv
    <2> QED BY <2>3, <2>4
<1>2. CASE d # e
    BY <1>2 DEF StoreInv, Put, Change, TypeOK
<1> QED BY <1>1, <1>2

(* StoreInv is kept by a step of a request, of a job, and of the world.    *)
LEMMA StoreRequest ==
    ASSUME TypeOK, StoreInv, LockInv, JobInv, RequestInv,
           NEW e \in Experiments, RequestStep(e)
    PROVE  StoreInv'
<1>0. \A d \in Experiments : request'[d] = "new" => request[d] = "new"
    BY RequestStages
<1>1. CASE Submit(e) \/ Cancel(e) \/ CancelPut(e) \/ ResumeStart(e)
    <2>1. request'[e] # "new"
        BY <1>1, RequestStages DEF Cancel, CancelPut, StoreInv, LockInv
    <2>2. \E r \in Records :
              \/ Put(e, r)
              \/ Change(e, r) /\ UNCHANGED <<kept, disk>> /\ r.status \notin Going
        BY <1>1, RequestWrites DEF CancelPut, Cancel, Going
    <2> QED BY <1>0, <2>1, <2>2, WriteStore
<1>2. CASE Resume(e) \/ SubmitStart(e) \/ SubmitRefused(e) \/ ResumeRefused(e)
    BY <1>0, <1>2 DEF StoreInv, Resume, SubmitStart, SubmitRefused, ResumeRefused
<1>3. CASE Delete(e)
    BY <1>3 DEF StoreInv, Delete, Remove, TypeOK
<1>4. CASE RollBack(e)
    <2>1. e \in cancelling => record[e] # Absent /\ record[e].status \notin Going
        BY DEF LockInv, Going
    <2> QED BY <1>0, <1>4, <2>1 DEF StoreInv, RollBack, Remove, Change, GoOn, TypeOK
<1> QED BY <1>1, <1>2, <1>3, <1>4 DEF RequestStep, RequestGoesOn

LEMMA StoreJob ==
    ASSUME TypeOK, StoreInv, JobInv, NEW j \in Jobs, JobStep(j)
    PROVE  StoreInv'
<1>1. /\ ~Idle(j) /\ Exp(j) \in Experiments /\ request[Exp(j)] # "new"
      /\ request' = request
    BY JobWrites, JobFrame DEF JobInv, Idle
<1>2. CASE Stops(j) \/ Runs(j) \/ Returns(j) \/ Stores(j)
    <2>1. \E r \in Records :
              \/ Put(Exp(j), r)
              \/ Change(Exp(j), r) /\ UNCHANGED <<kept, disk>> /\ r.status \notin Going
        BY <1>2 DEF Stops, Runs, Returns, Stores, Going
    <2> QED BY <1>1, <2>1, WriteStore
<1>3. CASE EndJob(j)
    BY <1>3 DEF EndJob, StoreInv
<1> QED BY JobWrites, <1>2, <1>3

(* After a restart memory holds what the rows do, and nothing is going on. *)
LEMMA Restarted ==
    ASSUME TypeOK, StoreInv, Restart
    PROVE  /\ kept' = kept /\ cancelling' = {} /\ UNCHANGED <<day, overtaken, crossed>>
           /\ \A j \in Jobs : job'[j] = Absent
           /\ \A e \in Experiments :
                 /\ record'[e] = disk'[e] /\ request'[e] \in {"new", "known"}
                 /\ request'[e] = "new" => request[e] = "new"
                 /\ progress'[e] = NoJob
                 /\ e \notin kept => record'[e] = Absent
                 /\ e \in kept =>
                       /\ disk[e] \in Records /\ record'[e] \in Records
                       /\ ~record'[e].settling /\ record'[e].status \notin Going
                       /\ record'[e].checkpoint = disk[e].checkpoint
                       /\ record'[e].reserved = disk[e].reserved
                       /\ record'[e].usageDay = disk[e].usageDay
<1>1. ASSUME NEW e \in kept
      PROVE  /\ disk[e] \in Records /\ Interrupted(e) \in Records
             /\ ~Interrupted(e).settling /\ Interrupted(e).status \notin Going
             /\ Interrupted(e).checkpoint = disk[e].checkpoint
             /\ Interrupted(e).reserved = disk[e].reserved
             /\ Interrupted(e).usageDay = disk[e].usageDay
    <2>1. disk[e] \in Records /\ ~disk[e].settling
        BY DEF StoreInv, TypeOK
    <2> DEFINE r == [disk[e] EXCEPT !.status = "failed"]
    <2>2. r \in Records /\ r.settling = disk[e].settling /\ r.status = "failed"
          /\ r.checkpoint = disk[e].checkpoint /\ r.reserved = disk[e].reserved
          /\ r.usageDay = disk[e].usageDay
        BY <2>1 DEF Records, Statuses
    <2>3. Interrupted(e) = IF disk[e].status \in Going THEN r ELSE disk[e]
        BY DEF Interrupted
    <2> HIDE DEF r
    <2> QED BY <2>1, <2>2, <2>3 DEF Going
<1>2. \A e \in Experiments : e \notin kept => Interrupted(e) = Absent
    BY DEF Interrupted, StoreInv
<1> QED BY <1>1, <1>2 DEF Restart, TypeOK

LEMMA StoreWorld ==
    ASSUME TypeOK, StoreInv, NextDay \/ Restart
    PROVE  StoreInv'
<1>1. CASE NextDay
    BY <1>1 DEF NextDay, StoreInv
<1>2. CASE Restart
    BY <1>2, Restarted, AbsentAssumption DEF StoreInv
<1> QED BY <1>1, <1>2

(* The same for JobInv.                                                    *)
LEMMA JobRequest ==
    ASSUME TypeOK, StoreInv, LockInv, JobInv, RequestInv,
           NEW e \in Experiments, RequestStep(e)
    PROVE  JobInv'
<1>1. /\ progress' = progress
      /\ \A d \in Experiments \ {e} : record'[d] = record[d] /\ request'[d] = request[d]
    BY RequestJobs, RequestFrame
<1>2. ASSUME NEW j \in Jobs, job'[j] # Absent, job'[j].exp = e
      PROVE  record'[e] # Absent /\ request'[e] \in {"known", "resuming"}
    <2>1. CASE Cancel(e) \/ CancelPut(e) \/ ResumeStart(e)
        <3>1. record'[e] # Absent
            BY <2>1, RequestWrites, AbsentAssumption DEF CancelPut, Put, Change, TypeOK
        <3>2. CASE ResumeStart(e)
            BY <3>1, <3>2, RequestStages
        <3>3. CASE Cancel(e) \/ CancelPut(e)
            <4>1. job[j] # Absent /\ job[j].exp = e /\ request' = request
                BY <1>2, <3>3, RequestStages, RequestJobs
                DEF SameJobs, Cancel, CancelPut, SubmitStart, ResumeStart, LockInv,
                    StateLockFree, GoOn, TypeOK
            <4> QED BY <3>1, <4>1 DEF JobInv
        <3> QED BY <2>1, <3>2, <3>3
    <2>2. CASE SubmitStart(e)
        BY <2>2, RequestJobs, RequestStages DEF SubmitStart, ResumeStart
    <2>3. CASE Resume(e) \/ Delete(e) \/ ResumeRefused(e)
        <3> SUFFICES ASSUME ~SubmitStart(e), ~ResumeStart(e)
                     PROVE  record'[e] # Absent /\ request'[e] \in {"known", "resuming"}
            BY <2>1, <2>2
        <3>1. job[j] # Absent /\ job[j].exp = e /\ record' = record
            BY <1>2, <2>3, RequestStages, RequestJobs DEF SameJobs
        <3> QED BY <2>3, <3>1, RequestStages DEF JobInv
    <2>4. CASE Submit(e) \/ SubmitRefused(e) \/ RollBack(e)
        <3>1. job[j] # Absent /\ job[j].exp = e
            BY <1>2, <2>4, RequestJobs DEF SameJobs, Submit, SubmitRefused, RollBack,
               SubmitStart, ResumeStart, StartJob
        <3>2. request[e] \in {"new", "submitting", "deleting"}
            BY <2>4, RequestStages
        <3> QED BY <3>1, <3>2 DEF JobInv
    <2> QED BY <2>1, <2>2, <2>3, <2>4 DEF RequestStep, RequestGoesOn
<1>3. ASSUME NEW j \in Jobs, job'[j] # Absent
      PROVE  /\ record'[job'[j].exp] # Absent
             /\ request'[job'[j].exp] \in {"known", "resuming"}
    <2>1. CASE job'[j].exp = e
        BY <1>2, <1>3, <2>1
    <2>2. CASE job'[j].exp # e
        <3>1. job[j] # Absent /\ job'[j].exp = job[j].exp /\ job[j].exp \in Experiments \ {e}
            BY <1>3, <2>2, RequestJobs DEF SameJobs, Starts, TypeOK, JobRecords
        <3> QED BY <1>1, <3>1 DEF JobInv
    <2> QED BY <2>1, <2>2
<1>4. ASSUME NEW d \in Experiments, NEW j \in Jobs, progress'[d] = j
      PROVE  /\ job'[j] # Absent /\ job'[j].exp = d
             /\ job'[j].at \in {"dropping", "working", "settling", "finally"}
    <2>1. /\ job[j] # Absent /\ job[j].exp = d
          /\ job[j].at \in {"dropping", "working", "settling", "finally"}
        BY <1>1, <1>4 DEF JobInv
    <2>2. CASE SameJobs
        BY <2>1, <2>2 DEF SameJobs
    <2>3. CASE \E i \in Jobs : Starts(e, i)
        BY <2>1, <2>3 DEF Starts
    <2> QED BY <2>2, <2>3, RequestJobs
<1> QED BY <1>3, <1>4 DEF JobInv

LEMMA JobJob ==
    ASSUME TypeOK, JobInv, NEW j \in Jobs, JobStep(j)
    PROVE  JobInv'
<1> PICK e \in Experiments : e = Exp(j)
    BY JobWrites
<1>1. /\ job[j] # Absent /\ job[j].exp = e /\ request' = request
      /\ record'[e] # Absent
      /\ \A d \in Experiments \ {e} : record'[d] = record[d]
      /\ \A k \in Jobs \ {j} : job'[k] = job[k]
      /\ job'[j] # Absent => job'[j].exp = e
    BY JobWrites, JobFrame DEF Idle
<1>2. ASSUME NEW k \in Jobs, job'[k] # Absent
      PROVE  /\ record'[job'[k].exp] # Absent
             /\ request'[job'[k].exp] \in {"known", "resuming"}
    <2>1. CASE k = j
        BY <1>1, <1>2, <2>1 DEF JobInv
    <2>2. CASE k # j
        BY <1>1, <1>2, <2>2 DEF JobInv, TypeOK, JobRecords
    <2> QED BY <2>1, <2>2
<1>3. ASSUME NEW d \in Experiments, NEW k \in Jobs, progress'[d] = k
      PROVE  /\ job'[k] # Absent /\ job'[k].exp = d
             /\ job'[k].at \in {"dropping", "working", "settling", "finally"}
    <2>1. CASE EndJob(j)
        BY <1>1, <1>3, <2>1 DEF EndJob, At, JobInv
    <2>2. CASE Stores(j)
        <3>1. d # e /\ progress[d] = k
            BY <1>3, <2>2, NoJobAssumption DEF Stores, TypeOK
        <3> QED BY <1>1, <3>1 DEF JobInv
    <2>3. CASE Stops(j) \/ Runs(j) \/ Returns(j)
        <3>1. /\ job'[j] # Absent /\ job'[j].exp = e
              /\ job'[j].at \in {"dropping", "working", "settling", "finally"}
            BY <1>1, <2>3, JobsType, JobWrites DEF Stops, Runs, Returns
        <3>2. progress'[d] = progress[d] \/ (d = e /\ k = j)
            BY <1>3, <2>3 DEF Stops, Runs, Returns, TypeOK
        <3> QED BY <1>1, <1>3, <3>1, <3>2 DEF JobInv
    <2> QED BY JobWrites, <2>1, <2>2, <2>3
<1> QED BY <1>2, <1>3 DEF JobInv

LEMMA JobWorld ==
    ASSUME TypeOK, StoreInv, JobInv, NextDay \/ Restart
    PROVE  JobInv'
<1>1. CASE NextDay
    BY <1>1 DEF NextDay, JobInv
<1>2. CASE Restart
    BY <1>2, Restarted, NoJobAssumption DEF JobInv
<1> QED BY <1>1, <1>2

(* _state_lock keeps one owner.                                            *)
LEMMA LockRequest ==
    ASSUME TypeOK, StoreInv, LockInv, JobInv, RequestInv,
           NEW e \in Experiments, RequestStep(e)
    PROVE  LockInv'
<1>1. \A d \in Experiments \ {e} :
          /\ record'[d] = record[d] /\ request'[d] = request[d]
          /\ (d \in kept' <=> d \in kept)
    BY RequestFrame
<1>2. \A j \in Jobs : Holding(j, job') <=> Holding(j, job)
    BY RequestJobs DEF SameJobs, Starts, Holding
<1>3. CASE Cancel(e)
    <2>1. /\ cancelling' = {e} /\ request' = request
          /\ record'[e] # Absent /\ record'[e].status = "cancelled" /\ record'[e].settling
          /\ \A d \in Experiments : request[d] # "resuming"
          /\ \A j \in Jobs : ~Holding(j, job)
          /\ request[e] # "new"
        <3>1. PICK r \in Records : Change(e, r) /\ r.status = "cancelled" /\ r.settling
            BY <1>3, RequestWrites
        <3>2. record'[e] = r
            BY <3>1 DEF Change, TypeOK
        <3> QED BY <1>3, <3>1, <3>2, LockFree, AbsentAssumption DEF Cancel, StoreInv
    <2> QED BY <1>2, <2>1 DEF LockInv
<1>4. CASE Resume(e)
    <2>1. /\ cancelling' = {} /\ record' = record /\ kept' = kept
          /\ request'[e] = "resuming" /\ e \in kept
          /\ record[e].status = "cancelled" /\ ~record[e].settling
          /\ \A d \in Experiments : request[d] # "resuming"
          /\ \A j \in Jobs : ~Holding(j, job)
        BY <1>4, LockFree DEF Resume, GoOn, TypeOK
    <2> QED BY <1>1, <1>2, <2>1 DEF LockInv
<1>5. CASE CancelPut(e) \/ Delete(e) \/ ResumeStart(e)
    <2>1. /\ cancelling' = {} /\ \A d \in Experiments : request'[d] # "resuming"
        <3>1. CASE CancelPut(e) \/ Delete(e)
            BY <3>1, LockFree DEF CancelPut, Delete, LockInv
        <3>2. CASE ResumeStart(e)
            BY <1>1, <3>2 DEF ResumeStart, GoOn, LockInv, TypeOK
        <3> QED BY <1>5, <3>1, <3>2
    <2> QED BY <1>2, <2>1 DEF LockInv
<1>6. CASE ResumeRefused(e)
    <2>1. /\ cancelling' = {} /\ \A d \in Experiments : request'[d] # "resuming"
        BY <1>1, <1>6 DEF ResumeRefused, GoOn, LockInv, TypeOK
    <2> QED BY <1>2, <2>1 DEF LockInv
<1>7. CASE Submit(e) \/ SubmitStart(e) \/ SubmitRefused(e) \/ RollBack(e)
    <2>1. /\ cancelling' = cancelling /\ request[e] # "resuming"
          /\ request'[e] \notin {"new", "resuming"}
        BY <1>7, RequestStages
        DEF Submit, SubmitStart, SubmitRefused, RollBack
    <2>2. e \in cancelling => record'[e] = record[e]
        BY <1>7, <2>1 DEF Submit, SubmitStart, SubmitRefused, RollBack, Change, LockInv, TypeOK
    <2>3. \A d \in Experiments : request'[d] = "resuming" =>
              d # e /\ request[d] = "resuming"
        BY <1>1, <2>1
    <2>4. ASSUME NEW d \in cancelling'
          PROVE  /\ cancelling' = {d} /\ record'[d] # Absent
                 /\ record'[d].status = "cancelled" /\ record'[d].settling
                 /\ request'[d] \notin {"new", "resuming"}
        <3>1. d \in Experiments /\ d \in cancelling
            BY <2>1 DEF TypeOK
        <3> QED BY <1>1, <2>1, <2>2, <3>1 DEF LockInv
    <2> QED BY <1>1, <1>2, <2>1, <2>3, <2>4 DEF LockInv
<1> QED BY <1>3, <1>4, <1>5, <1>6, <1>7 DEF RequestStep, RequestGoesOn

LEMMA LockJob ==
    ASSUME TypeOK, JobInv, LockInv, NEW j \in Jobs, JobStep(j)
    PROVE  LockInv'
<1>1. /\ UNCHANGED <<request, cancelling>> /\ ~Idle(j)
      /\ \A k \in Jobs \ {j} : job'[k] = job[k]
      /\ Exp(j) \in Experiments
      /\ \A d \in Experiments \ {Exp(j)} :
            record'[d] = record[d] /\ (d \in kept' <=> d \in kept)
    BY JobWrites, JobFrame
<1>2. CASE Stops(j) \/ Runs(j) \/ Returns(j) \/ (StateLockFree /\ Finally(j))
    <2>1. /\ cancelling = {} /\ \A d \in Experiments : request[d] # "resuming"
          /\ \A k \in Jobs : ~Holding(k, job)
        BY <1>2, LockFree DEF Stops, Runs, Returns
    <2> QED BY <1>1, <2>1 DEF LockInv, Holding
<1>3. CASE Settle(j)
    <2>1. /\ Holding(j, job) /\ cancelling = {}
          /\ \A d \in Experiments : request[d] # "resuming"
        BY <1>3, LockFree DEF Settle, LockInv
    <2>2. \A k \in Jobs \ {j} : ~Holding(k, job')
        BY <1>1, <2>1 DEF LockInv, Holding
    <2>3. ~Holding(j, job')
        BY <1>1, <1>3, JobsType DEF Settle, Holding
    <2> QED BY <1>1, <2>1, <2>2, <2>3 DEF LockInv
<1>4. CASE EndJob(j)
    <2>1. \A k \in Jobs : Holding(k, job') => Holding(k, job)
        BY <1>1, <1>4 DEF EndJob, Holding, TypeOK
    <2> QED BY <1>4, <2>1 DEF EndJob, LockInv
<1> QED BY <1>2, <1>3, <1>4, JobWrites DEF Stores

LEMMA LockWorld ==
    ASSUME TypeOK, StoreInv, LockInv, NextDay \/ Restart
    PROVE  LockInv'
<1>1. CASE NextDay
    BY <1>1 DEF NextDay, LockInv
<1>2. CASE Restart
    BY <1>2, Restarted DEF LockInv, Holding
<1> QED BY <1>1, <1>2

(* Active, of given records and ids.                                       *)
IsActive(e, r, k) == e \in k /\ (r[e].status \in Going \/ r[e].settling)

(* The same for RequestInv.                                                *)
LEMMA RequestRequest ==
    ASSUME TypeOK, StoreInv, LockInv, JobInv, RequestInv,
           NEW e \in Experiments, RequestStep(e)
    PROVE  RequestInv'
<1>1. ASSUME NEW d \in Experiments \ {e}, request'[d] \in {"submitting", "deleting"}
      PROVE  /\ Active(d)' /\ record'[d].checkpoint = 0
             /\ record'[d].status \in {"queued", "cancelled"}
    BY <1>1, RequestFrame DEF RequestInv, Active
<1>2. ASSUME request'[e] \in {"submitting", "deleting"}
      PROVE  /\ IsActive(e, record', kept') /\ record'[e].checkpoint = 0
             /\ record'[e].status \in {"queued", "cancelled"}
    <2>1. CASE Submit(e)
        <3>1. PICK r \in Records : Put(e, r) /\ r.status = "queued" /\ r.checkpoint = 0
            BY <2>1, RequestWrites
        <3>2. record'[e] = r /\ e \in kept'
            BY <3>1 DEF Put, Change, TypeOK
        <3> QED BY <3>1, <3>2 DEF IsActive, Going
    <2>2. CASE Cancel(e)
        <3>1. PICK r \in Records :
                  /\ Change(e, r) /\ r.settling /\ e \in kept
                  /\ r.checkpoint = record[e].checkpoint /\ r.status = "cancelled"
            BY <2>2, RequestWrites
        <3>2. record'[e] = r /\ kept' = kept /\ request' = request
            BY <2>2, <3>1 DEF Cancel, Change, TypeOK
        <3> QED BY <1>2, <3>1, <3>2 DEF IsActive, RequestInv
    <2>3. CASE CancelPut(e)
        <3>1. record'[e] = record[e] /\ e \in kept' /\ request' = request
            BY <2>3 DEF CancelPut, Put, Change, TypeOK
        <3> QED BY <1>2, <3>1 DEF IsActive, Active, RequestInv
    <2>4. CASE SubmitRefused(e)
        BY <2>4 DEF SubmitRefused, RequestInv, Active, IsActive
    <2>5. CASE Delete(e)
        BY <1>2, <2>5 DEF Delete, RequestInv, Active
    <2> QED BY <1>2, <2>1, <2>2, <2>3, <2>4, <2>5, RequestStages
            DEF RequestStep, RequestGoesOn
<1> QED BY <1>1, <1>2 DEF RequestInv, Active, IsActive

LEMMA RequestJob ==
    ASSUME TypeOK, JobInv, RequestInv, NEW j \in Jobs, JobStep(j)
    PROVE  RequestInv'
<1>1. Exp(j) \in Experiments /\ request[Exp(j)] \notin {"submitting", "deleting"}
    BY JobWrites DEF JobInv, Idle
<1> QED BY <1>1, JobFrame DEF RequestInv, Active

LEMMA RequestWorld ==
    ASSUME TypeOK, StoreInv, RequestInv, NextDay \/ Restart
    PROVE  RequestInv'
<1>1. CASE NextDay
    BY <1>1 DEF NextDay, RequestInv, Active
<1>2. CASE Restart
    BY <1>2, Restarted DEF RequestInv
<1> QED BY <1>1, <1>2

(***************************************************************************)
(* What is still to be simulated.                                          *)
(***************************************************************************)

(* A step that starts no job and changes one experiment only.              *)
LEMMA RunFrame ==
    ASSUME TypeOK, RunInv, NEW e \in Experiments,
           \A d \in Experiments \ {e} :
              record'[d] = record[d] /\ request'[d] = request[d]
              /\ (d \in kept' <=> d \in kept),
           \A k \in Jobs : /\ Pending(k, job') => Pending(k, job) /\ job'[k].from = job[k].from
                           /\ Held(k, job') => Held(k, job) /\ job'[k].exp = job[k].exp,
           overtaken \subseteq overtaken',
           \A k \in Jobs : Pending(k, job') /\ job[k].exp = e /\ e \notin overtaken' =>
              /\ request'[e] = "known" /\ IsActive(e, record', kept')
              /\ record'[e].status \in {"queued", "running", "cancelled"}
              /\ record'[e].checkpoint = record[e].checkpoint
    PROVE  RunInv'
<1> SUFFICES ASSUME NEW j \in Jobs, Pending(j, job'), job'[j].exp \notin overtaken'
             PROVE  /\ request'[job'[j].exp] = "known" /\ IsActive(job'[j].exp, record', kept')
                    /\ record'[job'[j].exp].status \in {"queued", "running", "cancelled"}
                    /\ job'[j].from = record'[job'[j].exp].checkpoint
                    /\ \A k \in Jobs \ {j} :
                          Held(k, job') => job'[k].exp # job'[j].exp
    BY DEF RunInv, IsActive, Active, Pending, Held, Holding
<1>1. Pending(j, job) /\ Held(j, job')
    BY DEF Held
<1> PICK d \in Experiments : d = job[j].exp
    BY <1>1 DEF TypeOK, JobRecords, Pending
<1>2. /\ job'[j].exp = d /\ job'[j].from = job[j].from
      /\ d \notin overtaken /\ d \notin overtaken'
    BY <1>1
<1>3. /\ request[d] = "known" /\ IsActive(d, record, kept)
      /\ record[d].status \in {"queued", "running", "cancelled"}
      /\ job[j].from = record[d].checkpoint
      /\ \A k \in Jobs \ {j} : Held(k, job) => job[k].exp # d
    BY <1>1, <1>2 DEF RunInv, IsActive, Active
<1>4. \A k \in Jobs \ {j} : Held(k, job') => job'[k].exp # d
    BY <1>3
<1>5. CASE d = e
    BY <1>2, <1>3, <1>4, <1>5
<1>6. CASE d # e
    <2>1. record'[d] = record[d] /\ request'[d] = request[d] /\ (d \in kept' <=> d \in kept)
        BY <1>6
    <2>2. IsActive(d, record', kept')
        BY <1>3, <2>1 DEF IsActive
    <2> QED BY <1>2, <1>3, <1>4, <2>1, <2>2
<1> QED BY <1>5, <1>6

(* RunInv is kept.                                                         *)
LEMMA RunRequest ==
    ASSUME TypeOK, StoreInv, LockInv, JobInv, RequestInv, RunInv,
           NEW e \in Experiments, RequestStep(e)
    PROVE  RunInv'
<1>1. /\ overtaken' = overtaken
      /\ \A d \in Experiments \ {e} :
            record'[d] = record[d] /\ request'[d] = request[d]
            /\ (d \in kept' <=> d \in kept)
    BY RequestFrame
<1>2. ASSUME SameJobs
      PROVE  \A k \in Jobs :
                /\ Pending(k, job') => Pending(k, job) /\ job'[k].from = job[k].from
                /\ Held(k, job') => Held(k, job) /\ job'[k].exp = job[k].exp
    BY <1>2 DEF SameJobs, Pending, Holding, Held
<1>3. CASE Cancel(e) \/ CancelPut(e)
    <2>0. SameJobs
        <3>1. ~SubmitStart(e) /\ ~ResumeStart(e)
            BY <1>3, RequestStages
            DEF Cancel, CancelPut, SubmitStart, ResumeStart, StateLockFree, LockInv
        <3> QED BY <3>1, RequestJobs
    <2>1. /\ e \in kept' /\ record'[e].settling /\ record'[e].status = "cancelled"
          /\ record'[e].checkpoint = record[e].checkpoint /\ request' = request
        <3>1. CASE Cancel(e)
            <4>1. PICK r \in Records :
                      /\ Change(e, r) /\ r.status = "cancelled" /\ r.settling
                      /\ r.checkpoint = record[e].checkpoint /\ e \in kept
                BY <3>1, RequestWrites
            <4>2. record'[e] = r
                BY <4>1 DEF Change, TypeOK
            <4> QED BY <3>1, <4>1, <4>2 DEF Cancel
        <3>2. CASE CancelPut(e)
            BY <3>2 DEF CancelPut, Put, Change, LockInv, TypeOK
        <3> QED BY <1>3, <3>1, <3>2
    <2>2. \A k \in Jobs : Pending(k, job') /\ job[k].exp = e /\ e \notin overtaken' =>
              /\ request'[e] = "known" /\ IsActive(e, record', kept')
              /\ record'[e].status \in {"queued", "running", "cancelled"}
              /\ record'[e].checkpoint = record[e].checkpoint
        <3> SUFFICES ASSUME NEW k \in Jobs, Pending(k, job'), job[k].exp = e,
                            e \notin overtaken'
                     PROVE  request[e] = "known"
            BY <2>1 DEF IsActive
        <3> QED BY <1>1, <1>2, <2>0 DEF RunInv
    <2> QED BY <1>1, <1>2, <2>0, <2>2, RunFrame
<1>4. CASE Submit(e) \/ Resume(e) \/ Delete(e) \/ SubmitRefused(e) \/ RollBack(e)
           \/ ResumeRefused(e)
    <2>0. SameJobs
        <3>1. job' = job
            BY <1>4 DEF Submit, Resume, Delete, SubmitRefused, RollBack, ResumeRefused
        <3> QED BY <3>1 DEF SameJobs
    <2>1. \A k \in Jobs : Pending(k, job) /\ job[k].exp = e => e \in overtaken
        <3>1. CASE Submit(e) \/ SubmitRefused(e) \/ RollBack(e)
            BY <3>1 DEF Submit, SubmitRefused, RollBack, JobInv, Pending
        <3>2. CASE Resume(e) \/ Delete(e) \/ ResumeRefused(e)
            BY <3>2 DEF Resume, Delete, ResumeRefused, RunInv, Active, Going
        <3> QED BY <1>4, <3>1, <3>2
    <2>2. \A k \in Jobs : Pending(k, job') /\ job[k].exp = e /\ e \notin overtaken' =>
              /\ request'[e] = "known" /\ IsActive(e, record', kept')
              /\ record'[e].status \in {"queued", "running", "cancelled"}
              /\ record'[e].checkpoint = record[e].checkpoint
        BY <1>1, <1>2, <2>0, <2>1
    <2> QED BY <1>1, <1>2, <2>0, <2>2, RunFrame
<1>5. CASE SubmitStart(e) \/ ResumeStart(e)
    <2>1. PICK i \in Jobs : Starts(e, i)
        BY <1>5, RequestJobs
    <2>2. \A k \in Jobs \ {i} : Pending(k, job) /\ job[k].exp = e => e \in overtaken
        BY <1>5 DEF SubmitStart, ResumeStart, RunInv
    <2>3. \A k \in Jobs : Holding(k, job) => job[k].exp # e
        <3>1. CASE SubmitStart(e)
            BY <3>1 DEF SubmitStart, JobInv, Holding
        <3>2. CASE ResumeStart(e)
            BY <3>2 DEF ResumeStart, LockInv
        <3> QED BY <1>5, <3>1, <3>2
    <2>4. /\ request'[e] = "known" /\ IsActive(e, record', kept')
          /\ record'[e].status \in {"queued", "running", "cancelled"}
          /\ job'[i].from = record'[e].checkpoint
        <3>1. CASE SubmitStart(e)
            <4>1. record' = record /\ kept' = kept /\ request'[e] = "known"
                  /\ request[e] = "submitting"
                BY <3>1, RequestStages DEF SubmitStart
            <4>2. IsActive(e, record', kept') /\ record[e].status \in
                     {"queued", "running", "cancelled"}
                <5>1. IsActive(e, record', kept')
                    BY <4>1 DEF RequestInv, Active, IsActive
                <5> QED BY <4>1, <5>1 DEF RequestInv
            <4> QED BY <2>1, <4>1, <4>2 DEF Starts
        <3>2. CASE ResumeStart(e)
            <4>1. PICK r \in Records : /\ Put(e, r) /\ r.status = "queued"
                                       /\ r.checkpoint = record[e].checkpoint
                BY <3>2, RequestWrites
            <4>2. record'[e] = r /\ e \in kept' /\ request'[e] = "known"
                BY <3>2, <4>1, RequestStages DEF Put, Change, TypeOK
            <4> QED BY <2>1, <4>1, <4>2 DEF Starts, IsActive, Going
        <3> QED BY <1>5, <3>1, <3>2
    <2> SUFFICES ASSUME NEW j \in Jobs, Pending(j, job'), job'[j].exp \notin overtaken'
                 PROVE  /\ request'[job'[j].exp] = "known"
                        /\ IsActive(job'[j].exp, record', kept')
                        /\ record'[job'[j].exp].status \in {"queued", "running", "cancelled"}
                        /\ job'[j].from = record'[job'[j].exp].checkpoint
                        /\ \A k \in Jobs \ {j} : Held(k, job') => job'[k].exp # job'[j].exp
        BY DEF RunInv, IsActive, Active, Pending, Held, Holding
    <2>5. CASE job'[j].exp = e
        <3>1. j = i
            BY <1>1, <2>1, <2>2, <2>5 DEF Pending, Starts
        <3>2. \A k \in Jobs \ {i} : Held(k, job') => job'[k].exp # e
            BY <1>1, <2>1, <2>2, <2>3, <2>5 DEF Held, Pending, Holding, Starts
        <3> QED BY <2>1, <2>4, <3>1, <3>2 DEF Starts
    <2>6. CASE job'[j].exp # e
        <3>1. /\ j # i /\ job'[j] = job[j] /\ Pending(j, job)
              /\ job[j].exp \in Experiments \ {e}
            BY <2>1, <2>6 DEF Pending, Starts, TypeOK, JobRecords
        <3> PICK d \in Experiments \ {e} : d = job[j].exp
            BY <3>1
        <3>2. d \notin overtaken
            BY <1>1, <3>1
        <3>3. /\ request[d] = "known" /\ IsActive(d, record, kept)
              /\ record[d].status \in {"queued", "running", "cancelled"}
              /\ job[j].from = record[d].checkpoint
              /\ \A k \in Jobs \ {j} : Held(k, job) => job[k].exp # d
            BY <3>1, <3>2 DEF RunInv, IsActive, Active
        <3>4. \A k \in Jobs \ {j} : Held(k, job') => job'[k].exp # d
            BY <2>1, <3>3 DEF Held, Pending, Holding, Starts
        <3>5. /\ IsActive(d, record', kept') /\ request'[d] = "known"
              /\ record'[d] = record[d]
            BY <1>1, <3>3 DEF IsActive
        <3> QED BY <3>1, <3>3, <3>4, <3>5
    <2> QED BY <2>5, <2>6
<1> QED BY <1>3, <1>4, <1>5 DEF RequestStep, RequestGoesOn

LEMMA RunJob ==
    ASSUME TypeOK, JobInv, LockInv, RunInv, NEW j \in Jobs, JobStep(j)
    PROVE  RunInv'
<1> PICK e \in Experiments : e = Exp(j)
    BY JobWrites
<1>1. /\ job[j] # Absent /\ job[j].exp = e /\ record[e] = Rec(j) /\ ~Idle(j)
      /\ request' = request /\ overtaken \subseteq overtaken'
      /\ \A d \in Experiments \ {e} :
            record'[d] = record[d] /\ (d \in kept' <=> d \in kept)
      /\ \A k \in Jobs \ {j} : job'[k] = job[k]
    BY JobWrites, JobFrame DEF Idle
<1>2. /\ Pending(j, job') => Runs(j) /\ Pending(j, job) /\ job'[j].from = job[j].from
      /\ Held(j, job') => Pending(j, job) /\ job'[j].exp = job[j].exp
    <2>1. CASE Stops(j) \/ Runs(j)
        <3>1. Pending(j, job)
            BY <2>1, LockFree DEF Stops, Runs
        <3> QED BY <1>1, <2>1, <3>1, JobsType DEF Stops, Runs, Pending, Held, Holding
    <2>2. CASE Returns(j) \/ Stores(j)
        BY <1>1, <2>2, JobsType DEF Returns, Stores, Pending, Held, Holding
    <2>3. CASE EndJob(j)
        BY <2>3 DEF EndJob, Pending, Held, Holding, TypeOK
    <2> QED BY JobWrites, <2>1, <2>2, <2>3
<1>3. \A k \in Jobs : /\ Pending(k, job') => Pending(k, job) /\ job'[k].from = job[k].from
                      /\ Held(k, job') => Held(k, job) /\ job'[k].exp = job[k].exp
    BY <1>1, <1>2 DEF Pending, Held, Holding
<1>4. ASSUME NEW k \in Jobs, Pending(k, job'), job[k].exp = e, e \notin overtaken'
      PROVE  /\ request'[e] = "known" /\ IsActive(e, record', kept')
             /\ record'[e].status \in {"queued", "running", "cancelled"}
             /\ record'[e].checkpoint = record[e].checkpoint
    <2>1. /\ Pending(k, job) /\ e \notin overtaken /\ request[e] = "known"
          /\ IsActive(e, record, kept)
          /\ record[e].status \in {"queued", "running", "cancelled"}
        BY <1>1, <1>3, <1>4 DEF RunInv, Active, IsActive
    <2>2. Held(j, job) => k = j
        BY <1>1, <1>4, <2>1 DEF RunInv
    <2>3. CASE k = j
        <3>1. PICK r \in Records :
                  /\ Put(e, r) /\ r.status = "running" /\ r.checkpoint = record[e].checkpoint
            BY <1>1, <1>2, <1>4, <2>3 DEF Runs
        <3>2. record'[e] = r /\ e \in kept'
            BY <3>1 DEF Put, Change, TypeOK
        <3> QED BY <1>1, <2>1, <3>1, <3>2 DEF IsActive, Going
    <2>4. CASE k # j
        <3>1. ~Pending(j, job) /\ ~Holding(j, job)
            BY <2>2, <2>4 DEF Held
        <3>2. ~Stops(j) /\ ~Runs(j) /\ ~Returns(j) /\ ~Settle(j)
            BY <3>1, LockFree DEF Stops, Runs, Returns, Settle
        <3>3. ~Finally(j)
            <4>1. ToRun(k) /\ Exp(k) = Exp(j)
                BY <1>4, <2>1, LockFree DEF Exp
            <4> QED BY <1>4, <4>1 DEF Finally
        <3>4. EndJob(j)
            BY <3>2, <3>3, JobWrites DEF Stores
        <3> QED BY <1>1, <2>1, <3>4 DEF EndJob
    <2> QED BY <2>3, <2>4
<1> QED BY <1>1, <1>3, <1>4, RunFrame

LEMMA RunWorld ==
    ASSUME TypeOK, StoreInv, RunInv, NextDay \/ Restart
    PROVE  RunInv'
<1>1. CASE NextDay
    BY <1>1 DEF NextDay, RunInv, Active, history
<1>2. CASE Restart
    BY <1>2, Restarted DEF RunInv, Pending
<1> QED BY <1>1, <1>2

(* What is done to the row of an experiment that stays in the store.       *)
Keeps(e) ==
    \/ disk'[e].checkpoint >= disk[e].checkpoint
    \/ disk'[e].status = "completed"
    \/ e \in overtaken

LEMMA KeptFrame ==
    ASSUME TypeOK, TypeOK', StoreInv, KeptInv, overtaken \subseteq overtaken',
           NEW e \in Experiments,
           \A d \in Experiments \ {e} :
              record'[d] = record[d] /\ disk'[d] = disk[d] /\ (d \in kept' => d \in kept),
           e \in kept' =>
              \/ record'[e] = record[e] /\ disk'[e] = disk[e] /\ e \in kept
              \/ \E r \in Records :
                    /\ Put(e, r) \/ (Change(e, r) /\ UNCHANGED <<kept, disk>>)
                    /\ e \in kept => \/ e \in overtaken \/ r.status = "completed"
                                     \/ r.checkpoint >= disk[e].checkpoint
    PROVE  KeptInv' /\ \A d \in kept \cap kept' : Keeps(d)
<1>1. \A d \in kept : disk[d] \in Records /\ disk[d].checkpoint \in Int
    <2>1. \A d \in kept : disk[d] \in Records
        BY DEF StoreInv, TypeOK
    <2> QED BY <2>1, SizeAssumption DEF Records
<1>2. \A d \in kept : disk'[d] = disk[d] => Keeps(d)
    BY <1>1 DEF Keeps
<1>3. ASSUME NEW d \in kept', d # e
      PROVE  /\ d \in kept => Keeps(d)
             /\ \/ d \in overtaken' \/ record'[d].status = "completed"
                \/ record'[d].checkpoint >= disk'[d].checkpoint
    <2>1. d \in Experiments /\ d \in kept
        BY <1>3 DEF TypeOK
    <2> QED BY <1>2, <1>3, <2>1 DEF KeptInv
<1>4. ASSUME e \in kept'
      PROVE  /\ e \in kept => Keeps(e)
             /\ \/ e \in overtaken' \/ record'[e].status = "completed"
                \/ record'[e].checkpoint >= disk'[e].checkpoint
    <2>1. CASE record'[e] = record[e] /\ disk'[e] = disk[e] /\ e \in kept
        BY <1>2, <2>1 DEF KeptInv
    <2>2. ASSUME NEW r \in Records,
                 Put(e, r) \/ (Change(e, r) /\ UNCHANGED <<kept, disk>>),
                 e \in kept => \/ e \in overtaken \/ r.status = "completed"
                              \/ r.checkpoint >= disk[e].checkpoint
          PROVE  /\ e \in kept => Keeps(e)
                 /\ \/ e \in overtaken' \/ record'[e].status = "completed"
                    \/ record'[e].checkpoint >= disk'[e].checkpoint
        <3>1. record'[e] = r
            BY <2>2 DEF Put, Change, TypeOK
        <3>2. CASE Put(e, r)
            <4>1. disk'[e] = Row(r)
                BY <3>2 DEF Put, TypeOK
            <4>2. Row(r).checkpoint = r.checkpoint /\ Row(r).status = r.status
                  /\ r.checkpoint \in Int
                BY SizeAssumption DEF Row, Records
            <4> QED BY <2>2, <3>1, <4>1, <4>2 DEF Keeps
        <3>3. CASE UNCHANGED <<kept, disk>>
            BY <1>2, <1>4, <2>2, <3>1, <3>3
        <3> QED BY <2>2, <3>2, <3>3
    <2> QED BY <1>4, <2>1, <2>2
<1> QED BY <1>3, <1>4 DEF KeptInv

(* KeptInv is kept, and so are the rows' checkpoints.                      *)
LEMMA KeptRequest ==
    ASSUME TypeOK, TypeOK', StoreInv, LockInv, JobInv, RequestInv, KeptInv,
           NEW e \in Experiments, RequestStep(e)
    PROVE  KeptInv' /\ \A d \in kept \cap kept' : Keeps(d)
<1>1. /\ overtaken \subseteq overtaken'
      /\ \A d \in Experiments \ {e} :
            record'[d] = record[d] /\ disk'[d] = disk[d] /\ (d \in kept' => d \in kept)
    BY RequestFrame
<1>2. CASE Submit(e)
    <2>1. \E r \in Records : Put(e, r)
        BY <1>2, RequestWrites
    <2>2. e \notin kept
        BY <1>2 DEF Submit, StoreInv
    <2> QED BY <1>1, <2>1, <2>2, KeptFrame
<1>3. CASE Cancel(e) \/ CancelPut(e) \/ ResumeStart(e)
    <2>1. e \in kept => \/ e \in overtaken \/ record[e].status = "completed"
                       \/ record[e].checkpoint >= disk[e].checkpoint
        BY DEF KeptInv
    <2>2. \E r \in Records :
              /\ Put(e, r) \/ (Change(e, r) /\ UNCHANGED <<kept, disk>>)
              /\ r.checkpoint = record[e].checkpoint
        <3>1. CASE Cancel(e)
            BY <3>1, RequestWrites DEF Cancel
        <3>2. CASE CancelPut(e) \/ ResumeStart(e)
            BY <3>2, RequestWrites DEF CancelPut
        <3> QED BY <1>3, <3>1, <3>2
    <2>3. record[e].status # "completed" \/ e \notin kept
        BY <1>3 DEF Cancel, CancelPut, ResumeStart, LockInv, Going
    <2> QED BY <1>1, <2>1, <2>2, <2>3, KeptFrame
<1>4. CASE Delete(e) \/ RollBack(e)
    <2>1. e \notin kept'
        BY <1>4 DEF Delete, RollBack, Remove
    <2> QED BY <1>1, <2>1, KeptFrame
<1>5. CASE Resume(e) \/ SubmitStart(e) \/ SubmitRefused(e) \/ ResumeRefused(e)
    <2>1. UNCHANGED <<record, kept, disk>>
        BY <1>5 DEF Resume, SubmitStart, SubmitRefused, ResumeRefused
    <2> QED BY <1>1, <2>1, KeptFrame
<1> QED BY <1>2, <1>3, <1>4, <1>5 DEF RequestStep, RequestGoesOn

LEMMA KeptJob ==
    ASSUME TypeOK, TypeOK', StoreInv, JobInv, RunInv, KeptInv, NEW j \in Jobs, JobStep(j)
    PROVE  KeptInv' /\ \A d \in kept \cap kept' : Keeps(d)
<1> PICK e \in Experiments : e = Exp(j)
    BY JobWrites
<1>1. /\ overtaken \subseteq overtaken' /\ record[e] = Rec(j) /\ job[j].exp = e
      /\ record[e] \in Records
      /\ \A d \in Experiments \ {e} :
            record'[d] = record[d] /\ disk'[d] = disk[d] /\ (d \in kept' => d \in kept)
    BY JobWrites, JobFrame
<1>2. e \in kept => \/ e \in overtaken \/ record[e].status = "completed"
                   \/ record[e].checkpoint >= disk[e].checkpoint
    BY DEF KeptInv
<1>3. CASE Stops(j) \/ Runs(j) \/ Returns(j)
    <2>1. \/ e \in overtaken
          \/ record[e].status # "completed" /\ job[j].from = record[e].checkpoint
        <3>1. Pending(j, job)
            BY <1>3, LockFree DEF Stops, Runs, Returns
        <3> QED BY <1>1, <3>1 DEF RunInv
    <2>2. \E r \in Records :
              /\ Put(e, r) \/ (Change(e, r) /\ UNCHANGED <<kept, disk>>)
              /\ \/ r.status = "completed" \/ r.checkpoint = record[e].checkpoint
                 \/ r.checkpoint >= job[j].from
        BY <1>1, <1>3 DEF Stops, Runs, Returns
    <2>3. e \in kept => disk[e].checkpoint \in Int
        <3>1. e \in kept => disk[e] \in Records
            BY DEF StoreInv, TypeOK
        <3> QED BY <3>1, SizeAssumption DEF Records
    <2>4. record[e].checkpoint \in Int
        BY <1>1, SizeAssumption DEF Records
    <2>5. \A r \in Records : r.checkpoint \in Int
        BY SizeAssumption DEF Records
    <2> QED BY <1>1, <1>2, <2>1, <2>2, <2>3, <2>4, <2>5, KeptFrame
<1>4. CASE Stores(j)
    <2>1. \E r \in Records :
              /\ Put(e, r)
              /\ r.status = record[e].status /\ r.checkpoint = record[e].checkpoint
        BY <1>1, <1>4 DEF Stores
    <2> QED BY <1>1, <1>2, <2>1, KeptFrame
<1>5. CASE EndJob(j)
    <2>1. UNCHANGED <<record, kept, disk>>
        BY <1>5 DEF EndJob
    <2> QED BY <1>1, <2>1, KeptFrame
<1> QED BY JobWrites, <1>3, <1>4, <1>5

LEMMA KeptWorld ==
    ASSUME TypeOK, StoreInv, KeptInv, NextDay \/ Restart
    PROVE  KeptInv' /\ \A d \in kept \cap kept' : Keeps(d)
<1>1. \A d \in kept : disk[d] \in Records /\ disk[d].checkpoint \in Int
    <2>1. \A d \in kept : disk[d] \in Records
        BY DEF StoreInv, TypeOK
    <2> QED BY <2>1, SizeAssumption DEF Records
<1>2. CASE NextDay
    BY <1>1, <1>2 DEF NextDay, history, KeptInv, Keeps
<1>3. CASE Restart
    <2>1. \A d \in kept : d \in Experiments
        BY DEF TypeOK
    <2> QED BY <1>1, <1>3, <2>1, Restarted DEF KeptInv, Keeps
<1> QED BY <1>2, <1>3

(***************************************************************************)
(* The quotas.                                                             *)
(***************************************************************************)

(* The active experiments that somebody may have counted.                  *)
Counted(u) == ActiveOf(u) \ crossed
AllActive  == {e \in Experiments : Active(e)} \ crossed
Extra      == IF resumes = 0 THEN 0 ELSE 1

(* While a resume has passed its check but not yet counted, nobody is over *)
(* the limits: that is what leaves room for the one it then adds.          *)
QuotaInv ==
    overtaken = {} =>
        /\ \A e \in Experiments : request[e] = "resuming" =>
              /\ Cardinality(Counted(Owner[e])) <= MaxPerUser
              /\ Cardinality(AllActive) <= MaxActive
              /\ resumes # 0
        /\ \A u \in Users : Cardinality(Counted(u)) <= MaxPerUser + Extra
        /\ Cardinality(AllActive) <= MaxActive + Extra

(* Sets of experiments can be counted.                                     *)
LEMMA Counting ==
    ASSUME NEW S \in SUBSET Experiments
    PROVE  /\ IsFiniteSet(S) /\ Cardinality(S) \in Nat
           /\ \A T \in SUBSET S : Cardinality(T) <= Cardinality(S)
           /\ \A T, e : T \subseteq S \cup {e} /\ e \in Experiments =>
                  Cardinality(T) <= Cardinality(S) + 1
<1>1. IsFiniteSet(S)
    BY OwnerAssumption, FS_Subset
<1>2. Cardinality(S) \in Nat
    BY <1>1, FS_CardinalityType
<1>3. \A T \in SUBSET S : Cardinality(T) <= Cardinality(S)
    BY <1>1, FS_Subset
<1>4. ASSUME NEW T, NEW e \in Experiments, T \subseteq S \cup {e}
      PROVE  Cardinality(T) <= Cardinality(S) + 1
    <2>1. IsFiniteSet(S \cup {e})
          /\ Cardinality(S \cup {e}) <= Cardinality(S) + 1
        <3>1. /\ IsFiniteSet(S \cup {e})
              /\ \/ Cardinality(S \cup {e}) = Cardinality(S)
                 \/ Cardinality(S \cup {e}) = Cardinality(S) + 1
            BY <1>1, FS_AddElement
        <3> QED BY <1>2, <3>1
    <2>2. Cardinality(T) <= Cardinality(S \cup {e}) /\ IsFiniteSet(T)
        BY <1>4, <2>1, FS_Subset
    <2>3. Cardinality(T) \in Nat /\ Cardinality(S \cup {e}) \in Nat
        BY <2>1, <2>2, FS_CardinalityType
    <2> QED BY <1>2, <2>1, <2>2, <2>3
<1> QED BY <1>1, <1>2, <1>3, <1>4

LEMMA CountedType ==
    /\ Cardinality(AllActive) \in Nat
    /\ \A u : Counted(u) \in SUBSET Experiments /\ Cardinality(Counted(u)) \in Nat
<1>1. AllActive \in SUBSET Experiments /\ \A u : Counted(u) \in SUBSET Experiments
    BY DEF AllActive, Counted, ActiveOf
<1> QED BY <1>1, Counting

(* A step after which nothing new is active and no new resume is under way *)
(* keeps the quotas.                                                       *)
LEMMA QuotaKept ==
    ASSUME TypeOK, QuotaInv, overtaken' = {} => overtaken = {},
           overtaken' = {} => AllActive' \subseteq AllActive,
           resumes' = resumes,
           \A e \in Experiments : request'[e] = "resuming" => request[e] = "resuming"
    PROVE  QuotaInv'
<1> SUFFICES ASSUME overtaken' = {}
             PROVE  /\ \A e \in Experiments : request'[e] = "resuming" =>
                          /\ Cardinality(Counted(Owner[e])') <= MaxPerUser
                          /\ Cardinality(AllActive') <= MaxActive
                          /\ resumes' # 0
                    /\ \A u \in Users : Cardinality(Counted(u)') <= MaxPerUser + Extra'
                    /\ Cardinality(AllActive') <= MaxActive + Extra'
    BY DEF QuotaInv
<1>1. \A u : Counted(u)' \subseteq Counted(u) /\ Counted(u) \subseteq Experiments
    BY DEF Counted, ActiveOf, AllActive
<1>2. \A u : /\ Cardinality(Counted(u)') <= Cardinality(Counted(u))
             /\ Cardinality(Counted(u)') \in Nat /\ Cardinality(Counted(u)) \in Nat
    BY <1>1, Counting
<1>3. /\ Cardinality(AllActive') <= Cardinality(AllActive)
      /\ Cardinality(AllActive') \in Nat /\ Cardinality(AllActive) \in Nat
    BY Counting DEF AllActive
<1>4. Extra' = Extra /\ Extra \in Nat
    BY DEF Extra
<1> QED BY <1>2, <1>3, <1>4, LimitAssumption, OwnerAssumption DEF QuotaInv

(* What the quota check of a request that passes it finds.                 *)
LEMMA QuotaChecked ==
    ASSUME NEW u, QuotaOpen(u)
    PROVE  /\ Cardinality(Counted(u)) < MaxPerUser
           /\ Cardinality(AllActive) < MaxActive
<1> DEFINE A == ActiveOf(u)
           B == {e \in Experiments : Active(e)}
<1>1. A \in SUBSET Experiments /\ B \in SUBSET Experiments
      /\ Counted(u) \in SUBSET A /\ AllActive \in SUBSET B
    BY DEF ActiveOf, Counted, AllActive
<1>2. Cardinality(A) < MaxPerUser /\ Cardinality(B) < MaxActive
    BY DEF QuotaOpen
<1> HIDE DEF A, B
<1>3. /\ Cardinality(A) \in Nat /\ Cardinality(B) \in Nat
      /\ Cardinality(Counted(u)) <= Cardinality(A)
      /\ Cardinality(AllActive) <= Cardinality(B)
    BY <1>1, Counting
<1> QED BY <1>2, <1>3, CountedType, LimitAssumption

(* QuotaInv is kept by a step of a request, of a job, and of the world.    *)
LEMMA QuotaRequest ==
    ASSUME TypeOK, QuotaInv, StoreInv, LockInv, JobInv, RequestInv,
           NEW e \in Experiments, RequestStep(e)
    PROVE  QuotaInv'
<1>0. /\ overtaken' = overtaken /\ crossed \subseteq crossed'
      /\ \A d \in Experiments \ {e} : /\ Active(d)' <=> Active(d)
                                      /\ request'[d] = request[d]
    BY RequestFrame DEF Active
<1> PICK u \in Users : u = Owner[e]
    BY OwnerAssumption
<1>1. /\ AllActive' \subseteq AllActive \cup {e}
      /\ AllActive \subseteq Experiments
      /\ Counted(u)' \subseteq Counted(u) \cup {e}
      /\ \A v \in Users : Counted(v) \subseteq Experiments
      /\ \A v \in Users \ {u} : Counted(v)' \subseteq Counted(v)
    BY <1>0 DEF AllActive, Counted, ActiveOf
<1>2. /\ Cardinality(AllActive') <= Cardinality(AllActive) + 1
      /\ Cardinality(Counted(u)') <= Cardinality(Counted(u)) + 1
      /\ \A v \in Users \ {u} :
            Cardinality(Counted(v)') <= Cardinality(Counted(v))
    BY <1>1, Counting
<1>3. /\ Cardinality(AllActive') \in Nat /\ Cardinality(AllActive) \in Nat
      /\ \A v \in Users :
            Cardinality(Counted(v)') \in Nat /\ Cardinality(Counted(v)) \in Nat
    <2>1. AllActive' \in SUBSET Experiments
          /\ \A v \in Users : Counted(v)' \in SUBSET Experiments
        BY DEF AllActive, Counted, ActiveOf
    <2> QED BY <2>1, Counting, CountedType
<1>4. CASE Submit(e)
    <2>1. /\ Cardinality(Counted(u)) < MaxPerUser /\ Cardinality(AllActive) < MaxActive
          /\ resumes' = resumes /\ request'[e] # "resuming"
        BY <1>4, QuotaChecked, RequestStages DEF Submit
    <2>2. Cardinality(Counted(u)') <= MaxPerUser /\ Cardinality(AllActive') <= MaxActive
        BY <1>2, <1>3, <2>1, LimitAssumption
    <2>3. Extra' = Extra /\ Extra \in Nat
        BY <2>1 DEF Extra
    <2> SUFFICES ASSUME overtaken' = {}
                 PROVE  /\ \A d \in Experiments : request'[d] = "resuming" =>
                              /\ Cardinality(Counted(Owner[d])') <= MaxPerUser
                              /\ Cardinality(AllActive') <= MaxActive
                              /\ resumes' # 0
                        /\ \A v \in Users : Cardinality(Counted(v)') <= MaxPerUser + Extra'
                        /\ Cardinality(AllActive') <= MaxActive + Extra'
        BY DEF QuotaInv
    <2>4. ASSUME NEW d \in Experiments, request'[d] = "resuming"
          PROVE  Cardinality(Counted(Owner[d])') <= MaxPerUser /\ resumes' # 0
        <3>1. /\ request[d] = "resuming" /\ resumes # 0
              /\ Cardinality(Counted(Owner[d])) <= MaxPerUser
            BY <1>0, <2>1, <2>4 DEF QuotaInv
        <3> PICK v \in Users : v = Owner[d]
            BY OwnerAssumption
        <3>2. Cardinality(Counted(v)') <= MaxPerUser
            <4>1. CASE v = u
                BY <2>2, <4>1
            <4>2. CASE v # u
                BY <1>2, <1>3, <3>1, <4>2, LimitAssumption
            <4> QED BY <4>1, <4>2
        <3> QED BY <2>1, <3>1, <3>2
    <2>5. ASSUME NEW v \in Users PROVE Cardinality(Counted(v)') <= MaxPerUser + Extra'
        <3>1. CASE v = u
            BY <1>3, <2>2, <2>3, <3>1, LimitAssumption
        <3>2. CASE v # u
            BY <1>0, <1>2, <1>3, <2>3, <3>2, LimitAssumption DEF QuotaInv
        <3> QED BY <3>1, <3>2
    <2>6. Cardinality(AllActive') <= MaxActive + Extra'
        BY <1>3, <2>2, <2>3, LimitAssumption
    <2> QED BY <2>2, <2>4, <2>5, <2>6
<1>5. CASE Resume(e)
    <2>1. /\ Cardinality(Counted(u)) < MaxPerUser /\ Cardinality(AllActive) < MaxActive
          /\ resumes' # 0 /\ \A d \in Experiments : request[d] # "resuming"
        BY <1>5, QuotaChecked, LockFree DEF Resume, TypeOK
    <2>2. AllActive' = AllActive /\ \A v : Counted(v)' = Counted(v)
        BY <1>5 DEF Resume, AllActive, Counted, ActiveOf, Active, history
    <2>3. Extra' = 1 /\ Extra \in {0, 1}
        BY <2>1 DEF Extra
    <2>4. ASSUME overtaken' = {}, NEW d \in Experiments, request'[d] = "resuming"
          PROVE  /\ Cardinality(Counted(Owner[d])') <= MaxPerUser
                 /\ Cardinality(AllActive') <= MaxActive
                 /\ resumes' # 0
        <3>1. Counted(Owner[d])' = Counted(u)
            BY <1>0, <2>1, <2>2, <2>4
        <3> QED BY <1>3, <2>1, <2>2, <3>1, LimitAssumption
    <2>5. ASSUME overtaken' = {}, NEW v \in Users
          PROVE  Cardinality(Counted(v)') <= MaxPerUser + Extra'
        <3>1. Cardinality(Counted(v)) <= MaxPerUser + Extra
            BY <1>0, <2>5 DEF QuotaInv
        <3> QED BY <1>3, <2>2, <2>3, <3>1, LimitAssumption
    <2>6. Cardinality(AllActive') <= MaxActive + Extra'
        BY <1>3, <2>1, <2>2, <2>3, LimitAssumption
    <2> QED BY <2>4, <2>5, <2>6 DEF QuotaInv
<1>6. CASE ResumeStart(e)
    <2>1. request[e] = "resuming" /\ resumes' = resumes /\ request'[e] = "known"
        BY <1>6, RequestStages DEF ResumeStart
    <2>2. \A d \in Experiments : request'[d] # "resuming"
        BY <1>0, <2>1 DEF LockInv
    <2>3. overtaken' = {} => /\ Cardinality(Counted(u)) <= MaxPerUser
                             /\ Cardinality(AllActive) <= MaxActive
                             /\ Extra' = 1 /\ Extra = 1
        BY <1>0, <2>1 DEF QuotaInv, Extra
    <2>4. overtaken' = {} => \A v \in Users :
                                Cardinality(Counted(v)') <= MaxPerUser + Extra'
        <3> SUFFICES ASSUME overtaken' = {}, NEW v \in Users
                     PROVE  Cardinality(Counted(v)') <= MaxPerUser + 1
            BY <2>3
        <3>1. CASE v = u
            BY <1>2, <1>3, <2>3, <3>1, LimitAssumption
        <3>2. CASE v # u
            BY <1>0, <1>2, <1>3, <2>3, <3>2, LimitAssumption DEF QuotaInv
        <3> QED BY <3>1, <3>2
    <2>5. overtaken' = {} => Cardinality(AllActive') <= MaxActive + Extra'
        BY <1>2, <1>3, <2>3, LimitAssumption
    <2> QED BY <2>2, <2>4, <2>5 DEF QuotaInv
<1>7. CASE Cancel(e) \/ Delete(e) \/ SubmitStart(e) \/ SubmitRefused(e) \/ RollBack(e)
           \/ CancelPut(e) \/ ResumeRefused(e)
    <2>1. Active(e)' /\ e \notin crossed' => Active(e)
        <3>1. CASE Cancel(e)
            BY <3>1 DEF Cancel, Active
        <3>2. CASE CancelPut(e)
            BY <3>2 DEF CancelPut, Put, Change, Active, TypeOK
        <3>3. CASE Delete(e) \/ RollBack(e)
            BY <3>3 DEF Delete, RollBack, Remove, Active
        <3>4. CASE SubmitStart(e) \/ SubmitRefused(e) \/ ResumeRefused(e)
            BY <3>4 DEF SubmitStart, SubmitRefused, ResumeRefused, Active
        <3> QED BY <1>7, <3>1, <3>2, <3>3, <3>4
    <2>2. AllActive' \subseteq AllActive
        BY <1>0, <2>1 DEF AllActive
    <2>3. /\ resumes' = resumes
          /\ \A d \in Experiments : request'[d] = "resuming" => request[d] = "resuming"
        BY <1>0, <1>7, RequestStages
        DEF Cancel, Delete, SubmitStart, SubmitRefused, RollBack, CancelPut, ResumeRefused
    <2> QED BY <1>0, <2>2, <2>3, QuotaKept
<1> QED BY <1>4, <1>5, <1>6, <1>7 DEF RequestStep, RequestGoesOn

LEMMA QuotaJob ==
    ASSUME TypeOK, StoreInv, LockInv, JobInv, RunInv, QuotaInv, NEW j \in Jobs, JobStep(j)
    PROVE  QuotaInv'
<1> PICK e \in Experiments : e = Exp(j)
    BY JobWrites
<1>1. /\ overtaken \subseteq overtaken' /\ UNCHANGED <<resumes, request, crossed>>
      /\ job[j].exp = e /\ record[e] = Rec(j) /\ record[e] # Absent
      /\ \A d \in Experiments \ {e} :
            record'[d] = record[d] /\ (d \in kept' <=> d \in kept)
    BY JobWrites, JobFrame
<1>2. ASSUME overtaken = {}, IsActive(e, record', kept') PROVE Active(e)
    <2>1. CASE Runs(j)
        BY <1>1, <1>2, <2>1, LockFree DEF Runs, RunInv
    <2>2. CASE Stores(j)
        <3>1. PICK r \in Records : Put(e, r) /\ ~r.settling /\ r.status = record[e].status
            BY <1>1, <2>2 DEF Stores
        <3>2. record'[e] = r
            BY <3>1 DEF Put, Change, TypeOK
        <3> QED BY <1>1, <1>2, <3>1, <3>2 DEF IsActive, Active, StoreInv
    <2>3. CASE Stops(j) \/ Returns(j)
        <3>1. PICK r \in Records :
                  /\ Change(e, r) /\ r.status \notin Going
                  /\ r.settling = record[e].settling /\ kept' = kept
            BY <1>1, <2>3 DEF Stops, Returns, Going
        <3>2. record'[e] = r
            BY <3>1 DEF Change, TypeOK
        <3> QED BY <1>2, <3>1, <3>2 DEF IsActive, Active
    <2>4. CASE EndJob(j)
        BY <1>2, <2>4 DEF EndJob, IsActive, Active
    <2> QED BY JobWrites, <2>1, <2>2, <2>3, <2>4
<1>3. overtaken' = {} => AllActive' \subseteq AllActive
    BY <1>1, <1>2 DEF AllActive, Active, IsActive
<1> QED BY <1>1, <1>3, QuotaKept

LEMMA QuotaWorld ==
    ASSUME TypeOK, StoreInv, QuotaInv, NextDay \/ Restart
    PROVE  QuotaInv'
<1>1. CASE NextDay
    BY <1>1 DEF NextDay, QuotaInv, AllActive, Extra, Counted, ActiveOf, Active, history
<1>2. CASE Restart
    <2>1. \A e \in Experiments : ~IsActive(e, record', kept')
        BY <1>2, Restarted DEF IsActive
    <2>2. AllActive' \subseteq AllActive
        BY <2>1 DEF AllActive, Active, IsActive
    <2>3. /\ overtaken' = overtaken /\ resumes' = resumes
          /\ \A e \in Experiments : request'[e] # "resuming"
        BY <1>2 DEF Restart
    <2> QED BY <2>2, <2>3, QuotaKept
<1> QED BY <1>1, <1>2

(***************************************************************************)
(* Sums over finite sets, which SumOf computes.                            *)
(***************************************************************************)

(* Of some subsets of a finite set, one has no smaller one among them.     *)
LEMMA LeastSubset ==
    ASSUME NEW S, IsFiniteSet(S), NEW B \in SUBSET SUBSET S, B # {}
    PROVE  \E T \in B : \A U \in SUBSET T : U # T => U \notin B
<1> DEFINE R == StrictSubsetOrdering(S)
<1>1. IsWellFoundedOn(R, FiniteSubsetsOf(S)) /\ FiniteSubsetsOf(S) = SUBSET S
    BY FS_StrictSubsetOrderingWellFounded, FS_FiniteSubsetsOfFinite
<1>2. IsWellFoundedOn(R, SUBSET S)
    BY <1>1
<1>3. \A U \in B, T \in B : U \subseteq T /\ U # T => <<U, T>> \in R
    BY DEF StrictSubsetOrdering
<1> HIDE DEF R
<1>4. \E T \in B : \A U \in B : ~ (<<U, T>> \in R)
    BY <1>2, WFMin, Zenon
<1> QED BY <1>3, <1>4

(* The subsets of a finite set are what adding elements to {} reaches.     *)
LEMMA SubsetsReached ==
    ASSUME NEW S, IsFiniteSet(S), NEW G, {} \in G,
           \A T \in SUBSET S, x \in S : x \notin T /\ T \in G => T \cup {x} \in G
    PROVE  SUBSET S \subseteq G
<1> SUFFICES ASSUME (SUBSET S) \ G # {} PROVE FALSE
    OBVIOUS
<1> DEFINE B == (SUBSET S) \ G
<1>0. B \in SUBSET SUBSET S /\ B # {}
    OBVIOUS
<1> HIDE DEF B
<1>1. PICK T \in B : \A U \in SUBSET T : U # T => U \notin B
    BY <1>0, LeastSubset, Zenon
<1> USE DEF B
<1>2. PICK x \in T : TRUE
    BY <1>1
<1>3. T \ {x} \in G /\ x \in S /\ x \notin T \ {x} /\ (T \ {x}) \cup {x} = T
    BY <1>1, <1>2
<1> QED BY <1>1, <1>3

(* h gives the sum of f over every subset of S.                            *)
Adds(h, f, S) ==
    /\ h[{}] = 0
    /\ \A T \in SUBSET S, x \in S : x \notin T => h[T \cup {x}] = f[x] + h[T]

(* ... and such an h is what SumOf computes, in whatever order it goes.    *)
LEMMA SumIs ==
    ASSUME NEW S, IsFiniteSet(S), NEW f \in [S -> Int],
           NEW h \in [SUBSET S -> Int], Adds(h, f, S)
    PROVE  SumOf(f, S) = h[S]
<1> DEFINE Pick(T) == CHOOSE x \in T : TRUE
           F(g) == [s \in SUBSET S |->
                       IF s = {} THEN 0 ELSE f[Pick(s)] + g[s \ {Pick(s)}]]
           g == CHOOSE k : k = F(k)
<1>1. \A s \in SUBSET S : s # {} =>
          Pick(s) \in s /\ s \ {Pick(s)} \in SUBSET S
          /\ (s \ {Pick(s)}) \cup {Pick(s)} = s
    OBVIOUS
<1>2. SumOf(f, S) = g[S]
    BY DEF SumOf, MapThenSumSet, MapThenFoldSet
<1> HIDE DEF Pick
<1>3. \A s \in SUBSET S :
          h[s] = IF s = {} THEN 0 ELSE f[Pick(s)] + h[s \ {Pick(s)}]
    BY <1>1 DEF Adds
<1>4. h = F(h)
    BY <1>3
<1>5. g = F(g)
    BY <1>4
<1> HIDE DEF g
<1>6. \A s \in SUBSET S :
          g[s] = IF s = {} THEN 0 ELSE f[Pick(s)] + g[s \ {Pick(s)}]
    BY <1>5
<1> SUFFICES ASSUME g[S] # h[S] PROVE FALSE
    BY <1>2
<1> DEFINE B == {s \in SUBSET S : g[s] # h[s]}
<1>7. B \in SUBSET SUBSET S /\ B # {}
    OBVIOUS
<1> HIDE DEF B
<1>8. PICK T \in B : \A U \in SUBSET T : U # T => U \notin B
    BY <1>7, LeastSubset, Zenon
<1> USE DEF B
<1>9. CASE T = {}
    BY <1>3, <1>6, <1>8, <1>9
<1>10. CASE T # {}
    <2>1. g[T \ {Pick(T)}] = h[T \ {Pick(T)}]
        BY <1>1, <1>8, <1>10
    <2> QED BY <1>3, <1>6, <1>8, <1>10, <2>1
<1> QED BY <1>9, <1>10

(* Natural numbers have a sum, which is one.                               *)
LEMMA SumExists ==
    ASSUME NEW S, IsFiniteSet(S), NEW f \in [S -> Nat]
    PROVE  \E h \in [SUBSET S -> Nat] : Adds(h, f, S)
<1> DEFINE G == {T \in SUBSET S : \E h \in [SUBSET T -> Nat] : Adds(h, f, T)}
<1>1. {} \in G
    <2>1. [T \in SUBSET {} |-> 0] \in [SUBSET {} -> Nat]
        OBVIOUS
    <2>2. Adds([T \in SUBSET {} |-> 0], f, {})
        BY DEF Adds
    <2> QED BY <2>1, <2>2
<1>2. ASSUME NEW T \in SUBSET S, NEW x \in S, x \notin T, T \in G
      PROVE  T \cup {x} \in G
    <2>1. PICK h \in [SUBSET T -> Nat] : Adds(h, f, T)
        BY <1>2
    <2> DEFINE X == T \cup {x}
               k == [U \in SUBSET X |-> IF x \in U THEN f[x] + h[U \ {x}] ELSE h[U]]
    <2>2. k \in [SUBSET X -> Nat]
        <3>1. ASSUME NEW U \in SUBSET X
              PROVE  (IF x \in U THEN f[x] + h[U \ {x}] ELSE h[U]) \in Nat
            <4>1. U \ {x} \in SUBSET T /\ (x \notin U => U \in SUBSET T)
                OBVIOUS
            <4> QED BY <4>1
        <3> QED BY <3>1
    <2>3. k[{}] = 0
        BY <2>1 DEF Adds
    <2>4. ASSUME NEW U \in SUBSET X, NEW y \in X, y \notin U
          PROVE  k[U \cup {y}] = f[y] + k[U]
        <3>1. k[U \cup {y}] = IF x \in U \cup {y} THEN f[x] + h[(U \cup {y}) \ {x}]
                              ELSE h[U \cup {y}]
            OBVIOUS
        <3>2. k[U] = IF x \in U THEN f[x] + h[U \ {x}] ELSE h[U]
            OBVIOUS
        <3> HIDE DEF k
        <3>3. CASE y = x
            <4>1. (U \cup {y}) \ {x} = U /\ U \ {x} = U
                BY <2>4, <3>3
            <4> QED BY <2>4, <3>1, <3>2, <3>3, <4>1
        <3>4. CASE y # x /\ x \in U
            <4>1. (U \cup {y}) \ {x} = (U \ {x}) \cup {y} /\ U \ {x} \in SUBSET T
                  /\ y \in T /\ y \notin U \ {x}
                BY <2>4, <3>4
            <4>2. h[(U \ {x}) \cup {y}] = f[y] + h[U \ {x}]
                BY <2>1, <4>1 DEF Adds
            <4>3. f[x] \in Nat /\ f[y] \in Nat /\ h[U \ {x}] \in Nat
                BY <1>2, <4>1
            <4>4. k[U \cup {y}] = f[x] + (f[y] + h[U \ {x}])
                BY <3>1, <3>4, <4>1, <4>2
            <4>5. k[U] = f[x] + h[U \ {x}]
                BY <3>2, <3>4
            <4> QED BY <4>3, <4>4, <4>5
        <3>5. CASE y # x /\ x \notin U
            <4>1. U \in SUBSET T /\ y \in T /\ x \notin U \cup {y}
                BY <3>5
            <4> QED BY <2>1, <2>4, <3>1, <3>2, <3>5, <4>1 DEF Adds
        <3> QED BY <3>3, <3>4, <3>5
    <2>5. Adds(k, f, X)
        BY <2>3, <2>4 DEF Adds
    <2> HIDE DEF k
    <2> QED BY <1>2, <2>2, <2>5
<1>3. S \in G
    <2> HIDE DEF G
    <2>1. SUBSET S \subseteq G
        BY <1>1, <1>2, SubsetsReached
    <2> QED BY <2>1
<1> QED BY <1>3

LEMMA SumType ==
    ASSUME NEW S, IsFiniteSet(S), NEW f \in [S -> Nat]
    PROVE  SumOf(f, S) \in Nat
<1>1. PICK h \in [SUBSET S -> Nat] : Adds(h, f, S)
    BY SumExists
<1>2. f \in [S -> Int] /\ h \in [SUBSET S -> Int] /\ h[S] \in Nat
    <2>1. Nat \subseteq Int
        OBVIOUS
    <2> QED BY <2>1
<1> QED BY <1>1, <1>2, SumIs

(* The sum of two functions adds up to the two sums.                       *)
LEMMA SumTogether ==
    ASSUME NEW S, IsFiniteSet(S), NEW f \in [S -> Nat], NEW g \in [S -> Nat],
           NEW k \in [S -> Nat], \A x \in S : k[x] = f[x] + g[x]
    PROVE  SumOf(k, S) = SumOf(f, S) + SumOf(g, S)
<1>0. Nat \subseteq Int
    OBVIOUS
<1>1. PICK hf \in [SUBSET S -> Nat] : Adds(hf, f, S)
    BY SumExists
<1>2. PICK hg \in [SUBSET S -> Nat] : Adds(hg, g, S)
    BY SumExists
<1> DEFINE h == [T \in SUBSET S |-> hf[T] + hg[T]]
<1>3. h \in [SUBSET S -> Int] /\ f \in [S -> Int] /\ g \in [S -> Int] /\ k \in [S -> Int]
      /\ hf \in [SUBSET S -> Int] /\ hg \in [SUBSET S -> Int]
    BY <1>0
<1>4. Adds(h, k, S)
    <2>1. h[{}] = 0
        BY <1>1, <1>2 DEF Adds
    <2>2. ASSUME NEW T \in SUBSET S, NEW x \in S, x \notin T
          PROVE  h[T \cup {x}] = k[x] + h[T]
        <3>1. hf[T \cup {x}] = f[x] + hf[T] /\ hg[T \cup {x}] = g[x] + hg[T]
            BY <1>1, <1>2, <2>2 DEF Adds
        <3>2. T \cup {x} \in SUBSET S /\ T \in SUBSET S
            OBVIOUS
        <3>3. hf[T] \in Nat /\ hg[T] \in Nat /\ f[x] \in Nat /\ g[x] \in Nat
            OBVIOUS
        <3> QED BY <3>1, <3>2, <3>3
    <2> HIDE DEF h
    <2> QED BY <2>1, <2>2 DEF Adds
<1>5. h[S] = hf[S] + hg[S]
    OBVIOUS
<1> HIDE DEF h
<1>6. SumOf(k, S) = h[S] /\ SumOf(f, S) = hf[S] /\ SumOf(g, S) = hg[S]
    BY <1>1, <1>2, <1>3, <1>4, SumIs
<1> QED BY <1>5, <1>6

(* A sum of larger numbers is larger; one number changed changes the sum   *)
(* by as much; and only one that is not 0 is the sum.                      *)
LEMMA SumGrows ==
    ASSUME NEW S, IsFiniteSet(S), NEW f \in [S -> Nat], NEW g \in [S -> Nat],
           \A x \in S : f[x] <= g[x]
    PROVE  SumOf(f, S) <= SumOf(g, S)
<1> DEFINE k == [x \in S |-> g[x] - f[x]]
<1>1. k \in [S -> Nat] /\ \A x \in S : g[x] = f[x] + k[x]
    OBVIOUS
<1> HIDE DEF k
<1>2. SumOf(g, S) = SumOf(f, S) + SumOf(k, S)
    BY <1>1, SumTogether
<1>3. SumOf(k, S) \in Nat /\ SumOf(f, S) \in Nat
    BY <1>1, SumType
<1> QED BY <1>2, <1>3

LEMMA SumOfOne ==
    ASSUME NEW S, IsFiniteSet(S), NEW f \in [S -> Nat], NEW x \in S,
           \A y \in S \ {x} : f[y] = 0
    PROVE  SumOf(f, S) = f[x]
<1> DEFINE h == [T \in SUBSET S |-> IF x \in T THEN f[x] ELSE 0]
<1>1. h \in [SUBSET S -> Int] /\ f \in [S -> Int]
    OBVIOUS
<1>2. Adds(h, f, S)
    <2>1. h[{}] = 0
        OBVIOUS
    <2>2. ASSUME NEW T \in SUBSET S, NEW y \in S, y \notin T
          PROVE  h[T \cup {y}] = f[y] + h[T]
        <3>1. h[T \cup {y}] = (IF x \in T \cup {y} THEN f[x] ELSE 0)
              /\ h[T] = (IF x \in T THEN f[x] ELSE 0)
            OBVIOUS
        <3> HIDE DEF h
        <3> QED BY <2>2, <3>1
    <2> HIDE DEF h
    <2> QED BY <2>1, <2>2 DEF Adds
<1>3. h[S] = f[x]
    OBVIOUS
<1> HIDE DEF h
<1> QED BY <1>1, <1>2, <1>3, SumIs

LEMMA SumAtLeast ==
    ASSUME NEW S, IsFiniteSet(S), NEW f \in [S -> Nat], NEW x \in S
    PROVE  f[x] <= SumOf(f, S)
<1> DEFINE k == [y \in S |-> IF y = x THEN f[x] ELSE 0]
<1>1. /\ k \in [S -> Nat] /\ k[x] = f[x]
      /\ \A y \in S : k[y] <= f[y]
      /\ \A y \in S \ {x} : k[y] = 0
    OBVIOUS
<1> HIDE DEF k
<1>2. SumOf(k, S) = k[x] /\ SumOf(k, S) <= SumOf(f, S)
    BY <1>1, SumOfOne, SumGrows
<1> QED BY <1>1, <1>2

LEMMA SumChanged ==
    ASSUME NEW S, IsFiniteSet(S), NEW f \in [S -> Nat], NEW g \in [S -> Nat],
           NEW x \in S, \A y \in S \ {x} : g[y] = f[y]
    PROVE  SumOf(g, S) + f[x] = SumOf(f, S) + g[x]
<1> DEFINE One(n) == [y \in S |-> IF y = x THEN n ELSE 0]
           k == [y \in S |-> IF y = x THEN f[x] + g[x] ELSE f[y]]
<1>1. One(f[x]) \in [S -> Nat] /\ One(g[x]) \in [S -> Nat] /\ k \in [S -> Nat]
    OBVIOUS
<1>2. /\ \A y \in S : k[y] = g[y] + One(f[x])[y] /\ k[y] = f[y] + One(g[x])[y]
      /\ \A y \in S \ {x} : One(f[x])[y] = 0 /\ One(g[x])[y] = 0
      /\ One(f[x])[x] = f[x] /\ One(g[x])[x] = g[x]
    OBVIOUS
<1> HIDE DEF One, k
<1>3. SumOf(k, S) = SumOf(g, S) + SumOf(One(f[x]), S)
      /\ SumOf(k, S) = SumOf(f, S) + SumOf(One(g[x]), S)
    BY <1>1, <1>2, SumTogether
<1>4. SumOf(One(f[x]), S) = f[x] /\ SumOf(One(g[x]), S) = g[x]
    BY <1>1, <1>2, SumOfOne
<1> QED BY <1>3, <1>4

(***************************************************************************)
(* What users are charged for.                                             *)
(***************************************************************************)

(* What of a user's charge is for each experiment, and all of it.          *)
Owing(u)   == [e \in Experiments |-> IF Owner[e] = u THEN Accounted(e) ELSE 0]
AllOwed(u) == SumOf(Owing(u), Experiments)

(* A reservation was made today or earlier, and a row does not forget it,  *)
(* until a job has refunded part of it and is about to say so.             *)
ReservationInv ==
    \A e \in Experiments :
        /\ record[e] # Absent => record[e].usageDay <= day
        /\ disk[e] # Absent => disk[e].usageDay <= day
        /\ e \in kept => \/ \E j \in Jobs : Holding(j, job) /\ job[j].exp = e
                         \/ disk[e].reserved = record[e].reserved
        /\ request[e] = "submitting" => record[e].reserved = Cost(Total)

(* UsageMatchesWork, of all experiments; nothing is charged ahead.         *)
Spoilt(u) == \E e \in crossed \cup torn : Owner[e] = u
Covered(u) ==
    /\ Used(u) >= AllOwed(u)
    /\ restarts = 0 /\ day = 1 => Used(u) = AllOwed(u)
ChargeInv ==
    \A u \in Users :
        /\ \A d \in 1 .. Days : d > day => usage[u][d] = 0
        /\ Spoilt(u) \/ Covered(u)

LEMMA OwedType ==
    ASSUME TypeOK, StoreInv, LockInv
    PROVE  /\ \A e \in Experiments : Accounted(e) \in Nat
           /\ \A u : Owing(u) \in [Experiments -> Nat] /\ AllOwed(u) \in Nat
<1>1. ASSUME NEW e \in Experiments PROVE Accounted(e) \in Nat
    <2>1. record[e] # Absent => record[e].reserved \in Nat /\ Cost(Left(e)) \in Nat
        BY LeftType DEF TypeOK, Records
    <2>2. request[e] = "resuming" => record[e] # Absent /\ e \in kept
        BY DEF LockInv, StoreInv
    <2>3. CASE record[e] = Absent \/ request[e] = "deleting" \/ e \in cancelling \ kept
        BY <2>2, <2>3 DEF Accounted
    <2>4. CASE /\ ~(record[e] = Absent \/ request[e] = "deleting" \/ e \in cancelling \ kept)
               /\ request[e] = "resuming"
        BY <2>1, <2>4 DEF Accounted
    <2>5. CASE /\ ~(record[e] = Absent \/ request[e] = "deleting" \/ e \in cancelling \ kept)
               /\ request[e] # "resuming"
        BY <2>1, <2>5 DEF Accounted
    <2> QED BY <2>3, <2>4, <2>5
<1>2. ASSUME NEW u PROVE Owing(u) \in [Experiments -> Nat]
    BY <1>1 DEF Owing
<1> QED BY <1>1, <1>2, SumType, OwnerAssumption DEF AllOwed

(* ... and in the state after a step.                                      *)
LEMMA OwedTypeNext ==
    ASSUME TypeOK', StoreInv', LockInv'
    PROVE  /\ \A e \in Experiments : Accounted(e)' \in Nat
           /\ \A u : Owing(u)' \in [Experiments -> Nat] /\ AllOwed(u)' \in Nat
<1>1. ASSUME NEW e \in Experiments PROVE Accounted(e)' \in Nat
    <2>1. /\ record'[e] # Absent => record'[e].reserved \in Nat
          /\ record'[e] # Absent => Total - record'[e].checkpoint \in Nat
        BY SizeAssumption DEF TypeOK, Records
    <2>2. record'[e] # Absent => Cost(Total - record'[e].checkpoint) \in Nat
        BY <2>1, CostType
    <2>3. request'[e] = "resuming" => record'[e] # Absent /\ e \in kept'
        BY DEF LockInv, StoreInv
    <2>4. Left(e)' = Total - record'[e].checkpoint
        BY DEF Left
    <2>5. Cost(Left(e))' = Cost(Total - record'[e].checkpoint)
        BY <2>4 DEF Cost
    <2>6. CASE record'[e] = Absent \/ request'[e] = "deleting"
               \/ e \in cancelling' \ kept'
        BY <2>3, <2>6 DEF Accounted
    <2>7. CASE ~(record'[e] = Absent \/ request'[e] = "deleting"
                 \/ e \in cancelling' \ kept')
        BY <2>1, <2>2, <2>5, <2>7 DEF Accounted
    <2> QED BY <2>6, <2>7
<1>2. ASSUME NEW u PROVE Owing(u)' \in [Experiments -> Nat]
    BY <1>1 DEF Owing
<1> QED BY <1>1, <1>2, SumType, OwnerAssumption DEF AllOwed

LEMMA UsedType ==
    ASSUME TypeOK, NEW u \in Users
    PROVE  /\ IsFiniteSet(1 .. Days) /\ usage[u] \in [1 .. Days -> Nat]
           /\ Used(u) \in Nat
<1>1. IsFiniteSet(1 .. Days)
    BY BoundAssumption, FS_Interval
<1>2. usage[u] \in [1 .. Days -> Nat]
    BY DEF TypeOK
<1> QED BY <1>1, <1>2, SumType DEF Used

(* A day's charge changed changes what the user has used by as much.       *)
LEMMA UsedChanges ==
    ASSUME TypeOK, TypeOK', NEW u \in Users, NEW d \in 1 .. Days, NEW n \in Nat,
           usage' = [usage EXCEPT ![u][d] = n]
    PROVE  /\ Used(u)' + usage[u][d] = Used(u) + n
           /\ \A v \in Users \ {u} : usage'[v] = usage[v] /\ Used(v)' = Used(v)
           /\ \A x \in (1 .. Days) \ {d} : usage'[u][x] = usage[u][x]
<1>1. /\ usage' = [usage EXCEPT ![u] = [usage[u] EXCEPT ![d] = n]]
      /\ usage \in [Users -> [1 .. Days -> Nat]]
    BY DEF TypeOK
<1>2. usage'[u] = [usage[u] EXCEPT ![d] = n]
    BY <1>1
<1>3. usage[u] \in [1 .. Days -> Nat] /\ usage'[u] \in [1 .. Days -> Nat]
    BY DEF TypeOK
<1>4. usage'[u][d] = n /\ \A x \in (1 .. Days) \ {d} : usage'[u][x] = usage[u][x]
    BY <1>2, <1>3
<1>5. SumOf(usage'[u], 1 .. Days) + usage[u][d] = SumOf(usage[u], 1 .. Days) + usage'[u][d]
    <2> DEFINE S == 1 .. Days
               f == usage[u]
               g == usage'[u]
    <2>1. /\ IsFiniteSet(S) /\ f \in [S -> Nat] /\ g \in [S -> Nat] /\ d \in S
          /\ \A x \in S \ {d} : g[x] = f[x]
        BY <1>3, <1>4, UsedType
    <2> HIDE DEF S, f, g
    <2>2. SumOf(g, S) + f[d] = SumOf(f, S) + g[d]
        BY <2>1, SumChanged
    <2> QED BY <2>2 DEF S, f, g
<1>6. \A v \in Users \ {u} : usage'[v] = usage[v]
    BY <1>1
<1> QED BY <1>4, <1>5, <1>6 DEF Used

(* ... and so does what is owed for one experiment.                        *)
LEMMA OwedChanges ==
    ASSUME TypeOK, StoreInv, LockInv, TypeOK', StoreInv', LockInv',
           NEW e \in Experiments,
           \A x \in Experiments \ {e} : Accounted(x)' = Accounted(x)
    PROVE  /\ AllOwed(Owner[e])' + Accounted(e) = AllOwed(Owner[e]) + Accounted(e)'
           /\ \A v \in Users \ {Owner[e]} : AllOwed(v)' = AllOwed(v)
<1> DEFINE f(v) == Owing(v)
           g(v) == Owing(v)'
<1>1. \A v \in Users : f(v) \in [Experiments -> Nat] /\ g(v) \in [Experiments -> Nat]
    BY OwedType, OwedTypeNext
<1>2. /\ f(Owner[e])[e] = Accounted(e) /\ g(Owner[e])[e] = Accounted(e)'
      /\ \A x \in Experiments \ {e} : g(Owner[e])[x] = f(Owner[e])[x]
    BY DEF Owing
<1>3. \A v \in Users \ {Owner[e]} : f(v) = g(v)
    BY DEF Owing
<1>4. \A v : AllOwed(v) = SumOf(f(v), Experiments) /\ AllOwed(v)' = SumOf(g(v), Experiments)
    BY DEF AllOwed
<1> HIDE DEF f, g
<1>5. SumOf(g(Owner[e]), Experiments) + f(Owner[e])[e]
      = SumOf(f(Owner[e]), Experiments) + g(Owner[e])[e]
    <2>1. Owner[e] \in Users /\ IsFiniteSet(Experiments)
        BY OwnerAssumption
    <2> QED BY <1>1, <1>2, <2>1, SumChanged
<1> QED BY <1>2, <1>3, <1>4, <1>5

(* On the first day all of a user's charge is today's, and covers what is  *)
(* owed for each experiment: no refund is floored.                         *)
LEMMA ChargedToday ==
    ASSUME TypeOK, StoreInv, LockInv, ChargeInv, day = 1, NEW e \in Experiments,
           Covered(Owner[e])
    PROVE  usage[Owner[e]][1] >= Accounted(e)
<1> DEFINE u == Owner[e]
<1>1. u \in Users /\ IsFiniteSet(Experiments) /\ 1 \in 1 .. Days
    BY OwnerAssumption, BoundAssumption
<1>2. usage[u] \in [1 .. Days -> Nat] /\ IsFiniteSet(1 .. Days)
    BY <1>1, UsedType
<1>3. \A d \in (1 .. Days) \ {1} : usage[u][d] = 0
    BY <1>1 DEF ChargeInv
<1>4. Used(u) = usage[u][1]
    BY <1>1, <1>2, <1>3, SumOfOne DEF Used
<1>5. Owing(u) \in [Experiments -> Nat] /\ Owing(u)[e] = Accounted(e)
    BY OwedType DEF Owing
<1>6. Accounted(e) <= AllOwed(u)
    BY <1>1, <1>5, SumAtLeast DEF AllOwed
<1>7. /\ Used(u) >= AllOwed(u) /\ Used(u) \in Nat /\ AllOwed(u) \in Nat
      /\ Accounted(e) \in Nat
    BY <1>1, OwedType, UsedType DEF Covered
<1> HIDE DEF u
<1> QED BY <1>4, <1>6, <1>7 DEF u

(* What is owed for one experiment and what is charged move together.      *)
LEMMA Balance ==
    ASSUME TypeOK, StoreInv, LockInv, TypeOK', StoreInv', LockInv', ChargeInv,
           NEW e \in Experiments, NEW d \in 1 .. Days, NEW n \in Nat, d <= day,
           usage' = [usage EXCEPT ![Owner[e]][d] = n],
           UNCHANGED <<day, restarts>>, crossed \subseteq crossed', torn' = torn,
           \A x \in Experiments \ {e} : Accounted(x)' = Accounted(x),
           Covered(Owner[e]) =>
              /\ n + Accounted(e) >= usage[Owner[e]][d] + Accounted(e)'
              /\ restarts = 0 /\ day = 1 =>
                    n + Accounted(e) = usage[Owner[e]][d] + Accounted(e)'
    PROVE  ChargeInv'
<1> DEFINE u == Owner[e]
           was == usage[u][d]
           before == Accounted(e)
           after  == Accounted(e)'
<1>1. u \in Users /\ day \in Int
    BY OwnerAssumption DEF TypeOK
<1>2. /\ Used(u)' + was = Used(u) + n
      /\ \A v \in Users \ {u} : usage'[v] = usage[v] /\ Used(v)' = Used(v)
      /\ \A x \in (1 .. Days) \ {d} : usage'[u][x] = usage[u][x]
    BY <1>1, UsedChanges
<1>3. /\ AllOwed(u)' + before = AllOwed(u) + after
      /\ \A v \in Users \ {u} : AllOwed(v)' = AllOwed(v)
    BY OwedChanges
<1>4. was \in Nat /\ before \in Nat /\ Used(u) \in Nat /\ AllOwed(u) \in Nat
    BY <1>1, UsedType, OwedType DEF TypeOK
<1>5. after \in Nat /\ Used(u)' \in Int /\ AllOwed(u)' \in Int
    <2>1. usage'[u] \in [1 .. Days -> Nat]
        BY <1>1 DEF TypeOK
    <2>2. SumOf(usage'[u], 1 .. Days) \in Nat
        BY <1>1, <2>1, SumType, UsedType
    <2> QED BY <2>2, OwedTypeNext DEF Used
<1>6. Covered(u) => /\ n + before >= was + after
                    /\ restarts = 0 /\ day = 1 => n + before = was + after
    OBVIOUS
<1> HIDE DEF was, before, after
<1>7. \A v \in Users : Spoilt(v) => Spoilt(v)'
    BY DEF Spoilt
<1>8. Covered(u) => Covered(u)'
    <2> HIDE DEF u
    <2> SUFFICES ASSUME Covered(u) PROVE Covered(u)'
        OBVIOUS
    <2>1. Used(u) >= AllOwed(u) /\ (restarts = 0 /\ day = 1 => Used(u) = AllOwed(u))
        BY DEF Covered
    <2>2. Used(u)' >= AllOwed(u)' /\ (restarts = 0 /\ day = 1 => Used(u)' = AllOwed(u)')
        BY <1>2, <1>3, <1>4, <1>5, <1>6, <2>1
    <2> QED BY <2>2 DEF Covered
<1>9. \A x \in 1 .. Days : x > day => usage'[u][x] = 0
    <2> SUFFICES ASSUME NEW x \in 1 .. Days, x > day PROVE usage'[u][x] = 0
        OBVIOUS
    <2>1. x # d
        BY <1>1
    <2> QED BY <1>1, <1>2, <2>1 DEF ChargeInv
<1>10. \A v \in Users \ {u} :
          /\ \A x \in 1 .. Days : x > day => usage'[v][x] = 0
          /\ Covered(v) => Covered(v)'
    BY <1>2, <1>3 DEF ChargeInv, Covered
<1> HIDE DEF u
<1> QED BY <1>1, <1>7, <1>8, <1>9, <1>10 DEF ChargeInv

(* A reservation for what is owed from now on.                             *)
LEMMA ReserveBalance ==
    ASSUME TypeOK, StoreInv, LockInv, TypeOK', StoreInv', LockInv', ChargeInv,
           NEW e \in Experiments, NEW s \in Nat, Reserve(Owner[e], s),
           UNCHANGED <<day, restarts>>, crossed \subseteq crossed', torn' = torn,
           \A x \in Experiments \ {e} : Accounted(x)' = Accounted(x),
           Accounted(e)' = Accounted(e) + s
    PROVE  ChargeInv'
<1>1. /\ Owner[e] \in Users /\ day \in 1 .. Days /\ Accounted(e) \in Nat
      /\ usage \in [Users -> [1 .. Days -> Nat]] /\ day <= day
    BY OwnerAssumption, OwedType DEF TypeOK
<1>2. usage[Owner[e]][day] \in Nat
    BY <1>1
<1> DEFINE n == usage[Owner[e]][day] + s
<1>3. n \in Nat /\ n + Accounted(e) = usage[Owner[e]][day] + Accounted(e)'
      /\ n + Accounted(e) >= usage[Owner[e]][day] + Accounted(e)'
    BY <1>1, <1>2
<1>4. usage' = [usage EXCEPT ![Owner[e]][day] = n]
    BY DEF Reserve
<1> HIDE DEF n
<1> QED BY <1>1, <1>3, <1>4, Balance

(* A refund of what is owed no more.                                       *)
LEMMA ReleaseBalance ==
    ASSUME TypeOK, StoreInv, LockInv, TypeOK', StoreInv', LockInv', ChargeInv,
           NEW e \in Experiments, NEW s \in Nat, NEW d \in 1 .. Days, d <= day,
           Release(Owner[e], s, d),
           UNCHANGED <<day, restarts>>, crossed \subseteq crossed', torn' = torn,
           \A x \in Experiments \ {e} : Accounted(x)' = Accounted(x),
           s <= Accounted(e), Accounted(e)' = Accounted(e) - s
    PROVE  ChargeInv'
<1> DEFINE was == usage[Owner[e]][d]
           n   == IF was >= s THEN was - s ELSE 0
<1>1. /\ Owner[e] \in Users /\ day \in 1 .. Days /\ Accounted(e) \in Nat
      /\ usage \in [Users -> [1 .. Days -> Nat]]
    BY OwnerAssumption, OwedType DEF TypeOK
<1>2. was \in Nat
    BY <1>1
<1>3. usage' = [usage EXCEPT ![Owner[e]][d] = n]
    BY DEF Release
<1>4. Covered(Owner[e]) /\ day = 1 => d = 1 /\ was >= Accounted(e)
    BY <1>1, ChargedToday
<1> HIDE DEF was
<1>5. /\ n \in Nat
      /\ Covered(Owner[e]) =>
            /\ n + Accounted(e) >= was + Accounted(e)'
            /\ restarts = 0 /\ day = 1 => n + Accounted(e) = was + Accounted(e)'
    BY <1>1, <1>2, <1>4
<1> HIDE DEF n
<1> QED BY <1>3, <1>5, Balance DEF was

(* A step that changes neither, or after which the user is let off.        *)
LEMMA NoBalance ==
    ASSUME TypeOK, ChargeInv, UNCHANGED <<day, usage, restarts>>,
           crossed \subseteq crossed', torn \subseteq torn',
           \A u \in Users : \/ Spoilt(u)'
                           \/ \A x \in Experiments : Owner[x] = u =>
                                    Accounted(x)' = Accounted(x)
    PROVE  ChargeInv'
<1>1. ASSUME NEW u \in Users, ~Spoilt(u)' PROVE AllOwed(u)' = AllOwed(u)
    <2>1. Owing(u)' = Owing(u)
        BY <1>1 DEF Owing
    <2> QED BY <2>1 DEF AllOwed
<1>2. \A u \in Users : Used(u)' = Used(u) /\ (Spoilt(u) => Spoilt(u)')
    BY DEF Used, Spoilt
<1> QED BY <1>1, <1>2 DEF ChargeInv, Covered

(* Part of a reservation is at most all of it.                             *)
LEMMA ShareBound ==
    ASSUME NEW r \in Nat, NEW done \in 0 .. Total
    PROVE  (r * done) \div Total <= r
<1> DEFINE p == r * done
<1>1. p \in Nat /\ Total \in Nat \ {0}
    BY SizeAssumption
<1>2. p <= r * Total
    <2>1. r * (Total - done) \in Nat /\ r * (Total - done) = r * Total - r * done
        BY SizeAssumption
    <2>2. r * Total \in Int
        BY SizeAssumption
    <2> QED BY <1>1, <2>1, <2>2
<1> HIDE DEF p
<1>3. p \div Total \in Int /\ Total * (p \div Total) <= p
    BY <1>1
<1> DEFINE q == p \div Total
<1>4. SUFFICES ASSUME q > r PROVE FALSE
    BY <1>1, <1>3 DEF p
<1> HIDE DEF q
<1>5. q \in Int /\ Total * q <= p
    BY <1>3 DEF q
<1>6. Total * (q - r - 1) >= 0 /\ Total * (q - r - 1) = Total * q - Total * r - Total
    BY <1>1, <1>4, <1>5
<1>7. Total * q \in Int /\ Total * r \in Int /\ Total * r = r * Total
    BY <1>1, <1>5
<1> QED BY <1>1, <1>2, <1>5, <1>6, <1>7

(* A record stored or changed keeps its reservation, or has a good one, or *)
(* is that of a job which is still to store it.                            *)
LEMMA PutReserves ==
    ASSUME TypeOK, ReservationInv, NEW e \in Experiments, NEW r \in Records,
           \/ Put(e, r)
           \/ /\ Change(e, r) /\ UNCHANGED <<kept, disk>>
              /\ \/ r.reserved = record[e].reserved
                 \/ \E j \in Jobs : Holding(j, job') /\ job'[j].exp = e,
           r.usageDay <= day, day' = day,
           \A j \in Jobs : Holding(j, job) =>
              \/ Put(e, r) /\ job[j].exp = e
              \/ Holding(j, job') /\ job'[j].exp = job[j].exp,
           \A x \in Experiments : request'[x] = "submitting" =>
              IF x = e THEN r.reserved = Cost(Total) ELSE request[x] = "submitting"
    PROVE  ReservationInv'
<1> DEFINE Owes(x) == \E j \in Jobs : Holding(j, job') /\ job'[j].exp = x
<1> SUFFICES ASSUME NEW x \in Experiments
             PROVE  /\ record'[x] # Absent => record'[x].usageDay <= day'
                    /\ disk'[x] # Absent => disk'[x].usageDay <= day'
                    /\ x \in kept' => Owes(x) \/ disk'[x].reserved = record'[x].reserved
                    /\ request'[x] = "submitting" => record'[x].reserved = Cost(Total)
    BY DEF ReservationInv
<1>1. record'[e] = r /\ \A y \in Experiments \ {e} : record'[y] = record[y]
    BY DEF Put, Change, TypeOK
<1>2. ASSUME NEW j \in Jobs, Holding(j, job), job[j].exp = x, x # e \/ ~Put(e, r)
      PROVE  Owes(x)
    BY <1>2
<1> HIDE DEF Owes
<1>3. CASE x # e
    <2>1. disk'[x] = disk[x] /\ (x \in kept' <=> x \in kept)
        BY <1>3 DEF Put, TypeOK
    <2> QED BY <1>1, <1>2, <1>3, <2>1 DEF ReservationInv
<1>4. CASE x = e /\ Put(e, r)
    <2>1. disk'[e] = Row(r)
        BY <1>4 DEF Put, TypeOK
    <2>2. disk'[e].reserved = r.reserved /\ disk'[e].usageDay = r.usageDay
        BY <2>1 DEF Row, Records
    <2> QED BY <1>1, <1>4, <2>2
<1>5. CASE x = e /\ ~Put(e, r)
    <2>1. UNCHANGED <<kept, disk>> /\ (r.reserved = record[e].reserved \/ Owes(e))
        BY <1>5 DEF Owes
    <2> QED BY <1>1, <1>2, <1>5, <2>1 DEF ReservationInv
<1> QED BY <1>3, <1>4, <1>5

(* A step that stores nothing, but may remove.                             *)
LEMMA SameReserves ==
    ASSUME ReservationInv, day' = day,
           \A j \in Jobs : Holding(j, job) =>
              Holding(j, job') /\ job'[j].exp = job[j].exp,
           \A x \in Experiments :
              /\ \/ record'[x] = record[x]
                 \/ record'[x] = Absent /\ x \notin kept' /\ request'[x] # "submitting"
              /\ \/ disk'[x] = disk[x]
                 \/ disk'[x] = Absent /\ x \notin kept'
              /\ x \in kept' => x \in kept
              /\ request'[x] = "submitting" => request[x] = "submitting"
    PROVE  ReservationInv'
BY DEF ReservationInv

(* What is owed for an experiment that a step does not concern.            *)
LEMMA OwedFrame ==
    ASSUME TypeOK, NEW e \in Experiments,
           \A x \in Experiments \ {e} :
              /\ record'[x] = record[x] /\ request'[x] = request[x]
              /\ x \in kept' <=> x \in kept
              /\ x \in cancelling' <=> x \in cancelling
    PROVE  \A x \in Experiments \ {e} : Accounted(x)' = Accounted(x)
BY DEF Accounted, Left

(* A settled cancellation refunds what it takes off the reservation.       *)
LEMMA SettleUsage ==
    ASSUME TypeOK, StoreInv, LockInv, JobInv, TypeOK', StoreInv', LockInv',
           ReservationInv, ChargeInv,
           NEW j \in Jobs, JobStep(j), StateLockFree,
           NEW done \in 0 .. Total, SettleCancelled(Exp(j), done),
           JobGoes(j, "dropping") \/ JobGoes(j, "settling")
    PROVE  ReservationInv' /\ ChargeInv'
<1> PICK e \in Experiments : e = Exp(j)
    BY JobWrites
<1>0. /\ ~Idle(j) /\ job[j].exp = e /\ record[e] # Absent
      /\ \A k \in Jobs \ {j} : job'[k] = job[k]
      /\ \A x \in Experiments \ {e} :
            record'[x] = record[x] /\ (x \in kept' <=> x \in kept)
      /\ UNCHANGED <<day, request, cancelling, restarts, crossed, torn>>
    BY JobWrites, JobFrame, AbsentAssumption
<1> DEFINE r == record[e]
           paid == (r.reserved * done) \div Total
           new == [r EXCEPT !.reserved = paid, !.checkpoint = done,
                            !.status = "cancelled"]
<1>1. r \in Records /\ r.reserved \in Nat /\ r.usageDay \in 1 .. Days /\ r.usageDay <= day
    BY <1>0 DEF TypeOK, Records, ReservationInv
<1>2. paid \in Nat /\ paid <= r.reserved
    <2>1. done \in Nat
        BY SizeAssumption
    <2> QED BY <1>1, <2>1, ShareType, ShareBound
<1>3. /\ Release(Owner[e], r.reserved - paid, r.usageDay)
      /\ Change(e, new) /\ UNCHANGED <<kept, disk>>
    BY DEF SettleCancelled
<1> HIDE DEF paid
<1>4. new \in Records /\ new.reserved = paid /\ new.usageDay = r.usageDay
    BY <1>1, <1>2 DEF Records, Statuses
<1> HIDE DEF new
<1>5. record'[e] = new /\ new # Absent
    BY <1>3, <1>4, AbsentAssumption DEF Change, TypeOK
<1>6. Holding(j, job') /\ job'[j].exp = e
    BY <1>0, JobsType DEF Holding
<1>7. ReservationInv'
    <2>1. \A x \in Experiments : request'[x] = "submitting" =>
             x # e /\ request[x] = "submitting"
        BY <1>0 DEF JobInv, Idle
    <2>2. \A k \in Jobs : Holding(k, job) => Holding(k, job') /\ job'[k].exp = job[k].exp
        BY <1>0, <1>6, LockFree DEF Holding
    <2> QED BY <1>0, <1>1, <1>3, <1>4, <1>6, <2>1, <2>2, PutReserves
<1>8. Accounted(e) = r.reserved /\ Accounted(e)' = paid
    <2>1. /\ request[e] \notin {"deleting", "resuming"} /\ request' = request
          /\ cancelling = {} /\ cancelling' = {}
        BY <1>0 DEF JobInv, Idle, StateLockFree
    <2> QED BY <1>0, <1>4, <1>5, <2>1 DEF Accounted
<1>9. \A x \in Experiments \ {e} : Accounted(x)' = Accounted(x)
    BY <1>0, OwedFrame
<1> DEFINE s == r.reserved - paid
<1>10. s \in Nat /\ s <= Accounted(e) /\ Accounted(e)' = Accounted(e) - s
    BY <1>1, <1>2, <1>8
<1>11. Release(Owner[e], s, r.usageDay) /\ r.usageDay \in 1 .. Days /\ r.usageDay <= day
    BY <1>1, <1>3
<1> HIDE DEF r, s
<1>12. ChargeInv'
    BY <1>0, <1>9, <1>10, <1>11, ReleaseBalance
<1> QED BY <1>7, <1>12

(* Jobs charge nothing, and refund what they take off a reservation.       *)
LEMMA UsageJob ==
    ASSUME TypeOK, StoreInv, LockInv, JobInv, TypeOK', StoreInv', LockInv',
           ReservationInv, ChargeInv, NEW j \in Jobs, JobStep(j)
    PROVE  ReservationInv' /\ ChargeInv'
<1> PICK e \in Experiments : e = Exp(j)
    BY JobWrites
<1>0. /\ ~Idle(j) /\ job[j] \in JobRecords /\ job[j].exp = e
      /\ record[e] # Absent /\ record'[e] # Absent /\ Rec(j) = record[e]
      /\ record[e] \in Records
      /\ \A k \in Jobs \ {j} : job'[k] = job[k]
      /\ \A x \in Experiments \ {e} :
            record'[x] = record[x] /\ (x \in kept' <=> x \in kept)
      /\ UNCHANGED <<day, request, cancelling, restarts, crossed, torn>>
    BY JobWrites, JobFrame
<1>1. CASE \E done \in 0 .. Total :
              /\ SettleCancelled(e, done) /\ StateLockFree
              /\ JobGoes(j, "dropping") \/ JobGoes(j, "settling")
    BY <1>1, SettleUsage
<1>2. ASSUME UNCHANGED usage, StateLockFree \/ Settle(j), NEW r \in Records,
             r.reserved = record[e].reserved, r.usageDay = record[e].usageDay,
             \/ Put(e, r)
             \/ Change(e, r) /\ UNCHANGED <<kept, disk>> /\ StateLockFree
      PROVE  ReservationInv' /\ ChargeInv'
    <2>1. /\ request[e] \notin {"submitting", "deleting"} /\ request[e] # "resuming"
          /\ cancelling = {} /\ request' = request /\ cancelling' = cancelling
        <3>1. request[e] \in {"known", "resuming"}
            BY <1>0 DEF JobInv, Idle
        <3>2. request[e] # "resuming" /\ cancelling = {}
            BY <1>2, LockFree DEF StateLockFree, Settle, LockInv
        <3> QED BY <1>0, <3>1, <3>2
    <2>2. record'[e] = r /\ r.usageDay <= day
        BY <1>0, <1>2 DEF Put, Change, TypeOK, ReservationInv
    <2>3. ASSUME NEW k \in Jobs, Holding(k, job)
          PROVE  \/ Put(e, r) /\ job[k].exp = e
                 \/ Holding(k, job') /\ job'[k].exp = job[k].exp
        <3>1. CASE k = j
            BY <1>0, <1>2, <2>3, <3>1, LockFree DEF StateLockFree
        <3>2. CASE k # j
            BY <1>0, <2>3, <3>2 DEF Holding
        <3> QED BY <3>1, <3>2
    <2>4. ReservationInv'
        BY <1>0, <1>2, <2>1, <2>2, <2>3, PutReserves
    <2>5. Accounted(e)' = Accounted(e)
        BY <1>0, <1>2, <2>1, <2>2 DEF Accounted
    <2>6. \A x \in Experiments : Accounted(x)' = Accounted(x)
        BY <1>0, <2>5, OwedFrame
    <2> QED BY <1>0, <1>2, <2>4, <2>6, NoBalance
<1>3. CASE Runs(j) \/ Returns(j) \/ Stores(j)
    <2>1. PICK r \in Records :
              /\ r.reserved = record[e].reserved /\ r.usageDay = record[e].usageDay
              /\ \/ Put(e, r)
                 \/ Change(e, r) /\ UNCHANGED <<kept, disk>> /\ StateLockFree
        BY <1>0, <1>3 DEF Runs, Returns, Stores
    <2>2. UNCHANGED usage /\ (StateLockFree \/ Settle(j))
        BY <1>3 DEF Runs, Returns, Stores
    <2> QED BY <1>2, <2>1, <2>2
<1>4. CASE Stops(j)
    <2>1. CASE SettleCancelled(e, job[j].from) /\ JobGoes(j, "dropping")
        BY <1>0, <1>1, <1>4, <2>1 DEF Stops, JobRecords
    <2>2. CASE \E done \in job[j].from .. Total :
                  SettleCancelled(e, done) /\ JobGoes(j, "settling")
        <3>1. job[j].from .. Total \subseteq 0 .. Total
            BY <1>0, SizeAssumption DEF JobRecords
        <3> QED BY <1>1, <1>4, <2>2, <3>1 DEF Stops
    <2>3. /\ ~JobGoes(j, "working") /\ ~JobGoes(j, "finally")
        BY <1>0, <1>4, JobsType DEF Stops
    <2> QED BY <1>4, <2>1, <2>2, <2>3 DEF Stops, Begin, Finish
<1>5. CASE EndJob(j)
    <2>1. UNCHANGED <<usage, record, kept, disk>> /\ ~Holding(j, job)
        BY <1>5 DEF EndJob, At, Holding
    <2>2. \A k \in Jobs : Holding(k, job) => Holding(k, job') /\ job'[k].exp = job[k].exp
        BY <1>0, <2>1 DEF Holding
    <2>3. ReservationInv'
        BY <1>0, <2>1, <2>2, SameReserves
    <2>4. \A x \in Experiments : Accounted(x)' = Accounted(x)
        BY <1>0, <2>1 DEF Accounted, Left
    <2> QED BY <1>0, <2>1, <2>3, <2>4, NoBalance
<1> QED BY <1>3, <1>4, <1>5, JobWrites

(* Requests charge for what they add to a reservation, and refund what was *)
(* never started, unless a cancel() puts that back.                        *)
LEMMA UsageRequest ==
    ASSUME TypeOK, StoreInv, LockInv, JobInv, RequestInv,
           TypeOK', StoreInv', LockInv',
           ReservationInv, ChargeInv, NEW e \in Experiments, RequestStep(e)
    PROVE  ReservationInv' /\ ChargeInv'
<1>1. /\ \A x \in Experiments \ {e} :
            /\ record'[x] = record[x] /\ request'[x] = request[x]
            /\ disk'[x] = disk[x] /\ (x \in kept' <=> x \in kept)
            /\ (x \in cancelling' <=> x \in cancelling)
      /\ UNCHANGED <<day, restarts, torn>> /\ crossed \subseteq crossed'
      /\ \A x \in Experiments \ {e} : Accounted(x)' = Accounted(x)
    BY RequestFrame, OwedFrame
<1>2. \A k \in Jobs : Holding(k, job) => Holding(k, job') /\ job'[k].exp = job[k].exp
    <2>1. ASSUME SameJobs, NEW k \in Jobs, Holding(k, job)
          PROVE  Holding(k, job') /\ job'[k].exp = job[k].exp
        BY <2>1 DEF SameJobs, Holding
    <2>2. ASSUME NEW i \in Jobs, Starts(e, i), NEW k \in Jobs, Holding(k, job)
          PROVE  Holding(k, job') /\ job'[k].exp = job[k].exp
        BY <2>2 DEF Starts, Holding
    <2> QED BY <2>1, <2>2, RequestJobs
<1>3. Owner[e] \in Users /\ day \in 1 .. Days /\ day <= day /\ Accounted(e) \in Nat
    BY OwnerAssumption, OwedType DEF TypeOK
<1>4. ASSUME UNCHANGED usage, Accounted(e)' = Accounted(e) PROVE ChargeInv'
    BY <1>1, <1>4, NoBalance
<1>5. CASE Submit(e)
    <2>1. PICK r \in Records : /\ Put(e, r) /\ r.reserved = Cost(Total)
                               /\ r.usageDay = day
        BY <1>5, RequestWrites
    <2>2. /\ record'[e] = r /\ e \in kept' /\ r # Absent /\ record[e] = Absent
          /\ request'[e] = "submitting" /\ Reserve(Owner[e], Cost(Total))
        BY <1>5, <2>1, AbsentAssumption
        DEF Submit, Put, Change, GoOn, StoreInv, TypeOK
    <2>3. ReservationInv'
        BY <1>1, <1>2, <1>3, <2>1, PutReserves
    <2>4. Cost(Total) \in Nat
        BY SizeAssumption, CostType
    <2>5. Accounted(e) = 0 /\ Accounted(e)' = Cost(Total)
        <3>1. request[e] = "new"
            BY <1>5 DEF Submit
        <3> QED BY <2>1, <2>2, <3>1 DEF Accounted
    <2>6. Accounted(e)' = Accounted(e) + Cost(Total)
        BY <2>4, <2>5
    <2> QED BY <1>1, <2>2, <2>3, <2>4, <2>6, ReserveBalance
<1>6. CASE Cancel(e)
    <2>1. PICK r \in Records :
              /\ Change(e, r) /\ record[e] \in Records /\ e \in kept
              /\ r.reserved = record[e].reserved /\ r.usageDay = record[e].usageDay
        BY <1>6, RequestWrites
    <2>2. /\ record'[e] = r /\ r # Absent /\ record[e] # Absent
          /\ UNCHANGED <<kept, disk, usage, request>> /\ request[e] # "resuming"
          /\ record[e].usageDay <= day
        BY <1>6, <2>1, AbsentAssumption
        DEF Cancel, Change, StateLockFree, TypeOK, ReservationInv
    <2>3. ReservationInv'
        <3>1. request[e] = "submitting" => r.reserved = Cost(Total)
            BY <2>1 DEF ReservationInv
        <3> QED BY <1>1, <1>2, <2>1, <2>2, <3>1, PutReserves
    <2>4. Accounted(e)' = Accounted(e)
        BY <2>1, <2>2 DEF Accounted
    <2> QED BY <1>4, <2>2, <2>3, <2>4
<1>7. CASE CancelPut(e)
    <2>1. /\ record[e] \in Records /\ record[e] # Absent /\ Put(e, record[e])
          /\ UNCHANGED <<usage, request>> /\ cancelling' = {}
          /\ request[e] # "resuming" /\ record[e].usageDay <= day
        BY <1>7, RequestWrites DEF CancelPut, LockInv, ReservationInv
    <2>2. record'[e] = record[e] /\ e \in kept'
        BY <2>1 DEF Put, Change, TypeOK
    <2>3. ReservationInv'
        <3>1. request[e] = "submitting" => record[e].reserved = Cost(Total)
            BY DEF ReservationInv
        <3> QED BY <1>1, <1>2, <2>1, <3>1, PutReserves
    <2>4. CASE e \in kept
        <3>1. Accounted(e)' = Accounted(e)
            BY <2>1, <2>2, <2>4 DEF Accounted
        <3> QED BY <1>4, <2>1, <2>3, <3>1
    <2>5. CASE e \notin kept
        <3>1. e \in crossed'
            BY <1>7, <2>5 DEF CancelPut
        <3>2. Spoilt(Owner[e])'
            BY <3>1 DEF Spoilt
        <3>3. \A u \in Users \ {Owner[e]}, x \in Experiments :
                  Owner[x] = u => Accounted(x)' = Accounted(x)
            BY <1>1
        <3>4. ChargeInv'
            BY <1>1, <2>1, <3>2, <3>3, NoBalance
        <3> QED BY <2>3, <3>4
    <2> QED BY <2>4, <2>5
<1>8. CASE Resume(e)
    <2>1. /\ UNCHANGED <<record, kept, disk>> /\ Reserve(Owner[e], Cost(Left(e)))
          /\ e \in kept /\ record[e] # Absent /\ record[e].reserved \in Nat
          /\ request'[e] = "resuming" /\ cancelling' = {} /\ cancelling = {}
        BY <1>8 DEF Resume, StateLockFree, GoOn, StoreInv, TypeOK, Records
    <2>2. request[e] = "known"
        BY <1>8 DEF Resume, StateLockFree, RequestInv, Active, StoreInv, TypeOK, Going
    <2>3. Cost(Left(e)) \in Nat
        BY <2>1, LeftType
    <2>4. ReservationInv'
        BY <1>1, <1>2, <2>1, SameReserves
    <2>5. Accounted(e)' = Accounted(e) + Cost(Left(e))
        BY <2>1, <2>2, <2>3 DEF Accounted, Left
    <2> QED BY <1>1, <2>1, <2>3, <2>4, <2>5, ReserveBalance
<1>9. CASE Delete(e)
    <2>1. UNCHANGED <<record, request, usage, cancelling>> /\ Remove(e) /\ cancelling = {}
          /\ request[e] # "resuming"
        BY <1>9 DEF Delete, StateLockFree
    <2>2. e \notin kept' /\ disk'[e] = Absent
        BY <2>1 DEF Remove, TypeOK
    <2>3. ReservationInv'
        BY <1>1, <1>2, <2>1, <2>2, SameReserves
    <2>4. Accounted(e)' = Accounted(e)
        BY <2>1 DEF Accounted
    <2> QED BY <1>4, <2>1, <2>3, <2>4
<1>10. CASE SubmitStart(e)
    <2>1. /\ UNCHANGED <<record, kept, disk, usage, cancelling>>
          /\ request[e] = "submitting" /\ request'[e] = "known"
        BY <1>10 DEF SubmitStart, GoOn, TypeOK
    <2>2. ReservationInv'
        BY <1>1, <1>2, <2>1, SameReserves
    <2>3. Accounted(e)' = Accounted(e)
        BY <2>1 DEF Accounted
    <2> QED BY <1>4, <2>1, <2>2, <2>3
<1>11. CASE SubmitRefused(e)
    <2>1. /\ Release(Owner[e], Cost(Total), record[e].usageDay)
          /\ UNCHANGED <<record, kept, disk, cancelling>>
          /\ request[e] = "submitting" /\ request'[e] = "deleting"
        BY <1>11 DEF SubmitRefused, GoOn, TypeOK
    <2>2. /\ record[e] # Absent /\ e \in kept
          /\ record[e].usageDay \in 1 .. Days /\ record[e].usageDay <= day
          /\ record[e].reserved = Cost(Total)
        BY <2>1 DEF RequestInv, Active, StoreInv, TypeOK, Records, ReservationInv
    <2>3. Cost(Total) \in Nat
        BY SizeAssumption, CostType
    <2>4. ReservationInv'
        BY <1>1, <1>2, <2>1, SameReserves
    <2>5. Accounted(e) = Cost(Total) /\ Accounted(e)' = 0
        BY <2>1, <2>2 DEF Accounted
    <2>6. Cost(Total) <= Accounted(e) /\ Accounted(e)' = Accounted(e) - Cost(Total)
        BY <2>3, <2>5
    <2> QED BY <1>1, <2>1, <2>2, <2>3, <2>4, <2>6, ReleaseBalance
<1>12. CASE RollBack(e)
    <2>1. /\ Remove(e) /\ UNCHANGED <<usage, cancelling>>
          /\ request[e] = "deleting" /\ request'[e] = "known"
          /\ Change(e, IF e \in cancelling THEN record[e] ELSE Absent)
        BY <1>12 DEF RollBack, GoOn, TypeOK
    <2>2. /\ e \notin kept' /\ disk'[e] = Absent
          /\ record'[e] = IF e \in cancelling THEN record[e] ELSE Absent
        BY <2>1 DEF Remove, Change, TypeOK
    <2>3. ReservationInv'
        BY <1>1, <1>2, <2>1, <2>2, SameReserves
    <2>4. Accounted(e) = 0 /\ Accounted(e)' = 0
        BY <2>1, <2>2 DEF Accounted
    <2> QED BY <1>4, <2>1, <2>3, <2>4
<1>13. CASE ResumeStart(e)
    <2>1. PICK r \in Records :
              /\ Put(e, r) /\ record[e] \in Records /\ record[e] # Absent
              /\ r.reserved = record[e].reserved + Cost(Left(e)) /\ r.usageDay = day
        BY <1>13, RequestWrites
    <2>2. /\ UNCHANGED <<usage, cancelling>> /\ cancelling = {} /\ e \in kept
          /\ request[e] = "resuming" /\ request'[e] = "known"
        BY <1>13 DEF ResumeStart, GoOn, TypeOK, LockInv
    <2>3. record'[e] = r /\ r # Absent
        BY <2>1, AbsentAssumption DEF Put, Change, TypeOK
    <2>4. ReservationInv'
        BY <1>1, <1>2, <1>3, <2>1, <2>2, PutReserves
    <2>5. Accounted(e)' = Accounted(e)
        BY <2>1, <2>2, <2>3 DEF Accounted
    <2> QED BY <1>4, <2>2, <2>4, <2>5
<1>14. CASE ResumeRefused(e)
    <2>1. /\ UNCHANGED <<record, kept, disk, cancelling>>
          /\ Release(Owner[e], Cost(Left(e)), day)
          /\ request[e] = "resuming" /\ request'[e] = "known"
        BY <1>14 DEF ResumeRefused, GoOn, TypeOK
    <2>2. /\ record[e] # Absent /\ record[e].reserved \in Nat
          /\ cancelling = {} /\ e \in kept
        BY <2>1 DEF LockInv, StoreInv, TypeOK, Records
    <2>3. Cost(Left(e)) \in Nat
        BY <2>2, LeftType
    <2>4. ReservationInv'
        BY <1>1, <1>2, <2>1, SameReserves
    <2>5. /\ Accounted(e) = record[e].reserved + Cost(Left(e))
          /\ Accounted(e)' = record[e].reserved
        BY <2>1, <2>2 DEF Accounted
    <2>6. Cost(Left(e)) <= Accounted(e) /\ Accounted(e)' = Accounted(e) - Cost(Left(e))
        BY <2>2, <2>3, <2>5
    <2> QED BY <1>1, <1>3, <2>1, <2>3, <2>4, <2>6, ReleaseBalance
<1> QED BY <1>5, <1>6, <1>7, <1>8, <1>9, <1>10, <1>11, <1>12, <1>13, <1>14
        DEF RequestStep, RequestGoesOn

(* Midnight changes no charge; a restart forgets reservations under way,   *)
(* and rows that say too much are those of the users it lets off.          *)
LEMMA UsageWorld ==
    ASSUME TypeOK, StoreInv, LockInv, TypeOK', StoreInv', LockInv',
           ReservationInv, ChargeInv, NextDay \/ Restart
    PROVE  ReservationInv' /\ ChargeInv'
<1>1. day \in Int /\ \A u : UNCHANGED usage => Used(u)' = Used(u)
    BY DEF TypeOK, Used
<1>2. CASE NextDay
    <2>1. /\ day' = day + 1
          /\ UNCHANGED <<usage, record, kept, disk, request, cancelling, job, restarts,
                         crossed, torn>>
        BY <1>2 DEF NextDay, history
    <2>2. \A u : AllOwed(u)' = AllOwed(u)
        BY <2>1 DEF AllOwed, Owing, Accounted, Left
    <2>3. ReservationInv'
        <3>1. \A e \in Experiments :
                 /\ record[e] # Absent => record[e].usageDay \in Int
                 /\ disk[e] # Absent => disk[e].usageDay \in Int
            BY DEF TypeOK, Records
        <3>2. \A e \in Experiments :
                 /\ record[e] # Absent => record[e].usageDay <= day'
                 /\ disk[e] # Absent => disk[e].usageDay <= day'
            BY <1>1, <2>1, <3>1 DEF ReservationInv
        <3> QED BY <2>1, <3>2 DEF ReservationInv, Holding
    <2>4. day' # 1 /\ \A d \in 1 .. Days : d > day' => d > day
        BY <2>1 DEF TypeOK
    <2>5. \A u : Spoilt(u)' <=> Spoilt(u)
        BY <2>1 DEF Spoilt
    <2> QED BY <1>1, <2>1, <2>2, <2>3, <2>4, <2>5 DEF ChargeInv, Covered
<1>3. CASE Restart
    <2>1. /\ UNCHANGED <<usage, day, kept, crossed>> /\ restarts' # 0 /\ cancelling' = {}
          /\ \A j \in Jobs : job'[j] = Absent
          /\ torn' = torn \cup {e \in Experiments :
                                  \/ request[e] = "deleting"
                                  \/ \E j \in Jobs : Holding(j, job) /\ job[j].exp = e}
        BY <1>3, Restarted, LockFree DEF Restart, TypeOK, Exp
    <2>2. \A e \in Experiments :
             /\ request'[e] \in {"new", "known"} /\ record'[e] = disk'[e]
             /\ e \notin kept => record'[e] = Absent
             /\ e \in kept => /\ record'[e] \in Records /\ record'[e].reserved = disk[e].reserved
                              /\ record'[e].usageDay = disk[e].usageDay
        BY <1>3, Restarted
    <2>3. ReservationInv'
        <3>1. \A e \in kept : disk[e] # Absent
            BY DEF StoreInv, TypeOK
        <3> QED BY <2>1, <2>2, <3>1 DEF ReservationInv
    <2>4. ASSUME NEW e \in Experiments, e \notin torn'
          PROVE  Accounted(e)' <= Accounted(e)
        <3>1. Accounted(e) \in Nat /\ Accounted(e)' \in Nat
            BY OwedType, OwedTypeNext
        <3>2. CASE e \notin kept
            <4>1. Accounted(e)' = 0
                BY <2>2, <3>2 DEF Accounted
            <4> QED BY <3>1, <4>1
        <3>3. CASE e \in kept
            <4>1. request[e] # "deleting" /\ ~\E j \in Jobs : Holding(j, job) /\ job[j].exp = e
                BY <2>1, <2>4
            <4>2. record[e].reserved = disk[e].reserved /\ record[e] # Absent
                BY <3>3, <4>1 DEF ReservationInv, StoreInv
            <4>3. Accounted(e)' = record[e].reserved
                BY <2>1, <2>2, <3>3, <4>2, AbsentAssumption DEF Accounted
            <4>4. Cost(Left(e)) \in Nat /\ record[e].reserved \in Nat
                BY <4>2, LeftType DEF TypeOK, Records
            <4>5. \/ Accounted(e) = record[e].reserved
                  \/ Accounted(e) = record[e].reserved + Cost(Left(e))
                BY <3>3, <4>1, <4>2 DEF Accounted
            <4> QED BY <4>3, <4>4, <4>5
        <3> QED BY <3>2, <3>3
    <2>5. ASSUME NEW u \in Users, ~Spoilt(u)' PROVE AllOwed(u)' <= AllOwed(u)
        <3> DEFINE f == Owing(u)
                   g == Owing(u)'
        <3>1. f \in [Experiments -> Nat] /\ g \in [Experiments -> Nat]
            BY OwedType, OwedTypeNext
        <3>2. ASSUME NEW e \in Experiments PROVE g[e] <= f[e]
            <4>1. Owner[e] = u => e \notin torn'
                BY <2>5 DEF Spoilt
            <4> QED BY <2>4, <4>1 DEF Owing
        <3>3. AllOwed(u) = SumOf(f, Experiments) /\ AllOwed(u)' = SumOf(g, Experiments)
            BY DEF AllOwed
        <3> HIDE DEF f, g
        <3> QED BY <3>1, <3>2, <3>3, SumGrows, OwnerAssumption
    <2>6. ASSUME NEW u \in Users, ~Spoilt(u)' PROVE Used(u)' >= AllOwed(u)'
        <3>1. Covered(u)
            BY <2>1, <2>6 DEF ChargeInv, Spoilt
        <3>2. Used(u) \in Nat /\ AllOwed(u) \in Nat /\ AllOwed(u)' \in Nat
            BY UsedType, OwedType, OwedTypeNext
        <3> QED BY <1>1, <2>1, <2>5, <2>6, <3>1, <3>2 DEF Covered
    <2> QED BY <2>1, <2>3, <2>6 DEF ChargeInv, Covered
<1> QED BY <1>2, <1>3

(* Nothing is charged at first.                                            *)
LEMMA UsageInit ==
    ASSUME Init, TypeOK PROVE ReservationInv /\ ChargeInv
<1>1. ReservationInv
    BY DEF Init, ReservationInv
<1>2. ASSUME NEW S, IsFiniteSet(S), NEW f \in [S -> Nat], \A x \in S : f[x] = 0
      PROVE  SumOf(f, S) = 0
    <2> DEFINE h == [T \in SUBSET S |-> 0]
    <2>1. h \in [SUBSET S -> Int] /\ f \in [S -> Int] /\ h[S] = 0
        OBVIOUS
    <2>2. Adds(h, f, S)
        BY <1>2 DEF Adds
    <2> HIDE DEF h
    <2> QED BY <1>2, <2>1, <2>2, SumIs
<1>3. ASSUME NEW u \in Users PROVE Used(u) = 0 /\ AllOwed(u) = 0
    <2>1. usage[u] \in [1 .. Days -> Nat] /\ \A d \in 1 .. Days : usage[u][d] = 0
        BY DEF Init
    <2>2. \A e \in Experiments : Accounted(e) = 0
        BY DEF Init, Accounted
    <2>3. Owing(u) \in [Experiments -> Nat] /\ \A e \in Experiments : Owing(u)[e] = 0
        BY <2>2 DEF Owing
    <2>4. Used(u) = 0
        BY <1>2, <2>1, UsedType DEF Used
    <2>5. AllOwed(u) = 0
        BY <1>2, <2>3, OwnerAssumption DEF AllOwed
    <2> QED BY <2>4, <2>5
<1>4. ChargeInv
    BY <1>3 DEF Init, ChargeInv, Covered
<1> QED BY <1>1, <1>4

(***************************************************************************)
(* The theorems.                                                           *)
(***************************************************************************)

Inv == TypeOK /\ StoreInv /\ JobInv /\ LockInv /\ RequestInv /\ RunInv /\ KeptInv
       /\ QuotaInv /\ ReservationInv /\ ChargeInv

(* The inductive invariant holds at first and is kept.                     *)
LEMMA InitInv == Init => Inv
<1> SUFFICES ASSUME Init PROVE Inv
    OBVIOUS
<1>1. TypeOK
    BY BoundAssumption DEF Init, TypeOK
<1>2. StoreInv /\ RequestInv /\ KeptInv
    BY DEF Init, StoreInv, RequestInv, KeptInv
<1>3. JobInv /\ RunInv /\ LockInv
    BY NoJobAssumption DEF Init, JobInv, RunInv, LockInv, Pending, Holding
<1>4. QuotaInv
    <2>1. AllActive = {} /\ \A u : Counted(u) = {}
        BY <1>1 DEF Init, AllActive, Counted, ActiveOf, Active
    <2>2. \A e \in Experiments : request[e] # "resuming"
        BY DEF Init
    <2> QED BY <2>1, <2>2, FS_EmptySet, LimitAssumption DEF QuotaInv, Extra
<1>5. ReservationInv /\ ChargeInv
    BY <1>1, UsageInit
<1> QED BY <1>1, <1>2, <1>3, <1>4, <1>5 DEF Inv

(* ... and no step takes back a stored checkpoint.                         *)
LEMMA NextInv ==
    ASSUME Inv, [Next]_vars
    PROVE  Inv' /\ \A e \in kept \cap kept' : Keeps(e)
<1> USE DEF Inv
<1>1. CASE \E e \in Experiments : RequestStep(e)
    <2>1. PICK e \in Experiments : RequestStep(e)
        BY <1>1
    <2>2. TypeOK' /\ StoreInv' /\ JobInv' /\ LockInv' /\ RequestInv' /\ RunInv' /\ QuotaInv'
        BY <2>1, TypeRequest, StoreRequest, JobRequest, LockRequest, RequestRequest,
           RunRequest, QuotaRequest
    <2>3. KeptInv' /\ \A d \in kept \cap kept' : Keeps(d)
        BY <2>1, <2>2, KeptRequest
    <2>4. ReservationInv' /\ ChargeInv'
        BY <2>1, <2>2, UsageRequest
    <2> QED BY <2>2, <2>3, <2>4
<1>2. CASE \E j \in Jobs : JobStep(j)
    <2>1. PICK j \in Jobs : JobStep(j)
        BY <1>2
    <2>2. TypeOK' /\ StoreInv' /\ JobInv' /\ LockInv' /\ RequestInv' /\ RunInv' /\ QuotaInv'
        BY <2>1, TypeJob, StoreJob, JobJob, LockJob, RequestJob, RunJob, QuotaJob
    <2>3. KeptInv' /\ \A d \in kept \cap kept' : Keeps(d)
        BY <2>1, <2>2, KeptJob
    <2>4. ReservationInv' /\ ChargeInv'
        BY <2>1, <2>2, UsageJob
    <2> QED BY <2>2, <2>3, <2>4
<1>3. CASE NextDay \/ Restart
    <2>1. TypeOK' /\ StoreInv' /\ JobInv' /\ LockInv' /\ RequestInv' /\ RunInv' /\ QuotaInv'
        BY <1>3, TypeWorld, StoreWorld, JobWorld, LockWorld, RequestWorld, RunWorld,
           QuotaWorld
    <2>2. KeptInv' /\ \A d \in kept \cap kept' : Keeps(d)
        BY <1>3, KeptWorld
    <2>3. ReservationInv' /\ ChargeInv'
        BY <1>3, <2>1, UsageWorld
    <2> QED BY <2>1, <2>2, <2>3
<1>4. CASE UNCHANGED vars
    <2>1. TypeOK' /\ StoreInv' /\ JobInv' /\ LockInv' /\ KeptInv'
        BY <1>4 DEF vars, history, TypeOK, StoreInv, JobInv, LockInv, KeptInv, Holding
    <2>2. RequestInv' /\ RunInv'
        BY <1>4 DEF vars, history, RequestInv, RunInv, Active, Pending, Held, Holding
    <2>3. QuotaInv'
        BY <1>4 DEF vars, history, QuotaInv, AllActive, Counted, ActiveOf, Extra, Active
    <2>4. ReservationInv'
        BY <1>4 DEF vars, ReservationInv, Holding
    <2>5. \A e \in Experiments : Accounted(e)' = Accounted(e)
        BY <1>4 DEF vars, Accounted, Left
    <2>6. ChargeInv'
        BY <1>4, <2>5, NoBalance DEF vars, history
    <2>7. \A d \in kept : Keeps(d)
        <3>1. ASSUME NEW d \in kept PROVE disk[d].checkpoint \in Int
            BY <3>1, SizeAssumption DEF StoreInv, TypeOK, Records
        <3>2. disk' = disk
            BY <1>4 DEF vars
        <3> QED BY <3>1, <3>2 DEF Keeps
    <2> QED BY <2>1, <2>2, <2>3, <2>4, <2>6, <2>7
<1> QED BY <1>1, <1>2, <1>3, <1>4 DEF Next, RequestStep

LEMMA Invariance == Spec => []Inv
<1>1. Inv /\ [Next]_vars => Inv'
    BY NextInv
<1> QED BY InitInv, <1>1, PTL DEF Spec

(* The types hold: no request, job, midnight or restart of the server      *)
(* leaves a record, row or count of another kind.                          *)
THEOREM TypeCorrect == Spec => []TypeOK
<1>1. Inv => TypeOK
    BY DEF Inv
<1> QED BY Invariance, <1>1, PTL

(* What is still to be simulated belongs to an experiment that the quotas  *)
(* count, and to one job of it, unless a settled job's finally clause came *)
(* after its successor began: however submit, cancel, resume, delete and   *)
(* the jobs' threads interleave, and with submit()'s rollback between the  *)
(* two halves of a cancel().                                               *)
THEOREM RunsAreAlwaysCounted == Spec => []RunsAreCounted
<1>1. ASSUME TypeOK, RunInv PROVE RunsAreCounted
    BY <1>1, LockFree DEF RunInv, RunsAreCounted, Exp, Held
<1> QED BY Invariance, <1>1, PTL DEF Inv

(* No user and no server has more experiments active than the limits say,  *)
(* or one more where a resume was under way: simultaneous submissions      *)
(* cannot both pass _check_quotas. What a cancel() put back after submit() *)
(* had deleted it comes on top.                                            *)
THEOREM QuotasHold == Spec => []ActiveWithinQuota
<1>1. ASSUME QuotaInv PROVE ActiveWithinQuota
    BY <1>1 DEF QuotaInv, ActiveWithinQuota, AllActive, Counted, Extra
<1> QED BY Invariance, <1>1, PTL DEF Inv

(* What is owed covers what the experiments in the store reserved.         *)
LEMMA ChargesMatch ==
    ASSUME TypeOK, StoreInv, LockInv, ChargeInv PROVE UsageMatchesWork
<1> SUFFICES ASSUME NEW u \in Users, Covered(u)
             PROVE  /\ Used(u) >= Reserved(u, kept)
                    /\ restarts = 0 /\ day = 1 => Used(u) = Reserved(u, Experiments)
    BY DEF UsageMatchesWork, ChargeInv, Spoilt
<1> DEFINE res(S) == [e \in Experiments |->
                         IF e \in S /\ Owner[e] = u THEN Accounted(e) ELSE 0]
<1>1. \A S : res(S) \in [Experiments -> Nat]
    BY OwedType
<1>2. \A e \in Experiments : res(kept)[e] <= res(Experiments)[e]
    BY OwedType
<1>3. /\ Reserved(u, kept) = SumOf(res(kept), Experiments)
      /\ Reserved(u, Experiments) = SumOf(res(Experiments), Experiments)
    BY DEF Reserved
<1>4. res(Experiments) = Owing(u)
    BY DEF Owing
<1>5. AllOwed(u) = Reserved(u, Experiments)
    BY <1>3, <1>4 DEF AllOwed
<1> HIDE DEF res
<1>6. Reserved(u, kept) <= Reserved(u, Experiments)
    BY <1>1, <1>2, <1>3, SumGrows, OwnerAssumption
<1>7. Reserved(u, kept) \in Nat /\ Reserved(u, Experiments) \in Nat /\ Used(u) \in Nat
    BY <1>1, <1>3, SumType, UsedType, OwnerAssumption
<1> QED BY <1>5, <1>6, <1>7 DEF Covered

(* A user is charged for all that the experiments in the store reserved,   *)
(* and on the first day before a restart for exactly what was reserved and *)
(* not refunded: submit, _settle_cancelled and resume charge and refund    *)
(* the same seconds in the record and in the day's count. Not so for a     *)
(* user of whom the process died between a refund and the record of it, or *)
(* of whom a cancel() put back what submit() had refunded and deleted.     *)
THEOREM ChargesAlwaysMatch == Spec => []UsageMatchesWork
<1>1. Inv => UsageMatchesWork
    BY ChargesMatch DEF Inv
<1> QED BY Invariance, <1>1, PTL

(* The stored checkpoint of an experiment only grows until it is complete: *)
(* what _settle_cancelled keeps, no later cancellation, failure or restart *)
(* takes back.                                                             *)
THEOREM FinishedRunsStay == Spec => FinishedRunsAreKept
<1> DEFINE A == \A e \in kept \cap kept' :
                    \/ disk'[e].checkpoint >= disk[e].checkpoint
                    \/ disk'[e].status = "completed"
                    \/ e \in overtaken
<1>1. Inv /\ [Next]_vars => [A]_vars
    BY NextInv DEF Keeps
<1> QED BY Invariance, <1>1, PTL DEF Spec, FinishedRunsAreKept
=============================================================================
