----------------------------- MODULE Experiments ----------------------------
(***************************************************************************)
(* Robustness experiments (experiments/service.py): a user submits an      *)
(* ensemble of simulations, which a background job (study/jobs.py) runs;   *)
(* it can be cancelled, resumed from the runs that had finished, and       *)
(* deleted. Quotas bound what a user has active, keeps, and simulates in a *)
(* day (experiments/store.py). Requests of several clients, the jobs'      *)
(* threads, midnight and restarts of the server interleave.                *)
(*                                                                         *)
(* A block under _state_lock is one action where nothing can tell. It is   *)
(* two in cancel(), since submit() deletes what it could not start without *)
(* that lock; in _settle_cancelled, whose refund is a transaction of its   *)
(* own; and in resume(), which gives _submit_lock back before it marks the *)
(* experiment as queued. The database is reachable, and a put or a delete  *)
(* is one step, so memory and disk keep the same experiments; what they say*)
(* differs between puts. Requests that change nothing (refusals, reads) are*)
(* left out.                                                               *)
(***************************************************************************)
EXTENDS Integers, FiniteSets, FiniteSetsExt

CONSTANTS
    Experiments,    \* the ids of all experiments of a behaviour
    Users,
    Owner,          \* the user of each experiment
    Jobs,           \* as many as MAX_ACTIVE_JOBS
    NoJob,
    Absent,
    Total,          \* simulations in an experiment
    RunSeconds,     \* simulated seconds of one simulation
    DailySeconds,   \* MAX_DAILY_SIMULATED_SECONDS_PER_USER
    MaxPerUser,     \* MAX_ACTIVE_EXPERIMENTS_PER_USER
    MaxActive,      \* MAX_ACTIVE_EXPERIMENTS
    MaxStored,      \* MAX_STORED_EXPERIMENTS_PER_USER
    Days,           \* bound: days of a behaviour
    MaxResumes,     \* bound: resumes of a behaviour
    MaxRestarts     \* bound: restarts of a behaviour

ASSUME OwnerAssumption ==
    IsFiniteSet(Experiments) /\ Owner \in [Experiments -> Users]
ASSUME SizeAssumption  ==
    Total \in Nat \ {0} /\ RunSeconds \in Nat \ {0} /\ DailySeconds \in Nat
ASSUME LimitAssumption ==
    MaxPerUser \in Nat /\ MaxActive \in Nat /\ MaxStored \in Nat
ASSUME BoundAssumption ==
    Days \in Nat \ {0} /\ MaxResumes \in Nat /\ MaxRestarts \in Nat
ASSUME NoJobAssumption  == NoJob \notin Jobs

VARIABLES
    day,        \* today (UTC)
    usage,      \* UsageStore: seconds reserved per user and day
    record,     \* the record of each experiment, as its job and store share it
    kept,       \* the ids in the store
    disk,       \* the row of uf_experiments
    request,    \* where the submit() or resume() of an experiment is
    cancelling, \* those a cancel() has marked and not put back yet
    job,        \* the registry's jobs and where their threads are
    progress,   \* ExperimentService._progress
    resumes, restarts,
    overtaken,  \* history: experiments a job settled after its successor began
    crossed,    \* history: those cancel() put back after submit() deleted them
    torn        \* history: those refunded when the process died before the row

history == <<overtaken, crossed, torn>>
vars    == <<day, usage, record, kept, disk, request, cancelling, job, progress,
             resumes, restarts, history>>

Statuses == {"queued", "running", "completed", "failed", "cancelled"}
Going    == {"queued", "running"}

Records ==
    [status : Statuses, cancelRequested : BOOLEAN, settling : BOOLEAN,
     checkpoint : 0 .. Total, reserved : Nat, usageDay : 1 .. Days]

JobRecords ==
    [at : {"queued", "dropping", "working", "settling", "finally", "ending"},
     exp : Experiments,
     from : 0 .. Total, cancelled : BOOLEAN]

ASSUME AbsentAssumption == Absent \notin Records \cup JobRecords

NewJob(e, from) ==
    [at |-> "queued", exp |-> e, from |-> from, cancelled |-> FALSE]

(* A slot of the registry with no unfinished job, and one with. *)
Idle(j)  == job[j] = Absent
AllBusy  == \A j \in Jobs : ~Idle(j)
At(j, p) == ~Idle(j) /\ job[j].at = p

(* Its simulations are still to be run. *)
ToRun(j) == At(j, "queued") \/ At(j, "working")

(* It has refunded a cancelled experiment and is about to store it. *)
Settling(j) == At(j, "dropping") \/ At(j, "settling")

Exp(j) == job[j].exp
Rec(j) == record[Exp(j)]

Init ==
    /\ day = 1
    /\ usage = [u \in Users |-> [d \in 1 .. Days |-> 0]]
    /\ record = [e \in Experiments |-> Absent]
    /\ kept = {}
    /\ disk = [e \in Experiments |-> Absent]
    /\ request = [e \in Experiments |-> "new"] /\ cancelling = {}
    /\ job = [j \in Jobs |-> Absent]
    /\ progress = [e \in Experiments |-> NoJob]
    /\ resumes = 0 /\ restarts = 0
    /\ overtaken = {} /\ crossed = {} /\ torn = {}

(***************************************************************************)
(* The store.                                                              *)
(***************************************************************************)

(* What survives the process: not the marks of a cancellation under way. *)
Row(r) == [r EXCEPT !.cancelRequested = FALSE, !.settling = FALSE]

(* The record is changed but not stored, or stored as well. *)
Change(e, r) == record' = [record EXCEPT ![e] = r]
Put(e, r) ==
    /\ Change(e, r)
    /\ kept' = kept \cup {e}
    /\ disk' = [disk EXCEPT ![e] = Row(r)]

Remove(e) ==
    /\ kept' = kept \ {e}
    /\ disk' = [disk EXCEPT ![e] = Absent]

(* Active: what ExperimentStore.active counts. *)
Active(e) ==
    e \in kept /\ (record[e].status \in Going \/ record[e].settling)
ActiveOf(u) == {e \in Experiments : Owner[e] = u /\ Active(e)}
KeptOf(u)   == {e \in kept : Owner[e] = u}

(* Fault: the experiment about to be added is not thought of. *)
QuotaFull(u) ==
    /\ Cardinality(ActiveOf(u)) <= MaxPerUser
    /\ Cardinality({e \in Experiments : Active(e)}) <= MaxActive

QuotaOpen(u) ==
    /\ Cardinality(ActiveOf(u)) < MaxPerUser
    /\ Cardinality({e \in Experiments : Active(e)}) < MaxActive

(* Seconds reserved today if the day has room, and seconds given back. *)
Reserve(u, seconds) ==
    /\ usage[u][day] + seconds <= DailySeconds
    /\ usage' = [usage EXCEPT ![u][day] = @ + seconds]
(* Fault: a refund is not floored at zero. *)
ReleaseAll(u, seconds, d) == usage' = [usage EXCEPT ![u][d] = @ - seconds]
Release(u, seconds, d) ==
    usage' = [usage EXCEPT ![u][d] = IF @ >= seconds THEN @ - seconds ELSE 0]

Cost(runs) == runs * RunSeconds
Left(e)    == Total - record[e].checkpoint

(***************************************************************************)
(* Requests.                                                               *)
(***************************************************************************)

StateLockFree ==
    /\ cancelling = {}
    /\ \A e \in Experiments : request[e] # "resuming"
    /\ \A j \in Jobs : ~Settling(j)

GoOn(e, p) == request' = [request EXCEPT ![e] = p]

(* submit(): quotas, reservation and record under _submit_lock. *)
Submit(e) ==
    /\ request[e] = "new"
    /\ QuotaOpen(Owner[e])
    /\ Cardinality(KeptOf(Owner[e])) < MaxStored
    /\ Reserve(Owner[e], Cost(Total))
    /\ Put(e, [status |-> "queued", cancelRequested |-> FALSE, settling |-> FALSE,
               checkpoint |-> 0, reserved |-> Cost(Total), usageDay |-> day])
    /\ GoOn(e, "submitting")
    /\ UNCHANGED <<day, cancelling, job, progress, resumes, restarts, history>>

(* ... then the job is started (the slots are alike), or the registry is full. *)
StartJob(e, from) ==
    /\ ~AllBusy
    /\ job' = [job EXCEPT ![CHOOSE j \in Jobs : Idle(j)] = NewJob(e, from)]

SubmitStart(e) ==
    /\ request[e] = "submitting"
    /\ StartJob(e, 0)
    /\ GoOn(e, "known")
    /\ UNCHANGED <<day, usage, record, kept, disk, cancelling, progress, resumes,
                   restarts, history>>

SubmitRefused(e) ==
    /\ request[e] = "submitting" /\ AllBusy
    /\ Release(Owner[e], Cost(Total), record[e].usageDay)
    /\ GoOn(e, "deleting")
    /\ UNCHANGED <<day, record, kept, disk, cancelling, job, progress, resumes,
                   restarts, history>>

(* A cancel() on its way has the record in its hands. *)
RollBack(e) ==
    /\ request[e] = "deleting"
    /\ Remove(e)
    /\ Change(e, IF e \in cancelling THEN record[e] ELSE Absent)
    /\ GoOn(e, "known")
    /\ UNCHANGED <<day, usage, cancelling, job, progress, resumes, restarts, history>>

Cancel(e) ==
    /\ StateLockFree
    /\ e \in kept /\ record[e].status \in Going
    /\ Change(e, [record[e] EXCEPT !.cancelRequested = TRUE, !.settling = TRUE,
                                   !.status = "cancelled"])
    /\ job' = [j \in Jobs |-> IF j = progress[e]
                              THEN [job[j] EXCEPT !.cancelled = TRUE] ELSE job[j]]
    /\ cancelling' = {e}
    /\ UNCHANGED <<day, usage, kept, disk, request, progress, resumes, restarts,
                   history>>

CancelPut(e) ==
    /\ e \in cancelling
    /\ Put(e, record[e])
    /\ cancelling' = {}
    /\ crossed' = IF e \in kept THEN crossed ELSE crossed \cup {e}
    /\ UNCHANGED <<day, usage, request, job, progress, resumes, restarts, overtaken,
                   torn>>

(* Fault: an experiment that is still stopping is resumed. *)
ResumeEarly(e) ==
    /\ StateLockFree /\ resumes < MaxResumes
    /\ e \in kept /\ record[e].status = "cancelled"
    /\ QuotaOpen(Owner[e]) \/ record[e].settling
    /\ Reserve(Owner[e], Cost(Left(e)))
    /\ GoOn(e, "resuming")
    /\ resumes' = resumes + 1
    /\ UNCHANGED <<day, record, kept, disk, cancelling, job, progress, restarts,
                   history>>

(* resume(): the quota check and the reservation for the missing runs. *)
Resume(e) ==
    /\ StateLockFree /\ resumes < MaxResumes
    /\ e \in kept /\ record[e].status = "cancelled" /\ ~record[e].settling
    /\ QuotaOpen(Owner[e])
    /\ Reserve(Owner[e], Cost(Left(e)))
    /\ GoOn(e, "resuming")
    /\ resumes' = resumes + 1
    /\ UNCHANGED <<day, record, kept, disk, cancelling, job, progress, restarts,
                   history>>

(* Fault: the finished runs are simulated again. *)
ResumeAfresh(e) ==
    /\ request[e] = "resuming"
    /\ StartJob(e, 0)
    /\ Put(e, [record[e] EXCEPT !.status = "queued", !.cancelRequested = FALSE,
                                !.settling = FALSE, !.usageDay = day,
                                !.reserved = @ + Cost(Left(e))])
    /\ GoOn(e, "known")
    /\ UNCHANGED <<day, usage, cancelling, progress, resumes, restarts, history>>

(* ... then the record is queued again and the rest of the runs started. *)
ResumeStart(e) ==
    /\ request[e] = "resuming"
    /\ StartJob(e, record[e].checkpoint)
    /\ Put(e, [record[e] EXCEPT !.status = "queued", !.cancelRequested = FALSE,
                                !.settling = FALSE, !.usageDay = day,
                                !.reserved = @ + Cost(Left(e))])
    /\ GoOn(e, "known")
    /\ UNCHANGED <<day, usage, cancelling, progress, resumes, restarts, history>>

ResumeRefused(e) ==
    /\ request[e] = "resuming" /\ AllBusy
    /\ Release(Owner[e], Cost(Left(e)), day)
    /\ GoOn(e, "known")
    /\ UNCHANGED <<day, record, kept, disk, cancelling, job, progress, resumes,
                   restarts, history>>

Delete(e) ==
    /\ StateLockFree
    /\ e \in kept /\ record[e].status \notin Going /\ ~record[e].settling
    /\ Remove(e)
    /\ UNCHANGED <<day, usage, record, request, cancelling, job, progress, resumes,
                   restarts, history>>

(***************************************************************************)
(* The job of an experiment: ExperimentService._run inside JobRegistry.    *)
(***************************************************************************)

JobGoes(j, p) == job' = [job EXCEPT ![j].at = p]

(* Fault: the refund is not taken off the record's reservation. *)
SettleUnreduced(e, done) ==
    LET r    == record[e]
        paid == (r.reserved * done) \div Total
    IN  /\ Release(Owner[e], r.reserved - paid, r.usageDay)
        /\ Change(e, [r EXCEPT !.checkpoint = done, !.status = "cancelled"])
        /\ UNCHANGED <<kept, disk>>

(* _settle_cancelled: keep what finished, refund what was never run... *)
SettleCancelled(e, done) ==
    LET r    == record[e]
        paid == (r.reserved * done) \div Total
    IN  /\ Release(Owner[e], r.reserved - paid, r.usageDay)
        /\ Change(e, [r EXCEPT !.reserved = paid, !.checkpoint = done,
                               !.status = "cancelled"])
        /\ UNCHANGED <<kept, disk>>

Begin(j) ==
    /\ At(j, "queued") /\ StateLockFree
    /\ \/ /\ Rec(j).cancelRequested
          /\ SettleCancelled(Exp(j), job[j].from)
          /\ JobGoes(j, "dropping")
       \/ /\ ~Rec(j).cancelRequested
          /\ Put(Exp(j), [Rec(j) EXCEPT !.status = "running"])
          /\ JobGoes(j, "working")
          /\ UNCHANGED usage
    /\ progress' = [progress EXCEPT ![Exp(j)] = j]
    /\ UNCHANGED <<day, request, cancelling, resumes, restarts, history>>

(* ... and store it as settled, with the lock still held. *)
Settle(j) ==
    /\ Settling(j)
    /\ Put(Exp(j), [Rec(j) EXCEPT !.settling = FALSE])
    /\ progress' = [progress EXCEPT ![Exp(j)] = NoJob]
    /\ JobGoes(j, IF At(j, "settling") THEN "finally" ELSE "ending")
    /\ UNCHANGED <<day, usage, request, cancelling, resumes, restarts, history>>

(* Runs not yet started are skipped once the job's progress is cancelled. *)
MaySkip(j, done) == job[j].cancelled /\ done < Total

(* The ensemble returns. Each simulation it had to run was tried, and gave *)
(* metrics or an error, unless a cancellation made it skip some.           *)
Finish(j) ==
    /\ At(j, "working") /\ StateLockFree
    /\ \E done \in job[j].from .. Total, skipped \in BOOLEAN :
         /\ skipped => MaySkip(j, done)
         /\ \/ /\ skipped \/ Rec(j).cancelRequested
               /\ SettleCancelled(Exp(j), done)
               /\ JobGoes(j, "settling")
            \/ /\ ~skipped /\ ~Rec(j).cancelRequested
               /\ Change(Exp(j), [Rec(j) EXCEPT !.status = "completed",
                                                !.checkpoint = 0])
               /\ JobGoes(j, "finally")
               /\ UNCHANGED <<usage, kept, disk>>
    /\ UNCHANGED <<day, request, cancelling, progress, resumes, restarts, history>>

(* Preparing, running or analysing the ensemble raises. *)
RunFails(j) ==
    /\ At(j, "working") /\ StateLockFree
    /\ Change(Exp(j), [Rec(j) EXCEPT !.status = "failed", !.cancelRequested = FALSE])
    /\ JobGoes(j, "finally")
    /\ UNCHANGED <<day, usage, kept, disk, request, cancelling, progress, resumes,
                   restarts, history>>

(* Fault: only a settled cancellation clears its mark. *)
FinallyForgetting(j) ==
    /\ At(j, "finally") /\ StateLockFree
    /\ progress' = [progress EXCEPT ![Exp(j)] = NoJob]
    /\ Put(Exp(j), Rec(j))
    /\ JobGoes(j, "ending")
    /\ UNCHANGED <<day, usage, request, cancelling, resumes, restarts, history>>

(* The finally clause takes the lock again. *)
Finally(j) ==
    /\ At(j, "finally") /\ StateLockFree
    /\ progress' = [progress EXCEPT ![Exp(j)] = NoJob]
    /\ Put(Exp(j), [Rec(j) EXCEPT !.settling = FALSE])
    /\ overtaken' = overtaken \cup {e \in {Exp(j)} :
                                      \E k \in Jobs : ToRun(k) /\ Exp(k) = e}
    /\ JobGoes(j, "ending")
    /\ UNCHANGED <<day, usage, request, cancelling, resumes, restarts, crossed, torn>>

(* The registry notes the end of the job. *)
EndJob(j) ==
    /\ At(j, "ending")
    /\ job' = [job EXCEPT ![j] = Absent]
    /\ UNCHANGED <<day, usage, record, kept, disk, request, cancelling, progress,
                   resumes, restarts, history>>

(***************************************************************************)
(* Midnight and restarts.                                                  *)
(***************************************************************************)

NextDay ==
    /\ day < Days
    /\ day' = day + 1
    /\ UNCHANGED <<usage, record, kept, disk, request, cancelling, job, progress,
                   resumes, restarts, history>>

(* The process dies, and get_service() of the next marks what it left      *)
(* queued or running as failed; the rest is loaded from the rows.          *)
Interrupted(e) ==
    IF e \in kept /\ disk[e].status \in Going
    THEN [disk[e] EXCEPT !.status = "failed"] ELSE disk[e]

Restart ==
    /\ restarts < MaxRestarts
    /\ restarts' = restarts + 1
    /\ disk' = [e \in Experiments |-> Interrupted(e)]
    /\ record' = [e \in Experiments |-> Interrupted(e)]
    /\ request' = [e \in Experiments |->
                      IF request[e] = "new" THEN "new" ELSE "known"]
    /\ cancelling' = {}
    /\ job' = [j \in Jobs |-> Absent]
    /\ progress' = [e \in Experiments |-> NoJob]
    /\ torn' = torn \cup {e \in Experiments :
                             \/ request[e] = "deleting"
                             \/ \E j \in Jobs : Settling(j) /\ Exp(j) = e}
    /\ UNCHANGED <<day, usage, kept, resumes, overtaken, crossed>>

RequestGoesOn(e) ==
    \/ SubmitStart(e) \/ SubmitRefused(e) \/ RollBack(e)
    \/ CancelPut(e) \/ ResumeStart(e) \/ ResumeRefused(e)
JobStep(j) ==
    Begin(j) \/ Settle(j) \/ Finish(j) \/ RunFails(j) \/ Finally(j) \/ EndJob(j)

Next ==
    \/ \E e \in Experiments :
          Submit(e) \/ Cancel(e) \/ Resume(e) \/ Delete(e) \/ RequestGoesOn(e)
    \/ \E j \in Jobs : JobStep(j)
    \/ NextDay \/ Restart

(* The threads of the server run: of the jobs and of requests under way. *)
Fairness ==
    /\ \A e \in Experiments : WF_vars(RequestGoesOn(e))
    /\ \A j \in Jobs : WF_vars(JobStep(j))

Spec     == Init /\ [][Next]_vars
FairSpec == Spec /\ Fairness

(***************************************************************************)
(* Properties.                                                             *)
(***************************************************************************)

TypeOK ==
    /\ day \in 1 .. Days
    /\ usage \in [Users -> [1 .. Days -> Nat]]
    /\ record \in [Experiments -> Records \cup {Absent}]
    /\ kept \subseteq Experiments
    /\ disk \in [Experiments -> Records \cup {Absent}]
    /\ request \in [Experiments ->
                      {"new", "submitting", "deleting", "resuming", "known"}]
    /\ cancelling \subseteq Experiments
    /\ job \in [Jobs -> JobRecords \cup {Absent}]
    /\ progress \in [Experiments -> Jobs \cup {NoJob}]
    /\ resumes \in 0 .. MaxResumes /\ restarts \in 0 .. MaxRestarts
    /\ overtaken \cup crossed \cup torn \subseteq Experiments

(* The seconds charged to a user, and those that the user's experiments    *)
(* among S account for: what they reserved, with what the record of one    *)
(* being resumed does not say yet, and nothing once submit() has refunded  *)
(* one it could not start.                                                 *)
SumOf(f, S) == MapThenSumSet(LAMBDA x : f[x], S)

Used(u) == SumOf(usage[u], 1 .. Days)

Accounted(e) ==
    CASE record[e] = Absent \/ request[e] = "deleting" \/ e \in cancelling \ kept -> 0
      [] request[e] = "resuming" -> record[e].reserved + Cost(Left(e))
      [] OTHER -> record[e].reserved

Reserved(u, S) ==
    SumOf([e \in Experiments |->
              IF e \in S /\ Owner[e] = u THEN Accounted(e) ELSE 0], Experiments)

(* What a user has been charged covers what the experiments in the store   *)
(* reserved, and before the first restart and midnight it is exactly that: *)
(* however submissions are refused and experiments cancelled and resumed,  *)
(* no run is refunded twice and none is charged that will not be run. Two  *)
(* exceptions, since a refund and the record of it are stored one after the*)
(* other: the process died in between, and the row still says reserved; or *)
(* a cancel() put back what submit() had refunded and deleted.             *)
UsageMatchesWork ==
    \A u \in Users :
        \/ \E e \in crossed \cup torn : Owner[e] = u
        \/ /\ Used(u) >= Reserved(u, kept)
           /\ restarts = 0 /\ day = 1 => Used(u) = Reserved(u, Experiments)

(* Simultaneous submissions cannot both pass a limit. A resume can let one *)
(* too many in: a submission that comes between its check and its record   *)
(* is checked before the resume counts. Never more than that, unless a job *)
(* was overtaken (see RunsAreCounted); and what a cancel() put back after  *)
(* submit() had deleted it comes on top, since nobody counted it meanwhile.*)
ActiveWithinQuota ==
    LET extra == IF resumes = 0 THEN 0 ELSE 1
    IN  overtaken = {} =>
           /\ \A u \in Users : Cardinality(ActiveOf(u) \ crossed) <= MaxPerUser + extra
           /\ Cardinality({e \in Experiments : Active(e)} \ crossed) <= MaxActive + extra

(* An experiment is counted as active until it has fully stopped: whatever *)
(* is still to be simulated belongs to one that is, and to only one job.   *)
(* The exception: a job that settled a cancellation lets go of the lock    *)
(* before its finally clause, so the experiment can be resumed (and even   *)
(* cancelled again) first, and the clause then takes away the progress and *)
(* the settling mark of the next job.                                      *)
RunsAreCounted ==
    \A j \in Jobs : ToRun(j) =>
        \/ Exp(j) \in overtaken
        \/ /\ request[Exp(j)] = "known" /\ Active(Exp(j))
           /\ \A k \in Jobs \ {j} : ToRun(k) => Exp(k) # Exp(j)

(* The runs that finished before a cancellation are never lost again, by   *)
(* another cancellation, a failure, a restart: the stored checkpoint only  *)
(* grows until the experiment is complete. (Two jobs of one experiment,    *)
(* which is what overtaking can lead to, overwrite each other's.)          *)
FinishedRunsAreKept ==
    [][\A e \in kept \cap kept' :
          \/ disk'[e].checkpoint >= disk[e].checkpoint
          \/ disk'[e].status = "completed"
          \/ e \in overtaken]_vars

(* "Remove an experiment everywhere" (ExperimentStore.delete): what has    *)
(* been deleted does not come back.                                        *)
DeletedStaysDeleted ==
    [][\A e \in Experiments \ kept : request[e] = "known" => e \notin kept']_vars

(* Every experiment comes to an end, and a cancellation settles, but for   *)
(* one that cancel() put back when submit() had deleted it: it has no job  *)
(* to settle it, and counts as active until the server restarts.           *)
EveryExperimentEnds ==
    \A e \in Experiments : Active(e) ~> ~Active(e) \/ e \in crossed
=============================================================================
