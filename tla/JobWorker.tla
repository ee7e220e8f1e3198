----------------------------- MODULE JobWorker ------------------------------
(***************************************************************************)
(* Job workers (jobs/worker.py) that take messages from the job queue, run *)
(* the study and keep its result in the run store (runstore/store.py).     *)
(*                                                                         *)
(* Queue and store are shared by several worker processes, so every call   *)
(* to one of them is an action of its own and other workers run between    *)
(* two calls. A call may fail (QueueError, StorageError); a put that fails *)
(* may have reached the store. A worker may be told to stop, or be killed, *)
(* at any point.                                                           *)
(***************************************************************************)
EXTENDS JobQueue, Sequences, Functions

CONSTANTS
    Workers,      \* the worker processes
    Runs,         \* run ids
    RunOf,        \* message.run_id of each message
    Malformed,    \* messages JobMessage.from_json refuses
    Invalid,      \* messages whose spec the study refuses (ValueError)
    Budget,       \* message.max_receives, the job's own retry budget
    BatchSize,    \* self.batch_size
    Absent        \* no such object in the store

ASSUME RunOfAssumption == RunOf \in [Messages -> Runs]
ASSUME BatchSizeAssumption == BatchSize \in Nat \ {0}
ASSUME BudgetAssumption == Budget \in Nat \ {0}
ASSUME AbsentAssumption == Absent \notin Deliveries

VARIABLES
    pc,         \* the call each worker makes next
    batch,      \* the deliveries each worker still has to settle, in order
    stopping,   \* self._stop.is_set()
    store       \* the delivery that wrote each object of each run

vars == <<queueVars, pc, batch, stopping, store>>

(* "next" is the stop test between two deliveries of a batch, "idle" the   *)
(* one of run_forever; the others name the call that comes next.           *)
Steps == {"idle", "next", "extend", "run", "usage", "check", "table",
          "manifest", "ack", "nack", "reject", "stopped"}

(* job.json, metrics.parquet and manifest.json of a run *)
Objects == {"usage", "table", "manifest"}

Job(w)    == Head(batch[w])
RunId(w)  == RunOf[Job(w).msg]
HasRun(r) == store[r]["manifest"] # Absent

Init ==
    /\ QueueInit
    /\ pc = [w \in Workers |-> "idle"]
    /\ batch = [w \in Workers |-> << >>]
    /\ stopping = [w \in Workers |-> FALSE]
    /\ store = [r \in Runs |-> [o \in Objects |-> Absent]]

GoTo(w, step) == pc' = [pc EXCEPT ![w] = step]

(* Fault: the delivery stays in the batch after the last one is settled. *)
SettleKeepsLast(w) ==
    /\ batch' = [batch EXCEPT ![w] = IF Len(@) = 1 THEN @ ELSE Tail(@)]
    /\ GoTo(w, IF Len(batch[w]) = 1 THEN "idle" ELSE "next")

(* The head of the batch is done with, one way or another. *)
Settle(w) ==
    /\ batch' = [batch EXCEPT ![w] = Tail(@)]
    /\ GoTo(w, IF Len(batch[w]) = 1 THEN "idle" ELSE "next")

-----------------------------------------------------------------------------
(***************************************************************************)
(* run_forever and run_once.                                               *)
(***************************************************************************)

(* A receive takes as many visible messages as the batch holds, in any     *)
(* order (a standard queue promises none).                                 *)
ReceiveBatch(w) ==
    /\ pc[w] = "idle" /\ ~stopping[w] /\ Due # {}
    /\ \E k \in 0 .. BatchSize : \E ms \in Injection(1 .. k, Due \ Exhausted) :
        \E dead \in SUBSET Exhausted :
            /\ k < BatchSize =>
                   Range(ms) = Due \ Exhausted /\ dead = Exhausted
            /\ Receive(Range(ms), dead)
            /\ batch' = [batch EXCEPT ![w] =
                   [i \in 1 .. k |-> [msg |-> ms[i],
                                      count |-> received[ms[i]] + 1]]]
            /\ GoTo(w, IF k = 0 THEN "idle" ELSE "next")
    /\ UNCHANGED <<stopping, store>>

(* Fault: a delivery the queue no longer knows is handed back again. *)
HandBackInsists(w) ==
    /\ pc[w] = "next" /\ stopping[w]
    /\ Nack(Job(w), FALSE)
    /\ Settle(w)
    /\ UNCHANGED <<stopping, store>>

(* _hand_back: a stopping worker returns what it has not started, without  *)
(* delay; what the queue refuses is left to its visibility timeout.        *)
HandBack(w) ==
    /\ pc[w] = "next" /\ stopping[w]
    /\ Nack(Job(w), FALSE) \/ UNCHANGED queueVars
    /\ Settle(w)
    /\ UNCHANGED <<stopping, store>>

RequestStop(w) ==
    /\ pc[w] # "stopped" /\ ~stopping[w]
    /\ stopping' = [stopping EXCEPT ![w] = TRUE]
    /\ UNCHANGED <<queueVars, pc, batch, store>>

(* run_forever returns. *)
Halt(w) ==
    /\ pc[w] = "idle" /\ stopping[w]
    /\ GoTo(w, "stopped")
    /\ UNCHANGED <<queueVars, batch, stopping, store>>

-----------------------------------------------------------------------------
(***************************************************************************)
(* handle: one message.                                                    *)
(***************************************************************************)

(* Fault: the last delivery the budget allows is refused. *)
OverBudgetEarly(d) == d.count >= Budget

(* A delivery beyond the job's own budget. *)
OverBudget(d) == d.count > Budget

(* Parse, check the job's own budget, and only then look for a stored run. *)
Handle(w) ==
    /\ pc[w] = "next" /\ ~stopping[w]
    /\ LET d == Job(w)
       IN  IF d.msg \in Malformed \/ OverBudget(d)
           THEN GoTo(w, "reject")
           ELSE \/ GoTo(w, IF HasRun(RunId(w)) THEN "ack" ELSE "extend")
                \/ GoTo(w, "nack")
    /\ UNCHANGED <<queueVars, batch, stopping, store>>

(* queue.extend: a stale receipt drops the delivery, any other failure is  *)
(* only logged.                                                            *)
ExtendVisibility(w) ==
    /\ pc[w] = "extend"
    /\ \/ Extend(Job(w)) /\ GoTo(w, "run") /\ UNCHANGED batch
       \/ ~Current(Job(w)) /\ Settle(w) /\ UNCHANGED queueVars
       \/ GoTo(w, "run") /\ UNCHANGED <<queueVars, batch>>
    /\ UNCHANGED <<stopping, store>>

(* self.runner(message): refused for good, finished, or crashed. *)
Run(w) ==
    /\ pc[w] = "run"
    /\ IF Job(w).msg \in Invalid THEN GoTo(w, "reject")
       ELSE GoTo(w, "usage") \/ GoTo(w, "nack")
    /\ UNCHANGED <<queueVars, batch, stopping, store>>

Put(w, object) == store' = [store EXCEPT ![RunId(w)][object] = Job(w)]

(* backend.put, then on; or a failure, before or after it took effect. *)
PutStep(w, object, then) ==
    /\ \/ Put(w, object) /\ GoTo(w, then)
       \/ (Put(w, object) \/ UNCHANGED store) /\ GoTo(w, "nack")
    /\ UNCHANGED <<queueVars, batch, stopping>>

(* _store: the usage record goes first. *)
StoreUsage(w) == pc[w] = "usage" /\ PutStep(w, "usage", "check")

(* Fault: save_run no longer refuses a run that is stored. *)
CheckRunOverwrites(w) ==
    /\ pc[w] = "check"
    /\ GoTo(w, "table") \/ GoTo(w, "nack")
    /\ UNCHANGED <<queueVars, batch, stopping, store>>

(* save_run: refuses a run that is stored (RunExistsError, which handle    *)
(* takes for success); then the table, and the manifest last.              *)
CheckRun(w) ==
    /\ pc[w] = "check"
    /\ \/ GoTo(w, IF HasRun(RunId(w)) THEN "ack" ELSE "table")
       \/ GoTo(w, "nack")
    /\ UNCHANGED <<queueVars, batch, stopping, store>>

(* Fault: save_run writes the manifest before the table. *)
StoreTableLate(w) == pc[w] = "table" /\ PutStep(w, "manifest", "manifest")

StoreTable(w) == pc[w] = "table" /\ PutStep(w, "table", "manifest")

(* Fault: a manifest that could not be written is taken for written. *)
StoreManifestUnchecked(w) ==
    /\ pc[w] = "manifest"
    /\ Put(w, "manifest") \/ UNCHANGED store
    /\ GoTo(w, "ack")
    /\ UNCHANGED <<queueVars, batch, stopping>>

StoreManifest(w) == pc[w] = "manifest" /\ PutStep(w, "manifest", "ack")

-----------------------------------------------------------------------------
(***************************************************************************)
(* Settling a message: whatever the queue answers, the worker moves on.    *)
(***************************************************************************)

(* _finish *)
Finish(w) ==
    /\ pc[w] = "ack"
    /\ Ack(Job(w)) \/ UNCHANGED queueVars
    /\ Settle(w)
    /\ UNCHANGED <<stopping, store>>

(* _retry, with the back-off delay *)
Retry(w) ==
    /\ pc[w] = "nack"
    /\ Nack(Job(w), TRUE) \/ UNCHANGED queueVars
    /\ Settle(w)
    /\ UNCHANGED <<stopping, store>>

(* _reject *)
RejectJob(w) ==
    /\ pc[w] = "reject"
    /\ Reject(Job(w)) \/ UNCHANGED queueVars
    /\ Settle(w)
    /\ UNCHANGED <<stopping, store>>

-----------------------------------------------------------------------------
(* The process is killed in the middle of a batch and a new one starts. *)
Crash(w) ==
    /\ pc[w] \notin {"idle", "stopped"}
    /\ GoTo(w, "idle")
    /\ batch' = [batch EXCEPT ![w] = << >>]
    /\ stopping' = [stopping EXCEPT ![w] = FALSE]
    /\ UNCHANGED <<queueVars, store>>

Restart(w) ==
    /\ pc[w] = "stopped"
    /\ GoTo(w, "idle")
    /\ stopping' = [stopping EXCEPT ![w] = FALSE]
    /\ UNCHANGED <<queueVars, batch, store>>

WorkerStep(w) ==
    \/ HandBack(w) \/ Halt(w)
    \/ Handle(w) \/ ExtendVisibility(w) \/ Run(w)
    \/ StoreUsage(w) \/ CheckRun(w) \/ StoreTable(w) \/ StoreManifest(w)
    \/ Finish(w) \/ Retry(w) \/ RejectJob(w)

QueueStep(m) ==
    (Send(m) \/ Expire(m)) /\ UNCHANGED <<pc, batch, stopping, store>>

Next ==
    \/ \E m \in Messages : QueueStep(m)
    \/ \E w \in Workers :
        WorkerStep(w) \/ ReceiveBatch(w) \/ RequestStop(w) \/ Crash(w)
            \/ Restart(w)

(* Time passes, a running process makes progress, the orchestrator starts  *)
(* a stopped worker again, and not every new worker is stopped before its  *)
(* first receive.                                                          *)
Fairness ==
    /\ \A m \in Messages :
        WF_vars(Expire(m) /\ UNCHANGED <<pc, batch, stopping, store>>)
    /\ \A w \in Workers :
        WF_vars(WorkerStep(w)) /\ WF_vars(Restart(w)) /\ SF_vars(ReceiveBatch(w))

Spec     == Init /\ [][Next]_vars
FairSpec == Spec /\ Fairness

-----------------------------------------------------------------------------
(***************************************************************************)
(* Properties.                                                             *)
(***************************************************************************)

SaveUnderWay(r) ==
    \E w \in Workers : pc[w] \in {"table", "manifest"} /\ RunId(w) = r

TypeOK ==
    /\ place \in [Messages -> Places]
    /\ received \in [Messages -> 0 .. QueueBudget]
    /\ receipt \in [Messages -> 0 .. QueueBudget]
    /\ pc \in [Workers -> Steps]
    /\ batch \in [Workers -> Seq(Deliveries)]
    /\ stopping \in [Workers -> BOOLEAN]
    /\ store \in [Runs -> [Objects -> Deliveries \cup {Absent}]]
    /\ \A w \in Workers : batch[w] = << >> <=> pc[w] \in {"idle", "stopped"}

(* A message leaves the queue for good only when its run is stored: with   *)
(* two workers on one job, timeouts, failing calls and killed processes,   *)
(* _finish never deletes a message whose work could still be lost.         *)
NoJobLost ==
    \A m \in Messages : place[m] = "deleted" => HasRun(RunOf[m])

(* A run that has a manifest is whole: its table and its usage record are  *)
(* there, wherever a worker was killed or a put failed on the way.         *)
WholeRuns ==
    \A r \in Runs : HasRun(r) => \A o \in Objects : store[r][o] # Absent

(* A well-formed job is dead-lettered only after its deliveries were used  *)
(* up: its own budget, or the queue's.                                     *)
GivenUpOnlyAfterBudget ==
    \A m \in Messages \ (Malformed \cup Invalid) :
        place[m] = "dead" => received[m] > Budget \/ received[m] = QueueBudget

(* Every job that is sent is settled: acknowledged or dead-lettered, never *)
(* redelivered for ever and never stuck in flight.                         *)
JobSettles ==
    \A m \in Messages :
        place[m] \in Queued ~> place[m] \in {"deleted", "dead"}

(* A worker that is told to stop does stop (or is killed), whatever the    *)
(* queue makes of the deliveries it hands back.                            *)
StopIsHonoured ==
    \A w \in Workers :
        stopping[w] ~> (pc[w] = "stopped" \/ ~stopping[w])

(* Once a run is stored and no worker is past the check of save_run, no    *)
(* worker ever gets past it again: a run is rewritten only by saves that   *)
(* were already under way when it was stored (the window between the       *)
(* exists and the put of save_run), never by a redelivery.                 *)
StoredRunSettles ==
    [][\A r \in Runs : HasRun(r) /\ ~SaveUnderWay(r) => ~SaveUnderWay(r)']_vars

=============================================================================
