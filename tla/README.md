# A TLA+ model of the traffic simulation backend

This directory holds TLA+ modules that model the control logic of the repository
(`src/backend/src`), TLC configurations that check them on small instances, and
TLAPS proofs. `PROJECT.json` lists for every definition the source lines it models,
for every run what it checks, and the hazards the properties are about.

    tlc -config engine_api.cfg MCSimulationEngine     # any run: see "The runs"
    tlapm SimulationEngine_proofs.tla                 # the proofs

## The system and its components

A FastAPI backend simulates junctions. One *engine* per simulation owns a clock, a
vehicle spawner and pool, a signal controller and collectors, and a background thread
that ticks them. Requests (a thread pool) create, start, pause, resume, stop and delete
simulations; live sessions keep one engine and up to two comparison orchestrators per
browser; studies run in the background or as queued jobs on worker processes that store
their results in an object store.

| Component | State | Operations | What is hard | What makes it correct |
|---|---|---|---|---|
| Simulation engine (`engine/simulation_engine.py`) | status, stop event, current thread, clock and subsystems, one re-entrant lock | start, pause, resume, stop, reset, step, the loop | requests and loop interleave between lock holds; join outside the lock | status tells the truth, one loop, loops end, reset is clean |
| Registry (`simulations/registry.py`) | simulations by id, `has_persisted` | register, evict, delete, status callback | eviction against running engines; failed history writes | history agrees with the engine, limit kept, nothing running evicted |
| Signals (`controllers/fixed_time_signal.py`, `adaptive_signal.py`, `signal_detection.py`) | phase, time in phase, timers, target | reset, update | time steps that divide nothing, zero-length phases, skipped stages | safe aspect changes, full clearance, minimum green, bounded wait, no drift |
| Job queue (`jobs/queue.py`, `jobs/sqs.py`) | entries with count, receipt, visibility; dead letters | send, receive, ack, nack, extend, reject | redelivery, stale receipts, redrive | at-least-once, bounded deliveries |
| Job worker (`jobs/worker.py`) | batch, stop flag | run loop, handle, store, settle | two workers on one job, crashes between puts, failing calls, stops | no job lost, every job settled |
| Run store (`runstore/`) | objects per run | save, has, load | exists and put are separate calls | a run with a manifest is whole |
| Lockstep comparison (`snapshot/lockstep.py`) | several engines, a thread, a second (plain) lock | as the engine's, for all at once | lock nesting, the engine's windows once more | runs stay on one tick, no self-deadlock |
| Live sessions (`live/sessions.py`) | sessions by cookie, last seen | get or create, evict, shutdown | eviction between resolve and use | cap and TTL leave active sessions alone, but for those being used just then; a run is of the last configuration; a pinned seed stays |
| Priority control (`priority/`) | requests, active service, lockouts | request, serve, recover | overlapping requests in a running plan | clearances kept, service bounded, plan recovered |
| Conflict manager (`intersection/`) | reservations per zone | request, release, expire | who yields to whom, stale reservations | no two conflicting holders, no stuck zone |
| Networks (`networks/network_sim.py`) | junctions and links | step, hand over | full links, order of junctions in a step | no vehicle lost or duplicated |
| Experiments, studies (`experiments/`, `study/`) | records in memory and in a table, seconds used per user and day, job registry with threads, two locks | submit, cancel, resume, delete, the job's steps, recovery at start | cancel against completion, a job's last step against what came before it, refunds, restart | quotas kept, charges match work, finished runs kept, every experiment ends |
| V2X, incidents, tenancy, twin | messages in flight; active incidents; quotas | publish, deliver; start, end; admit | delay and loss; overlap; races on counters | nothing stale is acted on; undo restores; quota kept |
| Vehicle dynamics, geometry, metrics, RL, copilot, frontend, Go services | real-valued or external | | | not modelled, see below |

The engine calls the controller's `update` once per tick and the registry's callback on
every status change, both while holding its lock. Worker and queue meet only through
queue calls, workers meet through queue and store.

## The modules

| Module | Models | Extends / uses |
|---|---|---|
| `EngineLifecycle` | abstract: what an engine promises a user (status, time, recorded outcome), no threads | |
| `SimulationEngine` | engine, its threads, its callers, the history callback | instance of `EngineLifecycle` |
| `SimulationEngine_proofs` | theorems about it | `SimulationEngine`, `TLAPS` |
| `SignalPlan` | phases, stages and clearance arithmetic, constant operators | |
| `SignalPlan_proofs` | lemmas about them | `SignalPlan`, `TLAPS` |
| `AdaptiveSignal` | the actuated controller with its stop-line detection | `SignalPlan` |
| `AdaptiveSignal_proofs` | theorems about it | `AdaptiveSignal`, `SignalPlan_proofs` |
| `FixedTimeSignal` | the fixed plan with offset | `SignalPlan` |
| `PriorityControl` | the priority controller wrapped around the fixed plan | `FixedTimeSignal` |
| `PriorityControl_proofs` | theorems about both | `PriorityControl`, `SignalPlan_proofs` |
| `ComparisonLifecycle` | abstract: a comparison looks like one simulation | |
| `Lockstep` | a comparison of several engines, its loop, its lock, the requests | instance of `ComparisonLifecycle` |
| `Lockstep_proofs` | theorems about it | `Lockstep`, `TLAPS` |
| `LiveSessions` | the session registry, its sweep, the routes and streams of the live dashboard | |
| `LiveSessions_proofs` | theorems about it | `LiveSessions`, `TLAPS` |
| `JobQueue` | queue operations, one operator per method | |
| `JobWorker` | worker processes, run store, crashes | `JobQueue` |
| `JobWorker_proofs` | theorems about it | `JobWorker`, `TLAPS` |
| `Experiments` | robustness experiments: requests, jobs, store, quotas, midnight, restarts | |
| `Experiments_proofs` | theorems about it | `Experiments`, `TLAPS` |
| `MC*` | constants of the TLC instances | the module they name |

**SimulationEngine.** `status`, `stopEvent`, `thread`, `ticks` are the attributes of the
object; `loop[t]` says where background thread `t` is in `_run_loop`; `call[c]` says which
`resume()` or `reset()` request handler `c` is in and which thread it waits for;
`hasPersisted` and `record` belong to the registry callback; `faulted` is a history
variable. Every `with self._lock` block is one action (the lock is held throughout, and
the status callbacks run inside it); the stop-event test, the sleep and `join()` lie
between blocks and separate actions. A tick is abstracted to the clock, to whether a
subsystem raised, and to completion. The sleep is not modelled: a thread may stay at
"test" for any time. Thread identities are reused once a thread is dead and nobody
refers to it, so `Threads` bounds the threads alive or referred to, not the launches.

**Signals.** A phase is a record of colour, approaches, their lanes that show it (those
with an allowed turn) and duration; times are integers in an arbitrary unit, with `Dt` the
time step. `HeadShows` is the head of a lane (`_apply_signals`), `ApproachShows` what
`get_state` reports of an approach. A yellow allows every turn, so all lanes of its
approaches show it. That a green or a yellow outlasts a time step is a restriction of the
model, not of the schema, which bounds `leftDuration` from below by zero only. The adaptive model takes
any vector of vehicle counts per lane and any "is somebody moving" answer consistent with
it in every tick, which covers every traffic. Timers the code only compares with a limit
are capped at that limit. Telemetry (`_status`, counters, `recent_decisions`) is left out.
History variables record what was shown, for the properties only.

**PriorityControl.** It extends `FixedTimeSignal` and shares its cursor (`idx`,
`elapsed`): in each tick the controller either moves the cursor itself (`Jump`, `Advance`,
`Freeze`, as `PhaseDriver` does) or lets the plan run. `fitted` says whether the junction
has a priority controller at all; `state`, `goal`, `resume`, `lockout` are the attributes;
`held`, `greenAge` and `spacing` count from the moments the code stores. Vehicles are a
choice of every tick: an emergency vehicle comes to a movement's approach, is detected or
not, and leaves; a late bus wants some movement and expects to be there in one of `Etas`.
The priority runs always use the two-stage `PAIRED_PLAN` without offset (`build_run`). The
model takes any plan that has what the controller relies on (`PriorityAssumption`: whole
stages in a safe order, a green first, greens for different approaches); the branches for
a plan without clearance (`_abort`) cannot be taken on such a plan and are left out.

**Lockstep.** `status`, `ticks` are those of each run's engine; `stopEvent`, `thread`,
`lock` are the orchestrator's. Its lock is a plain `Lock`: a block that neither waits nor
steps an engine is one action that needs it free; the loop's tick is one action per
engine, with the lock held from `LoopCheck` to the last `StepRun`; `start()` on a paused
comparison takes it and never goes on (`"stuck"`). `play` reads the lead's status without
the lock, so `Play` and `Start` or `ResumeBegin` are separate. `torn` is a history
variable that records a frame with the runs on different ticks.

**LiveSessions.** `registry` and `older` are `live_sessions` and the order of `last_seen`
(which of two keys was seen earlier: all that the sweep's sorting tells apart);
`session[s]` holds the configuration, the pinned-seed mark and the slot of each kind of
run; `run[r]` is an engine or orchestrator with the life the other modules give it, one
call per action; `request[c]` says where a handler is. Reading a configuration, building a
run and storing it are separate (`Look`, `Built`), and so is reading the slot again for the
caller (`Take`): another request may have emptied it, and the handler then fails on `None`
or has nothing to do. Stopping and dropping a run are separate
(`TearStop`, `TearClear`; the sweep's `EvictStop`, `EvictDrop`), because the code joins
threads there, and so are a restart's look at the pinned mark, the drawing of a seed into
what is the configuration by then, and the dropping of the run (`Reseed`, `Draw`, `Drop`).
A handler that has its run reads the slot once more only for its answer, which may fail as
well but changes nothing. What runs on the event loop (the middleware, the
streams) waits while a sweep or a stream's build blocks it (`LoopFree`). Which route it is
and what a configuration holds is chosen where it first matters. Whether a session has
been idle for the TTL is any choice for a session no request is in. `Habits` is a bound:
the kinds of routes the clients of each key use in a behaviour. The pair and the strategy
comparison are one kind, being handled alike. That a drawn seed equals another by
chance is ignored. A run nothing refers to leaves the model.

**JobQueue and JobWorker.** A message is visible, hidden, deleted or dead; the receive
count names the receipt, because each receive issues a new one. Time is abstracted: a
hidden message may become visible at any moment, so a visibility timeout may be shorter
than any step of a worker. Each call to queue or store is an action; a call may fail, and
a put that fails may have been carried out. `store[r][o]` names the delivery that wrote
object `o`. `Crash` drops a worker's batch at any call; `Restart` brings a stopped worker
back. The receive order is free, as on a standard SQS queue; the in-memory order is one of
the choices.

**Experiments.** `record[e]` is the record the job and the store share, `kept` the ids the
store holds, `disk[e]` the row of the table, which loses the marks of a cancellation under
way (`Row`); `usage` is the reserved seconds; `request[e]` says where a `submit` or
`resume` is, `cancelling` where a `cancel` is, `job[j]` where a thread of the registry is;
`progress` is `_progress`. A block under `_state_lock` is one action where nothing can tell
(`StateLockFree`), and two in three places. `cancel()` has the record in hand (`Cancel`)
before it puts it back (`CancelPut`), since the rollback of a refused `submit` takes no such
lock; that rollback is two, the refund (`SubmitRefused`) and the delete (`RollBack`).
`_settle_cancelled` refunds in a transaction of its own (`SettleCancelled`) before it stores
the row (`Settle`). `resume()` (`Resume`, `ResumeStart`) releases `_submit_lock` before it
marks the experiment, so that submissions come between. The job's final status (`Finish`,
`RunFails`) and its finally clause (`Finally`) are two actions, as in the code. Simulations
are counted: `Finish` chooses how many finished and whether a cancellation made the runner
skip some. A restart, possible between any two actions, drops memory and threads and marks
queued and running rows as failed. One step each are: a put or a delete, in memory and in
the table; `submit`'s reservation with its put (a crash between them leaves a charge
without a record, which nothing below forbids). The job slots are alike, so a job gets the
same free one always. The database is taken to be reachable. History variables: `overtaken`
has the experiments whose old job came to its finally clause when the next was already
going, `crossed` those a `cancel` put back after `submit` had deleted them, `torn` those
whose refund was made when the process died before the row was stored.

## The runs

| Run | Question | Bounds |
|---|---|---|
| `engine_api` | are status, history and threads right under concurrent requests? | 3 threads, 2 requests at once, 2 ticks |
| `engine_reset` | with `reset()` and one caller at a time, is there one loop and is a reset clean? | 3 threads, 1 caller |
| `engine_two_loops` (violation) | can an engine have two loops? | 3 threads, 2 requests, 3 ticks |
| `adaptive_one_by_one` | safety and waiting bound of the adaptive signal | two approaches of the default plan, a shared and a separate left lane, one zero all-red; step 2 divides none of the durations and limits |
| `fixed_time` | drift of the fixed plan alone; aspects, clearance, minimum green and return of every green, alone and under priority | step 3, uneven plan, offsets over a cycle; any emergency vehicles; buses 3, 6 or 12 away; holds to 12, recovery 6, extension and early green to 4 |
| `comparison` | do the engines stay in step, frames stay whole, requests return; is it one simulation to a viewer? | 2 engines, 3 threads, 2 requests, 2 ticks |
| `comparison_hang` (violation) | is the lock always given back? | 2 engines, 3 threads, 2 requests |
| `live_sessions` | stale runs, evictions of active sessions, the pinned seed | 2 keys and a cap of 1, 2 requests at once, 3 runs, 2 configurations |
| `jobs_safety` | loss, torn runs, giving up, rewriting | 2 workers, a good and a refused job, a budget of 2 deliveries in the job and of 3 in the queue, batches of 2 |
| `jobs_settle` | is everything settled, does a stop end? | 2 workers, a good and a malformed job |
| `experiments` | quotas, charges, kept runs, one job per experiment, endings | 2 experiments of one user who may have 1 active, 2 jobs, 2 runs of 2 seconds each, 6 seconds a day (one experiment and half of another), 2 days, 1 resume, 1 restart |
| `experiments_delete` (violation) | does a deleted experiment stay deleted? | the same, one day, no resume, no restart |

Why the bounds are enough. Every race of the engine needs at most two requests and the
old, the current and a new thread; two ticks separate a tick that goes on from one that
completes. The signal instances have two stages, several greens in a stage, a shared
lane and a phase of zero length; what the controllers do depends on positions in the
cycle only relative to these. Two deliveries of a job to two workers give every overlap
of the handler with itself; the third is there for the job's own budget to refuse.

A comparison differs from an engine in that several engines share one thread; two show
every order of "stepped" and "not yet stepped". In `live_sessions` the cap of one makes
every new session sweep the other; two requests at once are what every window needs (a
builder or player and a configuration or a sweep). One key's client uses the live run or
the comparison or both and may post configurations, the other's at most the live run
(`ClientHabits`), which keeps the instance small; the state is viewed modulo what is
left in unused sessions and runs, and sessions, runs and requests are symmetric.

Experiments: two of them meet at the quotas of their user, one resume gives a job a successor while the
old one has yet to finish, two runs tell "some finished" from "none" and "all", and a
refund can be made before and after midnight. The theorems cover any number.

The three violations are disagreements between the code and what the repository says of
it. `engine_two_loops`: request A in `resume()` joins the old thread; before it gets the
lock back, B resumes and C pauses; A finds PAUSED again, starts a loop and clears the stop
event that B's loop had not yet seen, and two loops tick the engine at twice the pace.
`comparison_hang`: request A reads INITIALIZED; B plays and pauses; A's `start()` finds
PAUSED and calls `resume()` with the lock in hand, which asks for the same lock.
`experiments_delete`: a job ends its experiment and releases `_state_lock`; a `delete()`
removes record and row; the job's finally clause puts both back.

### What the code does against its own words

The runs above show three such disagreements. These others came up while modelling; each
is in the model, and the property it would break exempts exactly it, by a history variable
or a clause of its own:

* An active session can be evicted. `sessions.py:21-23` and `91-95` say never, but
  `is_active()` is read before `shutdown()`, and a request that was already inside the
  session may start its run in between. `EvictionSparesActive` says that only such a session
  loses a run; the request goes on with a session that is in no registry.
* A refused configuration changes what a restart does with the seed of the previous one:
  `router.py:197-199` says the session is left as it was, but `is_user_defined_seed` has
  been assigned (`router.py:189`, `192`, `195`). And a configuration with a pinned seed that
  comes between a restart's look at the mark and its draw (`sessions.py:326`, `328`) loses
  the seed, against `sessions.py:320-324`. `PinSurvives` exempts both (`disturbed`,
  `raced`), and two configurations posted at once.
* A configuration assigned while a run is being built from the old one leaves a run of the
  old scenario (`StaleOnlyIfOverlapped`, `overlapped`).
* Two saves of one run that both found no manifest both write it; `store.py` says a run is
  written once (`StoredRunSettles` exempts saves under way).
* A job that settled a cancellation may be overtaken by a resume before its finally clause
  (`service.py:303-307`), which then takes away the new job's progress and settling mark
  (`RunsAreCounted`, `FinishedRunsAreKept` and `ActiveWithinQuota`, `overtaken`).
* A submission between a resume's quota check and its record (`service.py:413-415`) lets
  one experiment too many in (`ActiveWithinQuota`, `extra`).
* A `cancel` that has its record (`service.py:372`) when a refused `submit` deletes it (177)
  puts it back (388): refunded, and active without a job until the server restarts, though a
  submission may have been let in meanwhile (`ActiveWithinQuota`, `UsageMatchesWork` and
  `EveryExperimentEnds`, `crossed`).
* A process that dies between a refund and the row (`service.py:322` and `330`, `176` and
  `177`) leaves a row that says reserved; when it is resumed and cancelled, its seconds are
  refunded a second time (`UsageMatchesWork`, `torn`).
* A refund goes to the day of the last resume, so after midnight what was reserved on an
  earlier day may stay charged; a crash may leave charged what was never run
  (`UsageMatchesWork` demands equality before the first midnight and restart, and afterwards
  that the charge covers the reservations in the store).
* On the one-direction-at-a-time plan a through lane goes from green to red without a yellow
  when the protected left of its approach begins. The repository knows it (K18,
  `docs/research/validation.md:248`), and says that adaptive control adds no such step
  between different approaches: that is what `HeadsChangeSafely` requires of every lane,
  besides that no approach as a whole jumps from green to red or from red to yellow.

Two more behaviours are outside the properties. `handle` looks at a job's
retry budget before it looks for the stored run, so the redelivery of a stored run can end
in the dead-letter queue; the properties forbid only that an unstored job is lost.
`_split_stages` asks for a yellow and an all-red in a stage in either order; the adaptive
instance uses a plan with the yellow first, as the default plan has it.

Deadlock is not checked where the system may stop: an ended engine with no request, a
queue with every job settled.

**Fairness.** Engine: weak fairness of each background thread and of a request already
inside `resume()` or `reset()`: the operating system runs runnable threads. No request has
to be made. Jobs: weak fairness of a worker's own steps, of restarts (the deployment keeps
its replicas) and of timeouts (time passes); strong fairness of receiving, since a worker
that is stopped and restarted again and again must some time get to receive. Calls may
fail for ever: the budgets still settle every job. Comparison: weak fairness of each
background thread and of a request already inside the orchestrator. That is enough for
`RequestsReturn`, although a request waits for a lock the loop takes again and again:
a comparison's ticks are finitely many, and where a hang makes it impossible the property
says so. Experiments: weak fairness of each job's thread and of requests
under way; nobody has to cancel, and resumes are bounded, without which an experiment
could be cancelled and resumed for ever. Priority: weak fairness of ticks (a running engine ticks
on); `EveryGreenReturns` holds for every arrival of vehicles. The adaptive signal needs no
fairness: its waiting bound is a safety property on counted time.

## The proofs

`SimulationEngine_proofs` proves, for any sets of threads, clients and operations and any
duration:

* `TypeCorrect`: the type invariant, inductive as it stands.
* `ErrorIsReal`: inductive with `FaultInv`, which adds that a thread at its exception
  handler got there by a fault. It needs the check and the tick to be one action.
* `RunningEngineIsDriven`: inductive with the type invariant.
* `EngineImplementsLifecycle`: initial states map to initial states and every step is an
  abstract step or a stutter, action by action (`LifecycleStep`), using `PersistInv` (an
  unpersisted engine has no record).
* `RecordIsTrue`: the history agrees with the status, with `RecordInv`, assuming `reset`
  is not among the operations: a reset engine keeps the record of its first run, and
  the second is never written.
* `SoloCallerSafe`: with one caller at a time there is one loop and a reset is clean,
  with `SoloInv` (every thread but the current one is dead, and while the engine waits
  to be started the current one is too). The run `engine_two_loops` shows that the
  assumption is needed.

`JobWorker_proofs` proves, for any messages (several may share a run), workers, budgets
and batch sizes:

* `JobTypes`: the type invariant, which includes that a worker is idle exactly when its
  batch is empty.
* `RunsAreWhole` and `JobsAreKept`: a run with a manifest has its other objects, and a
  deleted message has a stored run. The inductive invariant `StoreInv` adds what each
  step of the handler has achieved: past the usage put the usage is there, past the
  table put the table is, at the acknowledgement the manifest is; none of it is undone by
  another worker because puts only add.
* `GiveUpsAreJustified`: a well-formed message ends in the dead-letter queue only past
  its budget. `GiveUpInv` adds that a delivery in a batch never claims more receives than
  its message has had (counts only grow, also while others handle the message) and that a
  worker rejects only a bad message or one past the budget.
* `StoredRunsAreLeftAlone`: a worker comes to a put of `save_run` only by having found no
  manifest (`SaveEntry`), so once a run is stored and the saves under way are over nobody
  writes it again. Full immutability, which `store.py` claims, does not hold: two saves
  that both found nothing both write.

`Lockstep_proofs` proves, for any number of engines, threads, requests and ticks:

* `TypeCorrect`, `EnginesInStep`, `FramesWhole`, `ErrorIsReal`, `AlwaysDriven`, and
  `Implements`: the comparison implements `ComparisonLifecycle` with the lead engine's
  status and clock as what is shown.
* One inductive invariant, `LockstepInv`, carries them. `LockInv`: the thread inside a
  tick holds the lock. `StepInv`: the engine a tick has come to is RUNNING (so `step()`
  never raises for having been stopped), and the lead is a tick ahead of those not yet
  stepped. `LeadInv`: nobody is ahead of the lead, and while it runs all run; without it
  a loop could leave on another engine's status while the comparison says RUNNING.
  `EvenInv`: before the first fault, the engines before the cursor are exactly one tick
  ahead and have ended exactly if the tick was the last. `FaultInv` as for the engine.
  The order of locks is what makes it inductive: whatever changes a status does it to all
  engines while the lock is free (lemma `Requests`).

`Experiments_proofs` proves, for any experiments, users, quotas, registry sizes, and any
numbers of resumes, restarts and days:

* `TypeCorrect`, `RunsAreAlwaysCounted`, `QuotasHold`, `ChargesAlwaysMatch`,
  `FinishedRunsStay`.
* One inductive invariant, `Inv`, carries them. `StoreInv`: an experiment
  in the store has a record and a row, the row does not say it is settling, and whatever is
  queued or running is in the store. `JobInv`: a job has a record
  to write to, and `progress` names the job that is simulating. `LockInv`: at most one of a
  `cancel`, a `resume` and a settling job holds `_state_lock`, which is what two actions
  under one hold rest on. `KeptInv`: a row's checkpoint is never ahead of the
  record's, unless the experiment is overtaken or completed. `RequestInv`: an experiment
  being submitted or rolled back is active and has not run yet.
  `RunInv`: unless overtaken, a job still to simulate starts from its record's checkpoint
  and is the only one of its experiment. `QuotaInv`: while a resume is under way
  no more than the limits are active (it began below them, and submissions stop at
  them), and no other resume is, so in the end the limits are passed by one at most, not
  counting what a `cancel` put back. Cancellation
  leaves an experiment active, which is why a second job cannot start beside a first;
  only the finally clause of a settled job breaks it, and `overtaken` records that.
* For the charges: `ReservationInv` (a row does not forget what its record reserved and on
  which day, so a restart refunds nothing) and `ChargeInv` (a user is charged for at least
  what is owed for every experiment with a record, deleted ones included, since a finally
  clause may store one again; and for exactly that on the first day before a restart), for
  every user with no torn or crossed experiment. What
  is owed is a sum over the experiments, and the charge a sum over the days, so the step
  lemmas go through `Balance`: one day's charge and one experiment's debt change by the
  same amount. The floor at zero of `Release` only ever leaves more charged, and on the
  first day it is never reached (`ChargedToday`). The lemmas about `SumOf` (its order does
  not matter, two sums add up, a change of one term) rest on the well-foundedness of the
  subsets of a finite set.

`SignalPlan_proofs` holds what the signals' proofs share, for any plan: when phases end
(`Ends` is a recursive function, and every lemma about it goes through the least index at
which it would fail, which needs no induction scheme), positions around the cycle, the time
a sequence of phases takes, where a time step that passes several phases ends (`Landing`,
which uses that only an all-red may be as short as a step), how stages partition the plan,
and that a safe order of the plan stays safe across the phases one step passes.

`AdaptiveSignal_proofs` proves, for any accepted plan, time step, limits, lanes and traffic:

* `TypeCorrect` and `ClearancesServed`. The inductive invariant adds that a clearance phase
  is shown for no longer than it lasts (`TimeInv`), and that during a clearance `cleared` is
  the time from its first phase to now, its last green being the one that ended
  (`ClearInv`); then the tick that reaches a green has passed all of it.
* `HeadsAreSafe`: no approach jumps, if none does in the plan's own order (`SafeOrder`, which
  the run's plan is checked to satisfy). The controller leaves that order only between
  greens of one stage, which have the same approaches, and after an all-red. From the
  approaches it follows for the heads of the lanes (lemma `LanesFollow`): a yellow is for all
  lanes of its approaches, so a lane loses its green without one only to another turn.
* `WaitsAreBounded`. `Behind(w, i)` is what the phases between the green waited for and
  phase `i` may add to its wait, and `WaitInv` bounds the wait by it: in a green, by what is
  behind and the time since the first call; in a clearance, by the clearance alone if the
  call came in it, otherwise by what is behind the green that is settled to follow. It rests
  on the next green never being later in the cycle than one that calls (`CalledAhead`), on
  every green that is reached through the clearance coming after it (`OverClearance`), and
  on a clearance taking some time (`ClearTimePositive`). `OverClearance` needs
  `CutStagesAlike`: `_terminate` takes only greens with a larger index for later ones of the
  stage, so in a plan that cuts a stage in two the clearance would run between its greens
  and could run three times in a wait. Every plan the code builds has the property: the default plan
  cuts no stage, and the greens of a stage of a `phaseSequence` release the same lanes, so
  none is called while another is shown. The bound is written with running sums over the
  plan; the run checks that this is the sum over greens and stages.

`PriorityControl_proofs` proves, for any offset, time step and limits, and any vehicles:

* `PlanNeverDrifts`, about `FixedTimeSignal` alone and any plan whatever; `AloneNeverDrifts`
  carries it over to a junction whose priority controller nobody asks anything of.
* `PriorityTypeCorrect`, `PriorityClearancesServed`, `PriorityHeadsAreSafe` and
  `MinimumServed`, for plans as `PriorityAssumption` has them. One inductive invariant,
  `PriorityInv`, carries them: `CursorOK` keeps the cursor inside its phase; `InStep` says
  that without priority the cursor is where the clock is in the plan, but for whole cycles;
  `ControlOK` says in which phase the controller is in which state (it clears in a
  clearance, holds the goal, has somewhere to return to); `LitOK` relates what has been
  counted of the green showing to how long it has really been on; `ShownInv` says that
  a clearance `m` phases in has shown, but for less than a time step, those `m` phases.

`LiveSessions_proofs` proves, for any keys, sessions, runs, clients, habits and any cap:

* `LiveTypeCorrect`, `RunsAreCurrent`, `ActiveAreSpared`, `SeedsArePinned`.
* One inductive invariant, `LiveInv`, carries them. `RequestOK` and `SweepOK`: a request is
  inside a session or makes one, and whoever makes one holds the lock of the sweep.
  `Owned`: a run is in one session, and whoever acts on a run of a session is inside that
  session. `Spared`: the keys the sweep has chosen are not active, nobody is inside and
  nobody can come in, except inside those that were busy when it looked; it is `Owned`
  that makes this last, since nobody outside can wake a run. `BuildsCurrent`: what is being
  built is built from the configuration of now, or the session is marked. `SeedNoted`: who
  is to assign a configuration noted its own seed, a user's seed is noted as such,
  and a restart about to draw a seed found none noted.
* Every step of a handler but the building of a run is shown to have one form (`WorksOn`),
  which is what the invariant is proved from.

`ErrorOnlyFromFault` (an engine or a comparison shows ERROR only after a fault) is proved in
both modules and has no run of its own: `ImplementsLifecycle` and `ImplementsComparison`
imply it.

Every invariant and action property of the passing runs is proved. Only model-checked is
liveness (`ThreadsReturn`, `RequestsReturn`, `EveryGreenReturns`, `JobSettles`,
`StopIsHonoured`, `EveryExperimentEnds`), which is outside what the proof system handles.

## What could come next

The order in which the rest would be worth modelling: eviction in the simulation registry
(as in `LiveSessions`); conflict reservations, the handing over of vehicles between junctions, the
snapshot buffer, the spawner's accounting, entry metering; the study jobs kept for polling;
V2X delay and loss; SQS's two-step reject; the Go consumer.

## Not modelled

Car-following, lane changing, geometry, statistics, calibration, learning: real-valued
computation, outside TLC's reach and without interleaving. Imports, reports, schemas,
database access: I/O and formats; the one write the engine depends on is modelled by its
outcome. Copilot, frontend, deployment: external. `PROJECT.json` gives each with its
reason.
