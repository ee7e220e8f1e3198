---------------------------- MODULE LiveSessions ----------------------------
(***************************************************************************)
(* The live dashboard's sessions (live/sessions.py) and the requests that  *)
(* use them (live/router.py): the registry of sessions with its sweep, the *)
(* configuration of a session and the runs it owns.                        *)
(*                                                                         *)
(* Only the registry has a lock. A session and its runs are shared by all  *)
(* requests of its client, its streams and the sweep, which interleave     *)
(* where the code builds engines or waits for a thread to end.             *)
(*                                                                         *)
(* A run is what a session owns: "live", one SimulationEngine, or          *)
(* "comparison", a LockstepOrchestrator (the signal-vs-roundabout pair and *)
(* the comparison of strategies are handled alike). Its life is that of    *)
(* EngineLifecycle or of ComparisonLifecycle, one call at a time.          *)
(***************************************************************************)
EXTENDS Naturals, FiniteSets

CONSTANTS
    Keys,           \* session keys but the shared default one, never evicted
    Sessions,       \* identities of LiveSession objects; reused when dropped
    Runs,           \* identities of engines and orchestrators; reused too
    Clients,        \* the requests being handled at once
    None,
    Habits,         \* bound: what the clients of each key use
    MaxSessions,    \* MAX_LIVE_SESSIONS
    MaxConfig       \* bound: distinct configurations a client may post

ASSUME SessionAssumption ==
    /\ MaxSessions \in Nat \ {0} /\ MaxConfig \in Nat
    /\ Habits \subseteq [Keys -> SUBSET {"live", "comparison", "config"}]
    /\ None \notin Sessions \cup Runs \cup Keys \cup Clients

VARIABLES
    registry,   \* live_sessions without the default session
    older,      \* pairs of its keys, the first one's last_seen the earlier
    session,    \* the LiveSession objects
    run,        \* the engines and orchestrators
    request,    \* what each request is in the middle of
    uses,       \* the habits of this behaviour's clients
    sweep       \* who holds live_sessions_lock, and where its sweep is

vars == <<registry, older, session, run, request, uses, sweep>>

Kinds    == {"live", "comparison"}
Statuses == {"INITIALIZED", "RUNNING", "PAUSED", "COMPLETED", "ERROR"}
Active   == {"RUNNING", "PAUSED"}

(* cfg: current_live_config; pinned: is_user_defined_seed; userSeed: the   *)
(* seed in cfg is the user's. History: disturbed, a configuration was      *)
(* refused or two were posted at once; overlapped, cfg was replaced while a*)
(* run was being built; raced, cfg was assigned when a restart had looked  *)
(* at pinned and was about to draw a seed.                                 *)
NewSession ==
    [cfg |-> 0, pinned |-> FALSE, userSeed |-> FALSE, disturbed |-> FALSE,
     overlapped |-> FALSE, raced |-> FALSE,
     slot |-> [k \in Kinds |-> None]]

NewRun(kind, cfg) == [kind |-> kind, cfg |-> cfg, status |-> "INITIALIZED"]

(* at: where the handler is; op: what it does with the run it gets; cfg,   *)
(* seeded: the configuration posted, or the one a run is built from.       *)
Idle == [at |-> "idle", op |-> "none", key |-> None, sess |-> None,
         kind |-> "live", run |-> None, cfg |-> 0, seeded |-> FALSE]

NoSweep == [by |-> None, pass |-> 0, todo |-> {}, victim |-> None,
            stopped |-> FALSE, busy |-> {}]

Held        == {k \in Keys : registry[k] # None}
Slots(s)    == {session[s].slot[k] : k \in Kinds} \ {None}
IsActive(k) == \E r \in Slots(registry[k]) : run[r].status \in Active
Inside(s)   == \E c \in Clients : request[c].sess = s
Busy        == {k \in Held : Inside(registry[k])}

(* What nothing in the program refers to any more. *)
Unused(s) == ~Inside(s) /\ \A k \in Keys : registry[k] # s

UnusedRun(r) ==
    /\ \A s \in Sessions : r \notin Slots(s) \/ Unused(s)
    /\ \A c \in Clients : request[c].run # r

Init ==
    /\ registry = [k \in Keys |-> None]
    /\ older = {}
    /\ session = [s \in Sessions |-> NewSession]
    /\ run = [r \in Runs |-> NewRun("live", 0)]
    /\ request = [c \in Clients |-> Idle]
    /\ uses \in Habits
    /\ sweep = NoSweep

(***************************************************************************)
(* The runs. stop() of an engine acts on a running or paused one only, that*)
(* of an orchestrator always; start() of an engine on a new one only, that *)
(* of an orchestrator restarts one that has ended.                         *)
(***************************************************************************)

Stopped(rs) ==
    [r \in Runs |->
        IF r \in rs /\ (run[r].kind = "comparison" \/ run[r].status \in Active)
        THEN [run[r] EXCEPT !.status = "COMPLETED"] ELSE run[r]]

Startable(r) ==
    IF run[r].kind = "live" THEN run[r].status = "INITIALIZED"
    ELSE run[r].status \notin Active

(* A run reaches its duration or fails, whoever watches it. *)
RunEnds(r) ==
    /\ run[r].status = "RUNNING"
    /\ \E end \in {"COMPLETED", "ERROR"} : run' = [run EXCEPT ![r].status = end]
    /\ UNCHANGED <<registry, older, session, request, sweep>>

(***************************************************************************)
(* live_session_middleware and get_or_create_session: a request finds its  *)
(* session, or sweeps the registry and makes one.                          *)
(***************************************************************************)

Without(k) == {p \in older : k \notin {p[1], p[2]}}

Touch(k) == older' = Without(k) \cup ((Held \ {k}) \X {k})

(* What a client may ask for: what to do, with a run of which kind. Every  *)
(* route on a run begins alike, so what it does with the run, and what a   *)
(* posted configuration holds, is chosen where it first matters.           *)
Asked(k) ==
    ({"route", "stream"} \X (Kinds \cap uses[k]))
    \cup ({"reset"} \X ({"comparison"} \cap uses[k]))
    \cup (({"config"} \cap uses[k]) \X {"live"})

Requests(k) ==
    {[Idle EXCEPT !.key = k, !.op = a[1], !.kind = a[2]] : a \in Asked(k)}

(* Where a handler begins once it has its session. *)
Entry(op) ==
    CASE op = "config" -> "config" [] op = "reset" -> "stop" [] OTHER -> "look"

(* The middleware and the streams run on the event loop, which a sweep and *)
(* a stream getting its run block; the routes have threads of their own.   *)
LoopFree ==
    /\ sweep = NoSweep
    /\ \A c \in Clients :
          ~(request[c].op = "stream" /\ request[c].at \in {"build", "take"})

Arrive(c, q) ==
    /\ request[c] = Idle /\ LoopFree
    /\ IF registry[q.key] # None
       THEN /\ request' = [request EXCEPT ![c] =
                  [q EXCEPT !.sess = registry[q.key], !.at = Entry(q.op)]]
            /\ Touch(q.key)
            /\ UNCHANGED sweep
       ELSE /\ request' = [request EXCEPT ![c] = [q EXCEPT !.at = "sweep"]]
            /\ sweep' = [NoSweep EXCEPT !.by = c, !.pass = 1, !.todo = Held]
            /\ UNCHANGED older
    /\ UNCHANGED <<registry, session, run>>

(***************************************************************************)
(* evict_stale_sessions, with live_sessions_lock held by the request that  *)
(* is about to create a session.                                           *)
(***************************************************************************)

Sweeping(c, pass) == sweep.by = c /\ sweep.pass = pass /\ sweep.victim = None

(* Pass 1: one key after another; any that no request is using may have   *)
(* been idle for LIVE_SESSION_IDLE_TTL_SECONDS, and goes unless active.    *)
SweepLook(c) ==
    /\ Sweeping(c, 1)
    /\ \E k \in sweep.todo :
          \E victim \in {None} \cup (IF IsActive(k) THEN {} ELSE {k} \ Busy) :
              sweep' = [sweep EXCEPT !.todo = @ \ {k}, !.victim = victim]
    /\ UNCHANGED <<registry, older, session, run, request>>

(* Those of the keys S, least recently seen first, that the registry, with *)
(* the default session, has over MAX_LIVE_SESSIONS.                        *)
OverCap(S) ==
    {k \in S : Cardinality({j \in S : <<j, k>> \in older}) + MaxSessions
                  < Cardinality(Held) + 1}

(* Fault: the least recently seen sessions go, active or not. *)
SweepOverflowAny(c) ==
    /\ Sweeping(c, 1) /\ sweep.todo = {}
    /\ sweep' = [sweep EXCEPT !.pass = 2, !.busy = Busy, !.todo = OverCap(Held)]
    /\ UNCHANGED <<registry, older, session, run, request>>

(* Pass 2: the least recently seen inactive sessions, chosen all at once. *)
SweepOverflow(c) ==
    /\ Sweeping(c, 1) /\ sweep.todo = {}
    /\ sweep' = [sweep EXCEPT !.pass = 2, !.busy = Busy,
                              !.todo = OverCap({k \in Held : ~IsActive(k)})]
    /\ UNCHANGED <<registry, older, session, run, request>>

SweepTake(c) ==
    /\ Sweeping(c, 2)
    /\ \E k \in sweep.todo :
          sweep' = [sweep EXCEPT !.todo = @ \ {k}, !.victim = k]
    /\ UNCHANGED <<registry, older, session, run, request>>

(* shutdown(): stop the session's runs, as they are by now... *)
EvictStop(c) ==
    /\ sweep.by = c /\ sweep.victim # None /\ ~sweep.stopped
    /\ run' = Stopped(Slots(registry[sweep.victim]))
    /\ sweep' = [sweep EXCEPT !.stopped = TRUE]
    /\ UNCHANGED <<registry, older, session, request>>

(* ...and, when their threads have ended, drop them and the key. *)
EvictDrop(c) ==
    /\ sweep.by = c /\ sweep.stopped
    /\ session' = [session EXCEPT ![registry[sweep.victim]].slot =
                      [k \in Kinds |-> None]]
    /\ registry' = [registry EXCEPT ![sweep.victim] = None]
    /\ older' = Without(sweep.victim)
    /\ sweep' = [sweep EXCEPT !.victim = None, !.stopped = FALSE]
    /\ UNCHANGED <<run, request>>

Create(c) ==
    /\ Sweeping(c, 2) /\ sweep.todo = {}
    /\ \E s \in Sessions :
          /\ Unused(s)
          /\ session' = [session EXCEPT ![s] = NewSession]
          /\ registry' = [registry EXCEPT ![request[c].key] = s]
          /\ request' = [request EXCEPT ![c].sess = s, ![c].at = Entry(request[c].op)]
    /\ Touch(request[c].key)
    /\ sweep' = NoSweep
    /\ UNCHANGED run

(***************************************************************************)
(* get_or_create_...: a run is built from the configuration read before the*)
(* construction and stored after it, whatever happened in between. Tested  *)
(* or built, the slot is read once more for the caller, and may be empty by*)
(* then: the handler fails on None, or has no run to stop or to show.      *)
(***************************************************************************)

Done(c)    == request' = [request EXCEPT ![c] = Idle]
Found(q)   == IF q.op = "restart" THEN "start" ELSE "have"
Slot(q)    == session[q.sess].slot[q.kind]
MyRun(c)   == run[request[c].run]
At(c, at)  == request[c].at = at

Look(c) ==
    LET q == request[c]
    IN  /\ At(c, "look") /\ (q.op = "stream" => LoopFree)
        /\ request' = [request EXCEPT ![c] =
              IF Slot(q) # None THEN [q EXCEPT !.at = "take"]
              ELSE [q EXCEPT !.cfg = session[q.sess].cfg, !.at = "build"]]
        /\ UNCHANGED <<registry, older, session, run, sweep>>

(* Fault: whatever has been built becomes the live run. *)
BuiltAsLive(c) ==
    LET q == request[c]
    IN  /\ At(c, "build")
        /\ \E r \in Runs :
              /\ UnusedRun(r)
              /\ run' = [run EXCEPT ![r] = NewRun(q.kind, q.cfg)]
              /\ session' = [session EXCEPT ![q.sess].slot["live"] = r]
              /\ request' = [request EXCEPT ![c] = [q EXCEPT !.at = "take", !.cfg = 0]]
        /\ UNCHANGED <<registry, older, sweep>>

Built(c) ==
    LET q == request[c]
    IN  /\ At(c, "build")
        /\ \E r \in Runs :
              /\ UnusedRun(r)
              /\ run' = [run EXCEPT ![r] = NewRun(q.kind, q.cfg)]
              /\ session' = [session EXCEPT ![q.sess].slot[q.kind] = r]
              /\ request' = [request EXCEPT ![c] = [q EXCEPT !.at = "take", !.cfg = 0]]
        /\ UNCHANGED <<registry, older, sweep>>

(* The live stream leaves out a frame when there is no run. *)
Take(c) ==
    LET q == request[c]
    IN  /\ At(c, "take")
        /\ \/ /\ Slot(q) # None
              /\ request' = [request EXCEPT ![c].run = Slot(q), ![c].at = Found(q)]
           \/ /\ Slot(q) = None /\ q.op = "stream" /\ q.kind = "live"
              /\ request' = [request EXCEPT ![c].at = "have"]
           \/ /\ Slot(q) = None /\ ~(q.op = "stream" /\ q.kind = "live")
              /\ Done(c)
        /\ UNCHANGED <<registry, older, session, run, sweep>>

(***************************************************************************)
(* reseed_unless_user_pinned looks at the session's mark, and then writes  *)
(* into what is the session's configuration by then. Afterwards a live run *)
(* is dropped from its slot (a comparison has been before).                *)
(***************************************************************************)

Reseeded(q) == IF q.kind = "live" THEN "drop" ELSE "look"

(* Fault: a restart always draws a new seed. *)
ReseedAlways(c) ==
    /\ At(c, "reseed")
    /\ request' = [request EXCEPT ![c].at = "draw"]
    /\ UNCHANGED <<registry, older, session, run, sweep>>

Reseed(c) ==
    LET q == request[c]
    IN  /\ At(c, "reseed")
        /\ request' = [request EXCEPT ![c].at =
              IF session[q.sess].pinned THEN Reseeded(q) ELSE "draw"]
        /\ UNCHANGED <<registry, older, session, run, sweep>>

Draw(c) ==
    LET q == request[c]
    IN  /\ At(c, "draw")
        /\ session' = [session EXCEPT ![q.sess].userSeed = FALSE]
        /\ request' = [request EXCEPT ![c].at = Reseeded(q)]
        /\ UNCHANGED <<registry, older, run, sweep>>

Drop(c) ==
    /\ At(c, "drop")
    /\ session' = [session EXCEPT ![request[c].sess].slot["live"] = None]
    /\ request' = [request EXCEPT ![c].at = "look"]
    /\ UNCHANGED <<registry, older, run, sweep>>

(***************************************************************************)
(* The routes on a run. The status is read first and acted on later.       *)
(***************************************************************************)

Play(c) ==
    LET q == request[c]
    IN  /\ At(c, "have") /\ q.op = "route"
        /\ \/ /\ MyRun(c).status = "INITIALIZED"
              /\ request' = [request EXCEPT ![c].at = "start"]
           \/ /\ MyRun(c).status = "PAUSED"
              /\ request' = [request EXCEPT ![c].at = "resume"]
           \/ /\ MyRun(c).status = "COMPLETED"
              /\ request' = [request EXCEPT ![c] =
                    [q EXCEPT !.op = "restart", !.run = None,
                              !.at = IF q.kind = "live" THEN "reseed" ELSE "stop"]]
           \/ /\ MyRun(c).status \in {"RUNNING", "ERROR"}
              /\ Done(c)
        /\ UNCHANGED <<registry, older, session, run, sweep>>

Start(c) ==
    /\ At(c, "start")
    /\ run' = IF Startable(request[c].run)
              THEN [run EXCEPT ![request[c].run].status = "RUNNING"] ELSE run
    /\ Done(c)
    /\ UNCHANGED <<registry, older, session, sweep>>

Resume(c) ==
    /\ At(c, "resume")
    /\ run' = IF MyRun(c).status = "PAUSED"
              THEN [run EXCEPT ![request[c].run].status = "RUNNING"] ELSE run
    /\ Done(c)
    /\ UNCHANGED <<registry, older, session, sweep>>

Pause(c) ==
    /\ At(c, "have") /\ request[c].op = "route"
    /\ run' = IF MyRun(c).status = "RUNNING"
              THEN [run EXCEPT ![request[c].run].status = "PAUSED"] ELSE run
    /\ Done(c)
    /\ UNCHANGED <<registry, older, session, sweep>>

Stop(c) ==
    /\ At(c, "have") /\ request[c].op = "route" /\ request[c].kind = "live"
    /\ run' = Stopped({request[c].run})
    /\ Done(c)
    /\ UNCHANGED <<registry, older, session, sweep>>

(* The routes that only look at the run or set its speed, and the end of   *)
(* the handlers that only had to build one.                                *)
Answer(c) ==
    /\ At(c, "have")
    /\ Done(c)
    /\ UNCHANGED <<registry, older, session, run, sweep>>

(* A stream goes on: touch() refreshes the session it holds, which may have*)
(* left the registry.                                                      *)
NextFrame(c) ==
    LET q == request[c]
    IN  /\ At(c, "have") /\ q.op = "stream" /\ LoopFree
        /\ request' = [request EXCEPT ![c].at = "look", ![c].run = None]
        /\ IF registry[q.key] = q.sess THEN Touch(q.key)
           ELSE UNCHANGED older
        /\ UNCHANGED <<registry, session, run, sweep>>

(***************************************************************************)
(* Taking a run down: stop what is in the slot, then empty the slot, which *)
(* may hold another run by then. "restart" and "reset" rebuild one run, a  *)
(* configuration ("rebuild") takes the live one down first, then the       *)
(* comparison; "config" is still on its way there (new strategies).        *)
(***************************************************************************)

TearStop(c) ==
    /\ At(c, "stop")
    /\ run' = Stopped({Slot(request[c])} \ {None})
    /\ request' = [request EXCEPT ![c].at = "clear"]
    /\ UNCHANGED <<registry, older, session, sweep>>

Cleared(s) == [s EXCEPT !.slot = [k \in Kinds |-> None]]

(* Fault: a new configuration forgets the comparison. *)
TearClearLiveOnly(c) ==
    LET q == request[c]
    IN  /\ At(c, "clear")
        /\ session' = [session EXCEPT ![q.sess].slot[q.kind] = None]
        /\ request' = [request EXCEPT ![c].at =
                          IF q.op = "config" THEN "apply" ELSE "look"]
        /\ UNCHANGED <<registry, older, run, sweep>>

TearClear(c) ==
    LET q == request[c]
    IN  /\ At(c, "clear")
        /\ \/ /\ q.op \in {"restart", "reset"}
              /\ session' = [session EXCEPT ![q.sess].slot[q.kind] = None]
              /\ request' = [request EXCEPT ![c].at = "reseed"]
           \/ /\ q.op = "config"
              /\ session' = [session EXCEPT ![q.sess].slot["comparison"] = None]
              /\ request' = [request EXCEPT ![c].at = "apply"]
           \/ /\ q.op = "rebuild" /\ q.kind = "live"
              /\ session' = [session EXCEPT ![q.sess].slot["live"] = None]
              /\ request' = [request EXCEPT ![c].at = "stop", ![c].kind = "comparison"]
           \/ /\ q.op = "rebuild" /\ q.kind = "comparison"
              /\ session' = [session EXCEPT ![q.sess] = Cleared(@)]
              /\ request' = [request EXCEPT ![c].at = "look", ![c].kind = "live"]
        /\ UNCHANGED <<registry, older, run, sweep>>

(***************************************************************************)
(* update_simulation_config.                                               *)
(***************************************************************************)

(* The requests that noted their seed and have yet to assign their config. *)
InConfig(s) ==
    {c \in Clients : /\ request[c].sess = s /\ request[c].op = "config"
                     /\ request[c].at # "config"}

(* Whether the seed is the user's is noted before the payload is compiled. *)
Config(c) ==
    LET q == request[c]
    IN  /\ At(c, "config")
        /\ \E seeded \in BOOLEAN :
              /\ session' = [session EXCEPT
                    ![q.sess].pinned    = seeded,
                    ![q.sess].disturbed = @ \/ InConfig(q.sess) # {}]
              /\ request' = [request EXCEPT ![c] =
                    [q EXCEPT !.at = "compile", !.seeded = seeded]]
        /\ UNCHANGED <<registry, older, run, sweep>>

(* compile_dashboard_config refuses the payload, or the comparison may have*)
(* other strategies now.                                                   *)
Refuse(c) ==
    /\ At(c, "compile")
    /\ session' = [session EXCEPT ![request[c].sess].disturbed = TRUE]
    /\ Done(c)
    /\ UNCHANGED <<registry, older, run, sweep>>

Compile(c) ==
    LET q == request[c]
    IN  /\ At(c, "compile")
        /\ \E v \in 0..MaxConfig :
              \/ request' = [request EXCEPT ![c] = [q EXCEPT !.at = "apply", !.cfg = v]]
              \/ request' = [request EXCEPT ![c] =
                    [q EXCEPT !.at = "stop", !.cfg = v, !.kind = "comparison"]]
        /\ UNCHANGED <<registry, older, session, run, sweep>>

(* A drawn seed makes a configuration a new one. *)
Apply(c) ==
    LET q    == request[c]
        s    == session[q.sess]
        same == q.cfg = s.cfg /\ q.seeded /\ s.userSeed
        Meanwhile(at) == \E d \in Clients : request[d].sess = q.sess /\ At(d, at)
    IN  /\ At(c, "apply")
        /\ \/ same /\ Done(c) /\ UNCHANGED session
           \/ /\ ~same
              /\ session' = [session EXCEPT ![q.sess] =
                    [s EXCEPT !.cfg = q.cfg, !.userSeed = q.seeded,
                              !.overlapped = @ \/ Meanwhile("build"),
                              !.raced = Meanwhile("draw")]]
              /\ request' = [request EXCEPT ![c] =
                    [q EXCEPT !.op = "rebuild", !.at = "stop", !.kind = "live",
                              !.cfg = 0, !.seeded = FALSE]]
        /\ UNCHANGED <<registry, older, run, sweep>>

ClientStep(c) ==
    \/ \E k \in Keys : \E q \in Requests(k) : Arrive(c, q)
    \/ SweepLook(c) \/ SweepOverflow(c) \/ SweepTake(c)
    \/ EvictStop(c) \/ EvictDrop(c) \/ Create(c)
    \/ Look(c) \/ Built(c) \/ Take(c)
    \/ Reseed(c) \/ Draw(c) \/ Drop(c)
    \/ Play(c) \/ Start(c) \/ Resume(c) \/ Pause(c) \/ Stop(c)
    \/ Answer(c) \/ NextFrame(c)
    \/ TearStop(c) \/ TearClear(c)
    \/ Config(c) \/ Refuse(c) \/ Compile(c) \/ Apply(c)

Next ==
    /\ \/ \E c \in Clients : ClientStep(c)
       \/ \E r \in Runs : RunEnds(r)
    /\ UNCHANGED uses

Spec == Init /\ [][Next]_vars

(***************************************************************************)
(* Properties.                                                             *)
(***************************************************************************)

(* The sessions the registry or some request still has. *)
Known == {s \in Sessions : ~Unused(s)}

SessionRecords ==
    [cfg : 0..MaxConfig, pinned : BOOLEAN, userSeed : BOOLEAN,
     disturbed : BOOLEAN, overlapped : BOOLEAN, raced : BOOLEAN,
     slot : [Kinds -> Runs \cup {None}]]

RequestRecords ==
    [at : {"idle", "sweep", "config", "look", "build", "take", "have", "start",
           "resume", "stop", "clear", "reseed", "draw", "drop", "compile", "apply"},
     op : {"none", "route", "stream", "reset", "config", "restart", "rebuild"},
     key : Keys \cup {None}, sess : Sessions \cup {None}, kind : Kinds,
     run : Runs \cup {None}, cfg : 0..MaxConfig, seeded : BOOLEAN]

(* last_seen puts the keys of the registry in a strict order. *)
Ordered ==
    /\ older \subseteq Held \X Held
    /\ \A j, k \in Held : j # k => <<j, k>> \in older \/ <<k, j>> \in older
    /\ \A k \in Held : <<k, k>> \notin older
    /\ \A i, j, k \in Held :
          <<i, j>> \in older /\ <<j, k>> \in older => <<i, k>> \in older

(* The variables have the shapes of sessions.py, last_seen puts the        *)
(* sessions in an order, no session has two keys, and a run is only ever   *)
(* in a slot of its kind.                                                  *)
TypeOK ==
    /\ registry \in [Keys -> Sessions \cup {None}]
    /\ \A j, k \in Held : registry[j] = registry[k] => j = k
    /\ Ordered
    /\ session \in [Sessions -> SessionRecords]
    /\ run \in [Runs -> [kind : Kinds, cfg : 0..MaxConfig, status : Statuses]]
    /\ request \in [Clients -> RequestRecords]
    /\ uses \in Habits
    /\ sweep \in [by : Clients \cup {None}, pass : 0..2, todo : SUBSET Keys,
                  victim : Keys \cup {None}, stopped : BOOLEAN, busy : SUBSET Keys]
    /\ \A s \in Known, k \in Kinds :
          session[s].slot[k] # None => run[session[s].slot[k]].kind = k

(* A configuration that has yet to take the kind's run down. *)
TearingDown(s, kind) ==
    \E c \in Clients :
        /\ request[c].sess = s /\ request[c].op = "rebuild"
        /\ request[c].at \in {"stop", "clear"}
        /\ request[c].kind = "live" \/ kind = "comparison"

(* The next Play runs the scenario last configured: a session keeps a run  *)
(* of an earlier configuration only while update_simulation_config is      *)
(* taking it down, or if the configuration was replaced at the very moment *)
(* a run was being built from the old one (nothing excludes that).         *)
StaleOnlyIfOverlapped ==
    \A s \in Known, k \in Kinds :
        LET r == session[s].slot[k]
        IN  r # None /\ run[r].cfg # session[s].cfg
            => session[s].overlapped \/ TearingDown(s, k)

(* evict_stale_sessions stops a running or paused run only if a request was*)
(* already inside the session when is_active() was asked, and started the  *)
(* run before shutdown() came to it. (That this happens at all contradicts *)
(* is_active's "an active session is never evicted": its lock is not that  *)
(* of the runs.)                                                           *)
EvictionSparesActive ==
    [][\A c \in Clients : EvictStop(c) =>
          \/ ~IsActive(sweep.victim)
          \/ sweep.victim \in sweep.busy]_vars

(* A seed the user supplied survives every restart (the promise of         *)
(* reseed_unless_user_pinned): only another configuration replaces it,     *)
(* unless one is on its way, one was refused after it had changed          *)
(* is_user_defined_seed, two were posted at once, or the configuration with*)
(* the seed was posted between a restart's look at is_user_defined_seed and*)
(* its drawing a seed.                                                     *)
PinSurvives ==
    [][\A s \in Known :
          session[s].userSeed /\ ~session'[s].userSeed
          => session[s].disturbed \/ session[s].raced \/ InConfig(s) # {}]_vars
=============================================================================
