------------------------ MODULE LiveSessions_proofs ------------------------
(***************************************************************************)
(* Theorems about the live sessions, for any number of keys, sessions, runs*)
(* and requests handled at once, and any cap on the sessions.              *)
(***************************************************************************)
EXTENDS LiveSessions, TLAPS

RunRecords == [kind : Kinds, cfg : 0..MaxConfig, status : Statuses]

Outside == {"idle", "sweep"}
Posting == {"config", "compile", "apply"}

(* Who acts on a run got one from the slot; a stream may only look. *)
HasRun(q) ==
    q.at \in {"have", "start", "resume"} =>
        q.run # None \/ (q.op = "stream" /\ q.at = "have")

(* A request is inside a session but when it is idle or makes one; only the*)
(* request that makes one holds live_sessions_lock; a configuration is on  *)
(* its way from the note of its seed to its assignment.                    *)
RequestOK ==
    \A c \in Clients :
        LET q == request[c]
        IN  /\ q.at \in Outside <=> q.sess = None
            /\ q.sess = None => q.run = None
            /\ q.at = "sweep" <=> sweep.by = c
            /\ q.at # "idle" => q.key # None
            /\ q.at \in Posting => q.op = "config"
            /\ q.op = "config" => q.at \in Posting \cup {"sweep", "stop", "clear"}
            /\ HasRun(q)

SweepOK ==
    /\ sweep.by = None => sweep = NoSweep
    /\ sweep.by # None => sweep.pass \in {1, 2}
    /\ sweep.victim # None => sweep.victim \in Held \ sweep.todo
    /\ sweep.todo \subseteq Held
    /\ sweep.stopped => sweep.victim # None

(* The keys whose runs the sweep has decided to stop and has not stopped. *)
Doomed ==
    (IF sweep.stopped THEN {} ELSE {sweep.victim} \ {None})
    \cup (IF sweep.pass = 2 THEN sweep.todo ELSE {})

(* They are not active and nobody can make them so, but for the requests   *)
(* that were inside when the sweep looked.                                 *)
Spared ==
    \A k \in Doomed : k \in sweep.busy \/ (~Inside(registry[k]) /\ ~IsActive(k))

(* A run belongs to one session, and so does a request that acts on it. *)
Owned ==
    /\ \A s, t \in Known : s # t => Slots(s) \cap Slots(t) = {}
    /\ \A c \in Clients, s \in Known :
          request[c].run \in Slots(s) => request[c].sess = s

(* What is being built is what is configured, or the session remembers that*)
(* its configuration was replaced meanwhile.                               *)
BuildsCurrent ==
    \A c \in Clients :
        request[c].at = "build" =>
            LET s == session[request[c].sess]
            IN  request[c].cfg = s.cfg \/ s.overlapped

(* The user's seed is there only if it has just been assigned, if requests *)
(* got in each other's way, or if another seed is on its way.              *)
DrawsOwn(s) ==
    session[s].userSeed =>
        \/ session[s].raced \/ session[s].disturbed
        \/ \E e \in InConfig(s) : ~request[e].seeded

(* A request on its way to assign its configuration noted its own seed, and*)
(* the user's seed is noted as such, but for requests that got in the way. *)
(* A restart that is about to draw a seed found none noted.                *)
SeedNoted ==
    /\ \A s \in Sessions : \A c \in InConfig(s) :
          request[c].seeded = session[s].pinned \/ session[s].disturbed
    /\ \A s \in Known :
          session[s].userSeed
          => session[s].pinned \/ session[s].disturbed \/ InConfig(s) # {}
    /\ \A c \in Clients : request[c].at = "draw" => DrawsOwn(request[c].sess)

LEMMA Facts ==
    /\ MaxSessions \in Nat \ {0} /\ MaxConfig \in Nat
    /\ None \notin Sessions /\ None \notin Runs /\ None \notin Keys
    /\ None \notin Clients
BY SessionAssumption DEF SessionAssumption

(***************************************************************************)
(* A handler at work: what all of its steps but the building of a run have *)
(* in common. It works on its own session, x afterwards, and becomes q.    *)
(***************************************************************************)

Works(c, q, x) ==
    LET p == request[c]
        s == session[p.sess]
    IN  /\ p.sess \in Sessions
        /\ registry' = registry /\ sweep' = sweep
        /\ older' = older \/ \E k \in Held : Touch(k)
        /\ request' = [request EXCEPT ![c] = q] /\ q \in RequestRecords
        /\ session' = [session EXCEPT ![p.sess] = x] /\ x \in SessionRecords
        /\ q = Idle \/ (q.sess = p.sess /\ q.key = p.key /\ q.at \notin Outside)
        /\ HasRun(q)
        /\ q.run \in {None, p.run} \cup Slots(p.sess)
        /\ q.at \in Posting => q.op = "config"
        /\ q.op = "config" => q.at \in Posting \cup {"stop", "clear"}
        /\ \A k \in Kinds : x.slot[k] \in {None, s.slot[k]}
        /\ run' \in [Runs -> RunRecords]
        /\ \A r \in Runs :
              /\ run'[r].kind = run[r].kind /\ run'[r].cfg = run[r].cfg
              /\ run'[r].status \in Active => run[r].status \in Active \/ r = p.run

(* A request takes down the runs of the kind. *)
Tears(q, kind) ==
    /\ q.op = "rebuild" /\ q.at \in {"stop", "clear"}
    /\ q.kind = "live" \/ kind = "comparison"

(* The configuration stays: what is built is built from it, and what is to *)
(* be taken down stays so until it is.                                     *)
Keeps(c, q, x) ==
    LET s == session[request[c].sess]
    IN  /\ x.cfg = s.cfg /\ x.overlapped = s.overlapped
        /\ q.at = "build" => q.cfg = s.cfg
        /\ \A k \in Kinds : Tears(request[c], k) => Tears(q, k) \/ x.slot[k] = None

(* It is replaced: every run of before is to be taken down. *)
Replaces(c, q, x) ==
    LET s == session[request[c].sess]
    IN  /\ x.slot = s.slot
        /\ x.overlapped = (\/ s.overlapped
                           \/ \E d \in Clients : /\ request[d].sess = request[c].sess
                                                 /\ At(d, "build"))
        /\ q.at # "build" /\ \A k \in Kinds : Tears(q, k)

Posted(q) == q.op = "config" /\ q.at # "config"

(* What the session knows of its seed stays, and so does c's note of its. *)
SeedStays(c, q, x) ==
    LET s == session[request[c].sess]
    IN  /\ x.pinned = s.pinned /\ x.disturbed = s.disturbed
        /\ x.userSeed = s.userSeed /\ x.raced = s.raced
        /\ q.at = "draw" => ~s.pinned
        /\ Posted(q) <=> Posted(request[c])
        /\ Posted(q) => q.seeded = request[c].seeded

(* A seed is drawn. *)
SeedDrawn(c, q, x) ==
    LET s == session[request[c].sess]
    IN  /\ request[c].at = "draw" /\ ~Posted(request[c])
        /\ q.at # "draw" /\ ~Posted(q)
        /\ x.pinned = s.pinned /\ x.disturbed = s.disturbed /\ ~x.userSeed

(* A configuration is posted, assigned or refused. *)
SeedPosted(c, q, x) ==
    LET s == session[request[c].sess]
    IN  /\ ~Posted(request[c]) /\ Posted(q) /\ x.pinned = q.seeded
        /\ x.disturbed = (s.disturbed \/ InConfig(request[c].sess) # {})
        /\ x.userSeed = s.userSeed /\ x.raced = s.raced
        /\ q.at # "draw"

SeedAssigned(c, q, x) ==
    LET s == session[request[c].sess]
    IN  /\ Posted(request[c]) /\ ~Posted(q) /\ q.at # "draw"
        /\ x.pinned = s.pinned /\ x.disturbed = s.disturbed
        /\ x.userSeed => request[c].seeded
        /\ \/ request[c].seeded /\ x.userSeed = s.userSeed /\ x.raced = s.raced
           \/ x.raced = \E d \in Clients : /\ request[d].sess = request[c].sess
                                           /\ At(d, "draw")

SeedRefused(c, q, x) ==
    LET s == session[request[c].sess]
    IN  /\ ~Posted(q) /\ q.at # "draw"
        /\ x.disturbed /\ x.pinned = s.pinned /\ x.userSeed = s.userSeed

WorksOn(c) ==
    \E q, x :
        /\ Works(c, q, x)
        /\ Keeps(c, q, x) \/ Replaces(c, q, x)
        /\ \/ SeedStays(c, q, x)
           \/ SeedDrawn(c, q, x)
           \/ SeedPosted(c, q, x)
           \/ SeedAssigned(c, q, x)
           \/ SeedRefused(c, q, x)

(* A request's record and its session's. *)
LEMMA HandlerIs ==
    ASSUME TypeOK, RequestOK, NEW c \in Clients, request[c].at \notin Outside
    PROVE  /\ request[c] \in RequestRecords /\ request[c].sess \in Sessions
           /\ session[request[c].sess] \in SessionRecords
           /\ request[c].at \in Posting => request[c].op = "config"
           /\ request[c].op = "config" =>
                 request[c].at \in Posting \cup {"stop", "clear"}
           /\ session = [session EXCEPT ![request[c].sess] = session[request[c].sess]]
           /\ HasRun(request[c]) /\ request[c].run \in Runs \cup {None}
           /\ request[c].key \in Keys
           /\ run \in [Runs -> RunRecords]
<1>1. request[c] \in RequestRecords /\ session \in [Sessions -> SessionRecords]
  BY DEF TypeOK
<1>2. /\ request[c].sess # None
      /\ request[c].at \in Posting => request[c].op = "config"
      /\ request[c].op = "config" =>
            request[c].at \in Posting \cup {"sweep", "stop", "clear"}
  BY DEF RequestOK
<1>3. request[c].sess \in Sessions
  BY <1>1, <1>2 DEF RequestRecords
<1>4. request[c].at # "sweep" /\ request[c].key # None /\ request[c].key \in Keys
  BY <1>1 DEF Outside, RequestOK, RequestRecords
<1>5. HasRun(request[c]) /\ request[c].run \in Runs \cup {None}
  BY <1>1 DEF RequestRecords, RequestOK
<1>6. run \in [Runs -> RunRecords]
  BY DEF TypeOK, RunRecords
<1>. QED
  BY <1>1, <1>2, <1>3, <1>4, <1>5, <1>6

LEMMA IdleIs == Idle \in RequestRecords /\ ~Posted(Idle) /\ Idle.run = None
               /\ Idle.at = "idle" /\ Idle.sess = None /\ Idle.op = "none"
BY Facts DEF Idle, RequestRecords, Kinds, Posted

(* A handler ends, having done no more to a run than to wake or stop it. *)
LEMMA DoneWorks ==
    ASSUME TypeOK, RequestOK, NEW c \in Clients,
           request[c].at \notin Outside, request[c].op # "config",
           ~(request[c].op = "rebuild" /\ request[c].at \in {"stop", "clear"}),
           Done(c), UNCHANGED <<registry, older, session, sweep>>,
           run' \in [Runs -> RunRecords],
           \A r \in Runs :
              /\ run'[r].kind = run[r].kind /\ run'[r].cfg = run[r].cfg
              /\ run'[r].status \in Active =>
                    run[r].status \in Active \/ r = request[c].run
    PROVE  WorksOn(c)
<1>. DEFINE x == session[request[c].sess]
<1>1. /\ x \in SessionRecords /\ request[c].sess \in Sessions
      /\ session = [session EXCEPT ![request[c].sess] = x]
  BY HandlerIs
<1>2. Works(c, Idle, x)
  BY <1>1, IdleIs DEF Works, Done, Posting, HasRun
<1>3. Keeps(c, Idle, x)
  BY IdleIs DEF Keeps, Tears
<1>4. SeedStays(c, Idle, x)
  BY IdleIs DEF SeedStays, Posted
<1>. QED
  BY <1>2, <1>3, <1>4 DEF WorksOn

LEMMA StoppedIs ==
    ASSUME run \in [Runs -> RunRecords], NEW S
    PROVE  /\ Stopped(S) \in [Runs -> RunRecords]
           /\ \A r \in Runs :
                 /\ Stopped(S)[r].kind = run[r].kind
                 /\ Stopped(S)[r].cfg = run[r].cfg
                 /\ Stopped(S)[r].status \in Active => run[r].status \in Active
BY DEF Stopped, RunRecords, Statuses, Active

LEMMA RunSteps ==
    ASSUME TypeOK, RequestOK, NEW c \in Clients,
           Start(c) \/ Resume(c) \/ Pause(c) \/ Stop(c) \/ Answer(c)
    PROVE  WorksOn(c)
<1>. DEFINE r == request[c].run
            Kept == /\ run' \in [Runs -> RunRecords]
                    /\ \A i \in Runs :
                          /\ run'[i].kind = run[i].kind /\ run'[i].cfg = run[i].cfg
                          /\ run'[i].status \in Active =>
                                run[i].status \in Active \/ i = r
<1>1. /\ request[c].at \in {"have", "start", "resume"} /\ Done(c)
      /\ UNCHANGED <<registry, older, session, sweep>>
  BY DEF Start, Resume, Pause, Stop, Answer, At
<1>2. /\ request[c].at \notin Outside
      /\ ~(request[c].op = "rebuild" /\ request[c].at \in {"stop", "clear"})
  BY <1>1 DEF Outside
<1>3. /\ request[c].op # "config" /\ run \in [Runs -> RunRecords]
      /\ request[c].op = "route" \/ request[c].at # "have" => r \in Runs
  BY <1>1, <1>2, HandlerIs DEF Posting, HasRun
<1>4. CASE run' = run
  <2>1. Kept
    BY <1>3, <1>4
  <2>. QED
    BY <1>1, <1>2, <1>3, <2>1, DoneWorks
<1>5. CASE /\ r \in Runs
           /\ \E st \in {"RUNNING", "PAUSED"} : run' = [run EXCEPT ![r].status = st]
  <2>1. PICK st \in {"RUNNING", "PAUSED"} : run' = [run EXCEPT ![r].status = st]
    BY <1>5
  <2>2. Kept
    BY <1>3, <1>5, <2>1 DEF RunRecords, Statuses
  <2>. QED
    BY <1>1, <1>2, <1>3, <2>2, DoneWorks
<1>6. CASE run' = Stopped({r})
  <2>1. Kept
    BY <1>3, <1>6, StoppedIs
  <2>. QED
    BY <1>1, <1>2, <1>3, <2>1, DoneWorks
<1>. QED
  BY <1>3, <1>4, <1>5, <1>6 DEF Start, Resume, Pause, Stop, Answer, At

(* A handler goes on, and only its own record changes. *)
LEMMA GoesOn ==
    ASSUME TypeOK, RequestOK, NEW c \in Clients, request[c].at \notin Outside,
           NEW q \in RequestRecords,
           request' = [request EXCEPT ![c] = q],
           UNCHANGED <<registry, session, sweep>>,
           older' = older \/ \E k \in Held : Touch(k),
           q.sess = request[c].sess, q.key = request[c].key, q.at \notin Outside,
           HasRun(q),
           q.run \in {None, request[c].run} \cup Slots(request[c].sess),
           q.at \in Posting => q.op = "config",
           q.op = "config" => q.at \in Posting \cup {"stop", "clear"},
           run' \in [Runs -> RunRecords],
           \A r \in Runs :
              /\ run'[r].kind = run[r].kind /\ run'[r].cfg = run[r].cfg
              /\ run'[r].status \in Active => run[r].status \in Active,
           q.at = "build" => q.cfg = session[request[c].sess].cfg,
           \A k \in Kinds : Tears(request[c], k) => Tears(q, k),
           Posted(q) <=> Posted(request[c]),
           Posted(q) => q.seeded = request[c].seeded,
           q.at = "draw" => ~session[request[c].sess].pinned
    PROVE  WorksOn(c)
<1>. DEFINE x == session[request[c].sess]
<1>1. /\ x \in SessionRecords /\ request[c].sess \in Sessions
      /\ session = [session EXCEPT ![request[c].sess] = x]
  BY HandlerIs
<1>2. Works(c, q, x)
  BY <1>1 DEF Works
<1>3. Keeps(c, q, x)
  BY DEF Keeps
<1>4. SeedStays(c, q, x)
  BY DEF SeedStays
<1>. QED
  BY <1>2, <1>3, <1>4 DEF WorksOn

LEMMA SlotIs ==
    ASSUME TypeOK, NEW s \in Sessions, NEW k \in Kinds
    PROVE  /\ session[s].slot[k] \in Runs \cup {None}
           /\ session[s].slot[k] # None => session[s].slot[k] \in Slots(s)
BY DEF TypeOK, SessionRecords, Slots

LEMMA LookSteps ==
    ASSUME TypeOK, RequestOK, NEW c \in Clients, Look(c) PROVE WorksOn(c)
<1>. USE Facts
<1>. DEFINE p == request[c]
            s == session[p.sess]
            q == IF Slot(p) # None THEN [p EXCEPT !.at = "take"]
                 ELSE [p EXCEPT !.cfg = s.cfg, !.at = "build"]
<1>1. /\ p.at = "look" /\ request' = [request EXCEPT ![c] = q]
      /\ UNCHANGED <<registry, older, session, run, sweep>>
  BY DEF Look, At
<1>2. p.at \notin Outside
  BY <1>1 DEF Outside
<1>3. /\ p \in RequestRecords /\ p.sess \in Sessions /\ s \in SessionRecords
      /\ p.op # "config" /\ run \in [Runs -> RunRecords]
  BY <1>1, <1>2, HandlerIs DEF Posting
<1>4. /\ q \in RequestRecords /\ q.sess = p.sess /\ q.op = p.op /\ q.key = p.key
      /\ q.run = p.run /\ q.at \in {"take", "build"}
      /\ q.at = "build" => q.cfg = s.cfg
  BY <1>3 DEF RequestRecords, SessionRecords
<1>. HIDE DEF q
<1>5. /\ q.at \notin Outside /\ q.at \notin Posting /\ ~Posted(q) /\ ~Posted(p)
      /\ HasRun(q) /\ \A k \in Kinds : ~Tears(p, k)
  BY <1>1, <1>3, <1>4 DEF Outside, Posting, Posted, Tears, HasRun
<1>. QED
  BY <1>1, <1>2, <1>3, <1>4, <1>5, GoesOn

LEMMA TakeSteps ==
    ASSUME TypeOK, RequestOK, NEW c \in Clients, Take(c) PROVE WorksOn(c)
<1>. USE Facts
<1>. DEFINE p == request[c]
<1>1. /\ p.at = "take" /\ UNCHANGED <<registry, older, session, run, sweep>>
      /\ p.at \notin Outside
  BY DEF Take, At, Outside
<1>2. /\ p \in RequestRecords /\ p.sess \in Sessions
      /\ p.op # "config" /\ run \in [Runs -> RunRecords]
  BY <1>1, HandlerIs DEF Posting
<1>3. Slot(p) \in Runs \cup {None} /\ (Slot(p) # None => Slot(p) \in Slots(p.sess))
  BY <1>2, SlotIs DEF Slot, RequestRecords
<1>4. ~Posted(p) /\ \A k \in Kinds : ~Tears(p, k)
  BY <1>1, <1>2 DEF Posted, Tears
<1>5. ASSUME Slot(p) # None,
             request' = [request EXCEPT ![c].run = Slot(p), ![c].at = Found(p)]
      PROVE  WorksOn(c)
  <2>. DEFINE q == [p EXCEPT !.run = Slot(p), !.at = Found(p)]
  <2>1. request' = [request EXCEPT ![c] = q]
    BY <1>5 DEF TypeOK
  <2>2. Found(p) \in {"start", "have"}
    BY DEF Found
  <2>3. /\ q \in RequestRecords /\ q.sess = p.sess /\ q.op = p.op /\ q.key = p.key
        /\ q.run = Slot(p) /\ q.at \in {"start", "have"}
    BY <1>2, <1>3, <2>2 DEF RequestRecords
  <2>. HIDE DEF q
  <2>4. /\ q.at \notin Outside /\ q.at \notin Posting /\ ~Posted(q) /\ HasRun(q)
    BY <1>2, <1>5, <2>3 DEF Outside, Posting, Posted, HasRun
  <2>. QED
    BY <1>1, <1>2, <1>3, <1>4, <1>5, <2>1, <2>3, <2>4, GoesOn
<1>6. ASSUME p.op = "stream", request' = [request EXCEPT ![c].at = "have"]
      PROVE  WorksOn(c)
  <2>. DEFINE q == [p EXCEPT !.at = "have"]
  <2>1. request' = [request EXCEPT ![c] = q]
    BY <1>6
  <2>2. /\ q \in RequestRecords /\ q.sess = p.sess /\ q.op = p.op /\ q.key = p.key
        /\ q.run = p.run /\ q.at = "have"
    BY <1>2 DEF RequestRecords
  <2>. HIDE DEF q
  <2>3. /\ q.at \notin Outside /\ q.at \notin Posting /\ ~Posted(q) /\ HasRun(q)
    BY <1>6, <2>2 DEF Outside, Posting, Posted, HasRun
  <2>. QED
    BY <1>1, <1>2, <1>4, <2>1, <2>2, <2>3, GoesOn
<1>7. ASSUME Done(c) PROVE WorksOn(c)
  BY <1>1, <1>2, <1>7, DoneWorks
<1>. QED
  BY <1>5, <1>6, <1>7 DEF Take

LEMMA ReseedSteps ==
    ASSUME TypeOK, RequestOK, NEW c \in Clients, Reseed(c) PROVE WorksOn(c)
<1>. DEFINE p == request[c]
            at == IF session[p.sess].pinned THEN Reseeded(p) ELSE "draw"
            q == [p EXCEPT !.at = at]
<1>1. /\ p.at = "reseed" /\ UNCHANGED <<registry, older, session, run, sweep>>
      /\ p.at \notin Outside /\ request' = [request EXCEPT ![c] = q]
  BY DEF Reseed, At, Outside
<1>2. /\ p \in RequestRecords /\ p.sess \in Sessions
      /\ p.op # "config" /\ run \in [Runs -> RunRecords]
  BY <1>1, HandlerIs DEF Posting
<1>3. at \in {"draw", "drop", "look"} /\ (at = "draw" => ~session[p.sess].pinned)
  BY DEF Reseeded
<1>. HIDE DEF at
<1>4. /\ q \in RequestRecords /\ q.sess = p.sess /\ q.op = p.op /\ q.key = p.key
      /\ q.run = p.run /\ q.at = at
  BY <1>2, <1>3 DEF RequestRecords
<1>. HIDE DEF q
<1>5. /\ q.at \notin Outside /\ q.at \notin Posting /\ ~Posted(q) /\ ~Posted(p)
      /\ HasRun(q) /\ \A k \in Kinds : ~Tears(p, k)
  BY <1>1, <1>2, <1>3, <1>4 DEF Outside, Posting, Posted, Tears, HasRun
<1>. QED
  BY <1>1, <1>2, <1>3, <1>4, <1>5, GoesOn

LEMMA NextFrameSteps ==
    ASSUME TypeOK, RequestOK, NEW c \in Clients, NextFrame(c) PROVE WorksOn(c)
<1>. USE Facts
<1>. DEFINE p == request[c]
            q == [p EXCEPT !.at = "look", !.run = None]
<1>1. /\ p.at = "have" /\ p.op = "stream" /\ UNCHANGED <<registry, session, run, sweep>>
      /\ p.at \notin Outside
  BY DEF NextFrame, At, Outside
<1>2. /\ p \in RequestRecords /\ p.sess \in Sessions /\ p.key \in Keys
      /\ run \in [Runs -> RunRecords]
  BY <1>1, HandlerIs
<1>3. older' = older \/ \E k \in Held : Touch(k)
  BY <1>2 DEF NextFrame, Held
<1>4. request' = [request EXCEPT ![c] = q]
  BY <1>2 DEF NextFrame, TypeOK, RequestRecords
<1>5. /\ q \in RequestRecords /\ q.sess = p.sess /\ q.key = p.key /\ q.run = None
      /\ q.at = "look" /\ q.op = "stream"
  BY <1>1, <1>2 DEF RequestRecords
<1>. HIDE DEF q
<1>6. /\ q.at \notin Outside /\ q.at \notin Posting /\ ~Posted(q) /\ ~Posted(p)
      /\ \A k \in Kinds : ~Tears(p, k)
  BY <1>1, <1>5 DEF Outside, Posting, Posted, Tears
<1>7. HasRun(q)
  BY <1>5 DEF HasRun
<1>. QED
  BY <1>1, <1>2, <1>3, <1>4, <1>5, <1>6, <1>7, GoesOn

LEMMA TearStopSteps ==
    ASSUME TypeOK, RequestOK, NEW c \in Clients, TearStop(c) PROVE WorksOn(c)
<1>. DEFINE p == request[c]
            q == [p EXCEPT !.at = "clear"]
<1>1. /\ p.at = "stop" /\ UNCHANGED <<registry, older, session, sweep>>
      /\ p.at \notin Outside /\ run' = Stopped({Slot(p)} \ {None})
  BY DEF TearStop, At, Outside
<1>2. p \in RequestRecords /\ run \in [Runs -> RunRecords]
  BY <1>1, HandlerIs
<1>3. /\ run' \in [Runs -> RunRecords]
      /\ \A r \in Runs :
            /\ run'[r].kind = run[r].kind /\ run'[r].cfg = run[r].cfg
            /\ run'[r].status \in Active => run[r].status \in Active
  BY <1>1, <1>2, StoppedIs
<1>4. request' = [request EXCEPT ![c] = q]
  BY <1>2 DEF TearStop
<1>5. /\ q \in RequestRecords /\ q.sess = p.sess /\ q.key = p.key /\ q.run = p.run
      /\ q.at = "clear" /\ q.op = p.op /\ q.kind = p.kind /\ q.seeded = p.seeded
  BY <1>1, <1>2 DEF RequestRecords
<1>. HIDE DEF q
<1>6. /\ q.at \notin Outside /\ q.at \notin Posting /\ (Posted(q) <=> Posted(p))
      /\ HasRun(q) /\ \A k \in Kinds : Tears(p, k) => Tears(q, k)
  BY <1>1, <1>5 DEF Outside, Posting, Posted, Tears, HasRun
<1>. QED
  BY <1>1, <1>3, <1>4, <1>5, <1>6, GoesOn

LEMMA CompileSteps ==
    ASSUME TypeOK, RequestOK, NEW c \in Clients, Compile(c) PROVE WorksOn(c)
<1>. DEFINE p == request[c]
<1>1. /\ p.at = "compile" /\ UNCHANGED <<registry, older, session, run, sweep>>
      /\ p.at \notin Outside /\ p.at \in Posting
  BY DEF Compile, At, Outside, Posting
<1>2. p \in RequestRecords /\ run \in [Runs -> RunRecords] /\ p.op = "config"
  BY <1>1, HandlerIs
<1>3. PICK v \in 0..MaxConfig :
         \/ request' = [request EXCEPT ![c] = [p EXCEPT !.at = "apply", !.cfg = v]]
         \/ request' = [request EXCEPT ![c] =
               [p EXCEPT !.at = "stop", !.cfg = v, !.kind = "comparison"]]
  BY DEF Compile
<1>. DEFINE Goes(q) == /\ request' = [request EXCEPT ![c] = q]
                       /\ q \in RequestRecords /\ q.sess = p.sess /\ q.key = p.key
                       /\ q.run = p.run /\ q.at \in {"apply", "stop"}
                       /\ q.op = "config" /\ q.seeded = p.seeded
<1>4. PICK q : Goes(q)
  <2>1. CASE request' = [request EXCEPT ![c] = [p EXCEPT !.at = "apply", !.cfg = v]]
    <3>1. Goes([p EXCEPT !.at = "apply", !.cfg = v])
      BY <1>2, <2>1 DEF RequestRecords
    <3>. HIDE DEF Goes
    <3>. QED
      BY <3>1
  <2>2. CASE request' = [request EXCEPT ![c] =
                [p EXCEPT !.at = "stop", !.cfg = v, !.kind = "comparison"]]
    <3>1. Goes([p EXCEPT !.at = "stop", !.cfg = v, !.kind = "comparison"])
      BY <1>2, <2>2 DEF RequestRecords, Kinds
    <3>. HIDE DEF Goes
    <3>. QED
      BY <3>1
  <2>. QED
    BY <1>3, <2>1, <2>2
<1>5. /\ q.at \notin Outside /\ q.at \in Posting \cup {"stop", "clear"}
      /\ Posted(q) /\ Posted(p) /\ HasRun(q) /\ \A k \in Kinds : ~Tears(p, k)
  BY <1>1, <1>2, <1>4 DEF Outside, Posting, Posted, Tears, HasRun
<1>. QED
  BY <1>1, <1>2, <1>4, <1>5, GoesOn

(* A handler empties slots of its session. *)
Strips(s, x) ==
    /\ x \in SessionRecords /\ x.cfg = s.cfg /\ x.overlapped = s.overlapped
    /\ x.pinned = s.pinned /\ x.disturbed = s.disturbed
    /\ x.userSeed = s.userSeed /\ x.raced = s.raced
    /\ \A k \in Kinds : x.slot[k] \in {None, s.slot[k]}

LEMMA StripsIs ==
    ASSUME NEW s \in SessionRecords, NEW k \in Kinds
    PROVE  /\ Strips(s, [s EXCEPT !.slot[k] = None])
           /\ Strips(s, Cleared(s))
           /\ [s EXCEPT !.slot[k] = None].slot[k] = None
           /\ \A i \in Kinds : Cleared(s).slot[i] = None
<1>1. s.slot \in [Kinds -> Runs \cup {None}]
  BY DEF SessionRecords
<1>2. Strips(s, [s EXCEPT !.slot[k] = None]) /\ [s EXCEPT !.slot[k] = None].slot[k] = None
  BY <1>1 DEF Strips, SessionRecords
<1>3. Strips(s, Cleared(s)) /\ \A i \in Kinds : Cleared(s).slot[i] = None
  BY <1>1 DEF Strips, SessionRecords, Cleared
<1>. QED
  BY <1>2, <1>3

LEMMA StripsWorks ==
    ASSUME TypeOK, RequestOK, NEW c \in Clients, request[c].at \notin Outside,
           NEW q \in RequestRecords, NEW x \in SessionRecords,
           request' = [request EXCEPT ![c] = q],
           session' = [session EXCEPT ![request[c].sess] = x],
           UNCHANGED <<registry, older, run, sweep>>,
           Strips(session[request[c].sess], x),
           q.sess = request[c].sess, q.key = request[c].key, q.at \notin Outside,
           HasRun(q),
           q.run \in {None, request[c].run} \cup Slots(request[c].sess),
           q.at \in Posting => q.op = "config",
           q.op = "config" => q.at \in Posting \cup {"stop", "clear"},
           q.at \notin {"build", "draw"},
           \A k \in Kinds : Tears(request[c], k) => Tears(q, k) \/ x.slot[k] = None,
           Posted(q) <=> Posted(request[c]),
           Posted(q) => q.seeded = request[c].seeded
    PROVE  WorksOn(c)
<1>1. request[c].sess \in Sessions /\ run \in [Runs -> RunRecords]
  BY HandlerIs
<1>2. Works(c, q, x)
  BY <1>1 DEF Works, Strips
<1>3. Keeps(c, q, x)
  BY DEF Keeps, Strips
<1>4. SeedStays(c, q, x)
  BY DEF SeedStays, Strips
<1>. QED
  BY <1>2, <1>3, <1>4 DEF WorksOn

LEMMA DropSteps ==
    ASSUME TypeOK, RequestOK, NEW c \in Clients, Drop(c) PROVE WorksOn(c)
<1>. DEFINE p == request[c]
            s == session[p.sess]
            q == [p EXCEPT !.at = "look"]
            x == [s EXCEPT !.slot["live"] = None]
<1>1. /\ p.at = "drop" /\ UNCHANGED <<registry, older, run, sweep>>
      /\ p.at \notin Outside /\ request' = [request EXCEPT ![c] = q]
      /\ session' = [session EXCEPT ![p.sess] = x]
  BY DEF Drop, At, Outside
<1>2. /\ p \in RequestRecords /\ p.sess \in Sessions /\ s \in SessionRecords
      /\ p.op # "config"
  BY <1>1, HandlerIs DEF Posting
<1>3. Strips(s, x) /\ x \in SessionRecords
  BY <1>2, StripsIs DEF Kinds, Strips
<1>4. /\ q \in RequestRecords /\ q.sess = p.sess /\ q.op = p.op /\ q.key = p.key
      /\ q.run = p.run /\ q.at = "look"
  BY <1>2 DEF RequestRecords
<1>. HIDE DEF q, x
<1>5. /\ q.at \notin Outside /\ q.at \notin Posting /\ ~Posted(q) /\ ~Posted(p)
      /\ HasRun(q) /\ \A k \in Kinds : ~Tears(p, k)
  BY <1>1, <1>2, <1>4 DEF Outside, Posting, Posted, Tears, HasRun
<1>. QED
  BY <1>1, <1>2, <1>3, <1>4, <1>5, StripsWorks

LEMMA DrawSteps ==
    ASSUME TypeOK, RequestOK, NEW c \in Clients, Draw(c) PROVE WorksOn(c)
<1>. DEFINE p == request[c]
            s == session[p.sess]
            at == Reseeded(p)
            q == [p EXCEPT !.at = at]
            x == [s EXCEPT !.userSeed = FALSE]
<1>1. /\ p.at = "draw" /\ UNCHANGED <<registry, older, run, sweep>>
      /\ p.at \notin Outside /\ request' = [request EXCEPT ![c] = q]
      /\ session' = [session EXCEPT ![p.sess] = x]
  BY DEF Draw, At, Outside
<1>2. /\ p \in RequestRecords /\ p.sess \in Sessions /\ s \in SessionRecords
      /\ p.op # "config" /\ run \in [Runs -> RunRecords]
  BY <1>1, HandlerIs DEF Posting
<1>3. /\ x \in SessionRecords /\ x.cfg = s.cfg /\ x.overlapped = s.overlapped
      /\ x.pinned = s.pinned /\ x.disturbed = s.disturbed /\ ~x.userSeed
      /\ x.slot = s.slot
  BY <1>2 DEF SessionRecords
<1>4. at \in {"drop", "look"}
  BY DEF Reseeded
<1>. HIDE DEF at
<1>5. /\ q \in RequestRecords /\ q.sess = p.sess /\ q.op = p.op /\ q.key = p.key
      /\ q.run = p.run /\ q.at = at
  BY <1>2, <1>4 DEF RequestRecords
<1>. HIDE DEF q, x
<1>6. /\ q.at \notin Outside /\ q.at \notin Posting /\ ~Posted(q) /\ ~Posted(p)
      /\ HasRun(q) /\ \A k \in Kinds : ~Tears(p, k)
  BY <1>1, <1>2, <1>4, <1>5 DEF Outside, Posting, Posted, Tears, HasRun
<1>7. Works(c, q, x)
  BY <1>1, <1>2, <1>3, <1>5, <1>6 DEF Works, Posted, Posting
<1>8. Keeps(c, q, x)
  BY <1>3, <1>4, <1>5, <1>6 DEF Keeps
<1>9. SeedDrawn(c, q, x)
  BY <1>1, <1>3, <1>4, <1>5, <1>6 DEF SeedDrawn
<1>. QED
  BY <1>7, <1>8, <1>9 DEF WorksOn

LEMMA PlaySteps ==
    ASSUME TypeOK, RequestOK, NEW c \in Clients, Play(c) PROVE WorksOn(c)
<1>. USE Facts
<1>. DEFINE p == request[c]
            s == session[p.sess]
<1>1. /\ p.at = "have" /\ p.op = "route"
      /\ UNCHANGED <<registry, older, session, run, sweep>>
      /\ p.at \notin Outside /\ p.at \notin Posting
  BY DEF Play, At, Outside, Posting
<1>2. /\ p \in RequestRecords /\ p.sess \in Sessions /\ s \in SessionRecords
      /\ run \in [Runs -> RunRecords] /\ p.run # None
  BY <1>1, HandlerIs DEF HasRun
<1>3. ~Posted(p) /\ \A k \in Kinds : ~Tears(p, k)
  BY <1>1 DEF Posted, Tears
<1>4. ASSUME NEW at \in {"start", "resume"},
             request' = [request EXCEPT ![c].at = at]
      PROVE  WorksOn(c)
  <2>. DEFINE q == [p EXCEPT !.at = at]
  <2>1. request' = [request EXCEPT ![c] = q]
    BY <1>4
  <2>2. /\ q \in RequestRecords /\ q.sess = p.sess /\ q.key = p.key /\ q.run = p.run
        /\ q.at = at /\ q.op = "route"
    BY <1>1, <1>2 DEF RequestRecords
  <2>. HIDE DEF q
  <2>3. q.at \notin Outside /\ q.at \notin Posting /\ ~Posted(q) /\ HasRun(q)
    BY <1>2, <2>2 DEF Outside, Posting, Posted, HasRun
  <2>. QED
    BY <1>1, <1>2, <1>3, <1>4, <2>1, <2>2, <2>3, GoesOn
<1>5. ASSUME Done(c) PROVE WorksOn(c)
  BY <1>1, <1>2, <1>5, DoneWorks
<1>6. ASSUME NEW at \in {"reseed", "stop"},
             request' = [request EXCEPT ![c] =
                [p EXCEPT !.op = "restart", !.run = None, !.at = at]]
      PROVE  WorksOn(c)
  <2>. DEFINE q == [p EXCEPT !.op = "restart", !.run = None, !.at = at]
  <2>1. request' = [request EXCEPT ![c] = q]
    BY <1>6
  <2>2. /\ q \in RequestRecords /\ q.sess = p.sess /\ q.key = p.key /\ q.run = None
        /\ q.at = at /\ q.op = "restart"
    BY <1>1, <1>2 DEF RequestRecords
  <2>. HIDE DEF q
  <2>3. q.at \notin Outside /\ q.at \notin Posting /\ ~Posted(q) /\ HasRun(q)
    BY <2>2 DEF Outside, Posting, Posted, HasRun
  <2>. QED
    BY <1>1, <1>2, <1>3, <1>6, <2>1, <2>2, <2>3, GoesOn
<1>. QED
  BY <1>4, <1>5, <1>6 DEF Play

LEMMA TearClearSteps ==
    ASSUME TypeOK, RequestOK, NEW c \in Clients, TearClear(c) PROVE WorksOn(c)
<1>. USE Facts
<1>. DEFINE p == request[c]
            s == session[p.sess]
            Goes(q) == /\ q \in RequestRecords /\ q.sess = p.sess /\ q.key = p.key
                       /\ q.run = p.run /\ q.op = p.op /\ q.seeded = p.seeded
<1>1. /\ p.at = "clear" /\ UNCHANGED <<registry, older, run, sweep>>
      /\ p.at \notin Outside
  BY DEF TearClear, At, Outside
<1>2. /\ p \in RequestRecords /\ p.sess \in Sessions /\ s \in SessionRecords
      /\ p.kind \in Kinds
  BY <1>1, HandlerIs DEF RequestRecords
<1>3. ASSUME NEW q, NEW x,
             request' = [request EXCEPT ![c] = q],
             session' = [session EXCEPT ![p.sess] = x],
             Goes(q), q.at \in {"reseed", "look", "apply", "stop"},
             q.at = "apply" <=> p.op = "config",
             Strips(s, x),
             \A k \in Kinds : Tears(p, k) => Tears(q, k) \/ x.slot[k] = None
      PROVE  WorksOn(c)
  <2>1. Goes(q)
    BY <1>3
  <2>2. x \in SessionRecords
    BY <1>3 DEF Strips
  <2>3. /\ q.at \notin Outside /\ (Posted(q) <=> Posted(p))
        /\ (q.at \in Posting => q.op = "config")
        /\ (q.op = "config" => q.at \in Posting \cup {"stop", "clear"})
    BY <1>1, <1>3, <2>1 DEF Outside, Posting, Posted
  <2>4. HasRun(q)
    BY <1>3 DEF HasRun
  <2>. QED
    BY <1>1, <1>3, <2>1, <2>2, <2>3, <2>4, StripsWorks
<1>4. ASSUME p.op \in {"restart", "reset"},
             session' = [session EXCEPT ![p.sess].slot[p.kind] = None],
             request' = [request EXCEPT ![c].at = "reseed"]
      PROVE  WorksOn(c)
  <2>. DEFINE q == [p EXCEPT !.at = "reseed"]
              x == [s EXCEPT !.slot[p.kind] = None]
  <2>1. Strips(s, x) /\ session' = [session EXCEPT ![p.sess] = x]
    BY <1>2, <1>4, StripsIs
  <2>2. request' = [request EXCEPT ![c] = q]
    BY <1>4
  <2>3. Goes(q) /\ q.at = "reseed"
    BY <1>2 DEF RequestRecords
  <2>4. \A k \in Kinds : ~Tears(p, k)
    BY <1>4 DEF Tears
  <2>. HIDE DEF q, x, Goes
  <2>. QED
    BY <1>3, <1>4, <2>1, <2>2, <2>3, <2>4
<1>5. ASSUME p.op = "config",
             session' = [session EXCEPT ![p.sess].slot["comparison"] = None],
             request' = [request EXCEPT ![c].at = "apply"]
      PROVE  WorksOn(c)
  <2>. DEFINE q == [p EXCEPT !.at = "apply"]
              x == [s EXCEPT !.slot["comparison"] = None]
  <2>1. Strips(s, x) /\ session' = [session EXCEPT ![p.sess] = x]
    BY <1>2, <1>5, StripsIs DEF Kinds
  <2>2. request' = [request EXCEPT ![c] = q]
    BY <1>5
  <2>3. Goes(q) /\ q.at = "apply"
    BY <1>2 DEF RequestRecords
  <2>4. \A k \in Kinds : ~Tears(p, k)
    BY <1>5 DEF Tears
  <2>. HIDE DEF q, x, Goes
  <2>. QED
    BY <1>3, <1>5, <2>1, <2>2, <2>3, <2>4
<1>6. ASSUME p.op = "rebuild", p.kind = "live",
             session' = [session EXCEPT ![p.sess].slot["live"] = None],
             request' = [request EXCEPT ![c].at = "stop", ![c].kind = "comparison"]
      PROVE  WorksOn(c)
  <2>. DEFINE q == [p EXCEPT !.at = "stop", !.kind = "comparison"]
              x == [s EXCEPT !.slot["live"] = None]
  <2>1. /\ Strips(s, x) /\ session' = [session EXCEPT ![p.sess] = x]
        /\ x.slot["live"] = None
    BY <1>2, <1>6, StripsIs DEF Kinds
  <2>2. request' = [request EXCEPT ![c] = q]
    BY <1>2, <1>6 DEF TypeOK
  <2>3. /\ Goes(q) /\ q.kind = "comparison"
        /\ q.at = "stop" /\ q.op = "rebuild"
    BY <1>2, <1>6 DEF RequestRecords, Kinds
  <2>. HIDE DEF q, x, Goes
  <2>4. \A k \in Kinds : Tears(p, k) => Tears(q, k) \/ x.slot[k] = None
    BY <2>1, <2>3 DEF Tears, Kinds, Goes
  <2>5. q.at \in {"reseed", "look", "apply", "stop"} /\ (q.at = "apply" <=> p.op = "config")
    BY <1>6, <2>3
  <2>. QED
    BY <1>3, <2>1, <2>2, <2>3, <2>4, <2>5
<1>7. ASSUME p.op = "rebuild", p.kind = "comparison",
             session' = [session EXCEPT ![p.sess] = Cleared(@)],
             request' = [request EXCEPT ![c].at = "look", ![c].kind = "live"]
      PROVE  WorksOn(c)
  <2>. DEFINE q == [p EXCEPT !.at = "look", !.kind = "live"]
              x == Cleared(s)
  <2>1. /\ Strips(s, x) /\ session' = [session EXCEPT ![p.sess] = x]
        /\ \A k \in Kinds : x.slot[k] = None
    BY <1>2, <1>7, StripsIs DEF Kinds
  <2>2. request' = [request EXCEPT ![c] = q]
    BY <1>2, <1>7 DEF TypeOK
  <2>3. /\ Goes(q) /\ q.kind = "live"
        /\ q.at = "look"
    BY <1>2, <1>7 DEF RequestRecords, Kinds
  <2>. HIDE DEF q, x, Goes
  <2>4. q.at \in {"reseed", "look", "apply", "stop"} /\ (q.at = "apply" <=> p.op = "config")
    BY <1>7, <2>3
  <2>. QED
    BY <1>3, <2>1, <2>2, <2>3, <2>4
<1>. QED
  BY <1>4, <1>5, <1>6, <1>7 DEF TearClear

LEMMA ConfigSteps ==
    ASSUME TypeOK, RequestOK, NEW c \in Clients, Config(c) PROVE WorksOn(c)
<1>. DEFINE p == request[c]
            s == session[p.sess]
            meets == InConfig(p.sess) # {}
<1>1. /\ p.at = "config" /\ UNCHANGED <<registry, older, run, sweep>>
      /\ p.at \notin Outside
  BY DEF Config, At, Outside
<1>2. /\ p \in RequestRecords /\ p.sess \in Sessions /\ s \in SessionRecords
      /\ p.op = "config" /\ run \in [Runs -> RunRecords]
  BY <1>1, HandlerIs DEF Posting
<1>3. PICK seeded \in BOOLEAN :
         /\ session' = [session EXCEPT ![p.sess].pinned = seeded,
                                       ![p.sess].disturbed = @ \/ meets]
         /\ request' = [request EXCEPT ![c] = [p EXCEPT !.at = "compile", !.seeded = seeded]]
  BY DEF Config
<1>. DEFINE q == [p EXCEPT !.at = "compile", !.seeded = seeded]
            marked == s.disturbed \/ meets
            x == [s EXCEPT !.pinned = seeded, !.disturbed = marked]
<1>4. session' = [session EXCEPT ![p.sess] = x]
  <2>. HIDE DEF meets
  <2>. QED
    BY <1>2, <1>3 DEF TypeOK
<1>5. /\ x \in SessionRecords /\ x.cfg = s.cfg /\ x.overlapped = s.overlapped
      /\ x.pinned = seeded /\ x.disturbed = marked /\ x.userSeed = s.userSeed
      /\ x.slot = s.slot /\ x.raced = s.raced
  <2>1. marked \in BOOLEAN
    BY <1>2 DEF SessionRecords
  <2>. HIDE DEF marked
  <2>. QED
    BY <1>2, <2>1 DEF SessionRecords
<1>6. /\ q \in RequestRecords /\ q.sess = p.sess /\ q.key = p.key /\ q.run = p.run
      /\ q.at = "compile" /\ q.op = "config" /\ q.seeded = seeded
  BY <1>2 DEF RequestRecords
<1>7. request' = [request EXCEPT ![c] = q]
  BY <1>3
<1>. HIDE DEF q, x
<1>8. Works(c, q, x)
  BY <1>1, <1>2, <1>4, <1>5, <1>6, <1>7 DEF Works, Outside, Posting, HasRun
<1>9. Keeps(c, q, x)
  BY <1>1, <1>5, <1>6 DEF Keeps, Tears
<1>10. SeedPosted(c, q, x)
  BY <1>1, <1>5, <1>6 DEF SeedPosted, Posted
<1>. QED
  BY <1>8, <1>9, <1>10 DEF WorksOn

LEMMA RefuseSteps ==
    ASSUME TypeOK, RequestOK, NEW c \in Clients, Refuse(c) PROVE WorksOn(c)
<1>. DEFINE p == request[c]
            s == session[p.sess]
            x == [s EXCEPT !.disturbed = TRUE]
<1>1. /\ p.at = "compile" /\ UNCHANGED <<registry, older, run, sweep>>
      /\ p.at \notin Outside /\ Done(c)
  BY DEF Refuse, At, Outside
<1>2. /\ p \in RequestRecords /\ p.sess \in Sessions /\ s \in SessionRecords
      /\ run \in [Runs -> RunRecords]
  BY <1>1, HandlerIs
<1>3. session' = [session EXCEPT ![p.sess] = x]
  BY DEF Refuse
<1>4. /\ x \in SessionRecords /\ x.cfg = s.cfg /\ x.overlapped = s.overlapped
      /\ x.pinned = s.pinned /\ x.disturbed /\ x.userSeed = s.userSeed
      /\ x.slot = s.slot
  BY <1>2 DEF SessionRecords
<1>. HIDE DEF x
<1>5. Works(c, Idle, x)
  BY <1>1, <1>2, <1>3, <1>4, IdleIs DEF Works, Posting, Done, HasRun
<1>6. Keeps(c, Idle, x)
  BY <1>1, <1>4, IdleIs DEF Keeps, Tears
<1>7. SeedRefused(c, Idle, x)
  BY <1>4, IdleIs DEF SeedRefused
<1>. QED
  BY <1>5, <1>6, <1>7 DEF WorksOn

LEMMA ApplySteps ==
    ASSUME TypeOK, RequestOK, NEW c \in Clients, Apply(c) PROVE WorksOn(c)
<1>. DEFINE p == request[c]
            s == session[p.sess]
            building == \E d \in Clients : request[d].sess = p.sess /\ At(d, "build")
            drawing == \E d \in Clients : request[d].sess = p.sess /\ At(d, "draw")
<1>1. /\ p.at = "apply" /\ UNCHANGED <<registry, older, run, sweep>>
      /\ p.at \notin Outside
  BY DEF Apply, At, Outside
<1>2. /\ p \in RequestRecords /\ p.sess \in Sessions /\ s \in SessionRecords
      /\ p.op = "config" /\ run \in [Runs -> RunRecords]
      /\ session = [session EXCEPT ![p.sess] = s]
  BY <1>1, HandlerIs DEF Posting
<1>3. Posted(p)
  BY <1>1, <1>2 DEF Posted
<1>4. ASSUME p.seeded, Done(c), UNCHANGED session PROVE WorksOn(c)
  <2>1. Works(c, Idle, s)
    BY <1>1, <1>2, <1>4, IdleIs DEF Works, Posting, Done, HasRun
  <2>2. Keeps(c, Idle, s)
    BY <1>1, <1>2, IdleIs DEF Keeps, Tears
  <2>3. SeedAssigned(c, Idle, s)
    BY <1>3, <1>4, IdleIs DEF SeedAssigned
  <2>. QED
    BY <2>1, <2>2, <2>3 DEF WorksOn
<1>5. ASSUME session' = [session EXCEPT ![p.sess] =
                [s EXCEPT !.cfg = p.cfg, !.userSeed = p.seeded,
                          !.overlapped = @ \/ building, !.raced = drawing]],
             request' = [request EXCEPT ![c] =
                [p EXCEPT !.op = "rebuild", !.at = "stop", !.kind = "live",
                          !.cfg = 0, !.seeded = FALSE]]
      PROVE  WorksOn(c)
  <2>. DEFINE q == [p EXCEPT !.op = "rebuild", !.at = "stop", !.kind = "live",
                             !.cfg = 0, !.seeded = FALSE]
              marked == s.overlapped \/ building
              y == [s EXCEPT !.cfg = p.cfg, !.userSeed = p.seeded, !.overlapped = marked]
              x == [s EXCEPT !.cfg = p.cfg, !.userSeed = p.seeded, !.overlapped = marked,
                             !.raced = drawing]
  <2>1. /\ request' = [request EXCEPT ![c] = q]
        /\ session' = [session EXCEPT ![p.sess] = x]
    BY <1>5
  <2>2. /\ x \in SessionRecords /\ x.overlapped = marked /\ x.pinned = s.pinned
        /\ x.disturbed = s.disturbed /\ x.userSeed = p.seeded /\ x.slot = s.slot
        /\ x.raced = drawing
    <3>1. marked \in BOOLEAN /\ drawing \in BOOLEAN
      BY <1>2 DEF SessionRecords
    <3>. HIDE DEF marked, drawing
    <3>2. /\ y \in SessionRecords /\ y.overlapped = marked /\ y.pinned = s.pinned
          /\ y.disturbed = s.disturbed /\ y.userSeed = p.seeded /\ y.slot = s.slot
      BY <1>2, <3>1 DEF SessionRecords, RequestRecords
    <3>3. x = [y EXCEPT !.raced = drawing]
      OBVIOUS
    <3>. HIDE DEF x, y
    <3>. QED
      BY <3>1, <3>2, <3>3 DEF SessionRecords
  <2>3. /\ q \in RequestRecords /\ q.sess = p.sess /\ q.key = p.key /\ q.run = p.run
        /\ q.at = "stop" /\ q.op = "rebuild" /\ q.kind = "live"
    <3>1. 0 \in 0..MaxConfig /\ "live" \in Kinds
      BY Facts DEF Kinds
    <3>. QED
      BY <1>2, <3>1 DEF RequestRecords
  <2>. HIDE DEF q, x
  <2>4. Works(c, q, x)
    BY <1>1, <1>2, <2>1, <2>2, <2>3 DEF Works, Outside, Posting, HasRun
  <2>5. Replaces(c, q, x)
    BY <2>2, <2>3 DEF Replaces, Tears
  <2>6. SeedAssigned(c, q, x)
    BY <1>3, <2>2, <2>3 DEF SeedAssigned, Posted
  <2>. QED
    BY <2>4, <2>5, <2>6 DEF WorksOn
<1>. QED
  BY <1>4, <1>5 DEF Apply

(***************************************************************************)
(* The inductive invariant, and what a handler's step does to it.          *)
(***************************************************************************)

LiveInv ==
    /\ TypeOK /\ RequestOK /\ SweepOK /\ Spared /\ Owned /\ BuildsCurrent
    /\ StaleOnlyIfOverlapped /\ SeedNoted

(* What PinSurvives says of a step. *)
PinKept ==
    \A s \in Known :
        session[s].userSeed /\ ~session'[s].userSeed
        => session[s].disturbed \/ session[s].raced \/ InConfig(s) # {}

(* Being seen moves a key of the registry, or a new one, behind all others.*)
LEMMA TouchOrders ==
    ASSUME Ordered, NEW k \in Keys, Touch(k), Held' = Held \cup {k}
    PROVE  Ordered'
<1>1. older' = Without(k) \cup ((Held \ {k}) \X {k})
  BY DEF Touch
<1>2. older' \subseteq Held' \X Held'
  BY <1>1 DEF Ordered, Without
<1>3. \A i, j : <<i, j>> \in older' <=>
         (\/ <<i, j>> \in older /\ i # k /\ j # k
          \/ i \in Held /\ i # k /\ j = k)
  BY <1>1 DEF Without
<1>4. ASSUME NEW i \in Held', NEW j \in Held', i # j
      PROVE  <<i, j>> \in older' \/ <<j, i>> \in older'
  BY <1>3, <1>4 DEF Ordered
<1>5. \A i \in Held' : <<i, i>> \notin older'
  BY <1>3 DEF Ordered
<1>6. ASSUME NEW h \in Held', NEW i \in Held', NEW j \in Held',
             <<h, i>> \in older', <<i, j>> \in older'
      PROVE  <<h, j>> \in older'
  <2>1. i # k /\ h # k /\ <<h, i>> \in older /\ h \in Held /\ i \in Held
    BY <1>3, <1>6
  <2>2. CASE j = k
    BY <1>3, <2>1, <2>2
  <2>3. CASE j # k
    BY <1>3, <1>6, <2>1, <2>3 DEF Ordered
  <2>. QED
    BY <2>2, <2>3
<1>. QED
  BY <1>2, <1>4, <1>5, <1>6 DEF Ordered

LEMMA DropOrders ==
    ASSUME Ordered, NEW k \in Keys, older' = Without(k), Held' = Held \ {k}
    PROVE  Ordered'
<1>1. \A i, j : <<i, j>> \in older' <=> <<i, j>> \in older /\ i # k /\ j # k
  BY DEF Without
<1>2. older' \subseteq Held' \X Held'
  BY DEF Ordered, Without
<1>. QED
  BY <1>1, <1>2 DEF Ordered

(* Where a handler's step leaves the requests, the sessions and the runs. *)
LEMMA HandlerFrame ==
    ASSUME TypeOK, RequestOK, NEW c \in Clients, request[c].at \notin Outside,
           NEW q, NEW x, Works(c, q, x)
    PROVE  /\ request[c].sess \in Known
           /\ request'[c] = q /\ \A d \in Clients \ {c} : request'[d] = request[d]
           /\ session'[request[c].sess] = x
           /\ \A s \in Sessions \ {request[c].sess} : session'[s] = session[s]
           /\ \A s : Inside(s)' /\ s \in Sessions => Inside(s)
           /\ Held' = Held /\ Known' \subseteq Known
           /\ \A s \in Sessions : Slots(s)' \subseteq Slots(s)
<1>. DEFINE p == request[c]
<1>1. /\ p.sess \in Sessions /\ request' = [request EXCEPT ![c] = q]
      /\ session' = [session EXCEPT ![p.sess] = x] /\ registry' = registry
      /\ q.sess \in {p.sess, None}
      /\ \A k \in Kinds : x.slot[k] \in {None, session[p.sess].slot[k]}
  BY IdleIs DEF Works
<1>2. /\ request'[c] = q /\ \A d \in Clients \ {c} : request'[d] = request[d]
      /\ session'[p.sess] = x
      /\ \A s \in Sessions \ {p.sess} : session'[s] = session[s]
  BY <1>1 DEF TypeOK
<1>3. ASSUME NEW s \in Sessions, Inside(s)' PROVE Inside(s)
  <2>1. PICK d \in Clients : request'[d].sess = s
    BY <1>3 DEF Inside
  <2>. QED
    BY <1>1, <1>2, <2>1, Facts DEF Inside
<1>4. Held' = Held /\ Known' \subseteq Known
  BY <1>1, <1>3 DEF Held, Known, Unused
<1>5. p.sess \in Known
  BY <1>1 DEF Known, Unused, Inside
<1>6. ASSUME NEW s \in Sessions PROVE Slots(s)' \subseteq Slots(s)
  <2>1. \A k \in Kinds : session'[s].slot[k] \in {None, session[s].slot[k]}
    BY <1>1, <1>2
  <2>. QED
    BY <2>1 DEF Slots
<1>. QED
  BY <1>2, <1>3, <1>4, <1>5, <1>6

LEMMA HandlerTypes ==
    ASSUME TypeOK, RequestOK, SweepOK, NEW c \in Clients,
           request[c].at \notin Outside, WorksOn(c), UNCHANGED uses
    PROVE  TypeOK' /\ RequestOK' /\ SweepOK'
<1>. DEFINE p == request[c]
<1>1. PICK q, x : Works(c, q, x)
  BY DEF WorksOn
<1>2. /\ request'[c] = q /\ \A d \in Clients \ {c} : request'[d] = request[d]
      /\ session'[p.sess] = x
      /\ \A s \in Sessions \ {p.sess} : session'[s] = session[s]
      /\ Held' = Held /\ Known' \subseteq Known
  BY <1>1, HandlerFrame
<1>3. /\ p.sess \in Sessions /\ registry' = registry /\ sweep' = sweep
      /\ older' = older \/ \E k \in Held : Touch(k)
      /\ q \in RequestRecords /\ x \in SessionRecords
      /\ session' = [session EXCEPT ![p.sess] = x]
      /\ request' = [request EXCEPT ![c] = q]
      /\ q = Idle \/ (q.sess = p.sess /\ q.key = p.key /\ q.at \notin Outside)
      /\ HasRun(q)
      /\ q.at \in Posting => q.op = "config"
      /\ q.op = "config" => q.at \in Posting \cup {"stop", "clear"}
      /\ \A k \in Kinds : x.slot[k] \in {None, session[p.sess].slot[k]}
      /\ run' \in [Runs -> RunRecords]
      /\ \A r \in Runs : run'[r].kind = run[r].kind
  BY <1>1 DEF Works
<1>4. Ordered'
  <2>1. CASE older' = older
    BY <1>2, <2>1 DEF TypeOK, Ordered
  <2>2. CASE \E k \in Held : Touch(k)
    <3>1. PICK k \in Held : Touch(k)
      BY <2>2
    <3>. QED
      BY <1>2, <3>1, TouchOrders DEF TypeOK, Held
  <2>. QED
    BY <1>3, <2>1, <2>2
<1>5. request' \in [Clients -> RequestRecords] /\ session' \in [Sessions -> SessionRecords]
  BY <1>3 DEF TypeOK
<1>6. ASSUME NEW s \in Known', NEW k \in Kinds, session'[s].slot[k] # None
      PROVE  run'[session'[s].slot[k]].kind = k
  <2>1. session'[s].slot[k] = session[s].slot[k] /\ s \in Known /\ s \in Sessions
    BY <1>2, <1>3, <1>6 DEF Known
  <2>2. session[s].slot[k] \in Runs
    BY <1>6, <2>1, SlotIs
  <2>3. run[session[s].slot[k]].kind = k
    BY <1>6, <2>1 DEF TypeOK
  <2>. QED
    BY <1>3, <2>1, <2>2, <2>3
<1>7. \A d \in Clients : HasRun(request'[d])
  BY <1>2, <1>3 DEF RequestOK
<1>8. TypeOK'
  <2>1. registry' \in [Keys -> Sessions \cup {None}] /\ run' \in [Runs -> RunRecords]
    BY <1>3 DEF TypeOK
  <2>2. \A j, k \in Held' : registry'[j] = registry'[k] => j = k
    BY <1>2, <1>3 DEF TypeOK
  <2>3. uses' \in Habits
    BY DEF TypeOK
  <2>4. sweep' \in [by : Clients \cup {None}, pass : 0..2, todo : SUBSET Keys,
                    victim : Keys \cup {None}, stopped : BOOLEAN, busy : SUBSET Keys]
    BY <1>3 DEF TypeOK
  <2>. QED
    BY <1>4, <1>5, <1>6, <2>1, <2>2, <2>3, <2>4 DEF TypeOK, RunRecords
<1>9. RequestOK'
  <2>1. p.at # "sweep" /\ sweep.by # c /\ p.key # None
    BY DEF RequestOK, Outside
  <2>2. /\ q.at \in Outside <=> q.sess = None
        /\ q.sess = None => q.run = None
        /\ q.at # "sweep" /\ (q.at # "idle" => q.key # None)
    BY <1>3, <2>1, IdleIs, Facts DEF Outside
  <2>3. q.op = "config" => q.at \in Posting \cup {"sweep", "stop", "clear"}
    BY <1>3
  <2>. QED
    BY <1>2, <1>3, <1>7, <2>1, <2>2, <2>3 DEF RequestOK
<1>10. SweepOK'
  BY <1>2, <1>3 DEF SweepOK, NoSweep
<1>. QED
  BY <1>8, <1>9, <1>10

LEMMA HandlerSpares ==
    ASSUME TypeOK, RequestOK, SweepOK, Spared, Owned, NEW c \in Clients,
           request[c].at \notin Outside, WorksOn(c)
    PROVE  Spared'
<1>. DEFINE p == request[c]
<1>1. PICK q, x : Works(c, q, x)
  BY DEF WorksOn
<1>2. /\ \A s : Inside(s)' /\ s \in Sessions => Inside(s)
      /\ \A s \in Sessions : Slots(s)' \subseteq Slots(s)
  BY <1>1, HandlerFrame
<1>3. /\ registry' = registry /\ sweep' = sweep
      /\ \A r \in Runs :
            run'[r].status \in Active => run[r].status \in Active \/ r = p.run
  BY <1>1 DEF Works
<1>4. SUFFICES ASSUME NEW k \in Doomed, k \notin sweep.busy, ~Inside(registry[k]),
                      ~IsActive(k), Inside(registry[k])' \/ IsActive(k)'
               PROVE  FALSE
  BY <1>3 DEF Spared, Doomed
<1>5. k \in Held
  BY DEF Doomed, SweepOK
<1>6. registry[k] \in Sessions /\ registry[k] \in Known
  BY <1>5 DEF TypeOK, Held, Known, Unused
<1>7. IsActive(k)'
  BY <1>2, <1>3, <1>4, <1>6
<1>8. PICK r \in Slots(registry[k])' : run'[r].status \in Active
  BY <1>3, <1>7 DEF IsActive
<1>9. r \in Slots(registry[k]) /\ r \in Runs
  <2>1. \A s \in Sessions : Slots(s) \subseteq Runs
    BY SlotIs DEF Slots
  <2>2. Slots(registry[k])' \subseteq Slots(registry[k])
    <3>1. registry'[k] = registry[k] /\ registry'[k] \in Sessions
      BY <1>3, <1>6
    <3>2. ASSUME NEW s \in Sessions, registry[k] = s, registry'[k] = s
          PROVE  Slots(registry[k])' \subseteq Slots(registry[k])
      BY <1>2, <3>2 DEF Slots
    <3>. QED
      BY <1>6, <3>1, <3>2
  <2>. QED
    BY <1>6, <1>8, <2>1, <2>2
<1>10. r = p.run
  BY <1>3, <1>4, <1>8, <1>9 DEF IsActive
<1>11. p.sess = registry[k]
  BY <1>6, <1>9, <1>10 DEF Owned
<1>. QED
  BY <1>4, <1>11 DEF Inside

LEMMA HandlerOwns ==
    ASSUME TypeOK, RequestOK, Owned, NEW c \in Clients,
           request[c].at \notin Outside, WorksOn(c)
    PROVE  Owned'
<1>. DEFINE p == request[c]
<1>1. PICK q, x : Works(c, q, x)
  BY DEF WorksOn
<1>2. /\ request'[c] = q /\ \A d \in Clients \ {c} : request'[d] = request[d]
      /\ Known' \subseteq Known /\ p.sess \in Known
      /\ \A s \in Sessions : Slots(s)' \subseteq Slots(s)
  BY <1>1, HandlerFrame
<1>3. /\ q = Idle \/ q.sess = p.sess
      /\ q.run \in {None, p.run} \cup Slots(p.sess)
  BY <1>1 DEF Works
<1>4. \A s \in Known' : s \in Known /\ s \in Sessions /\ Slots(s)' \subseteq Slots(s)
  BY <1>2 DEF Known
<1>5. \A s, t \in Known' : s # t => Slots(s)' \cap Slots(t)' = {}
  BY <1>4 DEF Owned
<1>6. ASSUME NEW d \in Clients, NEW s \in Known', request'[d].run \in Slots(s)'
      PROVE  request'[d].sess = s
  <2>1. s \in Known /\ request'[d].run \in Slots(s) /\ request'[d].run # None
    BY <1>4, <1>6 DEF Slots
  <2>2. CASE d # c
    BY <1>2, <2>1, <2>2 DEF Owned
  <2>3. CASE d = c
    <3>1. q.sess = p.sess /\ q.run \in Slots(s)
      BY <1>2, <1>3, <2>1, <2>3, IdleIs
    <3>2. CASE q.run = p.run
      BY <1>2, <2>1, <2>3, <3>1, <3>2 DEF Owned
    <3>3. CASE q.run \in Slots(p.sess)
      <4>1. p.sess = s
        BY <1>2, <2>1, <3>1, <3>3 DEF Owned
      <4>. QED
        BY <1>2, <2>3, <3>1, <4>1
    <3>. QED
      BY <1>2, <1>3, <2>1, <2>3, <3>2, <3>3
  <2>. QED
    BY <2>2, <2>3
<1>. QED
  BY <1>5, <1>6 DEF Owned

LEMMA HandlerBuildsCurrent ==
    ASSUME TypeOK, RequestOK, BuildsCurrent, NEW c \in Clients,
           request[c].at \notin Outside, WorksOn(c)
    PROVE  BuildsCurrent'
<1>. DEFINE p == request[c]
            s == session[p.sess]
<1>1. PICK q, x : Works(c, q, x) /\ (Keeps(c, q, x) \/ Replaces(c, q, x))
  BY DEF WorksOn
<1>2. /\ request'[c] = q /\ \A d \in Clients \ {c} : request'[d] = request[d]
      /\ session'[p.sess] = x
      /\ \A t \in Sessions \ {p.sess} : session'[t] = session[t]
  BY <1>1, HandlerFrame
<1>3. /\ q.at = "build" => q.sess = p.sess
      /\ q.at = "build" => q.cfg = x.cfg
  BY <1>1, IdleIs DEF Works, Keeps, Replaces
<1>4. ASSUME NEW d \in Clients, request'[d].at = "build"
      PROVE  LET t == session'[request'[d].sess]
             IN  request'[d].cfg = t.cfg \/ t.overlapped
  <2>1. CASE d = c
    BY <1>2, <1>3, <1>4, <2>1
  <2>2. CASE d # c
    <3>1. /\ request'[d] = request[d] /\ request[d].at = "build"
          /\ request[d].sess \in Sessions
          /\ \/ request[d].cfg = session[request[d].sess].cfg
             \/ session[request[d].sess].overlapped
      BY <1>2, <1>4, <2>2, HandlerIs DEF BuildsCurrent, Outside
    <3>2. CASE request[d].sess # p.sess
      BY <1>2, <3>1, <3>2
    <3>3. CASE request[d].sess = p.sess /\ Keeps(c, q, x)
      BY <1>2, <3>1, <3>3 DEF Keeps
    <3>4. CASE request[d].sess = p.sess /\ Replaces(c, q, x)
      BY <1>2, <3>1, <3>4 DEF Replaces, At
    <3>. QED
      BY <1>1, <3>2, <3>3, <3>4
  <2>. QED
    BY <2>1, <2>2
<1>. QED
  BY <1>4 DEF BuildsCurrent

(* A run of before the configuration stays marked, or is being torn down. *)
LEMMA HandlerNotStale ==
    ASSUME TypeOK, RequestOK, StaleOnlyIfOverlapped, NEW c \in Clients,
           request[c].at \notin Outside, WorksOn(c)
    PROVE  StaleOnlyIfOverlapped'
<1>. DEFINE p == request[c]
<1>1. PICK q, x : Works(c, q, x) /\ (Keeps(c, q, x) \/ Replaces(c, q, x))
  BY DEF WorksOn
<1>2. /\ request'[c] = q /\ \A d \in Clients \ {c} : request'[d] = request[d]
      /\ session'[p.sess] = x
      /\ \A t \in Sessions \ {p.sess} : session'[t] = session[t]
      /\ Known' \subseteq Known
  BY <1>1, HandlerFrame
<1>3. /\ q = Idle \/ q.sess = p.sess
      /\ \A k \in Kinds : x.slot[k] \in {None, session[p.sess].slot[k]}
      /\ \A r \in Runs : run'[r].cfg = run[r].cfg
  BY <1>1 DEF Works
<1>4. SUFFICES ASSUME NEW s \in Known', NEW k \in Kinds, session'[s].slot[k] # None,
                      run'[session'[s].slot[k]].cfg # session'[s].cfg
               PROVE  session'[s].overlapped \/ TearingDown(s, k)'
  BY DEF StaleOnlyIfOverlapped
<1>. DEFINE r == session[s].slot[k]
<1>5. s \in Known /\ s \in Sessions
  BY <1>2 DEF Known
<1>6. session'[s].slot[k] = r /\ r # None
  BY <1>2, <1>3, <1>4, <1>5
<1>7. r \in Runs
  BY <1>5, <1>6, SlotIs
<1>8. run[r].cfg # session'[s].cfg
  BY <1>3, <1>4, <1>6, <1>7
<1>9. ASSUME session'[s].cfg = session[s].cfg,
             session'[s].overlapped = session[s].overlapped,
             s # p.sess \/ (Tears(p, k) => Tears(q, k))
      PROVE  session'[s].overlapped \/ TearingDown(s, k)'
  <2>1. session[s].overlapped \/ TearingDown(s, k)
    BY <1>5, <1>6, <1>8, <1>9 DEF StaleOnlyIfOverlapped
  <2>2. CASE TearingDown(s, k)
    <3>1. PICK d \in Clients : request[d].sess = s /\ Tears(request[d], k)
      BY <2>2 DEF TearingDown, Tears
    <3>2. request'[d].sess = s /\ Tears(request'[d], k)
      <4>1. CASE d # c
        BY <1>2, <3>1, <4>1
      <4>2. CASE d = c
        <5>1. Tears(q, k)
          BY <1>9, <3>1, <4>2
        <5>2. q # Idle
          BY <5>1, IdleIs DEF Tears
        <5>. QED
          BY <1>2, <1>3, <3>1, <4>2, <5>1, <5>2
      <4>. QED
        BY <4>1, <4>2
    <3>. QED
      BY <3>2 DEF TearingDown, Tears
  <2>. QED
    BY <1>9, <2>1, <2>2
<1>10. CASE s # p.sess
  BY <1>2, <1>5, <1>9, <1>10
<1>11. CASE s = p.sess /\ Keeps(c, q, x)
  <2>1. Tears(p, k) => Tears(q, k)
    BY <1>2, <1>4, <1>11 DEF Keeps
  <2>2. x.cfg = session[s].cfg /\ x.overlapped = session[s].overlapped
    BY <1>11 DEF Keeps
  <2>. QED
    BY <1>2, <1>9, <1>11, <2>1, <2>2
<1>12. CASE s = p.sess /\ Replaces(c, q, x)
  <2>1. Tears(q, k)
    BY <1>12 DEF Replaces
  <2>2. q # Idle
    BY <2>1, IdleIs DEF Tears
  <2>. QED
    BY <1>2, <1>3, <1>12, <2>1, <2>2 DEF TearingDown, Tears
<1>. QED
  BY <1>1, <1>10, <1>11, <1>12

LEMMA HandlerNotesSeed ==
    ASSUME TypeOK, RequestOK, SeedNoted, NEW c \in Clients,
           request[c].at \notin Outside, WorksOn(c)
    PROVE  SeedNoted' /\ PinKept
<1>. DEFINE p == request[c]
            s == session[p.sess]
<1>1. PICK q, x : /\ Works(c, q, x)
                  /\ \/ SeedStays(c, q, x)
                     \/ SeedDrawn(c, q, x)
                     \/ SeedPosted(c, q, x)
                     \/ SeedAssigned(c, q, x)
                     \/ SeedRefused(c, q, x)
  BY DEF WorksOn
<1>2. /\ request'[c] = q /\ \A d \in Clients \ {c} : request'[d] = request[d]
      /\ session'[p.sess] = x
      /\ \A t \in Sessions \ {p.sess} : session'[t] = session[t]
      /\ Known' \subseteq Known /\ p.sess \in Known /\ p.sess \in Sessions
  BY <1>1, HandlerFrame DEF Known
<1>3. Posted(q) => q.sess = p.sess
  BY <1>1, IdleIs DEF Works
<1>4. q.sess = p.sess \/ q.sess = None
  BY <1>1, IdleIs DEF Works
<1>5. /\ \A t : InConfig(t) = {d \in Clients : request[d].sess = t /\ Posted(request[d])}
      /\ \A t : InConfig(t)' = {d \in Clients : request'[d].sess = t /\ Posted(request'[d])}
  BY DEF InConfig, Posted
<1>6. s.userSeed => s.pinned \/ s.disturbed \/ InConfig(p.sess) # {}
  BY <1>2 DEF SeedNoted
<1>7. Posted(p) => c \in InConfig(p.sess) /\ (p.seeded = s.pinned \/ s.disturbed)
  BY <1>2, <1>5 DEF SeedNoted
<1>8. ASSUME NEW t \in Sessions, NEW d \in InConfig(t)'
      PROVE  request'[d].seeded = session'[t].pinned \/ session'[t].disturbed
  <2>1. d \in Clients /\ request'[d].sess = t /\ Posted(request'[d])
    BY <1>5, <1>8
  <2>2. CASE d = c
    <3>1. t = p.sess /\ Posted(q) /\ request'[d] = q /\ session'[t] = x
      BY <1>2, <1>3, <2>1, <2>2
    <3>2. q.seeded = x.pinned \/ x.disturbed
      BY <1>1, <1>7, <3>1 DEF SeedStays, SeedDrawn, SeedPosted, SeedAssigned, SeedRefused
    <3>. QED
      BY <3>1, <3>2
  <2>3. CASE d # c
    <3>1. request'[d] = request[d] /\ d \in InConfig(t)
      BY <1>2, <1>5, <2>1, <2>3
    <3>2. request[d].seeded = session[t].pinned \/ session[t].disturbed
      BY <3>1 DEF SeedNoted
    <3>3. CASE t # p.sess
      BY <1>2, <3>1, <3>2, <3>3
    <3>4. CASE t = p.sess
      <4>1. request[d].seeded = x.pinned \/ x.disturbed
        BY <1>1, <3>1, <3>2, <3>4 DEF SeedStays, SeedDrawn, SeedPosted, SeedAssigned, SeedRefused
      <4>. QED
        BY <1>2, <3>1, <3>4, <4>1
    <3>. QED
      BY <3>3, <3>4
  <2>. QED
    BY <2>2, <2>3
<1>9. ASSUME NEW t \in Known', session'[t].userSeed
      PROVE  session'[t].pinned \/ session'[t].disturbed \/ InConfig(t)' # {}
  <2>1. t \in Known /\ t \in Sessions
    BY <1>2 DEF Known
  <2>2. CASE t # p.sess
    <3>1. session'[t] = session[t]
      BY <1>2, <2>1, <2>2
    <3>2. session[t].pinned \/ session[t].disturbed \/ InConfig(t) # {}
      BY <1>9, <2>1, <3>1 DEF SeedNoted
    <3>3. InConfig(t) \subseteq InConfig(t)'
      BY <1>2, <1>5, <2>2
    <3>. QED
      BY <3>1, <3>2, <3>3
  <2>3. CASE t = p.sess
    <3>1. session'[t] = x /\ x.userSeed
      BY <1>2, <1>9, <2>3
    <3>2. Posted(q) => InConfig(t)' # {}
      BY <1>2, <1>3, <1>5, <2>3
    <3>3. ASSUME Posted(p) <=> Posted(q), NEW d \in InConfig(t)
          PROVE  d \in InConfig(t)'
      <4>1. CASE d = c
        BY <1>2, <1>3, <1>5, <2>3, <3>3, <4>1
      <4>2. CASE d # c
        BY <1>2, <1>5, <3>3, <4>2
      <4>. QED
        BY <4>1, <4>2
    <3>4. x.pinned \/ x.disturbed \/ InConfig(t)' # {}
      <4>1. CASE SeedStays(c, q, x)
        BY <1>6, <2>3, <3>1, <3>3, <4>1 DEF SeedStays
      <4>2. CASE SeedPosted(c, q, x)
        BY <3>2, <4>2 DEF SeedPosted
      <4>3. CASE SeedAssigned(c, q, x)
        BY <1>7, <3>1, <4>3 DEF SeedAssigned
      <4>4. CASE SeedRefused(c, q, x)
        BY <4>4 DEF SeedRefused
      <4>5. CASE SeedDrawn(c, q, x)
        BY <3>1, <4>5 DEF SeedDrawn
      <4>. QED
        BY <1>1, <4>1, <4>2, <4>3, <4>4, <4>5
    <3>. QED
      BY <2>3, <3>1, <3>4
  <2>. QED
    BY <2>2, <2>3
<1>10. ASSUME NEW t \in Known, session[t].userSeed, ~session'[t].userSeed
       PROVE  session[t].disturbed \/ session[t].raced \/ InConfig(t) # {}
  <2>1. t = p.sess /\ ~x.userSeed
    BY <1>2, <1>10 DEF Known
  <2>2. CASE SeedDrawn(c, q, x)
    <3>1. DrawsOwn(t)
      BY <2>1, <2>2 DEF SeedDrawn, SeedNoted
    <3>. QED
      BY <1>10, <3>1 DEF DrawsOwn
  <2>. QED
    BY <1>1, <1>7, <1>10, <2>1, <2>2 DEF SeedStays, SeedPosted, SeedAssigned, SeedRefused
<1>11. ASSUME NEW d \in Clients, request'[d].at = "draw"
       PROVE  DrawsOwn(request[d].sess)'
  <2>1. CASE d = c
    <3>1. q.at = "draw" /\ request'[d].sess = p.sess
      BY <1>2, <1>11, <2>1, <1>1, IdleIs DEF Works
    <3>2. SeedStays(c, q, x)
      BY <1>1, <3>1 DEF SeedDrawn, SeedPosted, SeedAssigned, SeedRefused
    <3>3. ~Posted(q) /\ ~Posted(p)
      BY <1>1, <3>1, <3>2 DEF Works, SeedStays, Posted, Posting
    <3>4. ~s.pinned /\ x.userSeed = s.userSeed /\ x.disturbed = s.disturbed
      BY <3>1, <3>2 DEF SeedStays
    <3>5. PICK t \in Sessions : t = p.sess
      BY <1>2
    <3>6. SUFFICES ASSUME s.userSeed, ~s.disturbed
                   PROVE  \E e \in InConfig(t)' : ~request'[e].seeded
      BY <1>2, <3>1, <3>4, <3>5 DEF DrawsOwn
    <3>7. PICK e \in InConfig(t) : ~request[e].seeded
      BY <1>2, <1>6, <3>4, <3>5, <3>6 DEF SeedNoted
    <3>8. e # c /\ e \in Clients
      BY <1>5, <3>3
    <3>. QED
      BY <1>2, <1>5, <3>7, <3>8
  <2>2. CASE d # c
    <3>1. /\ request'[d] = request[d] /\ request[d].at = "draw"
          /\ DrawsOwn(request[d].sess) /\ request[d].sess \in Sessions
      BY <1>2, <1>11, <2>2, HandlerIs DEF SeedNoted, Outside
    <3>2. PICK t \in Sessions : t = request[d].sess
      BY <3>1
    <3>3. SUFFICES ASSUME session'[t].userSeed, ~session'[t].raced,
                          ~session'[t].disturbed
                   PROVE  \E e \in InConfig(t)' : ~request'[e].seeded
      BY <3>1, <3>2 DEF DrawsOwn
    <3>4. CASE t # p.sess
      <4>1. PICK e \in InConfig(t) : ~request[e].seeded
        BY <1>2, <3>1, <3>2, <3>3, <3>4 DEF DrawsOwn
      <4>. QED
        BY <1>2, <1>5, <3>4, <4>1
    <3>5. CASE t = p.sess
      <4>1. SeedStays(c, q, x) \/ SeedPosted(c, q, x) \/ SeedAssigned(c, q, x)
        BY <1>1, <1>2, <3>3, <3>5 DEF SeedDrawn, SeedRefused
      <4>2. s.userSeed /\ ~s.raced /\ ~s.disturbed
        BY <1>2, <3>1, <3>2, <3>3, <3>5, <4>1 DEF SeedStays, SeedPosted, SeedAssigned, At
      <4>3. PICK e \in InConfig(t) : ~request[e].seeded
        BY <3>1, <3>2, <3>5, <4>2 DEF DrawsOwn
      <4>4. CASE e # c
        BY <1>2, <1>5, <4>3, <4>4
      <4>5. CASE e = c
        <5>1. Posted(p) /\ ~p.seeded
          BY <1>5, <4>3, <4>5
        <5>2. SeedStays(c, q, x)
          BY <1>2, <3>1, <3>2, <3>3, <3>5, <4>1, <5>1 DEF SeedPosted, SeedAssigned, At
        <5>3. Posted(q) /\ ~q.seeded /\ q.sess = p.sess
          BY <1>3, <5>1, <5>2 DEF SeedStays
        <5>. QED
          BY <1>2, <1>5, <3>5, <5>3
      <4>. QED
        BY <4>4, <4>5
    <3>. QED
      BY <3>4, <3>5
  <2>. QED
    BY <2>1, <2>2
<1>. QED
  BY <1>8, <1>9, <1>10, <1>11 DEF SeedNoted, PinKept

(* What a restart in the middle of drawing relies on stays, when a request *)
(* that neither draws a seed nor posts one changes, and no session it knows.*)
LEMMA DrawsStay ==
    ASSUME TypeOK, RequestOK, SeedNoted, NEW c \in Clients,
           \A d \in Clients \ {c} :
              /\ request'[d] = request[d]
              /\ request[d].at = "draw" =>
                    LET s == session[request[d].sess]
                        t == session'[request[d].sess]
                    IN  /\ t.userSeed = s.userSeed /\ t.raced = s.raced
                        /\ t.disturbed = s.disturbed,
           request'[c].at # "draw",
           \A s \in Sessions : c \notin InConfig(s)
    PROVE  \A d \in Clients : request'[d].at = "draw" => DrawsOwn(request[d].sess)'
<1>1. SUFFICES ASSUME NEW d \in Clients, request'[d].at = "draw"
               PROVE  DrawsOwn(request[d].sess)'
  OBVIOUS
<1>2. d # c /\ request'[d] = request[d] /\ request[d].at = "draw"
  BY <1>1
<1>3. PICK s \in Sessions : request[d].sess = s
  BY <1>2, HandlerIs DEF Outside
<1>4. /\ session'[s].userSeed = session[s].userSeed
      /\ session'[s].raced = session[s].raced
      /\ session'[s].disturbed = session[s].disturbed
  BY <1>2, <1>3
<1>5. DrawsOwn(s)
  BY <1>2, <1>3 DEF SeedNoted
<1>6. ASSUME NEW e \in InConfig(s), ~request[e].seeded
      PROVE  e \in InConfig(s)' /\ ~request'[e].seeded
  BY <1>6 DEF InConfig
<1>. QED
  BY <1>2, <1>3, <1>4, <1>5, <1>6 DEF DrawsOwn

LEMMA HandlerKeeps ==
    ASSUME LiveInv, NEW c \in Clients, request[c].at \notin Outside, WorksOn(c),
           UNCHANGED uses
    PROVE  LiveInv' /\ PinKept
<1>1. /\ TypeOK /\ RequestOK /\ SweepOK /\ Spared /\ Owned /\ BuildsCurrent
      /\ StaleOnlyIfOverlapped /\ SeedNoted
  BY DEF LiveInv
<1>2. TypeOK' /\ RequestOK' /\ SweepOK'
  BY <1>1, HandlerTypes
<1>3. Spared' /\ Owned'
  BY <1>1, HandlerSpares, HandlerOwns
<1>4. BuildsCurrent' /\ StaleOnlyIfOverlapped'
  BY <1>1, HandlerBuildsCurrent, HandlerNotStale
<1>5. SeedNoted' /\ PinKept
  BY <1>1, HandlerNotesSeed
<1>. QED
  BY <1>2, <1>3, <1>4, <1>5 DEF LiveInv

(***************************************************************************)
(* The sweep, and a run that ends.                                         *)
(***************************************************************************)

(* Only runs change, none in kind or configuration, and none becomes active*)
RunsRest ==
    /\ UNCHANGED <<registry, older, session, request, uses>>
    /\ run' \in [Runs -> RunRecords]
    /\ \A r \in Runs :
          /\ run'[r].kind = run[r].kind /\ run'[r].cfg = run[r].cfg
          /\ run'[r].status \in Active => run[r].status \in Active

SweepRecords ==
    [by : Clients \cup {None}, pass : 0..2, todo : SUBSET Keys,
     victim : Keys \cup {None}, stopped : BOOLEAN, busy : SUBSET Keys]

LEMMA RestKeeps ==
    ASSUME LiveInv, RunsRest, sweep' \in SweepRecords, sweep'.by = sweep.by,
           SweepOK', Spared'
    PROVE  LiveInv' /\ PinKept
<1>1. /\ TypeOK /\ RequestOK /\ Owned /\ BuildsCurrent
      /\ StaleOnlyIfOverlapped /\ SeedNoted
  BY DEF LiveInv
<1>2. /\ registry' = registry /\ older' = older /\ session' = session
      /\ request' = request /\ uses' = uses
  BY DEF RunsRest
<1>3. Held' = Held /\ Known' = Known
  BY <1>2 DEF Held, Known, Unused, Inside
<1>4. \A s \in Known, k \in Kinds :
         session[s].slot[k] # None => session[s].slot[k] \in Runs
  BY <1>1, SlotIs DEF Known
<1>5. TypeOK'
  <2>1. Ordered'
    BY <1>1, <1>2, <1>3 DEF TypeOK, Ordered
  <2>2. run' \in [Runs -> [kind : Kinds, cfg : 0..MaxConfig, status : Statuses]]
    BY DEF RunsRest, RunRecords
  <2>3. \A s \in Known', k \in Kinds :
           session'[s].slot[k] # None => run'[session'[s].slot[k]].kind = k
    BY <1>1, <1>2, <1>3, <1>4 DEF TypeOK, RunsRest
  <2>4. /\ registry' \in [Keys -> Sessions \cup {None}]
        /\ \A j, k \in Held' : registry'[j] = registry'[k] => j = k
        /\ session' \in [Sessions -> SessionRecords]
        /\ request' \in [Clients -> RequestRecords] /\ uses' \in Habits
    BY <1>1, <1>2, <1>3 DEF TypeOK
  <2>. QED
    BY <2>1, <2>2, <2>3, <2>4 DEF TypeOK, SweepRecords
<1>6. RequestOK'
  BY <1>1, <1>2 DEF RequestOK
<1>7. Owned'
  <2>1. \A s : Slots(s)' = Slots(s)
    BY <1>2 DEF Slots
  <2>. QED
    BY <1>1, <1>2, <1>3, <2>1 DEF Owned
<1>8. BuildsCurrent'
  BY <1>1, <1>2 DEF BuildsCurrent
<1>9. StaleOnlyIfOverlapped'
  <2>1. \A s, k : TearingDown(s, k)' <=> TearingDown(s, k)
    BY <1>2 DEF TearingDown
  <2>. QED
    BY <1>1, <1>2, <1>3, <1>4, <2>1 DEF StaleOnlyIfOverlapped, RunsRest
<1>10. SeedNoted' /\ PinKept
  <2>1. \A s : InConfig(s)' = InConfig(s)
    BY <1>2 DEF InConfig
  <2>2. \A s : DrawsOwn(s)' <=> DrawsOwn(s)
    BY <1>2, <2>1 DEF DrawsOwn
  <2>. QED
    BY <1>1, <1>2, <1>3, <2>1, <2>2 DEF SeedNoted, PinKept
<1>. QED
  BY <1>5, <1>6, <1>7, <1>8, <1>9, <1>10 DEF LiveInv

(* Nothing more is doomed, nobody enters and nothing wakes. *)
LEMMA RestSpares ==
    ASSUME LiveInv, RunsRest, Doomed' \subseteq Doomed, sweep'.busy = sweep.busy
    PROVE  Spared'
<1>1. registry' = registry /\ session' = session /\ request' = request
  BY DEF RunsRest
<1>2. \A s \in Sessions : Slots(s) \subseteq Runs
  BY SlotIs DEF LiveInv, Slots
<1>3. SUFFICES ASSUME NEW k \in Doomed', k \notin sweep.busy
               PROVE  ~Inside(registry[k])' /\ ~IsActive(k)'
  BY DEF Spared
<1>4. k \in Doomed /\ k \in Held /\ registry[k] \in Sessions
  BY <1>3 DEF Doomed, LiveInv, SweepOK, TypeOK, Held
<1>5. ~Inside(registry[k]) /\ ~IsActive(k)
  BY <1>3, <1>4 DEF LiveInv, Spared
<1>6. Slots(registry[k])' = Slots(registry[k])
  BY <1>1 DEF Slots
<1>. QED
  BY <1>1, <1>2, <1>4, <1>5, <1>6 DEF IsActive, Inside, RunsRest

LEMMA RunEndsKeeps ==
    ASSUME LiveInv, NEW r \in Runs, RunEnds(r), UNCHANGED uses
    PROVE  LiveInv' /\ PinKept
<1>1. /\ TypeOK /\ SweepOK /\ run \in [Runs -> RunRecords] /\ sweep \in SweepRecords
  BY DEF LiveInv, TypeOK, RunRecords, SweepRecords
<1>2. PICK end \in {"COMPLETED", "ERROR"} : run' = [run EXCEPT ![r].status = end]
  BY DEF RunEnds
<1>3. RunsRest /\ sweep' = sweep
  BY <1>1, <1>2 DEF RunEnds, RunsRest, RunRecords, Statuses, Active
<1>4. SweepOK'
  BY <1>1, <1>3 DEF SweepOK, NoSweep, Held, RunsRest
<1>5. Spared'
  BY <1>3, RestSpares DEF Doomed
<1>. QED
  BY <1>1, <1>3, <1>4, <1>5, RestKeeps

(* What the sweep's steps start from, c being the request that sweeps. *)
LEMMA SweepIs ==
    ASSUME LiveInv, NEW c \in Clients, sweep.by = c
    PROVE  /\ TypeOK /\ SweepOK /\ sweep \in SweepRecords /\ sweep.by # None
           /\ run \in [Runs -> RunRecords] /\ sweep.pass \in {1, 2}
           /\ request[c].at = "sweep" /\ request[c].sess = None
           /\ request[c].key \in Keys /\ request[c] \in RequestRecords
           /\ \A d \in Clients : request[d].at = "sweep" => d = c
<1>1. /\ TypeOK /\ SweepOK /\ RequestOK /\ sweep \in SweepRecords /\ sweep.by # None
      /\ run \in [Runs -> RunRecords] /\ request[c] \in RequestRecords
  BY Facts DEF LiveInv, TypeOK, RunRecords, SweepRecords
<1>2. request[c].at = "sweep" /\ request[c].sess = None /\ request[c].key # None
  BY <1>1 DEF RequestOK, Outside
<1>. QED
  BY <1>1, <1>2 DEF SweepOK, RequestOK, RequestRecords

LEMMA SweepLookKeeps ==
    ASSUME LiveInv, NEW c \in Clients, SweepLook(c), UNCHANGED uses
    PROVE  LiveInv' /\ PinKept
<1>1. /\ sweep.by = c /\ sweep.pass = 1 /\ sweep.victim = None
      /\ UNCHANGED <<registry, older, session, run, request>>
  BY DEF SweepLook, Sweeping
<1>2. /\ TypeOK /\ SweepOK /\ sweep \in SweepRecords /\ sweep.by # None
      /\ run \in [Runs -> RunRecords]
  BY <1>1, SweepIs
<1>3. ~sweep.stopped /\ sweep.todo \subseteq Held /\ sweep.todo \subseteq Keys
  BY <1>1, <1>2 DEF SweepOK, Held
<1>4. PICK k \in sweep.todo :
         \E victim \in {None} \cup (IF IsActive(k) THEN {} ELSE {k} \ Busy) :
            sweep' = [sweep EXCEPT !.todo = @ \ {k}, !.victim = victim]
  BY DEF SweepLook
<1>5. PICK victim :
         /\ victim = None \/ (victim = k /\ ~IsActive(k) /\ k \notin Busy)
         /\ sweep' = [sweep EXCEPT !.todo = @ \ {k}, !.victim = victim]
  BY <1>4
<1>6. /\ sweep'.by = sweep.by /\ sweep'.pass = 1 /\ sweep'.todo = sweep.todo \ {k}
      /\ sweep'.victim = victim /\ sweep'.busy = sweep.busy /\ ~sweep'.stopped
      /\ sweep' \in SweepRecords
  BY <1>1, <1>2, <1>3, <1>4, <1>5 DEF SweepRecords
<1>7. Held' = Held /\ RunsRest
  BY <1>1, <1>2 DEF Held, RunsRest
<1>8. SweepOK'
  BY <1>2, <1>3, <1>5, <1>6, <1>7 DEF SweepOK
<1>9. Spared'
  <2>1. SUFFICES ASSUME NEW j \in Doomed'
                 PROVE  ~Inside(registry[j])' /\ ~IsActive(j)'
    BY DEF Spared
  <2>2. j = k /\ victim = k
    BY <1>5, <1>6, <2>1 DEF Doomed
  <2>3. ~Inside(registry[k]) /\ ~IsActive(k)
    BY <1>3, <1>5, <2>2, Facts DEF Busy
  <2>. QED
    BY <1>1, <2>2, <2>3 DEF Inside, IsActive, Slots
<1>. QED
  BY <1>6, <1>7, <1>8, <1>9, RestKeeps

LEMMA SweepOverflowKeeps ==
    ASSUME LiveInv, NEW c \in Clients, SweepOverflow(c), UNCHANGED uses
    PROVE  LiveInv' /\ PinKept
<1>. DEFINE over == OverCap({k \in Held : ~IsActive(k)})
<1>1. /\ sweep.by = c /\ sweep.pass = 1 /\ sweep.victim = None
      /\ UNCHANGED <<registry, older, session, run, request>>
      /\ sweep' = [sweep EXCEPT !.pass = 2, !.busy = Busy, !.todo = over]
  BY DEF SweepOverflow, Sweeping
<1>2. /\ TypeOK /\ SweepOK /\ sweep \in SweepRecords /\ sweep.by # None
      /\ run \in [Runs -> RunRecords]
  BY <1>1, SweepIs
<1>3. over \subseteq {k \in Held : ~IsActive(k)} /\ Held \subseteq Keys /\ Busy \subseteq Keys
  BY DEF OverCap, Held, Busy
<1>. HIDE DEF over
<1>4. /\ sweep'.by = sweep.by /\ sweep'.pass = 2 /\ sweep'.todo = over
      /\ sweep'.victim = None /\ sweep'.busy = Busy
      /\ sweep'.stopped = sweep.stopped /\ sweep' \in SweepRecords
  <2>. DEFINE second == [sweep EXCEPT !.pass = 2]
              noted  == [second EXCEPT !.busy = Busy]
  <2>1. /\ second \in SweepRecords /\ second.by = sweep.by /\ second.pass = 2
        /\ second.victim = sweep.victim /\ second.stopped = sweep.stopped
    BY <1>2 DEF SweepRecords
  <2>2. /\ noted \in SweepRecords /\ noted.by = sweep.by /\ noted.pass = 2
        /\ noted.victim = sweep.victim /\ noted.stopped = sweep.stopped
        /\ noted.busy = Busy
    <3>. HIDE DEF second
    <3>. QED
      BY <1>3, <2>1 DEF SweepRecords
  <2>3. sweep' = [noted EXCEPT !.todo = over]
    BY <1>1
  <2>. HIDE DEF noted
  <2>. QED
    BY <1>1, <1>3, <2>2, <2>3 DEF SweepRecords
<1>5. Held' = Held /\ RunsRest
  BY <1>1, <1>2 DEF Held, RunsRest
<1>6. SweepOK'
  BY <1>1, <1>2, <1>3, <1>4, <1>5 DEF SweepOK
<1>7. Spared'
  <2>1. SUFFICES ASSUME NEW j \in Doomed', j \notin Busy
                 PROVE  ~Inside(registry[j])' /\ ~IsActive(j)'
    BY <1>4 DEF Spared
  <2>2. j \in over
    BY <1>4, <2>1 DEF Doomed
  <2>3. ~Inside(registry[j]) /\ ~IsActive(j)
    BY <1>3, <2>1, <2>2 DEF Busy
  <2>. QED
    BY <1>1, <2>3 DEF Inside, IsActive, Slots
<1>. QED
  BY <1>4, <1>5, <1>6, <1>7, RestKeeps

LEMMA SweepTakeKeeps ==
    ASSUME LiveInv, NEW c \in Clients, SweepTake(c), UNCHANGED uses
    PROVE  LiveInv' /\ PinKept
<1>1. /\ sweep.by = c /\ sweep.pass = 2 /\ sweep.victim = None
      /\ UNCHANGED <<registry, older, session, run, request>>
  BY DEF SweepTake, Sweeping
<1>2. /\ TypeOK /\ SweepOK /\ sweep \in SweepRecords /\ sweep.by # None
      /\ run \in [Runs -> RunRecords]
  BY <1>1, SweepIs
<1>3. ~sweep.stopped /\ sweep.todo \subseteq Held /\ sweep.todo \subseteq Keys
  BY <1>1, <1>2 DEF SweepOK, Held
<1>4. PICK k \in sweep.todo : sweep' = [sweep EXCEPT !.todo = @ \ {k}, !.victim = k]
  BY DEF SweepTake
<1>5. /\ sweep'.by = sweep.by /\ sweep'.pass = 2 /\ sweep'.todo = sweep.todo \ {k}
      /\ sweep'.victim = k /\ sweep'.busy = sweep.busy /\ ~sweep'.stopped
      /\ sweep' \in SweepRecords
  BY <1>1, <1>2, <1>3, <1>4 DEF SweepRecords
<1>6. Held' = Held /\ RunsRest
  BY <1>1, <1>2 DEF Held, RunsRest
<1>7. SweepOK'
  BY <1>2, <1>3, <1>5, <1>6 DEF SweepOK
<1>8. Spared'
  <2>1. Doomed' \subseteq Doomed
    BY <1>1, <1>5 DEF Doomed
  <2>. QED
    BY <1>5, <1>6, <2>1, RestSpares
<1>. QED
  BY <1>5, <1>6, <1>7, <1>8, RestKeeps

LEMMA EvictStopKeeps ==
    ASSUME LiveInv, NEW c \in Clients, EvictStop(c), UNCHANGED uses
    PROVE  /\ LiveInv' /\ PinKept
           /\ ~IsActive(sweep.victim) \/ sweep.victim \in sweep.busy
<1>1. /\ sweep.by = c /\ sweep.victim # None /\ ~sweep.stopped
      /\ run' = Stopped(Slots(registry[sweep.victim]))
      /\ sweep' = [sweep EXCEPT !.stopped = TRUE]
      /\ UNCHANGED <<registry, older, session, request>>
  BY DEF EvictStop
<1>2. /\ TypeOK /\ SweepOK /\ sweep \in SweepRecords /\ sweep.by # None
      /\ run \in [Runs -> RunRecords]
  BY <1>1, SweepIs
<1>3. /\ sweep'.by = sweep.by /\ sweep'.pass = sweep.pass /\ sweep'.todo = sweep.todo
      /\ sweep'.victim = sweep.victim /\ sweep'.busy = sweep.busy /\ sweep'.stopped
      /\ sweep' \in SweepRecords
  BY <1>1, <1>2 DEF SweepRecords
<1>4. Held' = Held /\ RunsRest
  BY <1>1, <1>2, StoppedIs DEF Held, RunsRest
<1>5. SweepOK'
  BY <1>1, <1>2, <1>3, <1>4 DEF SweepOK
<1>6. Spared'
  <2>1. Doomed' \subseteq Doomed
    BY <1>1, <1>3 DEF Doomed
  <2>. QED
    BY <1>3, <1>4, <2>1, RestSpares
<1>7. ~IsActive(sweep.victim) \/ sweep.victim \in sweep.busy
  BY <1>1 DEF LiveInv, Spared, Doomed
<1>. QED
  BY <1>3, <1>4, <1>5, <1>6, <1>7, RestKeeps

(***************************************************************************)
(* A request arrives.                                                      *)
(***************************************************************************)

LEMMA RequestIs ==
    ASSUME NEW k \in Keys, NEW q \in Requests(k)
    PROVE  /\ q \in RequestRecords /\ q.key = k /\ q.run = None /\ q.sess = None
           /\ q.op \in {"route", "stream", "reset", "config"}
           /\ Entry(q.op) \in {"config", "stop", "look"}
           /\ Entry(q.op) = "config" <=> q.op = "config"
<1>1. Idle \in RequestRecords /\ Idle.run = None /\ Idle.sess = None
  BY IdleIs
<1>. DEFINE Asks(r, op) == /\ r \in RequestRecords /\ r.key = k /\ r.run = None
                           /\ r.sess = None /\ r.op = op
<1>2. PICK a \in Asked(k) : q = [Idle EXCEPT !.key = k, !.op = a[1], !.kind = a[2]]
  BY DEF Requests
<1>3. a[1] \in {"route", "stream", "reset", "config"} /\ a[2] \in Kinds
  BY <1>2 DEF Asked, Kinds
<1>4. Asks(q, a[1])
  <2>. DEFINE r == [Idle EXCEPT !.key = k]
              o == [r EXCEPT !.op = a[1]]
  <2>1. Asks(r, Idle.op)
    BY <1>1 DEF RequestRecords
  <2>. HIDE DEF r
  <2>2. Asks(o, a[1])
    BY <1>3, <2>1 DEF RequestRecords
  <2>. HIDE DEF o
  <2>3. Asks([o EXCEPT !.kind = a[2]], a[1])
    BY <1>3, <2>2 DEF RequestRecords
  <2>. QED
    BY <1>2, <2>3 DEF o, r
<1>. QED
  BY <1>3, <1>4 DEF Entry

(* A request outside every session appears in one, or in front of the      *)
(* registry's lock: it has posted and built nothing, and acts on no run.   *)
LEMMA Appears ==
    ASSUME LiveInv, NEW c \in Clients, NEW e \in RequestRecords,
           request[c].at \in Outside, request' = [request EXCEPT ![c] = e],
           UNCHANGED <<registry, session, run, uses>>,
           e.sess \in {None} \cup {registry[k] : k \in Held},
           e.run = None, e.at \in {"sweep", "config", "stop", "look"},
           e.op # "rebuild", e.sess = None \/ ~Posted(e)
    PROVE  /\ Owned' /\ BuildsCurrent' /\ StaleOnlyIfOverlapped' /\ SeedNoted'
           /\ PinKept /\ Held' = Held
           /\ request' \in [Clients -> RequestRecords]
           /\ \A s \in Known', k \in Kinds :
                 session'[s].slot[k] # None => run'[session'[s].slot[k]].kind = k
<1>1. /\ TypeOK /\ RequestOK /\ Owned /\ BuildsCurrent
      /\ StaleOnlyIfOverlapped /\ SeedNoted
  BY DEF LiveInv
<1>2. /\ request'[c] = e /\ \A d \in Clients \ {c} : request'[d] = request[d]
      /\ request' \in [Clients -> RequestRecords]
  BY <1>1 DEF TypeOK
<1>3. /\ registry' = registry /\ session' = session /\ run' = run
      /\ Held' = Held
  BY DEF Held
<1>4. request[c].sess = None
  BY <1>1 DEF RequestOK
<1>5. Known' = Known
  <2>1. ASSUME NEW s \in Sessions PROVE Unused(s)' <=> Unused(s)
    <3>1. CASE \E k \in Keys : registry[k] = s
      BY <1>3, <3>1 DEF Unused
    <3>2. CASE \A k \in Keys : registry[k] # s
      <4>1. e.sess # s
        BY <3>2, Facts DEF Held
      <4>2. \A d \in Clients : request'[d].sess = s <=> request[d].sess = s
        BY <1>2, <1>4, <4>1, Facts
      <4>. QED
        BY <1>3, <4>2 DEF Unused, Inside
    <3>. QED
      BY <3>1, <3>2
  <2>. QED
    BY <2>1 DEF Known
<1>6. \A s : Slots(s)' = Slots(s)
  BY <1>3 DEF Slots
<1>7. Owned'
  <2>1. \A s : None \notin Slots(s)
    BY DEF Slots
  <2>. QED
    BY <1>1, <1>2, <1>5, <1>6, <2>1 DEF Owned
<1>8. BuildsCurrent'
  BY <1>1, <1>2, <1>3 DEF BuildsCurrent
<1>9. StaleOnlyIfOverlapped'
  <2>1. ASSUME NEW s \in Sessions, NEW k \in Kinds, TearingDown(s, k)
        PROVE  TearingDown(s, k)'
    BY <1>2, <1>4, <2>1, Facts DEF TearingDown
  <2>. QED
    BY <1>1, <1>3, <1>5, <2>1 DEF StaleOnlyIfOverlapped, Known
<1>10. \A s \in Sessions : InConfig(s)' = InConfig(s)
  <2>1. ASSUME NEW s \in Sessions, NEW d \in Clients
        PROVE  d \in InConfig(s)' <=> d \in InConfig(s)
    BY <1>2, <1>4, Facts DEF InConfig, Posted
  <2>. QED
    BY <2>1 DEF InConfig
<1>11. SeedNoted'
  <2>1. ASSUME NEW s \in Sessions, NEW d \in InConfig(s)'
        PROVE  request'[d].seeded = session'[s].pinned \/ session'[s].disturbed
    <3>1. d \in InConfig(s) /\ d \in Clients /\ d # c
      BY <1>4, <1>10, <2>1, Facts DEF InConfig
    <3>. QED
      BY <1>1, <1>2, <1>3, <3>1 DEF SeedNoted
  <2>2. \A d \in Clients : request'[d].at = "draw" => DrawsOwn(request[d].sess)'
    <3>1. \A s \in Sessions : c \notin InConfig(s)
      BY <1>4, Facts DEF InConfig
    <3>. QED
      BY <1>1, <1>2, <1>3, <3>1, DrawsStay
  <2>. QED
    BY <1>1, <1>3, <1>5, <1>10, <2>1, <2>2 DEF SeedNoted, Known
<1>12. PinKept
  BY <1>3 DEF PinKept
<1>. QED
  BY <1>1, <1>2, <1>3, <1>5, <1>7, <1>8, <1>9, <1>11, <1>12 DEF TypeOK

LEMMA ArriveKeeps ==
    ASSUME LiveInv, NEW c \in Clients, NEW k \in Keys, NEW q \in Requests(k),
           Arrive(c, q), UNCHANGED uses
    PROVE  LiveInv' /\ PinKept
<1>. USE Facts
<1>1. /\ TypeOK /\ RequestOK /\ SweepOK /\ Spared
  BY DEF LiveInv
<1>2. /\ request[c] = Idle /\ sweep = NoSweep
      /\ UNCHANGED <<registry, session, run>>
  BY DEF Arrive, LoopFree
<1>3. /\ q \in RequestRecords /\ q.key = k /\ q.run = None /\ q.sess = None
      /\ q.op \in {"route", "stream", "reset", "config"}
      /\ Entry(q.op) \in {"config", "stop", "look"}
      /\ Entry(q.op) = "config" <=> q.op = "config"
  BY RequestIs
<1>4. request[c].at \in Outside /\ request[c].at # "sweep"
  BY <1>2, IdleIs DEF Outside
<1>5. sweep.by = None /\ \A d \in Clients : request[d].at # "sweep"
  BY <1>1, <1>2 DEF NoSweep, RequestOK
<1>6. CASE registry[k] # None
  <2>. DEFINE e == [q EXCEPT !.sess = registry[k], !.at = Entry(q.op)]
  <2>1. /\ request' = [request EXCEPT ![c] = e] /\ Touch(k) /\ sweep' = sweep
    BY <1>3, <1>6 DEF Arrive
  <2>2. registry[k] \in Sessions /\ k \in Held
    BY <1>1, <1>6 DEF TypeOK, Held
  <2>3. /\ e \in RequestRecords /\ e.sess = registry[k] /\ e.at = Entry(q.op)
        /\ e.run = None /\ e.op = q.op /\ e.key = k
    BY <1>3, <2>2 DEF RequestRecords
  <2>. HIDE DEF e
  <2>4. /\ Owned' /\ BuildsCurrent' /\ StaleOnlyIfOverlapped' /\ SeedNoted'
        /\ PinKept /\ Held' = Held
        /\ request' \in [Clients -> RequestRecords]
        /\ \A s \in Known', i \in Kinds :
              session'[s].slot[i] # None => run'[session'[s].slot[i]].kind = i
    <3>1. /\ e.sess \in {None} \cup {registry[i] : i \in Held} /\ e.op # "rebuild"
          /\ ~Posted(e) /\ e.at \in {"sweep", "config", "stop", "look"}
      BY <1>3, <2>2, <2>3 DEF Posted
    <3>. QED
      BY <1>2, <1>4, <2>1, <2>3, <3>1, Appears
  <2>5. Ordered'
    BY <1>1, <2>1, <2>2, <2>4, TouchOrders DEF TypeOK
  <2>6. TypeOK'
    BY <1>1, <1>2, <2>1, <2>4, <2>5 DEF TypeOK
  <2>7. RequestOK'
    <3>1. request'[c] = e /\ \A d \in Clients \ {c} : request'[d] = request[d]
      BY <1>1, <2>1 DEF TypeOK
    <3>2. /\ e.at \notin Outside /\ e.sess # None /\ e.key # None
          /\ e.at \in Posting => e.op = "config"
          /\ e.op = "config" => e.at \in Posting
      BY <1>3, <2>2, <2>3 DEF Outside, Posting
    <3>3. e.at # "sweep" /\ HasRun(e)
      BY <1>3, <2>3, <3>2 DEF Outside, HasRun
    <3>. QED
      BY <1>1, <1>5, <2>1, <2>3, <3>1, <3>2, <3>3 DEF RequestOK
  <2>8. SweepOK' /\ Spared'
    BY <1>2, <2>1 DEF SweepOK, Spared, Doomed, NoSweep
  <2>. QED
    BY <2>4, <2>6, <2>7, <2>8 DEF LiveInv
<1>7. CASE registry[k] = None
  <2>. DEFINE e == [q EXCEPT !.at = "sweep"]
              w == [NoSweep EXCEPT !.by = c, !.pass = 1, !.todo = Held]
  <2>1. /\ request' = [request EXCEPT ![c] = e] /\ older' = older /\ sweep' = w
    BY <1>3, <1>7 DEF Arrive
  <2>2. /\ e \in RequestRecords /\ e.at = "sweep"
        /\ e.run = None /\ e.op = q.op /\ e.key = k
    BY <1>3 DEF RequestRecords
  <2>3. e.sess = None
    BY <1>3 DEF RequestRecords
  <2>4. /\ w \in SweepRecords /\ w.by = c /\ w.pass = 1 /\ w.todo = Held
        /\ w.victim = None /\ ~w.stopped
    <3>. DEFINE first == [[NoSweep EXCEPT !.by = c] EXCEPT !.pass = 1]
    <3>1. /\ first \in SweepRecords /\ first.by = c /\ first.pass = 1
          /\ first.victim = None /\ ~first.stopped
      <4>1. NoSweep \in SweepRecords /\ NoSweep.victim = None /\ ~NoSweep.stopped
        BY DEF NoSweep, SweepRecords
      <4>. DEFINE held == [NoSweep EXCEPT !.by = c]
      <4>2. held \in SweepRecords /\ held.by = c /\ held.victim = None /\ ~held.stopped
        BY <4>1 DEF SweepRecords
      <4>. HIDE DEF held
      <4>3. /\ [held EXCEPT !.pass = 1] \in SweepRecords
            /\ [held EXCEPT !.pass = 1].by = c /\ [held EXCEPT !.pass = 1].pass = 1
            /\ [held EXCEPT !.pass = 1].victim = None
            /\ ~[held EXCEPT !.pass = 1].stopped
        BY <4>2 DEF SweepRecords
      <4>. QED
        BY <4>3 DEF held
    <3>2. w = [first EXCEPT !.todo = Held] /\ Held \subseteq Keys
      BY DEF Held
    <3>. HIDE DEF first, w
    <3>. QED
      BY <3>1, <3>2 DEF SweepRecords
  <2>. HIDE DEF e, w
  <2>5. /\ Owned' /\ BuildsCurrent' /\ StaleOnlyIfOverlapped' /\ SeedNoted'
        /\ PinKept /\ Held' = Held
        /\ request' \in [Clients -> RequestRecords]
        /\ \A s \in Known', i \in Kinds :
              session'[s].slot[i] # None => run'[session'[s].slot[i]].kind = i
    <3>1. e.op # "rebuild"
      BY <1>3, <2>2
    <3>. QED
      BY <1>2, <1>4, <2>1, <2>2, <2>3, <3>1, Appears
  <2>6. Ordered'
    BY <1>1, <2>1, <2>5 DEF TypeOK, Ordered
  <2>7. TypeOK'
    BY <1>1, <1>2, <2>1, <2>4, <2>5, <2>6 DEF TypeOK, SweepRecords
  <2>8. RequestOK'
    <3>1. request'[c] = e /\ \A d \in Clients \ {c} : request'[d] = request[d]
      BY <1>1, <2>1 DEF TypeOK
    <3>. QED
      BY <1>1, <1>5, <2>1, <2>2, <2>3, <2>4, <3>1 DEF RequestOK, Outside, Posting, HasRun
  <2>9. SweepOK' /\ Spared'
    BY <2>1, <2>4, <2>5 DEF SweepOK, Spared, Doomed
  <2>. QED
    BY <2>5, <2>7, <2>8, <2>9 DEF LiveInv
<1>. QED
  BY <1>6, <1>7

(***************************************************************************)
(* A session leaves the registry, and one enters it.                       *)
(***************************************************************************)

LEMMA EvictDropKeeps ==
    ASSUME LiveInv, NEW c \in Clients, EvictDrop(c), UNCHANGED uses
    PROVE  LiveInv' /\ PinKept
<1>. USE Facts
<1>. DEFINE none == [i \in Kinds |-> None]
<1>1. /\ TypeOK /\ RequestOK /\ SweepOK /\ Spared /\ Owned /\ BuildsCurrent
      /\ StaleOnlyIfOverlapped /\ SeedNoted
  BY DEF LiveInv
<1>2. /\ sweep.by = c /\ sweep.stopped /\ run' = run /\ request' = request
      /\ uses' = uses /\ older' = Without(sweep.victim)
      /\ registry' = [registry EXCEPT ![sweep.victim] = None]
      /\ session' = [session EXCEPT ![registry[sweep.victim]].slot = none]
  BY DEF EvictDrop
<1>3. /\ sweep \in SweepRecords /\ sweep.by # None
      /\ sweep.victim \in Held \ sweep.todo /\ sweep.todo \subseteq Held
  BY <1>1, <1>2, SweepIs DEF SweepOK
<1>4. PICK v \in Keys, o \in Sessions : v = sweep.victim /\ registry[v] = o
  BY <1>1, <1>3 DEF Held, TypeOK
<1>5. /\ registry' = [registry EXCEPT ![v] = None] /\ v \in Held
      /\ session' = [session EXCEPT ![o].slot = none] /\ older' = Without(v)
  BY <1>2, <1>3, <1>4
<1>6. /\ sweep'.by = c /\ sweep'.pass = sweep.pass /\ sweep'.todo = sweep.todo
      /\ sweep'.victim = None /\ ~sweep'.stopped /\ sweep'.busy = sweep.busy
      /\ sweep' \in SweepRecords
  <2>. DEFINE w == [sweep EXCEPT !.victim = None]
  <2>1. /\ w.by = c /\ w.pass = sweep.pass /\ w.todo = sweep.todo
        /\ w.victim = None /\ w.busy = sweep.busy /\ w \in SweepRecords
    BY <1>2, <1>3 DEF SweepRecords
  <2>2. sweep' = [w EXCEPT !.stopped = FALSE]
    BY DEF EvictDrop
  <2>. HIDE DEF w
  <2>. QED
    BY <2>1, <2>2 DEF SweepRecords
<1>7. /\ registry'[v] = None /\ \A k \in Keys \ {v} : registry'[k] = registry[k]
      /\ Held' = Held \ {v}
  BY <1>1, <1>5 DEF TypeOK, Held
<1>8. \A s \in Sessions :
         /\ session'[s].cfg = session[s].cfg /\ session'[s].pinned = session[s].pinned
         /\ session'[s].userSeed = session[s].userSeed
         /\ session'[s].disturbed = session[s].disturbed
         /\ session'[s].overlapped = session[s].overlapped
         /\ session'[s].raced = session[s].raced
         /\ session'[s].slot = session[s].slot \/ (s = o /\ session'[s].slot = none)
  BY <1>1, <1>5 DEF TypeOK, SessionRecords
<1>9. Known' \subseteq Known
  BY <1>2, <1>7 DEF Known, Unused, Inside
<1>10. \A s \in Sessions, k \in Kinds : session'[s].slot[k] \in {None, session[s].slot[k]}
  BY <1>8
<1>11. \A s \in Sessions : Slots(s)' \subseteq Slots(s)
  BY <1>10 DEF Slots
<1>12. TypeOK'
  <2>1. Ordered'
    BY <1>1, <1>5, <1>7, DropOrders DEF TypeOK
  <2>2. session' \in [Sessions -> SessionRecords]
    <3>1. session[o] \in SessionRecords /\ session \in [Sessions -> SessionRecords]
      BY <1>1 DEF TypeOK
    <3>2. [session[o] EXCEPT !.slot = none] \in SessionRecords
      BY <3>1 DEF SessionRecords
    <3>. QED
      BY <1>5, <3>1, <3>2
  <2>3. /\ registry' \in [Keys -> Sessions \cup {None}]
        /\ \A j, k \in Held' : registry'[j] = registry'[k] => j = k
    BY <1>1, <1>5, <1>7 DEF TypeOK
  <2>4. \A s \in Known', k \in Kinds :
           session'[s].slot[k] # None => run'[session'[s].slot[k]].kind = k
    BY <1>1, <1>2, <1>9, <1>10 DEF TypeOK, Known
  <2>. QED
    BY <1>1, <1>2, <1>6, <2>1, <2>2, <2>3, <2>4 DEF TypeOK, SweepRecords
<1>13. RequestOK'
  BY <1>1, <1>2, <1>6 DEF RequestOK
<1>14. SweepOK'
  BY <1>1, <1>3, <1>4, <1>6, <1>7 DEF SweepOK, SweepRecords
<1>15. Spared'
  <2>1. SUFFICES ASSUME NEW k \in Doomed', k \notin sweep.busy
                 PROVE  ~Inside(registry[k])' /\ ~IsActive(k)'
    BY <1>6 DEF Spared
  <2>2. k \in Doomed /\ k \in sweep.todo
    BY <1>6, <2>1 DEF Doomed
  <2>3. k \in Held /\ k # v /\ k \in Keys
    BY <1>3, <1>4, <2>2 DEF Held
  <2>4. registry'[k] = registry[k] /\ registry[k] # o /\ registry[k] \in Sessions
    BY <1>1, <1>4, <1>5, <1>7, <2>3 DEF TypeOK, Held
  <2>5. ~Inside(registry[k]) /\ ~IsActive(k)
    BY <1>1, <2>1, <2>2 DEF Spared
  <2>6. session'[registry[k]].slot = session[registry[k]].slot
    BY <1>8, <2>4
  <2>. QED
    BY <1>2, <2>4, <2>5, <2>6 DEF IsActive, Inside, Slots
<1>16. Owned'
  BY <1>1, <1>2, <1>9, <1>11 DEF Owned, Known
<1>17. BuildsCurrent'
  <2>1. ASSUME NEW d \in Clients, request[d].at = "build"
        PROVE  request[d].sess \in Sessions
    BY <1>1, <2>1, HandlerIs DEF Outside
  <2>. QED
    BY <1>1, <1>2, <1>8, <2>1 DEF BuildsCurrent
<1>18. StaleOnlyIfOverlapped'
  <2>1. \A s, k : TearingDown(s, k)' <=> TearingDown(s, k)
    BY <1>2 DEF TearingDown
  <2>2. ASSUME NEW s \in Known', NEW k \in Kinds, session'[s].slot[k] # None,
               run'[session'[s].slot[k]].cfg # session'[s].cfg
        PROVE  session'[s].overlapped \/ TearingDown(s, k)'
    <3>1. s \in Known /\ s \in Sessions
      BY <1>9 DEF Known
    <3>2. session'[s].slot[k] = session[s].slot[k] /\ session'[s].cfg = session[s].cfg
      BY <1>8, <1>10, <2>2, <3>1
    <3>3. session[s].overlapped \/ TearingDown(s, k)
      BY <1>1, <1>2, <2>2, <3>1, <3>2 DEF StaleOnlyIfOverlapped
    <3>. QED
      BY <1>8, <2>1, <3>1, <3>3
  <2>. QED
    BY <2>2 DEF StaleOnlyIfOverlapped
<1>19. SeedNoted' /\ PinKept
  <2>1. \A s : InConfig(s)' = InConfig(s)
    BY <1>2 DEF InConfig
  <2>2. \A s \in Sessions : DrawsOwn(s)' <=> DrawsOwn(s)
    BY <1>2, <1>8, <2>1 DEF DrawsOwn
  <2>3. \A d \in Clients : request[d].at = "draw" => request[d].sess \in Sessions
    BY <1>1, HandlerIs DEF Outside
  <2>. QED
    BY <1>1, <1>2, <1>8, <1>9, <2>1, <2>2, <2>3 DEF SeedNoted, PinKept, Known
<1>. QED
  BY <1>12, <1>13, <1>14, <1>15, <1>16, <1>17, <1>18, <1>19 DEF LiveInv

LEMMA CreateKeeps ==
    ASSUME LiveInv, NEW c \in Clients, Create(c), UNCHANGED uses
    PROVE  LiveInv' /\ PinKept
<1>. USE Facts
<1>1. /\ TypeOK /\ RequestOK /\ SweepOK /\ Owned /\ BuildsCurrent
      /\ StaleOnlyIfOverlapped /\ SeedNoted
  BY DEF LiveInv
<1>2. /\ sweep.by = c /\ sweep' = NoSweep /\ run' = run /\ Touch(request[c].key)
  BY DEF Create, Sweeping
<1>3. /\ request[c].sess = None /\ request[c].at = "sweep" /\ request[c].key \in Keys
      /\ request[c] \in RequestRecords /\ \A d \in Clients : request[d].at = "sweep" => d = c
  BY <1>2, SweepIs
<1>4. PICK s \in Sessions :
         /\ Unused(s)
         /\ session' = [session EXCEPT ![s] = NewSession]
         /\ registry' = [registry EXCEPT ![request[c].key] = s]
         /\ request' = [request EXCEPT ![c].sess = s, ![c].at = Entry(request[c].op)]
  BY DEF Create
<1>. DEFINE key == request[c].key
            at  == Entry(request[c].op)
            e   == [request[c] EXCEPT !.sess = s, !.at = at]
<1>5. /\ at \in {"config", "stop", "look"}
      /\ at = "config" <=> request[c].op = "config"
      /\ at = "stop" => request[c].op = "reset"
  BY DEF Entry
<1>. HIDE DEF at
<1>6. /\ e \in RequestRecords /\ e.sess = s /\ e.at = at /\ e.key = key
      /\ e.op = request[c].op /\ e.run = request[c].run
  BY <1>3, <1>5 DEF RequestRecords
<1>7. request' = [request EXCEPT ![c] = e]
  BY <1>1, <1>4 DEF TypeOK, at
<1>8. e.run = None
  BY <1>1, <1>3, <1>6 DEF RequestOK
<1>. HIDE DEF e
<1>9. /\ request'[c] = e /\ \A d \in Clients \ {c} : request'[d] = request[d]
      /\ request' \in [Clients -> RequestRecords]
  BY <1>1, <1>6, <1>7 DEF TypeOK
<1>10. /\ \A d \in Clients : request[d].sess # s
       /\ \A k \in Keys : registry[k] # s
  BY <1>4 DEF Unused, Inside
<1>11. /\ registry'[key] = s /\ \A k \in Keys \ {key} : registry'[k] = registry[k]
       /\ registry' \in [Keys -> Sessions \cup {None}] /\ Held' = Held \cup {key}
  BY <1>1, <1>3, <1>4 DEF TypeOK, Held
<1>12. /\ session'[s] = NewSession
       /\ \A t \in Sessions \ {s} : session'[t] = session[t]
       /\ session' \in [Sessions -> SessionRecords]
  <2>1. NewSession \in SessionRecords
    BY DEF NewSession, SessionRecords
  <2>. QED
    BY <1>1, <1>4, <2>1 DEF TypeOK
<1>13. \A t \in Known' : t = s \/ (t # s /\ t \in Known /\ t \in Sessions)
  BY <1>6, <1>9, <1>11 DEF Known, Unused, Inside
<1>14. \A k \in Kinds : session'[s].slot[k] = None
  BY <1>12 DEF NewSession
<1>15. /\ Slots(s)' = {} /\ \A t \in Sessions \ {s} : Slots(t)' = Slots(t)
  BY <1>12, <1>14 DEF Slots
<1>16. TypeOK'
  <2>1. Ordered'
    BY <1>1, <1>2, <1>3, <1>11, TouchOrders DEF TypeOK
  <2>2. \A j, k \in Held' : registry'[j] = registry'[k] => j = k
    BY <1>1, <1>3, <1>10, <1>11 DEF TypeOK, Held
  <2>3. \A t \in Known', k \in Kinds :
           session'[t].slot[k] # None => run'[session'[t].slot[k]].kind = k
    BY <1>1, <1>2, <1>12, <1>13, <1>14 DEF TypeOK
  <2>4. sweep' \in SweepRecords
    BY <1>2 DEF NoSweep, SweepRecords
  <2>. QED
    BY <1>1, <1>2, <1>9, <1>11, <1>12, <2>1, <2>2, <2>3, <2>4 DEF TypeOK, SweepRecords
<1>17. RequestOK'
  <2>1. \A d \in Clients : sweep'.by # d
    BY <1>2 DEF NoSweep
  <2>. QED
    BY <1>1, <1>2, <1>3, <1>5, <1>6, <1>8, <1>9, <2>1
       DEF RequestOK, Outside, Posting, HasRun
<1>18. SweepOK' /\ Spared'
  BY <1>2 DEF SweepOK, Spared, Doomed, NoSweep
<1>19. Owned'
  <2>1. \A t \in Known' : Slots(t)' = {} \/ (t \in Known /\ Slots(t)' = Slots(t))
    BY <1>13, <1>15
  <2>2. \A t : None \notin Slots(t)
    BY DEF Slots
  <2>3. ASSUME NEW d \in Clients, NEW t \in Known', request'[d].run \in Slots(t)'
        PROVE  request'[d].sess = t
    <3>1. t \in Known /\ request'[d].run \in Slots(t)
      BY <2>1, <2>3
    <3>2. d # c
      BY <1>8, <1>9, <2>2, <3>1
    <3>. QED
      BY <1>1, <1>9, <3>1, <3>2 DEF Owned
  <2>. QED
    BY <1>1, <2>1, <2>3 DEF Owned
<1>20. BuildsCurrent'
  <2>1. ASSUME NEW d \in Clients, request'[d].at = "build"
        PROVE  /\ request'[d] = request[d] /\ request[d].at = "build"
               /\ request[d].sess \in Sessions \ {s}
    BY <1>1, <1>5, <1>6, <1>9, <1>10, <2>1, HandlerIs DEF Outside
  <2>. QED
    BY <1>1, <1>12, <2>1 DEF BuildsCurrent
<1>21. StaleOnlyIfOverlapped'
  <2>1. ASSUME NEW t \in Sessions, t # s, NEW k \in Kinds, TearingDown(t, k)
        PROVE  TearingDown(t, k)'
    BY <1>3, <1>9, <2>1 DEF TearingDown
  <2>. QED
    BY <1>1, <1>2, <1>12, <1>13, <1>14, <2>1 DEF StaleOnlyIfOverlapped
<1>22. SeedNoted' /\ PinKept
  <2>1. InConfig(s)' = {}
    BY <1>5, <1>6, <1>9, <1>10 DEF InConfig
  <2>2. \A t \in Sessions \ {s} : InConfig(t)' = InConfig(t)
    <3>1. ASSUME NEW t \in Sessions \ {s}, NEW d \in Clients
          PROVE  d \in InConfig(t)' <=> d \in InConfig(t)
      BY <1>3, <1>6, <1>9 DEF InConfig
    <3>. QED
      BY <3>1 DEF InConfig
  <2>3. ASSUME NEW t \in Sessions, NEW d \in InConfig(t)'
        PROVE  request'[d].seeded = session'[t].pinned \/ session'[t].disturbed
    <3>1. t # s /\ d \in InConfig(t) /\ d \in Clients /\ d # c
      BY <1>3, <2>1, <2>2, <2>3 DEF InConfig
    <3>. QED
      BY <1>1, <1>9, <1>12, <3>1 DEF SeedNoted
  <2>4. ASSUME NEW t \in Known', session'[t].userSeed
        PROVE  session'[t].pinned \/ session'[t].disturbed \/ InConfig(t)' # {}
    <3>1. t # s
      BY <1>12, <2>4 DEF NewSession
    <3>. QED
      BY <1>1, <1>12, <1>13, <2>2, <2>4, <3>1 DEF SeedNoted
  <2>5. PinKept
    BY <1>4, <1>12 DEF PinKept, Known
  <2>6. \A d \in Clients : request'[d].at = "draw" => DrawsOwn(request[d].sess)'
    <3>1. ASSUME NEW d \in Clients, request[d].at = "draw"
          PROVE  request[d].sess \in Sessions \ {s}
      BY <1>1, <1>10, <3>1, HandlerIs DEF Outside
    <3>2. \A t \in Sessions : c \notin InConfig(t)
      BY <1>3 DEF InConfig
    <3>. QED
      BY <1>1, <1>5, <1>6, <1>9, <1>12, <3>1, <3>2, DrawsStay
  <2>. QED
    BY <2>3, <2>4, <2>5, <2>6 DEF SeedNoted
<1>. QED
  BY <1>16, <1>17, <1>18, <1>19, <1>20, <1>21, <1>22 DEF LiveInv

LEMMA BuiltKeeps ==
    ASSUME LiveInv, NEW c \in Clients, Built(c), UNCHANGED uses
    PROVE  LiveInv' /\ PinKept
<1>. USE Facts
<1>. DEFINE p == request[c]
<1>1. /\ TypeOK /\ RequestOK /\ SweepOK /\ Spared /\ Owned /\ BuildsCurrent
      /\ StaleOnlyIfOverlapped /\ SeedNoted
  BY DEF LiveInv
<1>2. /\ p.at = "build" /\ p.at \notin Outside
      /\ registry' = registry /\ older' = older /\ sweep' = sweep
  BY DEF Built, At, Outside
<1>3. /\ p \in RequestRecords /\ p.op # "config" /\ p.key \in Keys /\ p.kind \in Kinds
  BY <1>1, <1>2, HandlerIs DEF Posting, RequestRecords
<1>4. PICK o \in Sessions, i \in Kinds : p.sess = o /\ p.kind = i
  BY <1>1, <1>2, <1>3, HandlerIs
<1>5. PICK r \in Runs :
         /\ UnusedRun(r)
         /\ run' = [run EXCEPT ![r] = NewRun(p.kind, p.cfg)]
         /\ session' = [session EXCEPT ![p.sess].slot[p.kind] = r]
         /\ request' = [request EXCEPT ![c] = [p EXCEPT !.at = "take", !.cfg = 0]]
  BY DEF Built
<1>6. session' = [session EXCEPT ![o].slot[i] = r]
  BY <1>4, <1>5
<1>. DEFINE q == [p EXCEPT !.at = "take", !.cfg = 0]
<1>7. /\ q \in RequestRecords /\ q.run = p.run /\ q.at = "take"
      /\ q.op = p.op /\ q.sess = o /\ q.key = p.key
  <2>1. 0 \in 0..MaxConfig
    BY Facts
  <2>. QED
    BY <1>3, <1>4, <2>1 DEF RequestRecords
<1>. HIDE DEF q
<1>8. request'[c] = q /\ \A d \in Clients \ {c} : request'[d] = request[d]
  BY <1>1, <1>5 DEF TypeOK, q
<1>9. request' \in [Clients -> RequestRecords]
  BY <1>1, <1>5, <1>7 DEF TypeOK, q
<1>10. /\ session' \in [Sessions -> SessionRecords] /\ session'[o].slot[i] = r
       /\ \A s \in Sessions, k \in Kinds :
             s # o \/ k # i => session'[s].slot[k] = session[s].slot[k]
       /\ \A s \in Sessions :
             /\ session'[s].cfg = session[s].cfg /\ session'[s].pinned = session[s].pinned
             /\ session'[s].userSeed = session[s].userSeed
             /\ session'[s].disturbed = session[s].disturbed
             /\ session'[s].overlapped = session[s].overlapped
             /\ session'[s].raced = session[s].raced
  <2>. DEFINE x == [session[o] EXCEPT !.slot[i] = r]
  <2>1. session[o] \in SessionRecords /\ session \in [Sessions -> SessionRecords]
    BY <1>1 DEF TypeOK
  <2>2. /\ x \in SessionRecords /\ x.slot[i] = r
        /\ \A k \in Kinds \ {i} : x.slot[k] = session[o].slot[k]
        /\ x.cfg = session[o].cfg /\ x.pinned = session[o].pinned
        /\ x.userSeed = session[o].userSeed /\ x.disturbed = session[o].disturbed
        /\ x.overlapped = session[o].overlapped /\ x.raced = session[o].raced
    BY <2>1 DEF SessionRecords
  <2>3. session' = [session EXCEPT ![o] = x]
    BY <1>6
  <2>. HIDE DEF x
  <2>. QED
    BY <2>1, <2>2, <2>3
<1>11. /\ \A j \in Runs \ {r} : run'[j] = run[j]
       /\ run'[r] = [kind |-> i, cfg |-> p.cfg, status |-> "INITIALIZED"]
       /\ run' \in [Runs -> RunRecords]
  BY <1>1, <1>3, <1>4, <1>5 DEF TypeOK, NewRun, RunRecords, RequestRecords, Statuses
<1>12. /\ \A s \in Known : r \notin Slots(s)
       /\ \A d \in Clients : request[d].run # r
  BY <1>5 DEF UnusedRun, Known
<1>13. Held' = Held /\ Known' = Known /\ o \in Known
  <2>1. \A s : Inside(s)' <=> Inside(s)
    BY <1>4, <1>7, <1>8 DEF Inside
  <2>. QED
    BY <1>2, <1>4, <2>1 DEF Held, Known, Unused, Inside
<1>14. /\ \A s \in Sessions \ {o} : Slots(s)' = Slots(s)
       /\ Slots(o)' \subseteq Slots(o) \cup {r}
  BY <1>10 DEF Slots
<1>15. \A s \in Known, k \in Kinds :
          session[s].slot[k] # None => session[s].slot[k] \in Runs \ {r}
  BY <1>1, <1>12, SlotIs DEF Known
<1>16. TypeOK'
  <2>1. \A s \in Known', k \in Kinds :
           session'[s].slot[k] # None => run'[session'[s].slot[k]].kind = k
    <3>1. ASSUME NEW s \in Known, NEW k \in Kinds, session'[s].slot[k] # None
          PROVE  run'[session'[s].slot[k]].kind = k
      <4>1. CASE s = o /\ k = i
        BY <1>10, <1>11, <4>1
      <4>2. CASE s # o \/ k # i
        BY <1>1, <1>10, <1>11, <1>15, <3>1, <4>2 DEF TypeOK, Known
      <4>. QED
        BY <4>1, <4>2
    <3>. QED
      BY <1>13, <3>1
  <2>2. Ordered'
    BY <1>1, <1>2, <1>13 DEF TypeOK, Ordered
  <2>3. run' \in [Runs -> [kind : Kinds, cfg : 0..MaxConfig, status : Statuses]]
    BY <1>11 DEF RunRecords
  <2>. QED
    BY <1>1, <1>2, <1>9, <1>10, <1>13, <2>1, <2>2, <2>3 DEF TypeOK
<1>17. RequestOK'
  BY <1>1, <1>2, <1>3, <1>4, <1>7, <1>8 DEF RequestOK, Outside, Posting, HasRun
<1>18. SweepOK'
  BY <1>1, <1>2, <1>13 DEF SweepOK, NoSweep
<1>19. Spared'
  <2>1. SUFFICES ASSUME NEW k \in Doomed, k \notin sweep.busy
                 PROVE  ~Inside(registry[k])' /\ ~IsActive(k)'
    BY <1>2 DEF Spared, Doomed
  <2>2. k \in Held
    BY <1>1, <2>1 DEF Doomed, SweepOK
  <2>3. PICK s \in Sessions : registry[k] = s /\ s \in Known
    BY <1>1, <2>2 DEF TypeOK, Held, Known, Unused
  <2>4. ~Inside(s) /\ \A j \in Slots(s) : run[j].status \notin Active
    BY <1>1, <2>1, <2>3 DEF Spared, IsActive
  <2>5. s # o
    BY <1>4, <2>4 DEF Inside
  <2>6. Slots(s)' = Slots(s) /\ Slots(s) \subseteq Runs \ {r}
    <3>1. Slots(s) \subseteq Runs
      BY <1>1, SlotIs DEF Slots
    <3>. QED
      BY <1>12, <1>14, <2>3, <2>5, <3>1
  <2>7. ~Inside(s)'
    BY <1>4, <1>7, <1>8, <2>4 DEF Inside
  <2>8. ~\E j \in Slots(s)' : run'[j].status \in Active
    BY <1>11, <2>4, <2>6
  <2>. QED
    BY <1>2, <2>3, <2>7, <2>8 DEF IsActive, Inside, Slots
<1>20. Owned'
  <2>1. \A s \in Known : s \in Sessions
    BY DEF Known
  <2>2. ASSUME NEW s \in Known, NEW t \in Known, s # t
        PROVE  Slots(s)' \cap Slots(t)' = {}
    BY <1>1, <1>12, <1>14, <2>1, <2>2 DEF Owned
  <2>3. ASSUME NEW d \in Clients, NEW s \in Known, request'[d].run \in Slots(s)'
        PROVE  request'[d].sess = s
    <3>1. CASE d = c
      BY <1>1, <1>4, <1>7, <1>8, <1>12, <1>14, <2>1, <2>3, <3>1 DEF Owned
    <3>2. CASE d # c
      BY <1>1, <1>8, <1>12, <1>14, <2>1, <2>3, <3>2 DEF Owned
    <3>. QED
      BY <3>1, <3>2
  <2>. QED
    BY <1>13, <2>2, <2>3 DEF Owned
<1>21. BuildsCurrent'
  <2>1. ASSUME NEW d \in Clients, request'[d].at = "build"
        PROVE  /\ request'[d] = request[d] /\ request[d].at = "build"
               /\ request[d].sess \in Sessions
    BY <1>1, <1>7, <1>8, <2>1, HandlerIs DEF Outside
  <2>. QED
    BY <1>1, <1>10, <2>1 DEF BuildsCurrent
<1>22. StaleOnlyIfOverlapped'
  <2>1. ASSUME NEW s, NEW k \in Kinds, TearingDown(s, k)
        PROVE  TearingDown(s, k)'
    BY <1>2, <1>8, <2>1 DEF TearingDown
  <2>2. ASSUME NEW s \in Known, NEW k \in Kinds, session'[s].slot[k] # None,
               run'[session'[s].slot[k]].cfg # session'[s].cfg
        PROVE  session'[s].overlapped \/ TearingDown(s, k)'
    <3>0. s \in Sessions
      BY DEF Known
    <3>1. CASE s = o /\ k = i
      <4>1. p.cfg = session[o].cfg \/ session[o].overlapped
        BY <1>1, <1>2, <1>4 DEF BuildsCurrent
      <4>. QED
        BY <1>10, <1>11, <2>2, <3>1, <4>1
    <3>2. CASE s # o \/ k # i
      <4>1. /\ session'[s].slot[k] = session[s].slot[k]
            /\ run'[session[s].slot[k]] = run[session[s].slot[k]]
        BY <1>10, <1>11, <1>15, <2>2, <3>0, <3>2
      <4>2. session[s].overlapped \/ TearingDown(s, k)
        BY <1>1, <1>10, <2>2, <3>0, <4>1 DEF StaleOnlyIfOverlapped
      <4>. QED
        BY <1>10, <2>1, <3>0, <4>2
    <3>. QED
      BY <3>1, <3>2
  <2>. QED
    BY <1>13, <2>2 DEF StaleOnlyIfOverlapped
<1>23. SeedNoted' /\ PinKept
  <2>1. \A s : InConfig(s)' = InConfig(s)
    <3>1. ASSUME NEW s, NEW d \in Clients
          PROVE  d \in InConfig(s)' <=> d \in InConfig(s)
      BY <1>3, <1>7, <1>8 DEF InConfig
    <3>. QED
      BY <3>1 DEF InConfig
  <2>2. ASSUME NEW s \in Sessions, NEW d \in InConfig(s)'
        PROVE  request'[d].seeded = session'[s].pinned \/ session'[s].disturbed
    <3>1. d \in InConfig(s) /\ d \in Clients /\ d # c
      BY <1>3, <2>1, <2>2 DEF InConfig
    <3>. QED
      BY <1>1, <1>8, <1>10, <3>1 DEF SeedNoted
  <2>3. \A d \in Clients : request'[d].at = "draw" => DrawsOwn(request[d].sess)'
    <3>1. ASSUME NEW d \in Clients, request[d].at = "draw"
          PROVE  request[d].sess \in Sessions
      BY <1>1, <3>1, HandlerIs DEF Outside
    <3>2. \A s \in Sessions : c \notin InConfig(s)
      BY <1>3 DEF InConfig
    <3>. QED
      BY <1>1, <1>7, <1>8, <1>10, <3>1, <3>2, DrawsStay
  <2>. QED
    BY <1>1, <1>10, <1>13, <2>1, <2>2, <2>3 DEF SeedNoted, PinKept, Known
<1>. QED
  BY <1>16, <1>17, <1>18, <1>19, <1>20, <1>21, <1>22, <1>23 DEF LiveInv

(***************************************************************************)
(* The invariant holds from the start and through every step.              *)
(***************************************************************************)

LEMMA LiveInit == Init => LiveInv
<1>. SUFFICES ASSUME Init PROVE LiveInv
  OBVIOUS
<1>. USE Facts
<1>1. /\ registry = [k \in Keys |-> None] /\ older = {}
      /\ session = [s \in Sessions |-> NewSession]
      /\ run = [r \in Runs |-> NewRun("live", 0)]
      /\ request = [c \in Clients |-> Idle] /\ uses \in Habits /\ sweep = NoSweep
  BY DEF Init
<1>2. Held = {} /\ Known = {}
  BY <1>1 DEF Held, Known, Unused, Inside, Idle
<1>3. \A c \in Clients : /\ request[c] = Idle /\ request[c].at = "idle"
                         /\ request[c].sess = None /\ request[c].run = None
                         /\ request[c].op = "none"
  BY <1>1, IdleIs
<1>4. NewSession \in SessionRecords /\ NewRun("live", 0) \in RunRecords
  BY DEF NewSession, SessionRecords, NewRun, RunRecords, Kinds, Statuses
<1>5. NoSweep \in SweepRecords
  BY DEF NoSweep, SweepRecords
<1>6. TypeOK
  <2>1. registry \in [Keys -> Sessions \cup {None}] /\ Ordered
    BY <1>1, <1>2 DEF Ordered
  <2>2. session \in [Sessions -> SessionRecords] /\ run \in [Runs -> RunRecords]
    BY <1>1, <1>4
  <2>3. request \in [Clients -> RequestRecords]
    BY <1>1, IdleIs
  <2>. QED
    BY <1>1, <1>2, <1>3, <1>5, <2>1, <2>2, <2>3 DEF TypeOK, SweepRecords, RunRecords
<1>7. RequestOK
  BY <1>1, <1>3 DEF RequestOK, NoSweep, Outside, Posting, HasRun
<1>8. SweepOK /\ Spared
  BY <1>1 DEF SweepOK, Spared, Doomed, NoSweep
<1>9. Owned /\ BuildsCurrent /\ StaleOnlyIfOverlapped
  BY <1>2, <1>3 DEF Owned, BuildsCurrent, StaleOnlyIfOverlapped
<1>10. SeedNoted
  <2>1. \A s : InConfig(s) = {}
    BY <1>3 DEF InConfig
  <2>. QED
    BY <1>2, <1>3, <2>1 DEF SeedNoted
<1>. QED
  BY <1>6, <1>7, <1>8, <1>9, <1>10 DEF LiveInv

LEMMA ClientKeeps ==
    ASSUME LiveInv, NEW c \in Clients, ClientStep(c), UNCHANGED uses
    PROVE  LiveInv' /\ PinKept
<1>1. TypeOK /\ RequestOK
  BY DEF LiveInv
<1>2. CASE \E k \in Keys : \E q \in Requests(k) : Arrive(c, q)
  BY <1>2, ArriveKeeps
<1>3. CASE SweepLook(c) \/ SweepOverflow(c) \/ SweepTake(c)
  BY <1>3, SweepLookKeeps, SweepOverflowKeeps, SweepTakeKeeps
<1>4. CASE EvictStop(c) \/ EvictDrop(c) \/ Create(c)
  BY <1>4, EvictStopKeeps, EvictDropKeeps, CreateKeeps
<1>5. CASE Built(c)
  BY <1>5, BuiltKeeps
<1>6. ASSUME \/ Look(c) \/ Take(c) \/ Reseed(c) \/ Draw(c) \/ Drop(c)
             \/ Play(c) \/ Start(c) \/ Resume(c) \/ Pause(c) \/ Stop(c)
             \/ Answer(c) \/ NextFrame(c) \/ TearStop(c) \/ TearClear(c)
             \/ Config(c) \/ Refuse(c) \/ Compile(c) \/ Apply(c)
      PROVE  LiveInv' /\ PinKept
  <2>1. request[c].at \notin Outside
    BY <1>6 DEF Look, Take, Reseed, Draw, Drop, Play, Start, Resume, Pause, Stop, Answer, NextFrame, TearStop,
                TearClear, Config, Refuse, Compile, Apply, At, Outside
  <2>2. WorksOn(c)
    BY <1>1, <1>6, LookSteps, TakeSteps, ReseedSteps, DrawSteps, DropSteps, PlaySteps, RunSteps, NextFrameSteps, TearStopSteps,
       TearClearSteps, ConfigSteps, RefuseSteps, CompileSteps, ApplySteps
  <2>. QED
    BY <2>1, <2>2, HandlerKeeps
<1>. QED
  BY <1>2, <1>3, <1>4, <1>5, <1>6 DEF ClientStep

LEMMA LiveStep ==
    ASSUME LiveInv, [Next]_vars
    PROVE  /\ LiveInv' /\ PinKept
           /\ ~UNCHANGED vars => \A c \in Clients :
                 EvictStop(c) => \/ ~IsActive(sweep.victim)
                                 \/ sweep.victim \in sweep.busy
<1>1. CASE Next
  <2>1. LiveInv' /\ PinKept
    BY <1>1, ClientKeeps, RunEndsKeeps DEF Next
  <2>2. ASSUME NEW c \in Clients, EvictStop(c)
        PROVE  ~IsActive(sweep.victim) \/ sweep.victim \in sweep.busy
    BY <1>1, <2>2, EvictStopKeeps DEF Next
  <2>. QED
    BY <2>1, <2>2
<1>2. CASE UNCHANGED vars
  <2>1. /\ RunsRest /\ sweep' = sweep
    BY <1>2 DEF vars, RunsRest, LiveInv, TypeOK, RunRecords
  <2>2. SweepOK' /\ sweep \in SweepRecords
    BY <1>2 DEF vars, SweepOK, NoSweep, Held, LiveInv, TypeOK, SweepRecords
  <2>3. Spared'
    BY <2>1, RestSpares DEF Doomed
  <2>. QED
    BY <1>2, <2>1, <2>2, <2>3, RestKeeps
<1>. QED
  BY <1>1, <1>2

LEMMA LiveInvariant == Spec => []LiveInv
<1>1. Init => LiveInv
  BY LiveInit
<1>2. LiveInv /\ [Next]_vars => LiveInv'
  BY LiveStep
<1>. QED
  BY <1>1, <1>2, PTL DEF Spec

(* The shapes of live/sessions.py's data, one key per session, a strict    *)
(* order of last_seen, and each run in a slot of its kind.                 *)
THEOREM LiveTypeCorrect == Spec => []TypeOK
<1>1. LiveInv => TypeOK
  BY DEF LiveInv
<1>. QED
  BY <1>1, LiveInvariant, PTL

(* A session keeps a run of an earlier configuration only while            *)
(* update_simulation_config is taking it down, or if the configuration was *)
(* replaced while the run was being built.                                 *)
THEOREM RunsAreCurrent == Spec => []StaleOnlyIfOverlapped
<1>1. LiveInv => StaleOnlyIfOverlapped
  BY DEF LiveInv
<1>. QED
  BY <1>1, LiveInvariant, PTL

(* evict_stale_sessions stops no running or paused run but of a session    *)
(* some request was already inside when is_active() was asked.             *)
THEOREM ActiveAreSpared == Spec => EvictionSparesActive
<1>1. LiveInv /\ [Next]_vars =>
         [\A c \in Clients : EvictStop(c) =>
             \/ ~IsActive(sweep.victim)
             \/ sweep.victim \in sweep.busy]_vars
  BY LiveStep
<1>. QED
  BY <1>1, LiveInvariant, PTL DEF Spec, EvictionSparesActive

(* A seed the user supplied survives every restart, unless requests that   *)
(* post configurations got in each other's way, one was refused, or it was *)
(* posted while a restart was about to draw a seed of its own.             *)
THEOREM SeedsArePinned == Spec => PinSurvives
<1>1. LiveInv /\ [Next]_vars =>
         [\A s \in Known :
             session[s].userSeed /\ ~session'[s].userSeed
             => session[s].disturbed \/ session[s].raced \/ InConfig(s) # {}]_vars
  BY LiveStep DEF PinKept
<1>. QED
  BY <1>1, LiveInvariant, PTL DEF Spec, PinSurvives
=============================================================================
