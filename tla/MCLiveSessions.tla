--------------------------- MODULE MCLiveSessions ---------------------------
(* LiveSessions for TLC: whatever is interchangeable is made symmetric, and *)
(* the leftovers of sessions and runs nothing refers to are not told apart. *)
EXTENDS LiveSessions, TLC

CONSTANTS k1, k2

(* Two clients and the live run: the registry is what matters. One client  *)
(* with several requests: a session is what matters.                       *)
ClientHabits ==
    {k1 :> {"live"} @@ k2 :> {"live"},
     k1 :> {"config"} @@ k2 :> {"live"},
     k1 :> {"live", "config"} @@ k2 :> {},
     k1 :> {"comparison", "config"} @@ k2 :> {}}

Symmetry ==
    Permutations(Sessions) \cup Permutations(Runs) \cup Permutations(Clients)

InUse ==
    <<registry, older, request, uses, sweep,
      [s \in {t \in Sessions : ~Unused(t)} |-> session[s]],
      [r \in {t \in Runs : ~UnusedRun(t)} |-> run[r]]>>
=============================================================================
