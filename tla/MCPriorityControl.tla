-------------------------- MODULE MCPriorityControl --------------------------
(* PriorityControl for TLC: the paired plan, one of its all-reds zero and  *)
(* its durations not divided by the time step.                             *)
EXTENDS PriorityControl

Phase(color, directions, lanes, duration) ==
    [color |-> color, directions |-> directions, lanes |-> lanes,
     duration |-> duration]

North == <<"n", 0>>
East  == <<"e", 0>>

UnevenPlan ==
    << Phase("green", {"n", "s"}, {North}, 8), Phase("yellow", {"n", "s"}, {North}, 5),
       Phase("red", {}, {}, 0),
       Phase("green", {"e", "w"}, {East}, 10), Phase("yellow", {"e", "w"}, {East}, 5),
       Phase("red", {}, {}, 4) >>
=============================================================================
