-------------------------- MODULE MCAdaptiveSignal --------------------------
(* Instances of AdaptiveSignal for TLC. *)
EXTENDS AdaptiveSignal

Phase(color, directions, lanes, duration) ==
    [color |-> color, directions |-> directions, lanes |-> lanes,
     duration |-> duration]

Green(ds, ls, d)  == Phase("green", ds, ls, d)
Yellow(ds, ls, d) == Phase("yellow", ds, ls, d)
AllRed(d)         == Phase("red", {}, {}, d)

(* Two of the four approaches of the default plan, one direction at a time *)
(* with a protected left; left-turners have a lane of their own on one     *)
(* approach and share the only lane on the other. One all-red is zero.     *)
OneByOnePlan ==
    LET through == <<"n", 1>>
        left    == <<"n", 0>>
        all     == <<"e", 0>>
    IN  << Green({"n"}, {through}, 5), Green({"n"}, {left}, 5),
           Yellow({"n"}, {left, through}, 3), AllRed(1),
           Green({"e"}, {all}, 5), Green({"e"}, {all}, 5),
           Yellow({"e"}, {all}, 3), AllRed(0) >>

ASSUME OrderAssumption == SafeOrder /\ CutStagesAlike

(* What WaitLimit comes to: a maximum green of every green but the one     *)
(* waited for, a clearance of every stage and the longest once more.       *)
ASSUME LimitAssumption ==
    WaitLimit = (Cardinality(Greens) - 1) * Whole(MaxGreen)
        + MapThenSumSet(LAMBDA s : Whole(ClearTime(s)), StageStarts)
        + Max({Whole(ClearTime(s)) : s \in StageStarts})
=============================================================================
