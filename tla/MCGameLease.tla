---------------------------- MODULE MCGameLease ----------------------------
(* GameLease with two pods, with one goroutine each (the exhaustive run)   *)
(* or with a second one on p1 (the runs that look for an interleaving).    *)
EXTENDS GameLease

CONSTANTS p1, p2, t1, t2, t3

TwoPods    == {p1, p2}
TwoTasks   == {t1, t3}
ThreeTasks == {t1, t2, t3}
PodOfTwo   == [t \in TwoTasks |-> IF t = t3 THEN p2 ELSE p1]
PodOfThree == [t \in ThreeTasks |-> IF t = t3 THEN p2 ELSE p1]
=============================================================================
