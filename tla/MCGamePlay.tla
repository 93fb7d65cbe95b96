----------------------------- MODULE MCGamePlay -----------------------------
(* Instances of GamePlay for TLC.                                           *)
EXTENDS GamePlay, TLC

CONSTANTS p1, p2, t1, t2, o1, o2

NoBots  == {}
BotSeat == {1}
SoloSymmetry  == Permutations(Pods) \cup Permutations(Tasks)
FleetSymmetry == SoloSymmetry \cup Permutations(Objs)
=============================================================================
