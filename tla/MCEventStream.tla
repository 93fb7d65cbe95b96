--------------------------- MODULE MCEventStream ---------------------------
(* Instances of EventStream for TLC: the gamesvc pod g, where commands run, *)
(* and a gateway pod w the browser may be connected to instead.             *)
EXTENDS EventStream

CONSTANTS g, w, a, b

\* The second connection that breaks is the last.
LastBreak == drops' = MaxDrops => link' = "offline" /\ faults' = 0

MCSpec == Init /\ [][Next /\ LastBreak]_vars /\ Fairness
=============================================================================
