--------------------------- MODULE MCRulesEngine ---------------------------
(* RulesEngine for TLC: on a board of side 4, the long row and some cells  *)
(* of the row below it, so that lines of six and captures fit in.          *)
EXTENDS RulesEngine

Row    == {<<q, 0>> : q \in -3 .. 2}
Beside == {<<-3, 1>>, <<-3, 2>>, <<-3, 3>>, <<0, 1>>}
RowAndBeside == Row \cup Beside

\* A clock skew, the whole budget, and too long.
ThinkingTimes == {-1, 1, 2}
=============================================================================
