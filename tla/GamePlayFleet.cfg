CONSTANTS
  p1 = p1  p2 = p2  t1 = t1  t2 = t2  o1 = o1  o2 = o2
  Nil = Nil
  Pods = {p1, p2}
  Tasks = {t1, t2}
  Objs = {o1, o2}
  NumPlayers = 3
  Bots <- BotSeat
  WinningMoves = {"win"}
  QuietMoves = {"quiet"}
  Timed = FALSE
  Overlap = TRUE
  MaxMoves = 2
  MaxFaults = 0
SPECIFICATION Spec
SYMMETRY FleetSymmetry
INVARIANTS AckedMovesSurvive
CHECK_DEADLOCK FALSE
