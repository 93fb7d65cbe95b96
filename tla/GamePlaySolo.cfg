CONSTANTS
  p1 = p1  p2 = p2  t1 = t1  t2 = t2  o1 = o1  o2 = o2
  Nil = Nil
  Pods = {p1, p2}
  Tasks = {t1, t2}
  Objs = {o1}
  NumPlayers = 2
  Bots <- NoBots
  WinningMoves = {"win"}
  QuietMoves = {"quiet"}
  Timed = TRUE
  Overlap = FALSE
  MaxMoves = 2
  MaxFaults = 1
SPECIFICATION Spec
SYMMETRY SoloSymmetry
INVARIANTS TypeOK JournalInOrder MemoryIsJournal ClockGuarded
PROPERTIES FinishedIsFinal FlagOnTime
CHECK_DEADLOCK FALSE
