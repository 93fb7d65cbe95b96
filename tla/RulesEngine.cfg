CONSTANTS
  Side = 4
  NumPlayers = 2
  GemsPerPlayer = 6
  CapturePairsWin = 2
  Align4ToWin = 1
  Align5ToWin = 2
  InitialTimeMs = 1
  IncrementMs = 0
  Spots <- RowAndBeside
  Elapses <- ThinkingTimes
SPECIFICATION Spec
INVARIANTS TypeOK StonesAccounted LastMoveIsJudged
CHECK_DEADLOCK FALSE
