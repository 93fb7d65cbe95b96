SPECIFICATION MCSpec
CONSTANTS
  ann = ann
  bob = bob
  cat = cat
  dan = dan
  Guest = Guest
  Bot = Bot
  Open = Open
  Games = {1, 2, 3}
  Players <- FourPlayers
  Tables <- MCTables
  MaxMishaps = 1
  Original = 1
  Pods = {p1, p2}
  Owner = p1
  Calls = {1, 2}
  MaxClicks = 3
  Gaps = FALSE
INVARIANTS
  TypeOK
  RatedAsOne
  HistoryAddsUp
  OneFollowUp
  AgreedIsLinked
PROPERTIES
  FinishedIsRated
CHECK_DEADLOCK FALSE
