CONSTANTS
  g = g  w = w  a = a  b = b
  Pods = {g, w}
  Home = g
  Writers = {a}
  Created = 1
  Buffer = 2
  Limit = 1000
  MaxAttempts = 1
  MaxEvents = 3
  MaxDrops = 2
  MaxFaults = 1
SPECIFICATION MCSpec
INVARIANTS TypeOK OnceInOrder NothingMissedInSession BreakCostsOneMessage
PROPERTIES ReconnectResyncs
CHECK_DEADLOCK FALSE
