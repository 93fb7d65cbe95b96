CONSTANTS
  p1 = p1  p2 = p2
  NoPod = NoPod
  Pods = {p1, p2}
  MaxUpsets = 1
SPECIFICATION TrafficSpec
INVARIANTS TypeOK HeldIsArmed
PROPERTIES ClockIsCharged
CHECK_DEADLOCK FALSE
