SPECIFICATION Spec
CONSTANTS
  p1 = p1
  p2 = p2
  t1 = t1
  t2 = t2
  t3 = t3
  NoPod = NoPod
  Pods <- TwoPods
  Tasks <- ThreeTasks
  Pod <- PodOfThree
  MaxEpoch = 2
  MaxEvents = 1
PROPERTY ZombieCannotWrite
CHECK_DEADLOCK FALSE
