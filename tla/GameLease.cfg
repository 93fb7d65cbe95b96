SPECIFICATION FairSpec
CONSTANTS
  p1 = p1
  p2 = p2
  t1 = t1
  t2 = t2
  t3 = t3
  NoPod = NoPod
  Pods <- TwoPods
  Tasks <- TwoTasks
  Pod <- PodOfTwo
  MaxEpoch = 2
  MaxEvents = 1
INVARIANTS
  TypeOK
  EpochNamesOwner
  OnePodPerReign
PROPERTIES
  FenceKeepsZombiesOut
  ZombieStandsDown
CHECK_DEADLOCK FALSE
