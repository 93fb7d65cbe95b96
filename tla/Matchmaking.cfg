SPECIFICATION MCSpec
CONSTANTS
  ann = ann
  bob = bob
  cat = cat
  Pods = {p1, p2}
  Nobody = Nobody
  Departed = Departed
  MaxMishaps = 1
  Users = {ann, bob, cat}
  Rating <- MCRating
  Sizes = {2, 6}
  Batch = 3
  Step = 20
  MaxWait = 1
  MaxAsks = 3
INVARIANTS
  TypeOK
PROPERTIES
  KeepsPromise
  QueueDrains
  PushMadeUpFor
CHECK_DEADLOCK FALSE
