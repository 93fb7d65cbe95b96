SPECIFICATION RoomSpec
CONSTANTS
  Users = {ann}
  Nobody = Nobody
  NSeats = 3
  MaxKeys = 3
  MaxMishaps = 1
  Sockets = {s1, s2}
INVARIANTS
  TypeOK
  KeyOpensSeat
  MemoryIsRows
  PlayingIsSeated
  AbsenceIsWatched
PROPERTIES
  ForfeitedIsGone
  AbsenteeForfeits
CHECK_DEADLOCK FALSE
