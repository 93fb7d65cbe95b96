SPECIFICATION Spec
CONSTANTS
  Users = {ann}
  Nobody = Nobody
  NSeats = 4
  MaxKeys = 3
  MaxMishaps = 0
  Sockets = {s1}
PROPERTIES
  ForfeitedIsAway
CHECK_DEADLOCK FALSE
