SPECIFICATION FairSpec
CONSTANTS
  a = a
  b = b
  c = c
  x = x
  r = r
  q = q
  User <- Users
  Room <- Rooms
  HostOf <- Hosts
  Domain <- LocalOnly
  Event <- RoomEvents
  MaxBuffer = 1
  MaxLog = 2
  MaxFailures = 1
  MaxDeaths = 1
INVARIANT NothingForgotten
PROPERTY CatchesUp
CHECK_DEADLOCK FALSE
