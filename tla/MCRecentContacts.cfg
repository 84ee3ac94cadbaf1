SPECIFICATION Spec
CONSTANTS
  a = a
  b = b
  c = c
  x = x
  r = r
  q = q
  User <- Users
  Room <- NoRooms
  HostOf <- Hosts
  Domain <- LocalOnly
  Event <- ChatEvents
  MaxBuffer = 2
  MaxLog = 3
  MaxFailures = 1
  MaxDeaths = 1
INVARIANTS TypeOK NoDuplicates BoundedLists NewestFirst NothingForgotten CountsBounded SidesAgree
PROPERTY RefinesView
CHECK_DEADLOCK FALSE
