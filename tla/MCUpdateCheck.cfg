SPECIFICATION FairSpec
CONSTANTS
  u = u
  a = a
  b = b
  u1 = u1
  a1 = a1
  u2 = u2
  b2 = b2
  b3 = b3
  w1 = w1
  w2 = w2
  c = c
  Worker <- TwoWorkers
  Client <- OneClient
  File <- Names
  Updater = u
  Content <- Contents
  Absent = Absent
  Unreadable = Unreadable
  Releases <- ReleasesOf
  Profiles <- Users
  Installs <- Installed
  MaxIncidents = 1
INVARIANTS TypeOK FineIsComplete OwnChannel
PROPERTY ClientsConverge
