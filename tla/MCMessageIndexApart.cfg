SPECIFICATION FairSpec
CONSTANTS
  m1 = m1
  m2 = m2
  p1 = p1
  p2 = p2
  w1 = w1
  w2 = w2
  Message <- OneMessage
  Shape <- File
  Month <- Months
  Partition <- TwoPartitions
  Worker <- TwoWorkers
  Owner <- EachItsOwn
  ChatPart <- ChatInP1
  RevokePart <- RevokeInP2
  Lookups = 2
  MaxStray = 0
  MaxFaults = 2
  MaxRestarts = 1
INVARIANT LossesAreFailures
PROPERTY CatchesUp
CHECK_DEADLOCK FALSE
