SPECIFICATION Spec
CONSTANTS
  m1 = m1
  m2 = m2
  p1 = p1
  p2 = p2
  w1 = w1
  w2 = w2
  Message <- TwoMessages
  Shape <- Shapes
  Month <- Months
  Partition <- OnePartition
  Worker <- OneWorker
  Owner <- AllToOne
  ChatPart <- InP1
  RevokePart <- InP1
  Lookups = 2
  MaxStray = 1
  MaxFaults = 1
  MaxRestarts = 1
INVARIANTS TypeOK LossesAreFailures NoUnreportedOrphans RevokedStaysHidden PoisonIsNeverPassed
PROPERTY OnlyReplayUnmasks
CHECK_DEADLOCK FALSE
