SPECIFICATION Spec
CONSTANTS
  Request <- Requests
  IfAsync = FALSE
  None = None
  Failed = Failed
  Rejected = Rejected
INVARIANT AnsweredInTime
CHECK_DEADLOCK FALSE
