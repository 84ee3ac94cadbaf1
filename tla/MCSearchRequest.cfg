SPECIFICATION FairSpec
CONSTANTS
  Request <- Requests
  IfAsync = TRUE
  None = None
  Failed = Failed
  Rejected = Rejected
INVARIANTS TypeOK WhatAnsweredIsShown LateIsNoError AnsweredInTime NothingRunsOn
PROPERTY EveryRequestIsAnswered
