SPECIFICATION FairSpec
CONSTANTS
  Timeout = 3
  Interval = 2
  Latency = 1
INVARIANTS
  WaitIsBounded
  ReportsAgainstTheShownRun
  ComparesACompleteBase
PROPERTY
  WaitEnds
CHECK_DEADLOCK FALSE
