SPECIFICATION FairSpec
CONSTANTS
  InnerRetries = 1
  OuterRetries = 1
  Window = 2
  Extra = 2
  Interval = 1
  CallTime = 1
INVARIANTS
  RunIsAsAskedFor
  NoRunIsLost
PROPERTY
  TriggerEnds
CHECK_DEADLOCK FALSE
