SPECIFICATION RunFairSpec
CONSTANTS
  Workers = {w1}
  PollEvery = 1
  Latency = 2
  RetryWindow = 4
  RetryWithin = 1
  MinRun = 6
INVARIANTS
  TunnelServesTheRun
  QuietAfterReturn
PROPERTY
  ComesToAnEnd
CHECK_DEADLOCK FALSE
