SPECIFICATION Spec
CONSTANTS
  Callers = {c1, c2}
  Lifetime = 2
  Buffer = 1
  DEFAULT_MAX_RETRIES = 1
  MaxSessions = 2
  MaxNow = 3
SYMMETRY Symmetry
INVARIANTS
  SentTokensAreLive
  StoredPairIsUsable
  
CHECK_DEADLOCK FALSE
