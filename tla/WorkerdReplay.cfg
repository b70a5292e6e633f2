SPECIFICATION FairSpec
CONSTANTS
  Requests = {r1, r2, r3}
  Sessions = {s1, s2}
  Recorded = {s1}
  MaxCached = 1
INVARIANTS
  HermeticReplay
  HandshakeIsShared
PROPERTY
  RecoversAfterBlip
