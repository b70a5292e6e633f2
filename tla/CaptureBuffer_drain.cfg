SPECIFICATION FairSpec
CONSTANTS
    Producers = {p1, p2, p3}
    MAX_BUFFERED_CHARS = 3
    MAX_DRAIN_ROUNDS = 3
    MaxEvents = 3
    MaxLate = 2
CHECK_DEADLOCK FALSE
INVARIANTS TypeOK FlushesInOrder HeldUntilReported
PROPERTIES EventuallyReported
