SPECIFICATION Spec
CONSTANTS
    Alarm = Alarm
    Flushers = {f1}
    MAX_BATCHES_PER_FLUSH = 2
    MAX_CHUNKS = 2
    MAX_SESSION_TIME = 2
    MAX_CONSECUTIVE_FAILURES = 2
    ABANDON_COOLDOWN = 1
    MaxGroups = 1
    MaxSeq = 3
    MaxTime = 1
    MaxFaults = 0
CHECK_DEADLOCK FALSE
INVARIANTS NoLostBatch
