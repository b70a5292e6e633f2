SPECIFICATION FairSpec
CONSTANTS
    Alarm = Alarm
    Flushers = {}
    MAX_BATCHES_PER_FLUSH = 2
    MAX_CHUNKS = 2
    MAX_SESSION_TIME = 1
    MAX_CONSECUTIVE_FAILURES = 2
    ABANDON_COOLDOWN = 1
    MaxGroups = 2
    MaxSeq = 3
    MaxTime = 1
    MaxFaults = 1
CHECK_DEADLOCK FALSE
INVARIANTS TypeOK NoStranding IngestReadable ChunksInOrder
PROPERTIES BackoffRespected KeepsPromise EventuallyDrained
