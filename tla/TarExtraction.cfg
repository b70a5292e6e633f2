SPECIFICATION TarFairSpec
CONSTANTS
    EntryCount = 3
    extractConcurrency = 2
    maxRetries = 1
    StalledOpens = FALSE
CHECK_DEADLOCK FALSE
INVARIANTS TarTypeOK ReturnedIsComplete
PROPERTIES Terminates
