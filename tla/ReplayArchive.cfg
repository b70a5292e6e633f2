SPECIFICATION FairSpec
CONSTANTS
    Processes = {p1, p2, p3}
    Offered = {"screenshots", "timeline"}
    DownloadScopes = {"everything", "screenshots-only"}
    ExcludeSets = {{}}
    BestEffortSets = {{}}
    MAX_CONTENT_RETRIES = 1
    LingerAfterFailure = FALSE
    Free = Free
CHECK_DEADLOCK FALSE
INVARIANTS TypeOK OneWriterPerFile MarkerMeansComplete UsedIsComplete
PROPERTIES LockReleased
