SPECIFICATION Spec
CONSTANTS
    Processes = {p1, p2}
    Offered = {"screenshots", "timeline", "snapshottedAssets"}
    DownloadScopes = {"everything"}
    ExcludeSets = {{}, {"timeline"}}
    BestEffortSets = {{}, {"snapshottedAssets"}}
    MAX_CONTENT_RETRIES = 0
    LingerAfterFailure = FALSE
    Free = Free
CHECK_DEADLOCK FALSE
INVARIANTS MarkerMeansComplete
