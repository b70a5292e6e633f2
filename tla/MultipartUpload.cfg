SPECIFICATION FairSpec
CONSTANTS
    uploadChunkSize = 2
    UrlCount = 2
    MAX_CONCURRENT_UPLOADS = 2
    MAX_ATTEMPTS = 2
    MaxBytes = 5
    MaxData = 3
CHECK_DEADLOCK FALSE
INVARIANTS TypeOK PartsTileTheStream UrlMatchesPart ResolvedIsComplete
PROPERTIES Terminates
