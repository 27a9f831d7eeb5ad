SPECIFICATION MCSpec
CONSTANTS
    Notes = {1, 2}
    Urgent = {}
    Few = {1, 2}
    Bucket <- MCBucket
    MaxBatch = 2
    Window = 1
    TTL = 3
    CleanupEvery = 2
    MaxBuffer = 2
    Faults = {"sendError"}
INVARIANT FlushedWasSent
