SPECIFICATION MCSpec
CONSTANTS
    Notes = {1, 2, 3, 4, 5}
    Urgent = {5}
    Few = {1, 2}
    Bucket <- MCBucket
    MaxBatch = 1
    Window = 1
    TTL = 3
    CleanupEvery = 2
    MaxBuffer = 5
    Faults = {"sendError", "dbError", "restart"}
INVARIANT TypeOK
PROPERTIES
    UnsentKept
    KeepsMail
    EveryNoteArrives
