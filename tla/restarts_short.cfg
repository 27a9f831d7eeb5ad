SPECIFICATION TasksSpec
CONSTANTS
    Loops = {w1, w2}
    MaxFailures = 2
    MaxBadCleanups = 0
    LoopFaults = {"failure"}
INVARIANT
    AbandonedAfterRestarts
CHECK_DEADLOCK FALSE
