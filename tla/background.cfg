SPECIFICATION MCSpec
CONSTANTS
    Texts = {m1, m2, m3, m4}
    BatchSize = 2
    BatchFaults = {"modelError", "shutdown"}
    Saves = {s1, s2, s3, s4}
    Extracts = {e1}
    e1 = e1
    s1 = s1
    SaveOf <- MCSaveOf
    NoJob = NoJob
    QueueMax = 1
    DlqMax = 1
    OverflowMax = 1
    QueueFaults = {"jobError", "journalError", "stop"}
    TimerIds = {t1, t2}
    TimerFaults = {"dbError", "enqueueError", "restart"}
    MaxRestarts = 2
    CronJobs = {j1, j2, j3}
    Hopeless = {j1}
    MaxDue = 2
    j1 = j1
    j2 = j2
    j3 = j3
    Day = 2
    Schedules <- MCSchedules
    MaxLimit = 1
    MaxEdits = 2
    MaxTroubles = 2
    NoneRuns = NoneRuns
    ApiRows = {a1}
    SlotRows = {r1}
    MaxCached = 3
    MaxDeks = 5
    RotationFaults = {"loadError", "readError", "writeError", "restart"}
    Loops = {w1, w2}
    MaxFailures = 3
    MaxBadCleanups = 2
    LoopFaults = {"failure", "finish", "dbError"}
    Slots = {k1, k2}
    k1 = k1
    Askers = {c1, c2}
    c1 = c1
    NoSlot = NoSlot
    Threshold = 2
    Cap = 2
    MaxTripped = 1
    OpenTimeout = 1
INVARIANTS
    BackgroundTypeOK
    InOneBatch Attended
    JobsConserved
    RevokedIsGone FiresOnce RowsWatched
    LimitKept
    RowsReadable
    HealthIsTrue
    ProbeAfterCooldown
PROPERTIES
    WorkerGoesOn JobsSettle ActiveFires EditTakesEffect DueRuns
    Supervised ShutdownEnds KeysComeBack
CHECK_DEADLOCK FALSE
