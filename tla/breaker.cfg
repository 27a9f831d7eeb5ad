SPECIFICATION MCSpec
CONSTANTS
    Tools = {t1, t2}
    Calls = {c1, c2, c3}
    t1 = t1
    c1 = c1
    NoTool = noTool
    FAILURE_THRESHOLD = 2
    COOLDOWN = 2
    Faults = {"cancel", "restart"}
    Operator = operator
    Refresher = refresher
INVARIANTS
    TypeOK
    TrippedIffThreshold
    HalfOpenHasProbe
    ReportsSound
PROPERTIES
    HalfOpenResolves
    Recovers
    TrackedReportConverges
