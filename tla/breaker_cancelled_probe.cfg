SPECIFICATION FairSpec
CONSTANTS
    Tools = {t1}
    Calls = {c1, c2}
    NoTool = noTool
    FAILURE_THRESHOLD = 2
    COOLDOWN = 1
    Faults = {"cancel"}
PROPERTY ProbeResolves
