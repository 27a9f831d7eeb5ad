SPECIFICATION BatchSpec
CONSTANTS
    Texts = {m1, m2, m3}
    BatchSize = 2
    BatchFaults = {}
INVARIANT NothingStranded
CHECK_DEADLOCK FALSE
