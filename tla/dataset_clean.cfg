SPECIFICATION Spec
CONSTANTS
    Settling = 0
    Baseline = 3
    Duration = 2
    Precursor = 2
    FaultTypes <- Repetition
    LogMayFail = TRUE
    MaxFaults = 2
    MaxRows = 2
    MaxLag = 1
INVARIANT
    PrecursorsAreClean
CHECK_DEADLOCK FALSE
