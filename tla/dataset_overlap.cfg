SPECIFICATION Spec
CONSTANTS
    Settling = 0
    Baseline = 1
    Duration = 1
    Precursor = 2
    FaultTypes <- Repetition
    LogMayFail = FALSE
    MaxFaults = 3
    MaxRows = 2
    MaxLag = 1
INVARIANTS
    TypeOK
    LabelsAreJustified
CHECK_DEADLOCK FALSE
