SPECIFICATION Spec
CONSTANTS
    Links = {"L1"}
    RegistryFiles <- Versions
    ReadMayFail = FALSE
    Levels = {"severe"}
    Partials = {FALSE}
    WindowSeconds = 0
    RowLimit = 1
    PredictionMayFail = FALSE
    Reactive = TRUE
    ExperimentRuns = {"run_phase2"}
    DbMayFail = FALSE
    MaxActions = 1
    MaxRestarts = 0
    MaxTime = 0
INVARIANT
    BaselineTriggersRecovery
CHECK_DEADLOCK FALSE
