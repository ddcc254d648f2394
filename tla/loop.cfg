SPECIFICATION FairSpec
CONSTANTS
    Links = {"L2"}
    RegistryFiles <- Versions
    ReadMayFail = TRUE
    Levels = {"clear", "busy", "severe"}
    Partials = {FALSE, TRUE}
    WindowSeconds = 0
    RowLimit = 1
    PredictionMayFail = TRUE
    Reactive = TRUE
    ExperimentRuns = {"run_phase2"}
    DbMayFail = FALSE
    MaxActions = 2
    MaxRestarts = 1
    MaxTime = 1
INVARIANTS
    TypeOK
    RequestsHaveCause
PROPERTIES
    ActsOnEvidence
    CongestionIsRecovered
CHECK_DEADLOCK FALSE
