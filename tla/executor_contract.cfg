SPECIFICATION ExecutorSpec
CONSTANTS
    Bodies <- SomeBodies
    TopologyLinks = {"L1", "L2"}
    ExperimentRuns = {"run_phase2"}
    DbMayFail = TRUE
    MaxActions = 3
    MaxRestarts = 1
INVARIANTS
    ExecutorInvariant
    NoRequestForgotten
PROPERTY
    ImplementsContract
CHECK_DEADLOCK FALSE
