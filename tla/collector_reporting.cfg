SPECIFICATION FairSpec
CONSTANTS
    L1 = L1
    L2 = L2
    s1 = s1
    s2 = s2
    s3 = s3
    Switches = {s1, s2, s3}
    Links = {L1, L2}
    SwitchOf <- Tree
    Order <- RegistryOrder
    Configured = {L1}
    ElapsedValues = {TRUE}
    Lossy = TRUE
    CommitMayFail = TRUE
    MaxSent <- SilentPair
    MaxFlows = 0
    MaxPending = 1
    MaxCrashes = 1
INVARIANTS
    HeardLinksGetRows
    ProbeRemembered
    ConnectedIsPolled
PROPERTIES
    LinkKeepsReporting
    ProbedStaysProbed
CHECK_DEADLOCK FALSE
