SPECIFICATION Spec
CONSTANTS
    L1 = L1
    L2 = L2
    s1 = s1
    s2 = s2
    s3 = s3
    Switches = {s1, s2}
    Links = {L1}
    SwitchOf <- OneLink
    Order <- OnlyOrder
    Configured = {L1}
    ElapsedValues = {TRUE}
    Lossy = FALSE
    CommitMayFail = FALSE
    MaxSent <- Silent
    MaxFlows = 0
    MaxPending = 4
    MaxCrashes = 0
INVARIANT
    PartialWhenEndMissing
CHECK_DEADLOCK FALSE
