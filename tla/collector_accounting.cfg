SPECIFICATION Spec
CONSTANTS
    L1 = L1
    L2 = L2
    s1 = s1
    s2 = s2
    s3 = s3
    Switches = {s1, s2}
    Links = {L1}
    SwitchOf <- OneLink
    Order <- OnlyOrder
    Configured = {L1}
    ElapsedValues = {TRUE, FALSE}
    Lossy = FALSE
    CommitMayFail = FALSE
    MaxSent <- OneWayTwo
    MaxFlows = 0
    MaxPending = 2
    MaxCrashes = 1
INVARIANTS
    NoByteReportedTwice
    ByteInvariant
CHECK_DEADLOCK FALSE
