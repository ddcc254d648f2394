SPECIFICATION FairSpec
CONSTANTS
    Switches = {"s1", "s2"}
    Hosts = {"a", "b", "c"}
    Cables <- PairCables
    HostAt <- PairHosts
    Toward <- PairToward
    Frames <- Talk
    MissRule = TRUE
    BufferIds <- AnyBuffer
    MaxFailures = 1
INVARIANTS
    TypeOK
    LearnedPortsPointHome
    DeliveredOnce
    NothingStranded
PROPERTY
    FramesArrive
CHECK_DEADLOCK FALSE
