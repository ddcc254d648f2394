SPECIFICATION FairSpec
CONSTANTS
    Switches = {"s1", "s2", "s3"}
    Hosts = {"a", "b", "c"}
    Cables <- TreeCables
    HostAt <- TreeHosts
    Toward <- TreeToward
    Frames <- Talk
    MissRule = FALSE
    BufferIds <- AnyBuffer
    MaxFailures = 0
PROPERTY
    FramesArrive
CHECK_DEADLOCK FALSE
