SPECIFICATION FairSpec
CONSTANTS
    Pid = {p1, p2}
    NoPid = NoPid
    MaxRestarts = 2
    Samples = 4
    Window = 2
    HeartbeatTimeout = 2
    ShutdownTimeout = 2
    MaxCrashes = 3
    MaxFreezes = 1
    MaxSpawnFailures = 1
INVARIANT OneProcess
PROPERTY FrozenIsReaped
PROPERTY ShutdownStops
CHECK_DEADLOCK FALSE
