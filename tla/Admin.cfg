SPECIFICATION FairSpec
CONSTANTS
    c1 = c1
    c2 = c2
    k1 = k1
    k2 = k2
    root = root
    ann = ann
    p1 = p1
    p2 = p2
    None = None
    Conn = {c1, c2}
    Key = {k1, k2}
    User = {root, ann}
    Scenarios <- MCScenarios
    FreeAttempts = 1
    BaseDelay = 1
    MaxDelay = 2
    IdleReset = 3
    TableSize = 1
    HashConcurrency = 2
    Wrap = 64
INVARIANT WorkRefersToLive
INVARIANT RestartKeepsConfig
PROPERTY BackoffHolds
PROPERTY OnlyAdministratorsChange
PROPERTY BootstrapOnce
PROPERTY ConnectionsEnd
CHECK_DEADLOCK FALSE
