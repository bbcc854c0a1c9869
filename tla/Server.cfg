SPECIFICATION FairSpec
CONSTANTS
    c1 = c1
    c2 = c2
    c3 = c3
    w0 = w0
    w1 = w1
    Conn = {c1, c2, c3}
    Worker = {w0, w1}
    MainWorker = w0
    MaxConnections = 2
    Watermark = 10
    MsgSize = 5
    Prefetch = 2
    Scenarios <- MCScenarios
    MaxFrames = 2
    MaxEvents = 4
PROPERTY PausesEnd
PROPERTY DeadAreReaped
PROPERTY PlainShutdownEnds
CHECK_DEADLOCK FALSE
