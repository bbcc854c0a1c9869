SPECIFICATION FairSpec
CONSTANTS
    w1 = w1
    w2 = w2
    c1 = c1
    c2 = c2
    p1 = p1
    NoConsumer = NoConsumer
    NoQueue = NoQueue
    Worker = {w1, w2}
    Consumer = {c1, c2}
    Publisher = {p1}
    Setups <- MCSetups
    MaxQueues = 2
    MaxMsgs = 3
INVARIANT NoLostWakeup
PROPERTY BacklogServed
CHECK_DEADLOCK FALSE
