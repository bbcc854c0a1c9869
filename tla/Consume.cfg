SPECIFICATION FairSpec
CONSTANTS
    w1 = w1
    w2 = w2
    Worker = {w1, w2}
    NoDelivery = NoDelivery
    ClientSets <- MCClientSets
    MaxMsgs = 3
    MaxRequeues = 2
    MaxFailures = 1
INVARIANT ReplicaKeepsUnsettled
INVARIANT NothingLost
PROPERTY ReplicasDrain
CHECK_DEADLOCK FALSE
