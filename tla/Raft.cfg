SPECIFICATION MCSpec
CONSTANTS
    n1 = n1
    n2 = n2
    n3 = n3
    Node = {n1, n2, n3}
    Value = {v1}
    Nil = Nil
    MaxBatch = 3
    MaxTerm = 3
    MaxLog = 2
    MaxTimeouts = 2
    MaxBeats = 1
    MaxSyncs = 4
    MaxResets = 1
    MaxCrashes = 1
    MaxFaults = 1
SYMMETRY FollowerSymmetry
INVARIANT ElectionSafety
INVARIANT LeaderCompleteness
INVARIANT StateMachineSafety
INVARIANT LogMatching
PROPERTY VoteOncePerTerm
CHECK_DEADLOCK FALSE
