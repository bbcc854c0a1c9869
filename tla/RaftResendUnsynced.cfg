SPECIFICATION ElectedSpec
CONSTANTS
    n1 = n1
    n2 = n2
    n3 = n3
    Node = {n1, n2, n3}
    Value = {v1}
    Nil = Nil
    MaxBatch = 3
    MaxTerm = 1
    MaxLog = 3
    MaxTimeouts = 0
    MaxBeats = 1
    MaxSyncs = 2
    MaxResets = 1
    MaxCrashes = 0
    MaxFaults = 0
SYMMETRY FollowerSymmetry
INVARIANT CommittedIsDurable
CHECK_DEADLOCK FALSE
