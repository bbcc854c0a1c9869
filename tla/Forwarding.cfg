SPECIFICATION FairSpec
CONSTANTS
    n1 = n1
    n2 = n2
    n3 = n3
    Node = {n1, n2, n3}
    Nil = Nil
    FirstLeader = n1
    InboxHigh = 0
    InboxLow = 1
    Scenarios <- MCScenarios
    MaxOps = 3
INVARIANT ConfirmedIsApplied
INVARIANT SubmissionOrder
PROPERTY CommittedNotReappended
PROPERTY ProposalsCommit
CHECK_DEADLOCK FALSE
