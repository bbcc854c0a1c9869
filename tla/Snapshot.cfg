SPECIFICATION FairSpec
CONSTANTS
    q1 = q1
    q2 = q2
    Name = {q1, q2}
    NoSnapshot = NoSnapshot
    Hole = Hole
    CompactBatch = 1
    SnapWindow = 1
    ChunkRecords = 1
    MaxFrames = 2
    Scenarios <- MCScenarios
INVARIANT MatchedHoldsLive
INVARIANT CaughtUpIsSame
INVARIANT RecoversSame
PROPERTY CatchesUp
