SPECIFICATION FairSpec
CONSTANTS
    Chan = {1, 2}
    Scenarios <- MCScenarios
    MaxEvents = 3
INVARIANT AnswersExpected
INVARIANT AckedIsDone
INVARIANT NoProtocolError
PROPERTY ClientIsAnswered
CHECK_DEADLOCK FALSE
