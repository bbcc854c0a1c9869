SPECIFICATION FairSpec
CONSTANTS
    Thread = {t1, t2}
    QName = {"p", "q"}
    ExName = {"x", "y"}
    NoEx = "none"
    MaxHops = 1
    Scenarios <- MCScenarios
INVARIANT RefsCountHolders
INVARIANT KeptUntilConsumed
PROPERTY RoutedByMeaning
PROPERTY RoutesReturn
CHECK_DEADLOCK FALSE
