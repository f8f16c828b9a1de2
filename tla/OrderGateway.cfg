SPECIFICATION FairSpec
CONSTANTS
    Trade <- ThreeTrades
    Size <- MCSize
    OrderQty = 3
    MaxCounter = 0
    TradesQueried = TRUE
    MaxFailures = 2
    MaxCrashes = 2
INVARIANTS
    FreshIds
    ActionsAreLegal
    Agree
    Settled
    FillsAreTrades
    Recoverable
PROPERTIES
    KeepsHistory
    DoubtEnds
CHECK_DEADLOCK FALSE
