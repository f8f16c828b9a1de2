SPECIFICATION Spec
CONSTANTS
    Trade <- ThreeTrades
    Size <- MCSize
    OrderQty = 3
    MaxCounter = 0
    TradesQueried = TRUE
    MaxFailures = 1
    MaxCrashes = 1
INVARIANT
    Reopens
CHECK_DEADLOCK FALSE
