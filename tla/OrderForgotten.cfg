SPECIFICATION Spec
CONSTANTS
    Trade <- ThreeTrades
    Size <- MCSize
    OrderQty = 3
    MaxCounter = 0
    TradesQueried = TRUE
    MaxFailures = 0
    MaxCrashes = 0
PROPERTY
    NoFillForgotten
CHECK_DEADLOCK FALSE
