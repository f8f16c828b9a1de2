SPECIFICATION FairSpec
CONSTANTS
    Order = {o1}
    MaxDrops = 2
INVARIANT ReconnectIsReconciled
CHECK_DEADLOCK FALSE
