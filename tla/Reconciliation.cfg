SPECIFICATION Spec
CONSTANTS
    Order = {o1}
    MaxDrops = 2
INVARIANTS
    LossIsReported
    OrphanIsReported
    ReconnectIsOwed
CHECK_DEADLOCK FALSE
