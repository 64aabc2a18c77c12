CONSTANTS
    Thread = {t1, t2}
    Size = 4
    Wide = 16
    Space = 4
    Float <- Floats
    Exact <- ExactBits
    FloatExact <- FloatPlus
    None = None
    MaxCalls = 1
    MaxSpurious = 1
    Operations <- AllOperations
CHECK_DEADLOCK FALSE
SPECIFICATION FairSpec
INVARIANTS
    OrdersKept
PROPERTIES
    OneAccess
    EveryCallEnds
