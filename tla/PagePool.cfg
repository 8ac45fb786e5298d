SPECIFICATION PoolSpec
CONSTANTS
    ByteSize = 4
    PoolBase = 2
    TotalPages = 12
    UsedPages = 2
    Counts = {1, 2, 3, 11}
INVARIANTS
    PoolAccounting
    StopsOnlyWhenExhausted
    HeldInPool
PROPERTY AllocatorSpec
CHECK_DEADLOCK FALSE
