SPECIFICATION PoolSpec
CONSTANTS
    ByteSize = 4
    PoolBase = 2
    TotalPages = 10
    UsedPages = 2
    Counts = {1, 2, 3, 9}
INVARIANT ReleaseNeverAsserts
CHECK_DEADLOCK FALSE
