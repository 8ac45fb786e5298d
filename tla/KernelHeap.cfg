SPECIFICATION HeapSpec
CONSTANTS
    ByteSize = 4
    PoolBase = 3
    TotalPages = 8
    UsedPages = 4
    Counts = {1, 2}
    Requests = {300, 1024, 4084, 4085}
    MaxLive = 4
CONSTRAINT LiveBound
INVARIANTS
    RegionsSafe
    BlocksAccounted
PROPERTY UsesPoolProperly
CHECK_DEADLOCK FALSE
