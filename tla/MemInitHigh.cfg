SPECIFICATION PTSpec
CONSTANTS
    Word = 256
    PAGE_SIZE = 4
    ByteSize = 2
    Entries = 10
    CodePages = 1
    KernelPages = 25
    KernelBase = 30
    ResPages = {3, 12}
    KernelFrame = 1
    LowPages = 3
    LoaderTables = 3
    LoaderEntries = 2
    LoaderFbTable = 24
    FrameBuffers = {60}
    Leftovers <- Unwritten
    Bases = {4, 256}
    Sizes = {122, 250, 300}
    MaxRanges = 2
    MemoryMaps <- Tables
INVARIANT AvailableIsMemory
CHECK_DEADLOCK FALSE
