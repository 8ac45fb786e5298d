SPECIFICATION LSpec
CONSTANTS
    Word16 = 16
    Word32 = 32
    SECTOR_SIZE = 2
    FatSectors = 2
    SectorEntries = 5
    DirEntries = 3
    Media = 14
    EndMark = 15
    kernel = kernel
    backup = backup
    readme = readme
    Garbage = Garbage
    Files <- MCFiles
    Size <- MCSize
    Kernel = kernel
    Name <- MCName
    NameLen = 4
    SectorDir = 4
    Tries = 32
    Leftover = {0, 15}
    LoadBound = 4
INVARIANTS
    ListedIntact
    ExtentsDisjoint
    NoClusterLost
    CopiesAgree
    RefusedOnlyWhenFull
    KernelLoaded
PROPERTIES KernelBoots ImplementsFileSystem
CHECK_DEADLOCK FALSE
