SPECIFICATION Spec
CONSTANTS
    Word16 = 16
    Word32 = 32
    SECTOR_SIZE = 2
    FatSectors = 3
    SectorEntries = 3
    DirEntries = 3
    Media = 14
    EndMark = 15
    empty = empty
    short = short
    long = long
    Garbage = Garbage
    Files <- MCFiles
    Size <- MCSize
INVARIANT EmptyFileFits
