SPECIFICATION LibrarySpec
CONSTANTS
    ByteSize = 4
    Off = 3
    Size = 2
    MaxCnt = 9
    WordSize = 256
    Calls <- MCCalls
    Requests <- MCRequests
    Blocks = {b1, b2, b3, b4}
    HeadNode = HeadNode
    TailNode = TailNode
    NULL = NULL
    Written = {b1, HeadNode}
INVARIANTS
    ScanCorrect
    FormatCorrect
    FormatInBounds
    CallCorrect
    LinksAgree
    SearchFindsFree
PROPERTIES
    ListSpec
    EveryCallReturns
CHECK_DEADLOCK FALSE
