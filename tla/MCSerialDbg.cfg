SPECIFICATION FairSpec
CONSTANTS
    RbSize = 2
    MaxPut = 2
    Loads <- MCLoads
    HdrLen = 2
    Chunk = 2
    RxSize = 4
INVARIANTS
    HeadersIntact
    DataInOrder
    ConsoleIsNewest
    ConsoleInOrder
PROPERTIES
    Delivered
CHECK_DEADLOCK FALSE
