SPECIFICATION Spec
CONSTANTS
    b = b
    Bits = {b}
    Size = 8
    SectorSize = 2
    BlockSize = 4
    Download = 4
    Requests <- MCRequests
    Images <- MCImages
    MaxSwallowed = 4
INVARIANTS
    OutsideIntact
    InPlace
    DownloadStored
PROPERTIES
    WriteStores
CHECK_DEADLOCK FALSE
