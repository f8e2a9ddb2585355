SPECIFICATION FairSpec
CONSTANTS
    QualityLow = 1
    QualityHigh = 2
    KeepFrames = 1
    NChunks = 2
    MaxFrames = 2
    Kinds = {"raw", "jpeg"}
INVARIANTS
    NoTornFrame
    NoStalePixels
    OwnerIsInside
PROPERTIES
    FrameLeaves
