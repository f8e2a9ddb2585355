SPECIFICATION FairSpec
CONSTANTS
    Sizes = {2, 5}
    Formats = {"RGB565", "GRAYSCALE", "JPEG"}
    CamFormats = {"RGB565", "YUV422", "JPEG"}
    Worlds = {{}, {"slow"}}
    BufSize = 4
    NFrames = 3
INVARIANTS
    ImageRight
    PreviewRight
    WholeWhenSeen
PROPERTIES
    SnapshotReturns
