SPECIFICATION Spec
CONSTANTS
    Sizes = {2, 5}
    Formats = {"RGB565", "GRAYSCALE"}
    CamFormats = {"RGB565", "YUV422", "BAYER"}
    Worlds = {{}}
    BufSize = 4
    NFrames = 3
INVARIANTS
    FrameFits
