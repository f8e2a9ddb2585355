SPECIFICATION Spec
CONSTANTS
    NSlots = 3
    Blocks = {b1, b2, b3}
    b1 = b1
    b2 = b2
    b3 = b3
    None = None
    Width = 65536
    FeatureSets = {{"callback"}}
    MaxMark = 3
INVARIANTS
    HeldIsLive
