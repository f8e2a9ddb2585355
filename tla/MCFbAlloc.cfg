SPECIFICATION Spec
CONSTANTS
    NSlots = 2
    Blocks = {b1, b2, b3}
    b1 = b1
    b2 = b2
    b3 = b3
    None = None
    Width = 4
    FeatureSets = {{"raise", "restart"}, {"callback", "restart"},
                   {"zero", "restart"}, {"extra", "raise"}, {"extra", "restart"}}
    MaxMark = 2
SYMMETRY BlockSymmetry
INVARIANTS
    SlotsOwnBlocks
    PlainHeldIsLive
PROPERTIES
    ImplementsStack
