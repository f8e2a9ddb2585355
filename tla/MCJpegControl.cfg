SPECIFICATION ControlFairSpec
CONSTANTS
    QualityLow = 50
    QualityHigh = 90
    KeepFrames = 60
PROPERTIES
    KeptForFrames
    Recovers
