SPECIFICATION FairSpec
CONSTANTS
    Threads = {"spi", "flash", "i2s", "kpu", "fft", "lcd"}
    Channels = {c1, c2, c3}
    Boards <- MCBoards
    FftChannels = {c2, c3}
    c1 = c1
    c2 = c2
    c3 = c3
    None = None
    MaxRuns = 2
    SemMax = 1
INVARIANTS
    Accounted
    ArmedIsHeld
    SpiCallbackClean
PROPERTIES
    KpuReturnsResult
    SpiEnds
CHECK_DEADLOCK FALSE
