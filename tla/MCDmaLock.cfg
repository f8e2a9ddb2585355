SPECIFICATION FairSpec
CONSTANTS
    t1 = t1
    t2 = t2
    t3 = t3
    Threads <- ThreeThreads
    NChannels = 2
    MaxHold = 1
    NoThread = NoThread
INVARIANTS
    ExclusiveChannel
    Conservation
PROPERTIES
    TakeReturns
    ImplementsPool
