SPECIFICATION AllSpec
CONSTANTS
    Threads = {t1, t2, t3, t4}
    Sharers = {t1, t2, t3}
    MaxUpdates = 2
    NoOwner = NoOwner
    MaxDepth = 3
    InitialCount = 1
    Acquires = {1}
    Releases = {1, 2}
    MaxReleased = 3
    Requests = {1, 3}
    MinBlockSize = 2
    Word = 8
    NoBucket = NoBucket
INVARIANT LockStateExact
INVARIANT OneBucketPerSize
PROPERTY ImplementsAtomicUpdates
PROPERTY DrainEnds
PROPERTY OnlyOwnerReleases
PROPERTY FlagFalls
PROPERTY ImplementsCountingSemaphore
PROPERTY SomebodyAcquires
CHECK_DEADLOCK FALSE
