SPECIFICATION FairSpec
CONSTANTS
    Threads = {t1, t2}
    Handles = {h1, h2, h3}
    Capacity = 2
    MaxSegments = 3
    Null = Null
    Nobody = Nobody
INVARIANT SlotsAccounted
INVARIANT GrowsForNeedOnly
PROPERTY ImplementsBlockAllocator
PROPERTY AllocationEnds
