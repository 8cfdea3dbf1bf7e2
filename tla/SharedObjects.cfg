SPECIFICATION FairSpec
CONSTANTS
    Threads = {t1, t2}
    Vars = {v, w}
    MaxObjects = 3
    Null = Null
    ResetDropsMember = TRUE
    MovesFromMember = FALSE
    ClearsUsedPool = FALSE
INVARIANT RefCountExact
INVARIANT SlotsOnce
PROPERTY PoolLockFalls
