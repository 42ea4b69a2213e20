CONSTANTS
    Threads = {t1, t2}
    Blocks = {b1, b2, b3}
    NoBlock = null
    MaxCalls = 7
SPECIFICATION FairSpec
INVARIANTS
    FreeListIntact
    EnoughFree
    CountersExact
PROPERTIES
    PoolSpec
    CallsReturn
CHECK_DEADLOCK FALSE
