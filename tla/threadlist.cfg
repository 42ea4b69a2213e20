\* Two PushThreads and two elements: the list is empty, grows while walkers
\* and PopThread wait, and shrinks to nothing; the keys may come at any time.
CONSTANTS
    Pushers = {p1, p2}
    MaxPush = 2
SPECIFICATION FairSpec
INVARIANTS
    PopMeetsElement
    SavedIsSnapshot
PROPERTIES
    SaveServed
    ShutdownCompletes
CHECK_DEADLOCK FALSE
