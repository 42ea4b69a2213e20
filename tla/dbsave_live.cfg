\* One updater and four messages: the positions of the ring wrap, so a size may
\* be torn; at most two headers are lost, so one is always free in the end.
CONSTANTS
    Updaters = {u1}
    Slots = 3
    PtrSize = 2
    Headers = {h1, h2, h3}
    NoHeader = none
    MaxMsgs = 4
SPECIFICATION FairSpec
PROPERTIES
    ShutdownCompletes
    RowsReachDB
CHECK_DEADLOCK FALSE
