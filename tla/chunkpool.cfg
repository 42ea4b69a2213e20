\* Two items in a chunk: a chunk is left half used, emptied by both threads,
\* recycled and taken by the other one.
CONSTANTS
    Threads = {t1, t2, t3}
    Chunks = {c1, c2, c3, c4, c5}
    None = none
    ChunkSize = 2
    MaxCalls = 9
SPECIFICATION Spec
SYMMETRY Symmetry
INVARIANTS
    ChunkOwned
    CountsExact
PROPERTY PoolSpec
CHECK_DEADLOCK FALSE
