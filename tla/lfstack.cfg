CONSTANTS
    Threads = {t1, t2}
    Nodes = {n1, n2, n3}
    NoNode = null
    MaxCalls = 6
SPECIFICATION Spec
SYMMETRY Symmetry
INVARIANTS
    StackIntact
    EnoughNodes
    FalseMeansBusy
    SizeExact
PROPERTY StackSpec
CHECK_DEADLOCK FALSE
