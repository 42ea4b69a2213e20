\* Two updaters and a ring of two pointers; two updaters that both see a
\* counter of one send three messages, so its positions wrap and a message can
\* find it full.
CONSTANTS
    Updaters = {u1, u2}
    Slots = 3
    PtrSize = 2
    Headers = {h1, h2, h3}
    NoHeader = none
    MaxMsgs = 2
SPECIFICATION Spec
SYMMETRY Symmetry
INVARIANTS
    HeaderOwnership
    RowsInOrder
    RowNumbers
    NoLostWakeup
    ShutdownDrains
PROPERTY PipeSpec
CHECK_DEADLOCK FALSE
