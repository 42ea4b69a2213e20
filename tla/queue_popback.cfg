\* Two DEL messages meet a list of one string.
CONSTANTS
    Workers = {w1, w2}
    Main = main
    NoThread = none
    BufferSize = 6
    MsgSize = 2
    MaxMsgs = 3
SPECIFICATION Spec
INVARIANT PopBackNonEmpty
CHECK_DEADLOCK FALSE
