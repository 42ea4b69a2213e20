\* The queue is full when space is pressed.
CONSTANTS
    Workers = {w1, w2}
    Main = main
    NoThread = none
    BufferSize = 6
    MsgSize = 2
    MaxMsgs = 2
SPECIFICATION FairSpec
PROPERTY SpaceStopsProgram
CHECK_DEADLOCK FALSE
