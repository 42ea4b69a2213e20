\* Two workers that may race for the list, a queue of two messages (the third
\* is dropped when nobody drains) and three messages.
CONSTANTS
    Workers = {w1, w2}
    Main = main
    NoThread = none
    BufferSize = 6
    MsgSize = 2
    MaxMsgs = 3
SPECIFICATION FairSpec
INVARIANTS
    CheckedSizeHolds
    ExactlyOnce
    QuitToken
    NoLostWakeup
    ShutdownClean
PROPERTIES
    ListStableWhilePrinting
    ShutdownCompletes
    AcceptedHandled
    DispatchSpec
CHECK_DEADLOCK FALSE
