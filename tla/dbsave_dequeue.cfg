CONSTANTS
    Updaters = {u1, u2}
    Slots = 3
    PtrSize = 2
    Headers = {h1, h2, h3}
    NoHeader = none
    MaxMsgs = 2
SPECIFICATION Spec
INVARIANT DequeueExact
CHECK_DEADLOCK FALSE
