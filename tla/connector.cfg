\* Two threads with a connector each, two calls of each: the second call finds
\* what the first one left, a lost or a missing connection.  Three attempts:
\* one that loses the connection, one spent on the connection, one that sends.
CONSTANTS
    Threads = {t1, t2}
    QueryCount = 3
    MaxCalls = 2
SPECIFICATION FairSpec
INVARIANTS
    ResultTellsExecution
    SessionsClosed
PROPERTIES
    CallsReturn
CHECK_DEADLOCK FALSE
