SPECIFICATION FairSpec
CONSTANTS
    User = {u1, u2}
    ThreadNums = {0, 2}
    MaxConns = 2
INVARIANTS
    MapExact
    SafeOnce
    StoppedClean
    PoolOutlivesConnections
PROPERTIES
    StopCompletes
CHECK_DEADLOCK FALSE
