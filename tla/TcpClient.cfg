SPECIFICATION FairSpec
CONSTANTS
    MaxConns = 2
    MaxCalls = 4
INVARIANTS
    OneAttempt
    ConnAlive
    NoStall
PROPERTIES
    Reconnects
CHECK_DEADLOCK FALSE
