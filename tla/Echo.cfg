SPECIFICATION FairSpec
CONSTANTS
    Capacity = 20
    kMaxMessageLen <- MaxLen
    Type <- Types
    TypeName <- Names
    Known <- Pool
    Garbage = {0, 12}
    MaxConns = 1
    MaxId = 3
    Greetings <- Greeted
    Cuts = {3, 13}
    Timers = {"server"}
INVARIANTS
    StreamAligned
    LockStep
    CountExact
PROPERTIES
    Answered
CHECK_DEADLOCK FALSE
