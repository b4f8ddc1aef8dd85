SPECIFICATION FairSpec
CONSTANTS
    User = {u1, u2}
    Loop = loop
    Capacity = 2
    Shapes <- OneByte
    MaxSends = 1
    MaxReads = 1
    ShortWrites = FALSE
INVARIANTS
    OneWriteInFlight
    OutputNeverStranded
    ReadChain
    DestroyedOnlyDisconnected
    CallbacksOnce
    StreamIntact
PROPERTIES
    StatusOrder
    CloseCompletes
    NoLeak
CHECK_DEADLOCK FALSE
