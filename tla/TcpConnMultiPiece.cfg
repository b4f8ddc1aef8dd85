SPECIFICATION Spec
CONSTANTS
    User = {u1}
    Loop = loop
    Capacity = 2
    Shapes <- MultiPiece
    MaxSends = 1
    MaxReads = 1
    ShortWrites = FALSE
INVARIANTS
    StreamIntact
CHECK_DEADLOCK FALSE
