SPECIFICATION Spec
CONSTANTS
    User = {u1}
    Loop = loop
    Capacity = 2
    Shapes <- MultiPiece
    MaxSends = 2
    MaxReads = 0
    ShortWrites = TRUE
INVARIANTS
    WireInOrder
CHECK_DEADLOCK FALSE
