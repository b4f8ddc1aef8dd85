SPECIFICATION Spec
CONSTANTS
    Name = {in, out}
    Input = in
    Capacity = 3
    WriteSizes <- Written
    MaxBytes = 6
    StaleLen = {}
INVARIANTS
    TypeOK
    LengthExact
    
PROPERTIES
    ImplementsByteQueue
CHECK_DEADLOCK FALSE
