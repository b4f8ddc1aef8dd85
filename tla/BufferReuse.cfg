SPECIFICATION Spec
CONSTANTS
    Name = {in, out}
    Input = in
    Capacity = 3
    WriteSizes <- Written
    MaxBytes = 5
    StaleLen = {0, 3}
INVARIANTS
    LengthNeverOver
CHECK_DEADLOCK FALSE
