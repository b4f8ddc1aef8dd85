SPECIFICATION Spec
CONSTANTS
    Thread = {t1, t2, t3}
    Piece = {p1, p2, p3, p4, p5, p6}
    BASE_CACHE_COUNT = 1
    MAX_DELETE_ONCE = 3
    MaxCleared = 1
SYMMETRY Symmetry
INVARIANTS
    UsingCountExact
    CacheBounded
    NoAlias
    HeapExact
CHECK_DEADLOCK FALSE
