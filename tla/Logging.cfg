SPECIFICATION FairSpec
CONSTANTS
    Thread = {t1, t2, t3}
    None = None
    MaxThrows = 1
INVARIANTS
    SinksOnce
    LoggerReady
PROPERTIES
    CallReturns
