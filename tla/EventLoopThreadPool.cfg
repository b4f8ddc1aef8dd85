SPECIFICATION FairSpec
CONSTANTS
    MaxThreads = 3
    MaxCalls = 2
INVARIANTS
    RunningMeansAllRun
    StoppedMeansAllExited
    StopAssert
PROPERTIES
    NextLoopLive
    StatusMonotone
    CallsComplete
CHECK_DEADLOCK FALSE
