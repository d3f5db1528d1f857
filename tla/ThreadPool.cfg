SPECIFICATION FairPoolSpec
CONSTANTS
    MaxThreads = 2
    MaxCalls = 2
    MaxParallel = 3
INVARIANTS
    EachTaskOnce
    OnlyThrowingLeavesTasks
PROPERTY CallsReturn
CHECK_DEADLOCK FALSE
