SPECIFICATION FairSpec
CONSTANTS
    MaxTime = 1
    Horizon = 1
    MaxRepeats = 1
INVARIANTS
    DrivenOnlyWhenActive
    ResetOnce
PROPERTIES
    UsesNewest
    InitialResetCompletes
    RobotIsDriven
CHECK_DEADLOCK FALSE
