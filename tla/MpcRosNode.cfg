SPECIFICATION FairSpec
CONSTANTS
    MaxTime = 3
    MaxResets = 2
    Horizon = 2
INVARIANTS
    TypeOK
    NewestIsPublished
PROPERTIES
    HandedOverIsPublished
    MainThreadReturns
