SPECIFICATION FairSpec
CONSTANTS
    MaxTime = 2
    MaxSessions = 1
    Settings <- MCSynchronized
    Horizon = 2
    Observation <- MCObservation
    Policy <- MCPolicy
    NoObservation = NoObservation
    NoPolicy = NoPolicy
PROPERTY SynchronizedLoopAdvances
CHECK_DEADLOCK FALSE
