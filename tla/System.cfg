SPECIFICATION FairSpec
CONSTANTS
    MaxTime = 6
    MaxSessions = 2
    Settings <- MCSettings
    Horizon = 3
    Observation <- MCObservation
    Policy <- MCPolicy
    NoObservation = NoObservation
    NoPolicy = NoPolicy
INVARIANTS NeverBeyondHorizon SimulatesWithPolicy
PROPERTY InitialPolicyArrives
CHECK_DEADLOCK FALSE
