SPECIFICATION FairSpec
CONSTANTS
    Observation = {0, 1, 2}
    NoObservation = NoObservation
    Policy = {p1, p2}
    NoPolicy = NoPolicy
PROPERTIES SendsInOrder LastObservationIsSent ShutdownReturns
