SPECIFICATION FairSpec
CONSTANTS
    MinAcceptedPho = 20
    MaxRejections = 2
    MaxExponent = 3
    Rollout = {1, 2, 3, 4, 5, 6, 7, 8, 9}
    None = None
    maxNumIterations = 3
    Horizon = 3
    MaxIterations = 9
    Strategies = {"LINE_SEARCH", "LEVENBERG_MARQUARDT"}
INVARIANTS SolverIInv CacheIsConsistent NominalIsConsistent PublishedTogether
PROPERTIES RejectedStepIsDamped RunEnds
CHECK_DEADLOCK FALSE
