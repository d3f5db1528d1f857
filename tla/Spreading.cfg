SPECIFICATION SpreadingSpec
CONSTANTS
    Modes = {A, B, C}
    Events = {1, 2, 3, 4, 5, 6, 7}
    MaxEvents = 2
    Horizons <- MCHorizons
SYMMETRY Symmetry
INVARIANTS
    RolloutFollowsSchedule
    AdjustedModes
    AdjustedEvents
    AdjustedTimes
CHECK_DEADLOCK FALSE
