SPECIFICATION InterfaceSpec
CONSTANTS
    MaxPolicies = 3
    MaxTime = 2
    Horizon = 1
    MaxTargets = 2
    MaxSchedules = 1
    NoValue = NoValue
INVARIANTS
    ActiveIsOnePolicy
    NewestIsKept
    RunsWithSetReferences
    ScheduleAsNewAsTargets
    CommandDescribesPolicy
PROPERTIES
    NeverBackwards
    ImplementsMailbox
