SPECIFICATION Spec
CONSTANTS
    MaxTime = 3
    MaxResets = 1
    Horizon = 2
INVARIANT PublishesComputedPolicies
