SPECIFICATION Spec
CONSTANTS
    Tasks = {t1, t2}
    LastExp <- MCLastExp
    StepTable <- MCStepTable
    MinStepLength = 4
INVARIANT ProcessedInBounds
