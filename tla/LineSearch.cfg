SPECIFICATION FairSpec
CONSTANTS
    Tasks = {t1, t2}
    LastExp <- MCLastExp
    StepTable <- MCStepTable
    MinStepLength = 3
INVARIANTS
    LargestArmijoStep
    ChosenRollout
    AbortSparesLargerSteps
    SlotsNotShared
PROPERTY SearchReturns
