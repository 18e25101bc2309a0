\* No budget cap: what becomes of a campaign whose hook fails?
SPECIFICATION FairSpec
CONSTANTS
    MaxIterations = 2
    BudgetCap = NULL
    EfsScores <- MCEfsScores
    Costs = {1, 2}
    Hooks = {h1, h2}
    Attempts = 2
    MaxExecutions = 2
    MaxFaults = 1
    NULL = NULL
\* The campaign really stops.
CHECK_DEADLOCK FALSE
PROPERTY
    HookErrorStopsCampaign
