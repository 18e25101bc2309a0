\* Four iterations and room for an orphan; two hook calls at a time; two faults.
SPECIFICATION FairSpec
CONSTANTS
    MaxIterations = 4
    BudgetCap = 5
    EfsScores <- MCEfsScores
    Costs = {1, 2}
    Hooks = {h1, h2}
    Attempts = 2
    MaxExecutions = 5
    MaxFaults = 2
    NULL = NULL
\* The campaign really stops.
CHECK_DEADLOCK FALSE
INVARIANTS
    TypeOK
    OnlyIterationsRun
    AggregatesMatch
PROPERTIES
    RunsTheLoop
    
    NeverForgotten
