\* Two jobs on one bot, with one trouble and one stall; the other components stay small.
SPECIFICATION RuntimeSpec
CONSTANTS
    Bots = {"bot"}
    Calls = {1}
    Stoppers = {"route"}
    StopRoute = "route"
    MaxBotFaults = 0
    MaxRestarts = 0
    TaskIds = {"t1", "t2", "t3"}
    Tools = {"shell"}
    Granted = {}
    Minimum = 3
    FallbackIds = {"task-1"}
    Plans <- MCPlans
    Caps = {0}
    Estimate = 50
    Requests = {1}
    MaxExecFaults = 0
    Jobs = {"j1", "j2"}
    Servers = {"b1"}
    Attempts = 2
    Nobody = Nobody
    MaxTrouble = 1
    MaxStalls = 1
    Sessions = {"a1"}
    Spares = {"a2"}
    CoTasks = {"task"}
    WorkOf <- MCWorkOf
    Polls = {1}
    Levels = {0}
    MaxCoFaults = 0
    Library <- MCLibrary
    Complexity <- MCComplexity
    AgentEstimate = 50
    Catalogues <- MCCatalogues
    Likenesses <- MCLikenesses
    Budgets = {0}
INVARIANT
    OwnResult
CHECK_DEADLOCK FALSE
