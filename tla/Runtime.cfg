\* One bot with two /ready calls; five plans for the execution and all short replies for
\* the planner; two jobs on one bot; two overlapping polls; four souls for two tasks.
SPECIFICATION RuntimeLiveSpec
CONSTANTS
    Bots = {"bot"}
    Calls = {1, 2}
    Stoppers = {"route", "guard"}
    StopRoute = "route"
    MaxBotFaults = 1
    MaxRestarts = 1
    TaskIds = {"t1", "t2", "t3"}
    Tools = {"shell"}
    Granted = {}
    Minimum = 3
    FallbackIds = {"task-1"}
    Plans <- MCPlans
    Caps = {0, 200}
    Estimate = 50
    Requests = {1, 2}
    MaxExecFaults = 1
    Jobs = {"j1", "j2"}
    Servers = {"b1"}
    Attempts = 2
    Nobody = Nobody
    MaxTrouble = 1
    MaxStalls = 1
    Sessions = {"a1"}
    Spares = {"a2"}
    CoTasks = {"task"}
    WorkOf <- MCWorkOf
    Polls = {1, 2}
    Levels = {0, 85}
    MaxCoFaults = 1
    Library <- MCLibrary
    Complexity <- MCComplexity
    AgentEstimate = 50
    Catalogues <- MCCatalogues
    Likenesses <- MCLikenesses
    Budgets = {0, 100, 300, 350}
INVARIANTS
    RuntimeTypeOK
    RunningVmAccounted
    
    StartedOnce
    
    BotServesOne
    
    ReplacedOncePerPoll
    AdmittedIsFunded
    StaffedSoundly
PROPERTIES
    
    EntryResolves
    RunEndsHere
    OnlyReplacementsLeft
CHECK_DEADLOCK FALSE
