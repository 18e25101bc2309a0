\* One bot with two calls in flight; two deliveries of each billing message, and two handlers;
\* two polls and two requests on one agent; two refreshes of a connection that is deleted and
\* made anew.
SPECIFICATION PlatformSpec
CONSTANTS
    Callers = {"b"}
    Slots = {1, 2}
    ToolNames = {"llm", "odd", "shell"}
    Models = {"llm"}
    Unknown = {"odd"}
    Allowed = {"llm", "odd"}
    CallLimit = 3
    TokenLimit = 1
    LlmTokens = {2}
    MaxTokens = 2
    LoopWindow = 2
    Watchers = {1}
    MaxLog = 3
    MaxGatewayFaults = 1
    Accounts = {"e1"}
    Messages = {"big", "small", "bye"}
    AccountOf <- MCAccountOf
    KindOf <- MCKindOf
    AmountOf <- MCAmountOf
    CapChoices = {2, NoCap}
    Handlers = {1, 2}
    NoCap = NoCap
    MaxDeliveries = 2
    MaxBillingFaults = 1
    MaxBillingCrashes = 1
    Agents = {"agent"}
    SoulOf <- MCSoulOf
    HighScorers = {"agent"}
    BadSkills = {}
    Runs = {"run1", "run2"}
    AgentOf <- MCAgentOf
    Stranger = "stranger"
    Backlogs <- MCBacklogs
    EvolutionPolls = {1, 2}
    Requests = {1, 2}
    MaxVerdicts = 2
    MaxCouncils = 2
    MaxAkasaFaults = 1
    MaxAkasaCrashes = 1
    Readers = {1, 2}
    Callbacks = {1}
    Rotates = TRUE
    MaxGrants = 3
    MaxIds = 2
    MaxRenewals = 1
    MaxLinkFaults = 1
INVARIANTS
    PlatformTypeOK
    TokensBounded
    ChargedOnce
    
    StampedWasDone
    DeletedStaysGone
PROPERTY
    JudgedOnce
CHECK_DEADLOCK FALSE
