\* Two pending verdicts on one agent and no fault; the other components stay small.
SPECIFICATION PlatformSpec
CONSTANTS
    Callers = {"b"}
    Slots = {1}
    ToolNames = {"llm", "odd", "shell"}
    Models = {"llm"}
    Unknown = {"odd"}
    Allowed = {"llm", "odd"}
    CallLimit = 3
    TokenLimit = 1
    LlmTokens = {2}
    MaxTokens = 2
    LoopWindow = 2
    Watchers = {1}
    MaxLog = 1
    MaxGatewayFaults = 0
    Accounts = {"e1"}
    Messages = {"big"}
    AccountOf <- MCAccountOf
    KindOf <- MCKindOf
    AmountOf <- MCAmountOf
    CapChoices = {NoCap}
    Handlers = {1}
    NoCap = NoCap
    MaxDeliveries = 1
    MaxBillingFaults = 0
    MaxBillingCrashes = 0
    Agents = {"agent"}
    SoulOf <- MCSoulOf
    HighScorers = {"agent"}
    BadSkills = {}
    Runs = {"run1", "run2"}
    AgentOf <- MCAgentOf
    Stranger = "stranger"
    Backlogs <- MCBacklogs
    EvolutionPolls = {1, 2}
    Requests = {1, 2}
    MaxVerdicts = 2
    MaxCouncils = 2
    MaxAkasaFaults = 0
    MaxAkasaCrashes = 0
    Readers = {1}
    Callbacks = {1}
    Rotates = TRUE
    MaxGrants = 1
    MaxIds = 1
    MaxRenewals = 1
    MaxLinkFaults = 0
INVARIANT
    RetireTakesEffect
CHECK_DEADLOCK FALSE
