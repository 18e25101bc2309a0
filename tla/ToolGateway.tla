------------------------------ MODULE ToolGateway ------------------------------
(* POST /tool.invoke of the gateway, its two Redis limiters, and the guardrail *)
(* watchdog of the execution service.  They share the deny list, which the     *)
(* watchdog writes and the gateway reads first, and tool_invocations, which    *)
(* the gateway writes last and the watchdog reads.  A bot has several calls in *)
(* flight, each suspended between reading a limit and using it up.             *)
EXTENDS Naturals, Sequences, FiniteSets, FiniteSetsExt

CONSTANTS
    Callers,        \* bots
    Slots,          \* calls of a bot that may be in flight at once
    ToolNames,      \* tools the bots ask for, with their arguments
    Models,         \* those that are calls of a model
    Unknown,        \* those the gateway has no schema for
    Allowed,        \* allowed_tools of the execution
    CallLimit, TokenLimit, \* points of the limiters, and thresholds of the watchdog
    LlmTokens,      \* tokens a call of a model may use; other tools use none
    MaxTokens,      \* the most of them
    LoopWindow,     \* identical calls that make a loop
    Watchers,       \* watchdog polls that may be under way at once
    MaxLog,         \* bound: rows of tool_invocations of each bot
    MaxGatewayFaults \* bound: failures of Redis, the database, tools and stopBot

ASSUME GatewayAssumption ==
    /\ {CallLimit, TokenLimit, MaxTokens, LoopWindow, MaxLog, MaxGatewayFaults} \subseteq Nat
    /\ LlmTokens \subseteq 0..MaxTokens
    /\ LoopWindow > 0
    /\ IsFiniteSet(Slots)

VARIABLES
    call,      \* where each call is, with its tool and the tokens it used
    calls,     \* points used up in the limiter's window for calls
    tokens,    \* points used up in the limiter's window for tokens
    denied,    \* guardrail:denied:<bot> is set
    log,       \* tool_invocations of each bot, the oldest row first
    recent,    \* how many of its last rows are less than a minute old
    vmUp,      \* the bot is registered, and running
    watch,     \* where each watchdog poll is, and with which bot
    gatewayFaults

gatewayVars == <<call, calls, tokens, denied, log, recent, vmUp, watch, gatewayFaults>>

NoCall == [step |-> "none", tool |-> "", used |-> 0]
CallSteps == {"none", "arrived", "listed", "limiting", "checking", "running",
          "consuming", "logging", "rejecting", "limited"}
Stages == {"rates", "rateDeny", "rateStop", "loops", "loopDeny", "loopStop"}

GatewayTypeOK ==
    /\ call \in [Callers \X Slots ->
                    [step : CallSteps, tool : ToolNames \cup {""}, used : 0..MaxTokens]]
    /\ calls \in [Callers -> Nat] /\ tokens \in [Callers -> Nat]
    /\ denied \in [Callers -> BOOLEAN] /\ vmUp \in [Callers -> BOOLEAN]
    /\ \A b \in Callers : Len(log[b]) <= MaxLog /\ recent[b] \in 0..Len(log[b])
    /\ watch \in [Watchers -> {<<>>} \cup
                    (Stages \X Callers)]
    /\ gatewayFaults \in 0..MaxGatewayFaults

GatewayInit ==
    /\ call = [c \in Callers \X Slots |-> NoCall]
    /\ calls = [b \in Callers |-> 0] /\ tokens = [b \in Callers |-> 0]
    /\ denied = [b \in Callers |-> FALSE]
    /\ log = [b \in Callers |-> <<>>]
    /\ recent = [b \in Callers |-> 0]
    /\ vmUp = [b \in Callers |-> TRUE]
    /\ watch = [w \in Watchers |-> <<>>]
    /\ gatewayFaults = 0

GatewayFault == gatewayFaults < MaxGatewayFaults /\ gatewayFaults' = gatewayFaults + 1

CallAt(b, s, step) == call[<<b, s>>].step = step
Moves(b, s, step) == call' = [call EXCEPT ![<<b, s>>].step = step]

InFlight(b) == {s \in Slots : call[<<b, s>>].step # "none"}
\* The bound: each call in flight may leave a row.
Room(b) == Len(log[b]) + Cardinality(InFlight(b)) < MaxLog

-------------------------------------------------------------------------------
(* One call. *)

Invoke(b, s) ==
    /\ vmUp[b] /\ CallAt(b, s, "none") /\ Room(b)
    /\ \E tool \in ToolNames : call' = [call EXCEPT ![<<b, s>>] = [NoCall EXCEPT
                                            !.step = "arrived", !.tool = tool]]
    /\ UNCHANGED <<calls, tokens, denied, log, recent, vmUp, watch, gatewayFaults>>

\* The deny list is read before anything else; when Redis fails the call goes on.
CheckDenied(b, s) ==
    /\ CallAt(b, s, "arrived")
    /\ \/ Moves(b, s, IF denied[b] THEN "rejecting" ELSE "listed") /\ UNCHANGED gatewayFaults
       \/ denied[b] /\ GatewayFault /\ Moves(b, s, "listed")
    /\ UNCHANGED <<calls, tokens, denied, log, recent, vmUp, watch>>

\* When the database fails the call fails, without a row.
CheckAllowlist(b, s) ==
    /\ CallAt(b, s, "listed")
    /\ \/ /\ Moves(b, s, IF call[<<b, s>>].tool \in Allowed THEN "limiting" ELSE "rejecting")
          /\ UNCHANGED gatewayFaults
       \/ GatewayFault /\ call' = [call EXCEPT ![<<b, s>>] = NoCall]
    /\ UNCHANGED <<calls, tokens, denied, log, recent, vmUp, watch>>

\* A refused call has used up its point as well.
CheckCalls(b, s) ==
    /\ CallAt(b, s, "limiting")
    /\ \/ /\ calls' = [calls EXCEPT ![b] = @ + 1]
          /\ Moves(b, s, IF calls[b] < CallLimit THEN "checking" ELSE "limited")
          /\ UNCHANGED gatewayFaults
       \/ GatewayFault /\ Moves(b, s, "checking") /\ UNCHANGED calls
    /\ UNCHANGED <<tokens, denied, log, recent, vmUp, watch>>

\* Mutant of TokensLeft: the check before the call lets everything pass.
TokensLeftAlways(b) == TRUE

\* consume(bot, 0): refused when more than the limit has been used up.
TokensLeft(b) == tokens[b] <= TokenLimit

CheckTokens(b, s) ==
    /\ CallAt(b, s, "checking")
    /\ \/ /\ Moves(b, s, IF TokensLeft(b) THEN "running" ELSE "limited")
          /\ UNCHANGED gatewayFaults
       \/ ~TokensLeft(b) /\ GatewayFault /\ Moves(b, s, "running")
    /\ UNCHANGED <<calls, tokens, denied, log, recent, vmUp, watch>>

\* 400: no row.
RefuseUnknown(b, s) ==
    /\ CallAt(b, s, "running") /\ call[<<b, s>>].tool \in Unknown
    /\ call' = [call EXCEPT ![<<b, s>>] = NoCall]
    /\ UNCHANGED <<calls, tokens, denied, log, recent, vmUp, watch, gatewayFaults>>

\* The body fits the schema of the tool, the tool returns, and the billing event is
\* published, or its loss logged.
RunTool(b, s) ==
    /\ CallAt(b, s, "running") /\ call[<<b, s>>].tool \notin Unknown
    /\ IF call[<<b, s>>].tool \in Models
         THEN \E n \in LlmTokens :
                 call' = [call EXCEPT ![<<b, s>>].step = "consuming", ![<<b, s>>].used = n]
         ELSE Moves(b, s, "logging")
    /\ UNCHANGED <<calls, tokens, denied, log, recent, vmUp, watch, gatewayFaults>>

\* The body is refused, or the tool throws: a row without tokens either way.
RunToolFails(b, s) ==
    /\ CallAt(b, s, "running") /\ call[<<b, s>>].tool \notin Unknown
    /\ GatewayFault
    /\ Moves(b, s, "rejecting")
    /\ UNCHANGED <<calls, tokens, denied, log, recent, vmUp, watch>>

\* Over the limit or not, the points are used up and the call succeeds; when Redis
\* fails they are not.
ConsumeTokens(b, s) ==
    /\ CallAt(b, s, "consuming")
    /\ \/ tokens' = [tokens EXCEPT ![b] = @ + call[<<b, s>>].used] /\ UNCHANGED gatewayFaults
       \/ GatewayFault /\ UNCHANGED tokens
    /\ Moves(b, s, "logging")
    /\ UNCHANGED <<calls, denied, log, recent, vmUp, watch>>

\* A row, rejected or not, unless the insert fails; a call over a limit leaves no
\* arguments in it.
WriteAudit(b, s) ==
    /\ call[<<b, s>>].step \in {"logging", "rejecting", "limited"}
    /\ \/ /\ log' = [log EXCEPT ![b] = Append(@, [tool |-> call[<<b, s>>].tool,
                                                 brief |-> CallAt(b, s, "limited"),
                                                 used |-> call[<<b, s>>].used])]
          /\ recent' = [recent EXCEPT ![b] = @ + 1]
          /\ UNCHANGED gatewayFaults
       \/ GatewayFault /\ UNCHANGED <<log, recent>>
    /\ call' = [call EXCEPT ![<<b, s>>] = NoCall]
    /\ UNCHANGED <<calls, tokens, denied, vmUp, watch>>

-------------------------------------------------------------------------------
(* Time: windows end, rows grow old, the deny key expires.                     *)

CallWindowEnds(b) ==
    /\ calls[b] > 0 /\ calls' = [calls EXCEPT ![b] = 0]
    /\ UNCHANGED <<call, tokens, denied, log, recent, vmUp, watch, gatewayFaults>>

TokenWindowEnds(b) ==
    /\ tokens[b] > 0 /\ tokens' = [tokens EXCEPT ![b] = 0]
    /\ UNCHANGED <<call, calls, denied, log, recent, vmUp, watch, gatewayFaults>>

RowGrowsOld(b) ==
    /\ recent[b] > 0 /\ recent' = [recent EXCEPT ![b] = @ - 1]
    /\ UNCHANGED <<call, calls, tokens, denied, log, vmUp, watch, gatewayFaults>>

DenialExpires(b) ==
    /\ denied[b] /\ denied' = [denied EXCEPT ![b] = FALSE]
    /\ UNCHANGED <<call, calls, tokens, log, recent, vmUp, watch, gatewayFaults>>

-------------------------------------------------------------------------------
(* The watchdog: rates first, then loops, each bot on its own.  A revocation   *)
(* is the deny key, then stopBot; its errors are swallowed.                    *)

RecentRows(b) == (Len(log[b]) - recent[b] + 1)..Len(log[b])
TokensLogged(b) == MapThenSumSet(LAMBDA i : log[b][i].used, RecentRows(b))
OverRate(b) == recent[b] >= CallLimit \/ TokensLogged(b) >= TokenLimit

Fingerprint(row) == <<row.tool, row.brief>>
Looping(b) ==
    /\ Len(log[b]) >= LoopWindow
    /\ \A i, j \in (Len(log[b]) - LoopWindow + 1)..Len(log[b]) :
          Fingerprint(log[b][i]) = Fingerprint(log[b][j])

WatchUnchanged == UNCHANGED <<call, calls, tokens, log, recent>>

\* The bots come from the registry, whose entries stopBot removes.
WatchBegin(w, b) ==
    /\ watch[w] = <<>> /\ vmUp[b]
    /\ watch' = [watch EXCEPT ![w] = <<"rates", b>>]
    /\ WatchUnchanged /\ UNCHANGED <<denied, vmUp, gatewayFaults>>

WatchRates(w, b) ==
    /\ watch[w] = <<"rates", b>>
    /\ watch' = [watch EXCEPT ![w] = <<IF ~denied[b] /\ OverRate(b) THEN "rateDeny" ELSE "loops", b>>]
    /\ WatchUnchanged /\ UNCHANGED <<denied, vmUp, gatewayFaults>>

WatchLoops(w, b) ==
    /\ watch[w] = <<"loops", b>>
    /\ watch' = [watch EXCEPT ![w] =
                    IF vmUp[b] /\ ~denied[b] /\ Looping(b) THEN <<"loopDeny", b>> ELSE <<>>]
    /\ WatchUnchanged /\ UNCHANGED <<denied, vmUp, gatewayFaults>>

After(stage, b) ==
    IF stage \in {"rates", "rateDeny", "rateStop"} THEN <<"loops", b>> ELSE <<>>

Deny(w, b) ==
    /\ \E deny \in {"rateDeny", "loopDeny"} :
          /\ watch[w] = <<deny, b>>
          /\ watch' = [watch EXCEPT ![w] =
                          <<IF deny = "rateDeny" THEN "rateStop" ELSE "loopStop", b>>]
    /\ denied' = [denied EXCEPT ![b] = TRUE]
    /\ WatchUnchanged /\ UNCHANGED <<vmUp, gatewayFaults>>

StopRevoked(w, b) ==
    /\ \E stop \in {"rateStop", "loopStop"} :
          watch[w] = <<stop, b>> /\ watch' = [watch EXCEPT ![w] = After(stop, b)]
    /\ vmUp' = [vmUp EXCEPT ![b] = FALSE]
    /\ WatchUnchanged /\ UNCHANGED <<denied, gatewayFaults>>

\* Redis, the database or stopBot throws: the next poll skips a bot that is denied already.
RevocationFails(w, b) ==
    /\ \E stage \in Stages :
          watch[w] = <<stage, b>> /\ watch' = [watch EXCEPT ![w] = After(stage, b)]
    /\ GatewayFault
    /\ WatchUnchanged /\ UNCHANGED <<denied, vmUp>>

CallNext(b, s) ==
    \/ Invoke(b, s) \/ CheckDenied(b, s) \/ CheckAllowlist(b, s) \/ CheckCalls(b, s)
    \/ CheckTokens(b, s) \/ RefuseUnknown(b, s) \/ RunTool(b, s) \/ RunToolFails(b, s) \/ ConsumeTokens(b, s) \/ WriteAudit(b, s)
TimeNext(b) ==
    CallWindowEnds(b) \/ TokenWindowEnds(b) \/ RowGrowsOld(b) \/ DenialExpires(b)
WatchNext(w, b) ==
    \/ WatchBegin(w, b) \/ WatchRates(w, b) \/ WatchLoops(w, b)
    \/ Deny(w, b) \/ StopRevoked(w, b) \/ RevocationFails(w, b)

GatewayNext == \E b \in Callers : \/ \E s \in Slots : CallNext(b, s)
                                  \/ TimeNext(b)
                                  \/ \E w \in Watchers : WatchNext(w, b)

GatewaySpec == GatewayInit /\ [][GatewayNext]_gatewayVars

-------------------------------------------------------------------------------
(* Properties. *)

\* "If consuming pushes over the limit, the CURRENT call still succeeds.  The NEXT call
\* will be blocked": checked before and used up after, the limit of a window is
\* overshot by the calls in flight at most, whatever ends or expires in between; a
\* failure of Redis lets one more pass.
TokensBounded ==
    \A b \in Callers :
        tokens[b] <= TokenLimit + MaxTokens * (Cardinality(Slots) + gatewayFaults)
===============================================================================
