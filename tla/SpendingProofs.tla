---------------------------- MODULE SpendingProofs ----------------------------
(* What bounds the spending, for any numbers of bots, executions, calls and     *)
(* messages and any limits: the token limit of the gateway, and the charges and *)
(* the budget cap of the billing engine.                                        *)
EXTENDS Billing, ToolGateway, FiniteSetTheorems, SequenceTheorems, TLAPS

-------------------------------------------------------------------------------
(* The gateway: its token limit, whatever fails.                                *)

CallRecords == [step : CallSteps, tool : ToolNames \cup {""}, used : 0..MaxTokens]

\* Calls that have passed the check of the tokens and have not used theirs up.
Spending(b) == {s \in Slots : call[<<b, s>>].step \in {"running", "consuming"}}

CallType == call \in [Callers \X Slots -> CallRecords]
CountTypes == tokens \in [Callers -> Nat] /\ gatewayFaults \in Nat

\* What TokensBounded needs to be inductive: the calls in flight that are past the check
\* count as if each had used the most it may.
SpendingBounded ==
    \A b \in Callers :
        tokens[b] + MaxTokens * Cardinality(Spending(b))
            <= TokenLimit + MaxTokens * (Cardinality(Slots) + gatewayFaults)

TokensInv == CallType /\ CountTypes /\ SpendingBounded

LEMMA TimesNext ==
    ASSUME NEW m \in Nat, NEW k \in Nat
    PROVE  m * k \in Nat /\ m * (k + 1) = m * k + m
  OBVIOUS

LEMMA TimesMonotone ==
    ASSUME NEW m \in Nat, NEW i \in Nat, NEW j \in Nat, i <= j
    PROVE  m * i <= m * j
  OBVIOUS

LEMMA LimitTypes ==
    /\ MaxTokens \in Nat /\ TokenLimit \in Nat
    /\ Cardinality(Slots) \in Nat
    /\ \A S \in SUBSET Slots : /\ IsFiniteSet(S) /\ Cardinality(S) \in Nat
                               /\ Cardinality(S) <= Cardinality(Slots)
  BY GatewayAssumption, FS_CardinalityType, FS_Subset

LEMMA SpendingSlots == \A b : Spending(b) \in SUBSET Slots /\ Spending(b)' \in SUBSET Slots
  BY DEF Spending

\* A step that uses nothing up and lets no call past the check.
LEMMA NothingSpent ==
    ASSUME TokensInv, CallType', CountTypes',
           \A b \in Callers : tokens'[b] <= tokens[b] /\ Spending(b)' \subseteq Spending(b),
           gatewayFaults <= gatewayFaults'
    PROVE  TokensInv'
  <1> SUFFICES ASSUME NEW b \in Callers
               PROVE  tokens'[b] + MaxTokens * Cardinality(Spending(b)')
                        <= TokenLimit + MaxTokens * (Cardinality(Slots) + gatewayFaults')
    BY DEF TokensInv, SpendingBounded
  <1> DEFINE before == Cardinality(Spending(b))
             after == Cardinality(Spending(b)')
             most == Cardinality(Slots) + gatewayFaults
             most1 == Cardinality(Slots) + gatewayFaults'
  <1>1. before \in Nat /\ after \in Nat /\ after <= before
    BY LimitTypes, SpendingSlots, FS_Subset
  <1>2. most \in Nat /\ most1 \in Nat /\ most <= most1
    <2>1. gatewayFaults \in Nat /\ gatewayFaults' \in Nat
      BY DEF TokensInv, CountTypes
    <2>2. Cardinality(Slots) \in Nat
      BY LimitTypes
    <2> QED
      BY <2>1, <2>2
  <1>3. tokens[b] \in Nat /\ tokens'[b] \in Nat
    BY DEF TokensInv, CountTypes
  <1>4. tokens[b] + MaxTokens * before <= TokenLimit + MaxTokens * most
    BY DEF TokensInv, SpendingBounded
  <1> HIDE DEF before, after, most, most1
  <1>5. /\ MaxTokens * after <= MaxTokens * before /\ MaxTokens * most <= MaxTokens * most1
        /\ MaxTokens * after \in Nat /\ MaxTokens * before \in Nat
        /\ MaxTokens * most \in Nat /\ MaxTokens * most1 \in Nat
    BY <1>1, <1>2, LimitTypes, TimesMonotone, TimesNext
  <1>6. tokens'[b] + MaxTokens * after <= TokenLimit + MaxTokens * most1
    BY <1>3, <1>4, <1>5, LimitTypes
  <1> QED
    BY <1>6 DEF after, most1

\* A step of one call that moves it elsewhere than into or within what is being spent.
LEMMA OneCallMoves ==
    ASSUME TokensInv, NEW b \in Callers, NEW s \in Slots,
           NEW c \in CallRecords,
           call' = [call EXCEPT ![<<b, s>>] = c]
    PROVE  /\ CallType'
           /\ \A a \in Callers \ {b} : Spending(a)' = Spending(a)
           /\ Spending(b)' = IF c.step \in {"running", "consuming"} THEN Spending(b) \cup {s}
                                                                    ELSE Spending(b) \ {s}
  <1>1. <<b, s>> \in Callers \X Slots /\ call'[<<b, s>>] = c
    BY DEF TokensInv, CallType
  <1>2. \A a \in Callers, t \in Slots : <<a, t>> # <<b, s>> => call'[<<a, t>>] = call[<<a, t>>]
    BY DEF TokensInv, CallType
  <1>3. \A a \in Callers \ {b} : Spending(a)' = Spending(a)
    BY <1>2 DEF Spending
  <1>4. \A t \in Slots : t \in Spending(b)' <=>
            IF t = s THEN c.step \in {"running", "consuming"} ELSE t \in Spending(b)
    BY <1>1, <1>2 DEF Spending
  <1> QED
    BY <1>1, <1>3, <1>4, SpendingSlots DEF TokensInv, CallType

LEMMA RecordStep ==
    ASSUME NEW c \in CallRecords, NEW step \in CallSteps
    PROVE  [c EXCEPT !.step = step] \in CallRecords /\ [c EXCEPT !.step = step].step = step
  BY DEF CallRecords

LEMMA RecordArrives ==
    ASSUME NEW c \in CallRecords, NEW tool \in ToolNames
    PROVE  LET new == [c EXCEPT !.step = "arrived", !.tool = tool]
           IN  new \in CallRecords /\ new.step = "arrived"
  BY DEF CallRecords, CallSteps

\* A step of one call that leaves it among those that spend, or outside.
LEMMA CallQuiet ==
    ASSUME TokensInv, NEW b \in Callers, NEW s \in Slots, NEW c \in CallRecords,
           call' = [call EXCEPT ![<<b, s>>] = c], UNCHANGED tokens,
           c.step \notin {"running", "consuming"} \/ s \in Spending(b),
           gatewayFaults' \in Nat, gatewayFaults <= gatewayFaults'
    PROVE  TokensInv'
  <1>1. /\ CallType' /\ \A a \in Callers \ {b} : Spending(a)' = Spending(a)
        /\ Spending(b)' \subseteq Spending(b)
    BY OneCallMoves
  <1>2. CountTypes' /\ \A a \in Callers : tokens'[a] <= tokens[a]
    BY DEF TokensInv, CountTypes
  <1> QED
    BY <1>1, <1>2, NothingSpent

LEMMA MovesQuiet ==
    ASSUME TokensInv, NEW b \in Callers, NEW s \in Slots, NEW step \in CallSteps,
           Moves(b, s, step), UNCHANGED tokens,
           step \notin {"running", "consuming"} \/ s \in Spending(b),
           gatewayFaults' \in Nat, gatewayFaults <= gatewayFaults'
    PROVE  TokensInv'
  <1> DEFINE c == [call[<<b, s>>] EXCEPT !.step = step]
  <1>1. c \in CallRecords /\ c.step = step /\ call' = [call EXCEPT ![<<b, s>>] = c]
    BY RecordStep DEF TokensInv, CallType, Moves
  <1> HIDE DEF c
  <1> QED
    BY <1>1, CallQuiet

\* What a failure and what an untroubled step do to the count of failures.
LEMMA FaultCounts ==
    ASSUME TokensInv, GatewayFault \/ UNCHANGED gatewayFaults
    PROVE  gatewayFaults' \in Nat /\ gatewayFaults <= gatewayFaults'
  BY GatewayAssumption DEF TokensInv, CountTypes, GatewayFault

\* The sums of one bot, where each case of the next two steps has only arithmetic left.
LEMMA BotSum ==
    ASSUME TokensInv, NEW b \in Callers
    PROVE  /\ tokens[b] \in Nat /\ gatewayFaults \in Nat
           /\ IsFiniteSet(Spending(b)) /\ Cardinality(Spending(b)) \in Nat
           /\ tokens[b] + MaxTokens * Cardinality(Spending(b))
                <= TokenLimit + MaxTokens * (Cardinality(Slots) + gatewayFaults)
  BY LimitTypes, SpendingSlots DEF TokensInv, CountTypes, SpendingBounded

\* A call passes the check: there are no more of them than slots, or a failure pays for it.
LEMMA CheckTokensStep ==
    ASSUME TokensInv, NEW b \in Callers, NEW s \in Slots, CheckTokens(b, s)
    PROVE  TokensInv'
  <1>1. CASE Moves(b, s, "limited") /\ UNCHANGED gatewayFaults
    BY <1>1, MovesQuiet, FaultCounts DEF CheckTokens, CallSteps
  <1>2. CASE /\ Moves(b, s, "running")
             /\ \/ TokensLeft(b) /\ UNCHANGED gatewayFaults
                \/ GatewayFault
    <2> DEFINE c == [call[<<b, s>>] EXCEPT !.step = "running"]
    <2>1. c \in CallRecords /\ c.step = "running" /\ call' = [call EXCEPT ![<<b, s>>] = c]
      BY <1>2, RecordStep DEF TokensInv, CallType, CallSteps, Moves
    <2> HIDE DEF c
    <2>2. UNCHANGED tokens
      BY DEF CheckTokens
    <2>3. /\ CallType' /\ \A a \in Callers \ {b} : Spending(a)' = Spending(a)
          /\ Spending(b)' = Spending(b) \cup {s}
      BY <2>1, OneCallMoves
    <2>5. CountTypes'
      BY <1>2, <2>2, FaultCounts DEF TokensInv, CountTypes
    <2>4. ASSUME NEW a \in Callers
          PROVE  tokens'[a] + MaxTokens * Cardinality(Spending(a)')
                   <= TokenLimit + MaxTokens * (Cardinality(Slots) + gatewayFaults')
      <3> DEFINE before == Cardinality(Spending(a))
                 after == Cardinality(Spending(a)')
                 slots == Cardinality(Slots)
      <3>1. /\ before \in Nat /\ after \in Nat /\ slots \in Nat /\ after <= slots
            /\ tokens[a] \in Nat /\ gatewayFaults \in Nat /\ gatewayFaults' \in Nat
        <4>1. before \in Nat /\ after \in Nat /\ slots \in Nat /\ after <= slots
          BY LimitTypes, SpendingSlots
        <4>2. gatewayFaults' \in Nat
          BY <1>2, FaultCounts
        <4> QED
          BY <4>1, <4>2, BotSum
      <3>2. after <= before + 1
        <4>1. Spending(a)' \in {Spending(a), Spending(a) \cup {s}}
          BY <2>3
        <4>2. after \in {before, before + 1}
          BY <4>1, BotSum, FS_AddElement
        <4> QED
          BY <3>1, <4>2
      <3>3. tokens[a] + MaxTokens * before <= TokenLimit + MaxTokens * (slots + gatewayFaults)
        BY BotSum
      <3>4. CASE a = b /\ TokensLeft(b)
        <4>1. tokens[a] <= TokenLimit
          BY <3>4 DEF TokensLeft
        <4> DEFINE most == slots + gatewayFaults'
        <4>2. most \in Nat /\ after <= most
          BY <3>1
        <4> HIDE DEF before, after, slots, most
        <4>3. MaxTokens * after <= MaxTokens * most
          BY <3>1, <4>2, LimitTypes, TimesMonotone
        <4>4. MaxTokens * after \in Nat /\ MaxTokens * most \in Nat
          BY <3>1, <4>2, LimitTypes, TimesNext
        <4>5. tokens[a] + MaxTokens * after <= TokenLimit + MaxTokens * most
          BY <3>1, <4>1, <4>3, <4>4, LimitTypes
        <4> QED
          BY <2>2, <4>5 DEF after, slots, most
      <3>5. CASE gatewayFaults' = gatewayFaults + 1
        <4> DEFINE most == slots + gatewayFaults
        <4>1. most \in Nat /\ slots + gatewayFaults' = most + 1
          BY <3>1, <3>5
        <4> HIDE DEF before, after, slots
        <4>2. MaxTokens * after <= MaxTokens * (before + 1)
          BY <3>1, <3>2, LimitTypes, TimesMonotone
        <4>3. /\ MaxTokens * (before + 1) = MaxTokens * before + MaxTokens
              /\ MaxTokens * after \in Nat /\ MaxTokens * before \in Nat
          BY <3>1, LimitTypes, TimesNext
        <4>4. MaxTokens * (most + 1) = MaxTokens * most + MaxTokens /\ MaxTokens * most \in Nat
          BY <4>1, LimitTypes, TimesNext
        <4>5. tokens[a] + MaxTokens * after <= TokenLimit + MaxTokens * (most + 1)
          BY <3>1, <3>3, <4>2, <4>3, <4>4, LimitTypes
        <4> QED
          BY <2>2, <4>1, <4>5 DEF after, slots
      <3>6. CASE a # b /\ UNCHANGED gatewayFaults
        BY <2>2, <2>3, <3>3, <3>6
      <3> QED
        BY <1>2, <3>4, <3>5, <3>6 DEF GatewayFault
    <2> QED
      BY <2>3, <2>4, <2>5 DEF TokensInv, SpendingBounded
  <1> QED
    BY <1>1, <1>2 DEF CheckTokens

\* The tokens of a call are used up: it had been counted with the most it may use.
LEMMA ConsumeTokensStep ==
    ASSUME TokensInv, NEW b \in Callers, NEW s \in Slots, ConsumeTokens(b, s)
    PROVE  TokensInv'
  <1>1. CASE GatewayFault /\ UNCHANGED tokens
    BY <1>1, MovesQuiet, FaultCounts DEF ConsumeTokens, CallSteps
  <1>2. CASE tokens' = [tokens EXCEPT ![b] = @ + call[<<b, s>>].used] /\ UNCHANGED gatewayFaults
    <2> DEFINE c == [call[<<b, s>>] EXCEPT !.step = "logging"]
               used == call[<<b, s>>].used
    <2>1. c \in CallRecords /\ c.step = "logging" /\ call' = [call EXCEPT ![<<b, s>>] = c]
      BY RecordStep DEF TokensInv, CallType, CallSteps, ConsumeTokens, Moves
    <2>8. used \in 0..MaxTokens
      <3>1. call[<<b, s>>] \in CallRecords
        BY DEF TokensInv, CallType
      <3> QED
        BY <3>1 DEF CallRecords
    <2>2. tokens' = [tokens EXCEPT ![b] = @ + used]
      BY <1>2
    <2>3. s \in Spending(b)
      BY DEF ConsumeTokens, CallAt, Spending
    <2> HIDE DEF c, used
    <2>4. /\ \A a \in Callers \ {b} : Spending(a)' = Spending(a)
          /\ Spending(b)' = Spending(b) \ {s}
          /\ CallType'
      BY <2>1, OneCallMoves
    <2>5. /\ tokens[b] \in Nat /\ used \in Nat /\ used <= MaxTokens
          /\ tokens'[b] = tokens[b] + used /\ \A a \in Callers \ {b} : tokens'[a] = tokens[a]
      BY <2>2, <2>8, LimitTypes DEF TokensInv, CountTypes
    <2>6. CountTypes'
      <3>1. tokens[b] + used \in Nat
        BY <2>5
      <3> QED
        BY <1>2, <2>2, <3>1 DEF TokensInv, CountTypes
    <2>7. ASSUME NEW a \in Callers
          PROVE  tokens'[a] + MaxTokens * Cardinality(Spending(a)')
                   <= TokenLimit + MaxTokens * (Cardinality(Slots) + gatewayFaults')
      <3>1. CASE a = b
        <4> DEFINE after == Cardinality(Spending(a)')
                   most == MaxTokens * (Cardinality(Slots) + gatewayFaults)
        <4>1. /\ after \in Nat /\ Cardinality(Spending(a)) = after + 1
              /\ tokens[a] + MaxTokens * Cardinality(Spending(a)) <= TokenLimit + most
          BY <2>3, <2>4, <3>1, BotSum, LimitTypes, SpendingSlots, FS_RemoveElement
        <4>2. most \in Nat
          <5>1. Cardinality(Slots) + gatewayFaults \in Nat
            BY LimitTypes, BotSum
          <5> QED
            BY <5>1, LimitTypes, TimesNext
        <4> HIDE DEF after, most
        <4>3. MaxTokens * (after + 1) = MaxTokens * after + MaxTokens /\ MaxTokens * after \in Nat
          BY <4>1, LimitTypes, TimesNext
        <4>4. tokens'[a] + MaxTokens * after <= TokenLimit + most
          BY <2>5, <3>1, <4>1, <4>2, <4>3, LimitTypes
        <4> QED
          BY <1>2, <4>4 DEF after, most
      <3>2. CASE a # b
        BY <1>2, <2>4, <2>5, <3>2, BotSum
      <3> QED
        BY <3>1, <3>2
    <2> QED
      BY <2>4, <2>6, <2>7 DEF TokensInv, SpendingBounded
  <1> QED
    BY <1>1, <1>2 DEF ConsumeTokens

\* One step of a call.
LEMMA CallStep ==
    ASSUME TokensInv, NEW b \in Callers, NEW s \in Slots, CallNext(b, s)
    PROVE  TokensInv'
  <1>1. NoCall \in CallRecords /\ NoCall.step = "none"
    BY LimitTypes DEF NoCall, CallRecords, CallSteps
  <1>2. CASE Invoke(b, s)
    <2>1. PICK tool \in ToolNames :
              call' = [call EXCEPT ![<<b, s>>] = [NoCall EXCEPT !.step = "arrived",
                                                                !.tool = tool]]
      BY <1>2 DEF Invoke
    <2> DEFINE c == [NoCall EXCEPT !.step = "arrived", !.tool = tool]
    <2>2. c \in CallRecords /\ c.step = "arrived"
      BY <1>1, <2>1, RecordArrives
    <2>3. UNCHANGED <<tokens, gatewayFaults>>
      BY <1>2 DEF Invoke
    <2> HIDE DEF c
    <2> QED
      BY <2>1, <2>2, <2>3, CallQuiet, FaultCounts DEF c
  <1>3. CASE CheckDenied(b, s)
    BY <1>3, MovesQuiet, FaultCounts DEF CheckDenied, CallSteps
  <1>4. CASE CheckAllowlist(b, s)
    <2>1. UNCHANGED tokens /\ (GatewayFault \/ UNCHANGED gatewayFaults)
      BY <1>4 DEF CheckAllowlist
    <2>2. CASE call' = [call EXCEPT ![<<b, s>>] = NoCall]
      BY <1>1, <2>1, <2>2, CallQuiet, FaultCounts
    <2>3. CASE \E step \in {"limiting", "rejecting"} : Moves(b, s, step)
      BY <2>1, <2>3, MovesQuiet, FaultCounts DEF CallSteps
    <2> QED
      BY <1>4, <2>2, <2>3 DEF CheckAllowlist
  <1>5. CASE CheckCalls(b, s)
    <2>1. UNCHANGED tokens /\ (GatewayFault \/ UNCHANGED gatewayFaults)
          /\ \E step \in {"checking", "limited"} : Moves(b, s, step)
      BY <1>5 DEF CheckCalls
    <2> QED
      BY <2>1, MovesQuiet, FaultCounts DEF CallSteps
  <1>6. CASE CheckTokens(b, s)
    BY <1>6, CheckTokensStep
  <1>7. CASE RefuseUnknown(b, s)
    BY <1>1, <1>7, CallQuiet, FaultCounts DEF RefuseUnknown
  <1>8. CASE RunTool(b, s)
    <2>1. UNCHANGED <<tokens, gatewayFaults>>
      BY <1>8 DEF RunTool
    <2>2. s \in Spending(b)
      BY <1>8 DEF RunTool, CallAt, Spending
    <2>3. CASE Moves(b, s, "logging")
      BY <2>1, <2>3, MovesQuiet, FaultCounts DEF CallSteps
    <2>4. ASSUME NEW n \in LlmTokens,
                 call' = [call EXCEPT ![<<b, s>>].step = "consuming", ![<<b, s>>].used = n]
          PROVE  TokensInv'
      <3> DEFINE c == [call[<<b, s>>] EXCEPT !.step = "consuming", !.used = n]
      <3>1. call[<<b, s>>] \in CallRecords /\ call' = [call EXCEPT ![<<b, s>>] = c]
        BY <2>4 DEF TokensInv, CallType
      <3>2. n \in 0..MaxTokens
        BY <2>4, GatewayAssumption
      <3>3. c \in CallRecords /\ c.step = "consuming"
        BY <3>1, <3>2 DEF CallRecords, CallSteps
      <3> HIDE DEF c
      <3> QED
        BY <2>1, <2>2, <3>1, <3>3, CallQuiet, FaultCounts
    <2> QED
      BY <1>8, <2>3, <2>4 DEF RunTool
  <1>9. CASE RunToolFails(b, s)
    BY <1>9, MovesQuiet, FaultCounts DEF RunToolFails, CallSteps
  <1>10. CASE ConsumeTokens(b, s)
    BY <1>10, ConsumeTokensStep
  <1>11. CASE WriteAudit(b, s)
    BY <1>1, <1>11, CallQuiet, FaultCounts DEF WriteAudit
  <1> QED
    BY <1>2, <1>3, <1>4, <1>5, <1>6, <1>7, <1>8, <1>9, <1>10, <1>11 DEF CallNext

LEMMA TokensStep ==
    ASSUME TokensInv, [GatewayNext]_gatewayVars
    PROVE  TokensInv'
  <1>1. ASSUME UNCHANGED <<call, tokens>>, GatewayFault \/ UNCHANGED gatewayFaults
        PROVE  TokensInv'
    <2>1. CallType' /\ \A a \in Callers : Spending(a)' = Spending(a)
      BY <1>1 DEF TokensInv, CallType, Spending
    <2>2. CountTypes' /\ \A a \in Callers : tokens'[a] <= tokens[a]
      BY <1>1, FaultCounts DEF TokensInv, CountTypes
    <2> QED
      BY <1>1, <2>1, <2>2, FaultCounts, NothingSpent
  <1>2. CASE UNCHANGED gatewayVars
    BY <1>1, <1>2 DEF gatewayVars
  <1>3. CASE GatewayNext
    <2>1. PICK b \in Callers : \/ \E s \in Slots : CallNext(b, s)
                               \/ TimeNext(b)
                               \/ \E w \in Watchers : WatchNext(w, b)
      BY <1>3 DEF GatewayNext
    <2>2. CASE \E s \in Slots : CallNext(b, s)
      BY <2>2, CallStep
    <2>3. CASE TokenWindowEnds(b)
      <3>1. CallType' /\ \A a \in Callers : Spending(a)' = Spending(a)
        BY <2>3 DEF TokenWindowEnds, TokensInv, CallType, Spending
      <3>2. CountTypes' /\ \A a \in Callers : tokens'[a] <= tokens[a]
        BY <2>3 DEF TokenWindowEnds, TokensInv, CountTypes
      <3> QED
        BY <2>3, <3>1, <3>2, FaultCounts, NothingSpent DEF TokenWindowEnds
    <2>4. CASE CallWindowEnds(b) \/ RowGrowsOld(b) \/ DenialExpires(b)
      BY <1>1, <2>4 DEF CallWindowEnds, RowGrowsOld, DenialExpires
    <2>5. CASE \E w \in Watchers : WatchNext(w, b)
      BY <1>1, <2>5 DEF WatchNext, WatchBegin, WatchRates, WatchLoops, Deny, StopRevoked,
                        RevocationFails, WatchUnchanged
    <2> QED
      BY <2>1, <2>2, <2>3, <2>4, <2>5 DEF TimeNext
  <1> QED
    BY <1>2, <1>3

LEMMA TokensStart == GatewayInit => TokensInv
  <1> SUFFICES ASSUME GatewayInit PROVE TokensInv
    OBVIOUS
  <1>1. NoCall \in CallRecords /\ NoCall.step = "none"
    BY LimitTypes DEF NoCall, CallRecords, CallSteps
  <1>2. CallType /\ CountTypes
    BY <1>1 DEF GatewayInit, CallType, CountTypes
  <1>3. ASSUME NEW b \in Callers
        PROVE  tokens[b] + MaxTokens * Cardinality(Spending(b))
                 <= TokenLimit + MaxTokens * (Cardinality(Slots) + gatewayFaults)
    <2> DEFINE most == Cardinality(Slots) + gatewayFaults
    <2>1. Spending(b) = {} /\ tokens[b] = 0
      BY <1>1 DEF GatewayInit, Spending
    <2>2. Cardinality(Spending(b)) = 0
      BY <2>1, FS_EmptySet
    <2>3. most \in Nat
      BY <1>2, LimitTypes DEF CountTypes
    <2> HIDE DEF most
    <2>4. MaxTokens * most \in Nat /\ MaxTokens * 0 = 0
      BY <2>3, LimitTypes, TimesNext
    <2>5. 0 + MaxTokens * 0 <= TokenLimit + MaxTokens * most
      BY <2>4, LimitTypes
    <2> QED
      BY <2>1, <2>2, <2>5 DEF most
  <1> QED
    BY <1>2, <1>3 DEF TokensInv, SpendingBounded

\* The comment of checkTokenBudget, for every limit and any number of calls: a window of a
\* bot is overshot by no more than what the calls in flight may use, and a failed check
\* of Redis by one more each (TokensBounded).
THEOREM TokensStayBounded == GatewaySpec => []TokensBounded
  <1>1. TokensInv => TokensBounded
    <2> SUFFICES ASSUME TokensInv, NEW b \in Callers
                 PROVE  tokens[b] <= TokenLimit + MaxTokens * (Cardinality(Slots) + gatewayFaults)
      BY DEF TokensBounded
    <2> DEFINE spent == MaxTokens * Cardinality(Spending(b))
               most == MaxTokens * (Cardinality(Slots) + gatewayFaults)
    <2>1. spent \in Nat /\ tokens[b] \in Nat /\ tokens[b] + spent <= TokenLimit + most
      BY BotSum, LimitTypes, TimesNext
    <2>2. most \in Nat
      <3>1. Cardinality(Slots) + gatewayFaults \in Nat
        BY LimitTypes, BotSum
      <3> QED
        BY <3>1, LimitTypes, TimesNext
    <2> HIDE DEF spent, most
    <2>3. tokens[b] <= TokenLimit + most
      BY <2>1, <2>2, LimitTypes
    <2> QED
      BY <2>3 DEF most
  <1> QED
    BY <1>1, TokensStart, TokensStep, PTL DEF GatewaySpec

-------------------------------------------------------------------------------
(* The gateway: the bounds of its log, and the types of the rest.               *)

LogRows == [tool : ToolNames \cup {""}, brief : BOOLEAN, used : 0..MaxTokens]

\* What is neither a call nor its row.
SwitchTypes ==
    /\ calls \in [Callers -> Nat]
    /\ denied \in [Callers -> BOOLEAN] /\ vmUp \in [Callers -> BOOLEAN]
    /\ watch \in [Watchers -> {<<>>} \cup (Stages \X Callers)]
    /\ gatewayFaults \in 0..MaxGatewayFaults

\* What keeps the log within its bound: each call in flight has its place in it.
LogTypes ==
    /\ log \in [Callers -> Seq(LogRows)] /\ recent \in [Callers -> Nat]
    /\ \A b \in Callers : /\ recent[b] <= Len(log[b])
                          /\ Len(log[b]) + Cardinality(InFlight(b)) <= MaxLog

LEMMA SwitchStep ==
    ASSUME TokensInv, SwitchTypes, [GatewayNext]_gatewayVars
    PROVE  SwitchTypes'
  <1> USE DEF SwitchTypes
  <1>1. GatewayFault => gatewayFaults' \in 0..MaxGatewayFaults
    BY GatewayAssumption DEF GatewayFault
  <1>2. ASSUME NEW b \in Callers, NEW s \in Slots, CallNext(b, s) PROVE SwitchTypes'
    <2>1. /\ UNCHANGED <<denied, vmUp, watch>> /\ (GatewayFault \/ UNCHANGED gatewayFaults)
          /\ UNCHANGED calls \/ calls' = [calls EXCEPT ![b] = @ + 1]
      BY <1>2 DEF CallNext, Invoke, CheckDenied, CheckAllowlist, CheckCalls, CheckTokens,
                  RefuseUnknown, RunTool, RunToolFails, ConsumeTokens, WriteAudit
    <2>2. calls' \in [Callers -> Nat]
      BY <2>1
    <2> QED
      BY <1>1, <2>1, <2>2
  <1>3. ASSUME NEW b \in Callers, TimeNext(b) PROVE SwitchTypes'
    <2>1. /\ UNCHANGED <<vmUp, watch, gatewayFaults>>
          /\ UNCHANGED calls \/ calls' = [calls EXCEPT ![b] = 0]
          /\ UNCHANGED denied \/ denied' = [denied EXCEPT ![b] = FALSE]
      BY <1>3 DEF TimeNext, CallWindowEnds, TokenWindowEnds, RowGrowsOld, DenialExpires
    <2>2. calls' \in [Callers -> Nat]
      BY <2>1
    <2>3. denied' \in [Callers -> BOOLEAN]
      BY <2>1
    <2> QED
      BY <2>1, <2>2, <2>3
  <1>4. ASSUME NEW b \in Callers, NEW w \in Watchers, WatchNext(w, b) PROVE SwitchTypes'
    <2>1. \A stage \in Stages : After(stage, b) \in {<<>>} \cup (Stages \X Callers)
      BY DEF After, Stages
    <2>2. /\ UNCHANGED calls /\ (GatewayFault \/ UNCHANGED gatewayFaults)
          /\ UNCHANGED denied \/ denied' = [denied EXCEPT ![b] = TRUE]
          /\ UNCHANGED vmUp \/ vmUp' = [vmUp EXCEPT ![b] = FALSE]
      BY <1>4 DEF WatchNext, WatchBegin, WatchRates, WatchLoops, Deny, StopRevoked,
                  RevocationFails, WatchUnchanged
    <2>3. \E place \in {<<>>} \cup (Stages \X Callers) : watch' = [watch EXCEPT ![w] = place]
      <3>1. CASE WatchBegin(w, b)
        BY <3>1 DEF WatchBegin, Stages
      <3>2. CASE WatchRates(w, b)
        BY <3>2 DEF WatchRates, Stages
      <3>3. CASE WatchLoops(w, b)
        BY <3>3 DEF WatchLoops, Stages
      <3>4. CASE Deny(w, b)
        BY <3>4 DEF Deny, Stages
      <3>5. CASE StopRevoked(w, b) \/ RevocationFails(w, b)
        BY <2>1, <3>5 DEF StopRevoked, RevocationFails, Stages
      <3> QED
        BY <1>4, <3>1, <3>2, <3>3, <3>4, <3>5 DEF WatchNext
    <2>4. denied' \in [Callers -> BOOLEAN]
      BY <2>2
    <2>5. vmUp' \in [Callers -> BOOLEAN]
      BY <2>2
    <2>6. watch' \in [Watchers -> {<<>>} \cup (Stages \X Callers)]
      BY <2>3
    <2> QED
      BY <1>1, <2>2, <2>4, <2>5, <2>6
  <1>5. CASE UNCHANGED gatewayVars
    BY <1>5 DEF gatewayVars
  <1> QED
    BY <1>2, <1>3, <1>4, <1>5 DEF GatewayNext

LEMMA FlightSlots ==
    \A b : /\ IsFiniteSet(InFlight(b)) /\ Cardinality(InFlight(b)) \in Nat
           /\ IsFiniteSet(InFlight(b)') /\ Cardinality(InFlight(b)') \in Nat
  <1>1. \A b : InFlight(b) \in SUBSET Slots /\ InFlight(b)' \in SUBSET Slots
    BY DEF InFlight
  <1> QED
    BY <1>1, LimitTypes

\* A step after which no more calls are in flight than before, and no row is new.
LEMMA NoRowWritten ==
    ASSUME LogTypes, UNCHANGED log, recent' \in [Callers -> Nat],
           \A b \in Callers : recent'[b] <= recent[b] /\ InFlight(b)' \subseteq InFlight(b)
    PROVE  LogTypes'
  <1>1. ASSUME NEW b \in Callers
        PROVE  recent'[b] <= Len(log[b]) /\ Len(log[b]) + Cardinality(InFlight(b)') <= MaxLog
    <2> DEFINE before == Cardinality(InFlight(b))
               after == Cardinality(InFlight(b)')
               length == Len(log[b])
    <2>1. before \in Nat /\ after \in Nat /\ after <= before
      BY FlightSlots, FS_Subset
    <2>2. /\ recent[b] \in Nat /\ recent'[b] \in Nat /\ recent'[b] <= recent[b]
          /\ recent[b] <= length /\ length + before <= MaxLog
      BY DEF LogTypes
    <2>3. length \in Nat /\ MaxLog \in Nat
      BY LenProperties, GatewayAssumption DEF LogTypes
    <2> HIDE DEF before, after, length
    <2>4. recent'[b] <= length /\ length + after <= MaxLog
      BY <2>1, <2>2, <2>3
    <2> QED
      BY <2>4 DEF after, length
  <1> QED
    BY <1>1 DEF LogTypes

LEMMA InvokeRoom ==
    ASSUME TokensInv, LogTypes, NEW b \in Callers, NEW s \in Slots, Invoke(b, s)
    PROVE  LogTypes'
  <1>1. \A a \in Callers, t \in Slots : <<a, t>> # <<b, s>> => call'[<<a, t>>] = call[<<a, t>>]
    BY DEF Invoke, TokensInv, CallType
  <1>2. \A a \in Callers \ {b} : InFlight(a)' = InFlight(a)
    BY <1>1 DEF InFlight
  <1>3. InFlight(b)' \subseteq InFlight(b) \cup {s} /\ s \notin InFlight(b)
    BY <1>1 DEF InFlight, Invoke, CallAt
  <1> DEFINE before == Cardinality(InFlight(b))
             after == Cardinality(InFlight(b)')
             length == Len(log[b])
  <1>4. before \in Nat /\ after \in Nat /\ after <= before + 1
    <2>1. /\ IsFiniteSet(InFlight(b) \cup {s})
          /\ Cardinality(InFlight(b) \cup {s}) = before + 1
      BY <1>3, FlightSlots, FS_AddElement
    <2>2. after <= Cardinality(InFlight(b) \cup {s})
      BY <1>3, <2>1, FS_Subset
    <2> QED
      BY <2>1, <2>2, FlightSlots
  <1>5. length \in Nat /\ MaxLog \in Nat /\ length + before < MaxLog
    BY LenProperties, GatewayAssumption DEF LogTypes, Invoke, Room
  <1> HIDE DEF before, after, length
  <1>6. length + after <= MaxLog
    BY <1>4, <1>5
  <1>7. UNCHANGED <<log, recent>>
    BY DEF Invoke
  <1>8. ASSUME NEW a \in Callers PROVE Len(log[a]) + Cardinality(InFlight(a)') <= MaxLog
    BY <1>2, <1>6 DEF LogTypes, after, length
  <1> QED
    BY <1>7, <1>8 DEF LogTypes

LEMMA AuditRoom ==
    ASSUME TokensInv, LogTypes, NEW b \in Callers, NEW s \in Slots, WriteAudit(b, s)
    PROVE  LogTypes'
  <1>1. /\ call'[<<b, s>>] = NoCall
        /\ \A a \in Callers, t \in Slots : <<a, t>> # <<b, s>> => call'[<<a, t>>] = call[<<a, t>>]
    BY DEF WriteAudit, TokensInv, CallType
  <1>2. \A a \in Callers \ {b} : InFlight(a)' = InFlight(a)
    BY <1>1 DEF InFlight
  <1>3. InFlight(b)' = InFlight(b) \ {s} /\ s \in InFlight(b)
    <2>1. call[<<b, s>>].step # "none" /\ call'[<<b, s>>].step = "none"
      <3>1. call[<<b, s>>].step \in {"logging", "rejecting", "limited"}
        BY DEF WriteAudit
      <3>2. call'[<<b, s>>].step = NoCall.step
        BY <1>1
      <3>3. NoCall.step = "none"
        BY DEF NoCall
      <3> QED
        BY <3>1, <3>2, <3>3
    <2>2. \A t \in Slots : t # s => call'[<<b, t>>] = call[<<b, t>>]
      BY <1>1
    <2> QED
      BY <2>1, <2>2 DEF InFlight
  <1>4. CASE UNCHANGED <<log, recent>>
    <2>1. \A a \in Callers : recent'[a] <= recent[a] /\ InFlight(a)' \subseteq InFlight(a)
      <3>1. \A a \in Callers : recent'[a] = recent[a] /\ recent[a] \in Nat
        BY <1>4 DEF LogTypes
      <3>2. \A a \in Callers : InFlight(a)' \subseteq InFlight(a)
        BY <1>2, <1>3
      <3> QED
        BY <3>1, <3>2
    <2> QED
      BY <1>4, <2>1, NoRowWritten DEF LogTypes
  <1> DEFINE new == [tool |-> call[<<b, s>>].tool, brief |-> CallAt(b, s, "limited"),
                     used |-> call[<<b, s>>].used]
  <1>5. new \in LogRows
    <2>1. call[<<b, s>>] \in CallRecords
      BY DEF TokensInv, CallType
    <2>2. CallAt(b, s, "limited") \in BOOLEAN
      BY DEF CallAt
    <2> QED
      BY <2>1, <2>2 DEF CallRecords, LogRows
  <1> HIDE DEF new
  <1>6. CASE /\ log' = [log EXCEPT ![b] = Append(@, new)]
             /\ recent' = [recent EXCEPT ![b] = @ + 1]
    <2> DEFINE before == Cardinality(InFlight(b))
               after == Cardinality(InFlight(b)')
               length == Len(log[b])
               length1 == Len(log'[b])
    <2>1. log[b] \in Seq(LogRows) /\ recent[b] \in Nat
      BY DEF LogTypes
    <2>2. /\ Append(log[b], new) \in Seq(LogRows)
          /\ Len(Append(log[b], new)) = length + 1
      BY <1>5, <2>1, AppendProperties
    <2>3. /\ log' \in [Callers -> Seq(LogRows)] /\ recent' \in [Callers -> Nat]
          /\ recent'[b] = recent[b] + 1 /\ length1 = length + 1
          /\ \A a \in Callers \ {b} : log'[a] = log[a] /\ recent'[a] = recent[a]
      BY <1>6, <2>1, <2>2 DEF LogTypes
    <2>4. before \in Nat /\ after \in Nat /\ after + 1 = before
      <3>1. IsFiniteSet(InFlight(b)) /\ before \in Nat /\ after \in Nat
        BY FlightSlots
      <3>2. Cardinality(InFlight(b) \ {s}) = before - 1
        BY <1>3, <3>1, FS_RemoveElement
      <3>3. after = before - 1
        BY <1>3, <3>2
      <3> HIDE DEF before, after
      <3> QED
        BY <3>1, <3>3
    <2>5. recent[b] <= length /\ length \in Nat /\ MaxLog \in Nat /\ length + before <= MaxLog
      BY <2>1, LenProperties, GatewayAssumption DEF LogTypes
    <2> HIDE DEF before, after, length, length1
    <2>6. recent'[b] <= length1 /\ length1 + after <= MaxLog
      BY <2>1, <2>3, <2>4, <2>5
    <2>7. ASSUME NEW a \in Callers
          PROVE  recent'[a] <= Len(log'[a]) /\ Len(log'[a]) + Cardinality(InFlight(a)') <= MaxLog
      BY <1>2, <2>3, <2>6 DEF LogTypes, after, length1
    <2> QED
      BY <2>3, <2>7 DEF LogTypes
  <1> QED
    BY <1>4, <1>6 DEF WriteAudit, new

LEMMA LogStep ==
    ASSUME TokensInv, LogTypes, [GatewayNext]_gatewayVars
    PROVE  LogTypes'
  <1>1. ASSUME UNCHANGED <<call, log>>, recent' \in [Callers -> Nat],
               \A b \in Callers : recent'[b] <= recent[b]
        PROVE  LogTypes'
    BY <1>1, NoRowWritten DEF InFlight
  <1>2. CASE UNCHANGED <<call, log, recent>>
    BY <1>1, <1>2 DEF LogTypes
  <1>3. ASSUME NEW b \in Callers, NEW s \in Slots, CallNext(b, s) PROVE LogTypes'
    <2>1. CASE Invoke(b, s)
      BY <2>1, InvokeRoom
    <2>2. CASE WriteAudit(b, s)
      BY <2>2, AuditRoom
    <2>3. CASE ~Invoke(b, s) /\ ~WriteAudit(b, s)
      <3>1. UNCHANGED <<log, recent>> /\ call[<<b, s>>].step # "none"
        BY <1>3, <2>3 DEF CallNext, CheckDenied, CheckAllowlist, CheckCalls, CheckTokens,
                  RefuseUnknown, RunTool, RunToolFails, ConsumeTokens, CallAt
      <3>2. \E c : call' = [call EXCEPT ![<<b, s>>] = c]
        <4>1. \/ \E step \in CallSteps : Moves(b, s, step)
              \/ call' = [call EXCEPT ![<<b, s>>] = NoCall]
              \/ \E n \in LlmTokens : call' = [call EXCEPT ![<<b, s>>].step = "consuming",
                                                           ![<<b, s>>].used = n]
          BY <1>3, <2>3 DEF CallNext, CheckDenied, CheckAllowlist, CheckCalls, CheckTokens,
                  RefuseUnknown, RunTool, RunToolFails, ConsumeTokens, CallSteps
        <4>2. ASSUME NEW n \in LlmTokens, call' = [call EXCEPT ![<<b, s>>].step = "consuming",
                                                           ![<<b, s>>].used = n]
              PROVE  call' = [call EXCEPT ![<<b, s>>] =
                                 [call[<<b, s>>] EXCEPT !.step = "consuming", !.used = n]]
          BY <4>2 DEF TokensInv, CallType
        <4> QED
          BY <4>1, <4>2 DEF Moves
      <3>3. \A a \in Callers, t \in Slots : <<a, t>> # <<b, s>> => call'[<<a, t>>] = call[<<a, t>>]
        BY <3>2 DEF TokensInv, CallType
      <3>4. \A a \in Callers : InFlight(a)' \subseteq InFlight(a)
        BY <3>1, <3>3 DEF InFlight
      <3> QED
        BY <3>1, <3>4, NoRowWritten DEF LogTypes
    <2> QED
      BY <2>1, <2>2, <2>3
  <1>4. ASSUME NEW b \in Callers, RowGrowsOld(b) PROVE LogTypes'
    BY <1>1, <1>4 DEF RowGrowsOld, LogTypes
  <1>5. ASSUME NEW b \in Callers,
               CallWindowEnds(b) \/ TokenWindowEnds(b) \/ DenialExpires(b)
        PROVE  LogTypes'
    BY <1>2, <1>5 DEF CallWindowEnds, TokenWindowEnds, DenialExpires
  <1>6. ASSUME NEW b \in Callers, NEW w \in Watchers, WatchNext(w, b) PROVE LogTypes'
    BY <1>2, <1>6 DEF WatchNext, WatchBegin, WatchRates, WatchLoops, Deny, StopRevoked,
                  RevocationFails, WatchUnchanged
  <1>7. CASE UNCHANGED gatewayVars
    BY <1>2, <1>7 DEF gatewayVars
  <1> QED
    BY <1>3, <1>4, <1>5, <1>6, <1>7 DEF GatewayNext, TimeNext

\* Each call in flight has a place in tool_invocations ahead of it, and no more rows are
\* young than there are, whatever fails (GatewayTypeOK).
THEOREM GatewayTyped == GatewaySpec => []GatewayTypeOK
  <1>1. GatewayInit => SwitchTypes /\ LogTypes
    <2> SUFFICES ASSUME GatewayInit PROVE SwitchTypes /\ LogTypes
      OBVIOUS
    <2>1. SwitchTypes
      BY GatewayAssumption DEF GatewayInit, SwitchTypes
    <2>2. ASSUME NEW b \in Callers
          PROVE  recent[b] <= Len(log[b]) /\ Len(log[b]) + Cardinality(InFlight(b)) <= MaxLog
      <3>1. InFlight(b) = {} /\ log[b] = <<>> /\ recent[b] = 0
        BY DEF GatewayInit, InFlight, NoCall
      <3>2. Cardinality(InFlight(b)) = 0 /\ Len(log[b]) = 0
        BY <3>1, FS_EmptySet
      <3> QED
        BY <3>1, <3>2, GatewayAssumption
    <2> QED
      BY <2>1, <2>2 DEF GatewayInit, LogTypes
  <1>2. TokensInv /\ SwitchTypes /\ LogTypes => GatewayTypeOK
    <2> SUFFICES ASSUME TokensInv, SwitchTypes, LogTypes PROVE GatewayTypeOK
      OBVIOUS
    <2>1. ASSUME NEW b \in Callers PROVE Len(log[b]) <= MaxLog /\ recent[b] \in 0..Len(log[b])
      <3> DEFINE flying == Cardinality(InFlight(b))
                 length == Len(log[b])
      <3>1. /\ flying \in Nat /\ length \in Nat /\ MaxLog \in Nat /\ recent[b] \in Nat
            /\ recent[b] <= length /\ length + flying <= MaxLog
        BY FlightSlots, LenProperties, GatewayAssumption DEF LogTypes
      <3> HIDE DEF flying, length
      <3>2. length <= MaxLog /\ recent[b] \in 0..length
        BY <3>1
      <3> QED
        BY <3>2 DEF length
    <2> QED
      BY <2>1 DEF GatewayTypeOK, TokensInv, CallType, CallRecords, CountTypes, SwitchTypes
  <1>3. TokensInv /\ SwitchTypes /\ LogTypes /\ [GatewayNext]_gatewayVars
            => (TokensInv /\ SwitchTypes /\ LogTypes)'
    BY TokensStep, SwitchStep, LogStep
  <1>4. GatewaySpec => [](TokensInv /\ SwitchTypes /\ LogTypes)
    BY <1>1, <1>3, TokensStart, PTL DEF GatewaySpec
  <1> QED
    BY <1>2, <1>4, PTL

-------------------------------------------------------------------------------
(* The billing engine, whatever is delivered twice, throws or crashes: a message *)
(* is charged once at most, and as long as nothing fails an execution over its   *)
(* cap is stopped.                                                               *)

\* The steps of a callback that has won the claim of its message.
Won == {"charge", "row", "hours", "judge", "excess", "stop", "transition"}

\* The claim has one winner, which works on a claimed message.
OneWinner ==
    /\ \A g, h \in Handlers :
          handler[g].step \in Won /\ handler[h].step \in Won /\ Msg(g) = Msg(h) => g = h
    /\ \A h \in Handlers : handler[h].step \in Won => Msg(h) \in claimed

\* Nothing is booked for a message nobody has claimed.
UnclaimedIsBlank ==
    \A m \in Messages : m \notin claimed =>
        charges[m] = 0 /\ rows[m] = 0 /\ telemetry[m] = 0

\* What the winner has booked is what the steps behind it book.
BooksFollow ==
    \A h \in Handlers :
        /\ At(h, "charge") => /\ Costs(Msg(h)) /\ charges[Msg(h)] = 0
                              /\ rows[Msg(h)] = 0 /\ telemetry[Msg(h)] = 0
        /\ At(h, "row") => /\ rows[Msg(h)] = 0 /\ telemetry[Msg(h)] = 0
                           /\ Costs(Msg(h)) => charges[Msg(h)] = 1
        /\ At(h, "hours") => telemetry[Msg(h)] = 0

ChargesInv == BillingTypeOK /\ OneWinner /\ UnclaimedIsBlank /\ BooksFollow /\ ChargedOnce

-------------------------------------------------------------------------------
LEMMA RestingFacts ==
    /\ Resting \in [step : {"idle"}, msg : Messages, over : BOOLEAN]
    /\ Resting.step = "idle"
  <1>1. FirstMessage \in Messages
    BY BillingAssumption DEF FirstMessage
  <1> QED
    BY <1>1 DEF Resting

\* A callback that comes to rest, or goes on without writing a book, disturbs nothing.
LEMMA RestsKeeps ==
    ASSUME ChargesInv, NEW h \in Handlers, Rests(h), BooksUnchanged, UNCHANGED claimed
    PROVE  OneWinner' /\ UnclaimedIsBlank' /\ BooksFollow' /\ ChargedOnce'
  <1>1. /\ handler'[h].step = "idle"
        /\ \A g \in Handlers \ {h} : handler'[g] = handler[g]
    BY RestingFacts DEF ChargesInv, BillingTypeOK, Rests
  <1>2. OneWinner'
    BY <1>1 DEF ChargesInv, OneWinner, Won, Msg
  <1>3. BooksFollow'
    BY <1>1 DEF ChargesInv, BooksFollow, At, Msg, Costs, BooksUnchanged
  <1> QED
    BY <1>2, <1>3 DEF ChargesInv, UnclaimedIsBlank, ChargedOnce, BooksUnchanged, Costs

LEMMA GoesKeeps ==
    ASSUME ChargesInv, NEW h \in Handlers, BooksUnchanged, UNCHANGED claimed,
           NEW step \in {"excess", "stop", "transition"}, Goes(h, step),
           handler[h].step \in Won
    PROVE  OneWinner' /\ UnclaimedIsBlank' /\ BooksFollow' /\ ChargedOnce'
  <1>1. /\ handler'[h].step = step /\ handler'[h].msg = handler[h].msg
        /\ \A g \in Handlers \ {h} : handler'[g] = handler[g]
    BY DEF ChargesInv, BillingTypeOK, Goes
  <1>2. OneWinner'
    BY <1>1 DEF ChargesInv, OneWinner, Won, Msg
  <1>3. BooksFollow'
    BY <1>1 DEF ChargesInv, BooksFollow, At, Msg, Costs, BooksUnchanged
  <1> QED
    BY <1>2, <1>3 DEF ChargesInv, UnclaimedIsBlank, ChargedOnce, BooksUnchanged, Costs

-------------------------------------------------------------------------------
LEMMA BillingInitially == BillingInit => ChargesInv
  <1> SUFFICES ASSUME BillingInit PROVE ChargesInv
    OBVIOUS
  <1>1. BillingTypeOK
    <2>1. handler \in [Handlers -> [step : {"idle"}, msg : Messages, over : BOOLEAN]]
      BY RestingFacts DEF BillingInit
    <2>2. 0 \in 0..MaxDeliveries /\ 0 \in 0..MaxBillingFaults /\ 0 \in 0..MaxBillingCrashes
      BY BillingAssumption
    <2>3. cap \in [Accounts -> Nat \cup {NoCap}]
      BY BillingAssumption DEF BillingInit
    <2> QED
      BY <2>1, <2>2, <2>3 DEF BillingInit, BillingTypeOK
  <1>2. \A h \in Handlers : handler[h].step = "idle"
    BY RestingFacts DEF BillingInit
  <1>3. OneWinner /\ BooksFollow
    BY <1>2 DEF OneWinner, Won, BooksFollow, At
  <1>4. UnclaimedIsBlank /\ ChargedOnce
    BY DEF BillingInit, UnclaimedIsBlank, ChargedOnce, Costs
  <1> QED
    BY <1>1, <1>3, <1>4 DEF ChargesInv

LEMMA BillingTypeStep == BillingTypeOK /\ [BillingNext]_billingVars => BillingTypeOK'
  <1> SUFFICES ASSUME BillingTypeOK, [BillingNext]_billingVars PROVE BillingTypeOK'
    OBVIOUS
  <1> USE DEF BillingTypeOK, WorldUnchanged, BooksUnchanged, RunsUnchanged, At, Goes, Rests,
              Msg, Account
  <1>1. ASSUME NEW h \in Handlers, NEW m \in Messages, Deliver(h, m) PROVE BillingTypeOK'
    BY <1>1, BillingAssumption DEF Deliver
  <1>2. ASSUME NEW h \in Handlers, Claim(h) PROVE BillingTypeOK'
    BY <1>2, RestingFacts DEF Claim
  <1>3. ASSUME NEW h \in Handlers, Charge(h) PROVE BillingTypeOK'
    <2>1. AccountOf[handler[h].msg] \in Accounts /\ AmountOf[handler[h].msg] \in Nat
      BY BillingAssumption
    <2>2. Exceeds(AccountOf[handler[h].msg], AmountOf[handler[h].msg]) \in BOOLEAN
      BY DEF Exceeds
    <2>3. spend' \in [Accounts -> Nat] /\ charges' \in [Messages -> Nat]
      BY <1>3, <2>1 DEF Charge
    <2>4. \A o \in BOOLEAN : [handler EXCEPT ![h].step = "row", ![h].over = o]
             \in [Handlers -> [step : {"idle", "claim", "charge", "row", "hours", "judge",
                                       "excess", "stop", "transition"},
                               msg : Messages, over : BOOLEAN]]
      OBVIOUS
    <2> QED
      BY <1>3, <2>2, <2>3, <2>4 DEF Charge
  <1>4. ASSUME NEW h \in Handlers, WriteRow(h) PROVE BillingTypeOK'
    BY <1>4, RestingFacts DEF WriteRow
  <1>5. ASSUME NEW h \in Handlers, RecordHours(h) PROVE BillingTypeOK'
    BY <1>5, RestingFacts DEF RecordHours
  <1>6. ASSUME NEW h \in Handlers, Judge(h) PROVE BillingTypeOK'
    BY <1>6, RestingFacts DEF Judge
  <1>7. ASSUME NEW h \in Handlers, WriteExcess(h) \/ StopBots(h) \/ StopExecution(h)
        PROVE  BillingTypeOK'
    <2>1. AccountOf[handler[h].msg] \in Accounts
      BY BillingAssumption
    <2>2. CASE WriteExcess(h)
      BY <2>1, <2>2 DEF WriteExcess
    <2>3. CASE StopBots(h)
      BY <2>1, <2>3 DEF StopBots
    <2>4. CASE StopExecution(h)
      BY <2>1, <2>4, RestingFacts DEF StopExecution
    <2> QED
      BY <1>7, <2>2, <2>3, <2>4
  <1>8. ASSUME NEW h \in Handlers, Throws(h) PROVE BillingTypeOK'
    BY <1>8, RestingFacts, BillingAssumption DEF Throws
  <1>9. ASSUME NEW e \in Accounts, SpawnWave(e) \/ Finish(e) PROVE BillingTypeOK'
    BY <1>9 DEF SpawnWave, Finish
  <1>10. CASE Crash
    BY <1>10, RestingFacts, BillingAssumption DEF Crash
  <1>11. CASE UNCHANGED billingVars
    BY <1>11 DEF billingVars
  <1> QED
    BY <1>1, <1>2, <1>3, <1>4, <1>5, <1>6, <1>7, <1>8, <1>9, <1>10, <1>11
       DEF BillingNext, HandlerNext

LEMMA BooksStep ==
    ChargesInv /\ [BillingNext]_billingVars
      => OneWinner' /\ UnclaimedIsBlank' /\ BooksFollow' /\ ChargedOnce'
  <1> SUFFICES ASSUME ChargesInv, [BillingNext]_billingVars
               PROVE  OneWinner' /\ UnclaimedIsBlank' /\ BooksFollow' /\ ChargedOnce'
    OBVIOUS
  <1> DEFINE Goal == OneWinner' /\ UnclaimedIsBlank' /\ BooksFollow' /\ ChargedOnce'
  <1>1. ASSUME NEW h \in Handlers, NEW m \in Messages, Deliver(h, m) PROVE Goal
    <2>1. /\ handler'[h].step = "claim"
          /\ \A g \in Handlers \ {h} : handler'[g] = handler[g]
      BY <1>1 DEF ChargesInv, BillingTypeOK, Deliver
    <2>2. OneWinner'
      BY <1>1, <2>1 DEF ChargesInv, OneWinner, Won, Msg, Deliver
    <2>3. BooksFollow'
      BY <1>1, <2>1 DEF ChargesInv, BooksFollow, At, Msg, Costs, Deliver, BooksUnchanged
    <2> QED
      BY <1>1, <2>2, <2>3 DEF ChargesInv, UnclaimedIsBlank, ChargedOnce, Costs, Deliver,
         BooksUnchanged
  <1>2. ASSUME NEW h \in Handlers, Claim(h) PROVE Goal
    <2>1. CASE ~Fresh(Msg(h))
      <3>1. UNCHANGED claimed
        BY <1>2, <2>1 DEF Claim, Fresh
      <3> QED
        BY <1>2, <2>1, <3>1, RestsKeeps DEF Claim
    <2>2. CASE Fresh(Msg(h))
      <3>1. /\ handler'[h].msg = handler[h].msg
            /\ handler'[h].step = IF Costs(Msg(h)) THEN "charge" ELSE "row"
            /\ \A g \in Handlers \ {h} : handler'[g] = handler[g]
        BY <1>2, <2>2 DEF Claim, Goes, ChargesInv, BillingTypeOK
      <3>2. Msg(h) \in Messages /\ Msg(h) \notin claimed /\ claimed' = claimed \cup {Msg(h)}
        BY <1>2, <2>2 DEF Claim, Fresh, Msg, ChargesInv, BillingTypeOK
      <3>3. OneWinner'
        BY <3>1, <3>2 DEF ChargesInv, OneWinner, Won, Msg
      <3>4. charges[Msg(h)] = 0 /\ rows[Msg(h)] = 0 /\ telemetry[Msg(h)] = 0
        BY <3>2 DEF ChargesInv, UnclaimedIsBlank
      <3>5. BooksFollow'
        BY <1>2, <3>1, <3>4 DEF ChargesInv, BooksFollow, At, Msg, Costs, Claim, BooksUnchanged
      <3> QED
        BY <1>2, <3>2, <3>3, <3>5 DEF ChargesInv, UnclaimedIsBlank, ChargedOnce, Costs, Claim,
           BooksUnchanged
    <2> QED
      BY <2>1, <2>2
  <1>3. ASSUME NEW h \in Handlers, Charge(h) PROVE Goal
    <2>1. /\ handler'[h].msg = handler[h].msg /\ handler'[h].step = "row"
          /\ \A g \in Handlers \ {h} : handler'[g] = handler[g]
      BY <1>3 DEF Charge, ChargesInv, BillingTypeOK
    <2>2. /\ Msg(h) \in Messages /\ charges' = [charges EXCEPT ![Msg(h)] = @ + 1]
          /\ UNCHANGED <<rows, telemetry, claimed>> /\ charges \in [Messages -> Nat]
      BY <1>3 DEF Charge, Msg, ChargesInv, BillingTypeOK
    <2>3. /\ Costs(Msg(h)) /\ charges[Msg(h)] = 0 /\ rows[Msg(h)] = 0
          /\ telemetry[Msg(h)] = 0 /\ Msg(h) \in claimed
      BY <1>3 DEF ChargesInv, BooksFollow, OneWinner, Won, Charge, At
    <2>4. \A g \in Handlers \ {h} : handler[g].step \in Won => Msg(g) # Msg(h)
      BY <1>3 DEF ChargesInv, OneWinner, Won, Charge, At
    <2>5. OneWinner'
      BY <2>1, <2>2, <2>3, <2>4 DEF ChargesInv, OneWinner, Won, Msg
    <2>6. BooksFollow'
      BY <2>1, <2>2, <2>3, <2>4 DEF ChargesInv, BooksFollow, At, Msg, Costs, Won, BillingTypeOK
    <2> QED
      BY <2>2, <2>3, <2>5, <2>6 DEF ChargesInv, UnclaimedIsBlank, ChargedOnce, Costs
  <1>4. ASSUME NEW h \in Handlers, WriteRow(h) PROVE Goal
    <2>1. /\ handler'[h].step \in {"judge", "hours"} => handler'[h].msg = handler[h].msg
          /\ handler'[h].step \in {"judge", "hours", "idle"}
          /\ \A g \in Handlers \ {h} : handler'[g] = handler[g]
      BY <1>4, RestingFacts DEF WriteRow, Goes, Rests, ChargesInv, BillingTypeOK
    <2>2. /\ Msg(h) \in Messages /\ rows' = [rows EXCEPT ![Msg(h)] = @ + 1]
          /\ UNCHANGED <<charges, telemetry, claimed>> /\ rows \in [Messages -> Nat]
      BY <1>4 DEF WriteRow, Msg, ChargesInv, BillingTypeOK, WorldUnchanged
    <2>3. /\ rows[Msg(h)] = 0 /\ telemetry[Msg(h)] = 0 /\ Msg(h) \in claimed
          /\ Costs(Msg(h)) => charges[Msg(h)] = 1
      BY <1>4 DEF ChargesInv, BooksFollow, OneWinner, Won, WriteRow, At
    <2>4. \A g \in Handlers \ {h} : handler[g].step \in Won => Msg(g) # Msg(h)
      BY <1>4 DEF ChargesInv, OneWinner, Won, WriteRow, At
    <2>5. OneWinner'
      BY <2>1, <2>2, <2>3, <2>4 DEF ChargesInv, OneWinner, Won, Msg
    <2>6. BooksFollow'
      BY <2>1, <2>2, <2>3, <2>4 DEF ChargesInv, BooksFollow, At, Msg, Costs, Won, BillingTypeOK
    <2>7. ChargedOnce'
      BY <2>2, <2>3 DEF ChargesInv, ChargedOnce, Costs
    <2> QED
      BY <2>2, <2>3, <2>5, <2>6, <2>7 DEF ChargesInv, UnclaimedIsBlank
  <1>5. ASSUME NEW h \in Handlers, RecordHours(h) PROVE Goal
    <2>1. /\ handler'[h].step = "idle"
          /\ \A g \in Handlers \ {h} : handler'[g] = handler[g]
      BY <1>5, RestingFacts DEF RecordHours, Rests, ChargesInv, BillingTypeOK
    <2>2. /\ Msg(h) \in Messages /\ telemetry \in [Messages -> Nat]
          /\ telemetry' \in {telemetry, [telemetry EXCEPT ![Msg(h)] = @ + 1]}
          /\ UNCHANGED <<charges, rows, claimed>>
      BY <1>5 DEF RecordHours, Msg, ChargesInv, BillingTypeOK, WorldUnchanged
    <2>3. telemetry[Msg(h)] = 0 /\ Msg(h) \in claimed
      BY <1>5 DEF ChargesInv, BooksFollow, OneWinner, Won, RecordHours, At
    <2>4. OneWinner'
      BY <2>1, <2>2 DEF ChargesInv, OneWinner, Won, Msg
    <2>5. \A g \in Handlers \ {h} : handler[g].step \in Won => Msg(g) # Msg(h)
      BY <1>5 DEF ChargesInv, OneWinner, Won, RecordHours, At
    <2>6. BooksFollow'
      BY <2>1, <2>2, <2>5 DEF ChargesInv, BooksFollow, At, Msg, Costs, Won, BillingTypeOK
    <2>7. ChargedOnce'
      BY <2>2, <2>3 DEF ChargesInv, ChargedOnce, Costs
    <2> QED
      BY <2>2, <2>3, <2>4, <2>6, <2>7 DEF ChargesInv, UnclaimedIsBlank
  <1>6. ASSUME NEW h \in Handlers, Judge(h) PROVE Goal
    BY <1>6, RestsKeeps, GoesKeeps DEF Judge, At, Won
  <1>7. ASSUME NEW h \in Handlers, WriteExcess(h) PROVE Goal
    BY <1>7, GoesKeeps DEF WriteExcess, At, Won
  <1>8. ASSUME NEW h \in Handlers, StopBots(h) PROVE Goal
    BY <1>8, GoesKeeps DEF StopBots, At, Won
  <1>9. ASSUME NEW h \in Handlers, StopExecution(h) \/ Throws(h) PROVE Goal
    BY <1>9, RestsKeeps DEF StopExecution, Throws
  <1>10. ASSUME UNCHANGED <<handler, claimed, charges, rows, telemetry>> PROVE Goal
    BY <1>10 DEF ChargesInv, OneWinner, UnclaimedIsBlank, BooksFollow, ChargedOnce, Msg, At, Costs
  <1>11. ASSUME NEW e \in Accounts, SpawnWave(e) \/ Finish(e) PROVE Goal
    BY <1>10, <1>11 DEF SpawnWave, Finish, BooksUnchanged
  <1>12. CASE Crash
    <2>1. \A h \in Handlers : handler'[h].step = "idle"
      BY <1>12, RestingFacts DEF Crash
    <2>2. OneWinner' /\ BooksFollow'
      BY <2>1 DEF OneWinner, Won, BooksFollow, At
    <2> QED
      BY <1>12, <2>2 DEF ChargesInv, UnclaimedIsBlank, ChargedOnce, Costs, Crash, BooksUnchanged
  <1>13. CASE UNCHANGED billingVars
    BY <1>10, <1>13 DEF billingVars
  <1> QED
    BY <1>1, <1>2, <1>3, <1>4, <1>5, <1>6, <1>7, <1>8, <1>9, <1>11, <1>12, <1>13
       DEF BillingNext, HandlerNext

\* billing-engine.ts charges a message once at most, however many callbacks it is
\* delivered to, whatever throws and whenever the service restarts.
THEOREM ChargesOnce == BillingSpec => []ChargedOnce
  <1>1. ChargesInv /\ [BillingNext]_billingVars => ChargesInv'
    BY BillingTypeStep, BooksStep DEF ChargesInv
  <1>2. ChargesInv => ChargedOnce
    BY DEF ChargesInv
  <1> QED
    BY BillingInitially, <1>1, <1>2, PTL DEF BillingSpec

-------------------------------------------------------------------------------
\* The callback is on its way to stop its execution.
Stops(h) ==
    \/ handler[h].step \in {"row", "judge"} /\ handler[h].over /\ Costs(Msg(h))
    \/ handler[h].step \in {"excess", "stop", "transition"}

\* The charge that took the spend over the cap was found to do so, and its callback has
\* stopped the execution or is about to.
Untroubled == billingFaults = 0 /\ billingCrashes = 0
Overspent(e) == cap[e] # NoCap /\ spend[e] > cap[e]
StopUnderWay ==
    Untroubled =>
        \A e \in Accounts : Overspent(e) =>
            ~running[e] \/ \E h \in Handlers : Account(h) = e /\ Stops(h)

\* An execution no callback has charged keeps its stop, if each callback keeps its own.
LEMMA StopKept ==
    ASSUME BillingTypeOK, StopUnderWay, Untroubled' => Untroubled,
           UNCHANGED <<cap, spend>>, \A e \in Accounts : running'[e] => running[e],
           \A h \in Handlers : Stops(h) =>
               \/ Stops(h)' /\ handler'[h].msg = handler[h].msg
               \/ ~running'[Account(h)]
    PROVE  StopUnderWay'
  <1> SUFFICES ASSUME Untroubled', NEW e \in Accounts, Overspent(e)', running'[e]
               PROVE  \E h \in Handlers : Account(h)' = e /\ Stops(h)'
    BY DEF StopUnderWay
  <1>1. PICK h \in Handlers : Account(h) = e /\ Stops(h)
    BY DEF StopUnderWay, Overspent
  <1> QED
    BY <1>1 DEF Account, Msg

LEMMA StopStep ==
    BillingTypeOK /\ OneWinner /\ BooksFollow /\ StopUnderWay /\ [BillingNext]_billingVars
      => StopUnderWay'
  <1> SUFFICES ASSUME BillingTypeOK, OneWinner, BooksFollow, StopUnderWay,
                      [BillingNext]_billingVars
               PROVE  StopUnderWay'
    OBVIOUS
  <1> USE DEF At, Goes, Rests, BooksUnchanged, RunsUnchanged, WorldUnchanged
  <1>1. ASSUME NEW h \in Handlers, NEW m \in Messages, Deliver(h, m) PROVE StopUnderWay'
    <2>1. ~Stops(h) /\ \A g \in Handlers \ {h} : handler'[g] = handler[g]
      BY <1>1 DEF Deliver, Stops, BillingTypeOK
    <2> QED
      BY <1>1, <2>1, StopKept DEF Deliver, Untroubled, Stops, Msg
  <1>2. ASSUME NEW h \in Handlers, Claim(h) PROVE StopUnderWay'
    <2>1. ~Stops(h) /\ \A g \in Handlers \ {h} : handler'[g] = handler[g]
      BY <1>2 DEF Claim, Stops, BillingTypeOK
    <2> QED
      BY <1>2, <2>1, StopKept DEF Claim, Untroubled, Stops, Msg
  <1>3. ASSUME NEW h \in Handlers, Charge(h) PROVE StopUnderWay'
    <2>1. /\ Account(h) \in Accounts /\ AmountOf[Msg(h)] \in Nat /\ Costs(Msg(h))
          /\ handler'[h].step = "row" /\ handler'[h].msg = handler[h].msg
          /\ handler'[h].over = Exceeds(Account(h), AmountOf[Msg(h)])
          /\ \A g \in Handlers \ {h} : handler'[g] = handler[g]
      BY <1>3, BillingAssumption DEF Charge, BillingTypeOK, Account, Msg, BooksFollow
    <2>2. ~Stops(h)
      BY <1>3 DEF Charge, Stops
    <2> SUFFICES ASSUME Untroubled', NEW e \in Accounts, Overspent(e)', running'[e]
                 PROVE  \E g \in Handlers : Account(g)' = e /\ Stops(g)'
      BY DEF StopUnderWay
    <2>3. CASE e = Account(h)
      <3>1. spend'[e] = spend[e] + AmountOf[Msg(h)]
        BY <1>3, <2>1, <2>3 DEF Charge, BillingTypeOK
      <3>2. Exceeds(Account(h), AmountOf[Msg(h)])
        BY <1>3, <2>3, <3>1 DEF Exceeds, Overspent, Charge
      <3> QED
        BY <2>1, <2>3, <3>2 DEF Stops, Account, Msg, Costs
    <2>4. CASE e # Account(h)
      <3>1. Untroubled /\ Overspent(e) /\ running[e]
        BY <1>3, <2>1, <2>4 DEF Charge, Untroubled, Overspent, BillingTypeOK
      <3>2. PICK g \in Handlers : Account(g) = e /\ Stops(g)
        BY <3>1 DEF StopUnderWay
      <3>3. handler'[g] = handler[g]
        BY <2>1, <2>4, <3>2
      <3> QED
        BY <3>2, <3>3 DEF Stops, Account, Msg, Costs
    <2> QED
      BY <2>3, <2>4
  <1>4. ASSUME NEW h \in Handlers, WriteRow(h) PROVE StopUnderWay'
    <2>1. \A g \in Handlers \ {h} : handler'[g] = handler[g]
      BY <1>4 DEF WriteRow, BillingTypeOK
    <2>2. ASSUME Stops(h) PROVE Stops(h)' /\ handler'[h].msg = handler[h].msg
      <3>1. handler[h].over /\ Costs(handler[h].msg)
        BY <1>4, <2>2 DEF WriteRow, Stops, Msg
      <3>2. KindOf[handler[h].msg] # "bot_stopped"
        BY <3>1, BillingAssumption DEF Costs, BillingTypeOK
      <3>3. handler' = [handler EXCEPT ![h].step = "judge"]
        BY <1>4, <3>1, <3>2 DEF WriteRow, Msg
      <3>4. handler'[h] = [handler[h] EXCEPT !.step = "judge"]
        BY <3>3 DEF BillingTypeOK
      <3> QED
        BY <3>1, <3>4 DEF Stops, Msg, Costs, BillingTypeOK
    <2> QED
      BY <1>4, <2>1, <2>2, StopKept DEF WriteRow, Untroubled, Stops, Msg
  <1>5. ASSUME NEW h \in Handlers, RecordHours(h) PROVE StopUnderWay'
    <2>1. ~Stops(h) /\ \A g \in Handlers \ {h} : handler'[g] = handler[g]
      BY <1>5 DEF RecordHours, Stops, BillingTypeOK
    <2> QED
      BY <1>5, <2>1, StopKept DEF RecordHours, Untroubled, Stops, Msg
  <1>6. ASSUME NEW h \in Handlers, Judge(h) \/ WriteExcess(h) \/ StopBots(h)
        PROVE  StopUnderWay'
    <2>1. \A g \in Handlers \ {h} : handler'[g] = handler[g]
      BY <1>6 DEF Judge, WriteExcess, StopBots, BillingTypeOK
    <2>2. Stops(h) => Stops(h)' /\ handler'[h].msg = handler[h].msg
      BY <1>6 DEF Judge, WriteExcess, StopBots, Stops, BillingTypeOK
    <2>3. UNCHANGED <<cap, spend, running, billingFaults, billingCrashes>>
      BY <1>6 DEF Judge, WriteExcess, StopBots
    <2> QED
      BY <2>1, <2>2, <2>3, StopKept DEF Untroubled, Stops, Msg
  <1>7. ASSUME NEW h \in Handlers, StopExecution(h) PROVE StopUnderWay'
    <2>1. /\ \A g \in Handlers \ {h} : handler'[g] = handler[g]
          /\ Account(h) \in Accounts
      BY <1>7, BillingAssumption DEF StopExecution, BillingTypeOK, Account, Msg
    <2>2. ~running'[Account(h)] /\ \A e \in Accounts : running'[e] => running[e]
      BY <1>7, <2>1 DEF StopExecution, BillingTypeOK
    <2>3. UNCHANGED <<cap, spend, billingFaults, billingCrashes>>
      BY <1>7 DEF StopExecution
    <2> QED
      BY <2>1, <2>2, <2>3, StopKept DEF Untroubled, Stops, Msg
  <1>8. ASSUME NEW h \in Handlers, Throws(h) PROVE StopUnderWay'
    BY <1>8 DEF Throws, StopUnderWay, Untroubled, BillingTypeOK
  <1>9. ASSUME UNCHANGED <<cap, spend, handler, billingFaults, billingCrashes>>,
               \A e \in Accounts : running'[e] => running[e]
        PROVE  StopUnderWay'
    BY <1>9, StopKept DEF Untroubled, Stops, Msg
  <1>10. ASSUME NEW e \in Accounts, SpawnWave(e) \/ Finish(e) PROVE StopUnderWay'
    BY <1>9, <1>10 DEF SpawnWave, Finish, BillingTypeOK
  <1>11. CASE Crash
    BY <1>11 DEF Crash, StopUnderWay, Untroubled, BillingTypeOK
  <1>12. CASE UNCHANGED billingVars
    BY <1>9, <1>12 DEF billingVars
  <1> QED
    BY <1>1, <1>2, <1>3, <1>4, <1>5, <1>6, <1>7, <1>8, <1>10, <1>11, <1>12
       DEF BillingNext, HandlerNext

\* billing-engine.ts stops an execution whose spend is over its cap, in whatever order
\* its callbacks interleave: each charge compares the sum it has just made itself.
THEOREM StopsOverBudget == BillingSpec => []OverBudgetStops
  <1>1. BillingInit => StopUnderWay
    <2> SUFFICES ASSUME BillingInit, NEW e \in Accounts, Overspent(e) PROVE FALSE
      BY DEF StopUnderWay
    <2>1. cap[e] \in Nat /\ spend[e] = 0
      BY BillingAssumption DEF BillingInit, Overspent
    <2> QED
      BY <2>1 DEF Overspent
  <1>2. ChargesInv /\ [BillingNext]_billingVars => ChargesInv'
    BY BillingTypeStep, BooksStep DEF ChargesInv
  <1>3. ChargesInv /\ StopUnderWay /\ [BillingNext]_billingVars => StopUnderWay'
    BY StopStep DEF ChargesInv
  <1>4. StopUnderWay => OverBudgetStops
    BY DEF StopUnderWay, OverBudgetStops, Untroubled, Overspent, Busy, At, Stops
  <1> QED
    BY BillingInitially, <1>1, <1>2, <1>3, <1>4, PTL DEF BillingSpec
===============================================================================
