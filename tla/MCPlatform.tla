------------------------------ MODULE MCPlatform ------------------------------
(* The services around a run, next to each other: they share no variable in    *)
(* these models, so each behaviour lets one of them (its focus) run.  The      *)
(* Akasa server has two: the polls that judge bots, from an empty table, and   *)
(* the requests that carry out verdicts, from a table with two pending ones.   *)
EXTENDS ToolGateway, Billing, AkasaEvolution, Connections

VARIABLE focus

\* Two costly calls, which together exceed the cap, a free one, and the end of a bot.
MCAccountOf == [m \in Messages |-> "e1"]
MCAmountOf == [m \in Messages |-> IF m \in {"big", "small"} THEN 2 ELSE 0]
MCKindOf == [m \in Messages |-> IF m = "bye" THEN "bot_stopped" ELSE "tool_invoked"]

MCSoulOf == [b \in Agents |-> "soul"]
MCAgentOf == [run \in Runs |-> IF run = "odd" THEN "stranger" ELSE "agent"]
Pending(type) == [bot |-> "agent", type |-> type, status |-> "pending", stamped |-> FALSE]
InOrder == <<"Promote", "Maintain", "Monitor", "Demote", "Retire">>
MCBacklogs == {<<>>} \cup UNION {{<<Pending(InOrder[i]), Pending(InOrder[j])>> : j \in i..5} :
                                    i \in 1..5}

PlatformInit ==
    /\ focus \in {"gateway", "billing", "judging", "layer", "connections"}
    /\ GatewayInit /\ BillingInit /\ EvolutionInit /\ LinkInit
    /\ focus = "layer" <=> verdicts # <<>>
    /\ focus = "billing" \/ cap = [e \in Accounts |-> NoCap]

PlatformNext ==
    \/ /\ focus = "gateway" /\ GatewayNext
       /\ UNCHANGED <<focus, billingVars, evolutionVars, linkVars>>
    \/ /\ focus = "billing" /\ BillingNext
       /\ UNCHANGED <<focus, gatewayVars, evolutionVars, linkVars>>
    \/ /\ focus = "judging" /\ (JudgingNext \/ AkasaCrash)
       /\ UNCHANGED <<focus, gatewayVars, billingVars, linkVars>>
    \/ /\ focus = "layer" /\ ((\E r \in Requests : RequestNext(r)) \/ AkasaCrash)
       /\ UNCHANGED <<focus, gatewayVars, billingVars, linkVars>>
    \/ /\ focus = "connections" /\ LinkNext
       /\ UNCHANGED <<focus, gatewayVars, billingVars, evolutionVars>>

platformVars == <<focus, gatewayVars, billingVars, evolutionVars, linkVars>>
PlatformSpec == PlatformInit /\ [][PlatformNext]_platformVars

\* The type invariants of the four components.
PlatformTypeOK ==
    /\ focus = "gateway" => GatewayTypeOK
    /\ focus = "billing" => BillingTypeOK
    /\ focus \in {"judging", "layer"} => EvolutionTypeOK
    /\ focus = "connections" => LinkTypeOK
===============================================================================
