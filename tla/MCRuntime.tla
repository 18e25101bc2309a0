------------------------------- MODULE MCRuntime -------------------------------
(* The components of a running execution, next to each other: they share no    *)
(* variable in these models, so each behaviour lets one of them (its focus)    *)
(* run, and their states add up instead of multiplying.  What one component    *)
(* does to another appears in the other's model as an action of its world.     *)
EXTENDS BotLifecycle, Executions, TaskDispatch, RunCoordination, Population

VARIABLE focus

t1 == "t1"
t2 == "t2"
t3 == "t3"
MCTask(i, d) == [id |-> i, deps |-> d, tools |-> {}]

\* Three waves, twins, and a task that asks for a tool nobody granted.
FewPlans ==
    { <<MCTask(t1, {}), MCTask(t2, {t1}), MCTask(t3, {t1, t2})>>,
      <<MCTask(t1, {}), MCTask(t1, {})>>,
      <<[MCTask(t1, {}) EXCEPT !.tools = {"shell"}]>> }

\* Replies of up to three tasks.
Reply == [id : {t1, t2, t3}, deps : SUBSET {t1, t2, t3}, tools : {{}}]
AllReplies == {<<>>} \cup {<<x>> : x \in Reply} \cup {<<x, y>> : x, y \in Reply}
                \cup {<<MCTask(t1, d), y, MCTask(t3, e)>> :
                          d, e \in SUBSET {t1, t2, t3}, y \in Reply}
MCPlans == FewPlans \cup AllReplies

MCSoulId(i) == <<"library", 0, i>>
MCLibrary == <<MCSoulId(1), MCSoulId(2), MCSoulId(3), MCSoulId(4)>>
MCComplexity == <<"medium", "high">>
MCSoul(class) == [class |-> class, signalled |-> class = "Retired"]
MCCatalogues ==
    {[s \in LibrarySouls |-> MCSoul(f[s])] :
        f \in [LibrarySouls -> {"Artisan", "Understudy", "Novice", "Retired"}]}
MCLikenesses == {{}, {<<MCSoulId(1), MCSoulId(2)>>}, {<<MCSoulId(1), MCSoulId(3)>>, <<MCSoulId(2), MCSoulId(4)>>}}

MCWorkOf == [a \in Sessions |-> "task"]

PopIdle ==
    /\ soul = [s \in LibrarySouls |-> MCSoul("Novice")] /\ alike = {} /\ cap = 0
    /\ manifests = <<>> /\ outcome = "assembling"

RuntimeInit ==
    /\ focus \in {"bots", "plan", "execution", "dispatch", "coordination", "population"}
    /\ BotInit /\ DispatchInit /\ CoInit
    /\ plan \in CASE focus = "plan" -> MCPlans [] focus = "execution" -> FewPlans
                  [] OTHER -> {<<>>}
    /\ ExecInit
    /\ IF focus = "population" THEN PopInit ELSE PopIdle

RuntimeNext ==
    \/ /\ focus = "bots" /\ BotNext
       /\ UNCHANGED <<focus, execVars, dispatchVars, coVars, popVars>>
    \/ /\ focus = "execution" /\ ExecNext
       /\ UNCHANGED <<focus, botVars, dispatchVars, coVars, popVars>>
    \/ /\ focus = "dispatch" /\ DispatchNext
       /\ UNCHANGED <<focus, botVars, execVars, coVars, popVars>>
    \/ /\ focus = "coordination" /\ CoNext
       /\ UNCHANGED <<focus, botVars, execVars, dispatchVars, popVars>>
    \/ /\ focus = "population" /\ PopNext
       /\ UNCHANGED <<focus, botVars, execVars, dispatchVars, coVars>>

runtimeVars == <<focus, botVars, execVars, dispatchVars, coVars, popVars>>
RuntimeSpec == RuntimeInit /\ [][RuntimeNext]_runtimeVars

\* BotFairness and CoFairness, each in its own behaviours.
RuntimeFairness ==
    /\ \A b \in Bots :
          /\ WF_botVars(focus = "bots" /\ TimeoutSeen(b))
          /\ WF_botVars(focus = "bots" /\ TimeoutWrite(b))
          /\ WF_botVars(focus = "bots" /\ TimeoutStop(b))
          /\ WF_botVars(focus = "bots" /\ \E s \in Stoppers : StopLeave(b, s))
    /\ WF_coVars(focus = "coordination" /\ Time)
    /\ \A k \in Polls :
          WF_coVars(focus = "coordination" /\ (PollNext(k) \/ ReplaceFails(k)))

RuntimeLiveSpec == RuntimeSpec /\ RuntimeFairness

\* The type invariants of the five components.
RuntimeTypeOK == BotTypeOK /\ ExecTypeOK /\ DispatchTypeOK /\ CoTypeOK
RunEndsHere == focus = "coordination" => RunEnds
===============================================================================
