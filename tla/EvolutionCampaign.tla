--------------------------- MODULE EvolutionCampaign ---------------------------
(* One evolution campaign: a chain of executions on the same objective.  The    *)
(* God Layer calls the hook when it has processed a verdict; the call that      *)
(* claims the iteration scores it, updates the campaign and either stops it or  *)
(* enqueues a job for the next iteration, whose worker creates an execution, an *)
(* iteration row and a Ring Leader.  Each statement is a step: hooks and jobs   *)
(* interleave, throw, die and are delivered again.                              *)
EXTENDS Integers, FiniteSetsExt

CONSTANTS
    MaxIterations,  \* evolution_campaigns.max_iterations
    BudgetCap,      \* campaign_budget_cap_cents, or NULL
    EfsScores,      \* fitness scores an execution may get, in ten-thousandths
    Costs,          \* what an execution may spend
    Hooks,          \* God Layer jobs that may be inside the hook at a time
    Attempts,       \* attempts of a next-iteration job
    MaxExecutions,  \* bound: executions created for the campaign
    MaxFaults,      \* bound: throws, failed plannings and dead workers
    NULL            \* SQL NULL, a row that does not exist

ASSUME CampaignAssumption ==
    /\ MaxIterations \in Nat \ {0}
    /\ BudgetCap \in Nat \cup {NULL} /\ NULL \notin Int
    /\ EfsScores \subseteq 0..10000 /\ Costs \subseteq Nat
    /\ Attempts \in Nat \ {0} /\ MaxExecutions \in Nat \ {0} /\ MaxFaults \in Nat

Numbers    == 1..(MaxIterations + 1)
Executions == 1..MaxExecutions

HaltReasons == {"completed_success", "completed_max", "halted_regression",
                "halted_plateau", "halted_budget"}
CampaignStatuses == {"running", "halted_error"} \cup HaltReasons

VARIABLES
    status,        \* evolution_campaigns.status
    completed,     \* evolution_campaigns.completed_iteration_count
    best,          \* evolution_campaigns.best_efs_score
    iteration,     \* evolution_campaign_iterations, by iteration_num
    phase,         \* each execution: see Phases
    spend,         \* billing_events of each execution, summed
    hook,          \* each hook call: where it is and what it has claimed
    job,           \* the next-iteration job enqueued for each iteration
    created,       \* the execution each job has created
    failures,      \* attempts of each job that threw
    stalled,       \* the job has been found stalled once
    faults,
    hookFailed     \* history: a hook that had claimed an iteration has thrown

campaignVars == <<status, completed, best>>
jobVars      == <<job, created, failures, stalled>>
vars == <<campaignVars, iteration, phase, spend, hook, jobVars, faults, hookFailed>>

\* "created" is in pre_flight without a Ring Leader; "pre_flight" has one and waits
\* for the user to confirm its plan; "closed" has verdicts and the God Layer has
\* taken each; "stopped" or failed, it will never have any.
Phases == {"none", "created", "pre_flight", "running", "closed", "stopped"}

Iteration == [execution : Executions, completedAt : BOOLEAN,
              efs : EfsScores \cup {NULL}, delta : Int \cup {NULL},
              haltedReason : HaltReasons \cup {NULL}]
ASSUME NullIsNoRow == NULL \notin Iteration /\ NULL \notin HaltReasons

NewIteration(e) == [execution |-> e, completedAt |-> FALSE, efs |-> NULL,
                    delta |-> NULL, haltedReason |-> NULL]

HookSteps == {"idle", "claimed", "persisted", "counted", "stopping", "continuing"}
Idle      == [step |-> "idle", num |-> 1]
JobSteps  == {"none", "waiting", "planning", "creating", "inserting", "spawning",
              "done", "failed"}
Working   == {"planning", "creating", "inserting", "spawning"}

TypeOK ==
    /\ status \in CampaignStatuses
    /\ completed \in Nat /\ best \in EfsScores \cup {NULL}
    /\ iteration \in [Numbers -> Iteration \cup {NULL}]
    /\ phase \in [Executions -> Phases] /\ spend \in [Executions -> Nat]
    /\ hook \in [Hooks -> [step : HookSteps, num : Numbers]]
    /\ job \in [Numbers -> JobSteps]
    /\ created \in [Numbers -> Executions \cup {NULL}]
    /\ failures \in [Numbers -> Nat] /\ stalled \in [Numbers -> BOOLEAN]
    /\ faults \in Nat /\ hookFailed \in BOOLEAN

\* startEvolutionCampaign, and the Ring Leader its caller spawns: if that throws,
\* the execution has failed and nobody tells the campaign.
Init ==
    /\ status = "running" /\ completed = 0 /\ best = NULL
    /\ iteration = [n \in Numbers |-> IF n = 1 THEN NewIteration(1) ELSE NULL]
    /\ \E first \in {"pre_flight", "stopped"} :
          phase = [e \in Executions |-> IF e = 1 THEN first ELSE "none"]
    /\ spend = [e \in Executions |-> 0]
    /\ hook = [h \in Hooks |-> Idle]
    /\ job = [n \in Numbers |-> "none"]
    /\ created = [n \in Numbers |-> NULL]
    /\ failures = [n \in Numbers |-> 0]
    /\ stalled = [n \in Numbers |-> FALSE]
    /\ faults = 0 /\ hookFailed = FALSE

Fault == faults < MaxFaults /\ faults' = faults + 1

-------------------------------------------------------------------------------
(* An execution, seen from its campaign.                                       *)

\* The route wants a population manifest, which only a Ring Leader assembles.
UserConfirms(e) ==
    /\ phase[e] = "pre_flight"
    /\ phase' = [phase EXCEPT ![e] = "running"]
    /\ UNCHANGED <<campaignVars, iteration, spend, hook, jobVars, faults, hookFailed>>

\* Cancelled before or stopped after the confirmation: the council never meets.
\* Cancelling asks for no Ring Leader.
UserStops(e) ==
    /\ phase[e] \in {"created", "pre_flight", "running"}
    /\ phase' = [phase EXCEPT ![e] = "stopped"]
    /\ UNCHANGED <<campaignVars, iteration, spend, hook, jobVars, faults, hookFailed>>

VerdictsClose(e, cost) ==
    /\ phase[e] = "running"
    /\ phase' = [phase EXCEPT ![e] = "closed"]
    /\ spend' = [spend EXCEPT ![e] = cost]
    /\ UNCHANGED <<campaignVars, iteration, hook, jobVars, faults, hookFailed>>

-------------------------------------------------------------------------------
(* The hook: one claim, then the steps of the call that won it.                *)

Row(n)        == iteration[n]
Rows          == {n \in Numbers : Row(n) # NULL}
At(h, step)   == [hook EXCEPT ![h].step = step]
Claimed(h)    == hook[h].num

\* Mutant of HookClaims: the update without its "IS NULL".
HookClaimsAgain(h, n) ==
    /\ hook[h].step = "idle" /\ n \in Rows
    /\ phase[Row(n).execution] = "closed"
    /\ iteration' = [iteration EXCEPT ![n].completedAt = TRUE]
    /\ hook' = [hook EXCEPT ![h] = [step |-> "claimed", num |-> n]]
    /\ UNCHANGED <<campaignVars, phase, spend, jobVars, faults, hookFailed>>

\* UPDATE ... SET completed_at WHERE execution_id = ? AND completed_at IS NULL: a
\* call that updates no row returns, and changes nothing.
HookClaims(h, n) ==
    /\ hook[h].step = "idle" /\ n \in Rows
    /\ phase[Row(n).execution] = "closed" /\ ~ Row(n).completedAt
    /\ iteration' = [iteration EXCEPT ![n].completedAt = TRUE]
    /\ hook' = [hook EXCEPT ![h] = [step |-> "claimed", num |-> n]]
    /\ UNCHANGED <<campaignVars, phase, spend, jobVars, faults, hookFailed>>

PreviousEfs(n) == IF n - 1 \in Rows THEN Row(n - 1).efs ELSE NULL
Delta(n, efs)  == IF PreviousEfs(n) = NULL THEN NULL ELSE efs - PreviousEfs(n)

HookPersistsScore(h, efs) ==
    /\ hook[h].step = "claimed"
    /\ iteration' = [iteration EXCEPT ![Claimed(h)].efs = efs,
                                      ![Claimed(h)].delta = Delta(Claimed(h), efs)]
    /\ hook' = At(h, "persisted")
    /\ UNCHANGED <<campaignVars, phase, spend, jobVars, faults, hookFailed>>

Efs(h) == Row(Claimed(h)).efs

HookUpdatesAggregates(h) ==
    /\ hook[h].step = "persisted"
    /\ completed' = completed + 1
    /\ best' = IF best = NULL \/ best < Efs(h) THEN Efs(h) ELSE best
    /\ hook' = At(h, "counted")
    /\ UNCHANGED <<status, iteration, phase, spend, jobVars, faults, hookFailed>>

\* The halt criteria, in the order the code tries them.
SuccessCeiling == 9500
PlateauDelta   == 300
PlateauMinimum == 3

Spent == MapThenSumSet(LAMBDA n : spend[Row(n).execution], Rows)

Earlier(n)  == {Row(m).efs : m \in {k \in Rows : k < n}} \ {NULL}
Regressed(n, efs) == Earlier(n) # {} /\ efs * 10 < Max(Earlier(n)) * 9

\* The two newest deltas that are not NULL.
WithDelta == {n \in Rows : Row(n).delta # NULL}
Newest(n) == Cardinality({m \in WithDelta : m > n}) < 2
Flat(n)   == Row(n).delta > -PlateauDelta /\ Row(n).delta < PlateauDelta
Plateaued(n) ==
    /\ n >= PlateauMinimum /\ Cardinality(WithDelta) >= 2
    /\ \A m \in WithDelta : Newest(m) => Flat(m)

\* Mutant of AtMaximum: one iteration too many.
PastMaximum(n) == n > MaxIterations

AtMaximum(n)   == n >= MaxIterations

HaltReason(n, efs) ==
    CASE efs >= SuccessCeiling                    -> "completed_success"
      [] OTHER -> CASE AtMaximum(n)               -> "completed_max"
      [] OTHER -> CASE BudgetCap # NULL /\ Spent >= BudgetCap -> "halted_budget"
      [] OTHER -> CASE Regressed(n, efs)          -> "halted_regression"
      [] OTHER -> CASE Plateaued(n)               -> "halted_plateau"
      [] OTHER -> NULL

\* Mutant of HookEvaluates: the campaign stops for a reason nobody recorded.
HookEvaluatesUnrecorded(h) ==
    /\ hook[h].step = "counted"
    /\ hook' = At(h, IF HaltReason(Claimed(h), Efs(h)) = NULL THEN "continuing"
                                                              ELSE "stopping")
    /\ UNCHANGED <<campaignVars, iteration, phase, spend, jobVars, faults, hookFailed>>

HookEvaluates(h) ==
    /\ hook[h].step = "counted"
    /\ LET reason == HaltReason(Claimed(h), Efs(h)) IN
         \/ /\ reason # NULL
            /\ iteration' = [iteration EXCEPT ![Claimed(h)].haltedReason = reason]
            /\ hook' = At(h, "stopping")
         \/ /\ reason = NULL
            /\ hook' = At(h, "continuing") /\ UNCHANGED iteration
    /\ UNCHANGED <<campaignVars, phase, spend, jobVars, faults, hookFailed>>

\* markCampaignStopped overwrites whatever status it finds.
HookStops(h) ==
    /\ hook[h].step = "stopping"
    /\ status' = Row(Claimed(h)).haltedReason
    /\ hook' = [hook EXCEPT ![h] = Idle]
    /\ UNCHANGED <<completed, best, iteration, phase, spend, jobVars, faults,
                   hookFailed>>

\* Mutant of HookEnqueuesNext: it also "revives" the campaign.
HookRevives(h) ==
    /\ hook[h].step = "continuing"
    /\ job' = [job EXCEPT ![Claimed(h)] = "waiting"]
    /\ hook' = [hook EXCEPT ![h] = Idle]
    /\ status' = "running"
    /\ UNCHANGED <<completed, best, iteration, phase, spend, created, failures,
                   stalled, faults, hookFailed>>

HookEnqueuesNext(h) ==
    /\ hook[h].step = "continuing"
    /\ job' = [job EXCEPT ![Claimed(h)] = "waiting"]
    /\ hook' = [hook EXCEPT ![h] = Idle]
    /\ UNCHANGED <<campaignVars, iteration, phase, spend, created, failures,
                   stalled, faults, hookFailed>>

\* A query throws and the catch swallows it, or the worker dies; the God Layer
\* job, delivered again, finds its verdict claimed and does not call the hook.
HookFails(h) ==
    /\ hook[h].step # "idle" /\ Fault
    /\ hook' = [hook EXCEPT ![h] = Idle]
    /\ hookFailed' = TRUE
    /\ UNCHANGED <<campaignVars, iteration, phase, spend, jobVars>>

-------------------------------------------------------------------------------
(* The worker of the next-iteration job of iteration n.                        *)

Goto(n, step) == job' = [job EXCEPT ![n] = step]
JobUnchanged  == UNCHANGED <<completed, best, spend, hook, hookFailed>>

JobStarts(n) ==
    /\ job[n] = "waiting"
    /\ Goto(n, IF status = "running" THEN "planning" ELSE "done")
    /\ UNCHANGED <<status, iteration, phase, created, failures, stalled, faults>>
    /\ JobUnchanged

JobPlans(n) ==
    /\ job[n] = "planning"
    /\ Goto(n, "creating")
    /\ UNCHANGED <<status, iteration, phase, created, failures, stalled, faults>>
    /\ JobUnchanged

JobCreatesExecution(n) ==
    /\ job[n] = "creating"
    /\ \E e \in Executions :
         /\ phase[e] = "none" /\ \A f \in 1..(e - 1) : phase[f] # "none"
         /\ phase' = [phase EXCEPT ![e] = "created"]
         /\ created' = [created EXCEPT ![n] = e]
    /\ Goto(n, "inserting")
    /\ UNCHANGED <<status, iteration, failures, stalled, faults>>
    /\ JobUnchanged

\* Mutant of JobInsertsIteration: it goes on when the row was there before.
JobInsertsAndGoesOn(n) ==
    /\ job[n] = "inserting"
    /\ iteration' = [iteration EXCEPT ![n + 1] =
                        IF Row(n + 1) = NULL THEN NewIteration(created[n]) ELSE @]
    /\ Goto(n, "spawning")
    /\ UNCHANGED <<status, phase, created, failures, stalled, faults>>
    /\ JobUnchanged

\* Mutant of JobInsertsIteration: nobody spawns the Ring Leader.
JobInsertsAndEnds(n) ==
    /\ job[n] = "inserting"
    /\ iteration' = [iteration EXCEPT ![n + 1] =
                        IF Row(n + 1) = NULL THEN NewIteration(created[n]) ELSE @]
    /\ Goto(n, "done")
    /\ UNCHANGED <<status, phase, created, failures, stalled, faults>>
    /\ JobUnchanged

\* ON CONFLICT (campaign_id, iteration_num) DO NOTHING: the execution a second
\* delivery has created stays behind as an orphan.
JobInsertsIteration(n) ==
    /\ job[n] = "inserting"
    /\ \/ /\ Row(n + 1) = NULL
          /\ iteration' = [iteration EXCEPT ![n + 1] = NewIteration(created[n])]
          /\ Goto(n, "spawning")
       \/ /\ Row(n + 1) # NULL
          /\ Goto(n, "done") /\ UNCHANGED iteration
    /\ UNCHANGED <<status, phase, created, failures, stalled, faults>>
    /\ JobUnchanged

\* spawnRingLeader leaves the status of the execution alone.
JobSpawnsRingLeader(n) ==
    /\ job[n] = "spawning"
    /\ phase' = [phase EXCEPT ![created[n]] = IF @ = "created" THEN "pre_flight" ELSE @]
    /\ Goto(n, "done")
    /\ UNCHANGED <<status, iteration, created, failures, stalled, faults>>
    /\ JobUnchanged

\* Planning, the pre-flight check, createExecution or spawnRingLeader fails: the
\* campaign is marked, whatever its status by now, and the job has succeeded.
\* markCampaignErrored swallows a failure of its own.
JobGivesUp(n) ==
    /\ job[n] \in {"planning", "creating", "spawning"} /\ Fault
    /\ status' \in {"halted_error", status}
    /\ Goto(n, "done")
    /\ UNCHANGED <<iteration, phase, created, failures, stalled>>
    /\ JobUnchanged

\* Outside those try blocks a throw ends the attempt.
JobThrows(n) ==
    /\ job[n] \in {"waiting", "inserting"} /\ Fault
    /\ failures' = [failures EXCEPT ![n] = @ + 1]
    /\ Goto(n, IF failures[n] + 1 < Attempts THEN "waiting" ELSE "failed")
    /\ UNCHANGED <<status, iteration, phase, created, stalled>>
    /\ JobUnchanged

\* Also after its last step, before BullMQ has heard that the job is done.
WorkerDies(n) ==
    /\ job[n] \in Working \cup {"done"} /\ ~ stalled[n] /\ Fault
    /\ stalled' = [stalled EXCEPT ![n] = TRUE]
    /\ Goto(n, "waiting")
    /\ UNCHANGED <<status, iteration, phase, created, failures>>
    /\ JobUnchanged

-------------------------------------------------------------------------------
HookStep(h) ==
    \/ \E n \in Numbers : HookClaims(h, n)
    \/ \E efs \in EfsScores : HookPersistsScore(h, efs)
    \/ HookUpdatesAggregates(h) \/ HookEvaluates(h) \/ HookStops(h)
    \/ HookEnqueuesNext(h)

JobStep(n) == \/ JobStarts(n) \/ JobPlans(n) \/ JobCreatesExecution(n)
              \/ JobInsertsIteration(n) \/ JobSpawnsRingLeader(n)

Next ==
    \/ \E e \in Executions : \/ UserConfirms(e) \/ UserStops(e)
                             \/ \E cost \in Costs : VerdictsClose(e, cost)
    \/ \E h \in Hooks : HookStep(h) \/ HookFails(h)
    \/ \E n \in Numbers : JobStep(n) \/ JobGivesUp(n) \/ JobThrows(n) \/ WorkerDies(n)

Spec == Init /\ [][Next]_vars

\* The workers keep running.  Nothing makes a user confirm or a council judge.
Fairness == /\ \A h \in Hooks : WF_vars(HookStep(h))
            /\ \A n \in Numbers : WF_vars(JobStep(n))

FairSpec == Spec /\ Fairness

-------------------------------------------------------------------------------
(* What the campaign promises.                                                 *)

\* The hook and the worker together run the loop of CampaignLoop, whatever is
\* delivered twice: one iteration at a time, each scored before the next one
\* starts, none after the maximum and none once an iteration has met a halt
\* criterion.
Loop == INSTANCE CampaignLoop WITH
    started <- Cardinality(Rows),
    scored  <- Cardinality({n \in Rows : Row(n).completedAt}),
    stopped <- \E n \in Rows : Row(n).haltedReason # NULL

RunsTheLoop == Loop!Spec

\* A campaign that has stopped never runs again.  (Why it stopped may still be
\* rewritten: neither the hook nor the worker looks at the status it overwrites.)
StopIsFinal == [][status # "running" => status' # "running"]_vars

\* A second delivery leaves at most an execution nobody works on: only executions
\* that are an iteration of the campaign ever get a Ring Leader.
OnlyIterationsRun ==
    \A e \in Executions : phase[e] \in {"pre_flight", "running", "closed"} =>
        \E n \in Rows : Row(n).execution = e

\* The count and the best score of the campaign are those of its iterations once
\* no hook is half way, and the count never runs ahead of them.
AggregatesMatch ==
    LET done == {n \in Rows : Row(n).completedAt} IN
    /\ completed <= Cardinality(done)
    /\ (\A h \in Hooks : hook[h].step = "idle") /\ ~ hookFailed =>
          /\ completed = Cardinality(done)
          /\ best = IF done = {} THEN NULL ELSE Max({Row(n).efs : n \in done})

\* The loop never drops a campaign by itself: if nothing fails, then in the end
\* the campaign has stopped or an execution of it is with its users or its bots.
NeverForgotten ==
    <>[](\/ status # "running" \/ faults > 0
         \/ \E e \in Executions : phase[e] \in {"pre_flight", "running", "stopped"})

-------------------------------------------------------------------------------
(* What a comment promises and the code does not do.                           *)

\* evolution-campaign-hook.ts: "A campaign that hits an internal error is marked
\* 'halted_error' so it stops cleanly instead of spinning."  The catch block only
\* logs: the campaign keeps its status and nothing calls the hook again.
HookErrorStopsCampaign == hookFailed ~> status # "running"
===============================================================================
