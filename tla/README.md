# Claw Army, in TLA+

A TLA+ model of the control plane of the Claw Bot Army platform: how an execution is
planned, staffed, started, run and stopped; what happens to its bots after it has
finished (council, God Layer, soul library); how executions are chained into evolution
campaigns; and the services around a run (gateway, billing, watchdog, Akasa server).
TLC checks the models on small instances; TLAPS proves the invariants that matter most
for all of them. `PROJECT.json` lists the components, the runs, the lines of code each
definition stands for, the hazards of the code, the mutants and the theorems. Paths
below are relative to `services/execution-service/src/` unless they start with
`packages/` or name another service.

## The system

| Component | State it keeps | Operations | What makes it correct |
|---|---|---|---|
| Planner, `services/task-graph-parser.ts`, `services/preflight-validator.ts`, `services/budget-validator.ts` | none | parse the model's reply, validate the graph, pre-flight checks, waves | only acyclic graphs of known, distinct tasks are run |
| Executions, `routes/executions.ts`, `services/execution.service.ts` | `executions.status`, `ring_leader_runs` | create, confirm, cancel, stop, spawn wave by wave | started once, a final status is final, upstream tasks first |
| Ring Leader population, `services/population-assembler.ts` and its modules | the manifest of a run | search the library, select, generate pioneers, budget gate | distinct, unblemished souls; the two budget checks agree |
| Bots, `orchestrator/*.ts`, `routes/bots.ts` | in-memory registry, `bots`, instances | spawn, ready, report, spawn timeout, stop | no instance is forgotten; every entry resolves |
| Tasks, `queue/openclaw-dispatcher.ts`, `orchestrator/openclaw-client.ts`, `orchestrator/completion-checker.ts` | `tasks`, queue, claims on bots, callbacks of clients | acquire, claim, send, store, retry, complete | a bot serves one task; the end is not missed |
| Run coordination, `services/coordination-loop.ts` and its modules | session registry, set of handled failures | poll, route, reallocate, degrade, synthesise | a failure is replaced once per poll; the loop ends, and with it the run |
| Class machine, `god-layer/class-machine.ts` | none: a pure function on an `agent_classes` row | `computeClassTransition` | classes are earned, move by single rungs, Retired is final |
| Council, `queue/council-worker.ts` | `council_verdicts` rows; BullMQ jobs | judge a bot, insert a verdict, enqueue a God Layer job | one verdict per bot and run, even across retries; the human gate |
| Verdict routes, `routes/verdicts.ts` | `status`, `confirmed_at` of a verdict | confirm (enqueues), reject | compare-and-set on pending verdicts |
| God Layer, `queue/god-layer-worker.ts`, `god-layer/*.ts` | Redis lock per task category; `category_benchmarks`, `agent_classes`, `dna_store`, `negative_signal_register` | claim, lock, transaction, campaign hook, release | each verdict applied at most once; one job per category; counts, lineage and baseline exact |
| Evolution campaign, `services/evolution-campaign-hook.ts`, `services/campaign-halt-criteria.ts`, `queue/evolution-campaign-worker.ts` | `evolution_campaigns`, `evolution_campaign_iterations` | score an iteration, halt or enqueue, start the next | iterations one at a time, in order, bounded; a stopped campaign stays stopped |
| Billing, `events/*.ts` | claimed messages, spend and cap in Redis, `billing_events` | claim, charge, write, stop at the cap | no message charged twice; the cap stops the execution |
| Guardrail watchdog, `services/guardrail-watchdog.ts` | deny list in Redis | look at the log, deny and stop a bot | as for the gateway |
| Tool gateway, `services/tool-gateway/` | call and token windows in Redis, `tool_invocations` | check, run and log a call | a limit is passed by the calls in flight only |
| Akasa server, `services/akasa-server/src/{routes,god-layer}` | verdicts, classes, lineage, register of managed agents | poll, convene, confirm, reject, carry out | judged once; a verdict is stamped when its work is done |
| Akasa connections, `services/akasa-server/src/services/token-manager.ts`, its OAuth routes | `tool_connections` | connect, refresh, replace, delete | deleted tokens stay deleted |

They meet in three ways: BullMQ jobs (tasks, council, God Layer, next iteration), which
are retried after a throw and delivered again when their worker dies or stalls; rows in
PostgreSQL, guarded by conditional updates and unique indexes, and keys in Redis; and
calls that are fired and forgotten (`completion-checker.ts` starts the performance
pipeline and the council together, the confirm route answers before its spawner has run,
population assembly is not awaited, the council of the Akasa server runs on after its
poll). The behaviour that is hard to test lies between these: duplicate jobs for one
verdict, a worker that dies between a claim and the work, locks that expire, rows read
before and written after somebody else's commit, polls that overlap, callbacks that
outlive their request. The hazards in `PROJECT.json` name each at its line.

## Modules

    ClassMachine              pure operators
      AgentClass              one class row under any verdicts       MCAgentClass
      GodLayer                council, routes, God Layer worker      MCGodLayer
    CampaignLoop              what a campaign promises
      EvolutionCampaign       hook and worker that implement it      MCEvolutionCampaign

    Planner                   pure operators
      Executions              create, confirm, cancel, stop, spawn   \
    Population                assembly and budget gate                |
    BotLifecycle              rows, registry and instances of bots    |-- MCRuntime
    TaskDispatch              jobs, bots, callbacks, completion       |
    RunCoordination           overlapping polls and the synthesis    /

    ToolGateway               calls, limiters, watchdog              \
    Billing                   deliveries, claim, charge, stop         |-- MCPlatform
    AkasaEvolution            polls, councils, verdicts carried out   |
    Connections               tokens of one connection               /

    AgentClassProofs, ClassMachineProofs, GodLayerProofs, CampaignProofs,
    RunProofs (Planner, Executions, Population, RunCoordination),
    BotProofs (BotLifecycle, TaskDispatch; then MCRuntime, on top of RunProofs),
    SpendingProofs (ToolGateway, Billing),
    AkasaProofs (AkasaEvolution, Connections; then MCPlatform, on top of SpendingProofs)

Definitions preceded by "Mutant of" are mistakes nobody made: they replace the
definition they name to see that the properties notice. No specification uses them.

### After an execution

**ClassMachine** translates `computeClassTransition`: the counters move first, then
the four guards are tried on the new counters. The code returns early once a
verdict type has matched; each guard here contains the type and class it is for, so
at most one of them holds. A confidence is the weighted score in thousandths, as
`numeric(4,3)` stores it, and compared with `>`.

**AgentClass** closes the class machine with the pioneer tracker alone: a row, the
run count of its category, any verdict at any time. It is the environment in which
long sequences are cheap. Its one assumption about the tracker is that the first
run of a category is never above the baseline it sets itself. (Two runs above it
therefore make three, so the maturity that both promotions ask for is already
implied by their other thresholds; `ClassEarned` holds of a class machine without
that guard, too.)

**GodLayer** is the pipeline for the bots of one finished execution. A bot belongs
to one execution and the category of a soul is never updated, so a bot has one
class row; `Unknown` is the category of a bot without a soul or of a soul
without one, and takes no lock. How the actions relate to the code:

| Action | Code |
|---|---|
| `PerformancePipeline` | the pipeline's write of `bots.composite_score`; the God Layer reads NULL as 0 until then |
| `CouncilJudges`, `CouncilEnqueueFails`, `CouncilThrows`, `CouncilStalls` | `councilProcessor` with its insert and its fire-and-forget enqueue; two attempts; a stall after the insert judges the bot again |
| `Confirm`, `ConfirmEnqueueFails`, `Reject` | the conditional updates of `routes/verdicts.ts`, which do not ask whether the verdict waited for a confirmation |
| `Claim` | `UPDATE ... WHERE god_layer_processed_at IS NULL` and the selects after it; the claim commits on its own |
| `AcquireLock`, `LockTimeout` | `SET NX EX 300`, twenty tries |
| `ReadBenchmark`, then `Commit` or `Abort` | the transaction at READ COMMITTED. The row of the category is locked from the write of the benchmark on, so the rest is one step; the select before it is a step of its own |
| `RunHook` | the gate of the campaign hook, then the `finally` block with its compare-and-delete |
| `StepThrows`, `WorkerDies` | any query, or the process. After the commit nothing of the processor throws: events are not awaited, hook and release catch |
| `LockExpires`, `LockLapses`, `RenewLock` | the TTL of a lock left behind; of one whose holder was paused; the renewal `SET XX`, which does not compare the owner |

**EvolutionCampaign** takes each statement of the hook and of the next-iteration
worker as a step, for several hook calls and redelivered jobs. An execution is
reduced to the phase its campaign can tell: in `pre_flight` without or with a Ring
Leader, confirmed, closed (verdicts exist and the God Layer claimed each), stopped.
Its halt criteria are tried in the order of `evaluateHaltCriteria`. What
`allVerdictsProcessed` is worth is GodLayer's subject. **CampaignLoop** is the
abstract loop; the refinement maps its counters to the number of iteration rows and
of completed ones, and its flag to a recorded halt reason.

### During an execution

**Planner** holds the pure functions: the parser with its fallback graph, the validation
of the graph, the budget and tool checks, the waves. Kahn's queue and the waves both take
tasks in `Rounds`: round n has the tasks whose dependencies earlier rounds took. The
order inside a round changes neither how many tasks are taken nor in which wave one is,
so the queue itself is left out. `Sound` is the reference: distinct names, no dangling
dependency, an order in which every task comes after those it depends on.

**Executions** is one execution from `POST /executions`. Create plans and inserts; the
Ring Leader's run and its assembly are steps nobody waits for; confirm, cancel and stop
are requests suspended at every await, each with a check it read and a compare-and-set
it relies on. The stop route's two updates are two steps: a confirmation in between
moves the execution from the status the second one had looked for before. The spawner
goes through the waves; an agent launch ends up or failed.

**Population** assembles the souls of one task after the other. What the embedding
finds near a task is an input (any subset of the library that the filter lets pass), as
is which souls are alike; the ranking, the three class slots, the pioneers that fill up
and the stages of the budget gate are the code's. The pre-flight check multiplies by the
estimate of the environment (`AgentEstimate`), the gate adds up a price table of its own;
`AdmittedIsFunded` names the condition under which the two agree.

**BotLifecycle** has a row, a registry entry and an instance for each bot and five
handlers that write them: `spawnBot` (insert, launch, record, register), the ready call
with its retries (connect, then "idle" without a condition), the startup report, the
timeout checker and `stopBot`, entered also by the stop route, the watchdog or billing.
`Restart` empties the registry and drops the handlers in flight. The external GCE API
is reduced to accepted, done, deleted.

**TaskDispatch** has the runs of each job: a run waits for an idle bot, claims its task
row, sends the request, waits, stores or fails, releases the bot and asks whether the
execution is over. The callbacks of a client are overwritten by the next run on that
bot, and a request that was given up goes on: both are in the model. A throw in the
catch block or in `checkExecutionCompletion` loses the completion; `silenced` records
it.

**RunCoordination** starts a poll whether or not the last one has ended. A poll reads
sessions, routes, reallocates (launching replacements for minutes), moves the budget
tier, and ends the loop. What the agents do to their sessions comes from outside.

**MCRuntime** puts the five next to each other. They share no variable: what one does
to another (a stop that arrives, a bot that disconnects, a session that ends) is an
action of the other's world, taken at any time. So a variable `focus` lets one of them
run in each behaviour, and the state spaces add up instead of multiplying. One
configuration then holds all of their properties.

### Around an execution

**ToolGateway** is a call's way through `POST /tool.invoke`: deny list, allowlist, two
limiters that are read first and used up later, the tool, the log; and the watchdog,
which reads that log, rejected rows included, and writes that deny list. Windows and
rows end at any time.

**Billing** has messages that are delivered several times to callbacks that run side by
side. A callback claims its message, charges it in one script, writes, judges and, over
the cap, stops bots and execution. It may throw or crash at every step.

**AkasaEvolution** is the second council and God Layer. A poll convenes a council it
does not wait for; a request carries out a verdict statement by statement, with errors
swallowed and the stamp last, without a claim, a queue or a transaction. One task
category is assumed.

**Connections** is one row of tokens with refreshes, OAuth callbacks and deletes in any
order, against a provider that may rotate refresh tokens.

**MCPlatform** puts the four side by side, with a focus as above (two for
AkasaEvolution: polls from an empty table, requests from a table with two verdicts).

## Runs

| Run | Checks | Instance |
|---|---|---|
| `agentclass` | `ClassEarned`, `DemotedNeverArtisan`, `ClassMovesByRung` | 11 counted runs: five above for Artisan, a demotion, a second rise; confidences on each threshold and above the highest |
| `godlayer_jury` | `CategoryMutex`, `RunsCounted`, `CountersMatchVerdicts` | two bots sharing a soul, three verdicts (the benchmark matures at three), with and without an objection, one bot judged twice, two workers |
| `godlayer_faults` | `TypeOK`, `AppliedAtMostOnce`, `DnaLineageComplete`, `RetirementSignalled`, `BaselinePermanent` | a locked and an unlocked category, one fault anywhere, one rejudged bot, one lapsed lock |
| `godlayer_live` | `JobsEnd`, `LocksEnd` | two bots in one category, one fault |
| `campaign` | `TypeOK`, `OnlyIterationsRun`, `AggregatesMatch`, `RunsTheLoop`, `StopIsFinal`, `NeverForgotten` | four iterations (a plateau needs three), five executions, two concurrent hook calls, two faults, budget 5 at 1 or 2 each |
| `runtime` | planner and executions: `OnlySoundPlans`, `StartedOnce`, `UpstreamFirst`, `OverIsOver`; population: `AdmittedIsFunded`, `StaffedSoundly`; bots: `RunningVmAccounted`, `EntryResolves`; tasks: `BotServesOne`, `NoMissedCompletion`; coordination: `ReplacedOncePerPoll`, `RunEndsHere`, `OnlyReplacementsLeft`; `RuntimeTypeOK` | every reply of up to two tasks and many of three; three waves with two confirms and two cancels; four souls, two tasks, budgets around each stage of the gate; one bot with two ready calls, two stoppers, a restart and a fault; two jobs on one bot with a timeout or failure and a stall; two polls, a spare and a fault |
| `platform` | `TokensBounded`; `ChargedOnce`, `OverBudgetStops`; `StampedWasDone`, `JudgedOnce`; `DeletedStaysGone`; `PlatformTypeOK` | two calls of a bot in flight; three messages, each delivered twice, two callbacks, a throw and a crash; two polls and two runs of one agent; two requests on each pair of verdict types; two refreshes, three grants, two rows |
| `godlayer_unconfirmed` | violates `ConfirmedBeforeApplied` | |
| `godlayer_scoring` | violates `ScoredAfterLastVerdict` | |
| `campaign_error` | violates `HookErrorStopsCampaign` | |
| `runtime_result` | violates `OwnResult` | |
| `platform_retire` | violates `RetireTakesEffect` | |

The bounds are CONSTANTS named `Max...`, next to the sets of identities. The attempts of
the jobs (two instead of three for tasks), the concurrency of the workers (2 instead of
3), the stalls (one instead of two) and `MaxIterations` are parameters of the code that
the instances set small. A conflict in this code is between two jobs, requests, polls or
deliveries, a thing and its duplicate, or a step and one failure behind it; each
instance holds these, and three verdicts are what the maturity threshold asks for. Bots
of GodLayer are not symmetric (their scores and souls differ), elsewhere one bot or
agent is enough, so no symmetry is used.

`godlayer_jury` has no faults: an aborted transaction or a lost job only
removes work from the counts, and `godlayer_faults` has them with the properties
that duplicates could break. `CategoryMutex` and `RunsCounted` assume that no lock
lapses under its holder (`MaxLapses = 0`): a process paused for five minutes
does lose the lock, and the renewal may then take it from its next owner.
`RunsCounted` speaks of locked categories only, because in `"unknown"` two jobs can
read the same count. Deadlock is not checked where everything may have ended: every
execution is over, every bound is used up.

**Fairness.** Weak fairness of each God Layer job's claim and steps, and of the
TTL: BullMQ workers keep polling, and Redis keeps time. It is assumed of each job
separately, because the queue is first-in first-out and a slot becomes free when
any running job ends. In EvolutionCampaign, weak fairness of each hook call and
of each next-iteration job. In BotLifecycle, of the timeout checker, which runs on an
interval, and of a stop that was entered; in RunCoordination, of the clock, and of a
poll that was started. Nothing is fair about a user, a judge, a VM, an agent, a council
job or a fault; `NeverForgotten` therefore allows a campaign to wait for its user or its
council, and excuses behaviours with a fault. `LocksEnd` says that a lock is given
up, not that a given job obtains it: that is luck among the twenty tries.

## What the runs found

* A Promote or Retire verdict without a Devil's Advocate objection goes to the God
  Layer without any confirmation (`council-worker.ts:199,290`), against CONF-01
  and two other documents.
* The campaign gate reads claims, not results, and only the verdicts inserted so far
  (`execution-fitness.ts:149`): an iteration is scored before its last verdict
  is in, against the comment at 134.
* A hook that throws after its claim leaves the campaign "running" for ever
  (`evolution-campaign-hook.ts:189`), against the comment at 38.
* The result callback belongs to a bot's client and not to a request
  (`openclaw-dispatcher.ts:177`): after a timeout, the late answer of the old request is
  stored as the result of the next task on that bot.
* On the Akasa server a class transition is a plain insert into a table with one row
  per bot and category, and its error is swallowed
  (`god-layer-handler.ts:174`): a Retire verdict on an agent that already has a class is
  stamped as processed and retires nobody.

Some things hold only in a weak form, and the modules say so where it matters:

* God Layer and campaigns: a claimed verdict whose job then fails is never applied; a
  confirmation that arrives after the job has read the verdict is not counted; an
  iteration whose worker dies between its row and its Ring Leader is never started; why
  a campaign stopped may be rewritten; a rejected verdict, or a Demote with an
  objection, stops a campaign without ending it.
* Executions: a stop whose first update misses the running execution and whose second
  misses the queued one answers although nothing was stopped.
* Coordination: overlapping polls replace a failure once each, and may close the loop
  over a replacement their snapshot does not show (`OnlyReplacementsLeft`).
* Billing: a throw after the claim loses the rest of a message (at most once, not
  exactly once); a later wave may still start bots after the stop.
* Watchdog: a stop that fails after the deny key was written is not tried again before
  the key ends; a wait for Redis counts as an open window.
* Akasa: overlapping polls, or two runs of one agent, convene several councils; a
  second confirmation carries a verdict out twice; a request that dies after
  "confirmed" is never repeated; the loser of two rotating refreshes marks as expired a
  row the winner has just renewed.

## Proofs

Every invariant and every action property of the passing runs is a theorem, for all
values of the constants. A proof establishes `Init => IInv`, then one step per action,
then the implication. The assumptions are the named ones on the constants, which TLC
evaluates in the runs. Most say what kind of thing a constant is. Three say more:

* `LibraryAssumption`: the library lists a soul once, and a pioneer's name is not in it
  (souls are rows with a primary key; a pioneer gets a new one).
* `CatalogueAssumption`: a soul whose class is Retired has a negative signal, since one
  transaction of the God Layer writes both (`OneRetirement` is that fact where it arises).
* `BacklogAssumption`: the verdicts a behaviour starts with are within `MaxVerdicts` and
  none of them has been carried out.

**AgentClassProofs.** `ClassEarned` is inductive as it stands, but `DemotedNeverArtisan`
is not: it needs that the streak of runs below never exceeds their total, so that the
two runs a demotion asks for stay above the one an Artisan may have. The lemmas of
`ClassMachineProofs` state what one call of the class machine does to each of these.

**GodLayerProofs.**
* `TypeCorrect`: `TypeOK` with two facts it needs: a job beyond "none" has a verdict
  row, and a lineage that has versions has a greatest one, which the next is written
  above.
* `AppliedOnce`: a job between claim and commit has claimed its verdict, which is not
  applied yet, and no other job of that verdict is there (`OnceInv`). The unique winner
  of the claim carries the argument through retries and stalls.
* `MutualExclusion`: while no lock may lapse, whoever is inside a category owns its
  lock (`LockInv`). Expiry is harmless because it only takes locks whose owner is
  not inside.
* `BaselineFixed`: a benchmark row a job has seen is, up to its run count, the one in
  the table (`SeenInv`), so an update keeps pioneer and baseline, and an insert
  meets the unique index.
* `OneRetirement`: inductive as it stands, because the class machine moves only a row
  that is not Retired yet to Retired, in the transaction that writes the signal.
* `CompleteLineages`: the rows of a lineage are finite, and their versions are 1 to the
  number of its applied verdicts (`LineageInv`). A commit writes one above the greatest,
  and `OnceInv` says that its verdict was not among them.
* `CountersAreTrue`: a commit adds exactly one unapplied verdict to those of its bot
  (`AppliedGrows`); a confirmation a job has loaded was one and is never undone
  (`ConfirmedInv`).
* `EveryRunCounted`: while no lock may lapse, what a job has selected is still the row of
  its category when it writes the row back (`FreshInv`, from `LockInv`).

**CampaignProofs.** `ImplementsTheLoop` is the refinement: the claim is the loop's
Score, the recorded reason its Stop, the insert of a row its Start, everything else a
stutter. It needs `CampaignInv`: rows are 1 to the last, and all but the last are
completed without a reason to halt; a job only exists for such an iteration below the
maximum; and a hook that has claimed an iteration is alone with it and its job does not
exist yet. The counting goes through cardinalities: the rows lie in 1 to n when row
n + 1 is inserted, so there are fewer than the maximum. `StopsForGood`,
`OrphansStayIdle` and `CampaignTyped` come from the same step lemma. `AggregatesAgree`:
the count is that of the completed iterations without those a hook has claimed and not
counted yet, and a hook that fails only loses its own (`CountInv`).

**RunProofs.**
* Recursion. The library's induction theorems take an operator and cannot be used, but
  `WFMin` takes a set: from the least element of a set of naturals come `Induction` and
  `Recursion` for sets, and with them what a recursive function or a fold computes.
* `KahnDecides`: the validation accepts exactly the sound graphs. If all tasks are taken,
  the rounds that take them are the order asked for, because what a task waits for was
  taken before it (`NewInRound`). If there is an order, a task of rank n is taken by
  round n, by induction on n.
* `ExecutionTyped`, `PlansAreSound`, `UpstreamLaunchedFirst` share `SpawnInv`: the graph
  of an execution has passed the validation, and behind the wave the spawner is in, every
  launch is over. A task comes in a later wave than those it waits for; and waves are
  numbered without a gap, so the last wave leaves no task behind.
* `StartsOnce`: whoever is past the compare-and-set of the confirmation is alone there,
  and excludes a cancel that won (`StartInv`). `FinalStatus` is a property of each step.
* `StaffingIsSound`: ranking keeps what the filter let pass; the selection is distinct
  and unlike at every length; the pioneers that fill up have names of their own; the gate
  exchanges classes, and dismisses what is beyond three (`PopInv`).
* `AdmittedMissionsAreFunded`: the last stage of the gate leaves three agents without an
  Artisan for each task, and these cost no more than the pre-flight check counted.
* `CoordinationTyped`. `ReplacementsBounded`: an agent was replaced by as many polls as
  have it behind them, and a poll launches for it once (`ReplaceInv`). `ClosesAtRest`: a
  poll on its way to the end has seen the time limit or every original agent at rest, and
  such an agent never starts again (`EndInv`).

**BotProofs.** `VmsAccounted`: each place an instance can be in is followed from the
launch to its deletion (`VmInv`). `BotsServeOne`: the entry of a bot names the job that
holds it (`HoldersKnown`). `CompletionNotMissed`: a task that has become terminal has a
run that still has to report, a check under way, or was seen by a check that found
another task open (`DispatchInv`). `RuntimeComposes`: a step of the composed model is a
step or a stutter of every component, so what is proved of one alone holds in it;
`RuntimeTyped` is the first use.

**SpendingProofs.** `TokensStayBounded`: the calls past the check count as if each had
used the most it may (`TokensInv`); the step of one call then moves a unit from one side
to the other. `GatewayTyped`: calls in flight and rows together stay within the bound of
the log, so a call that ends finds a place (`LogTypes`). `ChargesOnce`: the winner of a
claim is alone, and what it has booked is what the steps behind it book.
`StopsOverBudget`: an account over its cap has a callback on its way to the stop, or is
stopped.

**AkasaProofs.** `DeletedGrantsStayGone`: a grant of a pending callback is in nobody's
hands, and a refresh holds tokens of its row only while the row lives (`LinkInv`).
`LinkTyped` needs the same: a renewal carries a grant, never the empty token.
`BotsJudgedOnce` is a property of each step over types. `StampedWereDone`: the verdicts
stamped or behind the write of their signal are counted by the signals and the faults
(`LayerInv`), with one request in a slot at a time. `EvolutionTyped`: what a request has
read stays good until it writes (`RequestReads`), and a soul with versions has a greatest
one (`StoreTypes`). `PlatformComposes` and `PlatformTyped` are to the four services what
`RuntimeComposes` and `RuntimeTyped` are to an execution.

**Only model-checked.** Liveness: `JobsEnd`, `LocksEnd`, `NeverForgotten`,
`EntryResolves` and `RunEndsHere`, since fairness and ENABLED are beyond the prover. And
the five violations, which are counterexamples.

## Not modelled

Scores, prompts, embeddings, the judges' opinions and the replies of models are inputs.
What is left out, and why:

* **UI, stub bot, infrastructure**: presentation, a test double and deployment. The UI
  alone is about half of the lines of the repository, which is why the map covers a
  small share of them.
* **Ring Leader fitness and class progression**: a sum, and a promotion that acts on a
  `soulId` which nothing in the repository sets on a Ring Leader run.
* **Akasa catalogues, settings, skills; webhooks and the event bus; read-only routes,
  SSE, admin, retention**: single statements on the database, queries or counters in
  memory, with no protocol between requests.
* **Paperclip sessions and proxy**: an HTTP client and token signing for an external
  service.
* **Arithmetic** of the performance engine, the coordination score and execution
  fitness: floating point over inputs. Drift detection and early completions only
  publish events.
* **Redelivery after a day**: the claim of a billing message expires after 24 hours; a
  message delivered again after that would be charged again. Pub/Sub retention makes
  this a matter of configuration, so claims last for ever here.
* **Several task categories, several processes**: the Akasa model has one category, the
  runtime one instance of the service (its registry is in memory; a restart is
  modelled).
