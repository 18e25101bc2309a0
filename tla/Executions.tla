------------------------------ MODULE Executions ------------------------------
(* One execution from POST /executions to its coordination loop: planning and  *)
(* pre-flight, the Ring Leader's run and its population assembly (which nobody *)
(* waits for), the confirm, cancel and stop routes, and the spawner that goes  *)
(* through the task graph wave by wave.  Requests interleave at every await;   *)
(* the status of the execution only moves by compare-and-set.                  *)
EXTENDS Planner

CONSTANTS
    Plans,      \* replies of the planner's model
    Granted,    \* allowedTools of the request
    Caps,       \* budget caps a request may carry
    Estimate,   \* ESTIMATED_AGENT_COST_CENTS
    Requests,   \* identities of confirm and cancel requests
    MaxExecFaults   \* bound: failed assemblies, Ring Leader inserts and agent spawns

ASSUME PlanAssumption ==
    /\ Plans \subseteq Seq(Task) /\ Granted \subseteq Tools
    /\ Caps \subseteq Nat /\ Estimate \in Nat /\ Minimum \in Nat \ {0}
    /\ IsFiniteSet(FallbackIds)
ASSUME ExecBounds == MaxExecFaults \in Nat

VARIABLES
    plan,      \* the reply, then the task graph of the mission brief
    execution, \* executions.status, "none" before the insert, "refused" without one
    run,       \* ring_leader_runs.status
    manifest,  \* ring_leader_runs.populationManifest is a non-empty array
    leader,    \* spawnRingLeader, then assemblePopulation in the background
    confirm,   \* where each confirm request is
    cancel,    \* where each cancel request is
    stop,      \* where the stop request is
    wave,      \* the wave the spawner is in, 0 before the first
    agent,     \* the agents of each task
    starts,    \* history: calls of spawnAgentsForRun
    loops,     \* history: coordination loops started
    failures   \* history, bounded by MaxExecFaults

routeVars == <<confirm, cancel, stop>>
spawnVars == <<wave, agent, starts, loops>>
execVars  == <<plan, execution, run, manifest, leader, routeVars, spawnVars, failures>>

Over == {"stopped", "failed", "completed"}
Live == {"queued", "running"}
AllTaskIds == TaskIds \cup FallbackIds

ExecTypeOK ==
    /\ plan \in Seq(Task)
    /\ execution \in {"none", "refused", "pre_flight"} \cup Live \cup Over
    /\ run \in {"none", "assembling", "spawning", "failed", "coordinating"}
    /\ manifest \in BOOLEAN
    /\ leader \in {"none", "inserting", "assembling", "done", "failing", "error"}
    /\ confirm \in [Requests -> {"none", "checked", "confirmed", "running", "done"}]
    /\ cancel \in [Requests -> {"none", "checked", "cancelled", "won", "done"}]
    /\ stop \in {"none", "first", "second", "answered"}
    /\ wave \in 0..Len(plan)
    /\ agent \in [AllTaskIds -> {"none", "launching", "up", "failed"}]
    /\ starts \in Nat /\ loops \in Nat
    /\ failures \in 0..MaxExecFaults

ExecInit ==
    /\ plan \in Plans
    /\ execution = "none" /\ run = "none" /\ manifest = FALSE
    /\ leader = "none"
    /\ confirm = [r \in Requests |-> "none"]
    /\ cancel = [r \in Requests |-> "none"]
    /\ stop = "none"
    /\ wave = 0
    /\ agent = [i \in AllTaskIds |-> "none"]
    /\ starts = 0 /\ loops = 0
    /\ failures = 0

ExecFault == failures < MaxExecFaults /\ failures' = failures + 1

\* Mutant of Transition: the update without "AND status = from".
TransitionBlind(from, to) ==
    IF execution \in {"none", "refused"} THEN UNCHANGED execution ELSE execution' = to

\* transitionExecution: UPDATE ... WHERE status = from.
Transition(from, to) ==
    IF execution = from THEN execution' = to ELSE UNCHANGED execution

\* Mutant of Moves: the caller does not look at the number of rows.
MovesAlways(from) == TRUE

\* What its caller learns: whether a row was updated.
Moves(from) == execution = from

-------------------------------------------------------------------------------
(* POST /executions, and what it leaves running.                               *)

Create ==
    /\ execution = "none"
    /\ plan' = Parsed(plan, Granted)
    /\ \E cap \in Caps :
          IF Admitted(plan', Granted, cap, Estimate)
          THEN execution' = "pre_flight" /\ leader' = "inserting"
          ELSE execution' = "refused" /\ UNCHANGED leader
    /\ UNCHANGED <<run, manifest, routeVars, spawnVars, failures>>

\* spawnRingLeader inserts the run, writes its brief and links it.
SpawnLeader ==
    /\ leader = "inserting"
    /\ run' = "assembling"
    /\ leader' = "assembling"
    /\ UNCHANGED <<plan, execution, manifest, routeVars, spawnVars, failures>>

LeaderFails ==
    /\ leader = "inserting"
    /\ ExecFault
    /\ leader' = "error"
    /\ UNCHANGED <<plan, execution, run, manifest, routeVars, spawnVars>>

FailExecution ==
    /\ leader = "error"
    /\ Transition("pre_flight", "failed")
    /\ leader' = "done"
    /\ UNCHANGED <<plan, run, manifest, routeVars, spawnVars, failures>>

\* assemblePopulation writes manifest and status, whatever the status is by now.
Assembled ==
    /\ leader = "assembling"
    /\ run' = "spawning"
    /\ manifest' = TRUE
    /\ leader' = "done"
    /\ UNCHANGED <<plan, execution, routeVars, spawnVars, failures>>

\* A model call throws or the budget falls short; the run is marked failed and the
\* execution stays where it is.
AssemblyThrows ==
    /\ leader = "assembling"
    /\ ExecFault
    /\ leader' = "failing"
    /\ UNCHANGED <<plan, execution, run, manifest, routeVars, spawnVars>>

AssemblyFailed ==
    /\ leader = "failing"
    /\ run' = "failed"
    /\ leader' = "done"
    /\ UNCHANGED <<plan, execution, manifest, routeVars, spawnVars, failures>>

-------------------------------------------------------------------------------
(* The confirm, cancel and stop routes.                                        *)

\* The status and the manifest have been read; otherwise 404 or 409.
ConfirmCheck(r) ==
    /\ confirm[r] = "none"
    /\ execution = "pre_flight" /\ manifest
    /\ confirm' = [confirm EXCEPT ![r] = "checked"]
    /\ UNCHANGED <<plan, execution, run, manifest, leader, cancel, stop,
                   spawnVars, failures>>

Confirm(r) ==
    /\ confirm[r] = "checked"
    /\ confirm' = [confirm EXCEPT ![r] = IF Moves("pre_flight") THEN "confirmed" ELSE "done"]
    /\ Transition("pre_flight", "queued")
    /\ UNCHANGED <<plan, run, manifest, leader, cancel, stop, spawnVars, failures>>

\* The setImmediate after the answer: the result of the transition is not looked at.
StartRunning(r) ==
    /\ confirm[r] = "confirmed"
    /\ Transition("queued", "running")
    /\ confirm' = [confirm EXCEPT ![r] = "running"]
    /\ starts' = starts + 1
    /\ UNCHANGED <<plan, run, manifest, leader, cancel, stop, wave, agent,
                   loops, failures>>

CancelCheck(r) ==
    /\ cancel[r] = "none"
    /\ execution = "pre_flight"
    /\ cancel' = [cancel EXCEPT ![r] = "checked"]
    /\ UNCHANGED <<plan, execution, run, manifest, leader, confirm, stop,
                   spawnVars, failures>>

Cancel(r) ==
    /\ cancel[r] = "checked"
    /\ cancel' = [cancel EXCEPT ![r] = IF Moves("pre_flight") THEN "cancelled" ELSE "done"]
    /\ Transition("pre_flight", "stopped")
    /\ UNCHANGED <<plan, run, manifest, leader, confirm, stop, spawnVars, failures>>

CancelRun(r) ==
    /\ cancel[r] = "cancelled"
    /\ run' = IF run = "none" THEN "none" ELSE "failed"
    /\ cancel' = [cancel EXCEPT ![r] = "won"]
    /\ UNCHANGED <<plan, execution, manifest, leader, confirm, stop,
                   spawnVars, failures>>

\* Two updates, one after the other.  The bots are left to BotLifecycle.
StopRequest ==
    /\ stop = "none" /\ execution \notin {"none", "refused"}
    /\ stop' = "first"
    /\ UNCHANGED <<plan, execution, run, manifest, leader, confirm, cancel, spawnVars, failures>>

StopRunning ==
    /\ stop = "first"
    /\ Transition("running", "stopped")
    /\ stop' = "second"
    /\ UNCHANGED <<plan, run, manifest, leader, confirm, cancel, spawnVars, failures>>

StopQueued ==
    /\ stop = "second"
    /\ Transition("queued", "stopped")
    /\ stop' = "answered"
    /\ UNCHANGED <<plan, run, manifest, leader, confirm, cancel, spawnVars, failures>>

-------------------------------------------------------------------------------
(* spawnAgentsForRun: all agents of a wave are launched together, and the next *)
(* wave follows when every launch of this one has settled, one way or another. *)

InSpawner(r) == confirm[r] = "running"
WaveTasks(n) == LET number == WaveOf(plan) IN {i \in Ids(plan) : number[i] = n}

WaveSettled == \A i \in Ids(plan) : agent[i] # "launching"

StartWave(r) ==
    /\ InSpawner(r) /\ WaveSettled /\ wave < LastWave(plan)
    /\ wave' = wave + 1
    /\ agent' = [i \in AllTaskIds |->
                    IF i \in WaveTasks(wave + 1) THEN "launching" ELSE agent[i]]
    /\ UNCHANGED <<plan, execution, run, manifest, leader, routeVars, starts, loops, failures>>

AgentUp(i) ==
    /\ agent[i] = "launching"
    /\ agent' = [agent EXCEPT ![i] = "up"]
    /\ UNCHANGED <<plan, execution, run, manifest, leader, routeVars, wave, starts,
                   loops, failures>>

AgentFails(i) ==
    /\ agent[i] = "launching"
    /\ ExecFault
    /\ agent' = [agent EXCEPT ![i] = "failed"]
    /\ UNCHANGED <<plan, execution, run, manifest, leader, routeVars, wave, starts, loops>>

StartLoop(r) ==
    /\ InSpawner(r) /\ WaveSettled /\ wave = LastWave(plan)
    /\ run' = "coordinating"
    /\ confirm' = [confirm EXCEPT ![r] = "done"]
    /\ loops' = loops + 1
    /\ UNCHANGED <<plan, execution, manifest, leader, cancel, stop, wave,
                   agent, starts, failures>>

\* checkExecutionCompletion, when the last task of the execution is over.
Complete ==
    /\ execution = "running" /\ wave > 0
    /\ Transition("running", "completed")
    /\ UNCHANGED <<plan, run, manifest, leader, routeVars, spawnVars, failures>>

LeaderNext ==
    \/ Create \/ SpawnLeader \/ LeaderFails \/ FailExecution
    \/ Assembled \/ AssemblyThrows \/ AssemblyFailed
RouteNext ==
    \/ \E r \in Requests : \/ ConfirmCheck(r) \/ Confirm(r) \/ StartRunning(r)
                           \/ CancelCheck(r) \/ Cancel(r) \/ CancelRun(r)
    \/ StopRequest \/ StopRunning \/ StopQueued
SpawnerNext ==
    \/ \E r \in Requests : StartWave(r) \/ StartLoop(r)
    \/ \E i \in AllTaskIds : AgentUp(i) \/ AgentFails(i)
    \/ Complete

ExecNext == LeaderNext \/ RouteNext \/ SpawnerNext

ExecSpec == ExecInit /\ [][ExecNext]_execVars

-------------------------------------------------------------------------------
(* Properties. *)

\* Kahn's algorithm and the cleaning before it admit the sound replies and no
\* others: distinct names, nothing dangling, no cycle; everything else becomes the
\* flat graph.
OnlySoundPlans ==
    execution = "none" => (Valid(plan) <=> Sound(plan))

\* However many users confirm and cancel at once, the agents of an execution are
\* spawned once at most, and never when a cancel won.
StartedOnce ==
    /\ starts <= 1
    /\ (\E r \in Requests : cancel[r] \in {"cancelled", "won"}) => starts = 0

\* An agent is launched only when the launch of every agent upstream has settled, and the
\* coordination loop starts when that of every agent of the graph has: none is forgotten.
UpstreamFirst ==
    /\ \A i \in Ids(plan) : execution \notin {"none", "refused"} /\ agent[i] # "none" =>
          \A u \in Upstream(plan, i) : agent[u] \in {"up", "failed"}
    /\ loops > 0 => \A i \in Ids(plan) : agent[i] \in {"up", "failed"}

\* Stop, cancel, completion and failure are final for an execution.
OverIsOver == [][(execution \in Over) => execution' = execution]_execVars
===============================================================================
