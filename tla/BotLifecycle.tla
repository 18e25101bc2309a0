----------------------------- MODULE BotLifecycle -----------------------------
(* The bots of one execution, from spawnBot to stopBot.  A bot is a row of the *)
(* bots table, an entry of the registry of this process and a GCE instance.    *)
(* Five handlers write the row and the entry, each suspended at its awaits:    *)
(* spawnBot, POST /bots/:id/ready (called by the startup script of the VM,     *)
(* with curl's retries), the spawn timeout checker, stopBot, and the stop      *)
(* route of the execution.  A database write may fail and the service may be   *)
(* restarted, which empties the registry and drops the handlers.               *)
EXTENDS Naturals, FiniteSets

CONSTANTS
    Bots,        \* the bots the spawner asks for
    Calls,       \* the deliveries of a VM's /ready request (curl --retry)
    Stoppers,    \* callers of stopBot besides the timeout checker: the stop
                 \* route, the watchdog or the billing engine
    StopRoute,       \* the one of them that is POST /executions/:id/stop
    MaxBotFaults,   \* bound: failed launches, connections and writes altogether
    MaxRestarts  \* bound: restarts of the service

ASSUME StopperAssumption == StopRoute \in Stoppers
ASSUME BotBounds   == MaxBotFaults \in Nat /\ MaxRestarts \in Nat

VARIABLES
    row,        \* bots.status, "none" before the insert
    message,    \* what the row's errorMessage tells
    registered, \* botRegistry has the entry
    client,     \* the entry's openclawClient
    vm,         \* the GCE instance
    spawner,    \* where spawnBot is
    ready,      \* where each delivery of the /ready request is
    reaper,     \* where the timeout checker is with the bot
    stopper,    \* where each stopBot call is
    route,      \* where the stop route is
    called,     \* history: the VM has called /ready
    lost,       \* history: a fault or a restart cut the VM from its entry
    botFaults, restarts

handlerVars == <<spawner, ready, reaper, stopper, route>>
botVars == <<row, message, registered, client, vm, handlerVars, called, lost,
          botFaults, restarts>>

FinalRow == {"stopped", "failed"}

BotTypeOK ==
    /\ row \in [Bots -> {"none", "spawning", "idle"} \cup FinalRow]
    /\ message \in [Bots -> {"none", "launch", "startup", "connect", "timeout"}]
    /\ registered \in [Bots -> BOOLEAN]
    /\ client \in [Bots -> {"null", "connected", "disconnected"}]
    /\ vm \in [Bots -> {"none", "running", "deleted"}]
    /\ spawner \in [Bots -> {"none", "launching", "waiting", "recording",
                             "failing", "registered", "failed"}]
    /\ ready \in [Bots \X Calls -> {"none", "connecting", "marking", "refused",
                                    "reporting", "removing", "done"}]
    /\ reaper \in [Bots -> {"none", "failing", "stopping"}]
    /\ stopper \in [Bots \X Stoppers -> {"none", "writing", "leaving"}]
    /\ route \in {"none", "stopping", "failsafe"}
    /\ called \in [Bots -> BOOLEAN]
    /\ lost \in [Bots -> BOOLEAN]
    /\ botFaults \in 0..MaxBotFaults
    /\ restarts \in 0..MaxRestarts

BotInit ==
    /\ row = [b \in Bots |-> "none"]
    /\ message = [b \in Bots |-> "none"]
    /\ registered = [b \in Bots |-> FALSE]
    /\ client = [b \in Bots |-> "null"]
    /\ vm = [b \in Bots |-> "none"]
    /\ spawner = [b \in Bots |-> "none"]
    /\ ready = [c \in Bots \X Calls |-> "none"]
    /\ reaper = [b \in Bots |-> "none"]
    /\ stopper = [s \in Bots \X Stoppers |-> "none"]
    /\ route = "none"
    /\ called = [b \in Bots |-> FALSE]
    /\ lost = [b \in Bots |-> FALSE]
    /\ botFaults = 0
    /\ restarts = 0

BotFault == botFaults < MaxBotFaults /\ botFaults' = botFaults + 1

WriteRow(b, status, why) ==
    /\ row' = [row EXCEPT ![b] = status]
    /\ message' = [message EXCEPT ![b] = why]

\* An UPDATE that sets the status only and leaves errorMessage as it is.
WriteStatus(b, status) == WriteRow(b, status, message[b])

\* instances.delete is sent and not waited for.
Terminate(b) == vm' = [vm EXCEPT ![b] = IF @ = "running" THEN "deleted" ELSE @]

-------------------------------------------------------------------------------
(* spawnBot: insert the row, submit the instance and wait for the operation,   *)
(* write containerId, register the entry.                                      *)

SpawnInsert(b) ==
    /\ spawner[b] = "none" /\ row[b] = "none"
    /\ WriteStatus(b, "spawning")
    /\ spawner' = [spawner EXCEPT ![b] = "launching"]
    /\ UNCHANGED <<registered, client, vm, ready, reaper, stopper, route, called,
                   lost, botFaults, restarts>>

Accepted(b) ==
    /\ spawner[b] = "launching"
    /\ vm' = [vm EXCEPT ![b] = "running"]
    /\ spawner' = [spawner EXCEPT ![b] = "waiting"]
    /\ UNCHANGED <<row, message, registered, client, ready, reaper, stopper, route,
                   called, lost, botFaults, restarts>>

\* The insert is refused, or its operation is not DONE in two minutes: in the
\* second case the instance exists and nobody will know its name.
LaunchFails(b) ==
    /\ spawner[b] \in {"launching", "waiting"}
    /\ BotFault
    /\ spawner' = [spawner EXCEPT ![b] = "failing"]
    /\ lost' = [lost EXCEPT ![b] = @ \/ vm[b] = "running"]
    /\ UNCHANGED <<row, message, registered, client, vm, ready, reaper, stopper,
                   route, called, restarts>>

LaunchFailed(b) ==
    /\ spawner[b] = "failing"
    /\ WriteRow(b, "failed", "launch")
    /\ spawner' = [spawner EXCEPT ![b] = "failed"]
    /\ UNCHANGED <<registered, client, vm, ready, reaper, stopper, route, called,
                   lost, botFaults, restarts>>

OperationDone(b) ==
    /\ spawner[b] = "waiting"
    /\ spawner' = [spawner EXCEPT ![b] = "recording"]
    /\ UNCHANGED <<row, message, registered, client, vm, ready, reaper, stopper,
                   route, called, lost, botFaults, restarts>>

Register(b) ==
    /\ spawner[b] = "recording"
    /\ registered' = [registered EXCEPT ![b] = TRUE]
    /\ client' = [client EXCEPT ![b] = "null"]
    /\ spawner' = [spawner EXCEPT ![b] = "registered"]
    /\ UNCHANGED <<row, message, vm, ready, reaper, stopper, route, called, lost,
                   botFaults, restarts>>

\* The containerId update throws: spawnBot ends there.
RecordFails(b) ==
    /\ spawner[b] = "recording"
    /\ BotFault
    /\ spawner' = [spawner EXCEPT ![b] = "failed"]
    /\ lost' = [lost EXCEPT ![b] = @ \/ vm[b] = "running"]
    /\ UNCHANGED <<row, message, registered, client, vm, ready, reaper, stopper,
                   route, called, restarts>>

-------------------------------------------------------------------------------
(* POST /bots/:id/ready, from the startup script of a running VM.              *)

ReadyCall(b, c) ==
    /\ vm[b] = "running" /\ ready[<<b, c>>] = "none"
    /\ called' = [called EXCEPT ![b] = TRUE]
    /\ ready' = [ready EXCEPT ![<<b, c>>] =
                    IF registered[b] /\ client[b] = "null" THEN "connecting" ELSE "done"]
    /\ UNCHANGED <<row, message, registered, client, vm, spawner, reaper, stopper,
                   route, lost, botFaults, restarts>>

\* connect() returned: the handler still holds the entry it looked up, whether
\* or not the registry does.
Connected(b, c) ==
    /\ ready[<<b, c>>] = "connecting" /\ vm[b] = "running"
    /\ client' = [client EXCEPT ![b] = "connected"]
    /\ ready' = [ready EXCEPT ![<<b, c>>] = "marking"]
    /\ UNCHANGED <<row, message, registered, vm, spawner, reaper, stopper, route,
                   called, lost, botFaults, restarts>>

MarkIdle(b, c) ==
    /\ ready[<<b, c>>] = "marking"
    /\ WriteStatus(b, "idle")
    /\ ready' = [ready EXCEPT ![<<b, c>>] = "done"]
    /\ UNCHANGED <<registered, client, vm, spawner, reaper, stopper, route, called,
                   lost, botFaults, restarts>>

ConnectFails(b, c) ==
    /\ ready[<<b, c>>] = "connecting"
    /\ \/ vm[b] = "running" /\ BotFault
       \/ vm[b] # "running" /\ UNCHANGED botFaults
    /\ ready' = [ready EXCEPT ![<<b, c>>] = "refused"]
    /\ UNCHANGED <<row, message, registered, client, vm, spawner, reaper, stopper,
                   route, called, lost, restarts>>

MarkRefused(b, c) ==
    /\ ready[<<b, c>>] = "refused"
    /\ WriteRow(b, "failed", "connect")
    /\ ready' = [ready EXCEPT ![<<b, c>>] = "done"]
    /\ UNCHANGED <<registered, client, vm, spawner, reaper, stopper, route, called,
                   lost, botFaults, restarts>>

\* The startup script failed and says so instead.
ReportCall(b, c) ==
    /\ vm[b] = "running" /\ ready[<<b, c>>] = "none"
    /\ BotFault
    /\ called' = [called EXCEPT ![b] = TRUE]
    /\ ready' = [ready EXCEPT ![<<b, c>>] = "reporting"]
    /\ UNCHANGED <<row, message, registered, client, vm, spawner, reaper, stopper,
                   route, lost, restarts>>

MarkReported(b, c) ==
    /\ ready[<<b, c>>] = "reporting"
    /\ WriteRow(b, "failed", "startup")
    /\ ready' = [ready EXCEPT ![<<b, c>>] = "removing"]
    /\ UNCHANGED <<registered, client, vm, spawner, reaper, stopper, route, called,
                   lost, botFaults, restarts>>

\* Mutant of RemoveReported: the instance of a failed startup is left running.
RemoveReportedOnly(b, c) ==
    /\ ready[<<b, c>>] = "removing"
    /\ registered' = [registered EXCEPT ![b] = FALSE]
    /\ ready' = [ready EXCEPT ![<<b, c>>] = "done"]
    /\ UNCHANGED <<row, message, client, vm, spawner, reaper, stopper, route, called,
                   lost, botFaults, restarts>>

RemoveReported(b, c) ==
    /\ ready[<<b, c>>] = "removing"
    /\ IF registered[b] THEN Terminate(b) ELSE UNCHANGED vm
    /\ registered' = [registered EXCEPT ![b] = FALSE]
    /\ ready' = [ready EXCEPT ![<<b, c>>] = "done"]
    /\ UNCHANGED <<row, message, client, spawner, reaper, stopper, route, called,
                   lost, botFaults, restarts>>

-------------------------------------------------------------------------------
(* The spawn timeout checker: it selects an entry without a client, writes     *)
(* "failed", and calls stopBot without its own write.                          *)

TimeoutSeen(b) ==
    /\ reaper[b] = "none"
    /\ registered[b] /\ client[b] = "null"
    /\ reaper' = [reaper EXCEPT ![b] = "failing"]
    /\ UNCHANGED <<row, message, registered, client, vm, spawner, ready, stopper,
                   route, called, lost, botFaults, restarts>>

TimeoutWrite(b) ==
    /\ reaper[b] = "failing"
    /\ WriteRow(b, "failed", "timeout")
    /\ reaper' = [reaper EXCEPT ![b] = "stopping"]
    /\ UNCHANGED <<registered, client, vm, spawner, ready, stopper, route, called,
                   lost, botFaults, restarts>>

\* Mutant of TimeoutStop: the instance is deleted, the entry stays.
TimeoutStopKeeps(b) ==
    /\ reaper[b] = "stopping"
    /\ Terminate(b)
    /\ reaper' = [reaper EXCEPT ![b] = "none"]
    /\ UNCHANGED <<row, message, registered, client, spawner, ready, stopper, route,
                   called, lost, botFaults, restarts>>

TimeoutStop(b) ==
    /\ reaper[b] = "stopping"
    /\ IF registered[b]
       THEN /\ Terminate(b)
            /\ client' = [client EXCEPT ![b] =
                             IF @ = "connected" THEN "disconnected" ELSE @]
       ELSE UNCHANGED <<vm, client>>
    /\ registered' = [registered EXCEPT ![b] = FALSE]
    /\ reaper' = [reaper EXCEPT ![b] = "none"]
    /\ UNCHANGED <<row, message, spawner, ready, stopper, route, called, lost,
                   botFaults, restarts>>

-------------------------------------------------------------------------------
(* stopBot for another caller, and the stop route that calls it for every      *)
(* entry of the execution and then writes the rows that are left.              *)

CanStop(b, s) == registered[b] /\ stopper[<<b, s>>] = "none"

Disconnected(B) ==
    [b \in Bots |-> IF b \in B /\ client[b] = "connected" THEN "disconnected"
                    ELSE client[b]]

StopBegin(b, s) ==
    /\ s # StopRoute /\ CanStop(b, s)
    /\ Terminate(b)
    /\ client' = Disconnected({b})
    /\ stopper' = [stopper EXCEPT ![<<b, s>>] = "writing"]
    /\ UNCHANGED <<row, message, registered, spawner, ready, reaper, route, called,
                   lost, botFaults, restarts>>

StopWrite(b, s) ==
    /\ stopper[<<b, s>>] = "writing"
    /\ WriteStatus(b, "stopped")
    /\ stopper' = [stopper EXCEPT ![<<b, s>>] = "leaving"]
    /\ UNCHANGED <<registered, client, vm, spawner, ready, reaper, route, called,
                   lost, botFaults, restarts>>

StopWriteFails(b, s) ==
    /\ stopper[<<b, s>>] = "writing"
    /\ BotFault
    /\ stopper' = [stopper EXCEPT ![<<b, s>>] = "none"]
    /\ UNCHANGED <<row, message, registered, client, vm, spawner, ready, reaper,
                   route, called, lost, restarts>>

StopLeave(b, s) ==
    /\ stopper[<<b, s>>] = "leaving"
    /\ registered' = [registered EXCEPT ![b] = FALSE]
    /\ stopper' = [stopper EXCEPT ![<<b, s>>] = "none"]
    /\ UNCHANGED <<row, message, client, vm, spawner, ready, reaper, route, called,
                   lost, botFaults, restarts>>

RouteStop ==
    /\ route = "none"
    /\ LET B == {b \in Bots : CanStop(b, StopRoute)}
       IN  /\ vm' = [b \in Bots |-> IF b \in B /\ vm[b] = "running" THEN "deleted"
                                    ELSE vm[b]]
           /\ client' = Disconnected(B)
           /\ stopper' = [s \in Bots \X Stoppers |->
                            IF s[1] \in B /\ s[2] = StopRoute THEN "writing" ELSE stopper[s]]
    /\ route' = "stopping"
    /\ UNCHANGED <<row, message, registered, spawner, ready, reaper, called, lost,
                   botFaults, restarts>>

\* Promise.allSettled over the stopBot calls has resolved.
RouteFailsafe ==
    /\ route = "stopping"
    /\ \A b \in Bots : stopper[<<b, StopRoute>>] = "none"
    /\ row' = [b \in Bots |-> IF row[b] \in FinalRow \cup {"none"} THEN row[b]
                              ELSE "stopped"]
    /\ route' = "failsafe"
    /\ UNCHANGED <<message, registered, client, vm, spawner, ready, reaper, stopper,
                   called, lost, botFaults, restarts>>

\* The handlers die with the process; rows and instances outlive it.
Restart ==
    /\ restarts < MaxRestarts
    /\ restarts' = restarts + 1
    /\ registered' = [b \in Bots |-> FALSE]
    /\ client' = [b \in Bots |-> "null"]
    /\ spawner' = [b \in Bots |-> IF spawner[b] = "none" THEN "none" ELSE "failed"]
    /\ ready' = [c \in Bots \X Calls |-> IF ready[c] = "none" THEN "none" ELSE "done"]
    /\ reaper' = [b \in Bots |-> "none"]
    /\ stopper' = [s \in Bots \X Stoppers |-> "none"]
    /\ route' = IF route = "stopping" THEN "none" ELSE route
    /\ lost' = [b \in Bots |-> lost[b] \/ vm[b] = "running"]
    /\ UNCHANGED <<row, message, vm, called, botFaults>>

Spawning == \E b \in Bots : \/ SpawnInsert(b) \/ Accepted(b) \/ LaunchFails(b)
                            \/ LaunchFailed(b) \/ OperationDone(b) \/ Register(b)
                            \/ RecordFails(b)
Readying == \E b \in Bots, c \in Calls :
                \/ ReadyCall(b, c) \/ Connected(b, c) \/ MarkIdle(b, c)
                \/ ConnectFails(b, c) \/ MarkRefused(b, c) \/ ReportCall(b, c)
                \/ MarkReported(b, c) \/ RemoveReported(b, c)
Reaping  == \E b \in Bots : TimeoutSeen(b) \/ TimeoutWrite(b) \/ TimeoutStop(b)
Stopping == \/ \E b \in Bots, s \in Stoppers : \/ StopBegin(b, s) \/ StopWrite(b, s)
                                               \/ StopWriteFails(b, s) \/ StopLeave(b, s)
            \/ RouteStop \/ RouteFailsafe

BotNext == Spawning \/ Readying \/ Reaping \/ Stopping \/ Restart

\* The timeout checker runs on an interval; a handler that was entered goes on.
BotFairness ==
    /\ \A b \in Bots : /\ WF_botVars(TimeoutSeen(b)) /\ WF_botVars(TimeoutWrite(b))
                       /\ WF_botVars(TimeoutStop(b))
                       /\ WF_botVars(\E s \in Stoppers : StopLeave(b, s))

BotSpec == BotInit /\ [][BotNext]_botVars
BotLiveSpec == BotSpec /\ BotFairness

-------------------------------------------------------------------------------
(* Properties. *)

\* A running instance that no handler in flight and no entry of the registry
\* leads to was lost by a restart, or by a launch whose outcome never came back:
\* no order of ready calls, reports, timeouts and stops forgets an entry before
\* it has deleted the instance.
RunningVmAccounted ==
    \A b \in Bots : vm[b] = "running" =>
        \/ registered[b] \/ lost[b]
        \/ spawner[b] \in {"waiting", "recording"}

\* The registry does not keep an entry that never gets a client: it is connected
\* or the timeout checker removes it, whatever else happens to it.
EntryResolves ==
    \A b \in Bots : (registered[b] /\ client[b] = "null")
                        ~> (~registered[b] \/ client[b] # "null")
===============================================================================
