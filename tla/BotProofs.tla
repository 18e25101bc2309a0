------------------------------- MODULE BotProofs -------------------------------
(* The bots and the jobs they serve, for any number of bots, callers, jobs,    *)
(* faults, restarts and stalls: a running instance is accounted for, a bot     *)
(* serves one run of a job at a time, and no completion is missed.  At the end *)
(* the components of a run are put together.                                   *)
EXTENDS MCRuntime, RunProofs

-------------------------------------------------------------------------------
(* BotLifecycle. *)

\* An entry comes from a spawnBot that has ended well, and a stopBot begins with an
\* entry and deletes its instance first.
EntriesSpawned == \A b \in Bots : registered[b] => spawner[b] = "registered"
StopsDelete ==
    \A b \in Bots, s \in Stoppers :
        stopper[<<b, s>>] # "none"
      => vm[b] # "running" /\ spawner[b] \notin {"none", "launching"}

VmInv == BotTypeOK /\ EntriesSpawned /\ StopsDelete /\ RunningVmAccounted

LEMMA BotTypeInit == BotInit => BotTypeOK
  BY BotBounds DEF BotInit, BotTypeOK

LEMMA SpawningTypes == BotTypeOK /\ Spawning => BotTypeOK'
  <1> USE BotBounds DEF BotTypeOK, FinalRow, WriteRow, WriteStatus, BotFault
  <1> SUFFICES ASSUME BotTypeOK, Spawning PROVE BotTypeOK'
    OBVIOUS
  <1>1. ASSUME NEW b \in Bots, SpawnInsert(b) \/ Accepted(b) PROVE BotTypeOK'
    <2>1. CASE SpawnInsert(b)
      BY <2>1 DEF SpawnInsert
    <2>2. CASE Accepted(b)
      BY <2>2 DEF Accepted
    <2> QED
      BY <1>1, <2>1, <2>2
  <1>2. ASSUME NEW b \in Bots, LaunchFails(b) PROVE BotTypeOK'
    BY <1>2 DEF LaunchFails
  <1>3. ASSUME NEW b \in Bots, LaunchFailed(b) \/ OperationDone(b) PROVE BotTypeOK'
    <2>1. CASE LaunchFailed(b)
      BY <2>1 DEF LaunchFailed
    <2>2. CASE OperationDone(b)
      BY <2>2 DEF OperationDone
    <2> QED
      BY <1>3, <2>1, <2>2
  <1>4. ASSUME NEW b \in Bots, Register(b) PROVE BotTypeOK'
    BY <1>4 DEF Register
  <1>5. ASSUME NEW b \in Bots, RecordFails(b) PROVE BotTypeOK'
    BY <1>5 DEF RecordFails
  <1> QED
    BY <1>1, <1>2, <1>3, <1>4, <1>5 DEF Spawning

LEMMA ReadyingTypes == BotTypeOK /\ Readying => BotTypeOK'
  <1> USE BotBounds DEF BotTypeOK, FinalRow, WriteRow, WriteStatus, BotFault, Terminate
  <1> SUFFICES ASSUME BotTypeOK, Readying PROVE BotTypeOK'
    OBVIOUS
  <1>1. ASSUME NEW b \in Bots, NEW c \in Calls, ReadyCall(b, c) PROVE BotTypeOK'
    BY <1>1 DEF ReadyCall
  <1>2. ASSUME NEW b \in Bots, NEW c \in Calls, Connected(b, c) \/ MarkIdle(b, c)
        PROVE  BotTypeOK'
    <2>1. CASE Connected(b, c)
      BY <2>1 DEF Connected
    <2>2. CASE MarkIdle(b, c)
      BY <2>2 DEF MarkIdle
    <2> QED
      BY <1>2, <2>1, <2>2
  <1>3. ASSUME NEW b \in Bots, NEW c \in Calls, ConnectFails(b, c) \/ MarkRefused(b, c)
        PROVE  BotTypeOK'
    <2>1. CASE ConnectFails(b, c)
      BY <2>1 DEF ConnectFails
    <2>2. CASE MarkRefused(b, c)
      BY <2>2 DEF MarkRefused
    <2> QED
      BY <1>3, <2>1, <2>2
  <1>4. ASSUME NEW b \in Bots, NEW c \in Calls, ReportCall(b, c) \/ MarkReported(b, c)
        PROVE  BotTypeOK'
    <2>1. CASE ReportCall(b, c)
      BY <2>1 DEF ReportCall
    <2>2. CASE MarkReported(b, c)
      BY <2>2 DEF MarkReported
    <2> QED
      BY <1>4, <2>1, <2>2
  <1>5. ASSUME NEW b \in Bots, NEW c \in Calls, RemoveReported(b, c) PROVE BotTypeOK'
    BY <1>5 DEF RemoveReported
  <1> QED
    BY <1>1, <1>2, <1>3, <1>4, <1>5 DEF Readying

LEMMA StoppingTypes ==
    BotTypeOK /\ (Reaping \/ Stopping \/ Restart \/ UNCHANGED botVars) => BotTypeOK'
  <1> USE BotBounds DEF BotTypeOK, FinalRow, WriteRow, WriteStatus, BotFault, Terminate
  <1> SUFFICES ASSUME BotTypeOK, Reaping \/ Stopping \/ Restart \/ UNCHANGED botVars
               PROVE  BotTypeOK'
    OBVIOUS
  <1>1. ASSUME NEW b \in Bots, TimeoutSeen(b) \/ TimeoutWrite(b) PROVE BotTypeOK'
    <2>1. CASE TimeoutSeen(b)
      BY <2>1 DEF TimeoutSeen
    <2>2. CASE TimeoutWrite(b)
      BY <2>2 DEF TimeoutWrite
    <2> QED
      BY <1>1, <2>1, <2>2
  <1>2. ASSUME NEW b \in Bots, TimeoutStop(b) PROVE BotTypeOK'
    BY <1>2 DEF TimeoutStop
  <1>3. ASSUME NEW b \in Bots, NEW s \in Stoppers, StopBegin(b, s) PROVE BotTypeOK'
    BY <1>3 DEF StopBegin, Disconnected
  <1>4. ASSUME NEW b \in Bots, NEW s \in Stoppers, StopWrite(b, s) \/ StopLeave(b, s)
        PROVE  BotTypeOK'
    <2>1. CASE StopWrite(b, s)
      BY <2>1 DEF StopWrite
    <2>2. CASE StopLeave(b, s)
      BY <2>2 DEF StopLeave
    <2> QED
      BY <1>4, <2>1, <2>2
  <1>5. ASSUME NEW b \in Bots, NEW s \in Stoppers, StopWriteFails(b, s) PROVE BotTypeOK'
    BY <1>5 DEF StopWriteFails
  <1>6. CASE RouteStop
    BY <1>6 DEF RouteStop, Disconnected
  <1>7. CASE RouteFailsafe
    BY <1>7 DEF RouteFailsafe
  <1>8. CASE Restart
    BY <1>8 DEF Restart
  <1>9. CASE UNCHANGED botVars
    BY <1>9 DEF botVars, handlerVars
  <1> QED
    BY <1>1, <1>2, <1>3, <1>4, <1>5, <1>6, <1>7, <1>8, <1>9 DEF Reaping, Stopping

LEMMA BotTypeStep == BotTypeOK /\ [BotNext]_botVars => BotTypeOK'
  BY SpawningTypes, ReadyingTypes, StoppingTypes DEF BotNext

\* What neither launches nor deletes, registers nor forgets disturbs nothing.
LEMMA VmQuiet ==
    ASSUME VmInv, UNCHANGED <<vm, registered, spawner, stopper, lost>>
    PROVE  EntriesSpawned' /\ StopsDelete' /\ RunningVmAccounted'
  BY DEF VmInv, EntriesSpawned, StopsDelete, RunningVmAccounted

LEMMA VmSpawning ==
    VmInv /\ Spawning => EntriesSpawned' /\ StopsDelete' /\ RunningVmAccounted'
  <1> USE DEF VmInv, BotTypeOK, EntriesSpawned, StopsDelete, RunningVmAccounted
  <1> DEFINE Goal == EntriesSpawned' /\ StopsDelete' /\ RunningVmAccounted'
  <1> SUFFICES ASSUME VmInv, Spawning PROVE Goal
    OBVIOUS
  <1>1. ASSUME NEW b \in Bots, SpawnInsert(b) PROVE Goal
    BY <1>1 DEF SpawnInsert
  <1>2. ASSUME NEW b \in Bots, Accepted(b) PROVE Goal
    BY <1>2 DEF Accepted
  <1>3. ASSUME NEW b \in Bots, LaunchFails(b) PROVE Goal
    <2>1. /\ vm[b] = "running" => lost'[b]
          /\ \A a \in Bots : lost[a] => lost'[a]
      BY <1>3 DEF LaunchFails
    <2>2. /\ spawner'[b] \in {"failing", "failed"} /\ ~registered[b]
          /\ \A a \in Bots \ {b} : spawner'[a] = spawner[a]
          /\ UNCHANGED <<vm, registered, stopper>>
      BY <1>3 DEF LaunchFails
    <2>3. EntriesSpawned' /\ StopsDelete'
      BY <2>2
    <2>4. RunningVmAccounted'
      BY <2>1, <2>2
    <2> QED
      BY <2>3, <2>4
  <1>4. ASSUME NEW b \in Bots, LaunchFailed(b) PROVE Goal
    BY <1>4 DEF LaunchFailed
  <1>5. ASSUME NEW b \in Bots, OperationDone(b) PROVE Goal
    BY <1>5 DEF OperationDone
  <1>6. ASSUME NEW b \in Bots, Register(b) PROVE Goal
    BY <1>6 DEF Register
  <1>7. ASSUME NEW b \in Bots, RecordFails(b) PROVE Goal
    <2>1. /\ vm[b] = "running" => lost'[b]
          /\ \A a \in Bots : lost[a] => lost'[a]
      <3>1. /\ lost \in [Bots -> BOOLEAN]
            /\ lost' = [lost EXCEPT ![b] = lost[b] \/ vm[b] = "running"]
        BY <1>7 DEF RecordFails
      <3> QED
        BY <3>1, Zenon
    <2>2. /\ spawner'[b] \in {"failing", "failed"} /\ ~registered[b]
          /\ \A a \in Bots \ {b} : spawner'[a] = spawner[a]
          /\ UNCHANGED <<vm, registered, stopper>>
      BY <1>7 DEF RecordFails
    <2>3. EntriesSpawned' /\ StopsDelete'
      BY <2>2
    <2>4. RunningVmAccounted'
      BY <2>1, <2>2
    <2> QED
      BY <2>3, <2>4
  <1> QED
    BY <1>1, <1>2, <1>3, <1>4, <1>5, <1>6, <1>7 DEF Spawning

LEMMA VmReadying ==
    VmInv /\ Readying => EntriesSpawned' /\ StopsDelete' /\ RunningVmAccounted'
  <1> SUFFICES ASSUME VmInv, NEW b \in Bots, NEW c \in Calls,
                      \/ ReadyCall(b, c) \/ Connected(b, c) \/ MarkIdle(b, c)
                      \/ ConnectFails(b, c) \/ MarkRefused(b, c) \/ ReportCall(b, c)
                      \/ MarkReported(b, c) \/ RemoveReported(b, c)
               PROVE  EntriesSpawned' /\ StopsDelete' /\ RunningVmAccounted'
    BY DEF Readying
  <1>1. CASE ~RemoveReported(b, c)
    BY <1>1, VmQuiet DEF ReadyCall, Connected, MarkIdle, ConnectFails, MarkRefused,
       ReportCall, MarkReported
  <1>2. CASE RemoveReported(b, c)
    BY <1>2 DEF RemoveReported, Terminate, VmInv, BotTypeOK, EntriesSpawned, StopsDelete,
       RunningVmAccounted
  <1> QED
    BY <1>1, <1>2

LEMMA VmStopping ==
    VmInv /\ (Reaping \/ Stopping \/ Restart \/ UNCHANGED botVars)
      => EntriesSpawned' /\ StopsDelete' /\ RunningVmAccounted'
  <1> DEFINE Goal == EntriesSpawned' /\ StopsDelete' /\ RunningVmAccounted'
  <1> SUFFICES ASSUME VmInv, Reaping \/ Stopping \/ Restart \/ UNCHANGED botVars
               PROVE  Goal
    OBVIOUS
  <1>1. ASSUME NEW b \in Bots, TimeoutSeen(b) \/ TimeoutWrite(b) PROVE Goal
    BY <1>1, VmQuiet DEF TimeoutSeen, TimeoutWrite
  <1>2. ASSUME RouteFailsafe \/ UNCHANGED botVars PROVE Goal
    BY <1>2, VmQuiet DEF RouteFailsafe, botVars, handlerVars
  <1> USE DEF VmInv, BotTypeOK, EntriesSpawned, StopsDelete, RunningVmAccounted, Terminate
  <1>3. ASSUME NEW b \in Bots, TimeoutStop(b) PROVE Goal
    BY <1>3 DEF TimeoutStop
  <1>4. ASSUME NEW b \in Bots, NEW s \in Stoppers, StopBegin(b, s) PROVE Goal
    BY <1>4 DEF StopBegin, CanStop
  <1>5. ASSUME NEW b \in Bots, NEW s \in Stoppers, StopWrite(b, s) PROVE Goal
    BY <1>5 DEF StopWrite
  <1>6. ASSUME NEW b \in Bots, NEW s \in Stoppers, StopWriteFails(b, s) PROVE Goal
    BY <1>6 DEF StopWriteFails
  <1>7. ASSUME NEW b \in Bots, NEW s \in Stoppers, StopLeave(b, s) PROVE Goal
    BY <1>7 DEF StopLeave
  <1>8. CASE RouteStop
    BY <1>8 DEF RouteStop, CanStop
  <1>9. CASE Restart
    BY <1>9 DEF Restart
  <1> QED
    BY <1>1, <1>2, <1>3, <1>4, <1>5, <1>6, <1>7, <1>8, <1>9 DEF Reaping, Stopping

\* bot-orchestrator.ts and routes/bots.ts forget a bot only after its instance has been
\* deleted: what runs is in the registry, being launched, or lost to a restart or to a
\* launch whose outcome never came back.
THEOREM VmsAccounted == BotSpec => []RunningVmAccounted
  <1>1. BotInit => VmInv
    <2>1. BotInit => EntriesSpawned /\ StopsDelete /\ RunningVmAccounted
      BY DEF BotInit, EntriesSpawned, StopsDelete, RunningVmAccounted
    <2> QED
      BY <2>1, BotTypeInit DEF VmInv
  <1>2. VmInv /\ [BotNext]_botVars => VmInv'
    <2>1. VmInv /\ [BotNext]_botVars => BotTypeOK'
      BY BotTypeStep DEF VmInv
    <2> QED
      BY <2>1, VmSpawning, VmReadying, VmStopping DEF VmInv, BotNext
  <1>3. VmInv => RunningVmAccounted
    BY DEF VmInv
  <1> QED
    BY <1>1, <1>2, <1>3, PTL DEF BotSpec

-------------------------------------------------------------------------------
(* TaskDispatch. *)

\* A run that has not been picked has not begun.
FreshRuns == \A r \in Runs : used[r[1]] < r[2] => at[r] = "none"

\* From acquireIdleBot to the finally block a run is written into the entry of its bot.
HoldersKnown ==
    \A r \in Runs : at[r] \in Holding => server[r] \in Servers /\ holder[server[r]] = r

\* Once all tasks are terminal some run is still to ask whether the execution is over, or
\* the question is under way, or it has been answered or lost.
CompletionSeen ==
    (\A j \in Jobs : task[j] \in Terminal)
      => \/ over \/ silenced \/ checks > 0
         \/ \E r \in Runs : at[r] \in {"reporting", "failing"}

DispatchInv == DispatchTypeOK /\ FreshRuns /\ HoldersKnown /\ CompletionSeen

LEMMA RunFacts ==
    /\ \A r \in Runs : r[1] \in Jobs /\ r[2] \in 1..(Attempts + 1) /\ r = <<r[1], r[2]>>
    /\ \A j \in Jobs, n \in 1..(Attempts + 1) : <<j, n>> \in Runs
    /\ Nobody \notin Runs /\ Nobody \notin Servers
  BY NobodyAssumption, DispatchBounds DEF Runs

\* The run that is picked is a new one.
LEMMA PickFacts ==
    ASSUME DispatchTypeOK, NEW j \in Jobs, Pick(j)
    PROVE  <<j, used[j] + 1>> \in Runs
  BY RunFacts, DispatchBounds DEF DispatchTypeOK, Pick

LEMMA DispatchInitially == DispatchInit => DispatchInv
  <1> SUFFICES ASSUME DispatchInit PROVE DispatchInv
    OBVIOUS
  <1>1. DispatchTypeOK
    <2>1. /\ task \in [Jobs -> {"pending", "claimed"} \cup Terminal]
          /\ result \in [Jobs -> Jobs \cup {Nobody}]
          /\ queued \in [Jobs -> BOOLEAN]
          /\ used \in [Jobs -> Nat] /\ thrown \in [Jobs -> Nat]
      BY DEF DispatchInit
    <2>2. /\ at \in [Runs -> {"none", "polling", "ended"} \cup Holding]
          /\ server \in [Runs -> Servers \cup {Nobody}]
          /\ text \in [Runs -> Jobs \cup {Nobody}]
          /\ holder \in [Servers -> Runs \cup {Nobody}]
      BY DEF DispatchInit
    <2>3. /\ online \in [Servers -> BOOLEAN] /\ requests \in [Servers -> SUBSET Runs]
          /\ checks \in Nat /\ over \in BOOLEAN /\ silenced \in BOOLEAN
      BY DEF DispatchInit
    <2>4. trouble \in 0..MaxTrouble /\ stalls \in 0..MaxStalls
      BY DispatchBounds DEF DispatchInit
    <2> QED
      BY <2>1, <2>2, <2>3, <2>4 DEF DispatchTypeOK
  <1>2. FreshRuns /\ HoldersKnown
    BY DEF DispatchInit, FreshRuns, HoldersKnown, Holding
  <1>3. CompletionSeen
    BY JobsExist DEF DispatchInit, CompletionSeen, Terminal
  <1> QED
    BY <1>1, <1>2, <1>3 DEF DispatchInv

LEMMA DispatchTypeStep ==
    DispatchTypeOK /\ [DispatchNext]_dispatchVars => DispatchTypeOK'
  <1> SUFFICES ASSUME DispatchTypeOK, [DispatchNext]_dispatchVars PROVE DispatchTypeOK'
    OBVIOUS
  <1> USE RunFacts, DispatchBounds DEF DispatchTypeOK, Trouble, Throws, Release, runVars,
          serverVars, Holding, Terminal
  <1>1. ASSUME NEW j \in Jobs, Pick(j) PROVE DispatchTypeOK'
    BY <1>1, PickFacts DEF Pick
  <1>2. ASSUME NEW r \in Runs, NEW b \in Servers, Acquire(r, b) PROVE DispatchTypeOK'
    BY <1>2 DEF Acquire
  <1>3. ASSUME NEW r \in Runs, WaitTimeout(r) PROVE DispatchTypeOK'
    BY <1>3 DEF WaitTimeout
  <1>4. ASSUME NEW r \in Runs, Claim(r) PROVE DispatchTypeOK'
    BY <1>4 DEF Claim
  <1>5. ASSUME NEW r \in Runs, ClaimThrows(r) PROVE DispatchTypeOK'
    BY <1>5 DEF ClaimThrows
  <1>6. ASSUME NEW r \in Runs, Send(r) PROVE DispatchTypeOK'
    <2>1. /\ requests' = [requests EXCEPT ![server[r]] = @ \cup {r}]
          \/ requests' = requests
      BY <1>6 DEF Send
    <2>2. requests' \in [Servers -> SUBSET Runs]
      BY <2>1
    <2>3. at' \in [Runs -> {"none", "polling", "ended"} \cup Holding]
      <3>1. at' \in {[at EXCEPT ![r] = "awaiting"], [at EXCEPT ![r] = "failing"]}
        BY <1>6 DEF Send
      <3> QED
        BY <3>1
    <2> QED
      BY <1>6, <2>2, <2>3 DEF Send
  <1>7. ASSUME NEW r \in Runs, TaskTimeout(r) PROVE DispatchTypeOK'
    BY <1>7 DEF TaskTimeout
  <1>8. ASSUME NEW r \in Runs, Store(r) PROVE DispatchTypeOK'
    BY <1>8 DEF Store
  <1>9. ASSUME NEW r \in Runs, StoreThrows(r) PROVE DispatchTypeOK'
    BY <1>9 DEF StoreThrows
  <1>10. ASSUME NEW r \in Runs, Report(r) PROVE DispatchTypeOK'
    <2>1. holder' \in [Servers -> Runs \cup {Nobody}]
      BY <1>10 DEF Report
    <2>2. checks' \in Nat /\ task' \in [Jobs -> {"pending", "claimed"} \cup Terminal]
      BY <1>10 DEF Report
    <2> QED
      BY <1>10, <2>1, <2>2 DEF Report
  <1>11. ASSUME NEW r \in Runs, Fail(r) PROVE DispatchTypeOK'
    <2>1. holder' \in [Servers -> Runs \cup {Nobody}]
      BY <1>11 DEF Fail
    <2>2. checks' \in Nat /\ task' \in [Jobs -> {"pending", "claimed"} \cup Terminal]
      BY <1>11 DEF Fail
    <2> QED
      BY <1>11, <2>1, <2>2 DEF Fail
  <1>12. ASSUME NEW r \in Runs, FailThrows(r) PROVE DispatchTypeOK'
    <2>1. holder' \in [Servers -> Runs \cup {Nobody}]
      BY <1>12 DEF FailThrows
    <2>2. checks' \in Nat /\ task' \in [Jobs -> {"pending", "claimed"} \cup Terminal]
      BY <1>12 DEF FailThrows
    <2> QED
      BY <1>12, <2>1, <2>2 DEF FailThrows
  <1>13. ASSUME NEW j \in Jobs, Stall(j) PROVE DispatchTypeOK'
    BY <1>13 DEF Stall
  <1>14. ASSUME NEW b \in Servers, Disconnect(b) PROVE DispatchTypeOK'
    BY <1>14 DEF Disconnect
  <1>15. ASSUME NEW b \in Servers, NEW q \in requests[b], RequestDone(b, q)
         PROVE  DispatchTypeOK'
    BY <1>15 DEF RequestDone
  <1>16. ASSUME NEW b \in Servers, NEW q \in requests[b], RequestFails(b, q)
         PROVE  DispatchTypeOK'
    BY <1>16 DEF RequestFails
  <1>17. CASE Check \/ CheckThrows
    <2>1. checks' \in Nat
      BY <1>17 DEF Check, CheckThrows
    <2>2. over' \in BOOLEAN
      BY <1>17 DEF Check, CheckThrows
    <2>3. CASE Check
      BY <2>1, <2>2, <2>3 DEF Check
    <2>4. CASE CheckThrows
      BY <2>1, <2>2, <2>4 DEF CheckThrows
    <2> QED
      BY <1>17, <2>3, <2>4
  <1>18. CASE UNCHANGED dispatchVars
    BY <1>18 DEF dispatchVars
  <1> QED
    BY <1>1, <1>2, <1>3, <1>4, <1>5, <1>6, <1>7, <1>8, <1>9, <1>10, <1>11, <1>12, <1>13,
       <1>14, <1>15, <1>16, <1>17, <1>18
       DEF DispatchNext, RunNext

\* A run only moves on after it has been picked.
LEMMA FreshStep ==
    DispatchTypeOK /\ FreshRuns /\ [DispatchNext]_dispatchVars => FreshRuns'
  <1> SUFFICES ASSUME DispatchTypeOK, FreshRuns, [DispatchNext]_dispatchVars PROVE FreshRuns'
    OBVIOUS
  <1> USE RunFacts DEF DispatchTypeOK, FreshRuns, Answered, Throws, Release, runVars,
          serverVars
  <1>1. ASSUME NEW j \in Jobs, Pick(j) PROVE FreshRuns'
    BY <1>1, PickFacts DEF Pick
  <1>2. ASSUME NEW r \in Runs, NEW b \in Servers, Acquire(r, b) PROVE FreshRuns'
    BY <1>2 DEF Acquire
  <1>3. ASSUME NEW r \in Runs, WaitTimeout(r) PROVE FreshRuns'
    BY <1>3 DEF WaitTimeout
  <1>4. ASSUME NEW r \in Runs, Claim(r) PROVE FreshRuns'
    BY <1>4 DEF Claim
  <1>5. ASSUME NEW r \in Runs, ClaimThrows(r) PROVE FreshRuns'
    BY <1>5 DEF ClaimThrows
  <1>6. ASSUME NEW r \in Runs, Send(r) PROVE FreshRuns'
    BY <1>6 DEF Send
  <1>7. ASSUME NEW r \in Runs, TaskTimeout(r) PROVE FreshRuns'
    BY <1>7 DEF TaskTimeout
  <1>8. ASSUME NEW r \in Runs, Store(r) PROVE FreshRuns'
    BY <1>8 DEF Store
  <1>9. ASSUME NEW r \in Runs, StoreThrows(r) PROVE FreshRuns'
    BY <1>9 DEF StoreThrows
  <1>10. ASSUME NEW r \in Runs, Report(r) PROVE FreshRuns'
    BY <1>10 DEF Report
  <1>11. ASSUME NEW r \in Runs, Fail(r) PROVE FreshRuns'
    BY <1>11 DEF Fail
  <1>12. ASSUME NEW r \in Runs, FailThrows(r) PROVE FreshRuns'
    BY <1>12 DEF FailThrows
  <1>13. ASSUME NEW j \in Jobs, Stall(j) PROVE FreshRuns'
    BY <1>13 DEF Stall
  <1>14. ASSUME NEW b \in Servers, Disconnect(b) PROVE FreshRuns'
    BY <1>14 DEF Disconnect
  <1>15. ASSUME NEW b \in Servers, NEW q \in requests[b], RequestDone(b, q) PROVE FreshRuns'
    BY <1>15 DEF RequestDone
  <1>16. ASSUME NEW b \in Servers, NEW q \in requests[b], RequestFails(b, q) PROVE FreshRuns'
    BY <1>16 DEF RequestFails
  <1>17. CASE Check
    BY <1>17 DEF Check
  <1>18. CASE CheckThrows
    BY <1>18 DEF CheckThrows
  <1>19. CASE UNCHANGED dispatchVars
    BY <1>19 DEF dispatchVars
  <1> QED
    BY <1>1, <1>2, <1>3, <1>4, <1>5, <1>6, <1>7, <1>8, <1>9, <1>10, <1>11, <1>12, <1>13,
       <1>14, <1>15, <1>16, <1>17, <1>18, <1>19
       DEF DispatchNext, RunNext

\* A bot is given to a run when nobody has it, and taken back by that run alone.
LEMMA HoldersStep ==
    DispatchTypeOK /\ HoldersKnown /\ [DispatchNext]_dispatchVars => HoldersKnown'
  <1> SUFFICES ASSUME DispatchTypeOK, HoldersKnown, [DispatchNext]_dispatchVars
               PROVE  HoldersKnown'
    OBVIOUS
  <1> USE RunFacts DEF DispatchTypeOK, HoldersKnown, Holding, Idle, Answered, Throws,
          Release, runVars, serverVars
  <1>1. ASSUME NEW j \in Jobs, Pick(j) PROVE HoldersKnown'
    BY <1>1, PickFacts DEF Pick
  <1>2. ASSUME NEW r \in Runs, NEW b \in Servers, Acquire(r, b) PROVE HoldersKnown'
    BY <1>2 DEF Acquire
  <1>3. ASSUME NEW r \in Runs, WaitTimeout(r) PROVE HoldersKnown'
    BY <1>3 DEF WaitTimeout
  <1>4. ASSUME NEW r \in Runs, Claim(r) PROVE HoldersKnown'
    BY <1>4 DEF Claim
  <1>5. ASSUME NEW r \in Runs, ClaimThrows(r) PROVE HoldersKnown'
    BY <1>5 DEF ClaimThrows
  <1>6. ASSUME NEW r \in Runs, Send(r) PROVE HoldersKnown'
    BY <1>6 DEF Send
  <1>7. ASSUME NEW r \in Runs, TaskTimeout(r) PROVE HoldersKnown'
    BY <1>7 DEF TaskTimeout
  <1>8. ASSUME NEW r \in Runs, Store(r) PROVE HoldersKnown'
    BY <1>8 DEF Store
  <1>9. ASSUME NEW r \in Runs, StoreThrows(r) PROVE HoldersKnown'
    BY <1>9 DEF StoreThrows
  <1>10. ASSUME NEW r \in Runs, Report(r) PROVE HoldersKnown'
    BY <1>10 DEF Report
  <1>11. ASSUME NEW r \in Runs, Fail(r) PROVE HoldersKnown'
    BY <1>11 DEF Fail
  <1>12. ASSUME NEW r \in Runs, FailThrows(r) PROVE HoldersKnown'
    BY <1>12 DEF FailThrows
  <1>13. ASSUME NEW j \in Jobs, Stall(j) PROVE HoldersKnown'
    BY <1>13 DEF Stall
  <1>14. ASSUME NEW b \in Servers, Disconnect(b) PROVE HoldersKnown'
    BY <1>14 DEF Disconnect
  <1>15. ASSUME NEW b \in Servers, NEW q \in requests[b], RequestDone(b, q) PROVE HoldersKnown'
    BY <1>15 DEF RequestDone
  <1>16. ASSUME NEW b \in Servers, NEW q \in requests[b], RequestFails(b, q)
         PROVE  HoldersKnown'
    BY <1>16 DEF RequestFails
  <1>17. CASE Check
    BY <1>17 DEF Check
  <1>18. CASE CheckThrows
    BY <1>18 DEF CheckThrows
  <1>19. CASE UNCHANGED dispatchVars
    BY <1>19 DEF dispatchVars
  <1> QED
    BY <1>1, <1>2, <1>3, <1>4, <1>5, <1>6, <1>7, <1>8, <1>9, <1>10, <1>11, <1>12, <1>13,
       <1>14, <1>15, <1>16, <1>17, <1>18, <1>19
       DEF DispatchNext, RunNext

\* A task becomes terminal in a run that then reports, or in the step that asks.
LEMMA CompletionStep ==
    DispatchTypeOK /\ FreshRuns /\ CompletionSeen /\ [DispatchNext]_dispatchVars
      => CompletionSeen'
  <1> SUFFICES ASSUME DispatchTypeOK, FreshRuns, CompletionSeen, [DispatchNext]_dispatchVars
               PROVE  CompletionSeen'
    OBVIOUS
  <1> USE RunFacts DEF DispatchTypeOK, FreshRuns, CompletionSeen, Terminal, Answered,
          Throws, Release, runVars, serverVars
  <1>1. ASSUME NEW j \in Jobs, Pick(j) PROVE CompletionSeen'
    BY <1>1, PickFacts DEF Pick
  <1>2. ASSUME NEW r \in Runs, NEW b \in Servers, Acquire(r, b) PROVE CompletionSeen'
    BY <1>2 DEF Acquire
  <1>3. ASSUME NEW r \in Runs, WaitTimeout(r) PROVE CompletionSeen'
    BY <1>3 DEF WaitTimeout
  <1>4. ASSUME NEW r \in Runs, Claim(r) PROVE CompletionSeen'
    BY <1>4 DEF Claim
  <1>5. ASSUME NEW r \in Runs, ClaimThrows(r) PROVE CompletionSeen'
    BY <1>5 DEF ClaimThrows
  <1>6. ASSUME NEW r \in Runs, Send(r) PROVE CompletionSeen'
    BY <1>6 DEF Send
  <1>7. ASSUME NEW r \in Runs, TaskTimeout(r) PROVE CompletionSeen'
    BY <1>7 DEF TaskTimeout
  <1>8. ASSUME NEW r \in Runs, Store(r) PROVE CompletionSeen'
    BY <1>8 DEF Store
  <1>9. ASSUME NEW r \in Runs, StoreThrows(r) PROVE CompletionSeen'
    BY <1>9 DEF StoreThrows
  <1>10. ASSUME NEW r \in Runs, Report(r) PROVE CompletionSeen'
    BY <1>10 DEF Report
  <1>11. ASSUME NEW r \in Runs, Fail(r) PROVE CompletionSeen'
    BY <1>11 DEF Fail
  <1>12. ASSUME NEW r \in Runs, FailThrows(r) PROVE CompletionSeen'
    BY <1>12 DEF FailThrows
  <1>13. ASSUME NEW j \in Jobs, Stall(j) PROVE CompletionSeen'
    BY <1>13 DEF Stall
  <1>14. ASSUME NEW b \in Servers, Disconnect(b) PROVE CompletionSeen'
    BY <1>14 DEF Disconnect
  <1>15. ASSUME NEW b \in Servers, NEW q \in requests[b], RequestDone(b, q)
         PROVE  CompletionSeen'
    BY <1>15 DEF RequestDone
  <1>16. ASSUME NEW b \in Servers, NEW q \in requests[b], RequestFails(b, q)
         PROVE  CompletionSeen'
    BY <1>16 DEF RequestFails
  <1>17. CASE Check
    BY <1>17 DEF Check
  <1>18. CASE CheckThrows
    BY <1>18 DEF CheckThrows
  <1>19. CASE UNCHANGED dispatchVars
    BY <1>19 DEF dispatchVars
  <1> QED
    BY <1>1, <1>2, <1>3, <1>4, <1>5, <1>6, <1>7, <1>8, <1>9, <1>10, <1>11, <1>12, <1>13,
       <1>14, <1>15, <1>16, <1>17, <1>18, <1>19
       DEF DispatchNext, RunNext

\* openclaw-dispatcher.ts never gives one bot to two runs, of two jobs or of one job that
\* has stalled: what acquireIdleBot writes into the entry stays until its own finally block.
THEOREM BotsServeOne == DispatchSpec => []BotServesOne
  <1>1. DispatchTypeOK /\ HoldersKnown /\ [DispatchNext]_dispatchVars
          => (DispatchTypeOK /\ HoldersKnown)'
    BY DispatchTypeStep, HoldersStep
  <1>2. HoldersKnown => BotServesOne
    BY DEF HoldersKnown, BotServesOne
  <1> QED
    BY DispatchInitially, <1>1, <1>2, PTL DEF DispatchSpec, DispatchInv

\* Of the last tasks of an execution one asks for its completion after all are terminal,
\* in whatever order their runs end: completion-checker.ts misses it only when it throws.
THEOREM CompletionNotMissed == DispatchSpec => []NoMissedCompletion
  <1>1. DispatchInv /\ [DispatchNext]_dispatchVars => DispatchInv'
    BY DispatchTypeStep, FreshStep, HoldersStep, CompletionStep DEF DispatchInv
  <1>2. DispatchInv => NoMissedCompletion
    BY DEF DispatchInv, DispatchTypeOK, CompletionSeen, NoMissedCompletion
  <1> QED
    BY DispatchInitially, <1>1, <1>2, PTL DEF DispatchSpec

-------------------------------------------------------------------------------
(* The components next to each other. *)

\* Whichever component a behaviour lets run, each of them runs as its own specification
\* says or stands still: what is proved of one of them holds of the composition.
THEOREM RuntimeComposes ==
    RuntimeSpec => BotSpec /\ ExecSpec /\ DispatchSpec /\ CoSpec
  <1>1. RuntimeInit => BotInit /\ ExecInit /\ DispatchInit /\ CoInit
    BY DEF RuntimeInit
  <1>2. [RuntimeNext]_runtimeVars
          => /\ [BotNext]_botVars /\ [ExecNext]_execVars
             /\ [DispatchNext]_dispatchVars /\ [CoNext]_coVars
    BY DEF RuntimeNext, runtimeVars
  <1> QED
    BY <1>1, <1>2, PTL DEF RuntimeSpec, BotSpec, ExecSpec, DispatchSpec, CoSpec

\* Type correctness of the composition: of the bots with their instances and entries, the
\* execution with its graph and requests, the queue and its runs, and the coordination.
THEOREM RuntimeTyped == RuntimeSpec => []RuntimeTypeOK
  <1>1. BotSpec => []BotTypeOK
    BY BotTypeInit, BotTypeStep, PTL DEF BotSpec
  <1>2. DispatchSpec => []DispatchTypeOK
    <2>1. DispatchInit => DispatchTypeOK
      BY DispatchInitially DEF DispatchInv
    <2> QED
      BY <2>1, DispatchTypeStep, PTL DEF DispatchSpec
  <1>3. BotTypeOK /\ ExecTypeOK /\ DispatchTypeOK /\ CoTypeOK => RuntimeTypeOK
    BY DEF RuntimeTypeOK
  <1> QED
    BY <1>1, <1>2, <1>3, ExecutionTyped, CoordinationTyped, RuntimeComposes, PTL
===============================================================================
