----------------------------- MODULE TaskDispatch -----------------------------
(* The jobs of the claw-tasks queue and the bots that serve them.  A run of a  *)
(* job waits for an idle bot of the registry, claims its task, sends it to the *)
(* bot's gateway and waits for the callbacks of the bot's client; it stores    *)
(* the result or marks the task failed and asks whether the execution is over. *)
(* BullMQ runs a job again when a run throws, and once more when it stalls.    *)
(* The callbacks belong to the client and not to a request: whatever request   *)
(* ends on a bot answers the run that waits on that bot.                       *)
EXTENDS Naturals, FiniteSets

CONSTANTS
    Jobs,       \* the task rows that were enqueued, one job each
    Servers,    \* bots that have called /ready
    Attempts,   \* attempts of a task job
    Nobody,     \* a bot entry's currentJobId IS NULL, a run without a bot, no text
    MaxTrouble, \* bound: timeouts, failed requests and failed writes altogether
    MaxStalls   \* bound: stalled runs that go on beside their successor

ASSUME NobodyAssumption == Nobody \notin Servers \cup Jobs \cup (Jobs \X Nat)
ASSUME JobsExist == Jobs # {}
ASSUME DispatchBounds ==
    Attempts \in Nat \ {0} /\ MaxTrouble \in Nat /\ MaxStalls \in Nat

Runs == Jobs \X (1..(Attempts + 1))      \* the processor's calls: attempts and one stall

VARIABLES
    task,      \* tasks.status
    result,    \* tasks.result: the job whose request produced the text
    queued,    \* the job waits in the queue
    used,      \* processor calls of the job so far
    thrown,    \* attempts of the job that have failed
    at,        \* where each run is
    server,    \* the bot entry each run has acquired
    text,      \* the text a run was resolved with
    holder,    \* currentJobId of each bot entry
    online,    \* isConnected of each bot's client
    requests,  \* POST /v1/responses under way on each bot
    checks,    \* checkExecutionCompletion calls under way
    over,      \* the execution has become "completed"
    silenced,  \* history: a catch block or a completion check threw
    trouble, stalls

runVars == <<at, server, text>>
serverVars == <<holder, online, requests>>
dispatchVars == <<task, result, queued, used, thrown, runVars, serverVars, checks, over,
                  silenced, trouble, stalls>>

Terminal == {"completed", "failed"}
Holding  == {"claiming", "sending", "awaiting", "storing", "reporting", "failing"}

DispatchTypeOK ==
    /\ task \in [Jobs -> {"pending", "claimed"} \cup Terminal]
    /\ result \in [Jobs -> Jobs \cup {Nobody}]
    /\ queued \in [Jobs -> BOOLEAN]
    /\ used \in [Jobs -> Nat] /\ thrown \in [Jobs -> Nat]
    /\ at \in [Runs -> {"none", "polling", "ended"} \cup Holding]
    /\ server \in [Runs -> Servers \cup {Nobody}]
    /\ text \in [Runs -> Jobs \cup {Nobody}]
    /\ holder \in [Servers -> Runs \cup {Nobody}]
    /\ online \in [Servers -> BOOLEAN]
    /\ requests \in [Servers -> SUBSET Runs]
    /\ checks \in Nat /\ over \in BOOLEAN /\ silenced \in BOOLEAN
    /\ trouble \in 0..MaxTrouble /\ stalls \in 0..MaxStalls

DispatchInit ==
    /\ task = [j \in Jobs |-> "pending"]
    /\ result = [j \in Jobs |-> Nobody]
    /\ queued = [j \in Jobs |-> TRUE]
    /\ used = [j \in Jobs |-> 0] /\ thrown = [j \in Jobs |-> 0]
    /\ at = [r \in Runs |-> "none"]
    /\ server = [r \in Runs |-> Nobody]
    /\ text = [r \in Runs |-> Nobody]
    /\ holder = [b \in Servers |-> Nobody]
    /\ online = [b \in Servers |-> TRUE]
    /\ requests = [b \in Servers |-> {}]
    /\ checks = 0 /\ over = FALSE /\ silenced = FALSE
    /\ trouble = 0 /\ stalls = 0

Trouble == trouble < MaxTrouble /\ trouble' = trouble + 1

\* The run throws: its attempt is used up and the job goes back to the queue while
\* it has attempts left and is not running again already.
Throws(r) ==
    LET j == r[1] IN
    /\ thrown' = [thrown EXCEPT ![j] = @ + 1]
    /\ queued' = [queued EXCEPT ![j] = @ \/ (thrown[j] + 1 < Attempts /\ used[j] = r[2])]
    /\ at' = [at EXCEPT ![r] = "ended"]

-------------------------------------------------------------------------------
(* The processor of the dispatcher's worker.                                   *)

Pick(j) ==
    /\ queued[j] /\ used[j] <= Attempts
    /\ queued' = [queued EXCEPT ![j] = FALSE]
    /\ used' = [used EXCEPT ![j] = @ + 1]
    /\ at' = [at EXCEPT ![<<j, used[j] + 1>>] = "polling"]
    /\ UNCHANGED <<task, result, thrown, server, text, serverVars, checks, over,
                   silenced, trouble, stalls>>

\* Mutant of Idle: a connected bot will do.
IdleOrBusy(b) == online[b]

\* acquireIdleBot looks at the client and at currentJobId.
Idle(b) == online[b] /\ holder[b] = Nobody

Acquire(r, b) ==
    /\ at[r] = "polling" /\ Idle(b)
    /\ holder' = [holder EXCEPT ![b] = r]
    /\ server' = [server EXCEPT ![r] = b]
    /\ at' = [at EXCEPT ![r] = "claiming"]
    /\ UNCHANGED <<task, result, queued, used, thrown, text, online, requests, checks,
                   over, silenced, trouble, stalls>>

\* No bot came free in time: the task row is not touched.
WaitTimeout(r) ==
    /\ at[r] = "polling"
    /\ Trouble
    /\ Throws(r)
    /\ UNCHANGED <<task, result, used, server, text, serverVars, checks, over,
                   silenced, stalls>>

Claim(r) ==
    /\ at[r] = "claiming"
    /\ task' = [task EXCEPT ![r[1]] = "claimed"]
    /\ at' = [at EXCEPT ![r] = "sending"]
    /\ UNCHANGED <<result, queued, used, thrown, server, text, serverVars, checks, over,
                   silenced, trouble, stalls>>

\* A write before the try block throws: nobody releases the bot.
ClaimThrows(r) ==
    /\ at[r] \in {"claiming", "sending"}
    /\ Trouble
    /\ Throws(r)
    /\ UNCHANGED <<task, result, used, server, text, serverVars, checks, over,
                   silenced, stalls>>

\* Callbacks are registered and sendTask is called, which refuses when the bot has
\* been disconnected since.
Send(r) ==
    /\ at[r] = "sending"
    /\ IF online[server[r]]
       THEN /\ requests' = [requests EXCEPT ![server[r]] = @ \cup {r}]
            /\ at' = [at EXCEPT ![r] = "awaiting"]
       ELSE /\ at' = [at EXCEPT ![r] = "failing"]
            /\ UNCHANGED requests
    /\ UNCHANGED <<task, result, queued, used, thrown, server, text, holder, online,
                   checks, over, silenced, trouble, stalls>>

\* The runs whose callbacks a client calls: those that wait on its bot.
Answered(b) == {r \in Runs : at[r] = "awaiting" /\ server[r] = b}

RequestDone(b, q) ==
    /\ q \in requests[b]
    /\ requests' = [requests EXCEPT ![b] = @ \ {q}]
    /\ at' = [r \in Runs |-> IF r \in Answered(b) THEN "storing" ELSE at[r]]
    /\ text' = [r \in Runs |-> IF r \in Answered(b) THEN q[1] ELSE text[r]]
    /\ UNCHANGED <<task, result, queued, used, thrown, server, holder, online, checks,
                   over, silenced, trouble, stalls>>

RequestFails(b, q) ==
    /\ q \in requests[b]
    /\ Trouble
    /\ requests' = [requests EXCEPT ![b] = @ \ {q}]
    /\ at' = [r \in Runs |-> IF r \in Answered(b) THEN "failing" ELSE at[r]]
    /\ UNCHANGED <<task, result, queued, used, thrown, server, text, holder, online,
                   checks, over, silenced, stalls>>

\* TASK_EXECUTION_TIMEOUT_MS: the run gives up, the request goes on.
TaskTimeout(r) ==
    /\ at[r] = "awaiting"
    /\ Trouble
    /\ at' = [at EXCEPT ![r] = "failing"]
    /\ UNCHANGED <<task, result, queued, used, thrown, server, text, serverVars, checks,
                   over, silenced, stalls>>

Store(r) ==
    /\ at[r] = "storing"
    /\ task' = [task EXCEPT ![r[1]] = "completed"]
    /\ result' = [result EXCEPT ![r[1]] = text[r]]
    /\ at' = [at EXCEPT ![r] = "reporting"]
    /\ UNCHANGED <<queued, used, thrown, server, text, serverVars, checks, over,
                   silenced, trouble, stalls>>

StoreThrows(r) ==
    /\ at[r] \in {"storing", "reporting"}
    /\ Trouble
    /\ at' = [at EXCEPT ![r] = "failing"]
    /\ UNCHANGED <<task, result, queued, used, thrown, server, text, serverVars, checks,
                   over, silenced, stalls>>

\* releaseBot in the finally block.
Release(b) == holder' = [holder EXCEPT ![b] = Nobody]

Report(r) ==
    /\ at[r] = "reporting"
    /\ checks' = checks + 1
    /\ Release(server[r])
    /\ at' = [at EXCEPT ![r] = "ended"]
    /\ UNCHANGED <<task, result, queued, used, thrown, server, text, online, requests,
                   over, silenced, trouble, stalls>>

\* Mutant of Fail: only a task that went well asks whether the execution is over.
FailQuietly(r) ==
    /\ at[r] = "failing"
    /\ task' = [task EXCEPT ![r[1]] = "failed"]
    /\ Release(server[r])
    /\ Throws(r)
    /\ UNCHANGED <<result, used, server, text, online, requests, checks, over,
                   silenced, trouble, stalls>>

Fail(r) ==
    /\ at[r] = "failing"
    /\ task' = [task EXCEPT ![r[1]] = "failed"]
    /\ checks' = checks + 1
    /\ Release(server[r])
    /\ Throws(r)
    /\ UNCHANGED <<result, used, server, text, online, requests, over,
                   silenced, trouble, stalls>>

\* A write of the catch block throws in turn, before the completion check: the bot is
\* released all the same.
FailThrows(r) ==
    /\ at[r] = "failing"
    /\ Trouble
    /\ \E status \in {task[r[1]], "failed"} : task' = [task EXCEPT ![r[1]] = status]
    /\ silenced' = TRUE
    /\ Release(server[r])
    /\ Throws(r)
    /\ UNCHANGED <<result, used, server, text, online, requests, checks, over, stalls>>

\* The run's lock expired while the process was blocked: BullMQ hands the job out
\* again and the first run goes on.
Stall(j) ==
    /\ stalls < MaxStalls
    /\ used[j] > 0 /\ at[<<j, used[j]>>] \notin {"none", "ended"}
    /\ ~queued[j]
    /\ stalls' = stalls + 1
    /\ queued' = [queued EXCEPT ![j] = TRUE]
    /\ UNCHANGED <<task, result, used, thrown, runVars, serverVars, checks, over,
                   silenced, trouble>>

\* stopBot or the watchdog disconnects the client of a bot.
Disconnect(b) ==
    /\ online[b]
    /\ online' = [online EXCEPT ![b] = FALSE]
    /\ UNCHANGED <<task, result, queued, used, thrown, runVars, holder, requests, checks,
                   over, silenced, trouble, stalls>>

\* checkExecutionCompletion: count the tasks that are not terminal; at zero, the
\* compare-and-set from "running" to "completed".
Check ==
    /\ checks > 0
    /\ checks' = checks - 1
    /\ over' = (over \/ \A j \in Jobs : task[j] \in Terminal)
    /\ UNCHANGED <<task, result, queued, used, thrown, runVars, serverVars,
                   silenced, trouble, stalls>>

\* Logged, and forgotten.
CheckThrows ==
    /\ checks > 0
    /\ Trouble
    /\ checks' = checks - 1
    /\ silenced' = TRUE
    /\ UNCHANGED <<task, result, queued, used, thrown, runVars, serverVars, over, stalls>>

RunNext(r) ==
    \/ \E b \in Servers : Acquire(r, b)
    \/ WaitTimeout(r) \/ Claim(r) \/ ClaimThrows(r) \/ Send(r) \/ TaskTimeout(r)
    \/ Store(r) \/ StoreThrows(r) \/ Report(r) \/ Fail(r)
    \/ FailThrows(r)

DispatchNext ==
    \/ \E j \in Jobs : Pick(j) \/ Stall(j)
    \/ \E r \in Runs : RunNext(r)
    \/ \E b \in Servers : \/ Disconnect(b)
                          \/ \E q \in requests[b] : RequestDone(b, q) \/ RequestFails(b, q)
    \/ Check \/ CheckThrows

DispatchSpec == DispatchInit /\ [][DispatchNext]_dispatchVars

-------------------------------------------------------------------------------
(* Properties. *)

\* Two runs, of two jobs or of one that stalled, never use one bot at a time.
BotServesOne ==
    \A r, s \in Runs : at[r] \in Holding /\ at[s] \in Holding /\ server[r] = server[s]
                           => r = s

\* When the last task has become terminal and every completion check has run, the
\* execution is over: no order of two last tasks hides it, and no failure but one of
\* the catch block or of the check itself.
NoMissedCompletion ==
    (\A j \in Jobs : task[j] \in Terminal) /\ checks = 0
        /\ (\A r \in Runs : at[r] \notin {"reporting", "failing"})
      => over \/ silenced

\* "Send a task to an acquired bot's OpenClaw Gateway ... Returns the task result"
\* (openclaw-dispatcher.ts:88): the result stored for a task is its own.
OwnResult == \A j \in Jobs : result[j] \in {j, Nobody}
===============================================================================
