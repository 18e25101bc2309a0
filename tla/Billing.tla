-------------------------------- MODULE Billing --------------------------------
(* The billing engine.  Pub/Sub delivers each message at least once, to        *)
(* callbacks that run side by side; the engine claims a message in Redis,      *)
(* charges it in a Lua script, writes its row, and stops the execution once    *)
(* the spend is over the cap.  What throws after the claim is never done       *)
(* again: the redelivered message is found claimed, and acknowledged.          *)
EXTENDS Naturals

CONSTANTS
    Accounts,       \* executions
    Messages,       \* messages of the two subscriptions
    AccountOf,      \* the execution of each message
    KindOf,         \* "tool_invoked", "execution_completed", "bot_started", "bot_stopped"
    AmountOf,       \* amountCents; only a tool call costs anything
    CapChoices,     \* caps an execution may have been created with
    Handlers,       \* callbacks that may be under way at once
    NoCap,          \* budget:cap was never written
    MaxDeliveries,  \* bound: deliveries of each message
    MaxBillingFaults, \* bound: throws of Redis, the database and Pub/Sub
    MaxBillingCrashes \* bound: restarts of the service

ASSUME BillingAssumption ==
    /\ AccountOf \in [Messages -> Accounts]
    /\ KindOf \in [Messages -> {"tool_invoked", "execution_completed", "bot_started",
                                "bot_stopped"}]
    /\ AmountOf \in [Messages -> Nat]
    /\ \A m \in Messages : KindOf[m] # "tool_invoked" => AmountOf[m] = 0
    /\ CapChoices \subseteq Nat \cup {NoCap} /\ NoCap \notin Nat
    /\ {MaxDeliveries, MaxBillingFaults, MaxBillingCrashes} \subseteq Nat
    /\ Messages # {}

VARIABLES
    cap, spend,     \* budget:cap and budget:spend of each execution
    running,        \* the execution is in status running
    manned,         \* some bots of the execution are in the registry
    deliveries,     \* how often Pub/Sub has delivered each message
    claimed,        \* messages whose processed: key is set
    handler,        \* where each callback is, its message, and the script's verdict
    charges,        \* how often the script has added each message
    rows,           \* rows of billing_events of each message
    telemetry,      \* rows of telemetry of each message
    excess,         \* budget_exceeded has a row for the execution
    billingFaults, billingCrashes

billingVars == <<cap, spend, running, manned, deliveries, claimed, handler, charges, rows,
                 telemetry, excess, billingFaults, billingCrashes>>

Costs(m) == AmountOf[m] > 0
FirstMessage == CHOOSE m \in Messages : TRUE
Resting == [step |-> "idle", msg |-> FirstMessage, over |-> FALSE]

BillingTypeOK ==
    /\ cap \in [Accounts -> Nat \cup {NoCap}] /\ spend \in [Accounts -> Nat]
    /\ running \in [Accounts -> BOOLEAN] /\ manned \in [Accounts -> BOOLEAN]
    /\ deliveries \in [Messages -> 0..MaxDeliveries]
    /\ claimed \subseteq Messages
    /\ handler \in [Handlers ->
          [step : {"idle", "claim", "charge", "row", "hours", "judge", "excess", "stop",
                   "transition"},
           msg : Messages, over : BOOLEAN]]
    /\ charges \in [Messages -> Nat] /\ rows \in [Messages -> Nat]
    /\ telemetry \in [Messages -> Nat]
    /\ excess \in [Accounts -> BOOLEAN]
    /\ billingFaults \in 0..MaxBillingFaults /\ billingCrashes \in 0..MaxBillingCrashes

BillingInit ==
    /\ cap \in [Accounts -> CapChoices]
    /\ spend = [e \in Accounts |-> 0]
    /\ running = [e \in Accounts |-> TRUE]
    /\ manned = [e \in Accounts |-> TRUE]
    /\ deliveries = [m \in Messages |-> 0]
    /\ claimed = {}
    /\ handler = [h \in Handlers |-> Resting]
    /\ charges = [m \in Messages |-> 0]
    /\ rows = [m \in Messages |-> 0]
    /\ telemetry = [m \in Messages |-> 0]
    /\ excess = [e \in Accounts |-> FALSE]
    /\ billingFaults = 0 /\ billingCrashes = 0

WorldUnchanged == UNCHANGED <<cap, deliveries, billingCrashes>>
BooksUnchanged == UNCHANGED <<spend, charges, rows, telemetry>>
RunsUnchanged == UNCHANGED <<running, manned, excess>>

At(h, step) == handler[h].step = step
Goes(h, step) == handler' = [handler EXCEPT ![h].step = step]
Rests(h) == handler' = [handler EXCEPT ![h] = Resting]
Msg(h) == handler[h].msg
Account(h) == AccountOf[Msg(h)]

-------------------------------------------------------------------------------
(* One delivery. *)

\* Pub/Sub delivers a message, for the first time or again.
Deliver(h, m) ==
    /\ At(h, "idle") /\ deliveries[m] < MaxDeliveries
    /\ deliveries' = [deliveries EXCEPT ![m] = @ + 1]
    /\ handler' = [handler EXCEPT ![h] = [step |-> "claim", msg |-> m, over |-> FALSE]]
    /\ BooksUnchanged /\ RunsUnchanged
    /\ UNCHANGED <<cap, claimed, billingFaults, billingCrashes>>

\* Mutant of Fresh: the key is set, not set if absent.
FreshAlways(m) == TRUE

\* SET NX answers whether the key was absent.
Fresh(m) == m \notin claimed

Claim(h) ==
    /\ At(h, "claim")
    /\ claimed' = claimed \cup {Msg(h)}
    /\ IF Fresh(Msg(h)) THEN Goes(h, IF Costs(Msg(h)) THEN "charge" ELSE "row")
                        ELSE Rests(h)
    /\ BooksUnchanged /\ RunsUnchanged /\ WorldUnchanged /\ UNCHANGED billingFaults

\* Mutant of Exceeds: the spend before this charge is what counts.
ExceedsBefore(e, amount) == cap[e] # NoCap /\ spend[e] > cap[e]

\* Without a cap key every charge is allowed.
Exceeds(e, amount) == cap[e] # NoCap /\ spend[e] + amount > cap[e]

\* The Lua script: the charge is added whatever it finds.
Charge(h) ==
    /\ At(h, "charge")
    /\ spend' = [spend EXCEPT ![Account(h)] = @ + AmountOf[Msg(h)]]
    /\ charges' = [charges EXCEPT ![Msg(h)] = @ + 1]
    /\ handler' = [handler EXCEPT ![h].step = "row",
                                  ![h].over = Exceeds(Account(h), AmountOf[Msg(h)])]
    /\ RunsUnchanged /\ WorldUnchanged
    /\ UNCHANGED <<claimed, rows, telemetry, billingFaults>>

WriteRow(h) ==
    /\ At(h, "row")
    /\ rows' = [rows EXCEPT ![Msg(h)] = @ + 1]
    /\ CASE Costs(Msg(h)) -> Goes(h, "judge")
         [] KindOf[Msg(h)] = "bot_stopped" -> Goes(h, "hours")
         [] OTHER -> Rests(h)
    /\ RunsUnchanged /\ WorldUnchanged
    /\ UNCHANGED <<spend, charges, claimed, telemetry, billingFaults>>

\* recordBotHours: a row, unless the bot lacks one of its two times.
RecordHours(h) ==
    /\ At(h, "hours")
    /\ \/ telemetry' = [telemetry EXCEPT ![Msg(h)] = @ + 1]
       \/ UNCHANGED telemetry
    /\ Rests(h)
    /\ RunsUnchanged /\ WorldUnchanged
    /\ UNCHANGED <<spend, charges, rows, claimed, billingFaults>>

\* The cap is read for an alert nobody gets: no message names a user.
Judge(h) ==
    /\ At(h, "judge")
    /\ IF handler[h].over THEN Goes(h, "excess") ELSE Rests(h)
    /\ BooksUnchanged /\ RunsUnchanged /\ WorldUnchanged
    /\ UNCHANGED <<claimed, billingFaults>>

-------------------------------------------------------------------------------
(* handleBudgetExceeded: it swallows its errors.                               *)

WriteExcess(h) ==
    /\ At(h, "excess")
    /\ excess' = [excess EXCEPT ![Account(h)] = TRUE]
    /\ Goes(h, "stop")
    /\ BooksUnchanged /\ WorldUnchanged
    /\ UNCHANGED <<running, manned, claimed, billingFaults>>

\* allSettled: a bot that fails to stop does not keep the rest from stopping.
StopBots(h) ==
    /\ At(h, "stop")
    /\ manned' = [manned EXCEPT ![Account(h)] = FALSE]
    /\ Goes(h, "transition")
    /\ BooksUnchanged /\ WorldUnchanged
    /\ UNCHANGED <<running, excess, claimed, billingFaults>>

StopExecution(h) ==
    /\ At(h, "transition")
    /\ running' = [running EXCEPT ![Account(h)] = FALSE]
    /\ Rests(h)
    /\ BooksUnchanged /\ WorldUnchanged
    /\ UNCHANGED <<manned, excess, claimed, billingFaults>>

-------------------------------------------------------------------------------
(* The world. *)

\* A call throws: nacked before the budget handler, swallowed inside it.
Throws(h) ==
    /\ ~At(h, "idle") /\ billingFaults < MaxBillingFaults
    /\ billingFaults' = billingFaults + 1
    /\ Rests(h)
    /\ BooksUnchanged /\ RunsUnchanged /\ WorldUnchanged /\ UNCHANGED claimed

\* The registry and the callbacks are in memory; the rest survives.
Crash ==
    /\ billingCrashes < MaxBillingCrashes
    /\ billingCrashes' = billingCrashes + 1
    /\ handler' = [h \in Handlers |-> Resting]
    /\ manned' = [e \in Accounts |-> FALSE]
    /\ BooksUnchanged
    /\ UNCHANGED <<cap, running, deliveries, claimed, excess, billingFaults>>

\* A later wave is spawned without a look at the status.
SpawnWave(e) ==
    /\ ~manned[e] /\ manned' = [manned EXCEPT ![e] = TRUE]
    /\ BooksUnchanged /\ WorldUnchanged
    /\ UNCHANGED <<running, excess, claimed, handler, billingFaults>>

\* It completes, fails, or is stopped by a user.
Finish(e) ==
    /\ running[e] /\ running' = [running EXCEPT ![e] = FALSE]
    /\ BooksUnchanged /\ WorldUnchanged
    /\ UNCHANGED <<manned, excess, claimed, handler, billingFaults>>

HandlerNext(h) ==
    \/ \E m \in Messages : Deliver(h, m)
    \/ Claim(h) \/ Charge(h) \/ WriteRow(h) \/ RecordHours(h) \/ Judge(h)
    \/ WriteExcess(h) \/ StopBots(h) \/ StopExecution(h) \/ Throws(h)

BillingNext ==
    \/ \E h \in Handlers : HandlerNext(h)
    \/ \E e \in Accounts : SpawnWave(e) \/ Finish(e)
    \/ Crash

BillingSpec == BillingInit /\ [][BillingNext]_billingVars

-------------------------------------------------------------------------------
(* Properties. *)

\* "Message deduplication via Redis SETNX prevents double-counting from Pub/Sub
\* at-least-once delivery": however often a message is delivered, and to however many
\* callbacks at once, crashes and throws included, it is charged at most once, leaves at
\* most one row of each kind, and a costly row stands for a charge.
ChargedOnce ==
    \A m \in Messages :
        /\ charges[m] <= 1 /\ rows[m] <= 1 /\ telemetry[m] <= 1
        /\ Costs(m) => rows[m] <= charges[m]

Busy(e) == \E h \in Handlers : ~At(h, "idle") /\ Account(h) = e

\* enforceAtomicBudget and handleBudgetExceeded: as long as nothing has thrown or crashed,
\* an execution whose spend is over its cap is not running once no callback for it is
\* under way, in whatever order the callbacks interleave.
OverBudgetStops ==
    \A e \in Accounts :
        (/\ billingFaults = 0 /\ billingCrashes = 0 /\ ~Busy(e)
         /\ cap[e] # NoCap /\ spend[e] > cap[e])
           => ~running[e]
===============================================================================
