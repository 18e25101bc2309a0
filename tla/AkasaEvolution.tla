----------------------------- MODULE AkasaEvolution -----------------------------
(* The Akasa server judges the managed agents: a poll convenes a council for   *)
(* the bot of a heartbeat run that has just ended, the council leaves a        *)
(* pending verdict, and a request that confirms it runs executeGodLayer in the *)
(* same call, without a queue, a claim or a transaction.  Its steps swallow    *)
(* their errors, except for the stamp at the end.  All bots work in one task   *)
(* category.                                                                   *)
EXTENDS Naturals, Sequences, FiniteSets, SequencesExt

CONSTANTS
    Agents,         \* bots of managed agents
    SoulOf,         \* the soul of each bot, or ""
    HighScorers,    \* bots with a composite score of 0.7 or more
    BadSkills,      \* bots whose one skill is classified "negative"
    Runs, AgentOf,  \* heartbeat runs, and the bot each belongs to, or Stranger
    Stranger,
    Backlogs,       \* what council_verdicts may hold when the server starts
    EvolutionPolls, \* polls that may overlap
    Requests,       \* confirm and reject requests under way at once
    MaxVerdicts,    \* bound: verdicts
    MaxCouncils,    \* bound: councils in session for a bot
    MaxAkasaFaults, \* bound: writes that fail
    MaxAkasaCrashes \* bound: restarts of the server

ASSUME EvolutionAssumption ==
    /\ SoulOf \in [Agents -> STRING] /\ AgentOf \in [Runs -> Agents \cup {Stranger}]
    /\ Stranger \notin Agents
    /\ {MaxVerdicts, MaxCouncils, MaxAkasaFaults, MaxAkasaCrashes} \subseteq Nat
    /\ MaxVerdicts > 0

VARIABLES
    runState,       \* "going", "fresh" for the five minutes after the end, "old"
    poll,           \* runs a poll still has to look at, and the bot it is about to judge
    council,        \* councils in session for each bot
    verdicts,       \* council_verdicts, in the order of insertion
    request,        \* where each request is, with what it has read
    classRow,       \* the agent_classes row of each bot, or "none"
    dna,            \* dna_store: souls and versions
    signals,        \* verdict rows of each bot in negative_signal_register
    confirmedRuns,  \* confirmedRunCount of the category, 0 while it has no row
    strikes,        \* consecutiveNegativeCount of the bot's skill, or Unlearned
    akasaFaults, akasaCrashes

worldVars == <<runState, poll, council>>
effectVars == <<classRow, dna, signals, confirmedRuns, strikes>>
evolutionVars == <<worldVars, verdicts, request, effectVars, akasaFaults, akasaCrashes>>

AgentClasses == {"Novice", "Understudy", "Artisan", "Retired"}
Verdicts == {"Promote", "Maintain", "Monitor", "Demote", "Retire"}
VerdictRows == [bot : Agents, type : Verdicts, status : {"pending", "confirmed", "rejected"},
                stamped : BOOLEAN]

\* The verdicts of a start fit the bound, and have not been carried out.
ASSUME BacklogAssumption ==
    /\ IsFiniteSet(Requests)
    /\ \A backlog \in Backlogs :
          /\ backlog \in Seq(VerdictRows) /\ Len(backlog) <= MaxVerdicts
          /\ \A i \in DOMAIN backlog : ~backlog[i].stamped

Unlearned == 2  \* UNLEARNING_THRESHOLD: the activation is deleted
Waiting == [step |-> "none", on |-> 1, read |-> 0]
RequestSteps == {"none", "confirm", "reject", "load", "class", "dnaRead", "dnaWrite", "signal",
          "pioneerRead", "pioneerWrite", "skillRead", "skillWrite", "stamp"}

EvolutionTypeOK ==
    /\ runState \in [Runs -> {"going", "fresh", "old"}]
    /\ \A p \in EvolutionPolls : poll[p].todo \subseteq Runs /\ poll[p].bot \in Agents \cup {Stranger}
    /\ council \in [Agents -> Nat]
    /\ verdicts \in BoundedSeq(VerdictRows, MaxVerdicts)
    /\ \A r \in Requests : request[r].step \in RequestSteps /\ request[r].on \in 1..MaxVerdicts
    /\ classRow \in [Agents -> AgentClasses \cup {"none"}]
    /\ dna \subseteq (STRING \X (Nat \ {0}))
    /\ signals \in [Agents -> Nat] /\ confirmedRuns \in Nat
    /\ strikes \in [Agents -> 0..Unlearned]
    /\ akasaFaults \in 0..MaxAkasaFaults /\ akasaCrashes \in 0..MaxAkasaCrashes

EvolutionInit ==
    /\ runState = [run \in Runs |-> "going"]
    /\ poll = [p \in EvolutionPolls |-> [todo |-> {}, bot |-> Stranger]]
    /\ council = [b \in Agents |-> 0]
    /\ verdicts \in Backlogs
    /\ request = [r \in Requests |-> Waiting]
    /\ classRow = [b \in Agents |-> "none"]
    /\ dna = {}
    /\ signals = [b \in Agents |-> 0]
    /\ confirmedRuns = 0
    /\ strikes = [b \in Agents |-> 0]
    /\ akasaFaults = 0 /\ akasaCrashes = 0

AkasaFault == akasaFaults < MaxAkasaFaults /\ akasaFaults' = akasaFaults + 1

-------------------------------------------------------------------------------
(* The poll and the council. *)

RunUnchanged == UNCHANGED <<verdicts, request, effectVars, akasaCrashes>>

RunPasses(run) ==
    /\ runState[run] # "old"
    /\ runState' = [runState EXCEPT ![run] = IF @ = "going" THEN "fresh" ELSE "old"]
    /\ RunUnchanged /\ UNCHANGED <<poll, council, akasaFaults>>

Poll(p) ==
    /\ poll[p] = [todo |-> {}, bot |-> Stranger]
    /\ poll' = [poll EXCEPT ![p].todo = {run \in Runs : runState[run] = "fresh"}]
    /\ RunUnchanged /\ UNCHANGED <<runState, council, akasaFaults>>

\* Mutant of Judges: the verdicts are not looked up.
JudgesAlways(b) == b # Stranger

\* A bot that has a verdict, of whatever status, is not judged again.
Judges(b) == b # Stranger /\ ~ \E i \in DOMAIN verdicts : verdicts[i].bot = b

\* Each run in turn; the error of one is swallowed.
LookAt(p, run) ==
    LET b == AgentOf[run] IN
    /\ run \in poll[p].todo /\ poll[p].bot = Stranger
    /\ \/ /\ poll' = [poll EXCEPT ![p].todo = @ \ {run},
                                  ![p].bot = IF Judges(b) THEN b ELSE Stranger]
          /\ UNCHANGED akasaFaults
       \/ AkasaFault /\ poll' = [poll EXCEPT ![p].todo = @ \ {run}]
    /\ RunUnchanged /\ UNCHANGED <<runState, council>>

\* The council is not awaited.
Convene(p) ==
    /\ poll[p].bot # Stranger /\ council[poll[p].bot] < MaxCouncils
    /\ council' = [council EXCEPT ![poll[p].bot] = @ + 1]
    /\ poll' = [poll EXCEPT ![p].bot = Stranger]
    /\ RunUnchanged /\ UNCHANGED <<runState, akasaFaults>>

Verdict(b) ==
    /\ council[b] > 0 /\ Len(verdicts) < MaxVerdicts
    /\ council' = [council EXCEPT ![b] = @ - 1]
    /\ \E type \in Verdicts :
          verdicts' = Append(verdicts, [bot |-> b, type |-> type, status |-> "pending",
                                        stamped |-> FALSE])
    /\ UNCHANGED <<runState, poll, request, effectVars, akasaFaults, akasaCrashes>>

\* The context or the insert fails; failing judges only change the verdict.
CouncilFails(b) ==
    /\ council[b] > 0 /\ council' = [council EXCEPT ![b] = @ - 1]
    /\ AkasaFault
    /\ RunUnchanged /\ UNCHANGED <<runState, poll>>

-------------------------------------------------------------------------------
(* Requests: PATCH confirm, PATCH reject, and each verdict of a batch. *)

RequestAt(r, step) == request[r].step = step
On(r) == verdicts[request[r].on]
RequestGoes(r, step) == request' = [request EXCEPT ![r].step = step, ![r].read = 0]
Reads(r, step, value) == request' = [request EXCEPT ![r].step = step, ![r].read = value]
Ends(r) == request' = [request EXCEPT ![r] = Waiting]

\* The status is read here, and not looked at again.
Ask(r, i, action) ==
    /\ RequestAt(r, "none") /\ i \in DOMAIN verdicts /\ verdicts[i].status = "pending"
    /\ request' = [request EXCEPT ![r] = [step |-> action, on |-> i, read |-> 0]]
    /\ UNCHANGED <<worldVars, verdicts, effectVars, akasaFaults, akasaCrashes>>

Confirm(r) ==
    /\ RequestAt(r, "confirm")
    /\ verdicts' = [verdicts EXCEPT ![request[r].on].status = "confirmed"]
    /\ RequestGoes(r, "load")
    /\ UNCHANGED <<worldVars, effectVars, akasaFaults, akasaCrashes>>

Reject(r) ==
    /\ RequestAt(r, "reject")
    /\ verdicts' = [verdicts EXCEPT ![request[r].on].status = "rejected"]
    /\ Ends(r)
    /\ UNCHANGED <<worldVars, effectVars, akasaFaults, akasaCrashes>>

-------------------------------------------------------------------------------
(* executeGodLayer: what is swallowed when it fails goes on with the next step. *)

LayerUnchanged == UNCHANGED <<worldVars, verdicts, akasaCrashes>>

ClassOf(b) == IF classRow[b] = "none" THEN "Novice" ELSE classRow[b]
Ladder == <<"Novice", "Understudy", "Artisan">>
Rank(class) == CHOOSE i \in 1..3 : Ladder[i] = class

ClassAfter(class, type) ==
    CASE type = "Retire" -> "Retired"
      [] type = "Promote" /\ class \notin {"Artisan", "Retired"} -> Ladder[Rank(class) + 1]
      [] type = "Demote" /\ class \notin {"Novice", "Retired"} -> Ladder[Rank(class) - 1]
      [] OTHER -> class

\* Mutant of Load: the stamp comes first, so that nothing runs twice.
LoadAndStamp(r) ==
    /\ RequestAt(r, "load") /\ ~On(r).stamped
    /\ verdicts' = [verdicts EXCEPT ![request[r].on].stamped = TRUE]
    /\ Reads(r, "class", ClassOf(On(r).bot))
    /\ UNCHANGED <<worldVars, effectVars, akasaFaults, akasaCrashes>>

\* A verdict with a stamp is left alone; otherwise the class is read, "Novice" when
\* that fails.
Load(r) ==
    /\ RequestAt(r, "load")
    /\ \/ On(r).stamped /\ Ends(r) /\ UNCHANGED akasaFaults
       \/ ~On(r).stamped /\ Reads(r, "class", ClassOf(On(r).bot)) /\ UNCHANGED akasaFaults
       \/ ~On(r).stamped /\ AkasaFault /\ Reads(r, "class", "Novice")
    /\ LayerUnchanged /\ UNCHANGED effectVars

\* What is not swallowed ends the request.
RequestFails(r) ==
    /\ request[r].step \in {"confirm", "reject", "load"}
    /\ AkasaFault /\ Ends(r)
    /\ UNCHANGED <<worldVars, verdicts, effectVars, akasaCrashes>>

CapturesDna(v) ==
    v.type \in {"Promote", "Maintain"} /\ v.bot \in HighScorers /\ SoulOf[v.bot] # ""
Negative(v) == v.type \in {"Demote", "Monitor", "Retire"}

\* A transition is an INSERT, and a bot has one row per category.
MoveClass(r) ==
    LET v == On(r) new == ClassAfter(request[r].read, v.type) IN
    /\ RequestAt(r, "class")
    /\ \/ /\ classRow' = IF new # request[r].read /\ classRow[v.bot] = "none"
                           THEN [classRow EXCEPT ![v.bot] = new] ELSE classRow
          /\ UNCHANGED akasaFaults
       \/ AkasaFault /\ UNCHANGED classRow
    /\ RequestGoes(r, CASE CapturesDna(v) -> "dnaRead" [] Negative(v) -> "signal"
                 [] v.type = "Promote" -> "pioneerRead" [] OTHER -> "skillRead")
    /\ LayerUnchanged /\ UNCHANGED <<dna, signals, confirmedRuns, strikes>>

AfterDna(v) == IF v.type = "Promote" THEN "pioneerRead" ELSE "skillRead"
Latest == IF dna = {} THEN 0 ELSE Max({entry[2] : entry \in dna})

\* Mutant of NextEntry: MAX(version), not one more.
SameEntry == Latest
NextEntry == Latest + 1

\* captureDna goes on without the Redis lock when somebody else holds it.
ReadDna(r) ==
    /\ RequestAt(r, "dnaRead") /\ Reads(r, "dnaWrite", NextEntry)
    /\ LayerUnchanged /\ UNCHANGED <<effectVars, akasaFaults>>

\* A version the soul has already is refused, and the entry is lost.
WriteDna(r) ==
    /\ RequestAt(r, "dnaWrite")
    /\ \/ dna' = dna \cup {<<SoulOf[On(r).bot], request[r].read>>} /\ UNCHANGED akasaFaults
       \/ AkasaFault /\ UNCHANGED dna
    /\ RequestGoes(r, AfterDna(On(r)))
    /\ LayerUnchanged /\ UNCHANGED <<classRow, signals, confirmedRuns, strikes>>

Signal(r) ==
    /\ RequestAt(r, "signal")
    /\ \/ signals' = [signals EXCEPT ![On(r).bot] = @ + 1] /\ UNCHANGED akasaFaults
       \/ AkasaFault /\ UNCHANGED signals
    /\ RequestGoes(r, "skillRead")
    /\ LayerUnchanged /\ UNCHANGED <<classRow, dna, confirmedRuns, strikes>>

ReadPioneer(r) ==
    /\ RequestAt(r, "pioneerRead") /\ Reads(r, "pioneerWrite", confirmedRuns)
    /\ LayerUnchanged /\ UNCHANGED <<effectVars, akasaFaults>>

\* The first INSERT of two wins; an UPDATE writes the count that was read, plus one.
WritePioneer(r) ==
    /\ RequestAt(r, "pioneerWrite")
    /\ \/ /\ confirmedRuns' = IF request[r].read = 0 /\ confirmedRuns > 0
                                THEN confirmedRuns ELSE request[r].read + 1
          /\ UNCHANGED akasaFaults
       \/ AkasaFault /\ UNCHANGED confirmedRuns
    /\ RequestGoes(r, "skillRead")
    /\ LayerUnchanged /\ UNCHANGED <<classRow, dna, signals, strikes>>

ReadSkill(r) ==
    /\ RequestAt(r, "skillRead")
    /\ IF strikes[On(r).bot] = Unlearned THEN RequestGoes(r, "stamp")
       ELSE Reads(r, "skillWrite", strikes[On(r).bot])
    /\ LayerUnchanged /\ UNCHANGED <<effectVars, akasaFaults>>

\* The second strike in a row unlearns the skill; a skill gone meanwhile stays gone.
StrikesAfter(v, count) ==
    IF v.bot \in BadSkills \/ v.type \in {"Demote", "Retire"}
      THEN count + 1 ELSE 0

WriteSkill(r) ==
    LET b == On(r).bot IN
    /\ RequestAt(r, "skillWrite")
    /\ \/ /\ strikes' = [strikes EXCEPT ![b] = IF @ = Unlearned THEN @
                                                 ELSE StrikesAfter(On(r), request[r].read)]
          /\ UNCHANGED akasaFaults
       \/ AkasaFault /\ UNCHANGED strikes
    /\ RequestGoes(r, "stamp")
    /\ LayerUnchanged /\ UNCHANGED <<classRow, dna, signals, confirmedRuns>>

\* Thrown to the client when it fails; nobody runs a confirmed verdict again.
Stamp(r) ==
    /\ RequestAt(r, "stamp")
    /\ \/ /\ verdicts' = [verdicts EXCEPT ![request[r].on].stamped = TRUE]
          /\ UNCHANGED akasaFaults
       \/ AkasaFault /\ UNCHANGED verdicts
    /\ Ends(r)
    /\ UNCHANGED <<worldVars, effectVars, akasaCrashes>>

AkasaCrash ==
    /\ akasaCrashes < MaxAkasaCrashes /\ akasaCrashes' = akasaCrashes + 1
    /\ poll' = [p \in EvolutionPolls |-> [todo |-> {}, bot |-> Stranger]]
    /\ council' = [b \in Agents |-> 0]
    /\ request' = [r \in Requests |-> Waiting]
    /\ UNCHANGED <<runState, verdicts, effectVars, akasaFaults>>

RequestNext(r) ==
    \/ \E i \in 1..MaxVerdicts, action \in {"confirm", "reject"} : Ask(r, i, action)
    \/ Confirm(r) \/ Reject(r) \/ RequestFails(r) \/ Load(r) \/ MoveClass(r) \/ ReadDna(r) \/ WriteDna(r)
    \/ Signal(r) \/ ReadPioneer(r) \/ WritePioneer(r) \/ ReadSkill(r) \/ WriteSkill(r)
    \/ Stamp(r)

JudgingNext ==
    \/ \E run \in Runs : RunPasses(run) \/ \E p \in EvolutionPolls : LookAt(p, run)
    \/ \E p \in EvolutionPolls : Poll(p) \/ Convene(p)
    \/ \E b \in Agents : Verdict(b) \/ CouncilFails(b)

EvolutionNext == JudgingNext \/ (\E r \in Requests : RequestNext(r)) \/ AkasaCrash

EvolutionSpec == EvolutionInit /\ [][EvolutionNext]_evolutionVars

-------------------------------------------------------------------------------
(* Properties. *)

NegativeStamped(b) ==
    {i \in DOMAIN verdicts : /\ verdicts[i].bot = b /\ verdicts[i].stamped
                             /\ Negative(verdicts[i])}

\* The idempotency stamp of executeGodLayer comes last: each stamped Demote, Monitor or
\* Retire verdict has its row in the negative register, unless the insert itself failed;
\* a restart in the middle and a second request for the same verdict lose none.
StampedWasDone ==
    \A b \in Agents : Cardinality(NegativeStamped(b)) <= signals[b] + akasaFaults

\* No poll is about to judge the bot, and no council is judging it.
AtRest(b) == council[b] = 0 /\ \A p \in EvolutionPolls : poll[p].bot # b
VerdictsOn(b) == {i \in DOMAIN verdicts : verdicts[i].bot = b}

\* checkAndTriggerCouncilEvaluations judges a bot once: overlapping polls, or two runs of
\* one agent, may convene several councils before the first verdict, but once there is
\* a verdict and no council is left, no further one ever begins.
JudgedOnce ==
    [][\A b \in Agents : VerdictsOn(b) # {} /\ AtRest(b) => AtRest(b)']_evolutionVars

\* "Retire: move to Retired from any class" and "if transitioned: insert new agentClasses
\* row": a Retire verdict that has been carried out leaves the bot Retired.
RetireTakesEffect ==
    \A i \in DOMAIN verdicts :
        verdicts[i].stamped /\ verdicts[i].type = "Retire" /\ akasaFaults = 0
            => classRow[verdicts[i].bot] = "Retired"
===============================================================================
