------------------------------- MODULE GodLayer -------------------------------
(* From the council to the God Layer, for the bots of one finished execution.  *)
(* A council job judges each bot and inserts a verdict; a verdict reaches the  *)
(* God Layer queue by itself or when a user confirms it; a God Layer job       *)
(* claims its verdict, takes the Redis lock of the task category, commits one  *)
(* transaction (benchmark, class, DNA, negative signal), runs the evolution    *)
(* campaign hook and releases the lock.  Jobs run concurrently; a step may     *)
(* throw, a worker may die, and BullMQ delivers the job again.                 *)
EXTENDS ClassMachine, FiniteSetsExt

CONSTANTS
    Bots,            \* the bots rows of the execution
    Souls,           \* bot_souls rows
    Categories,      \* the task categories of those souls
    NoSoul,          \* soulId IS NULL
    NoRow,           \* no such row in the table
    Free,            \* no such key in Redis
    Unknown,         \* the "unknown" category of a bot without a soul or a soul without one
    SoulOf,          \* bots.soulId
    CategoryOf,      \* bot_souls.taskCategory, never updated; Unknown for NULL
    ScoreOf,         \* the composite score the performance pipeline computes
    Judgements,      \* what the three judges may agree on for a bot
    MaxVerdicts,     \* bound: verdict rows the council may insert
    Workers,         \* concurrency of the God Layer worker
    Attempts,        \* attempts of a God Layer job
    CouncilAttempts, \* attempts of a council job
    MaxDecisions,    \* bound: verdicts that users confirm or reject
    MaxFaults,       \* bound: throws, dead workers and failed enqueues altogether
    MaxRejudged,     \* bound: council jobs that stall and judge their bot again
    MaxLapses        \* bound: locks that expire under a holder that still runs

Judgement == [type : VerdictTypes, confidence : Confidences,
              isSoulDriven : BOOLEAN, unresolvedDA : BOOLEAN]

ASSUME SoulAssumption ==
    /\ NoSoul \notin Souls /\ Unknown \notin Categories
    /\ SoulOf \in [Bots -> Souls \cup {NoSoul}]
    /\ CategoryOf \in [Souls -> Categories \cup {Unknown}]
ASSUME ScoreAssumption == ScoreOf \in [Bots -> 0..100]
ASSUME JudgementAssumption == Judgements \subseteq Judgement
ASSUME NullAssumption ==
    /\ NoRow \notin [bot : Bots, judgement : Judgements] \cup ClassState
    /\ NoRow \notin [pioneer : Bots, baseline : 0..100, runs : Nat \ {0}]
    /\ Free \notin (1..MaxVerdicts) \X {"council", "confirm"}
ASSUME BoundAssumption ==
    /\ MaxVerdicts \in Nat /\ Workers \in Nat \ {0}
    /\ Attempts \in Nat \ {0} /\ CouncilAttempts \in Nat \ {0}
    /\ MaxDecisions \in Nat /\ MaxFaults \in Nat /\ MaxRejudged \in Nat /\ MaxLapses \in Nat

VerdictIds == 1..MaxVerdicts
Producers  == {"council", "confirm"}      \* who enqueued the God Layer job
JobIds     == VerdictIds \X Producers
AllCategories == Categories \cup {Unknown}

Category(b) == IF SoulOf[b] = NoSoul THEN Unknown ELSE CategoryOf[SoulOf[b]]

VARIABLES
    score,       \* bots.compositeScore, 0 until the performance pipeline ran
    council,     \* council job of each bot: "waiting", "done" or "failed"
    thrown,      \* attempts each council job has used up
    rejudged,    \* the council job has been found stalled once
    verdict,     \* council_verdicts: what the judges said of which bot
    status,      \* council_verdicts.status
    processedAt, \* council_verdicts.godLayerProcessedAt IS NOT NULL
    pc,          \* where each God Layer job is
    failures,    \* attempts of each God Layer job that threw
    stalled,     \* the job has been found stalled once
    loaded,      \* what the job loaded: the score, and whether it saw confirmedAt
    seen,        \* the benchmark row the job's transaction selected
    lock,        \* Redis key soul-library:<category>
    benchmark,   \* category_benchmarks
    classes,     \* agent_classes
    dna,         \* dna_store
    signals,     \* negative_signal_register: the rows each bot has, by failure type
    applied,     \* history: the committed transactions of each verdict
    scored,      \* the campaign iteration's completedAt IS NOT NULL
    faults, lapses

councilVars == <<score, council, thrown, rejudged>>
verdictVars == <<verdict, status>>
jobVars     == <<pc, failures, stalled>>
workVars    == <<loaded, seen>>
libraryVars == <<benchmark, classes, dna, signals, applied>>
vars == <<councilVars, verdictVars, processedAt, jobVars, workVars, lock,
          libraryVars, scored, faults, lapses>>

-------------------------------------------------------------------------------
(* Types.  A job that is "loaded" waits for the category lock (none is needed  *)
(* for Unknown), one that is "reading" or beyond is inside its lock.           *)

Statuses == {"pending", "confirmed", "rejected"}
PcValues == {"none", "waiting", "loaded", "reading", "writing",
             "hook", "done", "failed"}
Running  == {"loaded", "reading", "writing", "hook"}
Critical == {"reading", "writing", "hook"}

VerdictRow == [bot : Bots, judgement : Judgements]
Benchmark  == [pioneer : Bots, baseline : 0..100, runs : Nat \ {0}]
DnaEntry   == [soul : Souls, version : Nat \ {0}, bot : Bots,
               class : Classes, provisional : BOOLEAN]
Signals    == [retirement : Nat, demotion : Nat]

TypeOK ==
    /\ score \in [Bots -> 0..100]
    /\ council \in [Bots -> {"waiting", "done", "failed"}]
    /\ thrown \in [Bots -> Nat]
    /\ rejudged \in [Bots -> BOOLEAN]
    /\ verdict \in [VerdictIds -> VerdictRow \cup {NoRow}]
    /\ status \in [VerdictIds -> Statuses]
    /\ processedAt \in [VerdictIds -> BOOLEAN]
    /\ pc \in [JobIds -> PcValues]
    /\ failures \in [JobIds -> Nat]
    /\ stalled \in [JobIds -> BOOLEAN]
    /\ loaded \in [JobIds -> [score : 0..100, confirmed : BOOLEAN]]
    /\ seen \in [JobIds -> Benchmark \cup {NoRow}]
    /\ lock \in [Categories -> JobIds \cup {Free}]
    /\ benchmark \in [AllCategories -> Benchmark \cup {NoRow}]
    /\ classes \in [Bots -> ClassState \cup {NoRow}]
    /\ dna \subseteq DnaEntry
    /\ signals \in [Bots -> Signals]
    /\ applied \in [VerdictIds -> Nat]
    /\ scored \in BOOLEAN
    /\ faults \in Nat /\ lapses \in Nat

NothingLoaded == [score |-> 0, confirmed |-> FALSE]

Init ==
    /\ score = [b \in Bots |-> 0]
    /\ council = [b \in Bots |-> "waiting"]
    /\ thrown = [b \in Bots |-> 0]
    /\ rejudged = [b \in Bots |-> FALSE]
    /\ verdict = [v \in VerdictIds |-> NoRow]
    /\ status = [v \in VerdictIds |-> "pending"]
    /\ processedAt = [v \in VerdictIds |-> FALSE]
    /\ pc = [j \in JobIds |-> "none"]
    /\ failures = [j \in JobIds |-> 0]
    /\ stalled = [j \in JobIds |-> FALSE]
    /\ loaded = [j \in JobIds |-> NothingLoaded]
    /\ seen = [j \in JobIds |-> NoRow]
    /\ lock = [c \in Categories |-> Free]
    /\ benchmark = [c \in AllCategories |-> NoRow]
    /\ classes = [b \in Bots |-> NoRow]
    /\ dna = {}
    /\ signals = [b \in Bots |-> [retirement |-> 0, demotion |-> 0]]
    /\ applied = [v \in VerdictIds |-> 0]
    /\ scored = FALSE
    /\ faults = 0 /\ lapses = 0

-------------------------------------------------------------------------------
(* The council and the performance pipeline: fired together, and forgotten,    *)
(* when the execution completes.                                               *)

PerformancePipeline(b) ==
    /\ score[b] = 0
    /\ score' = [score EXCEPT ![b] = ScoreOf[b]]
    /\ UNCHANGED <<council, thrown, rejudged, verdictVars, processedAt, jobVars, workVars,
                   lock, libraryVars, scored, faults, lapses>>

NextVerdict == CHOOSE v \in VerdictIds : verdict[v] = NoRow
RoomForVerdict == \E v \in VerdictIds : verdict[v] = NoRow

Enqueue(j) == pc' = [pc EXCEPT ![j] = "waiting"]

InsertVerdict(b, judgement) ==
    verdict' = [verdict EXCEPT ![NextVerdict] = [bot |-> b, judgement |-> judgement]]

\* A strong unresolved argument of the Devil's Advocate, and nothing else, holds
\* the verdict back for a human.
RequiresHumanConfirmation(judgement) == judgement.unresolvedDA

AutoEnqueue(v, judgement) ==
    IF RequiresHumanConfirmation(judgement) THEN UNCHANGED pc
                                            ELSE Enqueue(<<v, "council">>)

CouncilJudges(b, judgement) ==
    /\ council[b] = "waiting" /\ RoomForVerdict
    /\ InsertVerdict(b, judgement)
    /\ AutoEnqueue(NextVerdict, judgement)
    /\ council' = [council EXCEPT ![b] = "done"]
    /\ UNCHANGED <<score, thrown, rejudged, status, processedAt, failures, stalled,
                   workVars, lock, libraryVars, scored, faults, lapses>>

Fault == faults < MaxFaults /\ faults' = faults + 1

\* godLayerQueue.add is rejected: logged, and the council job succeeds.
CouncilEnqueueFails(b, judgement) ==
    /\ council[b] = "waiting" /\ RoomForVerdict /\ Fault
    /\ ~ RequiresHumanConfirmation(judgement)
    /\ InsertVerdict(b, judgement)
    /\ council' = [council EXCEPT ![b] = "done"]
    /\ UNCHANGED <<score, thrown, rejudged, status, processedAt, jobVars, workVars, lock,
                   libraryVars, scored, lapses>>

\* The worker dies after the insert: the stalled job is delivered once more, and
\* the bot is judged again; a job that stalls twice has failed.
CouncilStalls(b, judgement) ==
    /\ council[b] = "waiting" /\ RoomForVerdict
    /\ rejudged[b] \/ Cardinality({a \in Bots : rejudged[a]}) < MaxRejudged
    /\ InsertVerdict(b, judgement)
    /\ \/ AutoEnqueue(NextVerdict, judgement)
       \/ UNCHANGED pc
    /\ rejudged' = [rejudged EXCEPT ![b] = TRUE]
    /\ council' = [council EXCEPT ![b] = IF rejudged[b] THEN "failed" ELSE @]
    /\ UNCHANGED <<score, thrown, status, processedAt, failures, stalled, workVars,
                   lock, libraryVars, scored, faults, lapses>>

\* Loading the context, a judge or the insert throws.
CouncilThrows(b) ==
    /\ council[b] = "waiting" /\ Fault
    /\ thrown' = [thrown EXCEPT ![b] = @ + 1]
    /\ council' = [council EXCEPT ![b] =
                     IF thrown[b] + 1 < CouncilAttempts THEN @ ELSE "failed"]
    /\ UNCHANGED <<score, rejudged, verdictVars, processedAt, jobVars, workVars, lock,
                   libraryVars, scored, lapses>>

-------------------------------------------------------------------------------
(* The confirmation routes: a compare-and-set on a pending Promote or Retire.  *)

Resolvable(v) ==
    /\ verdict[v] # NoRow /\ status[v] = "pending"
    /\ verdict[v].judgement.type \in {"Promote", "Retire"}
    /\ Cardinality({w \in VerdictIds : status[w] # "pending"}) < MaxDecisions

Confirm(v) ==
    /\ Resolvable(v)
    /\ status' = [status EXCEPT ![v] = "confirmed"]
    /\ Enqueue(<<v, "confirm">>)
    /\ UNCHANGED <<councilVars, verdict, processedAt, failures, stalled, workVars,
                   lock, libraryVars, scored, faults, lapses>>

\* The job is enqueued after the commit and the user has her 200 either way.
ConfirmEnqueueFails(v) ==
    /\ Resolvable(v) /\ Fault
    /\ status' = [status EXCEPT ![v] = "confirmed"]
    /\ UNCHANGED <<councilVars, verdict, processedAt, jobVars, workVars, lock,
                   libraryVars, scored, lapses>>

Reject(v) ==
    /\ Resolvable(v)
    /\ status' = [status EXCEPT ![v] = "rejected"]
    /\ UNCHANGED <<councilVars, verdict, processedAt, jobVars, workVars, lock,
                   libraryVars, scored, faults, lapses>>

-------------------------------------------------------------------------------
(* The God Layer worker: the steps of one job, in the order of the processor.  *)

VerdictOf(j)  == verdict[j[1]]
BotOf(j)      == VerdictOf(j).bot
Goto(j, step) == pc' = [pc EXCEPT ![j] = step]
\* The locals of an attempt end with it, or once the transaction has used them.
Forget(j)     == /\ loaded' = [loaded EXCEPT ![j] = NothingLoaded]
                 /\ seen' = [seen EXCEPT ![j] = NoRow]
ActiveJobs    == {j \in JobIds : pc[j] \in Running}

\* Mutant of Claim: the update without its "IS NULL".
ClaimAnyway(j) ==
    /\ pc[j] = "waiting" /\ Cardinality(ActiveJobs) < Workers
    /\ Goto(j, "loaded")
    /\ processedAt' = [processedAt EXCEPT ![j[1]] = TRUE]
    /\ loaded' = [loaded EXCEPT
          ![j] = [score |-> score[BotOf(j)], confirmed |-> status[j[1]] = "confirmed"]]
    /\ UNCHANGED <<councilVars, verdictVars, failures, stalled, seen, lock,
                   libraryVars, scored, faults, lapses>>

\* Mutant of Claim: a job that finds the verdict claimed waits instead.
ClaimOrWait(j) ==
    /\ pc[j] = "waiting" /\ Cardinality(ActiveJobs) < Workers
    /\ ~ processedAt[j[1]] /\ Goto(j, "loaded")
    /\ processedAt' = [processedAt EXCEPT ![j[1]] = TRUE]
    /\ loaded' = [loaded EXCEPT
          ![j] = [score |-> score[BotOf(j)], confirmed |-> status[j[1]] = "confirmed"]]
    /\ UNCHANGED <<councilVars, verdictVars, failures, stalled, seen, lock,
                   libraryVars, scored, faults, lapses>>

\* The idempotency claim, before any of the work and outside the transaction, and
\* the selects behind it: whatever happens between them might as well come first.
\* A job that finds the verdict claimed completes at once.
Claim(j) ==
    /\ pc[j] = "waiting" /\ Cardinality(ActiveJobs) < Workers
    /\ \/ /\ processedAt[j[1]] /\ Goto(j, "done")
          /\ UNCHANGED <<processedAt, loaded>>
       \/ /\ ~ processedAt[j[1]] /\ Goto(j, "loaded")
          /\ processedAt' = [processedAt EXCEPT ![j[1]] = TRUE]
          /\ loaded' = [loaded EXCEPT
                ![j] = [score |-> score[BotOf(j)],
                        confirmed |-> status[j[1]] = "confirmed"]]
    /\ UNCHANGED <<councilVars, verdictVars, failures, stalled, seen, lock,
                   libraryVars, scored, faults, lapses>>

\* Mutant of AcquireLock: SET without NX takes the lock over.
AcquireLockOver(j) ==
    /\ pc[j] = "loaded"
    /\ LET c == Category(BotOf(j)) IN
         \/ c = Unknown /\ UNCHANGED lock
         \/ c # Unknown /\ lock' = [lock EXCEPT ![c] = j]
    /\ Goto(j, "reading")
    /\ UNCHANGED <<councilVars, verdictVars, processedAt, failures, stalled,
                   workVars, libraryVars, scored, faults, lapses>>

\* SET key job.id EX 300 NX.  A bot without a category takes no lock.
AcquireLock(j) ==
    /\ pc[j] = "loaded"
    /\ LET c == Category(BotOf(j)) IN
         \/ c = Unknown /\ UNCHANGED lock
         \/ c # Unknown /\ lock[c] = Free /\ lock' = [lock EXCEPT ![c] = j]
    /\ Goto(j, "reading")
    /\ UNCHANGED <<councilVars, verdictVars, processedAt, failures, stalled,
                   workVars, libraryVars, scored, faults, lapses>>

\* The first statement of the transaction.  READ COMMITTED: what it selects may
\* be stale by the time the transaction writes.
ReadBenchmark(j) ==
    /\ pc[j] = "reading"
    /\ seen' = [seen EXCEPT ![j] = benchmark[Category(BotOf(j))]]
    /\ Goto(j, "writing")
    /\ UNCHANGED <<councilVars, verdictVars, processedAt, failures, stalled, loaded,
                   lock, libraryVars, scored, faults, lapses>>

\* detectAndTrackPioneer, from the row it selected: the first run of a category
\* sets the baseline for good, a later one writes the count it read plus one.
MatureThreshold == 3

\* Mutant of Tracked: the pioneer's own run is not counted.
TrackedFromZero(j) ==
    IF seen[j] = NoRow
    THEN [pioneer |-> BotOf(j), baseline |-> loaded[j].score, runs |-> 0]
    ELSE [seen[j] EXCEPT !.runs = @ + 1]

Tracked(j) ==
    IF seen[j] = NoRow
    THEN [pioneer |-> BotOf(j), baseline |-> loaded[j].score, runs |-> 1]
    ELSE [seen[j] EXCEPT !.runs = @ + 1]

\* Mutant of Confirmed: a rejection is a decision, too.
Decided(j)   == status[j[1]] # "pending"

\* confirmedAt as it was when the job loaded the verdict.
Confirmed(j) == loaded[j].confirmed

VerdictInputOf(j) ==
    LET judged == VerdictOf(j).judgement IN
    [type |-> judged.type, confidence |-> judged.confidence,
     hasHumanConfirmation |-> Confirmed(j),
     isAboveBenchmark |-> loaded[j].score > Tracked(j).baseline,
     isSoulDriven |-> judged.isSoulDriven,
     hasUnresolvedDA |-> judged.unresolvedDA,
     benchmarkMature |-> Tracked(j).runs >= MatureThreshold]

ClassOf(b)   == IF classes[b] = NoRow THEN NewClassState ELSE classes[b]
Outcome(j)   == ComputeClassTransition(ClassOf(BotOf(j)), VerdictInputOf(j))

\* writeVersionedDnaEntry: MAX(version) + 1 of the soul, 1 when it has none.
ProvisionalBelow == 500
Versions(soul)    == {d.version : d \in {e \in dna : e.soul = soul}}

\* Mutant of NextVersion: the greatest version, again.
SameVersion(soul) == IF Versions(soul) = {} THEN 1 ELSE Max(Versions(soul))

NextVersion(soul) == IF Versions(soul) = {} THEN 1 ELSE Max(Versions(soul)) + 1

DnaWrite(j) ==
    [soul |-> SoulOf[BotOf(j)], version |-> NextVersion(SoulOf[BotOf(j)]),
     bot |-> BotOf(j), class |-> Outcome(j).newState.currentClass,
     provisional |-> VerdictOf(j).judgement.confidence < ProvisionalBelow]

\* A demotion is always soul-driven, so the code's second condition adds nothing.
SignalWrite(j) ==
    [signals[BotOf(j)] EXCEPT
        !.retirement = IF Outcome(j).transition = "retire" THEN @ + 1 ELSE @,
        !.demotion   = IF Outcome(j).transition = "demote" THEN @ + 1 ELSE @]

\* Mutant of DuplicatePioneer: without the index the second one overwrites.
NoDuplicate(j) == FALSE

\* Both transactions found no benchmark row: the second insert violates the
\* unique index on the category and its transaction is rolled back.
DuplicatePioneer(j) ==
    seen[j] = NoRow /\ benchmark[Category(BotOf(j))] # NoRow

\* The rest of the transaction is one step: from its write of the benchmark row
\* on, it holds that row until it commits, and every job of the category writes it.
Commit(j) ==
    /\ pc[j] = "writing" /\ ~ DuplicatePioneer(j)
    /\ benchmark' = [benchmark EXCEPT ![Category(BotOf(j))] = Tracked(j)]
    /\ classes' = [classes EXCEPT ![BotOf(j)] = Outcome(j).newState]
    /\ dna' = IF Category(BotOf(j)) = Unknown THEN dna ELSE dna \cup {DnaWrite(j)}
    /\ signals' = IF SoulOf[BotOf(j)] = NoSoul THEN signals
                  ELSE [signals EXCEPT ![BotOf(j)] = SignalWrite(j)]
    /\ applied' = [applied EXCEPT ![j[1]] = @ + 1]
    /\ Goto(j, "hook") /\ Forget(j)
    /\ UNCHANGED <<councilVars, verdictVars, processedAt, failures, stalled, lock,
                   scored, faults, lapses>>

\* The gate of the hook: at least one verdict, and each of them claimed.
AllVerdictsProcessed ==
    LET rows == {v \in VerdictIds : verdict[v] # NoRow} IN
    rows # {} /\ \A v \in rows : processedAt[v]

\* Mutant of ReleaseLock: a plain DEL, also by a job that never got the lock.
ReleaseAnyLock(j) ==
    lock' = [c \in Categories |-> IF Category(BotOf(j)) = c THEN Free ELSE lock[c]]

\* The Lua compare-and-delete of the finally block: only a lock still owned.
ReleaseLock(j) ==
    lock' = [c \in Categories |->
               IF pc[j] \in Critical /\ lock[c] = j THEN Free ELSE lock[c]]

\* The hook runs inside the lock; nothing is left of the job when it returns.
RunHook(j) ==
    /\ pc[j] = "hook"
    /\ scored' = (scored \/ AllVerdictsProcessed)
    /\ ReleaseLock(j)
    /\ Goto(j, "done")
    /\ UNCHANGED <<councilVars, verdictVars, processedAt, failures, stalled,
                   workVars, libraryVars, faults, lapses>>

-------------------------------------------------------------------------------
(* What goes wrong: a throw ends the attempt and BullMQ delivers the job again *)
(* while it has attempts left; a dead worker leaves its lock behind.           *)

Throw(j) ==
    /\ failures' = [failures EXCEPT ![j] = @ + 1]
    /\ Goto(j, IF failures[j] + 1 < Attempts THEN "waiting" ELSE "failed")
    /\ ReleaseLock(j) /\ Forget(j)
    /\ UNCHANGED <<councilVars, verdictVars, processedAt, stalled, libraryVars,
                   scored, lapses>>

\* Twenty tries, half a second apart, have all found the lock taken.
LockTimeout(j) ==
    /\ pc[j] = "loaded" /\ Category(BotOf(j)) # Unknown
    /\ lock[Category(BotOf(j))] # Free
    /\ Throw(j) /\ UNCHANGED faults

Abort(j) ==
    /\ pc[j] = "writing" /\ DuplicatePioneer(j)
    /\ Throw(j) /\ UNCHANGED faults

\* A query or the transaction fails.  The hook and the release never throw.
StepThrows(j) ==
    /\ pc[j] \in {"waiting", "loaded", "reading", "writing"}
    /\ Fault /\ Throw(j)

WorkerDies(j) ==
    /\ pc[j] \in Running /\ Fault
    /\ stalled' = [stalled EXCEPT ![j] = TRUE]
    /\ Goto(j, IF stalled[j] THEN "failed" ELSE "waiting") /\ Forget(j)
    /\ UNCHANGED <<councilVars, verdictVars, processedAt, failures, lock,
                   libraryVars, scored, lapses>>

\* The TTL runs out: of a lock left behind, or, when the process was paused for
\* five minutes, of one whose holder still runs.
Holding(j, c) == pc[j] \in Critical /\ Category(BotOf(j)) = c

\* Mutant of LockExpires: SET NX without EX.
NeverExpires(c) == FALSE

LockExpires(c) ==
    /\ lock[c] # Free /\ ~ Holding(lock[c], c)
    /\ lock' = [lock EXCEPT ![c] = Free]
    /\ UNCHANGED <<councilVars, verdictVars, processedAt, jobVars, workVars,
                   libraryVars, scored, faults, lapses>>

LockLapses(c) ==
    /\ lock[c] # Free /\ Holding(lock[c], c) /\ lapses < MaxLapses
    /\ lapses' = lapses + 1
    /\ lock' = [lock EXCEPT ![c] = Free]
    /\ UNCHANGED <<councilVars, verdictVars, processedAt, jobVars, workVars,
                   libraryVars, scored, faults>>

\* SET key job.id EX 300 XX, every minute: it does not look at the owner.
RenewLock(j) ==
    /\ pc[j] \in Critical /\ Category(BotOf(j)) # Unknown
    /\ lock[Category(BotOf(j))] \notin {Free, j}
    /\ lock' = [lock EXCEPT ![Category(BotOf(j))] = j]
    /\ UNCHANGED <<councilVars, verdictVars, processedAt, jobVars, workVars,
                   libraryVars, scored, faults, lapses>>

-------------------------------------------------------------------------------
Step(j) == \/ AcquireLock(j) \/ LockTimeout(j) \/ ReadBenchmark(j)
           \/ Commit(j) \/ Abort(j) \/ RunHook(j)

Council(b) == \E judgement \in Judgements :
    CouncilJudges(b, judgement) \/ CouncilEnqueueFails(b, judgement)
        \/ CouncilStalls(b, judgement)

\* Nothing is left to do, whatever users may still confirm.
Quiet == /\ \A j \in JobIds : pc[j] \in {"none", "done", "failed"}
         /\ \A b \in Bots : council[b] # "waiting" \/ ~ RoomForVerdict
         /\ \A c \in Categories : lock[c] = Free

Next ==
    \/ \E b \in Bots : PerformancePipeline(b) \/ Council(b) \/ CouncilThrows(b)
    \/ \E v \in VerdictIds : Confirm(v) \/ ConfirmEnqueueFails(v) \/ Reject(v)
    \/ \E j \in JobIds : Claim(j) \/ Step(j) \/ StepThrows(j) \/ WorkerDies(j)
                         \/ RenewLock(j)
    \/ \E c \in Categories : LockExpires(c) \/ LockLapses(c)
    \/ Quiet /\ UNCHANGED vars

Spec == Init /\ [][Next]_vars

-------------------------------------------------------------------------------
(* What the pipeline promises.                                                 *)

\* A verdict changes the library at most once, although the council and the
\* confirmation route may each enqueue a job for it and each job may be retried
\* or delivered again (god-layer-worker.ts, the idempotency claim).
AppliedAtMostOnce == \A v \in VerdictIds : applied[v] <= 1

\* Two jobs of one task category are never inside their transactions together:
\* the lock is taken by SET NX, given up only by its owner, and lives on when its
\* owner dies.  Assumes that no holder is paused for longer than the TTL.
CategoryMutex ==
    MaxLapses = 0 =>
        \A i, j \in JobIds :
            /\ pc[i] \in Critical /\ pc[j] \in Critical
            /\ Category(BotOf(i)) = Category(BotOf(j))
            /\ Category(BotOf(i)) # Unknown
            => i = j

AppliedIn(c)  == {v \in VerdictIds : /\ verdict[v] # NoRow /\ applied[v] > 0
                                     /\ Category(verdict[v].bot) = c}
AppliedFor(b) == {v \in VerdictIds : /\ verdict[v] # NoRow /\ applied[v] > 0
                                     /\ verdict[v].bot = b}

\* No run is lost from or added to the count that decides when the benchmark of
\* a category matures: confirmedRunCount is the number of verdicts applied in the
\* category, although each transaction writes back a count it read before.
RunsCounted ==
    MaxLapses = 0 =>
        \A c \in Categories :
            Cardinality(AppliedIn(c)) =
                IF benchmark[c] = NoRow THEN 0 ELSE benchmark[c].runs

\* The class row of a bot accounts for each of its applied verdicts once, and
\* credits human confirmations only for verdicts a user has really confirmed.
CountersMatchVerdicts ==
    \A b \in Bots :
        /\ ClassOf(b).above + ClassOf(b).below = Cardinality(AppliedFor(b))
        /\ ClassOf(b).human <= Cardinality({v \in AppliedFor(b) : status[v] = "confirmed"})

\* The DNA lineage of a soul with a category is complete: versions 1, 2, ... without a gap, one
\* for each verdict applied to a bot of the soul, also when bots share the soul.
DnaLineageComplete ==
    \A s \in {t \in Souls : CategoryOf[t] # Unknown} :
        LET writes == {v \in VerdictIds : /\ verdict[v] # NoRow /\ applied[v] > 0
                                          /\ SoulOf[verdict[v].bot] = s}
        IN /\ Versions(s) = 1..Cardinality(writes)
           /\ Cardinality({d \in dna : d.soul = s}) = Cardinality(writes)

\* A soul-carrying bot is Retired exactly when the negative register holds one
\* retirement of it: a second Retire verdict on a retired bot adds none.
RetirementSignalled ==
    \A b \in Bots : SoulOf[b] # NoSoul =>
        signals[b].retirement = IF ClassOf(b).currentClass = "Retired" THEN 1 ELSE 0

\* A category has one pioneer, whose score stays the baseline for good, even
\* where two first runs race without a lock.  (The count of its runs may then go
\* backwards: a job of "unknown" writes back a count others have moved past.)
BaselinePermanent ==
    [][\A c \in AllCategories : benchmark[c] # NoRow =>
          /\ benchmark'[c].pioneer = benchmark[c].pioneer
          /\ benchmark'[c].baseline = benchmark[c].baseline]_vars

-------------------------------------------------------------------------------
(* The workers keep running and Redis keeps time; nothing makes a user confirm, *)
(* a judge answer or a fault happen.                                            *)
Fairness ==
    /\ \A j \in JobIds : WF_vars(Claim(j)) /\ WF_vars(Step(j))
    /\ \A c \in Categories : WF_vars(LockExpires(c))

FairSpec == Spec /\ Fairness

\* Every enqueued job comes to an end, whatever throws or dies on the way.
JobsEnd == \A j \in JobIds :
    pc[j] = "waiting" ~> pc[j] \in {"done", "failed"}

\* A category is never locked for good, not even by a worker that died.
LocksEnd == \A c \in Categories : lock[c] # Free ~> lock[c] = Free

-------------------------------------------------------------------------------
(* What the documents promise and the code does not do.                        *)

\* v2.0-REQUIREMENTS.md, CONF-01: "Promote and Retire verdicts require human
\* confirmation [...] before God Layer execution".  The council worker asks for
\* confirmation only when the Devil's Advocate objects.
ConfirmedBeforeApplied ==
    \A v \in VerdictIds :
        /\ verdict[v] # NoRow /\ applied[v] > 0
        /\ verdict[v].judgement.type \in {"Promote", "Retire"}
        => status[v] = "confirmed"

\* execution-fitness.ts: "we only want to score a campaign iteration once the
\* last verdict for its execution has finished its God Layer run".  The gate
\* reads the claim, and sees only the verdicts inserted so far.
ScoredAfterLastVerdict ==
    scored => /\ \A b \in Bots : council[b] # "waiting"
              /\ \A v \in VerdictIds : verdict[v] # NoRow => applied[v] > 0

===============================================================================
