------------------------------ MODULE AgentClass ------------------------------
(* One agent_classes row under any sequence of verdicts: what the class         *)
(* machine and the pioneer tracker promise together to the God Layer            *)
(* transaction, which applies both to each verdict (god-layer-worker.ts 5a-5f). *)
EXTENDS ClassMachine

CONSTANTS
    Verdicts,   \* what a council may say: the inputs that are not counted
    MaxRuns     \* bound: runs of the category, of this bot and of others

Said == [type : VerdictTypes, confidence : Confidences,
         isSoulDriven : BOOLEAN, hasUnresolvedDA : BOOLEAN]

ASSUME VerdictsAssumption == Verdicts \subseteq Said
ASSUME MaxRunsAssumption  == MaxRuns \in Nat

VARIABLES
    row,      \* the class row of the bot
    runs,     \* category_benchmarks.confirmedRunCount, 0 before the pioneer
    demoted   \* history: the row has been demoted

vars == <<row, runs, demoted>>

TypeOK == row \in ClassState /\ runs \in Nat /\ demoted \in BOOLEAN

Init == row = NewClassState /\ runs = 0 /\ demoted = FALSE

-------------------------------------------------------------------------------
MatureThreshold == 3

\* Another bot's run in the category counts towards the maturity of its benchmark.
OtherRun ==
    /\ runs < MaxRuns
    /\ runs' = runs + 1
    /\ UNCHANGED <<row, demoted>>

\* The pioneer run is compared with the baseline it has just set: never above.
Input(said, above, human) ==
    [type |-> said.type, confidence |-> said.confidence,
     hasHumanConfirmation |-> human, isAboveBenchmark |-> above,
     isSoulDriven |-> said.isSoulDriven, hasUnresolvedDA |-> said.hasUnresolvedDA,
     benchmarkMature |-> runs + 1 >= MatureThreshold]

ApplyVerdict(said, above, human) ==
    /\ runs < MaxRuns
    /\ above => runs > 0
    /\ runs' = runs + 1
    /\ LET result == ComputeClassTransition(row, Input(said, above, human)) IN
         /\ row' = result.newState
         /\ demoted' = (demoted \/ result.transition = "demote")

Next == \/ OtherRun
        \/ \E said \in Verdicts, above, human \in BOOLEAN :
              ApplyVerdict(said, above, human)
        \/ runs = MaxRuns /\ UNCHANGED vars

Spec == Init /\ [][Next]_vars

-------------------------------------------------------------------------------
\* A class above Novice has been earned: whatever happened in between, the row
\* still shows the above-benchmark runs and the confirmations the promotions
\* ask for, and the category's benchmark has matured.
ClassEarned ==
    /\ row.currentClass \in {"Understudy", "Artisan"} =>
          row.above >= NovicePromotion.minAbove
          /\ row.human >= NovicePromotion.minHuman
          /\ runs >= MatureThreshold
    /\ row.currentClass = "Artisan" =>
          row.above >= UnderstudyPromotion.minAbove
          /\ row.human >= UnderstudyPromotion.minHuman

\* A demotion is for good: the counters are never reset, so a bot that has been
\* demoted can be an Understudy again but never an Artisan.
DemotedNeverArtisan == demoted => row.currentClass # "Artisan"

\* The class moves one rung up at a time, down to Novice only, and not at all
\* once Retired.
Moves == {<<"Novice", "Understudy">>, <<"Understudy", "Artisan">>,
          <<"Understudy", "Novice">>, <<"Artisan", "Novice">>}
            \cup {<<c, "Retired">> : c \in Classes \ {"Retired"}}
ClassMovesByRung ==
    [][row'.currentClass # row.currentClass =>
          <<row.currentClass, row'.currentClass>> \in Moves]_vars
===============================================================================
