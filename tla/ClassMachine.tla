----------------------------- MODULE ClassMachine -----------------------------
(* The agent class state machine (god-layer/class-machine.ts): a pure function *)
(* from the class row of a bot and one council verdict to the new row and the  *)
(* transition it makes.  Every other module that moves a class applies         *)
(* ComputeClassTransition of this one.  A confidence is the weighted score in  *)
(* thousandths: the column keeps three decimals.                               *)
EXTENDS Integers

Classes      == {"Novice", "Understudy", "Artisan", "Retired"}
VerdictTypes == {"Promote", "Maintain", "Monitor", "Demote", "Retire"}
Confidences  == 0..1000

\* The counters of an agent_classes row, and what a verdict brings to them.
ClassState == [currentClass : Classes,
               above : Nat, below : Nat, human : Nat, consecutiveBelow : Nat]

VerdictInput == [type : VerdictTypes, confidence : Confidences,
                 hasHumanConfirmation : BOOLEAN, isAboveBenchmark : BOOLEAN,
                 isSoulDriven : BOOLEAN, hasUnresolvedDA : BOOLEAN,
                 benchmarkMature : BOOLEAN]

Transitions == {"none", "promote", "demote", "retire"}

NovicePromotion     == [minAbove |-> 2, minHuman |-> 1, minConfidence |-> 650]
UnderstudyPromotion == [minAbove |-> 5, maxBelow |-> 1, minHuman |-> 2,
                        minConfidence |-> 800]
Demotion            == [minConsecutiveBelow |-> 2, minConfidence |-> 700]

\* The row a bot starts from in a task category.
NewClassState == [currentClass |-> "Novice", above |-> 0, below |-> 0,
                  human |-> 0, consecutiveBelow |-> 0]

-------------------------------------------------------------------------------
(* A definition that follows the words "Mutant of" is a mistake the properties  *)
(* must notice when it takes the place of the definition it names; no           *)
(* specification uses it.                                                       *)

\* The counters move first, whatever the verdict says and even when Retired.
UpdateCounters(s, v) ==
    [s EXCEPT !.above = IF v.isAboveBenchmark THEN @ + 1 ELSE @,
              !.below = IF v.isAboveBenchmark THEN @ ELSE @ + 1,
              !.consecutiveBelow = IF v.isAboveBenchmark THEN 0 ELSE @ + 1,
              !.human = IF v.hasHumanConfirmation THEN @ + 1 ELSE @]

\* Mutant of CanRetire: a retired agent retires again.
CanRetireAgain(s, v) == v.type = "Retire" /\ v.isSoulDriven

\* The four guards read the updated counters.
CanRetire(s, v) ==
    /\ v.type = "Retire" /\ s.currentClass # "Retired"
    /\ v.isSoulDriven

\* Mutant of CanDemote: whatever the class, so also a retired agent.
CanDemoteAnyone(s, v) ==
    /\ v.type = "Demote"
    /\ v.isSoulDriven
    /\ s.consecutiveBelow >= Demotion.minConsecutiveBelow
    /\ v.confidence > Demotion.minConfidence

CanDemote(s, v) ==
    /\ v.type = "Demote" /\ s.currentClass \in {"Understudy", "Artisan"}
    /\ v.isSoulDriven
    /\ s.consecutiveBelow >= Demotion.minConsecutiveBelow
    /\ v.confidence > Demotion.minConfidence

\* Mutant of CanBecomeUnderstudy: whether or not anybody ever confirmed.
CanBecomeUnderstudyUnconfirmed(s, v) ==
    /\ v.type = "Promote" /\ s.currentClass = "Novice"
    /\ s.above >= NovicePromotion.minAbove
    /\ v.confidence > NovicePromotion.minConfidence
    /\ ~ v.hasUnresolvedDA
    /\ v.benchmarkMature

CanBecomeUnderstudy(s, v) ==
    /\ v.type = "Promote" /\ s.currentClass = "Novice"
    /\ s.above >= NovicePromotion.minAbove
    /\ s.human >= NovicePromotion.minHuman
    /\ v.confidence > NovicePromotion.minConfidence
    /\ ~ v.hasUnresolvedDA
    /\ v.benchmarkMature

CanBecomeArtisan(s, v) ==
    /\ v.type = "Promote" /\ s.currentClass = "Understudy"
    /\ s.above >= UnderstudyPromotion.minAbove
    /\ s.below <= UnderstudyPromotion.maxBelow
    /\ s.human >= UnderstudyPromotion.minHuman
    /\ v.confidence > UnderstudyPromotion.minConfidence
    /\ v.benchmarkMature

\* Mutant of Result: a demotion wipes the slate.
ResultResets(s, class, transition) ==
    [newState |-> IF transition = "demote" THEN NewClassState
                                           ELSE [s EXCEPT !.currentClass = class],
     transition |-> transition]

Result(s, class, transition) ==
    [newState |-> [s EXCEPT !.currentClass = class], transition |-> transition]

ComputeClassTransition(state, v) ==
    LET s == UpdateCounters(state, v) IN
    CASE CanRetire(s, v)           -> Result(s, "Retired", "retire")
      [] CanDemote(s, v)           -> Result(s, "Novice", "demote")
      [] CanBecomeUnderstudy(s, v) -> Result(s, "Understudy", "promote")
      [] CanBecomeArtisan(s, v)    -> Result(s, "Artisan", "promote")
      [] OTHER                     -> Result(s, s.currentClass, "none")
===============================================================================
