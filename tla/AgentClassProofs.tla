--------------------------- MODULE AgentClassProofs ---------------------------
(* The class machine, for every set of verdicts and any number of runs.        *)
EXTENDS AgentClass, ClassMachineProofs

\* ClassEarned and DemotedNeverArtisan are not inductive by themselves: that a
\* demoted bot stays below Artisan follows from the two runs below benchmark it
\* was demoted for, and those from the streak never exceeding the total.
IInv == /\ TypeOK
        /\ row.consecutiveBelow <= row.below
        /\ ClassEarned
        /\ demoted => row.below >= Demotion.minConsecutiveBelow
        /\ DemotedNeverArtisan

\* Every input of the class machine is well formed.
LEMMA InputType ==
    ASSUME NEW said \in Verdicts, NEW above \in BOOLEAN, NEW human \in BOOLEAN,
           runs \in Nat
    PROVE  Input(said, above, human) \in VerdictInput
  BY VerdictsAssumption DEF Input, VerdictInput, Said, MatureThreshold

\* The invariant holds of a new row in a category without a benchmark.
LEMMA IInvInit == Init => IInv
  <1> SUFFICES ASSUME Init PROVE IInv
    OBVIOUS
  <1>1. row \in ClassState /\ row.currentClass = "Novice"
        /\ row.consecutiveBelow = 0 /\ row.below = 0
    BY DEF Init, NewClassState, ClassState, Classes
  <1>2. TypeOK /\ ~ demoted
    BY <1>1 DEF Init, TypeOK
  <1>3. ClassEarned
    BY <1>1 DEF ClassEarned
  <1> QED
    BY <1>1, <1>2, <1>3 DEF IInv, DemotedNeverArtisan

\* A run of another bot and a verdict on this one both keep the invariant.
LEMMA IInvStep == IInv /\ [Next]_vars => IInv'
  <1> SUFFICES ASSUME IInv, [Next]_vars PROVE IInv'
    OBVIOUS
  <1>1. CASE OtherRun
    BY <1>1 DEF OtherRun, IInv, TypeOK, ClassEarned, DemotedNeverArtisan,
                MatureThreshold
  <1>2. ASSUME NEW said \in Verdicts, NEW above \in BOOLEAN, NEW human \in BOOLEAN,
               ApplyVerdict(said, above, human)
        PROVE  IInv'
    <2> DEFINE v == Input(said, above, human)
               u == UpdateCounters(row, v)
               r == ComputeClassTransition(row, v)
               c == r.newState.currentClass
    <2>1. row \in ClassState /\ runs \in Nat /\ demoted \in BOOLEAN
      BY DEF IInv, TypeOK
    <2>2. v \in VerdictInput /\ (v.benchmarkMature => runs + 1 >= MatureThreshold)
      BY <2>1, InputType DEF Input
    <2>3. /\ u \in ClassState /\ u.currentClass = row.currentClass
          /\ u.above >= row.above /\ u.below >= row.below /\ u.human >= row.human
          /\ u.consecutiveBelow <= u.below
      BY <2>1, <2>2, UpdateCountersFacts DEF IInv
    <2>4. /\ c \in Classes
          /\ r.newState = [u EXCEPT !.currentClass = c]
          /\ \/ c = "Retired" /\ r.transition = "retire" /\ CanRetire(u, v)
             \/ c = "Novice" /\ r.transition = "demote" /\ CanDemote(u, v)
             \/ c = "Understudy" /\ r.transition = "promote" /\ CanBecomeUnderstudy(u, v)
             \/ c = "Artisan" /\ r.transition = "promote" /\ CanBecomeArtisan(u, v)
             \/ c = u.currentClass /\ r.transition = "none"
      BY <2>1, <2>2, TransitionFacts
    <2>5. /\ row' = r.newState /\ runs' = runs + 1
          /\ demoted' = (demoted \/ r.transition = "demote")
      BY <1>2 DEF ApplyVerdict
    <2> HIDE DEF v, u, r
    <2>6. /\ row' \in ClassState /\ row'.currentClass = c
          /\ row'.above = u.above /\ row'.below = u.below /\ row'.human = u.human
          /\ row'.consecutiveBelow = u.consecutiveBelow
      BY <2>3, <2>4, <2>5 DEF ClassState
    <2>7. TypeOK' /\ (row.consecutiveBelow <= row.below)'
      BY <2>1, <2>3, <2>5, <2>6 DEF TypeOK
    <2>8. ClassEarned'
      BY <2>1, <2>2, <2>3, <2>4, <2>5, <2>6
         DEF IInv, ClassEarned, ClassState, CanBecomeUnderstudy, CanBecomeArtisan,
             NovicePromotion, UnderstudyPromotion, MatureThreshold
    <2>9. (demoted => row.below >= Demotion.minConsecutiveBelow)'
      BY <2>1, <2>3, <2>4, <2>5, <2>6
         DEF IInv, ClassState, CanDemote, Demotion
    <2>10. DemotedNeverArtisan'
      BY <2>1, <2>3, <2>4, <2>5, <2>6
         DEF IInv, DemotedNeverArtisan, ClassState, CanDemote, CanBecomeArtisan,
             Demotion, UnderstudyPromotion
    <2> QED
      BY <2>7, <2>8, <2>9, <2>10 DEF IInv
  <1>3. CASE UNCHANGED vars
    BY <1>3 DEF vars, IInv, TypeOK, ClassEarned, DemotedNeverArtisan
  <1> QED
    BY <1>1, <1>2, <1>3 DEF Next

\* The row of a bot is always well typed, its class is always earned, and no bot
\* that was demoted is ever an Artisan (class-machine.ts never resets a counter).
THEOREM ClassInvariants == Spec => [](TypeOK /\ ClassEarned /\ DemotedNeverArtisan)
  <1>1. IInv => TypeOK /\ ClassEarned /\ DemotedNeverArtisan
    BY DEF IInv
  <1> QED
    BY IInvInit, IInvStep, <1>1, PTL DEF Spec

-------------------------------------------------------------------------------
\* A class changes along the ladder only: one rung up, down to Novice, or out.
THEOREM ClassLadder == Spec => ClassMovesByRung
  <1> DEFINE Move == row'.currentClass # row.currentClass =>
                        <<row.currentClass, row'.currentClass>> \in Moves
  <1>1. IInv /\ [Next]_vars => [Move]_vars
    <2> SUFFICES ASSUME IInv, Next PROVE Move
      BY DEF vars
    <2>1. ASSUME NEW said \in Verdicts, NEW above \in BOOLEAN, NEW human \in BOOLEAN,
                 ApplyVerdict(said, above, human)
          PROVE  Move
      <3> DEFINE v == Input(said, above, human)
                 u == UpdateCounters(row, v)
                 r == ComputeClassTransition(row, v)
                 c == r.newState.currentClass
      <3>1. row \in ClassState /\ v \in VerdictInput
        BY InputType DEF IInv, TypeOK
      <3>2. u.currentClass = row.currentClass /\ u.currentClass \in Classes
        BY <3>1, UpdateCountersFacts DEF ClassState
      <3>3. \/ c = "Retired" /\ CanRetire(u, v)
            \/ c = "Novice" /\ CanDemote(u, v)
            \/ c = "Understudy" /\ CanBecomeUnderstudy(u, v)
            \/ c = "Artisan" /\ CanBecomeArtisan(u, v)
            \/ c = u.currentClass
        BY <3>1, TransitionFacts
      <3>4. row'.currentClass = c
        BY <2>1 DEF ApplyVerdict
      <3> HIDE DEF v, u, r, c
      <3> QED
        BY <3>2, <3>3, <3>4
           DEF Moves, Classes, CanRetire, CanDemote, CanBecomeUnderstudy, CanBecomeArtisan
    <2>2. CASE OtherRun
      BY <2>2 DEF OtherRun
    <2>3. CASE UNCHANGED vars
      BY <2>3 DEF vars
    <2> QED
      BY <2>1, <2>2, <2>3 DEF Next
  <1> QED
    BY IInvInit, IInvStep, <1>1, PTL DEF Spec, ClassMovesByRung
===============================================================================
