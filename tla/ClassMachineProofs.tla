-------------------------- MODULE ClassMachineProofs --------------------------
(* What the class machine does to any class row and any verdict: the lemmas     *)
(* that every proof about a module which applies it rests on.                   *)
EXTENDS ClassMachine, TLAPS

\* What UpdateCounters does to a row: the class stays, each counter moves by at
\* most one, and exactly one of the two run counters moves.
LEMMA UpdateCountersFacts ==
    ASSUME NEW s \in ClassState, NEW v \in VerdictInput
    PROVE  LET u == UpdateCounters(s, v) IN
           /\ u \in ClassState
           /\ u.currentClass = s.currentClass
           /\ u.above >= s.above /\ u.below >= s.below /\ u.human >= s.human
           /\ u.above + u.below = s.above + s.below + 1
           /\ s.consecutiveBelow <= s.below => u.consecutiveBelow <= u.below
  <1> DEFINE u == UpdateCounters(s, v)
  <1>1. /\ s.currentClass \in Classes /\ s.above \in Nat /\ s.below \in Nat
        /\ s.human \in Nat /\ s.consecutiveBelow \in Nat
    BY DEF ClassState
  <1> DEFINE above == IF v.isAboveBenchmark THEN s.above + 1 ELSE s.above
             below == IF v.isAboveBenchmark THEN s.below ELSE s.below + 1
             streak == IF v.isAboveBenchmark THEN 0 ELSE s.consecutiveBelow + 1
             human == IF v.hasHumanConfirmation THEN s.human + 1 ELSE s.human
  <1>2. u = [s EXCEPT !.above = above, !.below = below, !.consecutiveBelow = streak,
                      !.human = human]
    BY DEF UpdateCounters
  <1>3. above \in Nat /\ below \in Nat /\ streak \in Nat /\ human \in Nat
    BY <1>1
  <1>4. /\ above >= s.above /\ below >= s.below /\ human >= s.human
        /\ above + below = s.above + s.below + 1
        /\ s.consecutiveBelow <= s.below => streak <= below
    BY <1>1
  <1> HIDE DEF u, above, below, streak, human
  <1>5. u \in ClassState
    BY <1>2, <1>3 DEF ClassState
  <1>6. /\ u.currentClass = s.currentClass
        /\ u.above = above /\ u.below = below /\ u.human = human
        /\ u.consecutiveBelow = streak
    BY <1>2, <1>3 DEF ClassState
  <1> QED
    BY <1>4, <1>5, <1>6 DEF u

\* The five outcomes of ComputeClassTransition, each with its updated counters.
LEMMA TransitionFacts ==
    ASSUME NEW s \in ClassState, NEW v \in VerdictInput
    PROVE  LET u == UpdateCounters(s, v)
               r == ComputeClassTransition(s, v)
               c == r.newState.currentClass
           IN
           /\ c \in Classes
           /\ r.newState = [u EXCEPT !.currentClass = c]
           /\ \/ c = "Retired" /\ r.transition = "retire" /\ CanRetire(u, v)
              \/ c = "Novice" /\ r.transition = "demote" /\ CanDemote(u, v)
              \/ c = "Understudy" /\ r.transition = "promote" /\ CanBecomeUnderstudy(u, v)
              \/ c = "Artisan" /\ r.transition = "promote" /\ CanBecomeArtisan(u, v)
              \/ c = u.currentClass /\ r.transition = "none"
  <1> DEFINE u == UpdateCounters(s, v)
  <1>1. u \in ClassState
    BY UpdateCountersFacts
  <1> HIDE DEF u
  <1>2. \A c \in Classes, t \in Transitions :
            /\ Result(u, c, t).newState = [u EXCEPT !.currentClass = c]
            /\ Result(u, c, t).newState.currentClass = c
            /\ Result(u, c, t).transition = t
    BY <1>1 DEF Result, ClassState
  <1>3. \/ CanRetire(u, v) /\ ComputeClassTransition(s, v) = Result(u, "Retired", "retire")
        \/ CanDemote(u, v) /\ ComputeClassTransition(s, v) = Result(u, "Novice", "demote")
        \/ /\ CanBecomeUnderstudy(u, v)
           /\ ComputeClassTransition(s, v) = Result(u, "Understudy", "promote")
        \/ /\ CanBecomeArtisan(u, v)
           /\ ComputeClassTransition(s, v) = Result(u, "Artisan", "promote")
        \/ ComputeClassTransition(s, v) = Result(u, u.currentClass, "none")
    <2>1. CanRetire(u, v) => ~ CanDemote(u, v) /\ ~ CanBecomeUnderstudy(u, v)
                             /\ ~ CanBecomeArtisan(u, v)
      BY DEF CanRetire, CanDemote, CanBecomeUnderstudy, CanBecomeArtisan
    <2>2. CanDemote(u, v) => ~ CanBecomeUnderstudy(u, v) /\ ~ CanBecomeArtisan(u, v)
      BY DEF CanDemote, CanBecomeUnderstudy, CanBecomeArtisan
    <2>3. CanBecomeUnderstudy(u, v) => ~ CanBecomeArtisan(u, v)
      BY DEF CanBecomeUnderstudy, CanBecomeArtisan
    <2> QED
      BY <2>1, <2>2, <2>3 DEF ComputeClassTransition, u
  <1>4. u.currentClass \in Classes
    BY <1>1 DEF ClassState
  <1> QED
    BY <1>1, <1>2, <1>3, <1>4 DEF Classes, Transitions, u

\* The row a bot starts from is a class row.
LEMMA NewClassStateType == NewClassState \in ClassState
  BY DEF NewClassState, ClassState, Classes
===============================================================================
