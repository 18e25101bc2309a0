------------------------------ MODULE Population ------------------------------
(* assemblePopulation: for one task of the mission brief after the other, the  *)
(* souls of the library that match it, a differentiated selection from them,   *)
(* pioneers where the library is too small, and at the end the budget gate,    *)
(* which exchanges and dismisses agents before it gives up.  What a soul costs *)
(* is fixed by its class; which souls are near a task, and near each other,    *)
(* is an input.                                                                *)
EXTENDS Naturals, Sequences, FiniteSets, SequencesExt

CONSTANTS
    Library,     \* the souls of the library, as a sequence by falling final rank;
                 \* the pioneers of earlier tasks are souls like the others
    Catalogues,  \* class and negative signals the library may have
    Likenesses,  \* pairs of souls that may be too similar to each other
    Complexity,  \* the complexity of each task, a sequence
    AgentEstimate, \* ESTIMATED_AGENT_COST_CENTS of the pre-flight check
    Budgets      \* budget caps of the mission brief that passed it

LibrarySouls == ToSet(Library)
Catalogue ==
    [LibrarySouls -> [class : {"Artisan", "Understudy", "Novice", "Retired"},
                      signalled : BOOLEAN]]

MIN_AGENTS == 3
PIONEERS   == 5
Pioneer(n) == [i \in 1..PIONEERS |-> <<"pioneer", n, i>>]

\* A soul is in the library once: the row of agent_classes it is joined with is unique.
ASSUME LibraryAssumption ==
    /\ Library \in Seq(LibrarySouls)
    /\ \A i, j \in 1..Len(Library) : Library[i] = Library[j] => i = j
    /\ \A n \in 1..Len(Complexity) : LibrarySouls \cap ToSet(Pioneer(n)) = {}

\* The transaction that retires a class writes a negative signal for its soul.
ASSUME CatalogueAssumption ==
    /\ Catalogues \subseteq Catalogue
    /\ \A c \in Catalogues : \A s \in LibrarySouls :
          c[s].class = "Retired" => c[s].signalled
    /\ \A r \in Likenesses : r \subseteq LibrarySouls \X LibrarySouls

ASSUME MissionAssumption ==
    /\ Complexity \in Seq({"low", "medium", "high"})
    /\ AgentEstimate \in Nat /\ Budgets \subseteq Nat

VARIABLES
    soul,       \* class and negative signals of each soul of the library
    alike,      \* pairs of souls whose embeddings are too similar
    cap,        \* budgetCapCents
    manifests,  \* PopulationManifest[], as far as it is assembled
    outcome     \* "assembling", "spawning" or "failed"

popVars == <<soul, alike, cap, manifests, outcome>>

AgentCost(class) ==
    CASE class = "Artisan" -> 100 [] class = "Understudy" -> 50 [] class = "Novice" -> 30

Recommended(n) ==
    CASE Complexity[n] = "low" -> 3 [] Complexity[n] = "medium" -> 4
      [] Complexity[n] = "high" -> 5

\* The pre-flight check of the budget, over the whole graph.
PreFlightFunds(budget) ==
    budget = 0 \/ Len(Complexity) * MIN_AGENTS * AgentEstimate <= budget

PopInit ==
    /\ soul \in Catalogues
    /\ alike \in Likenesses
    /\ cap \in {c \in Budgets : PreFlightFunds(c)}
    /\ manifests = <<>>
    /\ outcome = "assembling"

-------------------------------------------------------------------------------
(* searchSoulLibrary.                                                          *)

\* What is not Artisan or Understudy, no class row included, is a Novice here.
ClassOf(s) == IF soul[s].class \in {"Artisan", "Understudy"} THEN soul[s].class ELSE "Novice"

\* The elements of a sequence that are in a set, in their order.
Kept(s, good) ==
    LET kept[k \in 0..Len(s)] ==
            IF k = 0 THEN <<>>
            ELSE IF s[k] \in good THEN Append(kept[k - 1], s[k]) ELSE kept[k - 1]
    IN  kept[Len(s)]

\* near: the souls of the category that are similar enough and know the tools.
Search(n, near) ==
    LET fits  == {s \in near : /\ ~soul[s].signalled
                               /\ Complexity[n] = "high" => ClassOf(s) # "Novice"}
        found == Kept(Library, fits)
    IN  SubSeq(found, 1, IF Len(found) < 2 * Recommended(n) THEN Len(found)
                         ELSE 2 * Recommended(n))

-------------------------------------------------------------------------------
(* selectFromPool.                                                             *)

TooSimilar(s, t) == <<s, t>> \in alike \/ <<t, s>> \in alike

\* CLASS_PRIORITY first; within a class the order of the library stays.
OfClass(class) == {s \in LibrarySouls : ClassOf(s) = class}
ByClass(pool) ==
    Kept(pool, OfClass("Artisan")) \o Kept(pool, OfClass("Understudy"))
                                   \o Kept(pool, OfClass("Novice"))

\* Mutant of Take: the new soul is compared with the last one only.
TakeNext(n, chosen, s) ==
    IF Len(chosen) >= Recommended(n) \/ (chosen # <<>> /\ TooSimilar(s, Last(chosen)))
    THEN chosen ELSE Append(chosen, s)

Take(n, chosen, s) ==
    IF Len(chosen) >= Recommended(n) \/ \E t \in ToSet(chosen) : TooSimilar(s, t)
    THEN chosen ELSE Append(chosen, s)

Select(n, pool) ==
    LET ranked == ByClass(pool)
        chosen[k \in 0..Len(ranked)] ==
            IF k = 0 THEN <<>> ELSE Take(n, chosen[k - 1], ranked[k])
    IN  chosen[Len(ranked)]

-------------------------------------------------------------------------------
(* One task of assemblePopulation.                                             *)

Agent(s) == [soul |-> s, class |-> IF s \in LibrarySouls THEN ClassOf(s) ELSE "Novice"]
AgentsOf(souls) == [i \in 1..Len(souls) |-> Agent(souls[i])]

\* The mutation of a high-complexity task changes neither soul nor class.
Staff(n, near) ==
    LET pool   == Search(n, near)
        chosen == Select(n, pool)
    IN  IF Len(pool) < MIN_AGENTS THEN Pioneer(n)
        ELSE IF Len(chosen) < MIN_AGENTS
             THEN chosen \o SubSeq(Pioneer(n), 1, MIN_AGENTS - Len(chosen))
             ELSE chosen

AssembleTask ==
    /\ outcome = "assembling" /\ Len(manifests) < Len(Complexity)
    /\ \E near \in SUBSET LibrarySouls :
          manifests' = Append(manifests, AgentsOf(Staff(Len(manifests) + 1, near)))
    /\ UNCHANGED <<soul, alike, cap, outcome>>

-------------------------------------------------------------------------------
(* validateBudget.                                                             *)

Total(s) ==
    LET sum[k \in 0..Len(s)] == IF k = 0 THEN 0 ELSE sum[k - 1] + s[k]
    IN  sum[Len(s)]

TaskCost(agents) == Total([i \in 1..Len(agents) |-> AgentCost(agents[i].class)])
Cost(plan)       == Total([n \in 1..Len(plan) |-> TaskCost(plan[n])])

Exchanged(plan) ==
    [n \in 1..Len(plan) |-> [i \in 1..Len(plan[n]) |->
        IF plan[n][i].class = "Artisan" THEN [plan[n][i] EXCEPT !.class = "Understudy"]
        ELSE plan[n][i]]]

\* Mutant of Dismissed: one agent too many stays.
DismissedTooFew(plan) ==
    [n \in 1..Len(plan) |-> IF Len(plan[n]) > MIN_AGENTS + 1
                            THEN SubSeq(plan[n], 1, MIN_AGENTS + 1) ELSE plan[n]]

Dismissed(plan) ==
    [n \in 1..Len(plan) |-> IF Len(plan[n]) > MIN_AGENTS
                            THEN SubSeq(plan[n], 1, MIN_AGENTS) ELSE plan[n]]

HasArtisan(plan) == \E n \in DOMAIN plan : \E i \in DOMAIN plan[n] : plan[n][i].class = "Artisan"

Reduced(plan) ==
    IF HasArtisan(plan) /\ Cost(Exchanged(plan)) <= cap
    THEN Exchanged(plan) ELSE Dismissed(Exchanged(plan))

Affordable(plan) == cap = 0 \/ Cost(plan) <= cap

ValidateBudget ==
    /\ outcome = "assembling" /\ Len(manifests) = Len(Complexity)
    /\ LET plan == IF Affordable(manifests) THEN manifests ELSE Reduced(manifests) IN
         IF Affordable(plan)
         THEN outcome' = "spawning" /\ manifests' = plan
         ELSE outcome' = "failed" /\ UNCHANGED manifests
    /\ UNCHANGED <<soul, alike, cap>>

PopNext == AssembleTask \/ ValidateBudget

PopSpec == PopInit /\ [][PopNext]_popVars

-------------------------------------------------------------------------------
(* Properties. *)

\* The pre-flight check and the budget gate, written apart from each other, agree: a
\* mission whose budget passed the first is never refused by the second, whatever
\* classes the library offered, as long as the estimate per agent, which the environment
\* sets and the first check alone reads, is not below the price of an Understudy.
AdmittedIsFunded == AgentEstimate >= AgentCost("Understudy") => outcome # "failed"

\* Every task that has been staffed has three to five distinct souls, none with a
\* negative signal, and those from the library differ from one another.
StaffedSoundly ==
    \A n \in DOMAIN manifests :
        LET agents == manifests[n]
            souls  == {agents[i].soul : i \in DOMAIN agents}
        IN  /\ Len(agents) \in MIN_AGENTS..5
            /\ Cardinality(souls) = Len(agents)
            /\ \A s \in souls \cap LibrarySouls : ~soul[s].signalled
            /\ \A s, t \in souls \cap LibrarySouls : s # t => ~TooSimilar(s, t)
===============================================================================
