-------------------------------- MODULE Planner --------------------------------
(* From the language model's reply to an admitted task graph: the parser, the  *)
(* validation of the graph (Kahn's algorithm), the pre-flight checks of tools  *)
(* and budget, and the waves in which the agents of a graph are spawned.       *)
(* Every operator is a function of its arguments.                              *)
EXTENDS Naturals, Sequences, FiniteSets, SequencesExt

CONSTANTS
    TaskIds,      \* names the reply may give its tasks
    Tools,        \* tools it may ask for
    Minimum,      \* MIN_AGENTS_PER_TASK
    FallbackIds   \* "task-1", "task-2", ... of the flat fallback graph

Task == [id : TaskIds \cup FallbackIds, deps : SUBSET TaskIds, tools : SUBSET Tools]

Ids(plan) == {t.id : t \in ToSet(plan)}

\* The names that a task waits for: dag, read against its direction.
Upstream(plan, i) == UNION {t.deps : t \in {u \in ToSet(plan) : u.id = i}}

\* Round n takes the names that wait for nothing, or only for names of earlier rounds:
\* Kahn's queue (the order inside a round does not matter to what is left at the end)
\* and the waves of the spawner alike.
Rounds(plan) ==
    LET R[n \in Nat] ==
            IF n = 0 THEN {}
            ELSE R[n - 1] \cup {i \in Ids(plan) : Upstream(plan, i) \subseteq R[n - 1]}
    IN  R

\* The names that are ever taken off the queue.
Processed(plan) == Rounds(plan)[Cardinality(Ids(plan))]

\* Mutant of Valid: a cycle passes when nothing is missing.
ValidDangling(plan) == \A t \in ToSet(plan) : t.deps \subseteq Ids(plan)

\* validateTaskGraphDAG.  Two tasks of one name are processed once and make the
\* graph invalid, like a cycle.
Valid(plan) ==
    /\ \A t \in ToSet(plan) : t.deps \subseteq Ids(plan)
    /\ Cardinality(Processed(plan)) = Len(plan)

FallbackPlan == [k \in 1..Cardinality(FallbackIds) |->
                    [id |-> SetToSeq(FallbackIds)[k], deps |-> {}, tools |-> {}]]

\* parseObjectiveToTaskGraph: without any granted tool the reply's tools are kept.
Parsed(reply, granted) ==
    LET tasks == [k \in 1..Len(reply) |->
                    [reply[k] EXCEPT !.tools = IF granted = {} THEN @ ELSE @ \cap granted]]
    IN  IF Valid(tasks) THEN tasks ELSE FallbackPlan

\* validatePreFlight; a cap of 0 is no cap.
MinimumCost(plan, estimate) == Len(plan) * Minimum * estimate
Admitted(plan, granted, cap, estimate) ==
    /\ Valid(plan)
    /\ \A t \in ToSet(plan) : t.tools \subseteq granted
    /\ cap > 0 => MinimumCost(plan, estimate) <= cap

-------------------------------------------------------------------------------
(* computeSpawnWaves.                                                          *)

\* Mutant of WaveOf: two waves, the roots and the rest.
WaveOfRoots(plan) ==
    [i \in Ids(plan) |-> IF Upstream(plan, i) = {} THEN 1 ELSE 2]

\* The number of the wave each task is spawned in; what is left when a wave comes
\* out empty (a cycle, an unknown name) makes one last wave.
WaveOf(plan) ==
    LET N == Cardinality(Ids(plan))
        Full == {n \in 0..N : n = 0 \/ Rounds(plan)[n] # Rounds(plan)[n - 1]}
    IN  [i \in Ids(plan) |->
            IF i \in Processed(plan)
            THEN CHOOSE n \in 1..N : i \in Rounds(plan)[n] \ Rounds(plan)[n - 1]
            ELSE Cardinality(Full)]

\* Mutant of LastWave: one wave too many.
LastWaveAndOne(plan) == Cardinality({WaveOf(plan)[i] : i \in Ids(plan)}) + 1

LastWave(plan) == Cardinality({WaveOf(plan)[i] : i \in Ids(plan)})

-------------------------------------------------------------------------------
(* The reference: a plan is sound when its names are distinct and some ranking *)
(* of them puts every dependency before the task that waits for it.            *)

Sound(plan) ==
    /\ Cardinality(Ids(plan)) = Len(plan)
    /\ \E rank \in [Ids(plan) -> 1..Len(plan)] :
          \A t \in ToSet(plan) : \A d \in t.deps : d \in Ids(plan) /\ rank[d] < rank[t.id]
===============================================================================
