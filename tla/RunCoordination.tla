---------------------------- MODULE RunCoordination ----------------------------
(* The coordination loop of one Ring Leader run.  An interval starts a poll    *)
(* whether or not the last one has ended, and a poll that launches a           *)
(* replacement bot waits for minutes: polls overlap.  Each takes a snapshot of *)
(* the sessions, routes results, reallocates failures, moves the budget tier,  *)
(* and ends the loop with a synthesis when its snapshot says so.  What an      *)
(* agent makes of its session is reported from outside.                        *)
EXTENDS Naturals, FiniteSets

CONSTANTS
    Sessions,    \* sessions of the registry when the loop starts
    Spares,      \* bots that may be spawned as replacements
    CoTasks,     \* the tasks of the mission brief
    WorkOf,      \* the task of each session in Sessions
    Polls,       \* polls that may be under way at the same time
    Levels,      \* percentages of the budget that are consumed, ascending
    MaxCoFaults  \* bound: failed queries, launches and syntheses

Agents == Sessions \cup Spares
ASSUME CoAssumption ==
    /\ WorkOf \in [Sessions -> CoTasks]
    /\ Sessions \cap Spares = {}
    /\ Levels \subseteq Nat /\ 0 \in Levels /\ MaxCoFaults \in Nat /\ IsFiniteSet(Polls)

VARIABLES
    session,    \* status of each session, "none" before it is registered
    job,        \* task of each registered session
    routed,     \* processedSessions of the intelligence router
    handled,    \* processedFailures of the failure reallocator
    tier, tierFresh, \* the budget tier, and that it changed less than a minute ago
    poll,       \* where each poll is
    seen,       \* the budget level each poll has read
    ending,     \* the poll's snapshot says that the loop is to end
    known,      \* allSessions of the poll's reallocator
    work,       \* sessions the current module of the poll has still to handle
    alone,      \* nobody else is active on the task of the session in hand
    interval,   \* the interval is set
    ring,       \* ring_leader_runs.status
    synthesis,  \* the synthesis each poll has started
    spent,      \* percentage of the budget consumed
    timeUp,     \* runtimeLimitSeconds have passed
    replaced,   \* history: replacements launched for each session
    coFaults

pollVars == <<poll, seen, ending, known, work, alone>>
ringVars == <<interval, ring, synthesis>>
envVars  == <<spent, timeUp>>
coVars   == <<session, job, routed, handled, tier, tierFresh, pollVars, ringVars,
              envVars, replaced, coFaults>>

Tiers == {"normal", "deprioritize", "consolidate", "wrap_up", "hard_stop"}

CoTypeOK ==
    /\ session \in [Agents -> {"none", "spawning", "active", "completed", "failed"}]
    /\ job \in [Agents -> CoTasks \cup {"none"}]
    /\ routed \subseteq Agents /\ handled \subseteq Agents
    /\ tier \in Tiers /\ tierFresh \in BOOLEAN
    /\ poll \in [Polls -> {"idle", "viewing", "routing", "reallocating", "looking",
                           "replacing", "saving", "announcing", "closing"}]
    /\ seen \in [Polls -> Levels]
    /\ ending \in [Polls -> BOOLEAN]
    /\ known \in [Polls -> SUBSET Agents]
    /\ work \in [Polls -> SUBSET Agents]
    /\ alone \in [Polls -> BOOLEAN]
    /\ interval \in BOOLEAN
    /\ ring \in {"coordinating", "synthesizing", "completed"}
    /\ synthesis \in [Polls -> {"none", "writing", "written", "lost"}]
    /\ spent \in Levels /\ timeUp \in BOOLEAN
    /\ replaced \in [Agents -> Nat]
    /\ coFaults \in 0..MaxCoFaults

CoInit ==
    /\ session = [a \in Agents |-> IF a \in Sessions THEN "active" ELSE "none"]
    /\ job = [a \in Agents |-> IF a \in Sessions THEN WorkOf[a] ELSE "none"]
    /\ routed = {} /\ handled = {}
    /\ tier = "normal" /\ tierFresh = FALSE
    /\ poll = [k \in Polls |-> "idle"]
    /\ seen = [k \in Polls |-> 0]
    /\ ending = [k \in Polls |-> FALSE]
    /\ known = [k \in Polls |-> {}]
    /\ work = [k \in Polls |-> {}]
    /\ alone = [k \in Polls |-> FALSE]
    /\ interval = TRUE
    /\ ring = "coordinating"
    /\ synthesis = [k \in Polls |-> "none"]
    /\ spent = 0 /\ timeUp = FALSE
    /\ replaced = [a \in Agents |-> 0]
    /\ coFaults = 0

CoFault == coFaults < MaxCoFaults /\ coFaults' = coFaults + 1

Goes(k, step) == poll' = [poll EXCEPT ![k] = step]

\* A poll returns: what it has read is gone.
Returns(k) ==
    /\ Goes(k, "idle")
    /\ seen' = [seen EXCEPT ![k] = 0]
    /\ ending' = [ending EXCEPT ![k] = FALSE]
    /\ known' = [known EXCEPT ![k] = {}]
    /\ work' = [work EXCEPT ![k] = {}]
    /\ alone' = [alone EXCEPT ![k] = FALSE]

-------------------------------------------------------------------------------
(* The world around the loop. *)

Busy(a) == session[a] \in {"spawning", "active"}

SessionEnds(a) ==
    /\ Busy(a)
    /\ \E end \in {"completed", "failed"} : session' = [session EXCEPT ![a] = end]
    /\ UNCHANGED <<job, routed, handled, tier, tierFresh, pollVars, ringVars, envVars,
                   replaced, coFaults>>

Spend ==
    /\ \E level \in Levels : spent < level /\ spent' = level
    /\ UNCHANGED <<session, job, routed, handled, tier, tierFresh, pollVars, ringVars,
                   timeUp, replaced, coFaults>>

Time ==
    /\ \/ ~timeUp /\ timeUp' = TRUE /\ UNCHANGED tierFresh
       \/ tierFresh /\ tierFresh' = FALSE /\ UNCHANGED timeUp
    /\ UNCHANGED <<session, job, routed, handled, tier, pollVars, ringVars, spent,
                   replaced, coFaults>>

-------------------------------------------------------------------------------
(* The snapshot: buildRunState. *)

OnTask(t) == {a \in Agents : session[a] # "none" /\ job[a] = t}
ActiveTasks == {t \in CoTasks : \E a \in OnTask(t) : Busy(a)}

\* Mutant of RunComplete: a task is done as soon as an agent has it.
RunCompleteStaffed == \A t \in CoTasks : OnTask(t) # {}

\* A task is complete or failed when it has sessions and none of them is busy; one
\* whose launches all failed has no session and stays "queued".
RunComplete == \A t \in CoTasks : OnTask(t) # {} /\ t \notin ActiveTasks

\* The clock and the tokens are read first.
Poll(k) ==
    /\ interval /\ poll[k] = "idle"
    /\ seen' = [seen EXCEPT ![k] = spent]
    /\ ending' = [ending EXCEPT ![k] = timeUp]
    /\ Goes(k, "viewing")
    /\ UNCHANGED <<session, job, routed, handled, tier, tierFresh, known, work, alone,
                   ringVars, envVars, replaced, coFaults>>

\* Mutant of Ends: only a finished run ends.
EndsComplete(k) == RunComplete

Ends(k) == RunComplete \/ ending[k]

\* The snapshot, and the intelligence router's pick from it.
View(k) ==
    /\ poll[k] = "viewing"
    /\ ending' = [ending EXCEPT ![k] = Ends(k)]
    /\ work' = [work EXCEPT ![k] = {a \in Agents : session[a] = "completed"} \ routed]
    /\ Goes(k, "routing")
    /\ UNCHANGED <<session, job, routed, handled, tier, tierFresh, seen, known, alone,
                   ringVars, envVars, replaced, coFaults>>

-------------------------------------------------------------------------------
(* The coordination modules, in their order.                                   *)

\* The failure reallocator starts as soon as the router is through.
StartReallocation(k) ==
    /\ known' = [known EXCEPT ![k] = {a \in Agents : session[a] # "none"}]
    /\ work' = [work EXCEPT ![k] = {a \in Agents : session[a] = "failed"} \ handled]
    /\ Goes(k, "reallocating")
    /\ UNCHANGED <<session, job, handled, tier, tierFresh, seen, ending, alone, ringVars,
                   envVars, replaced>>

\* Results have been inserted for each task they matter to, or for none; an insert
\* that fails is passed over.
Route(k) ==
    /\ poll[k] = "routing"
    /\ routed' = routed \cup work[k]
    /\ UNCHANGED coFaults
    /\ StartReallocation(k)

\* The results cannot be read: the sessions stay unmarked.
RouteFails(k) ==
    /\ poll[k] = "routing" /\ work[k] # {}
    /\ CoFault
    /\ UNCHANGED routed
    /\ StartReallocation(k)

\* The session in hand stays in work until its handler has returned.
InHand(k) == CHOOSE a \in work[k] : TRUE

LookAt(k) ==
    /\ poll[k] = "reallocating" /\ work[k] # {}
    /\ alone' = [alone EXCEPT ![k] =
          ~ \E a \in known[k] : job[a] = job[InHand(k)] /\ Busy(a)]
    /\ Goes(k, "looking")
    /\ UNCHANGED <<session, job, routed, handled, tier, tierFresh, seen, ending,
                   known, work, ringVars, envVars, replaced, coFaults>>

\* Mutant of Handle: a failure that was replaced is not marked.
HandleUnmarked(k) ==
    /\ handled' = IF poll[k] = "replacing" THEN handled ELSE handled \cup {InHand(k)}
    /\ work' = [work EXCEPT ![k] = @ \ {InHand(k)}]
    /\ alone' = [alone EXCEPT ![k] = FALSE]
    /\ Goes(k, "reallocating")

\* "Always mark processed even if the handler threw".
Handle(k) ==
    /\ handled' = handled \cup {InHand(k)}
    /\ work' = [work EXCEPT ![k] = @ \ {InHand(k)}]
    /\ alone' = [alone EXCEPT ![k] = FALSE]
    /\ Goes(k, "reallocating")

ReplacementAllowed(k) == alone[k] /\ seen[k] < 80

\* The bot's error message has been read, or could not be: a soul-driven guardrail is
\* left to a review.
Decide(k) ==
    /\ poll[k] = "looking"
    /\ \E guardrail \in {"none", "soul-driven", "context-driven"} :
         IF guardrail # "soul-driven" /\ ReplacementAllowed(k)
         THEN Goes(k, "replacing") /\ UNCHANGED <<handled, work, alone>>
         ELSE Handle(k)
    /\ UNCHANGED <<session, job, routed, tier, tierFresh, seen, ending, known, ringVars,
                   envVars, replaced, coFaults>>

\* spawnBot has returned, minutes later.
Replace(k) ==
    /\ poll[k] = "replacing"
    /\ \E b \in Spares :
          /\ session[b] = "none"
          /\ session' = [session EXCEPT ![b] = "spawning"]
          /\ job' = [job EXCEPT ![b] = job[InHand(k)]]
    /\ replaced' = [replaced EXCEPT ![InHand(k)] = @ + 1]
    /\ Handle(k)
    /\ UNCHANGED <<routed, tier, tierFresh, seen, ending, known, ringVars, envVars,
                   coFaults>>

\* The launch fails.  Without a spare left the model, too, has no other outcome.
ReplaceFails(k) ==
    /\ poll[k] = "replacing"
    /\ IF \E b \in Spares : session[b] = "none" THEN CoFault ELSE UNCHANGED coFaults
    /\ Handle(k)
    /\ UNCHANGED <<session, job, routed, tier, tierFresh, seen, ending, known, ringVars,
                   envVars, replaced>>

TierFrom(percent) ==
    IF percent >= 95 THEN "hard_stop" ELSE IF percent >= 85 THEN "wrap_up"
    ELSE IF percent >= 70 THEN "consolidate" ELSE IF percent >= 55 THEN "deprioritize"
    ELSE "normal"

\* Early completions and the drift of the objective only make events.  A projected
\* overrun warns early; a tier holds for a minute.  What was read is not read again.
Degrade(k) ==
    /\ poll[k] = "reallocating" /\ work[k] = {}
    /\ \E next \in {TierFrom(seen[k])} \cup
                   (IF TierFrom(seen[k]) = "normal" THEN {"deprioritize"} ELSE {}) :
         IF seen[k] > 0 /\ next # tier /\ ~tierFresh
         THEN tier' = next /\ tierFresh' = TRUE
         ELSE UNCHANGED <<tier, tierFresh>>
    /\ seen' = [seen EXCEPT ![k] = 0]
    /\ known' = [known EXCEPT ![k] = {}]
    /\ Goes(k, "saving")
    /\ UNCHANGED <<session, job, routed, handled, ending, work, alone, ringVars, envVars,
                   replaced, coFaults>>

-------------------------------------------------------------------------------
(* The end of a poll, and of the loop.                                         *)

\* The run state is written.
Save(k) ==
    /\ poll[k] = "saving"
    /\ IF ending[k]
       THEN Goes(k, "announcing") /\ UNCHANGED <<seen, ending, known, work, alone>>
       ELSE Returns(k)
    /\ UNCHANGED <<session, job, routed, handled, tier, tierFresh, ringVars, envVars,
                   replaced, coFaults>>

Announce(k) ==
    /\ poll[k] = "announcing"
    /\ ring' = "synthesizing"
    /\ Goes(k, "closing")
    /\ UNCHANGED <<session, job, routed, handled, tier, tierFresh, seen, ending, known,
                   work, alone, interval, synthesis, envVars, replaced, coFaults>>

\* The manifest is read, the synthesis started and the interval cleared; another poll
\* in flight goes on.
Close(k) ==
    /\ poll[k] = "closing"
    /\ synthesis' = [synthesis EXCEPT ![k] = "writing"]
    /\ interval' = FALSE
    /\ Returns(k)
    /\ UNCHANGED <<session, job, routed, handled, tier, tierFresh, ring, envVars,
                   replaced, coFaults>>

\* A write or a read throws: the poll ends and the next one tries again.
PollThrows(k) ==
    /\ poll[k] \in {"saving", "announcing", "closing"}
    /\ CoFault
    /\ Returns(k)
    /\ UNCHANGED <<session, job, routed, handled, tier, tierFresh, ringVars, envVars,
                   replaced>>

\* With or without the model's help, the document is written.
WriteSynthesis(k) ==
    /\ synthesis[k] = "writing"
    /\ ring' = "completed"
    /\ synthesis' = [synthesis EXCEPT ![k] = "written"]
    /\ UNCHANGED <<session, job, routed, handled, tier, tierFresh, pollVars, interval,
                   envVars, replaced, coFaults>>

SynthesisThrows(k) ==
    /\ synthesis[k] = "writing"
    /\ CoFault
    /\ synthesis' = [synthesis EXCEPT ![k] = "lost"]
    /\ UNCHANGED <<session, job, routed, handled, tier, tierFresh, pollVars, interval,
                   ring, envVars, replaced>>

PollNext(k) ==
    \/ Poll(k) \/ View(k) \/ Route(k)
    \/ LookAt(k) \/ Decide(k) \/ Replace(k) \/ Degrade(k)
    \/ Save(k) \/ Announce(k) \/ Close(k) \/ WriteSynthesis(k)

PollTroubles(k) ==
    RouteFails(k) \/ ReplaceFails(k) \/ PollThrows(k) \/ SynthesisThrows(k)

CoNext ==
    \/ \E a \in Agents : SessionEnds(a)
    \/ Spend \/ Time
    \/ \E k \in Polls : PollNext(k) \/ PollTroubles(k)

\* The interval fires, a poll under way goes on, a launch returns or throws, and time
\* passes.
CoFairness ==
    WF_coVars(Time) /\ \A k \in Polls : WF_coVars(PollNext(k) \/ ReplaceFails(k))

CoSpec == CoInit /\ [][CoNext]_coVars
CoLiveSpec == CoSpec /\ CoFairness

-------------------------------------------------------------------------------
(* Properties. *)

\* Polls that are launching a replacement of the agent.
Replacing(a) == {k \in Polls : poll[k] = "replacing" /\ InHand(k) = a}

\* A failed agent is replaced once for each poll that was under way when its
\* failure was found, and never again: the set of handled failures is written after
\* the launch, and still bounds what overlapping polls launch.
ReplacedOncePerPoll ==
    \A a \in Agents : replaced[a] + Cardinality(Replacing(a)) <= Cardinality(Polls)

\* The loop ends, whatever throws, and the run with it: the polls that overlap at its
\* end write "synthesizing" over each other's "completed", and the last of them still
\* leaves "completed".  Only a failure after the interval was cleared can stop that.
RunEnds == <>[](~interval /\ (ring = "completed" \/ coFaults > 0))

\* "... have reached a terminal state (complete or failed) and no agents remain active":
\* a poll reads the sessions, launches replacements for minutes, and only then clears the
\* interval.  Before the time limit the loop never closes over an agent the run began
\* with; a replacement launched by another poll, which the snapshot missed, may be left.
OnlyReplacementsLeft ==
    [][interval /\ ~interval' /\ ~timeUp => \A a \in Agents : Busy(a) => a \in Spares]_coVars
===============================================================================
