---------------------------- MODULE CampaignProofs ----------------------------
(* The evolution campaign implements the loop of CampaignLoop, for every       *)
(* maximum, budget, number of hooks, attempts and faults.                      *)
EXTENDS EvolutionCampaign, FiniteSetTheorems, TLAPS

\* The iterations are 1 to the last, and all but the last have been scored, met no halt
\* criterion and handed over to the job of the next one.
RowsInOrder ==
    /\ 1 \in Rows
    /\ \A n \in Rows, m \in Numbers : m < n =>
          m \in Rows /\ Row(m).completedAt /\ Row(m).haltedReason = NULL /\ job[m] # "none"
    /\ \A n \in Rows : ~Row(n).completedAt => Row(n).haltedReason = NULL

JobsSound ==
    \A n \in Numbers : job[n] # "none" =>
        /\ n \in Rows /\ Row(n).completedAt /\ Row(n).haltedReason = NULL
        /\ n < MaxIterations
        /\ job[n] \in {"inserting", "spawning"} => created[n] # NULL
        /\ job[n] = "spawning" => n + 1 \in Rows /\ Row(n + 1).execution = created[n]

\* The hook that has claimed an iteration is alone with it until it stops or enqueues.
HooksSound ==
    \A h \in Hooks : hook[h].step # "idle" =>
        /\ Claimed(h) \in Rows /\ Row(Claimed(h)).completedAt /\ job[Claimed(h)] = "none"
        /\ hook[h].step # "stopping" => Row(Claimed(h)).haltedReason = NULL
        /\ hook[h].step = "stopping" => Row(Claimed(h)).haltedReason # NULL
        /\ hook[h].step = "continuing" => Claimed(h) < MaxIterations
        /\ \A g \in Hooks \ {h} : hook[g].step # "idle" => Claimed(g) # Claimed(h)

CampaignInv == TypeOK /\ RowsInOrder /\ JobsSound /\ HooksSound /\ OnlyIterationsRun

LEMMA Constants ==
    /\ MaxIterations \in Nat /\ MaxIterations >= 1 /\ MaxExecutions \in Nat
    /\ Attempts \in Nat /\ 1 \in Executions /\ 1 \in Numbers
    /\ Numbers \subseteq Nat /\ \A n \in Numbers : n >= 1 /\ n <= MaxIterations + 1
    /\ \A n \in Numbers : n < MaxIterations => n + 1 \in Numbers
    /\ \A n \in Nat : n + 1 \in Numbers => n = 0 \/ n \in Numbers
  BY CampaignAssumption DEF Numbers, Executions

LEMMA NewRow ==
    ASSUME NEW e \in Executions
    PROVE  /\ NewIteration(e) \in Iteration /\ NewIteration(e) # NULL
           /\ NewIteration(e).execution = e /\ ~NewIteration(e).completedAt
           /\ NewIteration(e).haltedReason = NULL
  <1>1. NewIteration(e) \in Iteration
    BY DEF NewIteration, Iteration
  <1>2. NewIteration(e) # NULL
    BY <1>1, NullIsNoRow
  <1> QED
    BY <1>1, <1>2 DEF NewIteration

LEMMA CampaignStart == Init => CampaignInv
  <1> SUFFICES ASSUME Init PROVE CampaignInv
    OBVIOUS
  <1>1. NewIteration(1) \in Iteration /\ NewIteration(1) # NULL
    BY Constants, NewRow
  <1>2. TypeOK
    BY <1>1, Constants DEF Init, TypeOK, CampaignStatuses, Phases, Idle, HookSteps, JobSteps
  <1>3. Rows = {1} /\ Row(1) = NewIteration(1)
    BY <1>1, Constants DEF Init, Rows, Row
  <1>4. RowsInOrder
    BY <1>3, Constants, NewRow DEF Init, RowsInOrder
  <1>5. JobsSound /\ HooksSound
    BY DEF Init, JobsSound, HooksSound, Idle
  <1>6. OnlyIterationsRun
    BY <1>3, Constants, NewRow DEF Init, OnlyIterationsRun
  <1> QED
    BY <1>2, <1>4, <1>5, <1>6 DEF CampaignInv

\* What the claim leaves alone of the row.
LEMMA RowClaimed ==
    ASSUME NEW r \in Iteration
    PROVE  LET new == [r EXCEPT !.completedAt = TRUE]
           IN  /\ new \in Iteration /\ new # NULL /\ new.completedAt
               /\ new.execution = r.execution /\ new.haltedReason = r.haltedReason
  <1>1. \A new \in Iteration : new # NULL
    BY NullIsNoRow
  <1> QED
    BY <1>1 DEF Iteration

\* The shape of a step on one row: what it says of the others.
RowsSame ==
    /\ Rows' = Rows
    /\ \A n \in Rows : /\ Row(n).execution' = Row(n).execution
                       /\ Row(n).completedAt' = Row(n).completedAt
                       /\ Row(n).haltedReason' = Row(n).haltedReason

LEMMA RowsKept == UNCHANGED iteration => RowsSame
  BY DEF RowsSame, Rows, Row

\* A step of the executions, of a hook that has nothing to say to the jobs, or of a job that
\* has nothing to say to the rows.
LEMMA SameRowsStep ==
    ASSUME CampaignInv, TypeOK', RowsSame, OnlyIterationsRun',
           \A n \in Numbers : /\ job[n] # "none" <=> job'[n] # "none"
                              /\ job'[n] = "inserting" => created'[n] # NULL
                              /\ job'[n] = "spawning" =>
                                    job[n] = "spawning" /\ created'[n] = created[n],
           \A h \in Hooks : hook'[h].step # "idle" =>
                 /\ hook[h].step # "idle" /\ hook'[h].num = hook[h].num
                 /\ hook'[h].step = "stopping" => hook[h].step = "stopping"
                 /\ hook[h].step = "stopping" => hook'[h].step = "stopping"
                 /\ hook'[h].step = "continuing" => Claimed(h) < MaxIterations
    PROVE  CampaignInv'
  <1>1. RowsInOrder'
    BY DEF CampaignInv, RowsInOrder, RowsSame
  <1>2. JobsSound'
    BY DEF CampaignInv, JobsSound, RowsSame
  <1>3. HooksSound'
    BY DEF CampaignInv, HooksSound, RowsSame, Claimed, TypeOK
  <1> QED
    BY <1>1, <1>2, <1>3 DEF CampaignInv

LEMMA DeltaTyped ==
    ASSUME TypeOK, NEW n \in Numbers, NEW efs \in EfsScores
    PROVE  Delta(n, efs) \in Int \cup {NULL}
  <1>1. \A m \in Rows : Row(m).efs \in EfsScores \cup {NULL}
    BY DEF TypeOK, Rows, Row, Iteration
  <1>2. PreviousEfs(n) \in EfsScores \cup {NULL}
    BY <1>1 DEF PreviousEfs
  <1>3. \A a, b \in EfsScores : a - b \in Int
    BY CampaignAssumption
  <1> QED
    BY <1>2, <1>3 DEF Delta

LEMMA HaltReasonTyped ==
    ASSUME NEW n \in Numbers, NEW efs
    PROVE  /\ HaltReason(n, efs) \in HaltReasons \cup {NULL}
           /\ HaltReason(n, efs) = NULL => n < MaxIterations
  <1>1. CASE efs >= SuccessCeiling
    <2>1. HaltReason(n, efs) = "completed_success"
      BY <1>1 DEF HaltReason
    <2> QED
      BY <2>1, NullIsNoRow DEF HaltReasons
  <1>2. CASE ~(efs >= SuccessCeiling) /\ AtMaximum(n)
    <2>1. HaltReason(n, efs) = "completed_max"
      BY <1>2 DEF HaltReason
    <2> QED
      BY <2>1, NullIsNoRow DEF HaltReasons
  <1>3. CASE ~(efs >= SuccessCeiling) /\ ~AtMaximum(n)
    <2>1. HaltReason(n, efs) \in {"halted_budget", "halted_regression", "halted_plateau", NULL}
      BY <1>3 DEF HaltReason
    <2>2. n < MaxIterations
      BY <1>3, Constants DEF AtMaximum
    <2> QED
      BY <2>1, <2>2 DEF HaltReasons
  <1> QED
    BY <1>1, <1>2, <1>3

LEMMA RowTyped ==
    ASSUME TypeOK, NEW n \in Rows
    PROVE  n \in Numbers /\ Row(n) = iteration[n] /\ Row(n) \in Iteration
  BY DEF TypeOK, Rows, Row

\* The executions: the user and the council.
LEMMA ExecutionStep ==
    ASSUME CampaignInv, NEW e \in Executions,
           \/ UserConfirms(e) \/ UserStops(e) \/ \E cost \in Costs : VerdictsClose(e, cost)
    PROVE  CampaignInv'
  <1>1. /\ UNCHANGED <<status, completed, best, iteration, hook, job, created, failures,
                       stalled, faults, hookFailed>>
        /\ \E new \in Phases : /\ phase' = [phase EXCEPT ![e] = new]
                               /\ phase[e] \in {"pre_flight", "running"} \/ new = "stopped"
        /\ \/ UNCHANGED spend
           \/ \E cost \in Costs : spend' = [spend EXCEPT ![e] = cost]
    <2>1. CASE UserConfirms(e)
      BY <2>1 DEF UserConfirms, campaignVars, jobVars, Phases
    <2>2. CASE UserStops(e)
      BY <2>2 DEF UserStops, campaignVars, jobVars, Phases
    <2>3. CASE \E cost \in Costs : VerdictsClose(e, cost)
      <3>1. PICK cost \in Costs : VerdictsClose(e, cost)
        BY <2>3
      <3>2. phase[e] = "running" /\ phase' = [phase EXCEPT ![e] = "closed"]
        BY <3>1 DEF VerdictsClose
      <3> QED
        BY <3>1, <3>2 DEF VerdictsClose, campaignVars, jobVars, Phases
    <2> QED
      BY <2>1, <2>2, <2>3
  <1>2. phase' \in [Executions -> Phases] /\ spend' \in [Executions -> Nat]
    <2>1. phase \in [Executions -> Phases] /\ spend \in [Executions -> Nat]
      BY DEF CampaignInv, TypeOK
    <2>2. phase' \in [Executions -> Phases]
      BY <1>1, <2>1
    <2>3. \A cost \in Costs : cost \in Nat
      BY CampaignAssumption
    <2> QED
      BY <1>1, <2>1, <2>2, <2>3
  <1>3. TypeOK'
    BY <1>1, <1>2 DEF CampaignInv, TypeOK
  <1>4. RowsSame
    BY <1>1, RowsKept
  <1>5. OnlyIterationsRun'
    <2>1. \A f \in Executions : phase'[f] \in {"pre_flight", "running", "closed"}
              => phase[f] \in {"pre_flight", "running", "closed"}
      BY <1>1 DEF CampaignInv, TypeOK
    <2> QED
      BY <1>4, <2>1 DEF CampaignInv, OnlyIterationsRun, RowsSame
  <1>6. \A n \in Numbers : job[n] = "inserting" => created[n] # NULL
    BY DEF CampaignInv, JobsSound
  <1>7. \A h \in Hooks : hook[h].step = "continuing" => Claimed(h) < MaxIterations
    BY DEF CampaignInv, HooksSound
  <1> QED
    BY <1>1, <1>3, <1>4, <1>5, <1>6, <1>7, SameRowsStep

\* The claim of the hook, alone with the iteration that nobody has claimed before.
LEMMA ClaimStep ==
    ASSUME CampaignInv, NEW h \in Hooks, NEW n \in Numbers, HookClaims(h, n)
    PROVE  /\ CampaignInv' /\ Rows' = Rows /\ n \in Rows
           /\ ~Row(n).completedAt /\ Row(n).completedAt'
           /\ \A m \in Rows \ {n} : Row(m)' = Row(m)
           /\ \A m \in Rows : Row(m).haltedReason' = Row(m).haltedReason
  <1>1. /\ hook[h].step = "idle" /\ n \in Rows /\ ~Row(n).completedAt
        /\ iteration' = [iteration EXCEPT ![n].completedAt = TRUE]
        /\ hook' = [hook EXCEPT ![h] = [step |-> "claimed", num |-> n]]
        /\ UNCHANGED <<status, completed, best, phase, spend, job, created, failures,
                       stalled, faults, hookFailed>>
    BY DEF HookClaims, campaignVars, jobVars
  <1>2. Row(n) \in Iteration
    BY <1>1, RowTyped DEF CampaignInv
  <1> DEFINE new == [Row(n) EXCEPT !.completedAt = TRUE]
  <1>3. /\ new \in Iteration /\ new # NULL /\ new.completedAt
        /\ new.execution = Row(n).execution /\ new.haltedReason = Row(n).haltedReason
    BY <1>2, RowClaimed
  <1>4. iteration' = [iteration EXCEPT ![n] = new]
    BY <1>1 DEF Row
  <1> HIDE DEF new
  <1>5. /\ Row(n)' = new /\ \A m \in Numbers \ {n} : Row(m)' = Row(m)
        /\ iteration' \in [Numbers -> Iteration \cup {NULL}]
    BY <1>3, <1>4 DEF CampaignInv, TypeOK, Row
  <1>6. Rows' = Rows
    BY <1>1, <1>3, <1>5 DEF Rows
  <1>7. /\ hook' \in [Hooks -> [step : HookSteps, num : Numbers]]
        /\ hook'[h].step = "claimed" /\ hook'[h].num = n
        /\ \A g \in Hooks \ {h} : hook'[g] = hook[g]
    BY <1>1 DEF CampaignInv, TypeOK, HookSteps
  <1>8. TypeOK'
    BY <1>1, <1>5, <1>7 DEF CampaignInv, TypeOK
  <1>9. \A m \in Rows : /\ Row(m).execution' = Row(m).execution
                        /\ Row(m).haltedReason' = Row(m).haltedReason
                        /\ m # n => Row(m).completedAt' = Row(m).completedAt
    BY <1>3, <1>5 DEF Rows
  <1>10. \A g \in Hooks : hook[g].step # "idle" => Claimed(g) # n /\ Claimed(g) \in Rows
    BY <1>1 DEF CampaignInv, HooksSound
  <1>11. job[n] = "none" /\ Row(n).haltedReason = NULL
    BY <1>1 DEF CampaignInv, JobsSound, RowsInOrder
  <1>12. RowsInOrder'
    BY <1>1, <1>6, <1>9 DEF CampaignInv, RowsInOrder
  <1>13. JobsSound'
    BY <1>1, <1>6, <1>9 DEF CampaignInv, JobsSound
  <1>14. HooksSound'
    <2>1. ASSUME NEW g \in Hooks, hook'[g].step # "idle"
          PROVE  /\ Claimed(g)' \in Rows' /\ Row(Claimed(g)).completedAt'
                 /\ job'[Claimed(g)'] = "none"
                 /\ hook'[g].step # "stopping" => Row(Claimed(g)).haltedReason' = NULL
                 /\ hook'[g].step = "stopping" => Row(Claimed(g)).haltedReason' # NULL
                 /\ hook'[g].step = "continuing" => Claimed(g)' < MaxIterations
                 /\ \A f \in Hooks \ {g} :
                       hook'[f].step # "idle" => Claimed(f)' # Claimed(g)'
      <3>1. CASE g = h
        <4>1. Claimed(g)' = n
          BY <1>7, <3>1 DEF Claimed
        <4>2. Row(Claimed(g)).completedAt' /\ Row(Claimed(g)).haltedReason' = NULL
          BY <1>3, <1>5, <1>11, <4>1 DEF Row
        <4>3. \A f \in Hooks \ {g} : hook'[f].step # "idle" => Claimed(f)' # n
          BY <1>7, <1>10, <3>1 DEF Claimed
        <4> QED
          BY <1>1, <1>6, <1>7, <1>11, <3>1, <4>1, <4>2, <4>3
      <3>2. CASE g # h
        <4>1. Claimed(g)' = Claimed(g) /\ hook'[g].step = hook[g].step
          BY <1>7, <3>2 DEF Claimed
        <4>2. Claimed(g) \in Rows /\ Claimed(g) # n
          BY <1>10, <2>1, <4>1
        <4>3. Row(Claimed(g))' = Row(Claimed(g))
          BY <1>5, <4>1, <4>2 DEF Row, Rows
        <4>4. \A f \in Hooks \ {g} : hook'[f].step # "idle" => Claimed(f)' # Claimed(g)'
          BY <1>7, <2>1, <4>1, <4>2 DEF CampaignInv, HooksSound, Claimed
        <4> QED
          BY <1>1, <1>6, <2>1, <4>1, <4>2, <4>3, <4>4 DEF CampaignInv, HooksSound
      <3> QED
        BY <3>1, <3>2
    <2> QED
      BY <2>1 DEF HooksSound
  <1>15. OnlyIterationsRun'
    BY <1>1, <1>6, <1>9 DEF CampaignInv, OnlyIterationsRun
  <1> QED
    BY <1>1, <1>3, <1>5, <1>6, <1>8, <1>9, <1>12, <1>13, <1>14, <1>15 DEF CampaignInv, Rows

\* The two statements that say something of a row and not of its execution: the score, and
\* the reason to halt.
LEMMA RowWrite ==
    ASSUME TypeOK, NEW n \in Rows, NEW new \in Iteration,
           iteration' = [iteration EXCEPT ![n] = new]
    PROVE  /\ Rows' = Rows /\ Row(n)' = new
           /\ \A m \in Rows \ {n} : Row(m)' = Row(m)
           /\ iteration' \in [Numbers -> Iteration \cup {NULL}]
  BY NullIsNoRow DEF TypeOK, Rows, Row

\* A hook goes to another step with the iteration it has claimed.
LEMMA HookMoves ==
    ASSUME TypeOK, NEW h \in Hooks, NEW step \in HookSteps, hook' = At(h, step)
    PROVE  /\ hook' \in [Hooks -> [step : HookSteps, num : Numbers]]
           /\ hook'[h].step = step /\ hook'[h].num = hook[h].num
           /\ \A g \in Hooks \ {h} : hook'[g] = hook[g]
  BY DEF TypeOK, At

\* The hook returns.
LEMMA HookReturns ==
    ASSUME TypeOK, NEW h \in Hooks, hook' = [hook EXCEPT ![h] = Idle]
    PROVE  /\ hook' \in [Hooks -> [step : HookSteps, num : Numbers]]
           /\ hook'[h].step = "idle"
           /\ \A g \in Hooks \ {h} : hook'[g] = hook[g]
  BY Constants DEF TypeOK, Idle, HookSteps

\* What a step that leaves the jobs and the executions alone has to show for SameRowsStep.
LEMMA HookOnly ==
    ASSUME CampaignInv, UNCHANGED <<phase, job, created>>, RowsSame
    PROVE  /\ OnlyIterationsRun'
           /\ \A n \in Numbers : /\ job[n] # "none" <=> job'[n] # "none"
                                 /\ job'[n] = "inserting" => created'[n] # NULL
                                 /\ job'[n] = "spawning" =>
                                       job[n] = "spawning" /\ created'[n] = created[n]
  <1>1. OnlyIterationsRun'
    BY DEF CampaignInv, OnlyIterationsRun, RowsSame
  <1> QED
    BY <1>1 DEF CampaignInv, JobsSound

LEMMA PersistStep ==
    ASSUME CampaignInv, NEW h \in Hooks, NEW efs \in EfsScores, HookPersistsScore(h, efs)
    PROVE  CampaignInv' /\ RowsSame
  <1>0. PICK n, delta : n = Claimed(h) /\ delta = Delta(n, efs)
    OBVIOUS
  <1> DEFINE new == [Row(n) EXCEPT !.efs = efs, !.delta = delta]
  <1>1. /\ hook[h].step = "claimed" /\ hook' = At(h, "persisted")
        /\ iteration' = [iteration EXCEPT ![n] = new]
        /\ UNCHANGED <<status, completed, best, phase, spend, job, created, failures,
                       stalled, faults, hookFailed>>
    BY <1>0 DEF HookPersistsScore, campaignVars, jobVars, Row
  <1>2. n \in Rows /\ TypeOK
    BY <1>0, <1>1 DEF CampaignInv, HooksSound
  <1>3. Row(n) \in Iteration /\ n \in Numbers
    BY <1>2, RowTyped
  <1>4. delta \in Int \cup {NULL}
    BY <1>0, <1>2, <1>3, DeltaTyped
  <1>5. /\ new \in Iteration /\ new.completedAt = Row(n).completedAt
        /\ new.execution = Row(n).execution /\ new.haltedReason = Row(n).haltedReason
    BY <1>3, <1>4 DEF Iteration
  <1> HIDE DEF new
  <1>6. /\ Rows' = Rows /\ Row(n)' = new
        /\ \A m \in Rows \ {n} : Row(m)' = Row(m)
        /\ iteration' \in [Numbers -> Iteration \cup {NULL}]
    BY <1>1, <1>2, <1>5, RowWrite
  <1>7. RowsSame
    <2> SUFFICES ASSUME NEW m \in Rows
                 PROVE  /\ Row(m).execution' = Row(m).execution
                        /\ Row(m).completedAt' = Row(m).completedAt
                        /\ Row(m).haltedReason' = Row(m).haltedReason
      BY <1>6 DEF RowsSame
    <2>1. CASE m = n
      BY <1>5, <1>6, <2>1
    <2>2. CASE m # n
      BY <1>6, <2>2
    <2> QED
      BY <2>1, <2>2
  <1>8. /\ hook' \in [Hooks -> [step : HookSteps, num : Numbers]]
        /\ hook'[h].step = "persisted" /\ hook'[h].num = hook[h].num
        /\ \A g \in Hooks \ {h} : hook'[g] = hook[g]
    BY <1>1, <1>2, HookMoves DEF HookSteps
  <1>9. TypeOK'
    BY <1>1, <1>2, <1>6, <1>8 DEF TypeOK
  <1>10. \A g \in Hooks : hook'[g].step # "idle" =>
             /\ hook[g].step # "idle" /\ hook'[g].num = hook[g].num
             /\ hook'[g].step = "stopping" => hook[g].step = "stopping"
             /\ hook[g].step = "stopping" => hook'[g].step = "stopping"
             /\ hook'[g].step = "continuing" => Claimed(g) < MaxIterations
    BY <1>1, <1>8 DEF CampaignInv, HooksSound
  <1> QED
    BY <1>1, <1>7, <1>9, <1>10, HookOnly, SameRowsStep

LEMMA AggregateStep ==
    ASSUME CampaignInv, NEW h \in Hooks, HookUpdatesAggregates(h)
    PROVE  CampaignInv' /\ RowsSame
  <1>1. /\ hook[h].step = "persisted" /\ hook' = At(h, "counted")
        /\ completed' = completed + 1
        /\ best' = IF best = NULL \/ best < Efs(h) THEN Efs(h) ELSE best
        /\ UNCHANGED <<status, iteration, phase, spend, job, created, failures,
                       stalled, faults, hookFailed>>
    BY DEF HookUpdatesAggregates, jobVars
  <1>2. Claimed(h) \in Rows /\ TypeOK
    BY <1>1 DEF CampaignInv, HooksSound
  <1>3. Efs(h) \in EfsScores \cup {NULL}
    BY <1>2, RowTyped DEF Efs, Iteration
  <1>4. completed' \in Nat /\ best' \in EfsScores \cup {NULL}
    BY <1>1, <1>2, <1>3 DEF TypeOK
  <1>5. RowsSame
    BY <1>1, RowsKept
  <1>6. /\ hook' \in [Hooks -> [step : HookSteps, num : Numbers]]
        /\ hook'[h].step = "counted" /\ hook'[h].num = hook[h].num
        /\ \A g \in Hooks \ {h} : hook'[g] = hook[g]
    BY <1>1, <1>2, HookMoves DEF HookSteps
  <1>7. TypeOK'
    BY <1>1, <1>2, <1>4, <1>6 DEF TypeOK
  <1>8. \A g \in Hooks : hook'[g].step # "idle" =>
            /\ hook[g].step # "idle" /\ hook'[g].num = hook[g].num
            /\ hook'[g].step = "stopping" => hook[g].step = "stopping"
            /\ hook[g].step = "stopping" => hook'[g].step = "stopping"
            /\ hook'[g].step = "continuing" => Claimed(g) < MaxIterations
    BY <1>1, <1>6 DEF CampaignInv, HooksSound
  <1> QED
    BY <1>1, <1>5, <1>7, <1>8, HookOnly, SameRowsStep

\* The hook returns, with its status written or without: its iteration is left to no one.
LEMMA ReturnStep ==
    ASSUME CampaignInv, NEW h \in Hooks, HookStops(h) \/ HookFails(h)
    PROVE  /\ CampaignInv' /\ RowsSame
           /\ status' # status => status' \in HaltReasons
  <1>1. /\ hook[h].step # "idle" /\ hook' = [hook EXCEPT ![h] = Idle]
        /\ UNCHANGED <<completed, best, iteration, phase, spend, job, created, failures,
                       stalled>>
    BY DEF HookStops, HookFails, campaignVars, jobVars
  <1>2. /\ TypeOK /\ Claimed(h) \in Rows
        /\ hook[h].step = "stopping" => Row(Claimed(h)).haltedReason # NULL
    BY <1>1 DEF CampaignInv, HooksSound
  <1>3. Row(Claimed(h)).haltedReason \in HaltReasons \cup {NULL}
    BY <1>2, RowTyped DEF Iteration
  <1>4. status' = status \/ status' \in HaltReasons
    BY <1>2, <1>3 DEF HookStops, HookFails, campaignVars
  <1>5. status' \in CampaignStatuses
    BY <1>2, <1>4 DEF TypeOK, CampaignStatuses
  <1>6. faults' \in Nat /\ hookFailed' \in BOOLEAN
    <2>1. CASE HookStops(h)
      BY <1>2, <2>1 DEF HookStops, TypeOK
    <2>2. CASE HookFails(h)
      BY <1>2, <2>2 DEF HookFails, Fault, TypeOK
    <2> QED
      BY <2>1, <2>2
  <1>7. RowsSame
    BY <1>1, RowsKept
  <1>8. /\ hook' \in [Hooks -> [step : HookSteps, num : Numbers]]
        /\ hook'[h].step = "idle" /\ \A g \in Hooks \ {h} : hook'[g] = hook[g]
    BY <1>1, <1>2, HookReturns
  <1>9. TypeOK'
    BY <1>1, <1>2, <1>5, <1>6, <1>8 DEF TypeOK
  <1>10. \A g \in Hooks : hook'[g].step # "idle" =>
             /\ hook[g].step # "idle" /\ hook'[g].num = hook[g].num
             /\ hook'[g].step = "stopping" => hook[g].step = "stopping"
             /\ hook[g].step = "stopping" => hook'[g].step = "stopping"
             /\ hook'[g].step = "continuing" => Claimed(g) < MaxIterations
    BY <1>8 DEF CampaignInv, HooksSound
  <1> QED
    BY <1>1, <1>4, <1>7, <1>9, <1>10, HookOnly, SameRowsStep

\* The hook finds that the campaign goes on: the iteration was not the last one.
LEMMA GoesOnStep ==
    ASSUME CampaignInv, NEW h \in Hooks, HookEvaluates(h),
           HaltReason(Claimed(h), Efs(h)) = NULL
    PROVE  CampaignInv' /\ RowsSame
  <1>1. /\ hook[h].step = "counted" /\ hook' = At(h, "continuing")
        /\ UNCHANGED <<status, completed, best, iteration, phase, spend, job, created,
                       failures, stalled, faults, hookFailed>>
    BY DEF HookEvaluates, campaignVars, jobVars
  <1>2. Claimed(h) \in Numbers /\ TypeOK
    BY <1>1 DEF CampaignInv, HooksSound, Rows
  <1>3. Claimed(h) < MaxIterations
    BY <1>2, HaltReasonTyped
  <1>4. RowsSame
    BY <1>1, RowsKept
  <1>5. /\ hook' \in [Hooks -> [step : HookSteps, num : Numbers]]
        /\ hook'[h].step = "continuing" /\ hook'[h].num = hook[h].num
        /\ \A g \in Hooks \ {h} : hook'[g] = hook[g]
    BY <1>1, <1>2, HookMoves DEF HookSteps
  <1>6. TypeOK'
    BY <1>1, <1>2, <1>5 DEF TypeOK
  <1>7. \A g \in Hooks : hook'[g].step # "idle" =>
            /\ hook[g].step # "idle" /\ hook'[g].num = hook[g].num
            /\ hook'[g].step = "stopping" => hook[g].step = "stopping"
            /\ hook[g].step = "stopping" => hook'[g].step = "stopping"
            /\ hook'[g].step = "continuing" => Claimed(g) < MaxIterations
    BY <1>1, <1>3, <1>5 DEF CampaignInv, HooksSound
  <1> QED
    BY <1>1, <1>4, <1>6, <1>7, HookOnly, SameRowsStep

\* The hook finds a reason to halt, and records it with an iteration that no job follows.
LEMMA HaltsStep ==
    ASSUME CampaignInv, NEW h \in Hooks, HookEvaluates(h),
           HaltReason(Claimed(h), Efs(h)) # NULL
    PROVE  /\ CampaignInv' /\ Rows' = Rows
           /\ \A m \in Rows : Row(m).completedAt' = Row(m).completedAt
           /\ \E m \in Rows : Row(m).haltedReason' # NULL
  <1>1. PICK n, reason : n = Claimed(h) /\ reason = HaltReason(n, Efs(h))
    OBVIOUS
  <1> DEFINE new == [Row(n) EXCEPT !.haltedReason = reason]
  <1>2. /\ hook[h].step = "counted" /\ hook' = At(h, "stopping")
        /\ iteration' = [iteration EXCEPT ![n] = new]
        /\ UNCHANGED <<status, completed, best, phase, spend, job, created, failures,
                       stalled, faults, hookFailed>>
    BY <1>1 DEF HookEvaluates, campaignVars, jobVars, Row
  <1>3. /\ n \in Rows /\ TypeOK /\ job[n] = "none" /\ Row(n).completedAt
        /\ \A g \in Hooks \ {h} : hook[g].step # "idle" => Claimed(g) # n
    BY <1>1, <1>2 DEF CampaignInv, HooksSound
  <1>4. Row(n) \in Iteration /\ n \in Numbers
    BY <1>3, RowTyped
  <1>5. reason \in HaltReasons
    BY <1>1, <1>4, HaltReasonTyped
  <1>6. /\ new \in Iteration /\ new.completedAt = Row(n).completedAt
        /\ new.execution = Row(n).execution /\ new.haltedReason = reason
    BY <1>4, <1>5 DEF Iteration
  <1> HIDE DEF new
  <1>7. /\ Rows' = Rows /\ Row(n)' = new
        /\ \A m \in Rows \ {n} : Row(m)' = Row(m)
        /\ iteration' \in [Numbers -> Iteration \cup {NULL}]
    BY <1>2, <1>3, <1>6, RowWrite
  <1>8. \A m \in Rows : /\ Row(m).execution' = Row(m).execution
                        /\ Row(m).completedAt' = Row(m).completedAt
                        /\ m # n => Row(m).haltedReason' = Row(m).haltedReason
    <2> TAKE m \in Rows
    <2>1. CASE m = n
      BY <1>6, <1>7, <2>1
    <2>2. CASE m # n
      BY <1>7, <2>2
    <2> QED
      BY <2>1, <2>2
  <1>9. Row(n).haltedReason' = reason /\ reason # NULL
    BY <1>5, <1>6, <1>7, NullIsNoRow
  <1>10. /\ hook' \in [Hooks -> [step : HookSteps, num : Numbers]]
         /\ hook'[h].step = "stopping" /\ hook'[h].num = hook[h].num
         /\ \A g \in Hooks \ {h} : hook'[g] = hook[g]
    BY <1>2, <1>3, HookMoves DEF HookSteps
  <1>11. TypeOK'
    BY <1>2, <1>3, <1>7, <1>10 DEF TypeOK
  <1>13. RowsInOrder'
    <2>1. \A m \in Rows, k \in Numbers : k < m => k # n
      BY <1>3, <1>4 DEF CampaignInv, RowsInOrder
    <2>2. \A m \in Rows, k \in Numbers : k < m =>
              k \in Rows' /\ Row(k).completedAt' /\ Row(k).haltedReason' = NULL
              /\ job'[k] # "none"
      BY <1>2, <1>7, <1>8, <2>1 DEF CampaignInv, RowsInOrder
    <2>3. \A m \in Rows : ~Row(m).completedAt' => Row(m).haltedReason' = NULL
      BY <1>3, <1>8 DEF CampaignInv, RowsInOrder
    <2> QED
      BY <1>7, <2>2, <2>3 DEF CampaignInv, RowsInOrder
  <1>14. JobsSound'
    BY <1>2, <1>3, <1>7, <1>8 DEF CampaignInv, JobsSound
  <1>15. HooksSound'
    <2> SUFFICES ASSUME NEW g \in Hooks, hook'[g].step # "idle"
                 PROVE  /\ Claimed(g)' \in Rows' /\ Row(Claimed(g)).completedAt'
                        /\ job'[Claimed(g)'] = "none"
                        /\ hook'[g].step # "stopping" => Row(Claimed(g)).haltedReason' = NULL
                        /\ hook'[g].step = "stopping" => Row(Claimed(g)).haltedReason' # NULL
                        /\ hook'[g].step = "continuing" => Claimed(g)' < MaxIterations
                        /\ \A f \in Hooks \ {g} :
                              hook'[f].step # "idle" => Claimed(f)' # Claimed(g)'
      BY DEF HooksSound
    <2>1. \A f \in Hooks : Claimed(f)' = Claimed(f) /\ (hook'[f].step # "idle"
                                                          <=> hook[f].step # "idle")
      BY <1>2, <1>10 DEF Claimed
    <2>2. CASE g = h
      <3>1. Claimed(g)' = n
        BY <1>1, <2>1, <2>2
      <3>2. Row(Claimed(g)).completedAt' /\ Row(Claimed(g)).haltedReason' # NULL
        BY <1>3, <1>6, <1>7, <1>9, <3>1 DEF Row
      <3>3. \A f \in Hooks \ {g} : hook'[f].step # "idle" => Claimed(f)' # n
        BY <1>3, <2>1, <2>2
      <3> QED
        BY <1>2, <1>3, <1>7, <1>10, <2>2, <3>1, <3>2, <3>3
    <2>3. CASE g # h
      <3>1. hook[g].step # "idle" /\ hook'[g] = hook[g] /\ Claimed(g) # n
        BY <1>3, <1>10, <2>1, <2>3
      <3>2. Claimed(g) \in Rows /\ Row(Claimed(g))' = Row(Claimed(g))
        BY <1>7, <2>1, <3>1 DEF CampaignInv, HooksSound, Row
      <3>3. \A f \in Hooks \ {g} : hook'[f].step # "idle" => Claimed(f)' # Claimed(g)'
        BY <2>1, <3>1 DEF CampaignInv, HooksSound
      <3> QED
        BY <1>2, <1>7, <2>1, <3>1, <3>2, <3>3 DEF CampaignInv, HooksSound
    <2> QED
      BY <2>2, <2>3
  <1>16. OnlyIterationsRun'
    BY <1>2, <1>7, <1>8 DEF CampaignInv, OnlyIterationsRun
  <1> QED
    BY <1>3, <1>7, <1>8, <1>9, <1>11, <1>13, <1>14, <1>15, <1>16 DEF CampaignInv

\* The hook hands its iteration over to the job of the next one.
LEMMA EnqueueStep ==
    ASSUME CampaignInv, NEW h \in Hooks, HookEnqueuesNext(h)
    PROVE  CampaignInv' /\ RowsSame
  <1>1. PICK n : n = Claimed(h)
    OBVIOUS
  <1>2. /\ hook[h].step = "continuing" /\ hook' = [hook EXCEPT ![h] = Idle]
        /\ job' = [job EXCEPT ![n] = "waiting"]
        /\ UNCHANGED <<status, completed, best, iteration, phase, spend, created, failures,
                       stalled, faults, hookFailed>>
    BY <1>1 DEF HookEnqueuesNext, campaignVars
  <1>3. /\ n \in Rows /\ TypeOK /\ job[n] = "none" /\ Row(n).completedAt
        /\ Row(n).haltedReason = NULL /\ n < MaxIterations
        /\ \A g \in Hooks \ {h} : hook[g].step # "idle" => Claimed(g) # n
    BY <1>1, <1>2 DEF CampaignInv, HooksSound
  <1>4. n \in Numbers
    BY <1>3, RowTyped
  <1>5. /\ job' \in [Numbers -> JobSteps] /\ job'[n] = "waiting"
        /\ \A m \in Numbers \ {n} : job'[m] = job[m]
    BY <1>2, <1>3, <1>4 DEF TypeOK, JobSteps
  <1>6. /\ hook' \in [Hooks -> [step : HookSteps, num : Numbers]]
        /\ hook'[h].step = "idle" /\ \A g \in Hooks \ {h} : hook'[g] = hook[g]
    BY <1>2, <1>3, HookReturns
  <1>7. RowsSame
    BY <1>2, RowsKept
  <1>8. TypeOK'
    BY <1>2, <1>3, <1>5, <1>6 DEF TypeOK
  <1>9. RowsInOrder'
    BY <1>5, <1>7 DEF CampaignInv, RowsInOrder, RowsSame
  <1>10. JobsSound'
    <2> SUFFICES ASSUME NEW m \in Numbers, job'[m] # "none"
                 PROVE  /\ m \in Rows' /\ Row(m).completedAt' /\ Row(m).haltedReason' = NULL
                        /\ m < MaxIterations
                        /\ job'[m] \in {"inserting", "spawning"} => created'[m] # NULL
                        /\ job'[m] = "spawning" =>
                              m + 1 \in Rows' /\ Row(m + 1).execution' = created'[m]
      BY DEF JobsSound
    <2>1. CASE m = n
      BY <1>3, <1>5, <1>7, <2>1 DEF RowsSame
    <2>2. CASE m # n
      BY <1>2, <1>5, <1>7, <2>2 DEF CampaignInv, JobsSound, RowsSame
    <2> QED
      BY <2>1, <2>2
  <1>11. HooksSound'
    <2>1. ASSUME NEW g \in Hooks, hook'[g].step # "idle"
          PROVE  hook'[g] = hook[g] /\ Claimed(g)' = Claimed(g) /\ Claimed(g) # n
      BY <1>3, <1>6, <2>1 DEF Claimed
    <2>2. \A g \in Hooks : hook'[g].step # "idle" =>
              Claimed(g) \in Numbers /\ job'[Claimed(g)] = job[Claimed(g)]
      BY <1>5, <2>1 DEF CampaignInv, HooksSound, Rows
    <2> QED
      BY <1>7, <2>1, <2>2 DEF CampaignInv, HooksSound, RowsSame
  <1>12. OnlyIterationsRun'
    BY <1>2, <1>7 DEF CampaignInv, OnlyIterationsRun, RowsSame
  <1> QED
    BY <1>7, <1>8, <1>9, <1>10, <1>11, <1>12 DEF CampaignInv

\* A statement of a job that inserts no row and spawns no Ring Leader.
LEMMA JobMoves ==
    ASSUME CampaignInv, NEW n \in Numbers, job[n] # "none",
           UNCHANGED <<completed, best, iteration, spend, hook, hookFailed>>,
           status' \in {status, "halted_error"}, OnlyIterationsRun',
           phase' \in [Executions -> Phases], created' \in [Numbers -> Executions \cup {NULL}],
           failures' \in [Numbers -> Nat], stalled' \in [Numbers -> BOOLEAN], faults' \in Nat,
           NEW step \in JobSteps \ {"none", "spawning"}, job' = [job EXCEPT ![n] = step],
           step = "inserting" => created'[n] # NULL,
           \A m \in Numbers \ {n} : created'[m] = created[m]
    PROVE  CampaignInv' /\ RowsSame
  <1>1. TypeOK
    BY DEF CampaignInv
  <1>2. /\ job' \in [Numbers -> JobSteps] /\ job'[n] = step
        /\ \A m \in Numbers \ {n} : job'[m] = job[m]
    BY <1>1 DEF TypeOK
  <1>3. status' \in CampaignStatuses
    BY <1>1 DEF TypeOK, CampaignStatuses
  <1>4. TypeOK'
    BY <1>1, <1>2, <1>3 DEF TypeOK
  <1>5. RowsSame
    BY RowsKept
  <1>6. ASSUME NEW m \in Numbers
        PROVE  /\ job[m] # "none" <=> job'[m] # "none"
               /\ job'[m] = "inserting" => created'[m] # NULL
               /\ job'[m] = "spawning" => job[m] = "spawning" /\ created'[m] = created[m]
    <2>1. CASE m = n
      BY <1>2, <2>1
    <2>2. CASE m # n
      BY <1>2, <2>2 DEF CampaignInv, JobsSound
    <2> QED
      BY <2>1, <2>2
  <1>7. \A h \in Hooks : hook[h].step = "continuing" => Claimed(h) < MaxIterations
    BY DEF CampaignInv, HooksSound
  <1> QED
    BY <1>4, <1>5, <1>6, <1>7, SameRowsStep

LEMMA SameRuns ==
    ASSUME CampaignInv, UNCHANGED <<iteration, phase>>
    PROVE  OnlyIterationsRun'
  BY DEF CampaignInv, OnlyIterationsRun, Rows, Row

\* A job starts, plans, ends, throws or is found stalled.
LEMMA JobEasySteps ==
    ASSUME CampaignInv, NEW n \in Numbers,
           \/ JobStarts(n) \/ JobPlans(n) \/ JobGivesUp(n) \/ JobThrows(n) \/ WorkerDies(n)
           \/ JobInsertsIteration(n) /\ Row(n + 1) # NULL
    PROVE  CampaignInv' /\ RowsSame /\ status' \in {status, "halted_error"}
  <1>1. TypeOK
    BY DEF CampaignInv
  <1>2. /\ job[n] # "none"
        /\ UNCHANGED <<completed, best, iteration, spend, hook, hookFailed, phase, created>>
        /\ status' \in {status, "halted_error"}
        /\ \E step \in JobSteps \ {"none", "inserting", "spawning"} :
              job' = [job EXCEPT ![n] = step]
        /\ failures' \in [Numbers -> Nat] /\ stalled' \in [Numbers -> BOOLEAN]
        /\ faults' \in Nat
    <2>1. CASE JobStarts(n)
      <3>1. \E step \in JobSteps \ {"none", "inserting", "spawning"} :
                job' = [job EXCEPT ![n] = step]
        <4>1. CASE status = "running"
          BY <2>1, <4>1 DEF JobStarts, Goto, JobSteps
        <4>2. CASE status # "running"
          BY <2>1, <4>2 DEF JobStarts, Goto, JobSteps
        <4> QED
          BY <4>1, <4>2
      <3> QED
        BY <1>1, <2>1, <3>1 DEF JobStarts, JobUnchanged, TypeOK
    <2>2. CASE JobPlans(n)
      BY <1>1, <2>2 DEF JobPlans, Goto, JobSteps, JobUnchanged, TypeOK
    <2>3. CASE JobGivesUp(n)
      <3>1. faults' \in Nat
        BY <1>1, <2>3 DEF JobGivesUp, Fault, TypeOK
      <3> QED
        BY <1>1, <2>3, <3>1 DEF JobGivesUp, Goto, JobSteps, JobUnchanged, TypeOK
    <2>4. CASE JobThrows(n)
      <3>1. faults' \in Nat /\ failures' \in [Numbers -> Nat]
        BY <1>1, <2>4 DEF JobThrows, Fault, TypeOK
      <3>2. \E step \in JobSteps \ {"none", "inserting", "spawning"} :
                job' = [job EXCEPT ![n] = step]
        <4>1. CASE failures[n] + 1 < Attempts
          BY <2>4, <4>1 DEF JobThrows, Goto, JobSteps
        <4>2. CASE ~(failures[n] + 1 < Attempts)
          BY <2>4, <4>2 DEF JobThrows, Goto, JobSteps
        <4> QED
          BY <4>1, <4>2
      <3> QED
        BY <1>1, <2>4, <3>1, <3>2 DEF JobThrows, JobUnchanged, TypeOK
    <2>5. CASE WorkerDies(n)
      <3>1. faults' \in Nat /\ stalled' \in [Numbers -> BOOLEAN]
        BY <1>1, <2>5 DEF WorkerDies, Fault, TypeOK
      <3> QED
        BY <1>1, <2>5, <3>1 DEF WorkerDies, Working, Goto, JobSteps, JobUnchanged, TypeOK
    <2>6. CASE JobInsertsIteration(n) /\ Row(n + 1) # NULL
      BY <1>1, <2>6 DEF JobInsertsIteration, Goto, JobSteps, JobUnchanged, TypeOK
    <2> QED
      BY <2>1, <2>2, <2>3, <2>4, <2>5, <2>6
  <1>3. OnlyIterationsRun'
    BY <1>2, SameRuns
  <1>4. PICK step \in JobSteps \ {"none", "inserting", "spawning"} :
            job' = [job EXCEPT ![n] = step]
    BY <1>2
  <1>5. phase' \in [Executions -> Phases] /\ created' \in [Numbers -> Executions \cup {NULL}]
    BY <1>1, <1>2 DEF TypeOK
  <1> QED
    BY <1>2, <1>3, <1>4, <1>5, JobMoves

\* The new execution runs nothing yet.
LEMMA CreateStep ==
    ASSUME CampaignInv, NEW n \in Numbers, JobCreatesExecution(n)
    PROVE  CampaignInv' /\ RowsSame
  <1>1. TypeOK
    BY DEF CampaignInv
  <1>2. PICK e \in Executions : /\ phase' = [phase EXCEPT ![e] = "created"]
                                /\ created' = [created EXCEPT ![n] = e]
    BY DEF JobCreatesExecution
  <1>3. /\ job[n] # "none" /\ job' = [job EXCEPT ![n] = "inserting"]
        /\ UNCHANGED <<completed, best, iteration, spend, hook, hookFailed, status,
                       failures, stalled, faults>>
    BY DEF JobCreatesExecution, Goto, JobUnchanged
  <1>4. e # NULL
    <2>1. e \in Int
      BY DEF Executions
    <2>2. NULL \notin Int
      BY CampaignAssumption
    <2> QED
      BY <2>1, <2>2
  <1>5. /\ phase' \in [Executions -> Phases] /\ created' \in [Numbers -> Executions \cup {NULL}]
        /\ created'[n] # NULL /\ \A m \in Numbers \ {n} : created'[m] = created[m]
    BY <1>1, <1>2, <1>4 DEF TypeOK, Phases
  <1>6. \A f \in Executions : phase'[f] \in {"pre_flight", "running", "closed"}
            => phase[f] \in {"pre_flight", "running", "closed"}
    BY <1>1, <1>2 DEF TypeOK
  <1>7. OnlyIterationsRun'
    BY <1>3, <1>6 DEF CampaignInv, OnlyIterationsRun, Rows, Row
  <1>8. "inserting" \in JobSteps \ {"none", "spawning"}
    BY DEF JobSteps
  <1>9. /\ failures' \in [Numbers -> Nat] /\ stalled' \in [Numbers -> BOOLEAN]
        /\ faults' \in Nat
    BY <1>1, <1>3 DEF TypeOK
  <1> QED
    BY <1>3, <1>5, <1>7, <1>8, <1>9, JobMoves

\* The Ring Leader is spawned for the execution of the next iteration.
LEMMA SpawnStep ==
    ASSUME CampaignInv, NEW n \in Numbers, JobSpawnsRingLeader(n)
    PROVE  CampaignInv' /\ RowsSame
  <1>1. TypeOK
    BY DEF CampaignInv
  <1>2. /\ job[n] = "spawning" /\ job' = [job EXCEPT ![n] = "done"]
        /\ phase' = [phase EXCEPT ![created[n]] = IF @ = "created" THEN "pre_flight" ELSE @]
        /\ UNCHANGED <<completed, best, iteration, spend, hook, hookFailed, status, created,
                       failures, stalled, faults>>
    BY DEF JobSpawnsRingLeader, Goto, JobUnchanged
  <1>3. n + 1 \in Rows /\ Row(n + 1).execution = created[n]
    BY <1>2 DEF CampaignInv, JobsSound
  <1>4. phase' \in [Executions -> Phases]
    BY <1>1, <1>2 DEF TypeOK, Phases
  <1>5. \A f \in Executions : f # created[n] => phase'[f] = phase[f]
    BY <1>1, <1>2 DEF TypeOK
  <1>6. Rows' = Rows /\ \A m \in Rows : Row(m)' = Row(m)
    BY <1>2 DEF Rows, Row
  <1>7. OnlyIterationsRun'
    BY <1>3, <1>5, <1>6 DEF CampaignInv, OnlyIterationsRun
  <1>8. "done" \in JobSteps \ {"none", "spawning"}
    BY DEF JobSteps
  <1>9. /\ created' \in [Numbers -> Executions \cup {NULL}]
        /\ failures' \in [Numbers -> Nat] /\ stalled' \in [Numbers -> BOOLEAN]
        /\ faults' \in Nat
    BY <1>1, <1>2 DEF TypeOK
  <1> QED
    BY <1>2, <1>4, <1>7, <1>8, <1>9, JobMoves

\* The next iteration starts: every one before it has been scored and met no halt criterion.
LEMMA InsertStep ==
    ASSUME CampaignInv, NEW n \in Numbers, JobInsertsIteration(n), Row(n + 1) = NULL
    PROVE  /\ CampaignInv' /\ status' = status
           /\ n \in Rows /\ n < MaxIterations /\ n + 1 \notin Rows
           /\ Rows' = Rows \cup {n + 1} /\ ~Row(n + 1).completedAt'
           /\ Row(n + 1).haltedReason' = NULL
           /\ \A m \in Rows : /\ Row(m)' = Row(m) /\ m <= n
                              /\ Row(m).completedAt /\ Row(m).haltedReason = NULL
  <1>1. TypeOK
    BY DEF CampaignInv
  <1>2. /\ job[n] = "inserting" /\ job' = [job EXCEPT ![n] = "spawning"]
        /\ iteration' = [iteration EXCEPT ![n + 1] = NewIteration(created[n])]
        /\ UNCHANGED <<completed, best, phase, spend, hook, hookFailed, status, created,
                       failures, stalled, faults>>
    BY DEF JobInsertsIteration, Goto, JobUnchanged
  <1>3. /\ n \in Rows /\ Row(n).completedAt /\ Row(n).haltedReason = NULL
        /\ n < MaxIterations /\ created[n] # NULL
    BY <1>2 DEF CampaignInv, JobsSound
  <1>4. n + 1 \in Numbers /\ n \in Nat /\ n + 1 \notin Rows
    BY <1>3, Constants DEF Rows
  <1>5. created[n] \in Executions
    BY <1>1, <1>3 DEF TypeOK
  <1> DEFINE new == NewIteration(created[n])
  <1>6. /\ new \in Iteration /\ new # NULL /\ new.execution = created[n]
        /\ ~new.completedAt /\ new.haltedReason = NULL
    BY <1>5, NewRow
  <1> HIDE DEF new
  <1>7. iteration' = [iteration EXCEPT ![n + 1] = new]
    BY <1>2 DEF new
  <1>8. /\ iteration' \in [Numbers -> Iteration \cup {NULL}] /\ Row(n + 1)' = new
        /\ \A m \in Numbers \ {n + 1} : Row(m)' = Row(m)
    BY <1>1, <1>4, <1>6, <1>7 DEF TypeOK, Row
  <1>9. Rows' = Rows \cup {n + 1} /\ \A m \in Rows : Row(m)' = Row(m)
    BY <1>4, <1>6, <1>8 DEF Rows
  <1>10. /\ job' \in [Numbers -> JobSteps] /\ job'[n] = "spawning"
         /\ \A m \in Numbers \ {n} : job'[m] = job[m]
    BY <1>1, <1>2 DEF TypeOK, JobSteps
  <1>11. TypeOK'
    BY <1>1, <1>2, <1>8, <1>10 DEF TypeOK
  <1>12. ASSUME NEW m \in Rows
         PROVE  m <= n /\ Row(m).completedAt /\ Row(m).haltedReason = NULL /\ m \in Nat
    <2>1. m \in Numbers /\ m \in Nat
      BY RowTyped, Constants, <1>1
    <2>2. ~(n + 1 < m) /\ m # n + 1
      BY <1>4 DEF CampaignInv, RowsInOrder
    <2>3. m <= n
      BY <1>4, <2>1, <2>2
    <2>4. CASE m = n
      BY <1>3, <2>1, <2>4, <2>3
    <2>5. CASE m # n
      <3>1. m < n
        BY <1>4, <2>1, <2>3, <2>5
      <3> QED
        BY <1>3, <2>1, <2>3, <3>1 DEF CampaignInv, RowsInOrder
    <2> QED
      BY <2>4, <2>5
  <1>13. RowsInOrder'
    <2>1. ASSUME NEW m \in Rows', NEW k \in Numbers, k < m
          PROVE  k \in Rows /\ Row(k).completedAt /\ Row(k).haltedReason = NULL
                 /\ job[k] # "none"
      <3>1. k \in Nat
        BY Constants
      <3>2. k < n \/ k = n
        BY <1>4, <1>9, <1>12, <2>1, <3>1
      <3>3. CASE k < n
        BY <1>3, <3>3 DEF CampaignInv, RowsInOrder
      <3>4. CASE k = n
        BY <1>2, <1>3, <3>4
      <3> QED
        BY <3>2, <3>3, <3>4
    <2>2. ASSUME NEW m \in Rows', NEW k \in Numbers, k < m
          PROVE  k \in Rows' /\ Row(k).completedAt' /\ Row(k).haltedReason' = NULL
                 /\ job'[k] # "none"
      BY <1>9, <1>10, <2>1, <2>2
    <2>3. \A m \in Rows' : ~Row(m).completedAt' => Row(m).haltedReason' = NULL
      BY <1>6, <1>8, <1>9 DEF CampaignInv, RowsInOrder
    <2>4. 1 \in Rows'
      BY <1>9 DEF CampaignInv, RowsInOrder
    <2> QED
      BY <2>2, <2>3, <2>4 DEF RowsInOrder
  <1>14. JobsSound'
    <2> SUFFICES ASSUME NEW m \in Numbers, job'[m] # "none"
                 PROVE  /\ m \in Rows' /\ Row(m).completedAt' /\ Row(m).haltedReason' = NULL
                        /\ m < MaxIterations
                        /\ job'[m] \in {"inserting", "spawning"} => created'[m] # NULL
                        /\ job'[m] = "spawning" =>
                              m + 1 \in Rows' /\ Row(m + 1).execution' = created'[m]
      BY DEF JobsSound
    <2>1. CASE m = n
      <3>1. Row(m + 1)' = new
        BY <1>8, <2>1
      <3> QED
        BY <1>2, <1>3, <1>6, <1>9, <2>1, <3>1
    <2>2. CASE m # n
      <3>1. job[m] = job'[m]
        BY <1>10, <2>2
      <3> QED
        BY <1>2, <1>9, <3>1 DEF CampaignInv, JobsSound
    <2> QED
      BY <2>1, <2>2
  <1>15. HooksSound'
    <2> SUFFICES ASSUME NEW g \in Hooks, hook[g].step # "idle"
                 PROVE  /\ Claimed(g)' \in Rows' /\ Row(Claimed(g)).completedAt'
                        /\ job'[Claimed(g)'] = "none"
                        /\ hook'[g].step # "stopping" => Row(Claimed(g)).haltedReason' = NULL
                        /\ hook'[g].step = "stopping" => Row(Claimed(g)).haltedReason' # NULL
                        /\ hook'[g].step = "continuing" => Claimed(g)' < MaxIterations
                        /\ \A f \in Hooks \ {g} :
                              hook'[f].step # "idle" => Claimed(f)' # Claimed(g)'
      BY <1>2 DEF HooksSound
    <2>1. \A f \in Hooks : Claimed(f)' = Claimed(f)
      BY <1>2 DEF Claimed
    <2>2. Claimed(g) \in Rows /\ job[Claimed(g)] = "none"
      BY DEF CampaignInv, HooksSound
    <2>3. Claimed(g) \in Numbers /\ Claimed(g) # n
      BY <1>2, <2>2 DEF Rows
    <2>4. job'[Claimed(g)] = "none"
      BY <1>10, <2>2, <2>3
    <2>5. Row(Claimed(g))' = Row(Claimed(g))
      BY <1>9, <2>1, <2>2 DEF Row
    <2> QED
      BY <1>2, <1>9, <2>1, <2>2, <2>4, <2>5 DEF CampaignInv, HooksSound
  <1>16. OnlyIterationsRun'
    BY <1>2, <1>9 DEF CampaignInv, OnlyIterationsRun
  <1> QED
    BY <1>2, <1>3, <1>4, <1>6, <1>8, <1>9, <1>11, <1>12, <1>13, <1>14, <1>15, <1>16
    DEF CampaignInv

-------------------------------------------------------------------------------
\* The variables of the loop.
Done    == {n \in Rows : Row(n).completedAt}
Stopped == \E n \in Rows : Row(n).haltedReason # NULL

LEMMA LoopCounts ==
    ASSUME TypeOK
    PROVE  /\ IsFiniteSet(Rows) /\ IsFiniteSet(Done) /\ Done \subseteq Rows
           /\ Cardinality(Rows) \in Nat /\ Cardinality(Done) \in Nat
           /\ Cardinality(Done) <= Cardinality(Rows)
  <1>1. IsFiniteSet(Numbers)
    BY Constants, FS_Interval DEF Numbers
  <1>2. Rows \subseteq Numbers /\ Done \subseteq Rows
    BY DEF Rows, Done
  <1>3. IsFiniteSet(Rows)
    BY <1>1, <1>2, FS_Subset
  <1> QED
    BY <1>2, <1>3, FS_Subset, FS_CardinalityType

\* A step that changes nothing the loop sees.
LEMMA QuietStep == RowsSame => UNCHANGED Loop!loopVars
  <1> SUFFICES ASSUME RowsSame PROVE UNCHANGED Loop!loopVars
    OBVIOUS
  <1>1. Rows' = Rows /\ Done' = Done
    BY DEF RowsSame, Done
  <1>2. Stopped' <=> Stopped
    BY DEF RowsSame, Stopped
  <1> QED
    BY <1>1, <1>2 DEF Loop!loopVars, Done, Stopped

\* The claim of an iteration is the loop's Score.
LEMMA ScoreStep ==
    ASSUME CampaignInv, NEW h \in Hooks, NEW n \in Numbers, HookClaims(h, n)
    PROVE  Loop!Score
  <1>1. /\ Rows' = Rows /\ n \in Rows /\ ~Row(n).completedAt /\ Row(n).completedAt'
        /\ \A m \in Rows \ {n} : Row(m)' = Row(m)
        /\ \A m \in Rows : Row(m).haltedReason' = Row(m).haltedReason
    BY ClaimStep
  <1>2. /\ IsFiniteSet(Rows) /\ IsFiniteSet(Done) /\ Cardinality(Rows) \in Nat
        /\ Cardinality(Done) \in Nat
    BY LoopCounts DEF CampaignInv
  <1>3. Done' = Done \cup {n} /\ n \notin Done /\ Done' \subseteq Rows
    BY <1>1 DEF Done
  <1>4. Cardinality(Done') = Cardinality(Done) + 1
    BY <1>2, <1>3, FS_AddElement
  <1>5. Cardinality(Done') <= Cardinality(Rows)
    BY <1>2, <1>3, FS_Subset
  <1>6. Cardinality(Done) < Cardinality(Rows)
    BY <1>2, <1>4, <1>5
  <1>7. Stopped' <=> Stopped
    BY <1>1 DEF Stopped
  <1> QED
    BY <1>1, <1>4, <1>6, <1>7 DEF Loop!Score, Done, Stopped

\* The reason to halt is the loop's Stop.
LEMMA StopStep ==
    ASSUME CampaignInv, NEW h \in Hooks, HookEvaluates(h),
           HaltReason(Claimed(h), Efs(h)) # NULL
    PROVE  Loop!Stop
  <1>1. /\ Rows' = Rows /\ \A m \in Rows : Row(m).completedAt' = Row(m).completedAt
        /\ \E m \in Rows : Row(m).haltedReason' # NULL
    BY HaltsStep
  <1>2. Done' = Done /\ Stopped'
    BY <1>1 DEF Done, Stopped
  <1> QED
    BY <1>1, <1>2 DEF Loop!Stop, Done, Stopped

\* The insertion of a row is the loop's Start.
LEMMA StartStep ==
    ASSUME CampaignInv, NEW n \in Numbers, JobInsertsIteration(n), Row(n + 1) = NULL
    PROVE  Loop!Start
  <1>1. /\ n \in Rows /\ n < MaxIterations /\ n + 1 \notin Rows
        /\ Rows' = Rows \cup {n + 1} /\ ~Row(n + 1).completedAt'
        /\ Row(n + 1).haltedReason' = NULL
        /\ \A m \in Rows : /\ Row(m)' = Row(m) /\ m <= n
                           /\ Row(m).completedAt /\ Row(m).haltedReason = NULL
    BY InsertStep
  <1>2. IsFiniteSet(Rows) /\ Cardinality(Rows) \in Nat
    BY LoopCounts DEF CampaignInv
  <1>3. Done = Rows /\ Done' = Rows /\ ~Stopped /\ ~Stopped'
    BY <1>1 DEF Done, Stopped
  <1>4. Cardinality(Rows') = Cardinality(Rows) + 1
    BY <1>1, <1>2, FS_AddElement
  <1>5. Cardinality(Rows) < MaxIterations
    <2>1. n \in Nat /\ Rows \subseteq 1..n
      <3>1. n \in Numbers /\ \A m \in Rows : m \in Numbers /\ m <= n
        BY <1>1 DEF Rows
      <3>2. \A m \in Numbers : m \in Nat /\ m >= 1
        BY Constants
      <3> QED
        BY <3>1, <3>2
    <2>2. IsFiniteSet(1..n) /\ Cardinality(1..n) = n
      <3>1. 1 \in Int /\ n \in Int /\ 1 <= n
        BY <1>1, <2>1
      <3>2. IsFiniteSet(1..n) /\ Cardinality(1..n) = IF 1 > n THEN 0 ELSE n - 1 + 1
        BY ONLY <3>1, FS_Interval
      <3> QED
        BY <2>1, <3>1, <3>2
    <2>3. Cardinality(Rows) <= n
      BY <2>1, <2>2, FS_Subset
    <2> QED
      BY <1>1, <1>2, <2>1, <2>3, Constants
  <1> QED
    BY <1>3, <1>4, <1>5 DEF Loop!Start, Done, Stopped

LEMMA LoopStart == Init => Loop!Init
  <1> SUFFICES ASSUME Init PROVE Loop!Init
    OBVIOUS
  <1>1. NewIteration(1) # NULL /\ ~NewIteration(1).completedAt
        /\ NewIteration(1).haltedReason = NULL
    BY Constants, NewRow
  <1>2. Rows = {1} /\ Row(1) = NewIteration(1)
    BY <1>1, Constants DEF Init, Rows, Row
  <1>3. Done = {} /\ ~Stopped
    BY <1>1, <1>2 DEF Done, Stopped
  <1>4. Cardinality(Rows) = 1 /\ Cardinality(Done) = 0
    BY <1>2, <1>3, FS_Singleton, FS_EmptySet
  <1> QED
    BY <1>3, <1>4 DEF Loop!Init, Done, Stopped

-------------------------------------------------------------------------------
\* What every step keeps: the invariant, the end of a stopped campaign, and the loop.
LEMMA EveryStep ==
    ASSUME CampaignInv, [Next]_vars
    PROVE  /\ CampaignInv' /\ [Loop!Next]_Loop!loopVars
           /\ status # "running" => status' # "running"
  <1> DEFINE Kept == /\ CampaignInv' /\ [Loop!Next]_Loop!loopVars
                     /\ status # "running" => status' # "running"
  <1> SUFFICES Kept
    OBVIOUS
  <1>1. ASSUME NEW e \in Executions,
               \/ UserConfirms(e) \/ UserStops(e) \/ \E cost \in Costs : VerdictsClose(e, cost)
        PROVE  Kept
    <2>1. UNCHANGED <<iteration, status>>
      BY <1>1 DEF UserConfirms, UserStops, VerdictsClose, campaignVars
    <2> QED
      BY <1>1, <2>1, ExecutionStep, RowsKept, QuietStep
  <1>2. ASSUME NEW h \in Hooks, NEW n \in Numbers, HookClaims(h, n)
        PROVE  Kept
    <2>1. UNCHANGED status
      BY <1>2 DEF HookClaims, campaignVars
    <2>2. Loop!Next
      BY <1>2, ScoreStep DEF Loop!Next
    <2> QED
      BY <1>2, <2>1, <2>2, ClaimStep
  <1>3. ASSUME NEW h \in Hooks, NEW efs \in EfsScores, HookPersistsScore(h, efs)
        PROVE  Kept
    <2>1. UNCHANGED status
      BY <1>3 DEF HookPersistsScore, campaignVars
    <2> QED
      BY <1>3, <2>1, PersistStep, QuietStep
  <1>4. ASSUME NEW h \in Hooks, HookUpdatesAggregates(h)
        PROVE  Kept
    <2>1. UNCHANGED status
      BY <1>4 DEF HookUpdatesAggregates
    <2> QED
      BY <1>4, <2>1, AggregateStep, QuietStep
  <1>5. ASSUME NEW h \in Hooks, HookEvaluates(h)
        PROVE  Kept
    <2>1. UNCHANGED status
      BY <1>5 DEF HookEvaluates, campaignVars
    <2>2. CASE HaltReason(Claimed(h), Efs(h)) = NULL
      BY <1>5, <2>1, <2>2, GoesOnStep, QuietStep
    <2>3. CASE HaltReason(Claimed(h), Efs(h)) # NULL
      <3>1. Loop!Next
        BY <1>5, <2>3, StopStep DEF Loop!Next
      <3> QED
        BY <1>5, <2>1, <2>3, <3>1, HaltsStep
    <2> QED
      BY <2>2, <2>3
  <1>6. ASSUME NEW h \in Hooks, HookStops(h) \/ HookFails(h)
        PROVE  Kept
    <2>1. status' = status \/ status' \in HaltReasons
      BY <1>6, ReturnStep
    <2> QED
      BY <1>6, <2>1, ReturnStep, QuietStep DEF HaltReasons
  <1>7. ASSUME NEW h \in Hooks, HookEnqueuesNext(h)
        PROVE  Kept
    <2>1. UNCHANGED status
      BY <1>7 DEF HookEnqueuesNext, campaignVars
    <2> QED
      BY <1>7, <2>1, EnqueueStep, QuietStep
  <1>8. ASSUME NEW n \in Numbers,
               \/ JobStarts(n) \/ JobPlans(n) \/ JobGivesUp(n) \/ JobThrows(n) \/ WorkerDies(n)
               \/ JobInsertsIteration(n) /\ Row(n + 1) # NULL
        PROVE  Kept
    BY <1>8, JobEasySteps, QuietStep
  <1>9. ASSUME NEW n \in Numbers, JobInsertsIteration(n), Row(n + 1) = NULL
        PROVE  Kept
    <2>1. Loop!Next
      BY <1>9, StartStep DEF Loop!Next
    <2> QED
      BY <1>9, <2>1, InsertStep
  <1>10. ASSUME NEW n \in Numbers, JobCreatesExecution(n) \/ JobSpawnsRingLeader(n)
         PROVE  Kept
    <2>1. UNCHANGED status
      BY <1>10 DEF JobCreatesExecution, JobSpawnsRingLeader
    <2> QED
      BY <1>10, <2>1, CreateStep, SpawnStep, QuietStep
  <1>11. CASE UNCHANGED vars
    <2>1. UNCHANGED <<status, completed, best, iteration, phase, spend, hook, job, created,
                      failures, stalled, faults, hookFailed>>
      BY <1>11 DEF vars, campaignVars, jobVars
    <2>2. RowsSame /\ OnlyIterationsRun'
      BY <2>1, RowsKept, SameRuns
    <2>3. TypeOK'
      BY <2>1 DEF CampaignInv, TypeOK
    <2>4. /\ \A n \in Numbers : job[n] = "inserting" => created[n] # NULL
          /\ \A h \in Hooks : hook[h].step = "continuing" => Claimed(h) < MaxIterations
      BY DEF CampaignInv, JobsSound, HooksSound
    <2>5. CampaignInv'
      BY <2>1, <2>2, <2>3, <2>4, SameRowsStep
    <2> QED
      BY <2>1, <2>2, <2>5, QuietStep
  <1> HIDE DEF Kept
  <1>12. CASE \E e \in Executions : \/ UserConfirms(e) \/ UserStops(e)
                                   \/ \E cost \in Costs : VerdictsClose(e, cost)
    BY <1>1, <1>12
  <1>13. ASSUME NEW h \in Hooks, HookStep(h) \/ HookFails(h)
         PROVE  Kept
    BY <1>2, <1>3, <1>4, <1>5, <1>6, <1>7, <1>13 DEF HookStep
  <1>14. ASSUME NEW n \in Numbers, JobStep(n) \/ JobGivesUp(n) \/ JobThrows(n) \/ WorkerDies(n)
         PROVE  Kept
    <2>1. CASE JobInsertsIteration(n)
      BY <1>8, <1>9, <2>1
    <2>2. CASE JobCreatesExecution(n) \/ JobSpawnsRingLeader(n)
      BY <1>10, <2>2
    <2>3. CASE JobStarts(n) \/ JobPlans(n) \/ JobGivesUp(n) \/ JobThrows(n) \/ WorkerDies(n)
      BY <1>8, <2>3
    <2> QED
      BY <1>14, <2>1, <2>2, <2>3 DEF JobStep
  <1>15. CASE Next
    BY <1>12, <1>13, <1>14, <1>15 DEF Next
  <1> QED
    BY <1>11, <1>15

THEOREM CampaignInvariant == Spec => []CampaignInv
  <1>1. CampaignInv /\ [Next]_vars => CampaignInv'
    BY EveryStep
  <1> QED
    BY <1>1, CampaignStart, PTL DEF Spec

\* Types, for every campaign, whatever fails and is delivered again.
THEOREM CampaignTyped == Spec => []TypeOK
  <1>1. CampaignInv => TypeOK
    BY DEF CampaignInv
  <1> QED
    BY <1>1, CampaignInvariant, PTL

\* Only an execution that is an iteration of the campaign gets a Ring Leader: the execution
\* that a second delivery of a job has created stays without one.
THEOREM OrphansStayIdle == Spec => []OnlyIterationsRun
  <1>1. CampaignInv => OnlyIterationsRun
    BY DEF CampaignInv
  <1> QED
    BY <1>1, CampaignInvariant, PTL

\* A campaign that has stopped, by its hook or its worker, never runs again.
THEOREM StopsForGood == Spec => StopIsFinal
  <1>1. CampaignInv /\ [Next]_vars => [status # "running" => status' # "running"]_vars
    BY EveryStep
  <1> QED
    BY <1>1, CampaignInvariant, PTL DEF Spec, StopIsFinal

\* The hook and the worker implement the loop of CampaignLoop: one iteration at a time, each
\* scored before the next, none after the maximum and none after a reason to halt.
THEOREM ImplementsTheLoop == Spec => RunsTheLoop
  <1>1. CampaignInv /\ [Next]_vars => [Loop!Next]_Loop!loopVars
    BY EveryStep
  <1> QED
    BY <1>1, LoopStart, CampaignInvariant, PTL DEF Spec, RunsTheLoop, Loop!Spec

-------------------------------------------------------------------------------
(* The aggregates: what the claims have completed is what has been counted and   *)
(* what a hook is about to count, unless that hook has failed.                   *)

Counting == {"claimed", "persisted"}
Pending  == {n \in Numbers : \E h \in Hooks : hook[h].step \in Counting /\ Claimed(h) = n}
Counted  == Done \ Pending

IsBest ==
    \/ Counted = {} /\ best = NULL
    \/ /\ \E n \in Counted : Row(n).efs = best
       /\ \A n \in Counted : Row(n).efs <= best

CountInv ==
    /\ completed <= Cardinality(Counted)
    /\ \A h \in Hooks : hook[h].step = "persisted" => Efs(h) \in EfsScores
    /\ ~ hookFailed => /\ completed = Cardinality(Counted)
                       /\ \A n \in Counted : Row(n).efs \in EfsScores
                       /\ IsBest

LEMMA CountedFinite ==
    ASSUME TypeOK
    PROVE  /\ IsFiniteSet(Done) /\ IsFiniteSet(Counted)
           /\ Cardinality(Done) \in Nat /\ Cardinality(Counted) \in Nat
           /\ Cardinality(Counted) <= Cardinality(Done)
  <1>1. IsFiniteSet(Done) /\ Counted \subseteq Done
    BY LoopCounts DEF Counted
  <1> QED
    BY <1>1, FS_Subset, FS_CardinalityType

\* A score is a number.
LEMMA ScoreFacts == \A efs \in EfsScores : efs \in Int /\ efs # NULL
  <1> SUFFICES ASSUME NEW efs \in EfsScores PROVE efs \in Int /\ efs # NULL
    OBVIOUS
  <1>1. efs \in 0..10000
    BY CampaignAssumption
  <1>2. efs \in Int
    BY <1>1
  <1>3. NULL \notin Int
    BY CampaignAssumption
  <1> QED
    BY <1>2, <1>3

\* A step that counts nothing and changes no score that has been counted.
LEMMA CountKept ==
    ASSUME CountInv, UNCHANGED <<completed, best, hookFailed>>, Counted' = Counted,
           \A n \in Counted : Row(n).efs' = Row(n).efs,
           \A h \in Hooks : hook'[h].step = "persisted" => Efs(h)' \in EfsScores
    PROVE  CountInv'
  <1>1. IsBest' <=> IsBest
    BY DEF IsBest
  <1> QED
    BY <1>1 DEF CountInv

\* A step that leaves the hooks alone and completes no iteration.
LEMMA CountSameHooks ==
    ASSUME CampaignInv, CountInv, UNCHANGED <<completed, best, hook, hookFailed>>,
           Done' = Done, \A n \in Rows : Row(n)' = Row(n)
    PROVE  CountInv'
  <1>1. Counted' = Counted
    BY DEF Counted, Pending, Claimed
  <1>2. \A n \in Counted : Row(n).efs' = Row(n).efs
    BY DEF Counted, Done
  <1>3. \A h \in Hooks : hook'[h].step = "persisted" => Efs(h)' \in EfsScores
    BY DEF CampaignInv, HooksSound, CountInv, Efs, Claimed
  <1> QED
    BY <1>1, <1>2, <1>3, CountKept

\* A hook that has nothing to count, before and after.
LEMMA CountSameRows ==
    ASSUME CampaignInv, CountInv, UNCHANGED <<completed, best, hookFailed>>,
           Done' = Done, \A n \in Rows : Row(n).efs' = Row(n).efs,
           NEW h \in Hooks, hook[h].step \notin Counting, hook'[h].step \notin Counting,
           \A g \in Hooks \ {h} : hook'[g] = hook[g]
    PROVE  CountInv'
  <1>1. Pending' = Pending
    BY DEF Pending, Claimed
  <1>2. Counted' = Counted
    BY <1>1 DEF Counted
  <1>3. \A n \in Counted : Row(n).efs' = Row(n).efs
    BY DEF Counted, Done
  <1>4. ASSUME NEW g \in Hooks, hook'[g].step = "persisted" PROVE Efs(g)' \in EfsScores
    <2>1. hook'[g] = hook[g] /\ g # h
      BY <1>4 DEF Counting
    <2>2. Claimed(g)' = Claimed(g) /\ Claimed(g) \in Rows
      BY <1>4, <2>1 DEF CampaignInv, HooksSound, Claimed
    <2> QED
      BY <1>4, <2>1, <2>2 DEF CountInv, Efs
  <1> QED
    BY <1>2, <1>3, <1>4, CountKept

\* The claim completes an iteration and is about to count it.
LEMMA CountClaim ==
    ASSUME CampaignInv, CountInv, NEW h \in Hooks, NEW n \in Numbers, HookClaims(h, n)
    PROVE  CountInv'
  <1>1. /\ Rows' = Rows /\ n \in Rows /\ ~Row(n).completedAt /\ Row(n).completedAt'
        /\ \A m \in Rows \ {n} : Row(m)' = Row(m)
    BY ClaimStep
  <1>2. /\ hook[h].step = "idle" /\ hook' = [hook EXCEPT ![h] = [step |-> "claimed", num |-> n]]
        /\ UNCHANGED <<completed, best, hookFailed>>
    BY DEF HookClaims, campaignVars
  <1>3. hook'[h].step = "claimed" /\ hook'[h].num = n /\ \A g \in Hooks \ {h} : hook'[g] = hook[g]
    BY <1>2 DEF CampaignInv, TypeOK
  <1>4. Done' = Done \cup {n} /\ n \notin Done
    BY <1>1 DEF Done
  <1>5. Pending' = Pending \cup {n}
    BY <1>2, <1>3 DEF Pending, Counting, Claimed
  <1>6. Counted' = Counted /\ n \notin Counted
    BY <1>4, <1>5 DEF Counted
  <1>7. \A m \in Counted : Row(m).efs' = Row(m).efs
    BY <1>1, <1>6 DEF Counted, Done
  <1>8. ASSUME NEW g \in Hooks, hook'[g].step = "persisted" PROVE Efs(g)' \in EfsScores
    <2>1. g # h /\ hook'[g] = hook[g]
      BY <1>3, <1>8
    <2>2. /\ Claimed(g)' = Claimed(g) /\ Claimed(g) \in Rows /\ Row(Claimed(g)).completedAt
      BY <1>8, <2>1 DEF CampaignInv, HooksSound, Claimed
    <2> QED
      BY <1>1, <1>8, <2>1, <2>2 DEF CountInv, Efs
  <1> QED
    BY <1>2, <1>6, <1>7, <1>8, CountKept

\* The score is written to the iteration that is about to be counted.
LEMMA CountPersist ==
    ASSUME CampaignInv, CountInv, NEW h \in Hooks, NEW efs \in EfsScores,
           HookPersistsScore(h, efs)
    PROVE  CountInv'
  <1>0. PICK n, delta : n = Claimed(h) /\ delta = Delta(n, efs)
    OBVIOUS
  <1> DEFINE new == [Row(n) EXCEPT !.efs = efs, !.delta = delta]
  <1>1. /\ hook[h].step = "claimed" /\ hook' = At(h, "persisted")
        /\ iteration' = [iteration EXCEPT ![n] = new]
        /\ UNCHANGED <<completed, best, hookFailed>>
    BY <1>0, Zenon DEF HookPersistsScore, campaignVars, Row
  <1>2. TypeOK /\ n \in Rows /\ Row(n) \in Iteration
    BY <1>0, <1>1, RowTyped DEF CampaignInv, HooksSound
  <1>3. delta \in Int \cup {NULL}
    BY <1>0, <1>2, DeltaTyped, RowTyped
  <1>4. new \in Iteration /\ new.efs = efs
    BY <1>2, <1>3 DEF Iteration
  <1>5. RowsSame
    BY PersistStep
  <1> HIDE DEF new
  <1>6. Row(n)' = new /\ \A m \in Rows \ {n} : Row(m)' = Row(m)
    BY <1>1, <1>2, <1>4, RowWrite
  <1>7. /\ hook'[h].step = "persisted" /\ hook'[h].num = n
        /\ \A g \in Hooks \ {h} : hook'[g] = hook[g]
    BY <1>0, <1>1, <1>2, HookMoves DEF HookSteps, Claimed
  <1>8. Done' = Done
    BY <1>5 DEF RowsSame, Done
  <1>9. Pending' = Pending /\ n \in Pending
    BY <1>0, <1>1, <1>2, <1>7 DEF Pending, Counting, Rows, Claimed
  <1>10. Counted' = Counted /\ n \notin Counted
    BY <1>8, <1>9 DEF Counted
  <1>11. \A m \in Counted : Row(m).efs' = Row(m).efs
    BY <1>6, <1>10 DEF Counted, Done
  <1>12. ASSUME NEW g \in Hooks, hook'[g].step = "persisted" PROVE Efs(g)' \in EfsScores
    <2>1. CASE g = h
      BY <1>4, <1>6, <1>7, <2>1 DEF Efs, Claimed
    <2>2. CASE g # h
      <3>1. hook'[g] = hook[g] /\ hook[g].step = "persisted"
        BY <1>7, <1>12, <2>2
      <3>2. Claimed(g)' = Claimed(g) /\ Claimed(g) \in Rows /\ Claimed(g) # n
        BY <1>0, <1>1, <2>2, <3>1 DEF CampaignInv, HooksSound, Claimed
      <3> QED
        BY <1>6, <3>1, <3>2 DEF CountInv, Efs
    <2> QED
      BY <2>1, <2>2
  <1> QED
    BY <1>1, <1>10, <1>11, <1>12, CountKept

\* The update of the aggregates: the iteration counts from here on, and for no other hook.
LEMMA CountAggregate ==
    ASSUME CampaignInv, CountInv, NEW h \in Hooks, HookUpdatesAggregates(h)
    PROVE  CountInv'
  <1>0. PICK n : n = Claimed(h)
    OBVIOUS
  <1>1. /\ hook[h].step = "persisted" /\ hook' = At(h, "counted")
        /\ completed' = completed + 1
        /\ best' = IF best = NULL \/ best < Row(n).efs THEN Row(n).efs ELSE best
        /\ iteration' = iteration /\ hookFailed' = hookFailed
    BY <1>0 DEF HookUpdatesAggregates, Efs
  <1>2. TypeOK /\ n \in Rows /\ Row(n).completedAt /\ n \in Numbers
    BY <1>0, <1>1 DEF CampaignInv, HooksSound, Rows
  <1>3. /\ hook'[h].step = "counted" /\ \A g \in Hooks \ {h} : hook'[g] = hook[g]
    BY <1>1, <1>2, HookMoves DEF HookSteps
  <1>4. Done' = Done /\ n \in Done /\ \A m \in Done : Row(m)' = Row(m)
    BY <1>1, <1>2 DEF Done, Rows, Row
  <1>5. \A g \in Hooks \ {h} : hook[g].step \in Counting => Claimed(g) # n
    BY <1>0, <1>1 DEF CampaignInv, HooksSound, Counting
  <1>6. Pending' = Pending \ {n} /\ n \in Pending
    <2>1. \A m \in Pending' : m \in Pending /\ m # n
      BY <1>3, <1>5 DEF Pending, Counting, Claimed
    <2>2. \A m \in Pending : m # n => m \in Pending'
      BY <1>0, <1>3 DEF Pending, Counting, Claimed
    <2>3. n \in Pending
      BY <1>0, <1>1, <1>2 DEF Pending, Counting
    <2> QED
      BY <2>1, <2>2, <2>3
  <1>7. Counted' = Counted \cup {n} /\ n \notin Counted
    BY <1>4, <1>6 DEF Counted
  <1>8. Cardinality(Counted') = Cardinality(Counted) + 1
    BY <1>2, <1>7, CountedFinite, FS_AddElement
  <1>9. Row(n).efs \in EfsScores
    BY <1>0, <1>1 DEF CountInv, Efs
  <1>10. ASSUME NEW g \in Hooks, hook'[g].step = "persisted" PROVE Efs(g)' \in EfsScores
    <2>1. hook'[g] = hook[g]
      BY <1>3, <1>10
    <2> QED
      BY <1>1, <1>10, <2>1 DEF CountInv, Efs, Row, Claimed
  <1>11. completed \in Nat /\ Cardinality(Counted) \in Nat
    BY <1>2, CountedFinite DEF TypeOK
  <1>12. completed' <= Cardinality(Counted')
    BY <1>1, <1>8, <1>11 DEF CountInv
  <1>13. ASSUME ~ hookFailed
         PROVE  /\ completed' = Cardinality(Counted')
                /\ \A m \in Counted' : Row(m)'.efs \in EfsScores
                /\ IsBest'
    <2>1. /\ completed = Cardinality(Counted) /\ IsBest
          /\ \A m \in Counted : Row(m).efs \in EfsScores
      BY <1>13 DEF CountInv
    <2>2. Counted' \subseteq Done
      BY <1>4 DEF Counted
    <2>3. \A m \in Counted' : Row(m)' = Row(m) /\ Row(m).efs \in EfsScores
      BY <1>4, <1>7, <1>9, <2>1, <2>2
    <2>4. /\ \E m \in Counted' : Row(m).efs = best'
          /\ \A m \in Counted' : Row(m).efs <= best'
      <3>1. CASE Counted = {} /\ best = NULL
        <4>1. best' = Row(n).efs /\ Counted' = {n}
          BY <1>1, <1>7, <3>1
        <4>2. Row(n).efs <= Row(n).efs
          BY <1>9, ScoreFacts
        <4> QED
          BY <4>1, <4>2
      <3>2. CASE \E m \in Counted : Row(m).efs = best
        <4>1. best \in EfsScores /\ \A m \in Counted : Row(m).efs <= best
          BY <2>1, <3>2 DEF IsBest
        <4>2. best # NULL /\ best \in Int /\ Row(n).efs \in Int
          BY <1>9, <4>1, ScoreFacts
        <4>3. \A m \in Counted : Row(m).efs \in Int
          BY <2>1, ScoreFacts
        <4>4. CASE best < Row(n).efs
          <5>1. best' = Row(n).efs
            BY <1>1, <4>4
          <5>2. \A m \in Counted : Row(m).efs <= Row(n).efs
            BY <4>1, <4>2, <4>3, <4>4
          <5> QED
            BY <1>7, <4>2, <5>1, <5>2
        <4>5. CASE ~ (best < Row(n).efs)
          <5>1. best' = best /\ Row(n).efs <= best
            BY <1>1, <4>2, <4>5
          <5> QED
            BY <1>7, <3>2, <4>1, <5>1
        <4> QED
          BY <4>4, <4>5
      <3> QED
        BY <2>1, <3>1, <3>2 DEF IsBest
    <2> QED
      BY <1>1, <1>8, <2>1, <2>3, <2>4 DEF IsBest
  <1> QED
    BY <1>1, <1>10, <1>12, <1>13 DEF CountInv

\* A hook that fails may leave an iteration completed and never counted.
LEMMA CountFails ==
    ASSUME CampaignInv, CountInv, NEW h \in Hooks, HookFails(h)
    PROVE  CountInv'
  <1>1. /\ hook' = [hook EXCEPT ![h] = Idle] /\ hookFailed' = TRUE
        /\ UNCHANGED <<completed, iteration>>
    BY DEF HookFails, campaignVars
  <1>2. TypeOK /\ TypeOK'
    BY ReturnStep DEF CampaignInv
  <1>3. hook'[h].step = "idle" /\ \A g \in Hooks \ {h} : hook'[g] = hook[g]
    BY <1>1, <1>2, HookReturns
  <1>4. Pending' \subseteq Pending
    BY <1>3 DEF Pending, Counting, Claimed
  <1>5. Counted \subseteq Counted'
    BY <1>1, <1>4 DEF Counted, Done, Rows, Row
  <1>6. IsFiniteSet(Counted') /\ Cardinality(Counted') \in Nat
    <2>1. Counted' \subseteq Done
      BY <1>1 DEF Counted, Done, Rows, Row
    <2> QED
      BY <1>2, <2>1, CountedFinite, FS_Subset, FS_CardinalityType
  <1>7. completed \in Nat /\ Cardinality(Counted) \in Nat
        /\ Cardinality(Counted) <= Cardinality(Counted')
    BY <1>2, <1>5, <1>6, CountedFinite, FS_Subset DEF TypeOK
  <1>8. completed' <= Cardinality(Counted')
    BY <1>1, <1>6, <1>7 DEF CountInv
  <1>9. ASSUME NEW g \in Hooks, hook'[g].step = "persisted" PROVE Efs(g)' \in EfsScores
    BY <1>1, <1>3, <1>9 DEF CountInv, Efs, Row, Claimed
  <1> QED
    BY <1>1, <1>8, <1>9 DEF CountInv

\* Every step keeps the aggregates in agreement with the claims.
LEMMA CountStep ==
    ASSUME CampaignInv, CountInv, [Next]_vars
    PROVE  CountInv'
  <1>1. ASSUME UNCHANGED <<completed, best, iteration, hook, hookFailed>>
        PROVE  CountInv'
    <2>1. Done' = Done /\ \A n \in Rows : Row(n)' = Row(n)
      BY <1>1 DEF Done, Rows, Row
    <2> QED
      BY <1>1, <2>1, CountSameHooks
  <1>2. ASSUME NEW e \in Executions,
               \/ UserConfirms(e) \/ UserStops(e) \/ \E cost \in Costs : VerdictsClose(e, cost)
        PROVE  CountInv'
    BY <1>1, <1>2 DEF UserConfirms, UserStops, VerdictsClose, campaignVars
  <1>3. ASSUME NEW h \in Hooks, HookEvaluates(h)
        PROVE  CountInv'
    <2>0. PICK n : n = Claimed(h)
      OBVIOUS
    <2>1. /\ hook[h].step = "counted" /\ UNCHANGED <<completed, best, hookFailed>>
          /\ \E step \in {"stopping", "continuing"} : hook' = At(h, step)
          /\ iteration' = iteration
             \/ \E reason \in HaltReasons :
                   iteration' = [iteration EXCEPT ![n].haltedReason = reason]
      <3>1. Claimed(h) \in Numbers
        BY <1>3 DEF CampaignInv, TypeOK, Claimed
      <3>2. HaltReason(Claimed(h), Efs(h)) \in HaltReasons \cup {NULL}
        BY <3>1, HaltReasonTyped
      <3> QED
        BY <1>3, <2>0, <3>2 DEF HookEvaluates, campaignVars
    <2>2. TypeOK /\ n \in Rows
      BY <2>0, <2>1 DEF CampaignInv, HooksSound
    <2>3. /\ hook'[h].step \in {"stopping", "continuing"}
          /\ \A g \in Hooks \ {h} : hook'[g] = hook[g]
      BY <2>1, <2>2, HookMoves DEF HookSteps
    <2>4. /\ Rows' = Rows
          /\ \A m \in Rows : /\ Row(m).efs' = Row(m).efs
                             /\ Row(m).completedAt' = Row(m).completedAt
      <3>1. CASE iteration' = iteration
        BY <3>1 DEF Rows, Row
      <3>2. ASSUME NEW reason \in HaltReasons,
                   iteration' = [iteration EXCEPT ![n].haltedReason = reason]
            PROVE  /\ Rows' = Rows
                   /\ \A m \in Rows : /\ Row(m).efs' = Row(m).efs
                                      /\ Row(m).completedAt' = Row(m).completedAt
        <4> DEFINE new == [Row(n) EXCEPT !.haltedReason = reason]
        <4>1. Row(n) \in Iteration
          BY <2>2, RowTyped
        <4>2. /\ new \in Iteration /\ new.efs = Row(n).efs
              /\ new.completedAt = Row(n).completedAt
          BY <4>1 DEF Iteration
        <4>3. iteration' = [iteration EXCEPT ![n] = new]
          BY <3>2 DEF Row
        <4> HIDE DEF new
        <4>4. /\ Rows' = Rows /\ Row(n)' = new
              /\ \A m \in Rows \ {n} : Row(m)' = Row(m)
          BY <2>2, <4>2, <4>3, RowWrite
        <4> QED
          BY <4>2, <4>4
      <3> QED
        BY <2>1, <3>1, <3>2
    <2>5. Done' = Done
      BY <2>4 DEF Done
    <2> QED
      BY <2>1, <2>3, <2>4, <2>5, CountSameRows DEF Counting
  <1>4. ASSUME NEW h \in Hooks, HookStops(h) \/ HookEnqueuesNext(h)
        PROVE  CountInv'
    <2>1. /\ hook[h].step \in {"stopping", "continuing"} /\ hook' = [hook EXCEPT ![h] = Idle]
          /\ UNCHANGED <<completed, best, hookFailed, iteration>>
      BY <1>4 DEF HookStops, HookEnqueuesNext, campaignVars
    <2>2. TypeOK
      BY DEF CampaignInv
    <2>3. hook'[h].step = "idle" /\ \A g \in Hooks \ {h} : hook'[g] = hook[g]
      BY <2>1, <2>2, HookReturns
    <2>4. Done' = Done /\ \A n \in Rows : Row(n).efs' = Row(n).efs
      BY <2>1 DEF Rows, Done, Row
    <2> QED
      BY <2>1, <2>3, <2>4, CountSameRows DEF Counting
  <1>5. ASSUME NEW n \in Numbers,
               \/ JobStarts(n) \/ JobPlans(n) \/ JobGivesUp(n) \/ JobThrows(n) \/ WorkerDies(n)
               \/ JobInsertsIteration(n) /\ Row(n + 1) # NULL
               \/ JobCreatesExecution(n) \/ JobSpawnsRingLeader(n)
        PROVE  CountInv'
    <2>1. UNCHANGED <<completed, best, iteration, hook, hookFailed>>
      BY <1>5 DEF JobStarts, JobPlans, JobGivesUp, JobThrows, WorkerDies, JobInsertsIteration,
         JobCreatesExecution, JobSpawnsRingLeader, JobUnchanged
    <2> QED
      BY <1>1, <2>1
  <1>6. ASSUME NEW n \in Numbers, JobInsertsIteration(n), Row(n + 1) = NULL
        PROVE  CountInv'
    <2>1. UNCHANGED <<completed, best, hook, hookFailed>>
      BY <1>6 DEF JobInsertsIteration, JobUnchanged
    <2>2. /\ Rows' = Rows \cup {n + 1} /\ ~Row(n + 1).completedAt' /\ n + 1 \notin Rows
          /\ \A m \in Rows : Row(m)' = Row(m)
      BY <1>6, InsertStep
    <2>3. Done' = Done
      BY <2>2 DEF Done
    <2> QED
      BY <2>1, <2>2, <2>3, CountSameHooks
  <1>7. CASE UNCHANGED vars
    BY <1>1, <1>7 DEF vars, campaignVars
  <1>8. ASSUME NEW h \in Hooks, HookStep(h) \/ HookFails(h)
        PROVE  CountInv'
    BY <1>3, <1>4, <1>8, CountClaim, CountPersist, CountAggregate, CountFails DEF HookStep
  <1>9. ASSUME NEW n \in Numbers, JobStep(n) \/ JobGivesUp(n) \/ JobThrows(n) \/ WorkerDies(n)
        PROVE  CountInv'
    BY <1>5, <1>6, <1>9 DEF JobStep
  <1>10. CASE Next
    BY <1>2, <1>8, <1>9, <1>10 DEF Next
  <1> QED
    BY <1>7, <1>10

\* Nothing is completed at first, and nothing counted.
LEMMA CountStart == Init => CountInv
  <1> SUFFICES ASSUME Init PROVE CountInv
    OBVIOUS
  <1>1. NewIteration(1) # NULL /\ ~NewIteration(1).completedAt
    BY Constants, NewRow
  <1>2. Rows = {1} /\ Row(1) = NewIteration(1)
    BY <1>1, Constants DEF Init, Rows, Row
  <1>3. Counted = {}
    BY <1>1, <1>2 DEF Counted, Done
  <1>4. Cardinality(Counted) = 0
    BY <1>3, FS_EmptySet
  <1>5. \A h \in Hooks : hook[h].step # "persisted"
    BY DEF Init, Idle
  <1>6. completed = 0 /\ best = NULL
    BY DEF Init
  <1> QED
    BY <1>3, <1>4, <1>5, <1>6 DEF CountInv, IsBest

\* The count of the campaign never runs ahead of its completed iterations, and with no hook
\* half way or failed, count and best score are those of its iterations.
THEOREM AggregatesAgree == Spec => []AggregatesMatch
  <1>1. CampaignInv /\ CountInv => AggregatesMatch
    <2> SUFFICES ASSUME CampaignInv, CountInv PROVE AggregatesMatch
      OBVIOUS
    <2>1. /\ Cardinality(Done) \in Nat /\ Cardinality(Counted) \in Nat /\ completed \in Nat
          /\ Cardinality(Counted) <= Cardinality(Done)
      BY CountedFinite DEF CampaignInv, TypeOK
    <2>2. completed <= Cardinality(Done)
      BY <2>1 DEF CountInv
    <2>3. ASSUME \A h \in Hooks : hook[h].step = "idle", ~ hookFailed
          PROVE  /\ completed = Cardinality(Done)
                 /\ best = IF Done = {} THEN NULL ELSE Max({Row(n).efs : n \in Done})
      <3>1. Counted = Done
        BY <2>3 DEF Counted, Pending, Counting
      <3>2. /\ completed = Cardinality(Done) /\ \A n \in Done : Row(n).efs \in Int
            /\ \/ Done = {} /\ best = NULL
               \/ /\ \E n \in Done : Row(n).efs = best
                  /\ \A n \in Done : Row(n).efs <= best
        BY <2>3, <3>1, ScoreFacts DEF CountInv, IsBest
      <3>3. CASE Done = {}
        BY <3>2, <3>3
      <3>4. CASE Done # {}
        <4> DEFINE S == {Row(n).efs : n \in Done}
        <4>1. best \in S /\ S \subseteq Int /\ \A x \in S : best >= x
          BY <3>2, <3>4
        <4> HIDE DEF S
        <4>2. \A y \in S : (\A x \in S : y >= x) => y = best
          BY <4>1
        <4>3. Max(S) = best
          BY <4>1, <4>2 DEF Max
        <4> QED
          BY <3>2, <3>4, <4>3 DEF S
      <3> QED
        BY <3>3, <3>4
    <2>4. Done = {n \in Rows : Row(n).completedAt}
      BY DEF Done
    <2> QED
      BY <2>2, <2>3, <2>4 DEF AggregatesMatch
  <1> QED
    BY <1>1, CampaignInvariant, CampaignStart, CountStart, CountStep, PTL DEF Spec
===============================================================================
