---------------------------- MODULE GodLayerProofs ----------------------------
(* The God Layer for any number of bots, souls, verdicts, workers, attempts and *)
(* faults: its types, the exclusive claim, the lock, the baseline, and the books: *)
(* the counts, the lineages and the register agree with the verdicts applied.   *)
EXTENDS GodLayer, ClassMachineProofs, FiniteSetTheorems

\* What the types rest on: a job that exists is for a verdict that exists, and
\* the versions of a soul have a greatest one for the next write to exceed.
JobsHaveVerdicts == \A j \in JobIds : pc[j] # "none" => verdict[j[1]] # NoRow

LastVersion == \A s \in Souls : Versions(s) # {} =>
                  \E m \in Versions(s) : \A k \in Versions(s) : k <= m

TypeInv == TypeOK /\ JobsHaveVerdicts /\ LastVersion

-------------------------------------------------------------------------------
\* A job names its verdict, and both producers may name any verdict.
LEMMA JobFacts ==
    /\ \A j \in JobIds : j[1] \in VerdictIds
    /\ \A v \in VerdictIds : <<v, "council">> \in JobIds /\ <<v, "confirm">> \in JobIds
    /\ \A v \in VerdictIds : <<v, "council">>[1] = v /\ <<v, "confirm">>[1] = v
    /\ \A j \in JobIds : j = <<j[1], "council">> \/ j = <<j[1], "confirm">>
  BY DEF JobIds, Producers

\* NoRow is none of the rows of its three tables.
LEMMA NullFacts ==
    NoRow \notin VerdictRow /\ NoRow \notin ClassState /\ NoRow \notin Benchmark
  BY NullAssumption DEF VerdictRow, Benchmark

\* The row the council inserts next is a free one.
LEMMA NextVerdictFacts ==
    RoomForVerdict => NextVerdict \in VerdictIds /\ verdict[NextVerdict] = NoRow
  BY DEF RoomForVerdict, NextVerdict

\* Every bot has a category, and one that is not Unknown comes with a soul.
LEMMA CategoryFacts ==
    /\ \A b \in Bots : Category(b) \in AllCategories
    /\ \A b \in Bots : Category(b) # Unknown => Category(b) \in Categories
    /\ \A b \in Bots : Category(b) # Unknown => SoulOf[b] \in Souls
  BY SoulAssumption DEF Category, AllCategories

\* The verdict of a job that exists is a row, of a bot of this execution.
LEMMA BotFacts ==
    ASSUME TypeInv, NEW j \in JobIds, pc[j] # "none"
    PROVE  /\ VerdictOf(j) \in VerdictRow
           /\ BotOf(j) \in Bots
           /\ VerdictOf(j).judgement \in Judgement
  BY JobFacts, JudgementAssumption DEF TypeInv, TypeOK, JobsHaveVerdicts, VerdictOf,
     BotOf, VerdictRow

\* What a transaction computes from a benchmark row it has read, or from none.
LEMMA CommitFacts ==
    ASSUME TypeInv, NEW j \in JobIds, pc[j] = "writing"
    PROVE  /\ Tracked(j) \in Benchmark
           /\ Outcome(j).newState \in ClassState
           /\ Category(BotOf(j)) # Unknown => DnaWrite(j) \in DnaEntry
           /\ SignalWrite(j) \in Signals
           /\ VerdictInputOf(j) \in VerdictInput /\ ClassOf(BotOf(j)) \in ClassState
  <1>1. BotOf(j) \in Bots /\ VerdictOf(j).judgement \in Judgement
    BY BotFacts
  <1>2. loaded[j].score \in 0..100 /\ loaded[j].confirmed \in BOOLEAN
    BY DEF TypeInv, TypeOK
  <1>3. Tracked(j) \in Benchmark
    <2>1. CASE seen[j] = NoRow
      BY <1>1, <1>2, <2>1 DEF Tracked, Benchmark
    <2>2. CASE seen[j] # NoRow
      <3>1. seen[j] \in Benchmark
        BY <2>2 DEF TypeInv, TypeOK
      <3> QED
        BY <2>2, <3>1 DEF Tracked, Benchmark
    <2> QED
      BY <2>1, <2>2
  <1>4. Tracked(j).runs \in Nat /\ Tracked(j).baseline \in 0..100
    BY <1>3 DEF Benchmark
  <1>5. VerdictInputOf(j) \in VerdictInput
    BY <1>1, <1>2, <1>4 DEF VerdictInputOf, Confirmed, VerdictInput, Judgement, MatureThreshold
  <1>6. ClassOf(BotOf(j)) \in ClassState
    BY <1>1, NewClassStateType DEF ClassOf, TypeInv, TypeOK
  <1>7. Outcome(j).newState \in ClassState
    <2> DEFINE s == ClassOf(BotOf(j))
               v == VerdictInputOf(j)
               u == UpdateCounters(s, v)
               r == ComputeClassTransition(s, v)
    <2>1. u \in ClassState
      BY <1>5, <1>6, UpdateCountersFacts
    <2>2. r.newState.currentClass \in Classes
          /\ r.newState = [u EXCEPT !.currentClass = r.newState.currentClass]
      BY <1>5, <1>6, TransitionFacts
    <2> HIDE DEF u, s, v
    <2>3. r.newState \in ClassState
      BY <2>1, <2>2 DEF ClassState
    <2> QED
      BY <2>3 DEF Outcome, r, s, v
  <1>8. \A s \in Souls : NextVersion(s) \in Nat \ {0}
    <2> TAKE s \in Souls
    <2>1. Versions(s) \subseteq Nat \ {0}
      BY DEF Versions, TypeInv, TypeOK, DnaEntry
    <2>2. Versions(s) # {} => Max(Versions(s)) \in Nat
      BY <2>1 DEF TypeInv, LastVersion, Max
    <2> QED
      BY <2>2 DEF NextVersion
  <1>9. Category(BotOf(j)) # Unknown => DnaWrite(j) \in DnaEntry
    <2> SUFFICES ASSUME Category(BotOf(j)) # Unknown PROVE DnaWrite(j) \in DnaEntry
      OBVIOUS
    <2>1. SoulOf[BotOf(j)] \in Souls
      BY <1>1, CategoryFacts
    <2>2. Outcome(j).newState.currentClass \in Classes
      BY <1>7 DEF ClassState
    <2> QED
      BY <1>1, <1>8, <2>1, <2>2 DEF DnaWrite, DnaEntry
  <1>10. SignalWrite(j) \in Signals
    <2> DEFINE old == signals[BotOf(j)]
               r == IF Outcome(j).transition = "retire" THEN old.retirement + 1
                                                        ELSE old.retirement
               d == IF Outcome(j).transition = "demote" THEN old.demotion + 1
                                                        ELSE old.demotion
    <2>1. old \in Signals
      BY <1>1 DEF TypeInv, TypeOK
    <2>2. r \in Nat /\ d \in Nat
      BY <2>1 DEF Signals
    <2>3. SignalWrite(j) = [old EXCEPT !.retirement = r, !.demotion = d]
      BY DEF SignalWrite
    <2> HIDE DEF old, r, d
    <2> QED
      BY <2>1, <2>2, <2>3 DEF Signals
  <1> QED
    BY <1>3, <1>5, <1>6, <1>7, <1>9, <1>10

\* A transaction that writes to a soul's lineage leaves it with a last version.
LEMMA LastVersionKept ==
    ASSUME TypeInv, dna' = dna \/ \E s \in Souls, d \in DnaEntry :
                                    /\ d.soul = s /\ d.version = NextVersion(s)
                                    /\ dna' = dna \cup {d}
    PROVE  LastVersion'
  <1>1. CASE dna' = dna
    BY <1>1 DEF TypeInv, LastVersion, Versions
  <1>2. ASSUME NEW s \in Souls, NEW d \in DnaEntry, d.soul = s,
               d.version = NextVersion(s), dna' = dna \cup {d}
        PROVE  LastVersion'
    <2>1. ASSUME NEW t \in Souls, t # s PROVE Versions(t)' = Versions(t)
      BY <1>2, <2>1 DEF Versions
    <2>2. Versions(s)' = Versions(s) \cup {NextVersion(s)}
      BY <1>2 DEF Versions
    <2>3. \A k \in Versions(s) : k \in Nat /\ k <= NextVersion(s)
      <3>1. Versions(s) \subseteq Nat
        BY DEF Versions, TypeInv, TypeOK, DnaEntry
      <3>2. CASE Versions(s) = {}
        BY <3>2
      <3>3. CASE Versions(s) # {}
        <4>1. /\ Max(Versions(s)) \in Versions(s)
              /\ \A k \in Versions(s) : k <= Max(Versions(s))
          BY <3>1, <3>3 DEF TypeInv, LastVersion, Max
        <4> QED
          BY <3>1, <3>3, <4>1 DEF NextVersion
      <3> QED
        BY <3>2, <3>3
    <2>4. NextVersion(s) \in Nat
      BY <1>2 DEF DnaEntry
    <2>5. \E m \in Versions(s)' : \A k \in Versions(s)' : k <= m
      BY <2>2, <2>3, <2>4
    <2> QED
      BY <2>1, <2>5 DEF TypeInv, LastVersion
  <1> QED
    BY <1>1, <1>2

\* The council inserts a row nobody has a job for, and enqueues at most its own.
LEMMA InsertFacts ==
    ASSUME TypeInv, NEW b \in Bots, NEW judgement \in Judgements, RoomForVerdict,
           InsertVerdict(b, judgement),
           AutoEnqueue(NextVerdict, judgement) \/ UNCHANGED pc
    PROVE  /\ verdict' \in [VerdictIds -> VerdictRow \cup {NoRow}]
           /\ pc' \in [JobIds -> PcValues]
           /\ JobsHaveVerdicts'
  <1>1. NextVerdict \in VerdictIds /\ verdict[NextVerdict] = NoRow
    BY NextVerdictFacts
  <1>2. verdict' = [verdict EXCEPT ![NextVerdict] = [bot |-> b, judgement |-> judgement]]
    BY DEF InsertVerdict
  <1>3. [bot |-> b, judgement |-> judgement] \in VerdictRow
    BY DEF VerdictRow
  <1>4. pc' = pc \/ pc' = [pc EXCEPT ![<<NextVerdict, "council">>] = "waiting"]
    BY DEF AutoEnqueue, Enqueue
  <1>5. pc' \in [JobIds -> PcValues]
    BY <1>1, <1>4, JobFacts DEF TypeInv, TypeOK, PcValues
  <1>6. verdict' \in [VerdictIds -> VerdictRow \cup {NoRow}]
    BY <1>1, <1>2, <1>3 DEF TypeInv, TypeOK
  <1>7. JobsHaveVerdicts'
    BY <1>1, <1>2, <1>3, <1>4, JobFacts, NullFacts DEF TypeInv, TypeOK, JobsHaveVerdicts
  <1> QED
    BY <1>5, <1>6, <1>7

\* A job that moves on is still the job of its verdict.
LEMMA GotoFacts ==
    ASSUME TypeInv, NEW j \in JobIds, NEW step \in PcValues \ {"none"},
           Goto(j, step), UNCHANGED verdict, pc[j] # "none" \/ verdict[j[1]] # NoRow
    PROVE  pc' \in [JobIds -> PcValues] /\ JobsHaveVerdicts'
  BY DEF TypeInv, TypeOK, Goto, JobsHaveVerdicts

-------------------------------------------------------------------------------
\* Nothing is typed wrongly at first.
LEMMA TypeInit == Init => TypeInv
  <1> SUFFICES ASSUME Init PROVE TypeInv
    OBVIOUS
  <1>1. \A s \in Souls : Versions(s) = {}
    BY DEF Init, Versions
  <1>2. JobsHaveVerdicts /\ LastVersion
    BY <1>1 DEF Init, JobsHaveVerdicts, LastVersion
  <1>3. /\ score \in [Bots -> 0..100]
        /\ loaded \in [JobIds -> [score : 0..100, confirmed : BOOLEAN]]
    BY DEF Init, NothingLoaded
  <1>4. signals \in [Bots -> Signals]
    BY DEF Init, Signals
  <1>5. pc \in [JobIds -> PcValues] /\ status \in [VerdictIds -> Statuses]
    BY DEF Init, PcValues, Statuses
  <1>6. TypeOK
    BY <1>3, <1>4, <1>5 DEF Init, TypeOK
  <1> QED
    BY <1>2, <1>6 DEF TypeInv

\* Neither the pipeline nor a council job, whatever becomes of it, breaks a type.
LEMMA TypeCouncil ==
    ASSUME TypeInv, NEW b \in Bots,
           PerformancePipeline(b) \/ Council(b) \/ CouncilThrows(b)
    PROVE  TypeInv'
  <1>1. LastVersion'
    BY LastVersionKept DEF PerformancePipeline, Council, CouncilThrows, CouncilJudges,
       CouncilEnqueueFails, CouncilStalls, libraryVars
  <1>2. CASE PerformancePipeline(b)
    BY <1>1, <1>2, ScoreAssumption DEF PerformancePipeline, TypeInv, TypeOK,
       JobsHaveVerdicts, verdictVars, jobVars, workVars, libraryVars
  <1>3. ASSUME NEW judgement \in Judgements, CouncilJudges(b, judgement)
        PROVE  TypeInv'
    <2>1. /\ verdict' \in [VerdictIds -> VerdictRow \cup {NoRow}]
          /\ pc' \in [JobIds -> PcValues] /\ JobsHaveVerdicts'
      BY <1>3, InsertFacts DEF CouncilJudges
    <2> QED
      BY <1>1, <1>3, <2>1 DEF CouncilJudges, TypeInv, TypeOK, workVars, libraryVars
  <1>4. ASSUME NEW judgement \in Judgements, CouncilEnqueueFails(b, judgement)
        PROVE  TypeInv'
    <2>1. /\ verdict' \in [VerdictIds -> VerdictRow \cup {NoRow}]
          /\ pc' \in [JobIds -> PcValues] /\ JobsHaveVerdicts'
      BY <1>4, InsertFacts DEF CouncilEnqueueFails, jobVars
    <2> QED
      BY <1>1, <1>4, <2>1 DEF CouncilEnqueueFails, Fault, TypeInv, TypeOK, jobVars,
         workVars, libraryVars
  <1>5. ASSUME NEW judgement \in Judgements, CouncilStalls(b, judgement)
        PROVE  TypeInv'
    <2>1. /\ verdict' \in [VerdictIds -> VerdictRow \cup {NoRow}]
          /\ pc' \in [JobIds -> PcValues] /\ JobsHaveVerdicts'
      BY <1>5, InsertFacts DEF CouncilStalls
    <2> QED
      BY <1>1, <1>5, <2>1 DEF CouncilStalls, TypeInv, TypeOK, workVars, libraryVars
  <1>6. CASE CouncilThrows(b)
    BY <1>1, <1>6 DEF CouncilThrows, Fault, TypeInv, TypeOK, JobsHaveVerdicts,
       verdictVars, jobVars, workVars, libraryVars
  <1> QED
    BY <1>2, <1>3, <1>4, <1>5, <1>6 DEF Council

\* Nor does a user's decision.
LEMMA TypeUsers ==
    ASSUME TypeInv, NEW v \in VerdictIds,
           Confirm(v) \/ ConfirmEnqueueFails(v) \/ Reject(v)
    PROVE  TypeInv'
  <1>1. LastVersion'
    BY LastVersionKept DEF Confirm, ConfirmEnqueueFails, Reject, libraryVars
  <1>2. CASE Confirm(v)
    <2>1. <<v, "confirm">> \in JobIds /\ <<v, "confirm">>[1] = v
      BY JobFacts
    <2>2. pc' \in [JobIds -> PcValues] /\ JobsHaveVerdicts'
      BY <1>2, <2>1, GotoFacts DEF Confirm, Enqueue, Goto, Resolvable, PcValues
    <2> QED
      BY <1>1, <1>2, <2>2 DEF Confirm, TypeInv, TypeOK, Statuses, councilVars,
         workVars, libraryVars
  <1>3. CASE ConfirmEnqueueFails(v)
    BY <1>1, <1>3 DEF ConfirmEnqueueFails, Fault, TypeInv, TypeOK, JobsHaveVerdicts,
       Statuses, councilVars, jobVars, workVars, libraryVars
  <1>4. CASE Reject(v)
    BY <1>1, <1>4 DEF Reject, TypeInv, TypeOK, JobsHaveVerdicts, Statuses, councilVars,
       jobVars, workVars, libraryVars
  <1> QED
    BY <1>2, <1>3, <1>4

\* Nor does an attempt that throws.
LEMMA TypeThrow ==
    ASSUME TypeInv, NEW j \in JobIds, Throw(j), pc[j] # "none", faults' \in Nat
    PROVE  TypeInv'
  <1>1. pc' \in [JobIds -> PcValues] /\ JobsHaveVerdicts'
    BY GotoFacts DEF Throw, PcValues, verdictVars
  <1>2. lock' \in [Categories -> JobIds \cup {Free}]
    BY DEF Throw, ReleaseLock, TypeInv, TypeOK
  <1>3. loaded' \in [JobIds -> [score : 0..100, confirmed : BOOLEAN]]
        /\ seen' \in [JobIds -> Benchmark \cup {NoRow}]
    BY DEF Throw, Forget, NothingLoaded, TypeInv, TypeOK
  <1>4. LastVersion'
    BY LastVersionKept DEF Throw, libraryVars
  <1>5. failures' \in [JobIds -> Nat]
    BY DEF Throw, TypeInv, TypeOK
  <1>6. UNCHANGED <<councilVars, verdictVars, processedAt, stalled, libraryVars, scored, lapses>>
    BY DEF Throw
  <1> QED
    BY <1>1, <1>2, <1>3, <1>4, <1>5, <1>6 DEF TypeInv, TypeOK, councilVars, verdictVars,
       libraryVars

\* Nor does a step of a job.
LEMMA TypeJobs ==
    ASSUME TypeInv, NEW j \in JobIds, Claim(j) \/ Step(j)
    PROVE  TypeInv'
  <1>1. CASE Claim(j)
    <2>1. pc[j] # "none" /\ BotOf(j) \in Bots /\ j[1] \in VerdictIds
      BY <1>1, BotFacts, JobFacts DEF Claim
    <2>2. pc' \in [JobIds -> PcValues] /\ JobsHaveVerdicts'
      BY <1>1, <2>1, GotoFacts DEF Claim, PcValues, verdictVars
    <2>3. processedAt' \in [VerdictIds -> BOOLEAN]
      BY <1>1, <2>1 DEF Claim, TypeInv, TypeOK
    <2>4. loaded' \in [JobIds -> [score : 0..100, confirmed : BOOLEAN]]
      <3> DEFINE row == [score |-> score[BotOf(j)], confirmed |-> status[j[1]] = "confirmed"]
      <3>1. row \in [score : 0..100, confirmed : BOOLEAN]
        BY <2>1 DEF TypeInv, TypeOK
      <3>2. loaded' = loaded \/ loaded' = [loaded EXCEPT ![j] = row]
        BY <1>1 DEF Claim
      <3> HIDE DEF row
      <3> QED
        BY <3>1, <3>2 DEF TypeInv, TypeOK
    <2>5. LastVersion'
      BY <1>1, LastVersionKept DEF Claim, libraryVars
    <2> QED
      BY <1>1, <2>2, <2>3, <2>4, <2>5 DEF Claim, TypeInv, TypeOK, councilVars, verdictVars,
         libraryVars
  <1>2. CASE AcquireLock(j)
    <2>1. pc' \in [JobIds -> PcValues] /\ JobsHaveVerdicts'
      BY <1>2, GotoFacts DEF AcquireLock, PcValues, verdictVars
    <2>2. lock' \in [Categories -> JobIds \cup {Free}]
      BY <1>2 DEF AcquireLock, TypeInv, TypeOK
    <2>3. LastVersion'
      BY <1>2, LastVersionKept DEF AcquireLock, libraryVars
    <2> QED
      BY <1>2, <2>1, <2>2, <2>3 DEF AcquireLock, TypeInv, TypeOK, councilVars, verdictVars,
         workVars, libraryVars
  <1>3. CASE LockTimeout(j) \/ Abort(j)
    <2>1. Throw(j) /\ faults' \in Nat /\ pc[j] # "none"
      BY <1>3 DEF LockTimeout, Abort, TypeInv, TypeOK
    <2> QED
      BY <2>1, TypeThrow
  <1>4. CASE ReadBenchmark(j)
    <2>1. pc' \in [JobIds -> PcValues] /\ JobsHaveVerdicts'
      BY <1>4, GotoFacts DEF ReadBenchmark, PcValues, verdictVars
    <2>2. Category(BotOf(j)) \in AllCategories
      BY <1>4, BotFacts, CategoryFacts DEF ReadBenchmark
    <2>3. seen' \in [JobIds -> Benchmark \cup {NoRow}]
      BY <1>4, <2>2 DEF ReadBenchmark, TypeInv, TypeOK
    <2>4. LastVersion'
      BY <1>4, LastVersionKept DEF ReadBenchmark, libraryVars
    <2> QED
      BY <1>4, <2>1, <2>3, <2>4 DEF ReadBenchmark, TypeInv, TypeOK, councilVars,
         verdictVars, libraryVars
  <1>5. CASE Commit(j)
    <2>1. /\ BotOf(j) \in Bots /\ Category(BotOf(j)) \in AllCategories
          /\ j[1] \in VerdictIds
          /\ Category(BotOf(j)) # Unknown => SoulOf[BotOf(j)] \in Souls
      BY <1>5, BotFacts, CategoryFacts, JobFacts DEF Commit
    <2>2. /\ Tracked(j) \in Benchmark
          /\ Outcome(j).newState \in ClassState
          /\ Category(BotOf(j)) # Unknown => DnaWrite(j) \in DnaEntry
          /\ SignalWrite(j) \in Signals
      BY <1>5, CommitFacts DEF Commit
    <2>3. pc' \in [JobIds -> PcValues] /\ JobsHaveVerdicts'
      BY <1>5, GotoFacts DEF Commit, PcValues, verdictVars
    <2>4. benchmark' \in [AllCategories -> Benchmark \cup {NoRow}]
      BY <1>5, <2>1, <2>2 DEF Commit, TypeInv, TypeOK
    <2>5. classes' \in [Bots -> ClassState \cup {NoRow}]
      BY <1>5, <2>1, <2>2 DEF Commit, TypeInv, TypeOK
    <2>6. dna' \subseteq DnaEntry
      BY <1>5, <2>2 DEF Commit, TypeInv, TypeOK
    <2>7. signals' \in [Bots -> Signals]
      BY <1>5, <2>2 DEF Commit, TypeInv, TypeOK
    <2>8. applied' \in [VerdictIds -> Nat]
      BY <1>5, <2>1 DEF Commit, TypeInv, TypeOK
    <2>9. loaded' \in [JobIds -> [score : 0..100, confirmed : BOOLEAN]]
          /\ seen' \in [JobIds -> Benchmark \cup {NoRow}]
      BY <1>5 DEF Commit, Forget, NothingLoaded, TypeInv, TypeOK
    <2>10. LastVersion'
      <3>1. CASE Category(BotOf(j)) = Unknown
        BY <1>5, <3>1, LastVersionKept DEF Commit
      <3>2. CASE Category(BotOf(j)) # Unknown
        <4>1. /\ DnaWrite(j).soul = SoulOf[BotOf(j)]
              /\ DnaWrite(j).version = NextVersion(SoulOf[BotOf(j)])
          BY DEF DnaWrite
        <4>2. dna' = dna \cup {DnaWrite(j)}
          BY <1>5, <3>2 DEF Commit
        <4> QED
          BY <2>1, <2>2, <3>2, <4>1, <4>2, LastVersionKept
      <3> QED
        BY <3>1, <3>2
    <2> QED
      BY <1>5, <2>3, <2>4, <2>5, <2>6, <2>7, <2>8, <2>9, <2>10
         DEF Commit, TypeInv, TypeOK, councilVars, verdictVars
  <1>6. CASE RunHook(j)
    <2>1. pc' \in [JobIds -> PcValues] /\ JobsHaveVerdicts'
      BY <1>6, GotoFacts DEF RunHook, PcValues, verdictVars
    <2>2. lock' \in [Categories -> JobIds \cup {Free}]
      BY <1>6 DEF RunHook, ReleaseLock, TypeInv, TypeOK
    <2>3. scored' \in BOOLEAN
      BY <1>6 DEF RunHook
    <2>4. LastVersion'
      BY <1>6, LastVersionKept DEF RunHook, libraryVars
    <2> QED
      BY <1>6, <2>1, <2>2, <2>3, <2>4 DEF RunHook, TypeInv, TypeOK, councilVars,
         verdictVars, workVars, libraryVars
  <1> QED
    BY <1>1, <1>2, <1>3, <1>4, <1>5, <1>6 DEF Step

\* Nor does a fault, an expiring lock or a renewal.
LEMMA TypeFaults ==
    ASSUME TypeInv,
           \/ \E j \in JobIds : StepThrows(j) \/ WorkerDies(j) \/ RenewLock(j)
           \/ \E c \in Categories : LockExpires(c) \/ LockLapses(c)
    PROVE  TypeInv'
  <1>1. ASSUME NEW j \in JobIds, StepThrows(j) PROVE TypeInv'
    <2>1. Throw(j) /\ faults' \in Nat /\ pc[j] # "none"
      BY <1>1 DEF StepThrows, Fault, TypeInv, TypeOK
    <2> QED
      BY <2>1, TypeThrow
  <1>2. ASSUME NEW j \in JobIds, WorkerDies(j) PROVE TypeInv'
    <2>1. pc' \in [JobIds -> PcValues] /\ JobsHaveVerdicts'
      BY <1>2, GotoFacts DEF WorkerDies, Running, PcValues, verdictVars
    <2>2. loaded' \in [JobIds -> [score : 0..100, confirmed : BOOLEAN]]
          /\ seen' \in [JobIds -> Benchmark \cup {NoRow}]
      BY <1>2 DEF WorkerDies, Forget, NothingLoaded, TypeInv, TypeOK
    <2>3. LastVersion'
      BY <1>2, LastVersionKept DEF WorkerDies, libraryVars
    <2>4. stalled' \in [JobIds -> BOOLEAN] /\ faults' \in Nat
      BY <1>2 DEF WorkerDies, Fault, TypeInv, TypeOK
    <2>5. UNCHANGED <<councilVars, verdictVars, processedAt, failures, lock, libraryVars,
                      scored, lapses>>
      BY <1>2 DEF WorkerDies
    <2> QED
      BY <2>1, <2>2, <2>3, <2>4, <2>5 DEF TypeInv, TypeOK, councilVars, verdictVars,
         libraryVars
  <1>3. ASSUME NEW j \in JobIds, RenewLock(j) PROVE TypeInv'
    <2>1. LastVersion'
      BY <1>3, LastVersionKept DEF RenewLock, libraryVars
    <2> QED
      BY <1>3, <2>1 DEF RenewLock, TypeInv, TypeOK, JobsHaveVerdicts, councilVars,
         verdictVars, jobVars, workVars, libraryVars
  <1>4. ASSUME NEW c \in Categories, LockExpires(c) \/ LockLapses(c) PROVE TypeInv'
    <2>1. LastVersion'
      BY <1>4, LastVersionKept DEF LockExpires, LockLapses, libraryVars
    <2>2. lock' \in [Categories -> JobIds \cup {Free}] /\ lapses' \in Nat
      BY <1>4 DEF LockExpires, LockLapses, TypeInv, TypeOK
    <2>3. UNCHANGED <<councilVars, verdictVars, processedAt, jobVars, workVars,
                      libraryVars, scored, faults>>
      BY <1>4 DEF LockExpires, LockLapses
    <2> QED
      BY <2>1, <2>2, <2>3 DEF TypeInv, TypeOK, JobsHaveVerdicts, councilVars, verdictVars,
         jobVars, workVars, libraryVars
  <1> QED
    BY <1>1, <1>2, <1>3, <1>4

\* Every step keeps the types.
LEMMA TypeStep == TypeInv /\ [Next]_vars => TypeInv'
  <1> SUFFICES ASSUME TypeInv, [Next]_vars PROVE TypeInv'
    OBVIOUS
  <1>1. CASE UNCHANGED vars
    BY <1>1 DEF vars, councilVars, verdictVars, jobVars, workVars, libraryVars, TypeInv,
       TypeOK, JobsHaveVerdicts, LastVersion, Versions
  <1> QED
    BY <1>1, TypeCouncil, TypeUsers, TypeJobs, TypeFaults DEF Next

\* Every row of the library, every job and every lock is always well formed: a
\* job always finds the verdict it is for, and a soul's next version exists.
THEOREM TypeCorrect == Spec => []TypeOK
  <1>1. TypeInv => TypeOK
    BY DEF TypeInv
  <1> QED
    BY TypeInit, TypeStep, <1>1, PTL DEF Spec

-------------------------------------------------------------------------------
(* A verdict is applied at most once.  The claim is taken once and never given  *)
(* back, so only the attempt that took it can be on its way to a commit.        *)

Underway == {"loaded", "reading", "writing"}

OnceInv ==
    /\ \A j \in JobIds : pc[j] \in Underway => processedAt[j[1]] /\ applied[j[1]] = 0
    /\ \A i, j \in JobIds : pc[i] \in Underway /\ pc[j] \in Underway /\ i[1] = j[1] => i = j
    /\ \A v \in VerdictIds : applied[v] <= 1 /\ (applied[v] > 0 => processedAt[v])

\* Whatever neither claims nor commits can only take a job off its way.
LEMMA OnceKept ==
    ASSUME OnceInv, UNCHANGED <<processedAt, applied>>,
           \A j \in JobIds : pc'[j] \in Underway => pc[j] \in Underway
    PROVE  OnceInv'
  BY DEF OnceInv

\* No verdict has been claimed at first.
LEMMA OnceInit == Init => OnceInv
  BY DEF Init, OnceInv, Underway

\* Every step keeps the claim exclusive.
LEMMA OnceStep == TypeInv /\ OnceInv /\ [Next]_vars => OnceInv'
  <1> SUFFICES ASSUME TypeInv, OnceInv, [Next]_vars PROVE OnceInv'
    OBVIOUS
  <1>1. ASSUME NEW b \in Bots, PerformancePipeline(b) \/ Council(b) \/ CouncilThrows(b)
        PROVE  OnceInv'
    <2>1. UNCHANGED <<processedAt, applied>>
      BY <1>1 DEF PerformancePipeline, Council, CouncilThrows, CouncilJudges,
         CouncilEnqueueFails, CouncilStalls, libraryVars
    <2>2. pc' = pc \/ \E k : pc' = [pc EXCEPT ![k] = "waiting"]
      BY <1>1 DEF PerformancePipeline, Council, CouncilThrows, CouncilJudges,
         CouncilEnqueueFails, CouncilStalls, jobVars, AutoEnqueue, Enqueue
    <2> QED
      BY <2>1, <2>2, OnceKept DEF Underway, TypeInv, TypeOK
  <1>2. ASSUME NEW v \in VerdictIds, Confirm(v) \/ ConfirmEnqueueFails(v) \/ Reject(v)
        PROVE  OnceInv'
    <2>1. UNCHANGED <<processedAt, applied>>
      BY <1>2 DEF Confirm, ConfirmEnqueueFails, Reject, libraryVars
    <2>2. pc' = pc \/ \E k : pc' = [pc EXCEPT ![k] = "waiting"]
      BY <1>2 DEF Confirm, ConfirmEnqueueFails, Reject, jobVars, Enqueue
    <2> QED
      BY <2>1, <2>2, OnceKept DEF Underway, TypeInv, TypeOK
  <1>3. ASSUME NEW j \in JobIds, Claim(j) PROVE OnceInv'
    <2>1. j[1] \in VerdictIds /\ \A i \in JobIds : i[1] \in VerdictIds
      BY JobFacts
    <2>2. applied' = applied
      BY <1>3 DEF Claim, libraryVars
    <2>3. CASE processedAt[j[1]]
      <3>1. processedAt' = processedAt /\ pc' = [pc EXCEPT ![j] = "done"]
        BY <1>3, <2>3 DEF Claim, Goto
      <3> QED
        BY <2>2, <3>1, OnceKept DEF Underway, TypeInv, TypeOK
    <2>4. CASE ~ processedAt[j[1]]
      <3>1. /\ processedAt' = [processedAt EXCEPT ![j[1]] = TRUE]
            /\ pc' = [pc EXCEPT ![j] = "loaded"]
        BY <1>3, <2>4 DEF Claim, Goto
      <3>2. /\ \A i \in JobIds : i[1] = j[1] => pc[i] \notin Underway
            /\ applied[j[1]] = 0
        BY <2>1, <2>4 DEF OnceInv, TypeInv, TypeOK
      <3>3. \A i \in JobIds : pc'[i] \in Underway => i = j \/ pc[i] \in Underway
        BY <3>1 DEF TypeInv, TypeOK
      <3>4. \A v \in VerdictIds : processedAt'[v] = (v = j[1] \/ processedAt[v])
        BY <3>1 DEF TypeInv, TypeOK
      <3> QED
        BY <2>1, <2>2, <3>2, <3>3, <3>4 DEF OnceInv
    <2> QED
      BY <2>3, <2>4
  <1>4. ASSUME NEW j \in JobIds, Commit(j) PROVE OnceInv'
    <2>1. j[1] \in VerdictIds /\ \A i \in JobIds : i[1] \in VerdictIds
      BY JobFacts
    <2>2. /\ processedAt' = processedAt /\ pc[j] \in Underway
          /\ applied' = [applied EXCEPT ![j[1]] = @ + 1]
          /\ pc' = [pc EXCEPT ![j] = "hook"]
      BY <1>4 DEF Commit, Goto, Underway
    <2>3. processedAt[j[1]] /\ applied[j[1]] = 0
      BY <2>2 DEF OnceInv
    <2>4. \A i \in JobIds : pc'[i] \in Underway => pc[i] \in Underway /\ i[1] # j[1]
      BY <2>2 DEF OnceInv, Underway, TypeInv, TypeOK
    <2>5. \A v \in VerdictIds : applied'[v] = IF v = j[1] THEN 1 ELSE applied[v]
      BY <2>2, <2>3 DEF TypeInv, TypeOK
    <2> QED
      BY <2>1, <2>2, <2>3, <2>4, <2>5 DEF OnceInv
  <1>5. ASSUME NEW j \in JobIds, Step(j), ~ Commit(j) PROVE OnceInv'
    <2>1. UNCHANGED <<processedAt, applied>>
      BY <1>5 DEF Step, AcquireLock, LockTimeout, ReadBenchmark, Abort, RunHook, Throw,
         libraryVars
    <2>2. \/ pc[j] \in Underway /\ \E step : pc' = [pc EXCEPT ![j] = step]
          \/ pc' = [pc EXCEPT ![j] = "done"]
      BY <1>5 DEF Step, AcquireLock, LockTimeout, ReadBenchmark, Abort, RunHook, Throw, Goto,
         Underway
    <2> QED
      BY <2>1, <2>2, OnceKept DEF Underway, TypeInv, TypeOK
  <1>6. ASSUME NEW j \in JobIds, StepThrows(j) \/ WorkerDies(j) \/ RenewLock(j)
        PROVE  OnceInv'
    <2>1. UNCHANGED <<processedAt, applied>>
      BY <1>6 DEF StepThrows, WorkerDies, RenewLock, Throw, libraryVars
    <2>2. pc' = pc \/ \E step \in {"waiting", "failed"} : pc' = [pc EXCEPT ![j] = step]
      BY <1>6 DEF StepThrows, WorkerDies, RenewLock, Throw, Goto, jobVars
    <2> QED
      BY <2>1, <2>2, OnceKept DEF Underway, TypeInv, TypeOK
  <1>7. ASSUME NEW c \in Categories, LockExpires(c) \/ LockLapses(c) PROVE OnceInv'
    BY <1>7, OnceKept DEF LockExpires, LockLapses, jobVars, libraryVars
  <1>8. CASE UNCHANGED vars
    BY <1>8, OnceKept DEF vars, jobVars, libraryVars
  <1> QED
    BY <1>1, <1>2, <1>3, <1>4, <1>5, <1>6, <1>7, <1>8 DEF Next

\* However many jobs are enqueued for a verdict, retried or delivered again, no
\* second transaction of it ever commits.
THEOREM AppliedOnce == Spec => []AppliedAtMostOnce
  <1>1. OnceInv => AppliedAtMostOnce
    BY DEF OnceInv, AppliedAtMostOnce
  <1> QED
    BY TypeInit, TypeStep, OnceInit, OnceStep, <1>1, PTL DEF Spec

-------------------------------------------------------------------------------
(* The lock and the benchmark.  Both arguments need the bot, and so the         *)
(* category, of a job to stay what it is: a verdict row is never rewritten.     *)

\* Whatever inserts a verdict leaves those that exist alone.
LEMMA VerdictsStay ==
    ASSUME TypeInv, [Next]_vars
    PROVE  \A v \in VerdictIds : verdict[v] # NoRow => verdict'[v] = verdict[v]
  <1> DEFINE Inserted ==
        \E row : RoomForVerdict /\ verdict' = [verdict EXCEPT ![NextVerdict] = row]
  <1>1. verdict' = verdict \/ Inserted
    <2>1. ASSUME NEW b \in Bots, PerformancePipeline(b) \/ CouncilThrows(b)
          PROVE  verdict' = verdict
      BY <2>1 DEF PerformancePipeline, CouncilThrows, verdictVars
    <2>2. ASSUME NEW b \in Bots, Council(b)
          PROVE  Inserted
      BY <2>2 DEF Council, CouncilJudges, CouncilEnqueueFails, CouncilStalls, InsertVerdict
    <2>3. ASSUME NEW v \in VerdictIds, Confirm(v) \/ ConfirmEnqueueFails(v) \/ Reject(v)
          PROVE  verdict' = verdict
      BY <2>3 DEF Confirm, ConfirmEnqueueFails, Reject
    <2>4. ASSUME NEW j \in JobIds, Claim(j) \/ Step(j) PROVE verdict' = verdict
      BY <2>4 DEF Claim, Step, AcquireLock, LockTimeout, ReadBenchmark, Commit, Abort,
         RunHook, Throw, verdictVars
    <2>5. ASSUME NEW j \in JobIds, StepThrows(j) \/ WorkerDies(j) \/ RenewLock(j)
          PROVE  verdict' = verdict
      BY <2>5 DEF StepThrows, WorkerDies, RenewLock, Throw, verdictVars
    <2>6. ASSUME NEW c \in Categories, LockExpires(c) \/ LockLapses(c)
          PROVE  verdict' = verdict
      BY <2>6 DEF LockExpires, LockLapses, verdictVars
    <2>7. UNCHANGED vars => verdict' = verdict
      BY DEF vars, verdictVars
    <2> HIDE DEF Inserted
    <2> QED
      BY <2>1, <2>2, <2>3, <2>4, <2>5, <2>6, <2>7 DEF Next
  <1> QED
    BY <1>1, NextVerdictFacts DEF TypeInv, TypeOK

\* A job keeps its bot.
LEMMA RowsStay ==
    ASSUME TypeInv, [Next]_vars
    PROVE  \A j \in JobIds : pc[j] # "none" => BotOf(j)' = BotOf(j)
  BY VerdictsStay, JobFacts DEF TypeInv, JobsHaveVerdicts, BotOf, VerdictOf

Held(j) == pc[j] \in Critical /\ Category(BotOf(j)) # Unknown

\* As long as no lock lapses under its holder, whoever is inside owns the lock.
LockInv == MaxLapses = 0 => \A j \in JobIds : Held(j) => lock[Category(BotOf(j))] = j

\* A step that lets nobody in and takes no lock from anybody still inside.
LEMMA LockKept ==
    ASSUME TypeInv, LockInv, [Next]_vars,
           \A j \in JobIds : pc'[j] \in Critical =>
              /\ pc[j] \in Critical
              /\ \A c \in Categories : lock[c] = j => lock'[c] = j
    PROVE  LockInv'
  <1> SUFFICES ASSUME MaxLapses = 0, NEW j \in JobIds, Held(j)'
               PROVE  (lock[Category(BotOf(j))] = j)'
    BY DEF LockInv
  <1>1. pc[j] \in Critical /\ pc[j] # "none"
    BY DEF Held, Critical
  <1>2. BotOf(j)' = BotOf(j) /\ BotOf(j) \in Bots
    BY <1>1, RowsStay, BotFacts
  <1>3. Category(BotOf(j))' = Category(BotOf(j))
    BY <1>2 DEF Category
  <1>4. Held(j) /\ Category(BotOf(j)) \in Categories
    BY <1>1, <1>2, <1>3, CategoryFacts DEF Held
  <1>5. lock[Category(BotOf(j))] = j
    BY <1>4 DEF LockInv
  <1>6. lock'[Category(BotOf(j))] = j
    BY <1>1, <1>4, <1>5 DEF Held
  <1> QED
    BY <1>3, <1>6

\* Nobody is inside at first.
LEMMA LockInit == Init => LockInv
  BY DEF Init, LockInv, Held, Critical

\* A lock is given up by its owner or, when the owner is gone, by its TTL.
LEMMA LockStep == TypeInv /\ LockInv /\ [Next]_vars => LockInv'
  <1> SUFFICES ASSUME TypeInv, LockInv, [Next]_vars PROVE LockInv'
    OBVIOUS
  <1>1. ASSUME NEW b \in Bots, PerformancePipeline(b) \/ Council(b) \/ CouncilThrows(b)
        PROVE  LockInv'
    <2>1. lock' = lock
      BY <1>1 DEF PerformancePipeline, Council, CouncilThrows, CouncilJudges,
         CouncilEnqueueFails, CouncilStalls
    <2>2. pc' = pc \/ \E k : pc' = [pc EXCEPT ![k] = "waiting"]
      BY <1>1 DEF PerformancePipeline, Council, CouncilThrows, CouncilJudges,
         CouncilEnqueueFails, CouncilStalls, jobVars, AutoEnqueue, Enqueue
    <2> QED
      BY <2>1, <2>2, LockKept DEF Critical, TypeInv, TypeOK
  <1>2. ASSUME NEW v \in VerdictIds, Confirm(v) \/ ConfirmEnqueueFails(v) \/ Reject(v)
        PROVE  LockInv'
    <2>1. lock' = lock
      BY <1>2 DEF Confirm, ConfirmEnqueueFails, Reject
    <2>2. pc' = pc \/ \E k : pc' = [pc EXCEPT ![k] = "waiting"]
      BY <1>2 DEF Confirm, ConfirmEnqueueFails, Reject, jobVars, Enqueue
    <2> QED
      BY <2>1, <2>2, LockKept DEF Critical, TypeInv, TypeOK
  <1>3. ASSUME NEW j \in JobIds, Claim(j) PROVE LockInv'
    <2>1. lock' = lock /\ \E step \in {"done", "loaded"} : pc' = [pc EXCEPT ![j] = step]
      BY <1>3 DEF Claim, Goto
    <2> QED
      BY <2>1, LockKept DEF Critical, TypeInv, TypeOK
  <1>4. ASSUME NEW j \in JobIds, AcquireLock(j) PROVE LockInv'
    <2> SUFFICES ASSUME MaxLapses = 0, NEW i \in JobIds, Held(i)'
                 PROVE  (lock[Category(BotOf(i))] = i)'
      BY DEF LockInv
    <2>1. pc' = [pc EXCEPT ![j] = "reading"] /\ pc[j] = "loaded"
      BY <1>4 DEF AcquireLock, Goto
    <2>2. pc[i] # "none" /\ (i # j => pc[i] \in Critical)
      BY <2>1 DEF Held, Critical, TypeInv, TypeOK
    <2>3. BotOf(i)' = BotOf(i) /\ BotOf(i) \in Bots
      BY <2>2, RowsStay, BotFacts
    <2>4. /\ Category(BotOf(i))' = Category(BotOf(i))
          /\ Category(BotOf(i)) # Unknown /\ Category(BotOf(i)) \in Categories
      BY <2>3, CategoryFacts DEF Category, Held
    <2>5. i # j => lock[Category(BotOf(i))] = i
      BY <2>2, <2>4 DEF LockInv, Held
    <2>6. \A k \in JobIds : k # Free
      BY NullAssumption DEF JobIds, VerdictIds, Producers
    <2> DEFINE c == Category(BotOf(j))
    <2>7. \/ c = Unknown /\ lock' = lock
          \/ c # Unknown /\ lock[c] = Free /\ lock' = [lock EXCEPT ![c] = j]
      BY <1>4 DEF AcquireLock
    <2> QED
      BY <2>4, <2>5, <2>6, <2>7 DEF TypeInv, TypeOK
  <1>5. ASSUME NEW j \in JobIds, ReadBenchmark(j) \/ Commit(j) PROVE LockInv'
    <2>1. /\ lock' = lock /\ pc[j] \in Critical
          /\ \E step : pc' = [pc EXCEPT ![j] = step]
      BY <1>5 DEF ReadBenchmark, Commit, Goto, Critical
    <2> QED
      BY <2>1, LockKept DEF TypeInv, TypeOK
  <1>6. ASSUME NEW j \in JobIds, RunHook(j) \/ LockTimeout(j) \/ Abort(j) \/ StepThrows(j)
        PROVE  LockInv'
    <2>1. /\ ReleaseLock(j)
          /\ \E step \in {"done", "waiting", "failed"} : pc' = [pc EXCEPT ![j] = step]
      BY <1>6 DEF RunHook, LockTimeout, Abort, StepThrows, Throw, Goto
    <2> QED
      BY <2>1, LockKept DEF ReleaseLock, Critical, TypeInv, TypeOK
  <1>7. ASSUME NEW j \in JobIds, WorkerDies(j) PROVE LockInv'
    <2>1. lock' = lock /\ \E step \in {"waiting", "failed"} : pc' = [pc EXCEPT ![j] = step]
      BY <1>7 DEF WorkerDies, Goto
    <2> QED
      BY <2>1, LockKept DEF Critical, TypeInv, TypeOK
  <1>8. ASSUME NEW j \in JobIds, RenewLock(j) PROVE LockInv'
    <2>1. Held(j) /\ lock[Category(BotOf(j))] # j
      BY <1>8 DEF RenewLock, Held
    <2>2. MaxLapses # 0
      BY <2>1 DEF LockInv
    <2> QED
      BY <2>2 DEF LockInv
  <1>9. ASSUME NEW c \in Categories, LockExpires(c) PROVE LockInv'
    <2> SUFFICES ASSUME MaxLapses = 0, NEW i \in JobIds, Held(i)'
                 PROVE  (lock[Category(BotOf(i))] = i)'
      BY DEF LockInv
    <2>1. /\ pc' = pc /\ lock' = [lock EXCEPT ![c] = Free]
          /\ ~ Holding(lock[c], c)
      BY <1>9 DEF LockExpires, jobVars
    <2>2. pc[i] \in Critical /\ pc[i] # "none"
      BY <2>1 DEF Held, Critical
    <2>3. BotOf(i)' = BotOf(i) /\ BotOf(i) \in Bots
      BY <2>2, RowsStay, BotFacts
    <2>4. /\ Category(BotOf(i))' = Category(BotOf(i))
          /\ Category(BotOf(i)) # Unknown /\ Category(BotOf(i)) \in Categories
      BY <2>3, CategoryFacts DEF Category, Held
    <2>5. lock[Category(BotOf(i))] = i
      BY <2>2, <2>4 DEF LockInv, Held
    <2>6. Category(BotOf(i)) # c
      BY <2>1, <2>2, <2>5 DEF Holding
    <2> QED
      BY <2>1, <2>4, <2>5, <2>6 DEF TypeInv, TypeOK
  <1>10. ASSUME NEW c \in Categories, LockLapses(c) PROVE LockInv'
    <2>1. lapses \in Nat /\ lapses < MaxLapses
      BY <1>10 DEF LockLapses, TypeInv, TypeOK
    <2> QED
      BY <2>1 DEF LockInv
  <1>11. CASE UNCHANGED vars
    BY <1>11, LockKept DEF vars, jobVars
  <1> QED
    BY <1>1, <1>2, <1>3, <1>4, <1>5, <1>6, <1>7, <1>8, <1>9, <1>10, <1>11 DEF Next, Step

\* Two transactions of a category never overlap, whoever throws or dies, unless a
\* holder is paused for longer than the TTL of its lock.
THEOREM MutualExclusion == Spec => []CategoryMutex
  <1>1. LockInv => CategoryMutex
    BY DEF LockInv, Held, CategoryMutex
  <1> QED
    BY TypeInit, TypeStep, LockInit, LockStep, <1>1, PTL DEF Spec

-------------------------------------------------------------------------------
\* The benchmark row a transaction has selected may be old, but never shows another
\* pioneer or another baseline than the table.
SameBaseline(old, new) ==
    new # NoRow /\ new.pioneer = old.pioneer /\ new.baseline = old.baseline

SeenInv == \A j \in JobIds : pc[j] = "writing" /\ seen[j] # NoRow =>
              SameBaseline(seen[j], benchmark[Category(BotOf(j))])

\* A step that lets nobody into the write and keeps every baseline.
LEMMA SeenKept ==
    ASSUME TypeInv, SeenInv, [Next]_vars,
           \A j \in JobIds : pc'[j] = "writing" => pc[j] = "writing" /\ seen'[j] = seen[j],
           \A c \in AllCategories : benchmark[c] # NoRow =>
              SameBaseline(benchmark[c], benchmark'[c])
    PROVE  SeenInv'
  <1> SUFFICES ASSUME NEW j \in JobIds, (pc[j] = "writing" /\ seen[j] # NoRow)'
               PROVE  SameBaseline(seen[j], benchmark[Category(BotOf(j))])'
    BY DEF SeenInv
  <1>1. pc[j] = "writing" /\ seen'[j] = seen[j]
    OBVIOUS
  <1>2. Category(BotOf(j))' = Category(BotOf(j)) /\ Category(BotOf(j)) \in AllCategories
    BY <1>1, RowsStay, BotFacts, CategoryFacts DEF Category
  <1> QED
    BY <1>1, <1>2 DEF SeenInv, SameBaseline

\* What a commit writes over a benchmark row has its pioneer and its baseline.
LEMMA CommitKeepsBaseline ==
    ASSUME TypeInv, SeenInv, NEW j \in JobIds, Commit(j)
    PROVE  \A c \in AllCategories : benchmark[c] # NoRow =>
              SameBaseline(benchmark[c], benchmark'[c])
  <1> DEFINE own == Category(BotOf(j))
  <1>1. pc[j] = "writing" /\ own \in AllCategories
    BY BotFacts, CategoryFacts DEF Commit
  <1>2. benchmark' = [benchmark EXCEPT ![own] = Tracked(j)] /\ ~ DuplicatePioneer(j)
    BY DEF Commit
  <1>3. Tracked(j) # NoRow
    BY <1>1, CommitFacts, NullFacts
  <1>4. benchmark[own] # NoRow => SameBaseline(benchmark[own], Tracked(j))
    <2> SUFFICES ASSUME benchmark[own] # NoRow
                 PROVE  SameBaseline(benchmark[own], Tracked(j))
      OBVIOUS
    <2>1. seen[j] # NoRow
      BY <1>2 DEF DuplicatePioneer
    <2>2. SameBaseline(seen[j], benchmark[own])
      BY <1>1, <2>1 DEF SeenInv
    <2>3. seen[j] \in Benchmark
      BY <2>1 DEF TypeInv, TypeOK
    <2>4. Tracked(j).pioneer = seen[j].pioneer /\ Tracked(j).baseline = seen[j].baseline
      BY <2>1, <2>3 DEF Tracked, Benchmark
    <2> QED
      BY <1>3, <2>2, <2>4 DEF SameBaseline
  <1> QED
    BY <1>1, <1>2, <1>4 DEF SameBaseline, TypeInv, TypeOK

\* Nothing has been selected at first.
LEMMA SeenInit == Init => SeenInv
  BY DEF Init, SeenInv

\* No step but a commit writes to the library.
LEMMA LibraryFrame ==
    ASSUME [Next]_vars, \A j \in JobIds : ~ Commit(j)
    PROVE  UNCHANGED <<benchmark, classes, dna, signals, applied>>
  <1> DEFINE SameLibrary == UNCHANGED <<benchmark, classes, dna, signals, applied>>
  <1>1. ASSUME NEW b \in Bots, PerformancePipeline(b) \/ Council(b) \/ CouncilThrows(b)
        PROVE  SameLibrary
    BY <1>1 DEF PerformancePipeline, Council, CouncilThrows, CouncilJudges,
       CouncilEnqueueFails, CouncilStalls, libraryVars
  <1>2. ASSUME NEW v \in VerdictIds, Confirm(v) \/ ConfirmEnqueueFails(v) \/ Reject(v)
        PROVE  SameLibrary
    BY <1>2 DEF Confirm, ConfirmEnqueueFails, Reject, libraryVars
  <1>3. ASSUME NEW j \in JobIds, Claim(j) \/ Step(j) PROVE SameLibrary
    BY <1>3 DEF Claim, Step, AcquireLock, LockTimeout, ReadBenchmark, Abort, RunHook, Throw,
       libraryVars
  <1>4. ASSUME NEW j \in JobIds, StepThrows(j) \/ WorkerDies(j) \/ RenewLock(j)
        PROVE  SameLibrary
    BY <1>4 DEF StepThrows, WorkerDies, RenewLock, Throw, libraryVars
  <1>5. ASSUME NEW c \in Categories, LockExpires(c) \/ LockLapses(c)
        PROVE  SameLibrary
    BY <1>5 DEF LockExpires, LockLapses, libraryVars
  <1>6. UNCHANGED vars => SameLibrary
    BY DEF vars, libraryVars
  <1> QED
    BY <1>1, <1>2, <1>3, <1>4, <1>5, <1>6 DEF Next

\* No step but a selection starts a write, or replaces what one has selected.
LEMMA WritingFrame ==
    ASSUME TypeInv, [Next]_vars, \A j \in JobIds : ~ ReadBenchmark(j)
    PROVE  \A j \in JobIds : pc'[j] = "writing" => pc[j] = "writing" /\ seen'[j] = seen[j]
  <1> DEFINE Kept == \A j \in JobIds :
                        pc'[j] = "writing" => pc[j] = "writing" /\ seen'[j] = seen[j]
  <1>1. ASSUME NEW b \in Bots, PerformancePipeline(b) \/ Council(b) \/ CouncilThrows(b)
        PROVE  Kept
    <2>1. /\ seen' = seen
          /\ pc' = pc \/ \E k : pc' = [pc EXCEPT ![k] = "waiting"]
      BY <1>1 DEF PerformancePipeline, Council, CouncilThrows, CouncilJudges, jobVars,
         CouncilEnqueueFails, CouncilStalls, workVars, AutoEnqueue, Enqueue
    <2> QED
      BY <2>1 DEF TypeInv, TypeOK
  <1>2. ASSUME NEW v \in VerdictIds, Confirm(v) \/ ConfirmEnqueueFails(v) \/ Reject(v)
        PROVE  Kept
    <2>1. /\ seen' = seen
          /\ pc' = pc \/ \E k : pc' = [pc EXCEPT ![k] = "waiting"]
      BY <1>2 DEF Confirm, ConfirmEnqueueFails, Reject, workVars, jobVars, Enqueue
    <2> QED
      BY <2>1 DEF TypeInv, TypeOK
  <1>3. ASSUME NEW j \in JobIds,
               Claim(j) \/ Step(j) \/ StepThrows(j) \/ WorkerDies(j) \/ RenewLock(j)
        PROVE  Kept
    <2>1. \/ pc' = pc /\ seen' = seen
          \/ /\ \E step \in PcValues \ {"writing"} : pc' = [pc EXCEPT ![j] = step]
             /\ seen' = seen \/ seen' = [seen EXCEPT ![j] = NoRow]
      <3>1. CASE Claim(j)
        BY <3>1 DEF Claim, Goto, PcValues
      <3>2. CASE AcquireLock(j)
        BY <3>2 DEF AcquireLock, Goto, PcValues, workVars
      <3>3. CASE Commit(j)
        BY <3>3 DEF Commit, Goto, Forget, PcValues, TypeInv, TypeOK
      <3>4. CASE RunHook(j)
        BY <3>4 DEF RunHook, Goto, PcValues, workVars
      <3>5. Throw(j) => /\ \E step \in {"waiting", "failed"} : pc' = [pc EXCEPT ![j] = step]
                        /\ seen' = [seen EXCEPT ![j] = NoRow]
        BY DEF Throw, Goto, Forget
      <3>6. CASE LockTimeout(j) \/ Abort(j) \/ StepThrows(j)
        BY <3>5, <3>6 DEF LockTimeout, Abort, StepThrows, PcValues
      <3>7. CASE WorkerDies(j)
        BY <3>7 DEF WorkerDies, Running, Goto, Forget, PcValues, TypeInv, TypeOK
      <3>8. CASE RenewLock(j)
        BY <3>8 DEF RenewLock, jobVars, workVars
      <3> QED
        BY <1>3, <3>1, <3>2, <3>3, <3>4, <3>6, <3>7, <3>8 DEF Step
    <2> QED
      BY <2>1 DEF TypeInv, TypeOK
  <1>4. ASSUME NEW c \in Categories, LockExpires(c) \/ LockLapses(c) PROVE Kept
    BY <1>4 DEF LockExpires, LockLapses, jobVars, workVars
  <1>5. UNCHANGED vars => Kept
    BY DEF vars, jobVars, workVars
  <1> QED
    BY <1>1, <1>2, <1>3, <1>4, <1>5 DEF Next

\* Selections show the table as it is, and commits keep what others have selected.
LEMMA SeenStep == TypeInv /\ SeenInv /\ [Next]_vars => SeenInv'
  <1> SUFFICES ASSUME TypeInv, SeenInv, [Next]_vars PROVE SeenInv'
    OBVIOUS
  <1> DEFINE BaselinesKept == \A c \in AllCategories : benchmark[c] # NoRow =>
                                SameBaseline(benchmark[c], benchmark'[c])
  <1>1. BaselinesKept
    <2>1. CASE \E j \in JobIds : Commit(j)
      BY <2>1, CommitKeepsBaseline
    <2>2. CASE \A j \in JobIds : ~ Commit(j)
      BY <2>2, LibraryFrame DEF SameBaseline
    <2> QED
      BY <2>1, <2>2
  <1>2. CASE \A j \in JobIds : ~ ReadBenchmark(j)
    <2>1. \A j \in JobIds : pc'[j] = "writing" => pc[j] = "writing" /\ seen'[j] = seen[j]
      BY <1>2, WritingFrame
    <2> HIDE DEF BaselinesKept
    <2> QED
      BY <1>1, <2>1, SeenKept DEF BaselinesKept
  <1>3. ASSUME NEW j \in JobIds, ReadBenchmark(j) PROVE SeenInv'
    <2> SUFFICES ASSUME NEW i \in JobIds, (pc[i] = "writing" /\ seen[i] # NoRow)'
                 PROVE  SameBaseline(seen[i], benchmark[Category(BotOf(i))])'
      BY DEF SeenInv
    <2>1. /\ pc[j] = "reading" /\ benchmark' = benchmark /\ verdict' = verdict
          /\ seen' = [seen EXCEPT ![j] = benchmark[Category(BotOf(j))]]
          /\ pc' = [pc EXCEPT ![j] = "writing"]
      BY <1>3 DEF ReadBenchmark, Goto, libraryVars, verdictVars
    <2>2. Category(BotOf(i))' = Category(BotOf(i))
      BY <2>1 DEF Category, BotOf, VerdictOf
    <2>3. i # j => pc[i] = "writing" /\ seen'[i] = seen[i]
      BY <2>1 DEF TypeInv, TypeOK
    <2>4. i = j => seen'[i] = benchmark[Category(BotOf(i))]
      BY <2>1 DEF TypeInv, TypeOK
    <2> QED
      BY <2>1, <2>2, <2>3, <2>4 DEF SeenInv, SameBaseline
  <1> QED
    BY <1>2, <1>3

\* The first run of a category sets its pioneer and its baseline for good, with or
\* without the lock: the unique index aborts whoever comes second.
THEOREM BaselineFixed == Spec => BaselinePermanent
  <1> DEFINE Fixed == \A c \in AllCategories : benchmark[c] # NoRow =>
                         /\ benchmark'[c].pioneer = benchmark[c].pioneer
                         /\ benchmark'[c].baseline = benchmark[c].baseline
  <1>1. TypeInv /\ SeenInv /\ [Next]_vars => [Fixed]_vars
    <2> SUFFICES ASSUME TypeInv, SeenInv, [Next]_vars PROVE Fixed
      OBVIOUS
    <2>1. CASE \E j \in JobIds : Commit(j)
      BY <2>1, CommitKeepsBaseline DEF SameBaseline
    <2>2. CASE \A j \in JobIds : ~ Commit(j)
      BY <2>2, LibraryFrame
    <2> QED
      BY <2>1, <2>2
  <1> QED
    BY TypeInit, TypeStep, SeenInit, SeenStep, <1>1, PTL DEF Spec, BaselinePermanent

-------------------------------------------------------------------------------
(* The books.  Each commit applies one verdict more, of a row that exists; the  *)
(* counts, the lineages and the register change in that step and in no other.   *)

Applied == {v \in VerdictIds : verdict[v] # NoRow /\ applied[v] > 0}

RowsApplied == \A v \in VerdictIds : applied[v] > 0 => verdict[v] # NoRow

\* Without a commit, the same verdicts are the applied ones, of the same rows.
LEMMA AppliedFrame ==
    ASSUME TypeInv, RowsApplied, [Next]_vars, \A j \in JobIds : ~ Commit(j)
    PROVE  /\ RowsApplied' /\ Applied' = Applied
           /\ \A v \in Applied : verdict'[v] = verdict[v]
  <1>1. applied' = applied
    BY LibraryFrame
  <1>2. \A v \in VerdictIds : verdict[v] # NoRow => verdict'[v] = verdict[v]
    BY VerdictsStay
  <1> QED
    BY <1>1, <1>2 DEF RowsApplied, Applied

\* A commit adds the verdict of its job, which was not applied before.
LEMMA AppliedGrows ==
    ASSUME TypeInv, OnceInv, RowsApplied, NEW j \in JobIds, Commit(j)
    PROVE  /\ RowsApplied' /\ Applied' = Applied \cup {j[1]}
           /\ j[1] \in VerdictIds /\ j[1] \notin Applied
           /\ verdict' = verdict /\ status' = status /\ VerdictOf(j) = verdict[j[1]]
  <1>1. /\ j[1] \in VerdictIds /\ pc[j] = "writing" /\ verdict' = verdict /\ status' = status
        /\ applied' = [applied EXCEPT ![j[1]] = @ + 1]
    BY JobFacts DEF Commit, verdictVars
  <1>2. verdict[j[1]] # NoRow
    BY <1>1 DEF TypeInv, JobsHaveVerdicts
  <1>3. applied[j[1]] = 0
    BY <1>1 DEF OnceInv, Underway
  <1>4. \A v \in VerdictIds : applied'[v] = IF v = j[1] THEN 1 ELSE applied[v]
    BY <1>1, <1>3 DEF TypeInv, TypeOK
  <1> QED
    BY <1>1, <1>2, <1>3, <1>4 DEF RowsApplied, Applied, VerdictOf

\* Nothing is applied at first.
LEMMA AppliedInit == Init => RowsApplied /\ Applied = {}
  BY DEF Init, RowsApplied, Applied

\* Any set of verdicts can be counted, and one verdict more counts as one.
LEMMA CountFacts ==
    ASSUME NEW S \in SUBSET VerdictIds
    PROVE  /\ IsFiniteSet(S) /\ Cardinality(S) \in Nat
           /\ \A v : v \notin S => Cardinality(S \cup {v}) = Cardinality(S) + 1
           /\ \A T \in SUBSET S : Cardinality(T) <= Cardinality(S)
  <1>1. IsFiniteSet(VerdictIds)
    <2>1. 1 \in Int /\ MaxVerdicts \in Int
      BY BoundAssumption
    <2> QED
      BY <2>1, FS_Interval DEF VerdictIds
  <1>2. IsFiniteSet(S)
    BY <1>1, FS_Subset
  <1>3. Cardinality(S) \in Nat
    BY <1>2, FS_CardinalityType
  <1>4. \A v : v \notin S => Cardinality(S \cup {v}) = Cardinality(S) + 1
    BY <1>2, FS_AddElement
  <1>5. \A T \in SUBSET S : Cardinality(T) <= Cardinality(S)
    BY <1>2, FS_Subset
  <1> QED
    BY <1>2, <1>3, <1>4, <1>5

-------------------------------------------------------------------------------
\* A bot is Retired by the transition that is signalled, and only while it is not.
LEMMA OutcomeRetires ==
    ASSUME TypeInv, NEW j \in JobIds, pc[j] = "writing"
    PROVE  LET old == ClassOf(BotOf(j)).currentClass
               new == Outcome(j).newState.currentClass
           IN  IF Outcome(j).transition = "retire" THEN old # "Retired" /\ new = "Retired"
                                                   ELSE new = "Retired" <=> old = "Retired"
  <1> DEFINE s == ClassOf(BotOf(j))
             v == VerdictInputOf(j)
             u == UpdateCounters(s, v)
             r == ComputeClassTransition(s, v)
  <1>1. s \in ClassState /\ v \in VerdictInput
    BY CommitFacts
  <1>2. u.currentClass = s.currentClass
    BY <1>1, UpdateCountersFacts
  <1>3. LET c == r.newState.currentClass IN
           \/ c = "Retired" /\ r.transition = "retire" /\ CanRetire(u, v)
           \/ c = "Novice" /\ r.transition = "demote" /\ CanDemote(u, v)
           \/ c = "Understudy" /\ r.transition = "promote" /\ CanBecomeUnderstudy(u, v)
           \/ c = "Artisan" /\ r.transition = "promote" /\ CanBecomeArtisan(u, v)
           \/ c = u.currentClass /\ r.transition = "none"
    BY <1>1, TransitionFacts
  <1>4. Outcome(j) = r
    BY DEF Outcome
  <1> HIDE DEF s, v, u, r
  <1>5. IF r.transition = "retire"
        THEN s.currentClass # "Retired" /\ r.newState.currentClass = "Retired"
        ELSE r.newState.currentClass = "Retired" <=> s.currentClass = "Retired"
    BY <1>2, <1>3 DEF CanRetire, CanDemote, CanBecomeUnderstudy, CanBecomeArtisan
  <1> QED
    BY <1>4, <1>5 DEF s

\* Every step keeps the register in agreement with the classes.
LEMMA RetirementStep ==
    TypeInv /\ RetirementSignalled /\ [Next]_vars => RetirementSignalled'
  <1> SUFFICES ASSUME TypeInv, RetirementSignalled, [Next]_vars PROVE RetirementSignalled'
    OBVIOUS
  <1>1. CASE \A j \in JobIds : ~ Commit(j)
    <2>1. classes' = classes /\ signals' = signals
      BY <1>1, LibraryFrame
    <2> QED
      BY <2>1 DEF RetirementSignalled, ClassOf
  <1>2. ASSUME NEW j \in JobIds, Commit(j) PROVE RetirementSignalled'
    <2> SUFFICES ASSUME NEW b \in Bots, SoulOf[b] # NoSoul
                 PROVE  signals'[b].retirement =
                          IF ClassOf(b)'.currentClass = "Retired" THEN 1 ELSE 0
      BY DEF RetirementSignalled
    <2>1. /\ pc[j] = "writing" /\ BotOf(j) \in Bots
          /\ classes' = [classes EXCEPT ![BotOf(j)] = Outcome(j).newState]
          /\ signals' = IF SoulOf[BotOf(j)] = NoSoul THEN signals
                        ELSE [signals EXCEPT ![BotOf(j)] = SignalWrite(j)]
      BY <1>2, BotFacts DEF Commit
    <2>2. CASE b # BotOf(j)
      <3>1. classes'[b] = classes[b] /\ signals'[b] = signals[b]
        BY <2>1, <2>2 DEF TypeInv, TypeOK
      <3> QED
        BY <3>1 DEF RetirementSignalled, ClassOf
    <2>3. CASE b = BotOf(j)
      <3>1. classes'[b] = Outcome(j).newState /\ signals'[b] = SignalWrite(j)
        BY <2>1, <2>3 DEF TypeInv, TypeOK
      <3>2. Outcome(j).newState # NoRow
        BY <2>1, CommitFacts, NullFacts
      <3>3. ClassOf(b)' = Outcome(j).newState
        BY <3>1, <3>2 DEF ClassOf
      <3>4. signals[b] \in Signals
        BY DEF TypeInv, TypeOK
      <3>5. SignalWrite(j).retirement = IF Outcome(j).transition = "retire"
                                        THEN signals[b].retirement + 1
                                        ELSE signals[b].retirement
        BY <2>3, <3>4 DEF SignalWrite, Signals
      <3>6. signals[b].retirement = IF ClassOf(b).currentClass = "Retired" THEN 1 ELSE 0
        BY DEF RetirementSignalled
      <3>7. IF Outcome(j).transition = "retire"
            THEN ClassOf(b).currentClass # "Retired"
                 /\ Outcome(j).newState.currentClass = "Retired"
            ELSE Outcome(j).newState.currentClass = "Retired"
                 <=> ClassOf(b).currentClass = "Retired"
        BY <2>1, <2>3, OutcomeRetires
      <3> QED
        BY <3>1, <3>3, <3>5, <3>6, <3>7
    <2> QED
      BY <2>2, <2>3
  <1> QED
    BY <1>1, <1>2

\* The negative register holds one retirement of every Retired bot with a soul and
\* none of any other, whatever verdicts follow the one that retired it.
THEOREM OneRetirement == Spec => []RetirementSignalled
  <1>1. Init => RetirementSignalled
    BY DEF Init, RetirementSignalled, ClassOf, NewClassState
  <1> QED
    BY TypeInit, TypeStep, RetirementStep, <1>1, PTL DEF Spec

-------------------------------------------------------------------------------
\* The verdicts the counts of the three properties range over, within Applied.
LEMMA AppliedSets ==
    /\ \A c : AppliedIn(c) = {v \in Applied : Category(verdict[v].bot) = c}
    /\ \A b : AppliedFor(b) = {v \in Applied : verdict[v].bot = b}
    /\ Applied \subseteq VerdictIds
  BY DEF Applied, AppliedIn, AppliedFor

\* A soul's lineage is as long as the verdicts applied to its bots are many.
Writes(s) == {v \in Applied : SoulOf[verdict[v].bot] = s}

LineageInv ==
    /\ IsFiniteSet(dna)
    /\ \A s \in {t \in Souls : CategoryOf[t] # Unknown} :
          /\ Versions(s) = 1..Cardinality(Writes(s))
          /\ Cardinality({d \in dna : d.soul = s}) = Cardinality(Writes(s))

\* The next version of a lineage without gaps is the one after its last.
LEMMA NextVersionFacts ==
    ASSUME NEW s, NEW n \in Nat, Versions(s) = 1..n
    PROVE  NextVersion(s) = n + 1 /\ (1..n) \cup {n + 1} = 1..(n + 1)
  <1>1. (1..n) \cup {n + 1} = 1..(n + 1)
    OBVIOUS
  <1>2. CASE n = 0
    BY <1>2 DEF NextVersion
  <1>3. CASE n > 0
    <2>1. n \in 1..n /\ \A k \in 1..n : n >= k
      BY <1>3
    <2>2. \A m \in 1..n : (\A k \in 1..n : m >= k) => m = n
      BY <2>1
    <2>3. Max(1..n) = n
      BY <2>1, <2>2 DEF Max
    <2> QED
      BY <1>1, <1>3, <2>1, <2>3 DEF NextVersion
  <1> QED
    BY <1>1, <1>2, <1>3

\* One write more makes a complete lineage longer by one, and no other lineage.
LEMMA LineageGrows ==
    ASSUME TypeInv, OnceInv, RowsApplied, LineageInv, NEW j \in JobIds, Commit(j)
    PROVE  LineageInv'
  <1> DEFINE own == SoulOf[BotOf(j)]
  <1>1. /\ Applied' = Applied \cup {j[1]} /\ j[1] \notin Applied /\ j[1] \in VerdictIds
        /\ verdict' = verdict /\ BotOf(j) = verdict[j[1]].bot
    BY AppliedGrows DEF BotOf
  <1>2. pc[j] = "writing" /\ BotOf(j) \in Bots
    BY BotFacts DEF Commit
  <1>3. dna' = IF Category(BotOf(j)) = Unknown THEN dna ELSE dna \cup {DnaWrite(j)}
    BY DEF Commit
  <1>4. \A s : Writes(s)' = IF s = own THEN Writes(s) \cup {j[1]} ELSE Writes(s)
    BY <1>1 DEF Writes
  <1>5. \A s : Writes(s) \in SUBSET VerdictIds /\ j[1] \notin Writes(s)
    BY <1>1 DEF Writes, Applied
  <1>6. IsFiniteSet(dna')
    BY <1>3, FS_AddElement DEF LineageInv
  <1>7. ASSUME NEW s \in Souls, CategoryOf[s] # Unknown
        PROVE  /\ Versions(s)' = 1..Cardinality(Writes(s)')
               /\ Cardinality({d \in dna' : d.soul = s}) = Cardinality(Writes(s)')
    <2>1. /\ Versions(s) = 1..Cardinality(Writes(s))
          /\ Cardinality({d \in dna : d.soul = s}) = Cardinality(Writes(s))
      BY <1>7 DEF LineageInv
    <2>2. CASE s # own
      <3>1. Category(BotOf(j)) # Unknown => DnaWrite(j).soul = own
        BY DEF DnaWrite
      <3>2. {d \in dna' : d.soul = s} = {d \in dna : d.soul = s}
        BY <1>3, <2>2, <3>1
      <3>3. Versions(s)' = Versions(s)
        BY <3>2 DEF Versions
      <3> QED
        BY <1>4, <2>1, <2>2, <3>2, <3>3
    <2>3. CASE s = own
      <3>1. Category(BotOf(j)) # Unknown
        BY <1>7, <2>3, SoulAssumption DEF Category
      <3>2. dna' = dna \cup {DnaWrite(j)}
        BY <1>3, <3>1
      <3> DEFINE n == Cardinality(Writes(s))
      <3>3. n \in Nat /\ Cardinality(Writes(s)') = n + 1
        BY <1>4, <1>5, <2>3, CountFacts
      <3>4. DnaWrite(j).soul = s /\ DnaWrite(j).version = n + 1
        BY <2>1, <2>3, <3>3, NextVersionFacts DEF DnaWrite
      <3>5. {d \in dna' : d.soul = s} = {d \in dna : d.soul = s} \cup {DnaWrite(j)}
        BY <3>2, <3>4
      <3>6. Versions(s)' = Versions(s) \cup {n + 1}
        BY <3>4, <3>5 DEF Versions
      <3>7. Versions(s)' = 1..(n + 1)
        BY <2>1, <3>3, <3>6, NextVersionFacts
      <3>8. DnaWrite(j) \notin {d \in dna : d.soul = s}
        <4>1. n + 1 \notin Versions(s)
          BY <2>1, <3>3
        <4> QED
          BY <3>4, <4>1 DEF Versions
      <3>9. IsFiniteSet({d \in dna : d.soul = s})
        BY FS_Subset DEF LineageInv
      <3>10. Cardinality({d \in dna' : d.soul = s}) = n + 1
        BY <2>1, <3>5, <3>8, <3>9, FS_AddElement
      <3> QED
        BY <3>3, <3>7, <3>10
    <2> QED
      BY <2>2, <2>3
  <1> QED
    BY <1>6, <1>7 DEF LineageInv

\* Every step keeps the lineages complete.
LEMMA LineageStep ==
    TypeInv /\ OnceInv /\ RowsApplied /\ LineageInv /\ [Next]_vars
        => RowsApplied' /\ LineageInv'
  <1> SUFFICES ASSUME TypeInv, OnceInv, RowsApplied, LineageInv, [Next]_vars
               PROVE  RowsApplied' /\ LineageInv'
    OBVIOUS
  <1>1. CASE \A j \in JobIds : ~ Commit(j)
    <2>1. /\ RowsApplied' /\ Applied' = Applied /\ dna' = dna
          /\ \A v \in Applied : verdict'[v] = verdict[v]
      BY <1>1, AppliedFrame, LibraryFrame
    <2>2. \A s : Writes(s)' = Writes(s) /\ Versions(s)' = Versions(s)
      BY <2>1 DEF Writes, Versions
    <2> QED
      BY <2>1, <2>2 DEF LineageInv
  <1>2. CASE \E j \in JobIds : Commit(j)
    BY <1>2, LineageGrows, AppliedGrows
  <1> QED
    BY <1>1, <1>2

\* The DNA of a soul is versions 1, 2, ... without a gap or a duplicate, one for each
\* verdict applied to a bot that carries it, even when bots share the soul.
THEOREM CompleteLineages == Spec => []DnaLineageComplete
  <1>1. Init => RowsApplied /\ LineageInv
    <2> SUFFICES ASSUME Init PROVE LineageInv
      BY AppliedInit
    <2>1. dna = {} /\ \A s : Writes(s) = {} /\ Versions(s) = {}
      BY AppliedInit DEF Init, Writes, Versions
    <2>2. 1..Cardinality({}) = {} /\ IsFiniteSet({})
      BY FS_EmptySet
    <2> QED
      BY <2>1, <2>2 DEF LineageInv
  <1>2. LineageInv => DnaLineageComplete
    BY DEF LineageInv, DnaLineageComplete, Writes, Applied
  <1> QED
    BY TypeInit, TypeStep, OnceInit, OnceStep, LineageStep, <1>1, <1>2, PTL DEF Spec

-------------------------------------------------------------------------------
\* What a transaction takes for a confirmation was one, and no decision is undone.
ConfirmedInv == \A j \in JobIds : loaded[j].confirmed => status[j[1]] = "confirmed"

\* A user decides only what is still pending.
LEMMA ConfirmedStays ==
    ASSUME TypeInv, [Next]_vars
    PROVE  \A v \in VerdictIds : status[v] = "confirmed" => status'[v] = "confirmed"
  <1> DEFINE Kept == \A v \in VerdictIds : status[v] = "confirmed" => status'[v] = "confirmed"
  <1>1. ASSUME NEW b \in Bots, PerformancePipeline(b) \/ Council(b) \/ CouncilThrows(b)
        PROVE  status' = status
    BY <1>1 DEF PerformancePipeline, Council, CouncilThrows, CouncilJudges,
       CouncilEnqueueFails, CouncilStalls, verdictVars
  <1>2. ASSUME NEW v \in VerdictIds, Confirm(v) \/ ConfirmEnqueueFails(v) \/ Reject(v)
        PROVE  Kept
    <2>1. status[v] = "pending" /\ \E decision : status' = [status EXCEPT ![v] = decision]
      BY <1>2 DEF Confirm, ConfirmEnqueueFails, Reject, Resolvable
    <2> QED
      BY <2>1 DEF TypeInv, TypeOK
  <1>3. ASSUME NEW j \in JobIds, Claim(j) \/ Step(j) PROVE status' = status
    BY <1>3 DEF Claim, Step, AcquireLock, LockTimeout, ReadBenchmark, Commit, Abort, RunHook,
       Throw, verdictVars
  <1>4. ASSUME NEW j \in JobIds, StepThrows(j) \/ WorkerDies(j) \/ RenewLock(j)
        PROVE  status' = status
    BY <1>4 DEF StepThrows, WorkerDies, RenewLock, Throw, verdictVars
  <1>5. ASSUME NEW c \in Categories, LockExpires(c) \/ LockLapses(c)
        PROVE  status' = status
    BY <1>5 DEF LockExpires, LockLapses, verdictVars
  <1>6. UNCHANGED vars => status' = status
    BY DEF vars, verdictVars
  <1>7. status' = status => Kept
    OBVIOUS
  <1> QED
    BY <1>1, <1>2, <1>3, <1>4, <1>5, <1>6, <1>7 DEF Next

\* A job learns of a confirmation when it loads its verdict, and forgets it at the end.
LEMMA ConfirmedStep == TypeInv /\ ConfirmedInv /\ [Next]_vars => ConfirmedInv'
  <1> SUFFICES ASSUME TypeInv, ConfirmedInv, [Next]_vars PROVE ConfirmedInv'
    OBVIOUS
  <1>1. \A j \in JobIds : j[1] \in VerdictIds
    BY JobFacts
  <1>2. \A v \in VerdictIds : status[v] = "confirmed" => status'[v] = "confirmed"
    BY ConfirmedStays
  <1>3. ASSUME NEW j \in JobIds, Claim(j) PROVE ConfirmedInv'
    <2> DEFINE row == [score |-> score[BotOf(j)], confirmed |-> status[j[1]] = "confirmed"]
    <2>1. /\ status' = status
          /\ loaded' = loaded \/ loaded' = [loaded EXCEPT ![j] = row]
      BY <1>3 DEF Claim, verdictVars
    <2>2. row.confirmed => status[j[1]] = "confirmed"
      OBVIOUS
    <2> HIDE DEF row
    <2>3. \A i \in JobIds : loaded'[i] = loaded[i] \/ (i = j /\ loaded'[i] = row)
      BY <2>1 DEF TypeInv, TypeOK
    <2> QED
      BY <2>1, <2>2, <2>3 DEF ConfirmedInv
  <1>4. ASSUME loaded' = loaded \/ \E j \in JobIds : Forget(j) PROVE ConfirmedInv'
    <2>1. \A i \in JobIds : loaded'[i] = loaded[i] \/ loaded'[i] = NothingLoaded
      BY <1>4 DEF Forget, TypeInv, TypeOK
    <2> QED
      BY <1>1, <1>2, <2>1 DEF ConfirmedInv, NothingLoaded
  <1>5. ASSUME NEW b \in Bots, PerformancePipeline(b) \/ Council(b) \/ CouncilThrows(b)
        PROVE  loaded' = loaded
    BY <1>5 DEF PerformancePipeline, Council, CouncilThrows, CouncilJudges,
       CouncilEnqueueFails, CouncilStalls, workVars
  <1>6. ASSUME NEW v \in VerdictIds, Confirm(v) \/ ConfirmEnqueueFails(v) \/ Reject(v)
        PROVE  loaded' = loaded
    BY <1>6 DEF Confirm, ConfirmEnqueueFails, Reject, workVars
  <1>7. ASSUME NEW j \in JobIds, Step(j) \/ StepThrows(j) \/ WorkerDies(j) \/ RenewLock(j)
        PROVE  loaded' = loaded \/ Forget(j)
    BY <1>7 DEF Step, AcquireLock, LockTimeout, ReadBenchmark, Commit, Abort, RunHook,
       StepThrows, WorkerDies, RenewLock, Throw, workVars
  <1>8. ASSUME NEW c \in Categories, LockExpires(c) \/ LockLapses(c)
        PROVE  loaded' = loaded
    BY <1>8 DEF LockExpires, LockLapses, workVars
  <1>9. UNCHANGED vars => loaded' = loaded
    BY DEF vars, workVars
  <1> QED
    BY <1>3, <1>4, <1>5, <1>6, <1>7, <1>8, <1>9 DEF Next

ConfirmedFor(b) == {v \in AppliedFor(b) : status[v] = "confirmed"}

\* The class row of the judged bot counts the verdict of the commit, and a
\* confirmation if there was one.
LEMMA CountersGrow ==
    ASSUME TypeInv, OnceInv, RowsApplied, ConfirmedInv, CountersMatchVerdicts,
           NEW j \in JobIds, Commit(j)
    PROVE  CountersMatchVerdicts'
  <1> DEFINE own == BotOf(j)
  <1>1. /\ Applied' = Applied \cup {j[1]} /\ j[1] \notin Applied /\ j[1] \in VerdictIds
        /\ verdict' = verdict /\ status' = status /\ own = verdict[j[1]].bot
    BY AppliedGrows DEF BotOf
  <1>2. /\ pc[j] = "writing" /\ own \in Bots
        /\ classes' = [classes EXCEPT ![own] = Outcome(j).newState]
    BY BotFacts DEF Commit
  <1>3. \A b : AppliedFor(b)' = IF b = own THEN AppliedFor(b) \cup {j[1]} ELSE AppliedFor(b)
    <2>1. \A b : AppliedFor(b)' = {v \in Applied' : verdict'[v].bot = b}
      BY DEF AppliedFor, Applied
    <2> QED
      BY <1>1, <2>1, AppliedSets
  <1>4. \A b : AppliedFor(b) \in SUBSET VerdictIds /\ j[1] \notin AppliedFor(b)
    BY <1>1, AppliedSets
  <1> SUFFICES ASSUME NEW b \in Bots
               PROVE  /\ ClassOf(b)'.above + ClassOf(b)'.below = Cardinality(AppliedFor(b)')
                      /\ ClassOf(b)'.human <= Cardinality(ConfirmedFor(b)')
    BY DEF CountersMatchVerdicts, ConfirmedFor
  <1>5. /\ ClassOf(b).above + ClassOf(b).below = Cardinality(AppliedFor(b))
        /\ ClassOf(b).human <= Cardinality(ConfirmedFor(b))
    BY DEF CountersMatchVerdicts, ConfirmedFor
  <1>6. CASE b # own
    <2>1. ClassOf(b)' = ClassOf(b)
      BY <1>2, <1>6 DEF ClassOf, TypeInv, TypeOK
    <2>2. AppliedFor(b)' = AppliedFor(b) /\ ConfirmedFor(b)' = ConfirmedFor(b)
      BY <1>1, <1>3, <1>6 DEF ConfirmedFor
    <2> QED
      BY <1>5, <2>1, <2>2
  <1>7. CASE b = own
    <2> DEFINE s == ClassOf(b)
               v == VerdictInputOf(j)
               u == UpdateCounters(s, v)
               new == Outcome(j).newState
    <2>1. s \in ClassState /\ v \in VerdictInput /\ new \in ClassState
      BY <1>2, <1>7, CommitFacts
    <2>2. u \in ClassState /\ u.above + u.below = s.above + s.below + 1
      BY <2>1, UpdateCountersFacts
    <2>3. u.human = IF v.hasHumanConfirmation THEN s.human + 1 ELSE s.human
      BY <2>1 DEF UpdateCounters, ClassState
    <2>4. new = [u EXCEPT !.currentClass = new.currentClass]
      <3> DEFINE r == ComputeClassTransition(s, v)
      <3>1. r.newState = [u EXCEPT !.currentClass = r.newState.currentClass]
        BY <2>1, TransitionFacts
      <3>2. new = r.newState
        BY <1>7 DEF Outcome
      <3> HIDE DEF r, u, new
      <3> QED
        BY <3>1, <3>2
    <2>5. ClassOf(b)' = new
      <3>1. classes'[b] = new /\ new # NoRow
        BY <1>2, <1>7, <2>1, NullFacts DEF TypeInv, TypeOK
      <3> QED
        BY <3>1 DEF ClassOf
    <2>6. v.hasHumanConfirmation => status[j[1]] = "confirmed"
      BY DEF VerdictInputOf, Confirmed, ConfirmedInv
    <2> HIDE DEF s, v, u, new
    <2>7. new.above = u.above /\ new.below = u.below /\ new.human = u.human
      BY <2>2, <2>4 DEF ClassState
    <2>8. /\ s.above \in Nat /\ s.below \in Nat /\ s.human \in Nat
      BY <2>1 DEF ClassState
    <2>9. Cardinality(AppliedFor(b)') = Cardinality(AppliedFor(b)) + 1
      BY <1>3, <1>4, <1>7, CountFacts
    <2>10. ConfirmedFor(b)' = IF status[j[1]] = "confirmed" THEN ConfirmedFor(b) \cup {j[1]}
                                                            ELSE ConfirmedFor(b)
      BY <1>1, <1>3, <1>7 DEF ConfirmedFor
    <2>11. ConfirmedFor(b) \in SUBSET VerdictIds /\ j[1] \notin ConfirmedFor(b)
      BY <1>4 DEF ConfirmedFor
    <2>12. /\ Cardinality(ConfirmedFor(b)) \in Nat
           /\ Cardinality(ConfirmedFor(b)')
                = IF status[j[1]] = "confirmed" THEN Cardinality(ConfirmedFor(b)) + 1
                                                ELSE Cardinality(ConfirmedFor(b))
      BY <2>10, <2>11, CountFacts
    <2>13. ClassOf(b)'.above + ClassOf(b)'.below = Cardinality(AppliedFor(b)')
      BY <1>5, <2>2, <2>5, <2>7, <2>9 DEF s
    <2>14. ClassOf(b)'.human <= Cardinality(ConfirmedFor(b)')
      BY <1>5, <2>3, <2>5, <2>6, <2>7, <2>8, <2>12 DEF s
    <2> QED
      BY <2>13, <2>14
  <1> QED
    BY <1>6, <1>7

\* Every step keeps the counters in agreement with the verdicts.
LEMMA CountersStep ==
    TypeInv /\ OnceInv /\ RowsApplied /\ ConfirmedInv /\ CountersMatchVerdicts /\ [Next]_vars
        => RowsApplied' /\ CountersMatchVerdicts'
  <1> SUFFICES ASSUME TypeInv, OnceInv, RowsApplied, ConfirmedInv, CountersMatchVerdicts,
                      [Next]_vars
               PROVE  RowsApplied' /\ CountersMatchVerdicts'
    OBVIOUS
  <1>1. CASE \A j \in JobIds : ~ Commit(j)
    <2>1. /\ RowsApplied' /\ Applied' = Applied /\ classes' = classes
          /\ \A v \in Applied : verdict'[v] = verdict[v]
      BY <1>1, AppliedFrame, LibraryFrame
    <2>2. \A v \in VerdictIds : status[v] = "confirmed" => status'[v] = "confirmed"
      BY ConfirmedStays
    <2>3. ASSUME NEW b \in Bots
          PROVE  /\ ClassOf(b)'.above + ClassOf(b)'.below = Cardinality(AppliedFor(b)')
                 /\ ClassOf(b)'.human <= Cardinality(ConfirmedFor(b)')
      <3>1. ClassOf(b)' = ClassOf(b)
        BY <2>1 DEF ClassOf
      <3>2. AppliedFor(b)' = AppliedFor(b)
        <4>1. AppliedFor(b)' = {v \in Applied' : verdict'[v].bot = b}
          BY DEF AppliedFor, Applied
        <4> QED
          BY <2>1, <4>1, AppliedSets
      <3>3. AppliedFor(b) \subseteq VerdictIds
        BY AppliedSets
      <3>4. /\ ConfirmedFor(b) \in SUBSET ConfirmedFor(b)'
            /\ ConfirmedFor(b)' \in SUBSET VerdictIds
            /\ ConfirmedFor(b) \in SUBSET VerdictIds
        BY <2>2, <3>2, <3>3 DEF ConfirmedFor
      <3>5. /\ Cardinality(ConfirmedFor(b)) <= Cardinality(ConfirmedFor(b)')
            /\ Cardinality(ConfirmedFor(b)) \in Nat /\ Cardinality(ConfirmedFor(b)') \in Nat
        BY <3>4, CountFacts
      <3>6. ClassOf(b) \in ClassState
        BY NewClassStateType DEF ClassOf, TypeInv, TypeOK
      <3>7. ClassOf(b).human \in Nat
        BY <3>6 DEF ClassState
      <3>8. /\ ClassOf(b).above + ClassOf(b).below = Cardinality(AppliedFor(b))
            /\ ClassOf(b).human <= Cardinality(ConfirmedFor(b))
        BY DEF CountersMatchVerdicts, ConfirmedFor
      <3> QED
        BY <3>1, <3>2, <3>5, <3>7, <3>8
    <2> QED
      BY <2>1, <2>3 DEF CountersMatchVerdicts, ConfirmedFor
  <1>2. CASE \E j \in JobIds : Commit(j)
    BY <1>2, CountersGrow, AppliedGrows
  <1> QED
    BY <1>1, <1>2

\* The counters a promotion rests on are the verdicts applied to the bot, each once,
\* and no confirmation is counted that no user gave.
THEOREM CountersAreTrue == Spec => []CountersMatchVerdicts
  <1>1. Init => ConfirmedInv
    BY DEF Init, ConfirmedInv, NothingLoaded
  <1>2. Init => RowsApplied /\ CountersMatchVerdicts
    <2> SUFFICES ASSUME Init, NEW b \in Bots
                 PROVE  /\ ClassOf(b).above + ClassOf(b).below = Cardinality(AppliedFor(b))
                        /\ ClassOf(b).human <= Cardinality(ConfirmedFor(b))
      BY AppliedInit DEF CountersMatchVerdicts, ConfirmedFor
    <2>1. ClassOf(b) = NewClassState
      BY DEF Init, ClassOf
    <2>2. AppliedFor(b) = {} /\ ConfirmedFor(b) = {}
      BY AppliedInit, AppliedSets DEF ConfirmedFor
    <2> QED
      BY <2>1, <2>2, FS_EmptySet DEF NewClassState
  <1> QED
    BY TypeInit, TypeStep, OnceInit, OnceStep, ConfirmedStep, CountersStep, <1>1, <1>2, PTL
       DEF Spec

-------------------------------------------------------------------------------
\* Under a lock that does not lapse, what a transaction has selected is still the row:
\* whoever else could write it is outside.
FreshInv ==
    MaxLapses = 0 =>
        \A j \in JobIds : pc[j] = "writing" /\ Category(BotOf(j)) # Unknown =>
            seen[j] = benchmark[Category(BotOf(j))]

\* Only a commit inside the same lock could make a selection stale.
LEMMA FreshStep == TypeInv /\ LockInv /\ FreshInv /\ [Next]_vars => FreshInv'
  <1> SUFFICES ASSUME TypeInv, LockInv, FreshInv, [Next]_vars, MaxLapses = 0,
                      NEW i \in JobIds, (pc[i] = "writing" /\ Category(BotOf(i)) # Unknown)'
               PROVE  (seen[i] = benchmark[Category(BotOf(i))])'
    BY DEF FreshInv
  <1>1. CASE \A j \in JobIds : ~ ReadBenchmark(j)
    <2>1. pc[i] = "writing" /\ seen'[i] = seen[i]
      BY <1>1, WritingFrame
    <2>2. Category(BotOf(i))' = Category(BotOf(i))
      BY <2>1, RowsStay DEF Category
    <2>3. seen[i] = benchmark[Category(BotOf(i))]
      BY <2>1, <2>2 DEF FreshInv
    <2>4. CASE \A j \in JobIds : ~ Commit(j)
      BY <2>1, <2>2, <2>3, <2>4, LibraryFrame
    <2>5. ASSUME NEW j \in JobIds, Commit(j)
          PROVE  benchmark'[Category(BotOf(i))] = benchmark[Category(BotOf(i))]
      <3>1. /\ pc[j] = "writing" /\ pc' = [pc EXCEPT ![j] = "hook"]
            /\ benchmark' = [benchmark EXCEPT ![Category(BotOf(j))] = Tracked(j)]
        BY <2>5 DEF Commit, Goto
      <3>2. i # j
        BY <3>1 DEF TypeInv, TypeOK
      <3>3. Category(BotOf(i)) # Category(BotOf(j))
        BY <2>1, <2>2, <3>1, <3>2 DEF LockInv, Held, Critical
      <3> QED
        BY <3>1, <3>3 DEF TypeInv, TypeOK
    <2> QED
      BY <2>1, <2>2, <2>3, <2>4, <2>5
  <1>2. ASSUME NEW j \in JobIds, ReadBenchmark(j)
        PROVE  (seen[i] = benchmark[Category(BotOf(i))])'
    <2>1. /\ pc[j] = "reading" /\ benchmark' = benchmark /\ verdict' = verdict
          /\ seen' = [seen EXCEPT ![j] = benchmark[Category(BotOf(j))]]
          /\ pc' = [pc EXCEPT ![j] = "writing"]
      BY <1>2 DEF ReadBenchmark, Goto, libraryVars, verdictVars
    <2>2. Category(BotOf(i))' = Category(BotOf(i))
      BY <2>1 DEF Category, BotOf, VerdictOf
    <2>3. CASE i = j
      BY <2>1, <2>2, <2>3 DEF TypeInv, TypeOK
    <2>4. CASE i # j
      <3>1. pc[i] = "writing" /\ seen'[i] = seen[i]
        BY <2>1, <2>4 DEF TypeInv, TypeOK
      <3> QED
        BY <2>1, <2>2, <3>1 DEF FreshInv
    <2> QED
      BY <2>3, <2>4
  <1> QED
    BY <1>1, <1>2

\* A commit moves the count of its category on by one, and no other.
LEMMA RunsGrow ==
    ASSUME TypeInv, OnceInv, RowsApplied, FreshInv, RunsCounted, NEW j \in JobIds, Commit(j)
    PROVE  RunsCounted'
  <1> DEFINE own == Category(BotOf(j))
  <1> SUFFICES ASSUME MaxLapses = 0, NEW c \in Categories
               PROVE  Cardinality(AppliedIn(c)') =
                        IF benchmark'[c] = NoRow THEN 0 ELSE benchmark'[c].runs
    BY DEF RunsCounted
  <1>1. /\ Applied' = Applied \cup {j[1]} /\ j[1] \notin Applied /\ j[1] \in VerdictIds
        /\ verdict' = verdict /\ BotOf(j) = verdict[j[1]].bot
    BY AppliedGrows DEF BotOf
  <1>2. /\ pc[j] = "writing" /\ own \in AllCategories
        /\ benchmark' = [benchmark EXCEPT ![own] = Tracked(j)]
    BY BotFacts, CategoryFacts DEF Commit
  <1>3. AppliedIn(c)' = IF c = own THEN AppliedIn(c) \cup {j[1]} ELSE AppliedIn(c)
    <2>1. AppliedIn(c)' = {v \in Applied' : Category(verdict'[v].bot) = c}
      BY DEF AppliedIn, Applied, Category
    <2>2. AppliedIn(c) = {v \in Applied : Category(verdict[v].bot) = c}
      BY AppliedSets
    <2> QED
      BY <1>1, <2>1, <2>2
  <1>4. Cardinality(AppliedIn(c)) = IF benchmark[c] = NoRow THEN 0 ELSE benchmark[c].runs
    BY DEF RunsCounted
  <1>5. CASE c # own
    <2>1. benchmark'[c] = benchmark[c]
      BY <1>2, <1>5 DEF TypeInv, TypeOK
    <2> QED
      BY <1>3, <1>4, <1>5, <2>1
  <1>6. CASE c = own
    <2>1. own # Unknown
      BY <1>6, SoulAssumption
    <2>2. seen[j] = benchmark[own]
      BY <1>2, <2>1 DEF FreshInv
    <2>3. benchmark'[c] = Tracked(j) /\ Tracked(j) # NoRow
      BY <1>2, <1>6, CommitFacts, NullFacts DEF TypeInv, TypeOK
    <2>4. Tracked(j).runs = IF seen[j] = NoRow THEN 1 ELSE seen[j].runs + 1
      <3>1. CASE seen[j] = NoRow
        BY <3>1 DEF Tracked
      <3>2. CASE seen[j] # NoRow
        <4>1. seen[j] \in Benchmark
          BY <3>2 DEF TypeInv, TypeOK
        <4> QED
          BY <3>2, <4>1 DEF Tracked, Benchmark
      <3> QED
        BY <3>1, <3>2
    <2>5. AppliedIn(c) \in SUBSET VerdictIds /\ j[1] \notin AppliedIn(c)
      BY <1>1, AppliedSets
    <2>6. Cardinality(AppliedIn(c)') = Cardinality(AppliedIn(c)) + 1
      BY <1>3, <1>6, <2>5, CountFacts
    <2> QED
      BY <1>4, <1>6, <2>2, <2>3, <2>4, <2>6
  <1> QED
    BY <1>5, <1>6

\* Every step keeps the counts in agreement with the verdicts.
LEMMA RunsStep ==
    TypeInv /\ OnceInv /\ RowsApplied /\ FreshInv /\ RunsCounted /\ [Next]_vars
        => RowsApplied' /\ RunsCounted'
  <1> SUFFICES ASSUME TypeInv, OnceInv, RowsApplied, FreshInv, RunsCounted, [Next]_vars
               PROVE  RowsApplied' /\ RunsCounted'
    OBVIOUS
  <1>1. CASE \A j \in JobIds : ~ Commit(j)
    <2>1. /\ RowsApplied' /\ Applied' = Applied /\ benchmark' = benchmark
          /\ \A v \in Applied : verdict'[v] = verdict[v]
      BY <1>1, AppliedFrame, LibraryFrame
    <2>2. ASSUME NEW c \in Categories PROVE AppliedIn(c)' = AppliedIn(c)
      <3>1. AppliedIn(c)' = {v \in Applied' : Category(verdict'[v].bot) = c}
        BY DEF AppliedIn, Applied, Category
      <3>2. AppliedIn(c) = {v \in Applied : Category(verdict[v].bot) = c}
        BY AppliedSets
      <3> QED
        BY <2>1, <3>1, <3>2
    <2> QED
      BY <2>1, <2>2 DEF RunsCounted
  <1>2. CASE \E j \in JobIds : Commit(j)
    BY <1>2, RunsGrow, AppliedGrows
  <1> QED
    BY <1>1, <1>2

\* No run is lost from the count of a category, although every transaction writes back a
\* count it read before: the lock keeps what it read fresh.
THEOREM EveryRunCounted == Spec => []RunsCounted
  <1>1. Init => FreshInv
    BY DEF Init, FreshInv
  <1>2. Init => RowsApplied /\ RunsCounted
    <2> SUFFICES ASSUME Init, NEW c \in Categories
                 PROVE  Cardinality(AppliedIn(c)) = 0 /\ benchmark[c] = NoRow
      BY AppliedInit DEF RunsCounted
    <2>1. AppliedIn(c) = {}
      BY AppliedInit, AppliedSets
    <2> QED
      BY <2>1, FS_EmptySet DEF Init, AllCategories
  <1> QED
    BY TypeInit, TypeStep, OnceInit, OnceStep, LockInit, LockStep, FreshStep, RunsStep,
       <1>1, <1>2, PTL DEF Spec
===============================================================================
