------------------------------- MODULE RunProofs -------------------------------
(* An execution from the reply of the language model to the end of its run,    *)
(* for any reply, plan, library, requests, number of overlapping polls and any *)
(* faults: only sound graphs are executed and what a task waits for is spawned *)
(* before it, the agents are started once at most, what is over stays over,    *)
(* failures are not replaced for ever, and every task is staffed soundly       *)
(* within the budget.                                                          *)
EXTENDS Executions, RunCoordination, Population, WellFoundedInduction,
        FiniteSetTheorems, SequenceTheorems, TLAPS

-------------------------------------------------------------------------------
(* Induction and recursion. *)

\* A set of naturals that is not empty has a least element.
LEMMA LeastOf ==
    ASSUME NEW S \in SUBSET Nat, S # {}
    PROVE  \E m \in S : \A n \in S : m <= n
  <1> DEFINE R == {p \in Nat \X Nat : p[1] < p[2]}
  <1>1. OpToRel(<, Nat) = R
    BY DEF OpToRel
  <1>2. IsWellFoundedOn(R, Nat)
    BY <1>1, NatLessThanWellFounded
  <1>3. PICK m \in S : \A n \in S : ~(<<n, m>> \in R)
    <2> HIDE DEF R
    <2> QED
      BY <1>2, WFMin
  <1>4. ASSUME NEW n \in S PROVE m <= n
    BY <1>3, <<n, m>> \in Nat \X Nat
  <1> QED
    BY <1>4

\* Induction, for a set instead of a predicate: the least natural outside would have a
\* predecessor inside.
LEMMA Induction ==
    ASSUME NEW S, 0 \in S, \A n \in Nat : n \in S => n + 1 \in S
    PROVE  Nat \subseteq S
  <1> SUFFICES ASSUME Nat \ S # {} PROVE FALSE
    OBVIOUS
  <1>1. PICK m \in Nat \ S : \A n \in Nat \ S : m <= n
    BY LeastOf
  <1>2. m # 0 /\ m - 1 \in Nat
    BY <1>1
  <1>3. m - 1 \in S
    BY <1>1, <1>2
  <1> QED
    BY <1>1, <1>2, <1>3, m - 1 + 1 = m

\* f iterates the step function F from d on.
Iterates(f, d, F) == f[0] = d /\ \A n \in Nat : f[n + 1] = F[n][f[n]]

\* Every step function can be iterated: what a recursive definition over the naturals needs.
LEMMA Recursion ==
    ASSUME NEW D, NEW d \in D, NEW F \in [Nat -> [D -> D]]
    PROVE  \E f \in [Nat -> D] : Iterates(f, d, F)
  <1> DEFINE G(n) == {g \in [0..n -> D] : g[0] = d /\ \A k \in 0..(n - 1) : g[k + 1] = F[k][g[k]]}
             Some == {n \in Nat : G(n) # {}}
             c == [n \in Nat |-> CHOOSE g \in G(n) : TRUE]
             f == [n \in Nat |-> c[n][n]]
  <1>1. 0 \in Some
    <2>1. [k \in 0..0 |-> d] \in G(0)
      OBVIOUS
    <2> QED
      BY <2>1
  <1>2. ASSUME NEW n \in Nat, n \in Some PROVE n + 1 \in Some
    <2>1. PICK g \in [0..n -> D] : g[0] = d /\ \A k \in 0..(n - 1) : g[k + 1] = F[k][g[k]]
      BY <1>2
    <2> DEFINE h == [k \in 0..(n + 1) |-> IF k = n + 1 THEN F[n][g[n]] ELSE g[k]]
    <2>2. h \in [0..(n + 1) -> D] /\ h[0] = d
      BY <2>1
    <2>3. ASSUME NEW k \in 0..n PROVE h[k + 1] = F[k][h[k]]
      <3>1. CASE k = n
        BY <3>1
      <3>2. CASE k # n
        <4>1. k \in 0..(n - 1) /\ k + 1 \in 0..n /\ k + 1 # n + 1 /\ k # n + 1
          BY <3>2
        <4> QED
          BY <4>1, <2>1
      <3> QED
        BY <3>1, <3>2
    <2>4. h \in G(n + 1)
      <3> HIDE DEF h
      <3> QED
        BY <2>2, <2>3
    <2> HIDE DEF h, G
    <2> QED
      BY <2>4
  <1>3. \A n \in Nat : c[n] \in G(n)
    <2>1. \A n \in Nat : n \in Some
      <3> HIDE DEF Some
      <3> QED
        BY <1>1, <1>2, Induction
    <2> HIDE DEF G
    <2> QED
      BY <2>1
  <1>4. ASSUME NEW n \in Nat PROVE c[n][n] = c[n + 1][n]
    <2> DEFINE Same == {k \in Nat : k <= n => c[n][k] = c[n + 1][k]}
    <2>1. c[n] \in G(n) /\ c[n + 1] \in G(n + 1)
      <3> HIDE DEF c, G
      <3> QED
        BY <1>3
    <2> HIDE DEF c
    <2>2. 0 \in Same
      BY <2>1
    <2>3. ASSUME NEW k \in Nat, k \in Same PROVE k + 1 \in Same
      BY <2>1, <2>3
    <2>4. Nat \subseteq Same
      <3> HIDE DEF Same
      <3> QED
        BY <2>2, <2>3, Induction
    <2> QED
      BY <2>4
  <1>5. f \in [Nat -> D] /\ f[0] = d
    <2> HIDE DEF c
    <2> QED
      BY <1>3
  <1>6. ASSUME NEW n \in Nat PROVE f[n + 1] = F[n][f[n]]
    <2> HIDE DEF c
    <2>1. c[n + 1] \in G(n + 1)
      BY <1>3
    <2>2. c[n + 1][n + 1] = F[n][c[n + 1][n]]
      BY <2>1
    <2> QED
      BY <2>2, <1>4
  <1> HIDE DEF f
  <1> QED
    BY <1>5, <1>6 DEF Iterates

\* Induction up to a bound.
LEMMA BoundedInduction ==
    ASSUME NEW n \in Nat, NEW S, 0 \in S, \A k \in 0..n : k \in S /\ k # n => k + 1 \in S
    PROVE  n \in S
  <1> DEFINE T == {k \in Nat : k <= n => k \in S}
  <1>1. 0 \in T
    OBVIOUS
  <1>2. ASSUME NEW k \in Nat, k \in T PROVE k + 1 \in T
    <2> SUFFICES ASSUME k + 1 <= n PROVE k + 1 \in S
      OBVIOUS
    <2>1. k \in 0..n /\ k # n /\ k \in S
      BY <1>2
    <2> QED
      BY <2>1
  <1>3. Nat \subseteq T
    <2> HIDE DEF T
    <2> QED
      BY <1>1, <1>2, Induction
  <1> QED
    BY <1>3

\* f iterates F over the positions of a sequence.
IsFold(f, n, d, F) == f = [k \in 0..n |-> IF k = 0 THEN d ELSE F[k][f[k - 1]]]

\* Such a function exists.
LEMMA FiniteRecursion ==
    ASSUME NEW D, NEW d \in D, NEW n \in Nat, NEW F \in [1..n -> [D -> D]]
    PROVE  \E f \in [0..n -> D] : IsFold(f, n, d, F)
  <1> DEFINE G == [k \in Nat |-> [x \in D |-> IF k + 1 \in 1..n THEN F[k + 1][x] ELSE x]]
  <1>1. G \in [Nat -> [D -> D]]
    OBVIOUS
  <1>2. PICK g \in [Nat -> D] : Iterates(g, d, G)
    <2> HIDE DEF G
    <2> QED
      BY <1>1, Recursion
  <1> DEFINE f == [k \in 0..n |-> g[k]]
  <1>3. ASSUME NEW k \in 0..n, k # 0 PROVE f[k] = F[k][f[k - 1]]
    <2>1. k - 1 \in Nat /\ (k - 1) + 1 = k /\ k \in 1..n /\ k - 1 \in 0..n
      BY <1>3
    <2>2. g[k] = G[k - 1][g[k - 1]]
      BY <1>2, <2>1 DEF Iterates
    <2> QED
      BY <2>1, <2>2
  <1>4. f \in [0..n -> D] /\ f[0] = d
    BY <1>2 DEF Iterates
  <1> HIDE DEF f
  <1>5. IsFold(f, n, d, F)
    BY <1>3, <1>4 DEF IsFold
  <1> QED
    BY <1>4, <1>5

-------------------------------------------------------------------------------
(* Sequences. *)

\* No element twice; every element of s is one of t.
Distinct(s) == \A i, j \in 1..Len(s) : s[i] = s[j] => i = j
From(s, t) == \A i \in 1..Len(s) : \E j \in 1..Len(t) : s[i] = t[j]

\* A new element keeps a sequence without duplicates.
LEMMA AppendDistinct ==
    ASSUME NEW S, NEW s \in Seq(S), NEW x \in S, Distinct(s), \A i \in 1..Len(s) : s[i] # x
    PROVE  Distinct(Append(s, x))
  <1> DEFINE t == Append(s, x)
  <1>1. /\ Len(s) \in Nat /\ Len(t) = Len(s) + 1 /\ t[Len(s) + 1] = x
        /\ \A i \in 1..Len(s) : t[i] = s[i]
    BY AppendProperties
  <1> HIDE DEF t
  <1>2. ASSUME NEW i \in 1..Len(t), NEW j \in 1..Len(t), t[i] = t[j] PROVE i = j
    <2>1. i \in 1..Len(s) \/ i = Len(s) + 1
      BY <1>1
    <2>2. j \in 1..Len(s) \/ j = Len(s) + 1
      BY <1>1
    <2> QED
      BY <1>1, <1>2, <2>1, <2>2 DEF Distinct
  <1> QED
    BY <1>2 DEF Distinct, t

\* A prefix has elements of the sequence only, and no duplicates if that has none.
LEMMA PrefixFacts ==
    ASSUME NEW S, NEW s \in Seq(S), NEW m \in 0..Len(s)
    PROVE  /\ SubSeq(s, 1, m) \in Seq(S) /\ Len(SubSeq(s, 1, m)) = m
           /\ \A i \in 1..m : SubSeq(s, 1, m)[i] = s[i]
           /\ From(SubSeq(s, 1, m), s)
           /\ Distinct(s) => Distinct(SubSeq(s, 1, m))
  <1> DEFINE p == SubSeq(s, 1, m)
  <1>1. p \in Seq(S) /\ Len(p) = m /\ \A i \in 1..m : p[i] = s[i]
    OBVIOUS
  <1>2. m \in Nat /\ Len(s) \in Nat /\ 1..m \subseteq 1..Len(s)
    OBVIOUS
  <1> HIDE DEF p
  <1>3. From(p, s)
    BY <1>1, <1>2 DEF From
  <1>4. Distinct(s) => Distinct(p)
    BY <1>1, <1>2 DEF Distinct
  <1> QED
    BY <1>1, <1>3, <1>4 DEF p

\* The elements of a concatenation.
LEMMA ConcatFacts ==
    ASSUME NEW S, NEW s \in Seq(S), NEW t \in Seq(S)
    PROVE  /\ s \o t \in Seq(S) /\ Len(s \o t) = Len(s) + Len(t)
           /\ \A i \in 1..Len(s) : (s \o t)[i] = s[i]
           /\ \A i \in 1..Len(t) : (s \o t)[Len(s) + i] = t[i]
           /\ \A i \in 1..Len(s \o t) :
                 i \in 1..Len(s) \/ (i - Len(s) \in 1..Len(t) /\ (s \o t)[i] = t[i - Len(s)])
  OBVIOUS

\* Sequences without duplicates and without a common element, one after the other.
LEMMA ConcatDistinct ==
    ASSUME NEW S, NEW s \in Seq(S), NEW t \in Seq(S), Distinct(s), Distinct(t),
           \A i \in 1..Len(s), j \in 1..Len(t) : s[i] # t[j]
    PROVE  Distinct(s \o t)
  <1> DEFINE u == s \o t
  <1>1. /\ Len(s) \in Nat /\ Len(t) \in Nat /\ Len(u) = Len(s) + Len(t)
        /\ \A i \in 1..Len(s) : u[i] = s[i]
        /\ \A i \in 1..Len(u) :
              i \in 1..Len(s) \/ (i - Len(s) \in 1..Len(t) /\ u[i] = t[i - Len(s)])
    BY ConcatFacts
  <1> HIDE DEF u
  <1>2. ASSUME NEW i \in 1..Len(u), NEW j \in 1..Len(u), u[i] = u[j] PROVE i = j
    <2>1. CASE i \in 1..Len(s) /\ j \in 1..Len(s)
      BY <1>1, <1>2, <2>1 DEF Distinct
    <2>2. CASE i \notin 1..Len(s) /\ j \notin 1..Len(s)
      <3>1. i - Len(s) = j - Len(s)
        BY <1>1, <1>2, <2>2 DEF Distinct
      <3> QED
        BY <1>1, <3>1
    <2>3. CASE i \in 1..Len(s) /\ j \notin 1..Len(s)
      BY <1>1, <1>2, <2>3
    <2>4. CASE i \notin 1..Len(s) /\ j \in 1..Len(s)
      BY <1>1, <1>2, <2>4
    <2> QED
      BY <2>1, <2>2, <2>3, <2>4
  <1> QED
    BY <1>2 DEF Distinct, u

LEMMA ConcatFrom ==
    ASSUME NEW S, NEW s \in Seq(S), NEW t \in Seq(S), NEW u, From(s, u), From(t, u)
    PROVE  From(s \o t, u)
  <1> DEFINE v == s \o t
  <1>1. /\ \A i \in 1..Len(s) : v[i] = s[i]
        /\ \A i \in 1..Len(v) :
              i \in 1..Len(s) \/ (i - Len(s) \in 1..Len(t) /\ v[i] = t[i - Len(s)])
    BY ConcatFacts
  <1> HIDE DEF v
  <1>2. ASSUME NEW i \in 1..Len(v) PROVE \E j \in 1..Len(u) : v[i] = u[j]
    <2>1. CASE i \in 1..Len(s)
      BY <1>1, <2>1 DEF From
    <2>2. CASE i - Len(s) \in 1..Len(t) /\ v[i] = t[i - Len(s)]
      BY <2>2 DEF From
    <2> QED
      BY <1>1, <2>1, <2>2
  <1> QED
    BY <1>2 DEF v, From

-------------------------------------------------------------------------------
(* Planner: the rounds of Kahn's algorithm, and the waves. *)

\* What a round adds to the rounds before.
Ready(plan_, S) == {i \in Ids(plan_) : Upstream(plan_, i) \subseteq S}

\* What the recursive definition of Rounds says.
LEMMA RoundsDef ==
    ASSUME NEW p
    PROVE  /\ Rounds(p) \in [Nat -> SUBSET Ids(p)]
           /\ Rounds(p)[0] = {}
           /\ \A n \in Nat : Rounds(p)[n + 1] = Rounds(p)[n] \cup Ready(p, Rounds(p)[n])
  <1> DEFINE D == SUBSET Ids(p)
             F == [n \in Nat |-> [S \in D |-> S \cup Ready(p, S)]]
             Step(R) == [n \in Nat |-> IF n = 0 THEN {} ELSE R[n - 1] \cup Ready(p, R[n - 1])]
  <1>1. PICK f \in [Nat -> D] : Iterates(f, {}, F)
    <2>1. {} \in D /\ F \in [Nat -> [D -> D]]
      BY DEF Ready
    <2> HIDE DEF D, F
    <2> QED
      BY <2>1, Recursion
  <1>2. f = Step(f)
    <2>1. ASSUME NEW n \in Nat, n # 0 PROVE f[n] = f[n - 1] \cup Ready(p, f[n - 1])
      <3>1. n - 1 \in Nat /\ (n - 1) + 1 = n
        BY <2>1
      <3> QED
        BY <1>1, <3>1 DEF Iterates
    <2> QED
      BY <1>1, <2>1 DEF Iterates
  <1>3. Rounds(p) = Step(Rounds(p))
    BY <1>2 DEF Rounds, Ready
  <1> DEFINE R == Rounds(p)
  <1>4. R[0] = {} /\ \A n \in Nat : R[n + 1] = R[n] \cup Ready(p, R[n])
    <2>1. R = Step(R)
      BY <1>3
    <2> HIDE DEF R
    <2>2. ASSUME NEW n \in Nat PROVE R[n + 1] = R[n] \cup Ready(p, R[n])
      <3>1. n + 1 \in Nat /\ n + 1 # 0 /\ (n + 1) - 1 = n
        OBVIOUS
      <3> QED
        BY <2>1, <3>1
    <2> QED
      BY <2>1, <2>2
  <1>5. \A n \in Nat : R[n] \subseteq Ids(p)
    <2> DEFINE S == {n \in Nat : R[n] \subseteq Ids(p)}
    <2>1. 0 \in S /\ \A n \in Nat : n \in S => n + 1 \in S
      <3> HIDE DEF R
      <3> QED
        BY <1>4 DEF Ready
    <2>2. Nat \subseteq S
      <3> HIDE DEF S
      <3> QED
        BY <2>1, Induction
    <2> QED
      BY <2>2
  <1>6. R \in [Nat -> SUBSET Ids(p)]
    <2>1. R = Step(R)
      BY <1>3
    <2> HIDE DEF R
    <2> QED
      BY <2>1, <1>5
  <1> QED
    BY <1>4, <1>6

\* A plan has finitely many names, at most one for each task.
LEMMA NamesFinite ==
    ASSUME NEW p \in Seq(Task)
    PROVE  /\ IsFiniteSet(Ids(p)) /\ Cardinality(Ids(p)) \in 0..Len(p)
           /\ Len(p) \in Nat
           /\ \A t \in ToSet(p) : t.id \in Ids(p) /\ t.deps \subseteq Upstream(p, t.id)
           /\ \A i \in Ids(p) : \A u \in Upstream(p, i) : \E t \in ToSet(p) : t.id = i /\ u \in t.deps
  <1> DEFINE f == [k \in 1..Len(p) |-> p[k].id]
  <1>1. Len(p) \in Nat /\ DOMAIN p = 1..Len(p)
    OBVIOUS
  <1>2. f \in Surjection(1..Len(p), Ids(p))
    BY <1>1 DEF Surjection, Ids, ToSet
  <1>3. IsFiniteSet(1..Len(p)) /\ Cardinality(1..Len(p)) = Len(p)
    BY <1>1, FS_Interval
  <1>4. IsFiniteSet(Ids(p)) /\ Cardinality(Ids(p)) <= Len(p)
    BY <1>2, <1>3, FS_Surjection
  <1>5. Cardinality(Ids(p)) \in Nat
    BY <1>4, FS_CardinalityType
  <1> QED
    BY <1>1, <1>4, <1>5 DEF Ids, Upstream

\* A later round has all the names of an earlier one.
LEMMA RoundsGrow ==
    ASSUME NEW p, NEW n \in Nat, NEW m \in Nat, n <= m
    PROVE  Rounds(p)[n] \subseteq Rounds(p)[m]
  <1> DEFINE S == {k \in Nat : Rounds(p)[n] \subseteq Rounds(p)[n + k]}
  <1>1. 0 \in S
    BY n + 0 = n
  <1>2. ASSUME NEW k \in Nat, k \in S PROVE k + 1 \in S
    <2>1. n + k \in Nat /\ n + (k + 1) = (n + k) + 1
      OBVIOUS
    <2> QED
      BY <1>2, <2>1, RoundsDef
  <1>3. Nat \subseteq S
    <2> HIDE DEF S
    <2> QED
      BY <1>1, <1>2, Induction
  <1>4. m - n \in Nat /\ n + (m - n) = m
    OBVIOUS
  <1> QED
    BY <1>3, <1>4

\* A name that is reached is new in some round, and what it waits for was there before.
LEMMA FirstRound ==
    ASSUME NEW p, NEW m \in Nat, NEW i \in Rounds(p)[m]
    PROVE  \E n \in 1..m : i \in Rounds(p)[n] \ Rounds(p)[n - 1]
  <1> DEFINE S == {n \in Nat : i \in Rounds(p)[n]}
  <1>1. PICK n \in S : \A k \in S : n <= k
    <2>1. S \in SUBSET Nat /\ m \in S
      OBVIOUS
    <2> HIDE DEF S
    <2> QED
      BY <2>1, LeastOf
  <1>2. n # 0
    BY <1>1, RoundsDef
  <1>3. n <= m /\ n - 1 \in Nat /\ ~(n <= n - 1)
    BY <1>1, <1>2
  <1> QED
    BY <1>1, <1>3

\* What a name waits for is in the round before the one it is new in.
LEMMA NewInRound ==
    ASSUME NEW p, NEW n \in Nat \ {0}, NEW i \in Rounds(p)[n] \ Rounds(p)[n - 1]
    PROVE  i \in Ids(p) /\ Upstream(p, i) \subseteq Rounds(p)[n - 1]
  <1>1. n - 1 \in Nat /\ (n - 1) + 1 = n
    OBVIOUS
  <1>2. Rounds(p)[n] = Rounds(p)[n - 1] \cup Ready(p, Rounds(p)[n - 1])
    BY <1>1, RoundsDef
  <1> QED
    BY <1>2 DEF Ready

\* All names of a valid graph are reached, each by one task.
LEMMA ValidReaches ==
    ASSUME NEW p \in Seq(Task), Valid(p)
    PROVE  /\ Processed(p) = Ids(p) /\ Cardinality(Ids(p)) = Len(p)
           /\ \A i \in Ids(p) : Upstream(p, i) \subseteq Ids(p)
  <1> DEFINE N == Cardinality(Ids(p))
  <1>1. IsFiniteSet(Ids(p)) /\ N \in Nat /\ N <= Len(p) /\ Len(p) \in Nat
    BY NamesFinite
  <1>2. Processed(p) \subseteq Ids(p) /\ Cardinality(Processed(p)) = Len(p)
    BY <1>1, RoundsDef DEF Valid, Processed
  <1>3. Cardinality(Processed(p)) <= N
    BY <1>1, <1>2, FS_Subset
  <1>4. Processed(p) = Ids(p)
    BY <1>1, <1>2, <1>3, FS_Subset
  <1> QED
    BY <1>2, <1>4, NamesFinite DEF Valid

\* The round in which a name is new ranks the names of a valid graph.
LEMMA ValidIsSound ==
    ASSUME NEW p \in Seq(Task), Valid(p)
    PROVE  Sound(p)
  <1> DEFINE R == Rounds(p)
             new(i) == {n \in 1..Len(p) : i \in R[n] \ R[n - 1]}
             rank == [i \in Ids(p) |-> CHOOSE n \in new(i) : TRUE]
  <1>1. ASSUME NEW i \in Ids(p) PROVE rank[i] \in 1..Len(p) /\ i \in R[rank[i]] \ R[rank[i] - 1]
    <2>1. i \in R[Len(p)] /\ Len(p) \in Nat
      BY ValidReaches, NamesFinite DEF Processed
    <2>2. new(i) # {}
      BY <2>1, FirstRound
    <2>3. rank[i] \in new(i)
      BY <2>2
    <2> QED
      BY <2>3
  <1> HIDE DEF rank
  <1>2. ASSUME NEW t \in ToSet(p), NEW d \in t.deps
        PROVE  d \in Ids(p) /\ rank[d] < rank[t.id]
    <2>1. t.id \in Ids(p) /\ d \in Upstream(p, t.id)
      BY NamesFinite
    <2>2. d \in Ids(p)
      BY <2>1, ValidReaches
    <2> DEFINE n == rank[t.id]
    <2>3. n \in 1..Len(p) /\ t.id \in R[n] \ R[n - 1] /\ Len(p) \in Nat
      BY <1>1, <2>1, NamesFinite
    <2>4. d \in R[n - 1]
      BY <2>1, <2>3, NewInRound
    <2>5. rank[d] \in 1..Len(p) /\ d \notin R[rank[d] - 1]
      BY <1>1, <2>2
    <2>6. ~(n - 1 <= rank[d] - 1)
      <3>1. n - 1 \in Nat /\ rank[d] - 1 \in Nat
        BY <2>3, <2>5
      <3> QED
        BY <3>1, <2>4, <2>5, RoundsGrow
    <2> QED
      BY <2>2, <2>3, <2>5, <2>6
  <1>3. rank \in [Ids(p) -> 1..Len(p)]
    BY <1>1 DEF rank
  <1> QED
    BY <1>2, <1>3, ValidReaches DEF Sound

\* A name of rank n is reached in round n, by induction on n.
LEMMA SoundIsValid ==
    ASSUME NEW p \in Seq(Task), Sound(p)
    PROVE  Valid(p)
  <1>1. PICK rank \in [Ids(p) -> 1..Len(p)] :
           \A t \in ToSet(p) : \A d \in t.deps : d \in Ids(p) /\ rank[d] < rank[t.id]
    BY DEF Sound
  <1> DEFINE R == Rounds(p)
             S == {n \in Nat : \A i \in Ids(p) : rank[i] <= n => i \in R[n]}
  <1>2. Len(p) \in Nat /\ Cardinality(Ids(p)) = Len(p)
    BY NamesFinite DEF Sound
  <1>3. 0 \in S
    BY <1>1, <1>2
  <1>4. ASSUME NEW n \in Nat, n \in S PROVE n + 1 \in S
    <2> SUFFICES ASSUME NEW i \in Ids(p), rank[i] <= n + 1 PROVE i \in R[n + 1]
      OBVIOUS
    <2>1. ASSUME NEW u \in Upstream(p, i) PROVE u \in R[n]
      <3>1. PICK t \in ToSet(p) : t.id = i /\ u \in t.deps
        BY NamesFinite
      <3>2. u \in Ids(p) /\ rank[u] < rank[i]
        BY <1>1, <3>1
      <3>3. rank[u] \in Nat /\ rank[i] \in Nat
        BY <1>1, <1>2, <3>2
      <3> QED
        BY <1>4, <3>2, <3>3
    <2> QED
      BY <2>1, RoundsDef DEF Ready
  <1>5. Nat \subseteq S
    <2> HIDE DEF S
    <2> QED
      BY <1>3, <1>4, Induction
  <1>6. Processed(p) = Ids(p)
    <2>1. \A i \in Ids(p) : i \in R[Len(p)]
      BY <1>1, <1>2, <1>5
    <2> QED
      BY <1>2, <2>1, RoundsDef DEF Processed
  <1> QED
    BY <1>1, <1>2, <1>6 DEF Valid

\* validateTaskGraphDAG decides what it is for, on every graph: it accepts exactly those
\* whose names are distinct and can be ranked so that every task comes after all it
\* waits for (Kahn's algorithm is sound and complete).
THEOREM KahnDecides ==
    \A p \in Seq(Task) : Valid(p) <=> Sound(p)
  BY ValidIsSound, SoundIsValid

\* computeSpawnWaves: the wave of a task is a round in which it is new.
LEMMA WaveIsNew ==
    ASSUME NEW p \in Seq(Task), Valid(p), NEW i \in Ids(p)
    PROVE  /\ WaveOf(p)[i] \in Nat \ {0} /\ WaveOf(p)[i] <= Len(p)
           /\ i \in Rounds(p)[WaveOf(p)[i]] \ Rounds(p)[WaveOf(p)[i] - 1]
  <1> DEFINE N == Cardinality(Ids(p))
             new == {n \in 1..N : i \in Rounds(p)[n] \ Rounds(p)[n - 1]}
  <1>1. N \in Nat /\ N <= Len(p) /\ i \in Processed(p)
    BY NamesFinite, ValidReaches
  <1>2. \E n \in 1..N : i \in Rounds(p)[n] \ Rounds(p)[n - 1]
    BY <1>1, FirstRound DEF Processed
  <1>3. WaveOf(p)[i] = CHOOSE n \in 1..N : i \in Rounds(p)[n] \ Rounds(p)[n - 1]
    BY <1>1 DEF WaveOf
  <1>4. WaveOf(p)[i] \in 1..N /\ i \in Rounds(p)[WaveOf(p)[i]] \ Rounds(p)[WaveOf(p)[i] - 1]
    BY <1>2, <1>3
  <1> QED
    BY <1>1, <1>4, NamesFinite

\* The wave of a task is the one round it is new in.
LEMMA WaveIs ==
    ASSUME NEW p \in Seq(Task), Valid(p), NEW n \in Nat \ {0},
           NEW i \in Rounds(p)[n] \ Rounds(p)[n - 1]
    PROVE  i \in Ids(p) /\ WaveOf(p)[i] = n
  <1>1. i \in Ids(p)
    BY NewInRound
  <1> DEFINE w == WaveOf(p)[i]
  <1>2. w \in Nat \ {0} /\ i \in Rounds(p)[w] \ Rounds(p)[w - 1]
    BY <1>1, WaveIsNew
  <1> HIDE DEF w
  <1>3. n - 1 \in Nat /\ w - 1 \in Nat
    BY <1>2
  <1>4. ~(n <= w - 1) /\ ~(w <= n - 1)
    BY <1>2, <1>3, RoundsGrow
  <1>5. w = n
    BY <1>2, <1>3, <1>4
  <1> QED
    BY <1>1, <1>5 DEF w

\* What a task waits for is in an earlier wave.
LEMMA UpstreamIsEarlier ==
    ASSUME NEW p \in Seq(Task), Valid(p), NEW i \in Ids(p), NEW u \in Upstream(p, i)
    PROVE  u \in Ids(p) /\ WaveOf(p)[u] < WaveOf(p)[i]
  <1>1. u \in Ids(p)
    BY ValidReaches
  <1> DEFINE w == WaveOf(p)[i]
             v == WaveOf(p)[u]
  <1>2. w \in Nat \ {0} /\ v \in Nat \ {0} /\ u \notin Rounds(p)[v - 1] 
        /\ i \in Rounds(p)[w] \ Rounds(p)[w - 1]
    BY <1>1, WaveIsNew
  <1> HIDE DEF w, v
  <1>3. u \in Rounds(p)[w - 1]
    BY <1>2, NewInRound
  <1>4. w - 1 \in Nat /\ v - 1 \in Nat /\ ~(w - 1 <= v - 1)
    BY <1>2, <1>3, RoundsGrow
  <1>5. v < w
    BY <1>2, <1>4
  <1> QED
    BY <1>1, <1>5 DEF w, v

\* The numbers of the waves.
Waves(p) == {WaveOf(p)[i] : i \in Ids(p)}

\* There are at most as many waves as tasks.
LEMMA LastWaveBound ==
    ASSUME NEW p \in Seq(Task)
    PROVE  IsFiniteSet(Waves(p)) /\ LastWave(p) = Cardinality(Waves(p)) /\ LastWave(p) \in 0..Len(p)
  <1> DEFINE f == [i \in Ids(p) |-> WaveOf(p)[i]]
  <1>1. f \in Surjection(Ids(p), Waves(p))
    BY DEF Surjection, Waves
  <1>2. IsFiniteSet(Ids(p)) /\ Cardinality(Ids(p)) \in 0..Len(p) /\ Len(p) \in Nat
    BY NamesFinite
  <1>3. IsFiniteSet(Waves(p)) /\ Cardinality(Waves(p)) <= Cardinality(Ids(p))
    <2> HIDE DEF f
    <2> QED
      BY <1>1, <1>2, FS_Surjection
  <1>4. Cardinality(Waves(p)) \in Nat
    BY <1>3, FS_CardinalityType
  <1> QED
    BY <1>2, <1>3, <1>4 DEF LastWave, Waves

\* Behind an empty wave nothing is left to be reached.
LEMMA NoGaps ==
    ASSUME NEW p \in Seq(Task), Valid(p), NEW n \in Waves(p), n # 1
    PROVE  n - 1 \in Waves(p)
  <1> DEFINE R == Rounds(p)
  <1>1. PICK i \in Ids(p) : n = WaveOf(p)[i]
    BY DEF Waves
  <1>2. n \in Nat \ {0} /\ i \in R[n] \ R[n - 1]
    BY <1>1, WaveIsNew
  <1>3. n - 1 \in Nat \ {0} /\ n - 2 \in Nat /\ (n - 1) + 1 = n /\ (n - 2) + 1 = n - 1 /\ (n - 1) - 1 = n - 2
    BY <1>2
  <1>4. R[n] = R[n - 1] \cup Ready(p, R[n - 1]) /\ R[n - 1] = R[n - 2] \cup Ready(p, R[n - 2])
    BY <1>3, RoundsDef
  <1>5. R[n - 1] # R[n - 2]
    BY <1>2, <1>4
  <1>6. PICK j : j \in R[n - 1] \ R[n - 2]
    BY <1>4, <1>5
  <1>7. j \in Ids(p) /\ WaveOf(p)[j] = n - 1
    BY <1>3, <1>6, WaveIs
  <1> QED
    BY <1>7 DEF Waves

\* The waves are numbered 1, 2, ... without a gap, and LastWave is the last of them.
LEMMA WavesAreConsecutive ==
    ASSUME NEW p \in Seq(Task), Valid(p)
    PROVE  Waves(p) = 1..LastWave(p)
  <1> DEFINE W == Waves(p)
             Bounds == {n \in Nat : \A k \in W : k <= n}
  <1>1. W \subseteq Nat \ {0} /\ Len(p) \in Bounds
    BY WaveIsNew, NamesFinite DEF Waves
  <1>2. PICK m \in Bounds : \A n \in Bounds : m <= n
    <2>1. Bounds \in SUBSET Nat /\ Bounds # {}
      BY <1>1
    <2> HIDE DEF Bounds
    <2> QED
      BY <2>1, LeastOf
  <1>3. m \in W \/ m = 0
    <2> SUFFICES ASSUME m \notin W, m # 0 PROVE FALSE
      OBVIOUS
    <2>1. m \in Nat /\ m - 1 \in Nat /\ ~(m <= m - 1)
      BY <1>2
    <2>2. ASSUME NEW k \in W PROVE k <= m - 1
      BY <1>1, <1>2
    <2> QED
      BY <1>2, <2>1, <2>2
  <1> DEFINE S == {k \in Nat : k < m => m - k \in W}
  <1>4. Nat \subseteq S
    <2>1. 0 \in S
      BY <1>2, <1>3
    <2>2. ASSUME NEW k \in Nat, k \in S PROVE k + 1 \in S
      <3> SUFFICES ASSUME k + 1 < m PROVE m - (k + 1) \in W
        OBVIOUS
      <3>1. m - k \in W /\ m - k # 1 /\ (m - k) - 1 = m - (k + 1)
        BY <2>2, <1>2
      <3> QED
        BY <3>1, NoGaps
    <2> HIDE DEF S
    <2> QED
      BY <2>1, <2>2, Induction
  <1>5. W = 1..m
    <2>1. ASSUME NEW k \in 1..m PROVE k \in W
      <3>1. m - k \in Nat /\ m - k < m /\ m - (m - k) = k
        BY <1>2
      <3>2. m - k \in S
        BY <3>1, <1>4
      <3>3. m - (m - k) \in W
        BY <3>1, <3>2
      <3> QED
        BY <3>1, <3>3
    <2>2. ASSUME NEW k \in W PROVE k \in 1..m
      <3>1. k \in Nat \ {0} /\ k <= m /\ m \in Nat
        BY <1>1, <1>2
      <3> QED
        BY <3>1
    <2> QED
      BY <2>1, <2>2
  <1>6. Cardinality(1..m) = m
    BY <1>2, FS_Interval
  <1> QED
    BY <1>5, <1>6, LastWaveBound

-------------------------------------------------------------------------------
(* Executions: the graph and its waves. *)

LEMMA FallbackIsPlan == FallbackPlan \in Seq(Task)
  <1>1. Cardinality(FallbackIds) \in Nat /\ ExistsBijection(1..Cardinality(FallbackIds), FallbackIds)
    BY PlanAssumption, FS_CardinalityType
  <1>2. \E f \in [1..Cardinality(FallbackIds) -> FallbackIds] : IsInjective(f)
    BY <1>1 DEF ExistsBijection, Bijection, Injection, IsInjective
  <1>3. SetToSeq(FallbackIds) \in [1..Cardinality(FallbackIds) -> FallbackIds]
    BY <1>2 DEF SetToSeq
  <1>4. \A k \in 1..Cardinality(FallbackIds) :
           [id |-> SetToSeq(FallbackIds)[k], deps |-> {}, tools |-> {}] \in Task
    BY <1>3 DEF Task
  <1> QED
    BY <1>1, <1>4 DEF FallbackPlan

LEMMA ParsedIsPlan ==
    ASSUME NEW p \in Seq(Task), NEW granted
    PROVE  Parsed(p, granted) \in Seq(Task)
  <1> DEFINE tasks == [k \in 1..Len(p) |->
                        [p[k] EXCEPT !.tools = IF granted = {} THEN @ ELSE @ \cap granted]]
  <1>1. Len(p) \in Nat /\ \A k \in 1..Len(p) : p[k] \in Task
    OBVIOUS
  <1>2. ASSUME NEW k \in 1..Len(p)
        PROVE  [p[k] EXCEPT !.tools = IF granted = {} THEN @ ELSE @ \cap granted] \in Task
    BY <1>1 DEF Task
  <1>3. tasks \in Seq(Task)
    BY <1>1, <1>2
  <1> QED
    BY <1>3, FallbackIsPlan DEF Parsed

LEMMA NamesKnown ==
    ASSUME NEW p \in Seq(Task)
    PROVE  Ids(p) \subseteq AllTaskIds
  <1> SUFFICES ASSUME NEW t \in ToSet(p) PROVE t.id \in AllTaskIds
    BY DEF Ids
  <1>1. PICK k \in 1..Len(p) : t = p[k]
    BY DEF ToSet
  <1>2. t \in Task
    BY <1>1
  <1> QED
    BY <1>2 DEF Task, AllTaskIds

Absent == execution \in {"none", "refused"}

\* Before an execution is inserted nobody has confirmed it and nothing was spawned.
AbsentIsIdle ==
    Absent => /\ wave = 0 /\ loops = 0
              /\ agent = [i \in AllTaskIds |-> "none"]
              /\ \A r \in Requests : confirm[r] = "none"

\* The agents of the waves so far have been launched, and those of the waves before the
\* last of them have settled; the loop has started behind the last wave.
WavesLaunched ==
    ~Absent =>
        /\ Valid(plan) /\ wave <= LastWave(plan)
        /\ \A i \in Ids(plan) :
              /\ agent[i] # "none" <=> WaveOf(plan)[i] <= wave
              /\ agent[i] = "launching" => WaveOf(plan)[i] = wave
        /\ loops > 0 => wave = LastWave(plan) /\ WaveSettled

\* The inductive invariant of the graph, the waves and the agents.
SpawnInv == ExecTypeOK /\ AbsentIsIdle /\ WavesLaunched

LEMMA CreateTyped == SpawnInv /\ Create => SpawnInv'
  <1> SUFFICES ASSUME SpawnInv, Create PROVE SpawnInv'
    OBVIOUS
  <1>1. wave = 0 /\ loops = 0 /\ agent = [i \in AllTaskIds |-> "none"]
        /\ \A r \in Requests : confirm[r] = "none"
    BY DEF SpawnInv, AbsentIsIdle, Absent, Create
  <1>2. plan' \in Seq(Task) /\ UNCHANGED <<run, manifest, confirm, cancel, stop, wave, agent, starts,
                                           loops, failures>>
    BY ParsedIsPlan DEF SpawnInv, ExecTypeOK, Create, routeVars, spawnVars
  <1>3. \/ execution' = "pre_flight" /\ leader' = "inserting" /\ Valid(plan')
        \/ execution' = "refused" /\ leader' = leader
    BY DEF Create, Admitted
  <1>4. ExecTypeOK'
    BY <1>1, <1>2, <1>3 DEF SpawnInv, ExecTypeOK
  <1>5. AbsentIsIdle'
    BY <1>1, <1>2 DEF AbsentIsIdle
  <1>6. WavesLaunched'
    <2> SUFFICES ASSUME Valid(plan'), ~Absent' PROVE WavesLaunched'
      BY <1>3 DEF WavesLaunched, Absent
    <2>1. wave' = 0 /\ loops' = 0 /\ LastWave(plan') >= 0
      BY <1>1, <1>2, LastWaveBound
    <2>2. ASSUME NEW i \in Ids(plan')
          PROVE  agent'[i] = "none" /\ ~(WaveOf(plan')[i] <= 0)
      <3>1. i \in AllTaskIds
        BY <1>2, NamesKnown
      <3> QED
        BY <1>1, <1>2, <3>1, WaveIsNew
    <2> QED
      BY <2>1, <2>2 DEF WavesLaunched
  <1> QED
    BY <1>4, <1>5, <1>6 DEF SpawnInv

\* A step that leaves the graph, its waves and its agents alone.
LEMMA SpawnQuiet ==
    ASSUME SpawnInv, ExecTypeOK', UNCHANGED <<plan, wave, agent, loops>>,
           Absent' <=> Absent,
           Absent => \A r \in Requests : confirm'[r] = "none"
    PROVE  SpawnInv'
  BY DEF SpawnInv, AbsentIsIdle, WavesLaunched, WaveSettled

LEMMA SpawnStep == SpawnInv /\ [ExecNext]_execVars => SpawnInv'
  <1> SUFFICES ASSUME SpawnInv, [ExecNext]_execVars PROVE SpawnInv'
    OBVIOUS
  <1> USE DEF ExecTypeOK, ExecFault, routeVars, spawnVars, Transition, Live, Over
  <1>0. ExecTypeOK /\ AbsentIsIdle
    BY DEF SpawnInv
  <1>1. CASE LeaderNext
    <2>1. CASE ~Create
      <3>1. \/ SpawnLeader \/ LeaderFails \/ FailExecution
            \/ Assembled \/ AssemblyThrows \/ AssemblyFailed
        BY <1>1, <2>1 DEF LeaderNext
      <3>2. UNCHANGED <<plan, wave, agent, loops, confirm>> /\ (Absent' <=> Absent)
        BY <3>1 DEF SpawnLeader, LeaderFails, FailExecution, Assembled, AssemblyThrows,
           AssemblyFailed, Absent
      <3>3. manifest' \in BOOLEAN
        BY <1>0, <3>1 DEF SpawnLeader, LeaderFails, FailExecution, Assembled,
           AssemblyThrows, AssemblyFailed
      <3>4. ExecTypeOK'
        BY <1>0, <3>1, <3>2, <3>3, ExecBounds DEF SpawnLeader, LeaderFails, FailExecution,
           Assembled, AssemblyThrows, AssemblyFailed
      <3> QED
        BY <1>0, <3>2, <3>4, SpawnQuiet DEF AbsentIsIdle
    <2> QED
      BY <2>1, CreateTyped
  <1>2. CASE RouteNext
    <2>1. ASSUME NEW r \in Requests,
                 ConfirmCheck(r) \/ Confirm(r) \/ StartRunning(r)
                   \/ CancelCheck(r) \/ Cancel(r) \/ CancelRun(r)
          PROVE  SpawnInv'
      <3>1. ExecTypeOK' /\ UNCHANGED <<plan, wave, agent, loops>> /\ (Absent' <=> Absent)
        BY <1>0, <2>1 DEF ConfirmCheck, Confirm, StartRunning, CancelCheck, Cancel, CancelRun, Absent
      <3>2. Absent => \A q \in Requests : confirm'[q] = "none"
        BY <1>0, <2>1 DEF ConfirmCheck, Confirm, StartRunning, CancelCheck, Cancel, CancelRun,
           AbsentIsIdle, Absent
      <3> QED
        BY <3>1, <3>2, SpawnQuiet
    <2>2. ASSUME StopRequest \/ StopRunning \/ StopQueued PROVE SpawnInv'
      <3>1. ExecTypeOK' /\ UNCHANGED <<plan, wave, agent, loops, confirm>> /\ (Absent' <=> Absent)
        BY <1>0, <2>2 DEF StopRequest, StopRunning, StopQueued, Absent
      <3> QED
        BY <1>0, <3>1, SpawnQuiet DEF AbsentIsIdle
    <2> QED
      BY <1>2, <2>1, <2>2 DEF RouteNext
  <1>3. ASSUME NEW r \in Requests, StartWave(r) PROVE SpawnInv'
    <2>1. ~Absent /\ plan \in Seq(Task) /\ wave \in Nat
      BY <1>0, <1>3 DEF AbsentIsIdle, StartWave, InSpawner
    <2>2. UNCHANGED <<plan, execution, loops>> /\ wave' = wave + 1 /\ wave < LastWave(plan)
      BY <1>3 DEF StartWave
    <2>3. LastWave(plan) \in 0..Len(plan)
      BY <2>1, LastWaveBound
    <2>4. ExecTypeOK'
      BY <1>0, <1>3, <2>1, <2>2, <2>3 DEF StartWave
    <2>5. ~(loops > 0)
      BY <1>0, <2>1, <2>2, <2>3 DEF SpawnInv, WavesLaunched
    <2>6. ASSUME NEW i \in Ids(plan)
          PROVE  /\ agent'[i] # "none" <=> WaveOf(plan)[i] <= wave'
                 /\ agent'[i] = "launching" => WaveOf(plan)[i] = wave'
      <3>1. /\ agent'[i] = IF WaveOf(plan)[i] = wave + 1 THEN "launching" ELSE agent[i]
            /\ agent[i] # "launching"
        BY <1>3, <2>1, NamesKnown DEF StartWave, WaveTasks, WaveSettled
      <3>2. agent[i] # "none" <=> WaveOf(plan)[i] <= wave
        BY <2>1 DEF SpawnInv, WavesLaunched
      <3>3. WaveOf(plan)[i] \in Nat
        BY <2>1, WaveIsNew DEF SpawnInv, WavesLaunched
      <3> QED
        BY <2>1, <2>2, <3>1, <3>2, <3>3
    <2>7. WavesLaunched'
      BY <2>1, <2>2, <2>3, <2>5, <2>6 DEF WavesLaunched, SpawnInv, Absent
    <2>8. AbsentIsIdle'
      BY <2>1, <2>2 DEF AbsentIsIdle, Absent
    <2> QED
      BY <2>4, <2>7, <2>8 DEF SpawnInv
  <1>4. ASSUME NEW r \in Requests, StartLoop(r) PROVE SpawnInv'
    <2>1. ~Absent
      BY <1>0, <1>4 DEF AbsentIsIdle, StartLoop, InSpawner
    <2>2. ExecTypeOK' /\ UNCHANGED <<plan, execution, wave, agent>> /\ wave = LastWave(plan) /\ WaveSettled
      BY <1>0, <1>4 DEF StartLoop
    <2>3. WavesLaunched' /\ AbsentIsIdle'
      BY <2>1, <2>2 DEF SpawnInv, WavesLaunched, AbsentIsIdle, Absent, WaveSettled
    <2> QED
      BY <2>2, <2>3 DEF SpawnInv
  <1>5. ASSUME NEW a \in AllTaskIds, AgentUp(a) \/ AgentFails(a) PROVE SpawnInv'
    <2>1. ~Absent
      BY <1>0, <1>5 DEF AbsentIsIdle, AgentUp, AgentFails
    <2>2. ExecTypeOK' /\ UNCHANGED <<plan, execution, wave, loops>>
      BY <1>0, <1>5, ExecBounds DEF AgentUp, AgentFails
    <2>3. ASSUME NEW i \in AllTaskIds
          PROVE  /\ agent'[i] = "none" <=> agent[i] = "none"
                 /\ agent'[i] = "launching" => agent[i] = "launching"
      BY <1>0, <1>5 DEF AgentUp, AgentFails
    <2>4. Ids(plan) \subseteq AllTaskIds
      BY <1>0, NamesKnown
    <2>5. WaveSettled => WaveSettled'
      BY <2>2, <2>3, <2>4 DEF WaveSettled
    <2>6. WavesLaunched' /\ AbsentIsIdle'
      BY <2>1, <2>2, <2>3, <2>4, <2>5 DEF SpawnInv, WavesLaunched, AbsentIsIdle, Absent
    <2> QED
      BY <2>2, <2>6 DEF SpawnInv
  <1>6. ASSUME Complete PROVE SpawnInv'
    <2>1. ExecTypeOK' /\ UNCHANGED <<plan, wave, agent, loops, confirm>> /\ (Absent' <=> Absent)
      BY <1>0, <1>6 DEF Complete, Absent
    <2> QED
      BY <1>0, <2>1, SpawnQuiet DEF AbsentIsIdle
  <1>7. CASE UNCHANGED execVars
    BY <1>0, <1>7, SpawnQuiet DEF execVars, AbsentIsIdle, Absent
  <1> QED
    <2>1. CASE SpawnerNext
      BY <2>1, <1>3, <1>4, <1>5, <1>6 DEF SpawnerNext
    <2> QED
      BY <2>1, <1>1, <1>2, <1>7 DEF ExecNext

LEMMA SpawnInit == ExecInit => SpawnInv
  <1> SUFFICES ASSUME ExecInit PROVE SpawnInv
    OBVIOUS
  <1>1. plan \in Seq(Task) /\ Len(plan) \in Nat
    BY PlanAssumption DEF ExecInit
  <1>2. manifest \in BOOLEAN
    BY DEF ExecInit
  <1> QED
    BY <1>1, <1>2, ExecBounds DEF ExecInit, SpawnInv, ExecTypeOK, AbsentIsIdle, WavesLaunched, Absent

\* The wave in which an agent is spawned follows from the graph alone.
LEMMA SpawnInvariant == ExecSpec => []SpawnInv
  BY SpawnInit, SpawnStep, PTL DEF ExecSpec

\* Type correctness of an execution, its requests, its waves and its agents.
THEOREM ExecutionTyped == ExecSpec => []ExecTypeOK
  <1>1. SpawnInv => ExecTypeOK
    BY DEF SpawnInv
  <1> QED
    BY <1>1, SpawnInvariant, PTL

\* No execution is ever created from a graph with a cycle, a dangling dependency or a
\* name used twice, whatever the language model replies and whatever the fallback is.
THEOREM PlansAreSound == ExecSpec => []OnlySoundPlans
  <1>1. SpawnInv => OnlySoundPlans
    BY KahnDecides DEF SpawnInv, ExecTypeOK, OnlySoundPlans
  <1> QED
    BY <1>1, SpawnInvariant, PTL

\* An agent is launched only when the launch of every agent its task waits for is over,
\* in every interleaving of launches, failures, requests and faults; and when the loop
\* starts, every task has had its launch: the waves are numbered without a gap.
THEOREM UpstreamLaunchedFirst == ExecSpec => []UpstreamFirst
  <1>1. ASSUME SpawnInv, NEW i \in Ids(plan), ~Absent, agent[i] # "none",
               NEW u \in Upstream(plan, i)
        PROVE  agent[u] \in {"up", "failed"}
    <2> USE <1>1
    <2>1. Valid(plan) /\ plan \in Seq(Task) /\ wave \in Nat
      BY DEF SpawnInv, WavesLaunched, ExecTypeOK
    <2>2. u \in Ids(plan) /\ WaveOf(plan)[u] < WaveOf(plan)[i]
      BY <2>1, UpstreamIsEarlier
    <2>3. WaveOf(plan)[u] \in Nat /\ WaveOf(plan)[i] \in Nat /\ u \in AllTaskIds
      BY <2>1, <2>2, WaveIsNew, NamesKnown
    <2>4. WaveOf(plan)[i] <= wave
      BY DEF SpawnInv, WavesLaunched
    <2>5. WaveOf(plan)[u] <= wave /\ WaveOf(plan)[u] # wave
      BY <2>1, <2>2, <2>3, <2>4
    <2>6. agent[u] # "none" /\ agent[u] # "launching"
      BY <2>2, <2>5 DEF SpawnInv, WavesLaunched
    <2> QED
      BY <2>3, <2>6 DEF SpawnInv, ExecTypeOK
  <1>2. ASSUME SpawnInv, loops > 0, NEW i \in Ids(plan)
        PROVE  agent[i] \in {"up", "failed"}
    <2> USE <1>2
    <2>1. ~Absent /\ Valid(plan) /\ plan \in Seq(Task) /\ wave = LastWave(plan) /\ WaveSettled
      BY DEF SpawnInv, AbsentIsIdle, WavesLaunched, ExecTypeOK
    <2>2. WaveOf(plan)[i] \in Waves(plan)
      BY DEF Waves
    <2>3. WaveOf(plan)[i] <= wave
      BY <2>1, <2>2, WavesAreConsecutive, LastWaveBound
    <2>4. agent[i] # "none" /\ agent[i] # "launching"
      BY <2>1, <2>3 DEF SpawnInv, WavesLaunched, WaveSettled
    <2>5. i \in AllTaskIds
      BY <2>1, NamesKnown
    <2> QED
      BY <2>4, <2>5 DEF SpawnInv, ExecTypeOK
  <1>3. SpawnInv => UpstreamFirst
    BY <1>1, <1>2 DEF UpstreamFirst, Absent
  <1> QED
    BY <1>3, SpawnInvariant, PTL

-------------------------------------------------------------------------------
(* Executions: the requests, the status and the starts. *)

RequestTypes ==
    /\ confirm \in [Requests -> {"none", "checked", "confirmed", "running", "done"}]
    /\ cancel \in [Requests -> {"none", "checked", "cancelled", "won", "done"}]
    /\ starts \in Nat

Confirmed(r) == confirm[r] = "confirmed"
Cancelled(r) == cancel[r] \in {"cancelled", "won"}

\* Before anybody has won the compare-and-set from pre_flight, nobody has anything to
\* start or has started it.
Undecided == execution \in {"none", "refused", "pre_flight"}
UndecidedIsIdle ==
    Undecided => starts = 0 /\ \A r \in Requests : ~Confirmed(r) /\ ~Cancelled(r)

\* The winner is one confirm request, which has not started anything yet, or a cancel.
OneWinner ==
    /\ \A r, q \in Requests : Confirmed(r) /\ Confirmed(q) => r = q
    /\ \A r \in Requests : Confirmed(r) => starts = 0
    /\ \A r, q \in Requests : Cancelled(r) => starts = 0 /\ ~Confirmed(q)

StartInv == RequestTypes /\ UndecidedIsIdle /\ OneWinner /\ starts <= 1

\* A step that leaves the requests as they are, or only moves one that has neither won
\* nor just been cancelled, and never makes the status undecided again.
LEMMA StartQuiet ==
    ASSUME StartInv, RequestTypes', Undecided' => Undecided, UNCHANGED starts,
           \A r \in Requests : Confirmed(r)' => Confirmed(r),
           \A r \in Requests : Cancelled(r)' => Cancelled(r)
    PROVE  StartInv'
  BY DEF StartInv, UndecidedIsIdle, OneWinner

LEMMA StartStep == StartInv /\ [ExecNext]_execVars => StartInv'
  <1> SUFFICES ASSUME StartInv, [ExecNext]_execVars PROVE StartInv'
    OBVIOUS
  <1> USE DEF Confirmed, Cancelled, Undecided
  <1>1. CASE LeaderNext
    <2>1. UNCHANGED <<confirm, cancel, starts>>
      BY <1>1 DEF LeaderNext, Create, SpawnLeader, LeaderFails, FailExecution, Assembled,
         AssemblyThrows, AssemblyFailed, routeVars, spawnVars
    <2>2. Undecided' => Undecided
      BY <1>1 DEF LeaderNext, Create, SpawnLeader, LeaderFails, FailExecution, Assembled,
         AssemblyThrows, AssemblyFailed, Transition
    <2> QED
      BY <2>1, <2>2, StartQuiet DEF StartInv, RequestTypes
  <1>2. ASSUME NEW r \in Requests, ConfirmCheck(r) PROVE StartInv'
    <2>1. /\ RequestTypes' /\ UNCHANGED <<execution, starts, cancel>>
          /\ \A q \in Requests : Confirmed(q)' => Confirmed(q)
      BY <1>2 DEF ConfirmCheck, StartInv, RequestTypes, spawnVars
    <2> QED
      BY <2>1, StartQuiet
  <1>3. ASSUME NEW r \in Requests, Confirm(r) PROVE StartInv'
    <2>1. CASE execution = "pre_flight"
      <3>1. /\ confirm' = [confirm EXCEPT ![r] = "confirmed"]
            /\ execution' = "queued" /\ UNCHANGED <<cancel, starts>>
        BY <1>3, <2>1 DEF Confirm, Transition, Moves, spawnVars
      <3> QED
        BY <2>1, <3>1 DEF StartInv, RequestTypes, UndecidedIsIdle, OneWinner
    <2>2. CASE execution # "pre_flight"
      <3>1. /\ confirm' = [confirm EXCEPT ![r] = "done"]
            /\ UNCHANGED <<execution, cancel, starts>>
        BY <1>3, <2>2 DEF Confirm, Transition, Moves, spawnVars
      <3>2. RequestTypes' /\ \A q \in Requests : Confirmed(q)' => Confirmed(q)
        BY <3>1 DEF StartInv, RequestTypes
      <3> QED
        BY <3>1, <3>2, StartQuiet
    <2> QED
      BY <2>1, <2>2
  <1>4. ASSUME NEW r \in Requests, StartRunning(r) PROVE StartInv'
    <2>1. /\ confirm' = [confirm EXCEPT ![r] = "running"] /\ Confirmed(r)
          /\ starts' = starts + 1 /\ UNCHANGED cancel
      BY <1>4 DEF StartRunning
    <2>2. starts = 0 /\ ~Undecided /\ \A q \in Requests : ~Cancelled(q)
      BY <2>1 DEF StartInv, UndecidedIsIdle, OneWinner
    <2>3. ~Undecided'
      BY <1>4, <2>2 DEF StartRunning, Transition
    <2>4. RequestTypes' /\ \A q \in Requests : ~Confirmed(q)'
      BY <2>1, <2>2 DEF StartInv, RequestTypes, OneWinner
    <2> QED
      BY <2>1, <2>2, <2>3, <2>4 DEF StartInv, UndecidedIsIdle, OneWinner
  <1>5. ASSUME NEW r \in Requests, CancelCheck(r) PROVE StartInv'
    <2>1. /\ RequestTypes' /\ UNCHANGED <<execution, starts, confirm>>
          /\ \A q \in Requests : Cancelled(q)' => Cancelled(q)
      BY <1>5 DEF CancelCheck, StartInv, RequestTypes, spawnVars
    <2> QED
      BY <2>1, StartQuiet
  <1>6. ASSUME NEW r \in Requests, Cancel(r) PROVE StartInv'
    <2>1. CASE execution = "pre_flight"
      <3>1. /\ cancel' = [cancel EXCEPT ![r] = "cancelled"]
            /\ execution' = "stopped" /\ UNCHANGED <<confirm, starts>>
        BY <1>6, <2>1 DEF Cancel, Transition, Moves, spawnVars
      <3> QED
        BY <2>1, <3>1 DEF StartInv, RequestTypes, UndecidedIsIdle, OneWinner
    <2>2. CASE execution # "pre_flight"
      <3>1. /\ cancel' = [cancel EXCEPT ![r] = "done"]
            /\ UNCHANGED <<execution, confirm, starts>>
        BY <1>6, <2>2 DEF Cancel, Transition, Moves, spawnVars
      <3>2. RequestTypes' /\ \A q \in Requests : Cancelled(q)' => Cancelled(q)
        BY <3>1 DEF StartInv, RequestTypes
      <3> QED
        BY <3>1, <3>2, StartQuiet
    <2> QED
      BY <2>1, <2>2
  <1>7. ASSUME NEW r \in Requests, CancelRun(r) PROVE StartInv'
    <2>1. /\ RequestTypes' /\ UNCHANGED <<execution, starts, confirm>>
          /\ \A q \in Requests : Cancelled(q)' => Cancelled(q)
      BY <1>7 DEF CancelRun, StartInv, RequestTypes, spawnVars
    <2> QED
      BY <2>1, StartQuiet
  <1>8. CASE StopRequest \/ StopRunning \/ StopQueued
    <2>1. UNCHANGED <<confirm, cancel, starts>> /\ (Undecided' => Undecided)
      BY <1>8 DEF StopRequest, StopRunning, StopQueued, Transition, spawnVars
    <2> QED
      BY <2>1, StartQuiet DEF StartInv, RequestTypes
  <1>9. ASSUME NEW r \in Requests, StartWave(r) \/ StartLoop(r) PROVE StartInv'
    <2>1. /\ RequestTypes' /\ UNCHANGED <<execution, starts, cancel>>
          /\ \A q \in Requests : Confirmed(q)' => Confirmed(q)
      BY <1>9 DEF StartWave, StartLoop, StartInv, RequestTypes, routeVars
    <2> QED
      BY <2>1, StartQuiet
  <1>10. ASSUME NEW i \in AllTaskIds, AgentUp(i) \/ AgentFails(i) PROVE StartInv'
    <2>1. UNCHANGED <<confirm, cancel, starts, execution>>
      BY <1>10 DEF AgentUp, AgentFails, routeVars
    <2> QED
      BY <2>1, StartQuiet DEF StartInv, RequestTypes
  <1>11. CASE Complete
    <2>1. UNCHANGED <<confirm, cancel, starts>> /\ (Undecided' => Undecided)
      BY <1>11 DEF Complete, Transition, routeVars, spawnVars
    <2> QED
      BY <2>1, StartQuiet DEF StartInv, RequestTypes
  <1>12. CASE UNCHANGED execVars
    <2>1. UNCHANGED <<confirm, cancel, starts, execution>>
      BY <1>12 DEF execVars, routeVars, spawnVars
    <2> QED
      BY <2>1, StartQuiet DEF StartInv, RequestTypes
  <1> QED
    BY <1>1, <1>2, <1>3, <1>4, <1>5, <1>6, <1>7, <1>8, <1>9, <1>10, <1>11, <1>12
       DEF ExecNext, RouteNext, SpawnerNext

\* routes/executions.ts spawns the agents of an execution once at most, however its
\* confirm and cancel requests interleave, and never when a cancel has won.
THEOREM StartsOnce == ExecSpec => []StartedOnce
  <1>1. ExecInit => StartInv
    BY DEF ExecInit, StartInv, RequestTypes, UndecidedIsIdle, OneWinner, Confirmed, Cancelled
  <1>2. StartInv => StartedOnce
    BY DEF StartInv, OneWinner, StartedOnce, Cancelled
  <1> QED
    BY <1>1, <1>2, StartStep, PTL DEF ExecSpec

\* transitionExecution never leaves a final status, whatever a route, the spawner or the
\* completion check still had in mind.
THEOREM FinalStatus == ExecSpec => OverIsOver
  <1>1. [ExecNext]_execVars => [(execution \in Over) => execution' = execution]_execVars
    <2> SUFFICES ASSUME ExecNext, execution \in Over PROVE execution' = execution
      OBVIOUS
    <2> USE DEF Over, Transition
    <2>1. CASE LeaderNext
      BY <2>1 DEF LeaderNext, Create, SpawnLeader, LeaderFails, FailExecution, Assembled,
         AssemblyThrows, AssemblyFailed
    <2>2. CASE RouteNext
      BY <2>2 DEF RouteNext, ConfirmCheck, Confirm, StartRunning, CancelCheck, Cancel,
         CancelRun, StopRequest, StopRunning, StopQueued
    <2>3. CASE SpawnerNext
      BY <2>3 DEF SpawnerNext, StartWave, StartLoop, AgentUp, AgentFails, Complete
    <2> QED
      BY <2>1, <2>2, <2>3 DEF ExecNext
  <1> QED
    BY <1>1, PTL DEF ExecSpec, OverIsOver

-------------------------------------------------------------------------------
(* RunCoordination. *)

CountTypes ==
    /\ poll \in [Polls -> {"idle", "viewing", "routing", "reallocating", "looking",
                            "replacing", "saving", "announcing", "closing"}]
    /\ work \in [Polls -> SUBSET Agents]
    /\ replaced \in [Agents -> Nat]

\* The reallocators that have found the failure of the agent and not handled it yet.
Reallocating == {"reallocating", "looking", "replacing"}
Taken(a) == {k \in Polls : poll[k] \in Reallocating /\ a \in work[k]}

\* An agent has been replaced by polls that found it unhandled, and no other poll will.
TakenOnce ==
    \A a \in Agents :
        /\ replaced[a] + Cardinality(Taken(a)) <= Cardinality(Polls)
        /\ a \notin handled => replaced[a] = 0

InHandKnown == \A k \in Polls : poll[k] \in {"looking", "replacing"} => work[k] # {}

ReplaceInv == CountTypes /\ TakenOnce /\ InHandKnown

LEMMA PollsFinite ==
    /\ IsFiniteSet(Polls) /\ Cardinality(Polls) \in Nat
    /\ \A S \in SUBSET Polls : /\ IsFiniteSet(S) /\ Cardinality(S) \in Nat
                               /\ Cardinality(S) <= Cardinality(Polls)
  BY CoAssumption, FS_CardinalityType, FS_Subset

\* Steps that launch no replacement and let no new poll find a failure.
LEMMA TakenQuiet ==
    ASSUME TakenOnce, CountTypes, UNCHANGED replaced, handled \subseteq handled',
           \A a \in Agents : Taken(a)' \subseteq Taken(a)
    PROVE  TakenOnce'
  <1> SUFFICES ASSUME NEW a \in Agents
               PROVE  /\ replaced[a] + Cardinality(Taken(a)') <= Cardinality(Polls)
                      /\ a \notin handled' => replaced[a] = 0
    BY DEF TakenOnce
  <1>1. Taken(a) \subseteq Polls /\ Taken(a)' \subseteq Taken(a)
    BY DEF Taken
  <1>2. /\ Cardinality(Taken(a)') \in Nat /\ Cardinality(Taken(a)) \in Nat
        /\ Cardinality(Taken(a)') <= Cardinality(Taken(a))
    BY <1>1, PollsFinite, FS_Subset
  <1> QED
    BY <1>2, PollsFinite DEF TakenOnce, CountTypes

\* Marking the session in hand as handled.
LEMMA HandleFacts ==
    ASSUME ReplaceInv, NEW k \in Polls, poll[k] \in {"looking", "replacing"}, Handle(k)
    PROVE  /\ InHand(k) \in work[k] /\ InHand(k) \in Agents
           /\ handled' = handled \cup {InHand(k)}
           /\ InHandKnown'
           /\ poll' \in [Polls -> {"idle", "viewing", "routing", "reallocating", "looking",
                            "replacing", "saving", "announcing", "closing"}]
           /\ work' \in [Polls -> SUBSET Agents]
           /\ \A a \in Agents : Taken(a)' = Taken(a) \ (IF a = InHand(k) THEN {k} ELSE {})
           /\ k \in Taken(InHand(k))
  <1>1. InHand(k) \in work[k]
    BY DEF ReplaceInv, InHandKnown, InHand
  <1>2. InHand(k) \in Agents
    BY <1>1 DEF ReplaceInv, CountTypes
  <1>3. /\ handled' = handled \cup {InHand(k)}
        /\ work' = [work EXCEPT ![k] = @ \ {InHand(k)}]
        /\ poll' = [poll EXCEPT ![k] = "reallocating"]
    BY DEF Handle, Goes
  <1>4. \A a \in Agents : Taken(a)' = Taken(a) \ (IF a = InHand(k) THEN {k} ELSE {})
    BY <1>3 DEF ReplaceInv, CountTypes, Taken, Reallocating
  <1> QED
    BY <1>1, <1>2, <1>3, <1>4 DEF ReplaceInv, CountTypes, InHandKnown, Taken, Reallocating

\* A poll turns to the failures nobody has handled, which nobody has replaced.
LEMMA ReallocationKeeps ==
    ASSUME ReplaceInv, NEW k \in Polls, poll[k] = "routing", StartReallocation(k)
    PROVE  ReplaceInv'
  <1>1. /\ work' = [work EXCEPT ![k] = {a \in Agents : session[a] = "failed"} \ handled]
        /\ poll' = [poll EXCEPT ![k] = "reallocating"]
        /\ UNCHANGED <<handled, replaced>>
    BY DEF StartReallocation, Goes
  <1>2. CountTypes' /\ InHandKnown'
    BY <1>1 DEF ReplaceInv, CountTypes, InHandKnown
  <1>3. ASSUME NEW a \in Agents
        PROVE  replaced[a] + Cardinality(Taken(a)') <= Cardinality(Polls)
    <2>1. CASE a \in handled
      <3>1. Taken(a)' \subseteq Taken(a) /\ Taken(a) \subseteq Polls
        BY <1>1, <2>1 DEF Taken, ReplaceInv, CountTypes
      <3>2. /\ Cardinality(Taken(a)') \in Nat /\ Cardinality(Taken(a)) \in Nat
            /\ Cardinality(Taken(a)') <= Cardinality(Taken(a))
        BY <3>1, PollsFinite, FS_Subset
      <3> QED
        BY <3>2, PollsFinite DEF ReplaceInv, TakenOnce, CountTypes
    <2>2. CASE a \notin handled
      <3>1. replaced[a] = 0
        BY <2>2 DEF ReplaceInv, TakenOnce
      <3>2. Taken(a)' \in SUBSET Polls
        BY DEF Taken
      <3> QED
        BY <3>1, <3>2, PollsFinite
    <2> QED
      BY <2>1, <2>2
  <1> QED
    BY <1>1, <1>2, <1>3 DEF ReplaceInv, TakenOnce

LEMMA ReplaceStep == ReplaceInv /\ [CoNext]_coVars => ReplaceInv'
  <1> SUFFICES ASSUME ReplaceInv, [CoNext]_coVars PROVE ReplaceInv'
    OBVIOUS
  <1>1. ASSUME UNCHANGED <<poll, work, handled, replaced>> PROVE ReplaceInv'
    BY <1>1 DEF ReplaceInv, CountTypes, TakenOnce, InHandKnown, Taken
  <1>2. ASSUME NEW k \in Polls, UNCHANGED <<handled, replaced>>,
               poll' = [poll EXCEPT ![k] = poll'[k]],
               poll'[k] \in {"idle", "viewing", "routing", "saving", "announcing", "closing"},
               work' = [work EXCEPT ![k] = work'[k]], work'[k] \in SUBSET Agents
        PROVE  ReplaceInv'
    <2>1. CountTypes' /\ InHandKnown'
      BY <1>2 DEF ReplaceInv, CountTypes, InHandKnown
    <2>2. \A a \in Agents : Taken(a)' \subseteq Taken(a)
      BY <1>2 DEF ReplaceInv, CountTypes, Taken, Reallocating
    <2> QED
      BY <1>2, <2>1, <2>2, TakenQuiet DEF ReplaceInv
  <1>3. ASSUME NEW a \in Agents, SessionEnds(a) PROVE ReplaceInv'
    BY <1>1, <1>3 DEF SessionEnds, pollVars
  <1>4. CASE Spend \/ Time \/ UNCHANGED coVars
    BY <1>1, <1>4 DEF Spend, Time, coVars, pollVars
  <1>5. ASSUME NEW k \in Polls, Poll(k) PROVE ReplaceInv'
    <2>1. poll' = [poll EXCEPT ![k] = "viewing"] /\ UNCHANGED <<work, handled, replaced>>
      BY <1>5 DEF Poll, Goes
    <2> QED
      BY <1>2, <2>1 DEF ReplaceInv, CountTypes
  <1>6. ASSUME NEW k \in Polls, View(k) PROVE ReplaceInv'
    <2>1. /\ poll' = [poll EXCEPT ![k] = "routing"] /\ UNCHANGED <<handled, replaced>>
          /\ work' = [work EXCEPT ![k] = {a \in Agents : session[a] = "completed"} \ routed]
      BY <1>6 DEF View, Goes
    <2> QED
      BY <1>2, <2>1 DEF ReplaceInv, CountTypes
  <1>7. ASSUME NEW k \in Polls, Route(k) \/ RouteFails(k) PROVE ReplaceInv'
    BY <1>7, ReallocationKeeps DEF Route, RouteFails
  <1>8. ASSUME NEW k \in Polls, LookAt(k) PROVE ReplaceInv'
    <2>1. /\ poll[k] = "reallocating" /\ work[k] # {}
          /\ poll' = [poll EXCEPT ![k] = "looking"] /\ UNCHANGED <<work, handled, replaced>>
      BY <1>8 DEF LookAt, Goes
    <2>2. CountTypes' /\ InHandKnown'
      BY <2>1 DEF ReplaceInv, CountTypes, InHandKnown
    <2>3. \A a \in Agents : Taken(a)' \subseteq Taken(a)
      BY <2>1 DEF ReplaceInv, CountTypes, Taken, Reallocating
    <2> QED
      BY <2>1, <2>2, <2>3, TakenQuiet DEF ReplaceInv
  <1>9. ASSUME NEW k \in Polls, poll[k] \in {"looking", "replacing"}, Handle(k),
               UNCHANGED replaced
        PROVE  ReplaceInv'
    BY <1>9, HandleFacts, TakenQuiet DEF ReplaceInv, CountTypes
  <1>10. ASSUME NEW k \in Polls, Decide(k) PROVE ReplaceInv'
    <2>1. CASE poll' = [poll EXCEPT ![k] = "replacing"] /\ UNCHANGED <<handled, work>>
      <3>1. poll[k] = "looking" /\ UNCHANGED replaced
        BY <1>10 DEF Decide
      <3>2. CountTypes' /\ InHandKnown'
        BY <2>1, <3>1 DEF ReplaceInv, CountTypes, InHandKnown
      <3>3. \A a \in Agents : Taken(a)' \subseteq Taken(a)
        BY <2>1, <3>1 DEF ReplaceInv, CountTypes, Taken, Reallocating
      <3> QED
        BY <2>1, <3>1, <3>2, <3>3, TakenQuiet DEF ReplaceInv
    <2>2. CASE Handle(k)
      BY <1>9, <1>10, <2>2 DEF Decide
    <2> QED
      BY <1>10, <2>1, <2>2 DEF Decide, Goes
  <1>11. ASSUME NEW k \in Polls, Replace(k) PROVE ReplaceInv'
    <2> DEFINE h == InHand(k)
    <2>1. poll[k] = "replacing" /\ Handle(k) /\ replaced' = [replaced EXCEPT ![h] = @ + 1]
      BY <1>11 DEF Replace
    <2>2. /\ h \in Agents /\ handled' = handled \cup {h} /\ k \in Taken(h)
          /\ \A a \in Agents : Taken(a)' = Taken(a) \ (IF a = h THEN {k} ELSE {})
      BY <2>1, HandleFacts
    <2>3. CountTypes' /\ InHandKnown'
      BY <2>1, <2>2, HandleFacts DEF ReplaceInv, CountTypes
    <2>4. replaced'[h] = replaced[h] + 1 /\ \A a \in Agents \ {h} : replaced'[a] = replaced[a]
      BY <2>1, <2>2 DEF ReplaceInv, CountTypes
    <2>5. ASSUME NEW a \in Agents
          PROVE  replaced'[a] + Cardinality(Taken(a)') <= Cardinality(Polls)
      <3>1. CASE a = h
        <4>1. k \in Taken(a) /\ Taken(a)' = Taken(a) \ {k} /\ replaced'[a] = replaced[a] + 1
          BY <2>2, <2>4, <3>1
        <4>2. Taken(a) \in SUBSET Polls
          BY DEF Taken
        <4>3. IsFiniteSet(Taken(a))
          BY <4>2, PollsFinite, FS_Subset
        <4>4. Cardinality(Taken(a)') = Cardinality(Taken(a)) - 1
          BY <4>1, <4>3, FS_RemoveElement
        <4>5. Cardinality(Taken(a)) \in Nat /\ replaced[a] \in Nat
          BY <4>3, FS_CardinalityType DEF ReplaceInv, CountTypes
        <4>6. replaced[a] + Cardinality(Taken(a)) <= Cardinality(Polls)
          BY DEF ReplaceInv, TakenOnce
        <4> HIDE DEF h
        <4> QED
          BY <4>1, <4>4, <4>5, <4>6, PollsFinite
      <3>2. CASE a # h
        <4>1. Taken(a)' = Taken(a) /\ replaced'[a] = replaced[a]
          BY <2>2, <2>4, <3>2
        <4> QED
          BY <4>1 DEF ReplaceInv, TakenOnce
      <3> QED
        BY <3>1, <3>2
    <2>6. \A a \in Agents : a \notin handled' => replaced'[a] = 0
      BY <2>2, <2>4 DEF ReplaceInv, TakenOnce
    <2> QED
      BY <2>3, <2>5, <2>6 DEF ReplaceInv, TakenOnce
  <1>12. ASSUME NEW k \in Polls, ReplaceFails(k) PROVE ReplaceInv'
    BY <1>9, <1>12 DEF ReplaceFails
  <1>13. ASSUME NEW k \in Polls, Degrade(k) PROVE ReplaceInv'
    <2>1. poll' = [poll EXCEPT ![k] = "saving"] /\ UNCHANGED <<work, handled, replaced>>
      BY <1>13 DEF Degrade, Goes
    <2> QED
      BY <1>2, <2>1 DEF ReplaceInv, CountTypes
  <1>14. ASSUME NEW k \in Polls, Returns(k), UNCHANGED <<handled, replaced>> PROVE ReplaceInv'
    <2>1. poll' = [poll EXCEPT ![k] = "idle"] /\ work' = [work EXCEPT ![k] = {}]
      BY <1>14 DEF Returns, Goes
    <2> QED
      BY <1>2, <1>14, <2>1 DEF ReplaceInv, CountTypes
  <1>15. ASSUME NEW k \in Polls, Save(k) PROVE ReplaceInv'
    <2>1. CASE ending[k]
      <3>1. poll' = [poll EXCEPT ![k] = "announcing"] /\ UNCHANGED <<work, handled, replaced>>
        BY <1>15, <2>1 DEF Save, Goes
      <3> QED
        BY <1>2, <3>1 DEF ReplaceInv, CountTypes
    <2>2. CASE ~ending[k]
      BY <1>14, <1>15, <2>2 DEF Save
    <2> QED
      BY <2>1, <2>2
  <1>16. ASSUME NEW k \in Polls, Announce(k) PROVE ReplaceInv'
    <2>1. poll' = [poll EXCEPT ![k] = "closing"] /\ UNCHANGED <<work, handled, replaced>>
      BY <1>16 DEF Announce, Goes
    <2> QED
      BY <1>2, <2>1 DEF ReplaceInv, CountTypes
  <1>17. ASSUME NEW k \in Polls, Close(k) \/ PollThrows(k) PROVE ReplaceInv'
    BY <1>14, <1>17 DEF Close, PollThrows
  <1>18. ASSUME NEW k \in Polls, WriteSynthesis(k) \/ SynthesisThrows(k) PROVE ReplaceInv'
    BY <1>1, <1>18 DEF WriteSynthesis, SynthesisThrows, pollVars
  <1> QED
    BY <1>3, <1>4, <1>5, <1>6, <1>7, <1>8, <1>10, <1>11, <1>12, <1>13, <1>15, <1>16, <1>17,
       <1>18 DEF CoNext, PollNext, PollTroubles

LEMMA ReplaceInvariant == CoSpec => []ReplaceInv
  <1>1. CoInit => ReplaceInv
    <2> SUFFICES ASSUME CoInit PROVE ReplaceInv
      OBVIOUS
    <2>1. CountTypes /\ InHandKnown
      BY DEF CoInit, CountTypes, InHandKnown
    <2>2. \A a \in Agents : replaced[a] = 0 /\ Taken(a) \in SUBSET Polls
      BY DEF CoInit, Taken
    <2>3. TakenOnce
      BY <2>2, PollsFinite DEF TakenOnce
    <2> QED
      BY <2>1, <2>3 DEF ReplaceInv
  <1> QED
    BY <1>1, ReplaceStep, PTL DEF CoSpec

\* failure-reallocator.ts marks a failure only after its replacement has been launched;
\* however long the polls overlap, it launches one replacement for each of them at most.
THEOREM ReplacementsBounded == CoSpec => []ReplacedOncePerPoll
  <1>1. ReplaceInv => ReplacedOncePerPoll
    <2> SUFFICES ASSUME ReplaceInv, NEW a \in Agents
                 PROVE  replaced[a] + Cardinality(Replacing(a)) <= Cardinality(Polls)
      BY DEF ReplacedOncePerPoll
    <2>1. Replacing(a) \subseteq Taken(a) /\ Taken(a) \in SUBSET Polls
      BY DEF Replacing, Taken, Reallocating, ReplaceInv, InHandKnown, InHand
    <2>2. /\ Cardinality(Replacing(a)) \in Nat /\ Cardinality(Taken(a)) \in Nat
          /\ Cardinality(Replacing(a)) <= Cardinality(Taken(a))
      BY <2>1, PollsFinite, FS_Subset
    <2> QED
      BY <2>2, PollsFinite DEF ReplaceInv, TakenOnce, CountTypes
  <1> QED
    BY <1>1, ReplaceInvariant, PTL

-------------------------------------------------------------------------------
(* Types of the coordination: the session in hand is one of the registry,      *)
(* since a poll that looks at one or replaces it has it still in its work.     *)

LEMMA CoTypeInit == CoInit => CoTypeOK
  <1> SUFFICES ASSUME CoInit PROVE CoTypeOK
    OBVIOUS
  <1>1. /\ session \in [Agents -> {"none", "spawning", "active", "completed", "failed"}]
        /\ job \in [Agents -> CoTasks \cup {"none"}]
    BY CoAssumption DEF CoInit, Agents
  <1>2. /\ seen \in [Polls -> Levels] /\ spent \in Levels /\ tier \in Tiers
        /\ coFaults \in 0..MaxCoFaults
    BY CoAssumption DEF CoInit, Tiers
  <1> QED
    BY <1>1, <1>2 DEF CoInit, CoTypeOK

LEMMA ReturnsTypes ==
    ASSUME CoTypeOK, NEW k \in Polls, Returns(k)
    PROVE  /\ poll' \in [Polls -> {"idle", "viewing", "routing", "reallocating", "looking",
                                   "replacing", "saving", "announcing", "closing"}]
           /\ seen' \in [Polls -> Levels] /\ ending' \in [Polls -> BOOLEAN]
           /\ known' \in [Polls -> SUBSET Agents] /\ work' \in [Polls -> SUBSET Agents]
           /\ alone' \in [Polls -> BOOLEAN]
  BY CoAssumption DEF CoTypeOK, Returns, Goes

LEMMA HandleTypes ==
    ASSUME CoTypeOK, ReplaceInv, NEW k \in Polls, poll[k] \in {"looking", "replacing"}, Handle(k)
    PROVE  /\ InHand(k) \in Agents /\ handled' \subseteq Agents
           /\ poll' \in [Polls -> {"idle", "viewing", "routing", "reallocating", "looking",
                                   "replacing", "saving", "announcing", "closing"}]
           /\ work' \in [Polls -> SUBSET Agents]
           /\ alone' \in [Polls -> BOOLEAN]
  <1>1. InHand(k) \in Agents
    BY HandleFacts
  <1> QED
    BY <1>1 DEF CoTypeOK, Handle, Goes

LEMMA CoTypeStep == CoTypeOK /\ ReplaceInv /\ [CoNext]_coVars => CoTypeOK'
  <1> SUFFICES ASSUME CoTypeOK, ReplaceInv, [CoNext]_coVars PROVE CoTypeOK'
    OBVIOUS
  <1> USE DEF CoTypeOK, pollVars, ringVars, envVars, CoFault, Goes
  <1>1. ASSUME NEW a \in Agents, SessionEnds(a) PROVE CoTypeOK'
    BY <1>1 DEF SessionEnds
  <1>2. CASE Spend
    BY <1>2 DEF Spend
  <1>3. CASE Time
    BY <1>3 DEF Time
  <1>4. ASSUME NEW k \in Polls, Poll(k) PROVE CoTypeOK'
    BY <1>4 DEF Poll
  <1>5. ASSUME NEW k \in Polls, View(k) PROVE CoTypeOK'
    <2>1. Ends(k) \in BOOLEAN
      BY DEF Ends, RunComplete
    <2> QED
      BY <1>5, <2>1 DEF View
  <1>6. ASSUME NEW k \in Polls, StartReallocation(k), routed' \subseteq Agents,
               coFaults' \in 0..MaxCoFaults
        PROVE  CoTypeOK'
    BY <1>6 DEF StartReallocation
  <1>7. ASSUME NEW k \in Polls, Route(k) \/ RouteFails(k) PROVE CoTypeOK'
    BY <1>6, <1>7, CoAssumption DEF Route, RouteFails
  <1>8. ASSUME NEW k \in Polls, LookAt(k) PROVE CoTypeOK'
    BY <1>8 DEF LookAt
  <1>9. ASSUME NEW k \in Polls, Decide(k) PROVE CoTypeOK'
    <2>1. CASE poll' = [poll EXCEPT ![k] = "replacing"] /\ UNCHANGED <<handled, work, alone>>
      BY <1>9, <2>1 DEF Decide
    <2>2. CASE Handle(k)
      BY <1>9, <2>2, HandleTypes DEF Decide
    <2> QED
      BY <1>9, <2>1, <2>2 DEF Decide
  <1>10. ASSUME NEW k \in Polls, Replace(k) PROVE CoTypeOK'
    <2>1. Handle(k) /\ poll[k] = "replacing"
      BY <1>10 DEF Replace
    <2>2. InHand(k) \in Agents
      BY <2>1, HandleTypes
    <2>3. session' \in [Agents -> {"none", "spawning", "active", "completed", "failed"}]
          /\ job' \in [Agents -> CoTasks \cup {"none"}]
          /\ replaced' \in [Agents -> Nat]
      BY <1>10, <2>2 DEF Replace, Agents
    <2> QED
      BY <1>10, <2>1, <2>3, HandleTypes DEF Replace
  <1>11. ASSUME NEW k \in Polls, ReplaceFails(k) PROVE CoTypeOK'
    <2>1. Handle(k) /\ poll[k] = "replacing"
      BY <1>11 DEF ReplaceFails
    <2> QED
      BY <1>11, <2>1, HandleTypes, CoAssumption DEF ReplaceFails
  <1>12. ASSUME NEW k \in Polls, Degrade(k) PROVE CoTypeOK'
    <2>1. \/ UNCHANGED <<tier, tierFresh>>
          \/ /\ tier' \in {TierFrom(seen[k]), "deprioritize"}
             /\ tierFresh' = TRUE
      BY <1>12 DEF Degrade
    <2>2. TierFrom(seen[k]) \in Tiers /\ "deprioritize" \in Tiers
      BY DEF TierFrom, Tiers
    <2>3. tier' \in Tiers /\ tierFresh' \in BOOLEAN
      BY <2>1, <2>2
    <2> QED
      BY <1>12, <2>3, CoAssumption DEF Degrade
  <1>13. ASSUME NEW k \in Polls, Save(k) PROVE CoTypeOK'
    <2>1. CASE ending[k]
      BY <1>13, <2>1 DEF Save
    <2>2. CASE ~ending[k]
      BY <1>13, <2>2, ReturnsTypes DEF Save
    <2> QED
      BY <2>1, <2>2
  <1>14. ASSUME NEW k \in Polls, Announce(k) PROVE CoTypeOK'
    BY <1>14 DEF Announce
  <1>15. ASSUME NEW k \in Polls, Close(k) PROVE CoTypeOK'
    BY <1>15, ReturnsTypes DEF Close
  <1>16. ASSUME NEW k \in Polls, PollThrows(k) PROVE CoTypeOK'
    BY <1>16, ReturnsTypes, CoAssumption DEF PollThrows
  <1>17. ASSUME NEW k \in Polls, WriteSynthesis(k) \/ SynthesisThrows(k) PROVE CoTypeOK'
    BY <1>17, CoAssumption DEF WriteSynthesis, SynthesisThrows
  <1>18. CASE UNCHANGED coVars
    BY <1>18 DEF coVars
  <1> QED
    BY <1>1, <1>2, <1>3, <1>4, <1>5, <1>7, <1>8, <1>9, <1>10, <1>11, <1>12, <1>13, <1>14,
       <1>15, <1>16, <1>17, <1>18 DEF CoNext, PollNext, PollTroubles

\* Type correctness of the coordination, for any number of overlapping polls.
THEOREM CoordinationTyped == CoSpec => []CoTypeOK
  <1>1. CoTypeOK /\ ReplaceInv /\ ReplaceInv' /\ [CoNext]_coVars => CoTypeOK'
    BY CoTypeStep
  <1> QED
    BY <1>1, CoTypeInit, ReplaceInvariant, PTL DEF CoSpec

-------------------------------------------------------------------------------
(* The end of the loop.  A poll that is to end it has seen the time limit passed, *)
(* or every agent the run began with at rest, and none of those starts again.     *)

AtRest == \A a \in Sessions : ~ Busy(a)

EndTypes ==
    /\ poll \in [Polls -> {"idle", "viewing", "routing", "reallocating", "looking",
                           "replacing", "saving", "announcing", "closing"}]
    /\ ending \in [Polls -> BOOLEAN]
    /\ session \in [Agents -> {"none", "spawning", "active", "completed", "failed"}]
    /\ DOMAIN job = Agents /\ timeUp \in BOOLEAN
    /\ \A a \in Sessions : session[a] # "none" /\ job[a] \in CoTasks

EndsKnown ==
    /\ \A k \in Polls : ending[k] => timeUp \/ AtRest
    /\ \A k \in Polls : poll[k] \in {"announcing", "closing"} => ending[k]

EndInv == EndTypes /\ EndsKnown

\* A finished run has no busy agent of its own.
LEMMA CompleteIsAtRest == EndTypes /\ RunComplete => AtRest
  BY DEF EndTypes, RunComplete, AtRest, ActiveTasks, OnTask, Agents

\* Steps that end no loop: an ending poll stays one, or returns.
LEMMA EndKept ==
    ASSUME EndInv, EndTypes', timeUp => timeUp', AtRest => AtRest',
           \A k \in Polls : ending'[k] => ending[k] \/ timeUp \/ AtRest,
           \A k \in Polls : poll'[k] \in {"announcing", "closing"} => ending'[k]
    PROVE  EndInv'
  BY DEF EndInv, EndsKnown

LEMMA EndStep == EndInv /\ [CoNext]_coVars => EndInv'
  <1> SUFFICES ASSUME EndInv, [CoNext]_coVars PROVE EndInv'
    OBVIOUS
  <1> USE DEF EndInv
  <1>1. ASSUME UNCHANGED <<poll, ending, session, job>>, timeUp => timeUp',
               timeUp' \in BOOLEAN
        PROVE  EndInv'
    BY <1>1 DEF EndTypes, EndsKnown, AtRest, Busy
  <1>2. ASSUME NEW k \in Polls, UNCHANGED <<ending, session, job, timeUp>>,
               NEW step \in {"viewing", "routing", "reallocating", "looking", "replacing",
                             "saving"}, Goes(k, step)
        PROVE  EndInv'
    BY <1>2 DEF EndTypes, EndsKnown, AtRest, Busy, Goes
  <1>3. ASSUME NEW k \in Polls, UNCHANGED <<session, job, timeUp>>, Returns(k) PROVE EndInv'
    BY <1>3 DEF EndTypes, EndsKnown, AtRest, Busy, Returns, Goes
  <1>4. ASSUME NEW a \in Agents, SessionEnds(a) PROVE EndInv'
    <2>1. /\ UNCHANGED <<poll, ending, job, timeUp>>
          /\ \E end \in {"completed", "failed"} : session' = [session EXCEPT ![a] = end]
      BY <1>4 DEF SessionEnds, pollVars, envVars
    <2>2. EndTypes' /\ (AtRest => AtRest')
      BY <2>1 DEF EndTypes, AtRest, Busy, Agents
    <2> QED
      BY <2>1, <2>2 DEF EndsKnown
  <1>5. CASE Spend \/ Time \/ UNCHANGED coVars
    <2>1. UNCHANGED <<poll, ending, session, job>> /\ (timeUp' = timeUp \/ timeUp' = TRUE)
      BY <1>5 DEF Spend, Time, coVars, pollVars, envVars
    <2>2. timeUp' \in BOOLEAN /\ (timeUp => timeUp')
      BY <2>1 DEF EndTypes
    <2> QED
      BY <1>1, <2>1, <2>2
  <1>6. ASSUME NEW k \in Polls, Poll(k) PROVE EndInv'
    <2>1. /\ UNCHANGED <<session, job, timeUp>> /\ Goes(k, "viewing")
          /\ ending' = [ending EXCEPT ![k] = timeUp]
      BY <1>6 DEF Poll, envVars
    <2>2. EndTypes'
      BY <2>1 DEF EndTypes, Goes
    <2>3. \A i \in Polls : ending'[i] => ending[i] \/ timeUp
      BY <2>1 DEF EndTypes
    <2>4. \A i \in Polls : poll'[i] \in {"announcing", "closing"} => ending'[i]
      BY <2>1 DEF EndTypes, EndsKnown, Goes
    <2>5. AtRest => AtRest'
      BY <2>1 DEF AtRest, Busy
    <2> QED
      BY <2>1, <2>2, <2>3, <2>4, <2>5, EndKept
  <1>7. ASSUME NEW k \in Polls, View(k) PROVE EndInv'
    <2>1. PICK end \in BOOLEAN : end <=> Ends(k)
      OBVIOUS
    <2>2. /\ UNCHANGED <<session, job, timeUp>> /\ Goes(k, "routing")
          /\ ending' = [ending EXCEPT ![k] = end]
      <3>1. Ends(k) \in BOOLEAN
        BY DEF Ends, RunComplete, EndTypes
      <3>2. end = Ends(k)
        BY <2>1, <3>1
      <3> QED
        BY <1>7, <3>2 DEF View, envVars
    <2>3. end => timeUp \/ AtRest
      BY <2>1, CompleteIsAtRest DEF Ends, EndsKnown
    <2>4. EndTypes' /\ \A i \in Polls : poll'[i] \in {"announcing", "closing"} => ending'[i]
      BY <2>2 DEF EndTypes, EndsKnown, Goes
    <2>5. \A i \in Polls : ending'[i] => ending[i] \/ timeUp \/ AtRest
      BY <2>2, <2>3 DEF EndTypes
    <2>6. AtRest => AtRest'
      BY <2>2 DEF AtRest, Busy
    <2> QED
      BY <2>2, <2>4, <2>5, <2>6, EndKept
  <1>8. ASSUME NEW k \in Polls, Route(k) \/ RouteFails(k) PROVE EndInv'
    BY <1>2, <1>8 DEF Route, RouteFails, StartReallocation, envVars
  <1>9. ASSUME NEW k \in Polls, LookAt(k) \/ Decide(k) \/ ReplaceFails(k) \/ Degrade(k)
        PROVE  EndInv'
    BY <1>2, <1>9 DEF LookAt, Decide, ReplaceFails, Degrade, Handle, envVars
  <1>10. ASSUME NEW k \in Polls, Replace(k) PROVE EndInv'
    <2>1. /\ UNCHANGED <<ending, timeUp>> /\ poll' = [poll EXCEPT ![k] = "reallocating"]
          /\ \E b \in Spares : \E t :
                /\ session' = [session EXCEPT ![b] = "spawning"]
                /\ job' = [job EXCEPT ![b] = t]
      BY <1>10 DEF Replace, Handle, Goes, envVars
    <2>2. \A a \in Sessions : session'[a] = session[a] /\ job'[a] = job[a]
      BY <2>1, CoAssumption DEF EndTypes, Agents
    <2>3. EndTypes' /\ (AtRest => AtRest')
      BY <2>1, <2>2 DEF EndTypes, AtRest, Busy, Agents
    <2> QED
      BY <2>1, <2>3 DEF EndsKnown, EndTypes
  <1>11. ASSUME NEW k \in Polls, Save(k) PROVE EndInv'
    <2>1. CASE ending[k]
      <3>1. UNCHANGED <<ending, session, job, timeUp>> /\ Goes(k, "announcing")
        BY <1>11, <2>1 DEF Save, envVars
      <3> QED
        BY <2>1, <3>1 DEF EndTypes, EndsKnown, AtRest, Busy, Goes
    <2>2. CASE ~ ending[k]
      BY <1>3, <1>11, <2>2 DEF Save, envVars
    <2> QED
      BY <2>1, <2>2
  <1>12. ASSUME NEW k \in Polls, Announce(k) PROVE EndInv'
    <2>1. /\ UNCHANGED <<ending, session, job, timeUp>> /\ Goes(k, "closing")
          /\ poll[k] = "announcing"
      BY <1>12 DEF Announce, envVars
    <2> QED
      BY <2>1 DEF EndTypes, EndsKnown, AtRest, Busy, Goes
  <1>13. ASSUME NEW k \in Polls, Close(k) \/ PollThrows(k) PROVE EndInv'
    BY <1>3, <1>13 DEF Close, PollThrows, envVars
  <1>14. ASSUME NEW k \in Polls, WriteSynthesis(k) \/ SynthesisThrows(k) PROVE EndInv'
    <2>1. UNCHANGED <<poll, ending, session, job, timeUp>>
      BY <1>14 DEF WriteSynthesis, SynthesisThrows, pollVars, envVars
    <2>2. timeUp' \in BOOLEAN
      BY <2>1 DEF EndTypes
    <2> QED
      BY <1>1, <2>1, <2>2
  <1> QED
    BY <1>4, <1>5, <1>6, <1>7, <1>8, <1>9, <1>10, <1>11, <1>12, <1>13, <1>14
    DEF CoNext, PollNext, PollTroubles

\* Before the time limit, the loop never closes over an agent the run began with, although
\* the poll that closes it has looked at the sessions long before.
THEOREM ClosesAtRest == CoSpec => OnlyReplacementsLeft
  <1>1. CoInit => EndInv
    <2> SUFFICES ASSUME CoInit PROVE EndInv
      OBVIOUS
    <2>1. EndTypes
      BY CoAssumption DEF CoInit, EndTypes, Agents
    <2> QED
      BY <2>1 DEF CoInit, EndInv, EndsKnown
  <1> DEFINE Closes == interval /\ ~interval' /\ ~timeUp => \A a \in Agents : Busy(a) => a \in Spares
  <1>2. EndInv /\ [CoNext]_coVars => [Closes]_coVars
    <2> SUFFICES ASSUME EndInv, CoNext, interval, ~interval', ~timeUp,
                        NEW a \in Agents, Busy(a)
                 PROVE  a \in Spares
      OBVIOUS
    <2>1. PICK k \in Polls : Close(k)
      <3>1. ASSUME NEW k \in Polls, PollNext(k), ~ Close(k) PROVE interval' = interval
        BY <3>1 DEF PollNext, Poll, View, Route, StartReallocation, LookAt, Decide, Replace,
           Degrade, Save, Announce, WriteSynthesis, ringVars
      <3>2. ASSUME NEW k \in Polls, PollTroubles(k) PROVE interval' = interval
        BY <3>2 DEF PollTroubles, RouteFails, StartReallocation, ReplaceFails, PollThrows,
           SynthesisThrows, ringVars
      <3>3. ASSUME NEW b \in Agents, SessionEnds(b) PROVE interval' = interval
        BY <3>3 DEF SessionEnds, ringVars
      <3>4. Spend \/ Time => interval' = interval
        BY DEF Spend, Time, ringVars
      <3> QED
        BY <3>1, <3>2, <3>3, <3>4 DEF CoNext
    <2>2. AtRest
      BY <2>1 DEF Close, EndInv, EndsKnown
    <2> QED
      BY <2>2 DEF AtRest, Agents
  <1> QED
    BY <1>1, <1>2, EndStep, PTL DEF CoSpec, OnlyReplacementsLeft

-------------------------------------------------------------------------------
(* Population: the library. *)

\* What the recursive definition of Kept says.
Keeps(kept, s, good) ==
    /\ kept[0] = <<>> /\ Kept(s, good) = kept[Len(s)]
    /\ \A k \in 1..Len(s) : kept[k] = IF s[k] \in good THEN Append(kept[k - 1], s[k])
                                      ELSE kept[k - 1]
LEMMA KeptDef ==
    ASSUME NEW S, NEW s \in Seq(S), NEW good
    PROVE  \E kept \in [0..Len(s) -> Seq(S)] : Keeps(kept, s, good)
  <1> DEFINE n == Len(s)
             F == [k \in 1..n |-> [x \in Seq(S) |-> IF s[k] \in good THEN Append(x, s[k]) ELSE x]]
             step(f) == [k \in 0..n |-> IF k = 0 THEN <<>>
                          ELSE IF s[k] \in good THEN Append(f[k - 1], s[k]) ELSE f[k - 1]]
             kept == CHOOSE f : f = step(f)
  <1>1. n \in Nat /\ <<>> \in Seq(S) /\ F \in [1..n -> [Seq(S) -> Seq(S)]]
    <2>1. \A k \in 1..n, x \in Seq(S) : s[k] \in S /\ Append(x, s[k]) \in Seq(S)
      OBVIOUS
    <2>2. F \in [1..n -> [Seq(S) -> Seq(S)]]
      BY <2>1
    <2> QED
      BY <2>2
  <1>2. \E f \in [0..n -> Seq(S)] : IsFold(f, n, <<>>, F)
    <2> HIDE DEF n, F
    <2> QED
      BY <1>1, FiniteRecursion
  <1>3. PICK f \in [0..n -> Seq(S)] : f = step(f)
    <2>1. PICK f \in [0..n -> Seq(S)] : IsFold(f, n, <<>>, F)
      BY <1>2
    <2>2. ASSUME NEW k \in 0..n, k # 0
          PROVE  f[k] = IF s[k] \in good THEN Append(f[k - 1], s[k]) ELSE f[k - 1]
      <3>1. k - 1 \in 0..n /\ k \in 1..n
        BY <1>1, <2>2
      <3> QED
        BY <2>1, <2>2, <3>1 DEF IsFold
    <2>3. f = step(f)
      BY <2>1, <2>2 DEF IsFold
    <2> QED
      BY <2>3
  <1>4. kept = step(kept)
    BY <1>3
  <1>5. Kept(s, good) = kept[n]
    BY DEF Kept
  <1> HIDE DEF kept
  <1> DEFINE T == {k \in 0..n : kept[k] = f[k]}
  <1>6. n \in T
    <2>1. 0 \in T
      BY <1>1, <1>3, <1>4
    <2>2. ASSUME NEW k \in 0..n, k \in T, k # n PROVE k + 1 \in T
      <3>1. k + 1 \in 0..n /\ k + 1 # 0 /\ (k + 1) - 1 = k
        BY <1>1, <2>2
      <3>2. f[k + 1] = IF s[k + 1] \in good THEN Append(f[k], s[k + 1]) ELSE f[k]
        <4> HIDE DEF n
        <4> QED
          BY <3>1, <1>3
      <3>3. kept[k + 1] = IF s[k + 1] \in good THEN Append(kept[k], s[k + 1]) ELSE kept[k]
        <4> HIDE DEF n
        <4> QED
          BY <3>1, <1>4
      <3> QED
        BY <3>1, <3>2, <3>3, <2>2
    <2>3. \A k \in 0..n : k \in T /\ k # n => k + 1 \in T
      BY <2>2
    <2>4. n \in Nat
      BY <1>1
    <2> HIDE DEF T, n
    <2> QED
      BY <2>1, <2>3, <2>4, BoundedInduction
  <1>7. f[0] = <<>> /\ Kept(s, good) = f[n]
    BY <1>1, <1>3, <1>5, <1>6
  <1>8. \A k \in 1..n : f[k] = IF s[k] \in good THEN Append(f[k - 1], s[k]) ELSE f[k - 1]
    <2>1. ASSUME NEW k \in 1..n
          PROVE  f[k] = IF s[k] \in good THEN Append(f[k - 1], s[k]) ELSE f[k - 1]
      <3>1. k \in 0..n /\ k # 0
        BY <1>1
      <3> HIDE DEF n
      <3> QED
        BY <3>1, <1>3
    <2> QED
      BY <2>1
  <1> HIDE DEF step
  <1>9. Keeps(f, s, good)
    BY <1>7, <1>8 DEF Keeps
  <1> QED
    BY <1>9

\* A part of a sequence without duplicates has none, and is of the set it was kept for.
LEMMA KeptFacts ==
    ASSUME NEW S, NEW s \in Seq(S), NEW good
    PROVE  /\ Kept(s, good) \in Seq(S)
           /\ Len(Kept(s, good)) <= Len(s)
           /\ \A i \in 1..Len(Kept(s, good)) : Kept(s, good)[i] \in good
           /\ From(Kept(s, good), s)
           /\ Distinct(s) => Distinct(Kept(s, good))
  <1>1. PICK kept \in [0..Len(s) -> Seq(S)] : Keeps(kept, s, good)
    BY KeptDef
  <1> DEFINE n == Len(s)
             Good(k) == /\ Len(kept[k]) <= k
                        /\ \A i \in 1..Len(kept[k]) : kept[k][i] \in good
                        /\ \A i \in 1..Len(kept[k]) : \E j \in 1..k : kept[k][i] = s[j]
                        /\ Distinct(s) => Distinct(kept[k])
             T == {k \in 0..n : Good(k)}
  <1>2. n \in Nat
    OBVIOUS
  <1>3. 0 \in T
    <2>1. Len(kept[0]) = 0 /\ 0 \in 0..n
      BY <1>1, <1>2 DEF Keeps
    <2> QED
      BY <2>1 DEF Distinct
  <1>4. ASSUME NEW k \in 0..n, k \in T, k # n PROVE k + 1 \in T
    <2>1. k + 1 \in 1..n /\ k + 1 \in 0..n /\ (k + 1) - 1 = k /\ k \in 0..n
      BY <1>2, <1>4
    <2>2. kept[k] \in Seq(S) /\ Good(k) /\ s[k + 1] \in S
      BY <1>1, <1>4, <2>1
    <2>3. kept[k + 1] = IF s[k + 1] \in good THEN Append(kept[k], s[k + 1]) ELSE kept[k]
      <3> HIDE DEF n
      <3> QED
        BY <1>1, <2>1 DEF n, Keeps
    <2>4. CASE s[k + 1] \notin good
      BY <2>1, <2>2, <2>3, <2>4
    <2>5. CASE s[k + 1] \in good
      <3> DEFINE a == kept[k]
                 b == kept[k + 1]
                 m == Len(a)
      <3>1. /\ a \in Seq(S) /\ b = Append(a, s[k + 1]) /\ m \in Nat /\ Len(b) = m + 1
            /\ b[m + 1] = s[k + 1] /\ \A i \in 1..m : b[i] = a[i]
        BY <2>2, <2>3, <2>5, AppendProperties
      <3>2. Good(k)
        BY <2>2
      <3>3. Distinct(s) => Distinct(b)
        <4> SUFFICES ASSUME Distinct(s) PROVE Distinct(b)
          OBVIOUS
        <4>1. \A i \in 1..m : a[i] # s[k + 1]
          <5> SUFFICES ASSUME NEW i \in 1..m, a[i] = s[k + 1] PROVE FALSE
            OBVIOUS
          <5>1. PICK j \in 1..k : a[i] = s[j]
            BY <3>2
          <5>2. j \in 1..n /\ j # k + 1
            BY <1>2, <2>1, <5>1
          <5> QED
            BY <2>1, <5>1, <5>2 DEF Distinct
        <4> QED
          BY <3>1, <3>2, <4>1, <2>2, AppendDistinct
      <3>4. \A i \in 1..Len(b) : i \in 1..m \/ i = m + 1
        BY <3>1
      <3>5. \A i \in 1..Len(b) : b[i] \in good
        BY <3>1, <3>2, <3>4, <2>5
      <3>6. ASSUME NEW i \in 1..Len(b) PROVE \E j \in 1..(k + 1) : b[i] = s[j]
        <4>1. CASE i = m + 1
          BY <4>1, <3>1, <2>1
        <4>2. CASE i \in 1..m
          <5>1. PICK j \in 1..k : a[i] = s[j]
            BY <4>2, <3>2
          <5>2. j \in 1..(k + 1)
            BY <2>1
          <5> QED
            BY <4>2, <5>1, <5>2, <3>1
        <4> QED
          BY <3>4, <4>1, <4>2
      <3>7. Len(b) <= k + 1
        BY <2>1, <3>1, <3>2
      <3> QED
        BY <2>1, <3>3, <3>5, <3>6, <3>7
    <2> QED
      BY <2>4, <2>5
  <1>5. n \in T
    <2>1. \A k \in 0..n : k \in T /\ k # n => k + 1 \in T
      BY <1>4
    <2> HIDE DEF T, n
    <2> QED
      BY <1>2, <1>3, <2>1, BoundedInduction
  <1>6. kept[n] \in Seq(S) /\ Good(n) /\ Kept(s, good) = kept[n]
    BY <1>1, <1>2, <1>5 DEF Keeps
  <1> HIDE DEF Good
  <1> DEFINE K == Kept(s, good)
  <1>7. K \in Seq(S) /\ K = kept[n]
    BY <1>6
  <1>8. /\ Len(K) <= n /\ \A i \in 1..Len(K) : K[i] \in good
        /\ From(K, s)
        /\ Distinct(s) => Distinct(K)
    <2> HIDE DEF K
    <2>1. Good(n)
      BY <1>6
    <2> QED
      BY <1>7, <2>1 DEF From, Good
  <1> QED
    BY <1>7, <1>8

Tasks == 1..Len(Complexity)
Clean(s) == \A i \in 1..Len(s) : ~soul[s[i]].signalled

LEMMA LibraryIsASet ==
    /\ Library \in Seq(LibrarySouls) /\ Distinct(Library)
    /\ \A n \in Tasks : LibrarySouls \cap ToSet(Pioneer(n)) = {}
  BY LibraryAssumption DEF Distinct, Tasks

LEMMA RecommendedRange ==
    ASSUME NEW n \in Tasks PROVE Recommended(n) \in MIN_AGENTS..5
  <1>1. Complexity[n] \in {"low", "medium", "high"}
    BY MissionAssumption DEF Tasks
  <1> QED
    BY <1>1 DEF Recommended, MIN_AGENTS

\* What the search finds: souls without a negative signal, each once.
LEMMA SearchFacts ==
    ASSUME NEW n \in Tasks, NEW near
    PROVE  /\ Search(n, near) \in Seq(LibrarySouls)
           /\ Distinct(Search(n, near)) /\ Clean(Search(n, near))
  <1> DEFINE fits  == {s \in near : /\ ~soul[s].signalled
                                    /\ Complexity[n] = "high" => ClassOf(s) # "Novice"}
             found == Kept(Library, fits)
             m == IF Len(found) < 2 * Recommended(n) THEN Len(found) ELSE 2 * Recommended(n)
  <1>1. /\ found \in Seq(LibrarySouls) /\ Distinct(found)
        /\ \A i \in 1..Len(found) : found[i] \in fits
    <2> HIDE DEF fits
    <2> QED
      BY LibraryIsASet, KeptFacts
  <1>2. \A i \in 1..Len(found) : ~soul[found[i]].signalled
    <2> HIDE DEF found
    <2> QED
      BY <1>1
  <1>3. Search(n, near) = SubSeq(found, 1, m)
    BY DEF Search
  <1> HIDE DEF found
  <1>4. m \in 0..Len(found)
    BY <1>1, RecommendedRange DEF MIN_AGENTS
  <1> HIDE DEF m
  <1>5. /\ SubSeq(found, 1, m) \in Seq(LibrarySouls) /\ Len(SubSeq(found, 1, m)) = m
        /\ \A i \in 1..m : SubSeq(found, 1, m)[i] = found[i]
        /\ Distinct(SubSeq(found, 1, m))
    BY <1>1, <1>4, PrefixFacts
  <1>6. Clean(SubSeq(found, 1, m))
    <2>1. \A i \in 1..m : i \in 1..Len(found)
      BY <1>1, <1>4
    <2> QED
      BY <1>2, <1>5, <2>1 DEF Clean
  <1> QED
    BY <1>3, <1>5, <1>6

\* The order by class loses none of that.
LEMMA ByClassFacts ==
    ASSUME NEW pool \in Seq(LibrarySouls), Distinct(pool), Clean(pool)
    PROVE  /\ ByClass(pool) \in Seq(LibrarySouls)
           /\ Distinct(ByClass(pool)) /\ Clean(ByClass(pool))
  <1> DEFINE a == Kept(pool, OfClass("Artisan"))
             b == Kept(pool, OfClass("Understudy"))
             c == Kept(pool, OfClass("Novice"))
  <1>1. /\ a \in Seq(LibrarySouls) /\ Distinct(a) /\ From(a, pool)
        /\ \A i \in 1..Len(a) : ClassOf(a[i]) = "Artisan"
    BY KeptFacts DEF OfClass
  <1>2. /\ b \in Seq(LibrarySouls) /\ Distinct(b) /\ From(b, pool)
        /\ \A i \in 1..Len(b) : ClassOf(b[i]) = "Understudy"
    BY KeptFacts DEF OfClass
  <1>3. /\ c \in Seq(LibrarySouls) /\ Distinct(c) /\ From(c, pool)
        /\ \A i \in 1..Len(c) : ClassOf(c[i]) = "Novice"
    BY KeptFacts DEF OfClass
  <1>4. ByClass(pool) = (a \o b) \o c
    BY DEF ByClass
  <1> HIDE DEF a, b, c
  <1> DEFINE d == a \o b
  <1>5. d \in Seq(LibrarySouls) /\ Distinct(d) /\ From(d, pool)
    <2>1. \A i \in 1..Len(a), j \in 1..Len(b) : a[i] # b[j]
      BY <1>1, <1>2
    <2> QED
      BY <1>1, <1>2, <2>1, ConcatFacts, ConcatDistinct, ConcatFrom
  <1>6. \A i \in 1..Len(d) : ClassOf(d[i]) # "Novice"
    <2>1. /\ \A i \in 1..Len(a) : d[i] = a[i]
          /\ \A i \in 1..Len(d) :
                i \in 1..Len(a) \/ (i - Len(a) \in 1..Len(b) /\ d[i] = b[i - Len(a)])
      BY <1>1, <1>2, ConcatFacts
    <2> HIDE DEF d
    <2> QED
      BY <1>1, <1>2, <2>1
  <1> HIDE DEF d
  <1>7. d \o c \in Seq(LibrarySouls) /\ Distinct(d \o c) /\ From(d \o c, pool)
    <2>1. \A i \in 1..Len(d), j \in 1..Len(c) : d[i] # c[j]
      BY <1>3, <1>6
    <2> QED
      BY <1>3, <1>5, <2>1, ConcatFacts, ConcatDistinct, ConcatFrom
  <1>8. Clean(d \o c)
    BY <1>7 DEF Clean, From
  <1> QED
    BY <1>4, <1>7, <1>8 DEF d

-------------------------------------------------------------------------------
(* Population: the selection. *)

Selects(chosen, n, ranked) ==
    /\ chosen[0] = <<>>
    /\ \A k \in 1..Len(ranked) : chosen[k] = Take(n, chosen[k - 1], ranked[k])

\* What the recursive definition of Select says.
LEMMA SelectDef ==
    ASSUME NEW n \in Tasks, NEW pool, ByClass(pool) \in Seq(LibrarySouls)
    PROVE  \E chosen \in [0..Len(ByClass(pool)) -> Seq(LibrarySouls)] :
              /\ Selects(chosen, n, ByClass(pool))
              /\ Select(n, pool) = chosen[Len(ByClass(pool))]
  <1> DEFINE r == ByClass(pool)
             m == Len(r)
             S == LibrarySouls
             F == [k \in 1..m |-> [x \in Seq(S) |-> Take(n, x, r[k])]]
             step(f) == [k \in 0..m |-> IF k = 0 THEN <<>> ELSE Take(n, f[k - 1], r[k])]
             chosen == CHOOSE f : f = step(f)
  <1>1. m \in Nat /\ <<>> \in Seq(S) /\ F \in [1..m -> [Seq(S) -> Seq(S)]]
    <2> HIDE DEF S
    <2>1. \A k \in 1..m, x \in Seq(S) : r[k] \in S /\ Take(n, x, r[k]) \in Seq(S)
      <3>1. r \in Seq(S)
        BY DEF S
      <3> HIDE DEF r
      <3> QED
        BY <3>1 DEF Take
    <2>2. F \in [1..m -> [Seq(S) -> Seq(S)]]
      BY <2>1
    <2>3. m \in Nat
      BY DEF S
    <2> QED
      BY <2>2, <2>3
  <1> HIDE DEF r, S
  <1>2. \E f \in [0..m -> Seq(S)] : IsFold(f, m, <<>>, F)
    <2> HIDE DEF m, F
    <2> QED
      BY <1>1, FiniteRecursion
  <1>3. PICK f \in [0..m -> Seq(S)] : f = step(f) /\ Selects(f, n, r)
    <2>1. PICK f \in [0..m -> Seq(S)] : IsFold(f, m, <<>>, F)
      BY <1>2
    <2>2. ASSUME NEW k \in 0..m, k # 0
          PROVE  f[k] = Take(n, f[k - 1], r[k])
      <3>1. k - 1 \in 0..m /\ k \in 1..m
        BY <1>1, <2>2
      <3> HIDE DEF m
      <3> QED
        BY <2>1, <2>2, <3>1 DEF IsFold
    <2>3. f = step(f)
      <3> HIDE DEF m
      <3> QED
        BY <2>1, <2>2 DEF IsFold
    <2>4. \A k \in 1..m : k \in 0..m /\ k # 0
      BY <1>1
    <2>5. f[0] = <<>>
      <3>1. 0 \in 0..m
        BY <1>1
      <3> HIDE DEF m
      <3> QED
        BY <2>1, <3>1 DEF IsFold
    <2>6. Selects(f, n, r)
      BY <2>2, <2>4, <2>5 DEF Selects
    <2> QED
      BY <2>3, <2>6
  <1>4. chosen = step(chosen)
    BY <1>3
  <1>5. Select(n, pool) = chosen[m]
    BY DEF Select, r
  <1> HIDE DEF chosen
  <1> DEFINE T == {k \in 0..m : chosen[k] = f[k]}
  <1>6. m \in T
    <2> HIDE DEF m
    <2>1. 0 \in T
      BY <1>1, <1>3, <1>4
    <2>2. ASSUME NEW k \in 0..m, k \in T, k # m PROVE k + 1 \in T
      <3>1. k + 1 \in 0..m /\ k + 1 # 0 /\ (k + 1) - 1 = k
        BY <1>1, <2>2
      <3>2. f[k + 1] = Take(n, f[k], r[k + 1])
        BY <3>1, <1>3
      <3>3. chosen[k + 1] = Take(n, chosen[k], r[k + 1])
        BY <3>1, <1>4
      <3> QED
        BY <3>1, <3>2, <3>3, <2>2
    <2>3. \A k \in 0..m : k \in T /\ k # m => k + 1 \in T
      BY <2>2
    <2>4. m \in Nat
      BY <1>1
    <2> HIDE DEF T
    <2> QED
      BY <2>1, <2>3, <2>4, BoundedInduction
  <1>7. Select(n, pool) = f[m]
    BY <1>5, <1>6
  <1> HIDE DEF step
  <1> QED
    BY <1>3, <1>7 DEF r, S

\* Souls that may be chosen together for a task.
Differ(s) == \A i, j \in 1..Len(s) : i # j => ~TooSimilar(s[i], s[j])
Team(n, s) == Len(s) <= Recommended(n) /\ Distinct(s) /\ Clean(s) /\ Differ(s)

\* The selection: by induction over the ranked souls, what is chosen so far is a team.
LEMMA SelectFacts ==
    ASSUME NEW n \in Tasks, NEW pool \in Seq(LibrarySouls), Distinct(pool), Clean(pool)
    PROVE  Select(n, pool) \in Seq(LibrarySouls) /\ Team(n, Select(n, pool))
  <1> DEFINE r == ByClass(pool)
             m == Len(r)
             S == LibrarySouls
  <1>1. r \in Seq(S) /\ Distinct(r) /\ Clean(r)
    BY ByClassFacts
  <1>2. PICK f \in [0..m -> Seq(S)] : Selects(f, n, r) /\ Select(n, pool) = f[m]
    BY <1>1, SelectDef
  <1> HIDE DEF r, S
  <1> DEFINE Good(k) == /\ Team(n, f[k])
                        /\ \A i \in 1..Len(f[k]) : \E j \in 1..k : f[k][i] = r[j]
             T == {k \in 0..m : Good(k)}
  <1>3. m \in Nat /\ Recommended(n) \in Nat
    BY <1>1, RecommendedRange DEF MIN_AGENTS
  <1>4. 0 \in T
    <2>1. f[0] = <<>> /\ Len(f[0]) = 0 /\ 0 \in 0..m
      BY <1>2, <1>3 DEF Selects
    <2> QED
      BY <2>1, <1>3 DEF Team, Distinct, Clean, Differ
  <1>5. ASSUME NEW k \in 0..m, k \in T, k # m PROVE k + 1 \in T
    <2> DEFINE a == f[k]
               x == r[k + 1]
               b == f[k + 1]
               c == Len(a)
    <2>1. k + 1 \in 1..m /\ k + 1 \in 0..m /\ (k + 1) - 1 = k /\ k \in Nat
      BY <1>3, <1>5
    <2>2. a \in Seq(S) /\ Good(k) /\ x \in S
      BY <1>1, <1>2, <1>5, <2>1
    <2>3. b = Take(n, a, x)
      <3> HIDE DEF m
      <3> QED
        BY <1>2, <2>1 DEF Selects, m
    <2>4. CASE b = a
      <3>1. \A j \in 1..k : j \in 1..(k + 1)
        BY <2>1
      <3>2. Good(k + 1)
        BY <2>2, <2>4, <3>1
      <3> QED
        BY <2>1, <3>2
    <2>5. CASE b # a
      <3>1. b = Append(a, x) /\ c < Recommended(n) /\ \A t \in ToSet(a) : ~TooSimilar(x, t)
        BY <1>3, <2>2, <2>3, <2>5 DEF Take
      <3>2. /\ c \in Nat /\ Len(b) = c + 1 /\ b[c + 1] = x /\ \A i \in 1..c : b[i] = a[i]
        BY <2>2, <3>1, AppendProperties
      <3>3. \A i \in 1..c : a[i] \in ToSet(a)
        BY <2>2 DEF ToSet
      <3>4. \A i \in 1..c : a[i] # x
        <4> SUFFICES ASSUME NEW i \in 1..c, a[i] = x PROVE FALSE
          OBVIOUS
        <4>1. PICK j \in 1..k : a[i] = r[j]
          BY <2>2
        <4>2. j \in 1..m /\ j # k + 1
          BY <1>3, <2>1, <4>1
        <4> QED
          BY <1>1, <2>1, <4>1, <4>2 DEF Distinct
      <3>5. Distinct(b)
        BY <2>2, <3>1, <3>4, AppendDistinct DEF Team
      <3>6. \A i \in 1..Len(b) : i \in 1..c \/ i = c + 1
        BY <3>2
      <3>7. Len(b) <= Recommended(n)
        BY <1>3, <3>1, <3>2
      <3>8. ~soul[x].signalled
        BY <1>1, <2>1 DEF Clean
      <3> HIDE DEF a, b, x
      <3>9. Clean(b)
        <4>1. Clean(a)
          BY <2>2 DEF Team, a
        <4> QED
          BY <4>1, <3>2, <3>6, <3>8 DEF Clean
      <3>10. Differ(b)
        <4>1. Differ(a)
          BY <2>2 DEF Team, a
        <4>2. \A i \in 1..c : ~TooSimilar(x, a[i]) /\ ~TooSimilar(a[i], x)
          BY <3>1, <3>3 DEF TooSimilar
        <4> QED
          BY <4>1, <4>2, <3>2, <3>6 DEF Differ
      <3>11. ASSUME NEW i \in 1..Len(b) PROVE \E j \in 1..(k + 1) : b[i] = r[j]
        <4>1. CASE i = c + 1
          BY <4>1, <3>2, <2>1 DEF x
        <4>2. CASE i \in 1..c
          <5>1. PICK j \in 1..k : a[i] = r[j]
            BY <4>2, <2>2 DEF a
          <5>2. j \in 1..(k + 1)
            BY <2>1
          <5> QED
            BY <4>2, <5>1, <5>2, <3>2
        <4> QED
          BY <3>6, <4>1, <4>2
      <3>12. Good(k + 1)
        BY <3>5, <3>7, <3>9, <3>10, <3>11 DEF Team, b
      <3> QED
        BY <2>1, <3>12
    <2> QED
      BY <2>4, <2>5
  <1>6. m \in T
    <2>1. \A k \in 0..m : k \in T /\ k # m => k + 1 \in T
      BY <1>5
    <2> HIDE DEF T, m
    <2> QED
      BY <1>3, <1>4, <2>1, BoundedInduction
  <1>7. f[m] \in Seq(S) /\ Team(n, f[m])
    BY <1>2, <1>6
  <1> QED
    BY <1>2, <1>7 DEF S

LEMMA PioneerFacts ==
    ASSUME NEW n \in Tasks
    PROVE  /\ Pioneer(n) \in Seq(ToSet(Pioneer(n))) /\ Len(Pioneer(n)) = 5 /\ Distinct(Pioneer(n))
           /\ \A i \in 1..5 : Pioneer(n)[i] \notin LibrarySouls
  <1> DEFINE p == Pioneer(n)
  <1>1. p = [i \in 1..5 |-> <<"pioneer", n, i>>]
    BY DEF Pioneer, PIONEERS
  <1>2. p \in [1..5 -> ToSet(p)]
    BY <1>1 DEF ToSet
  <1>3. p \in Seq(ToSet(p)) /\ Len(p) = 5
    BY <1>2, <1>1
  <1>4. Distinct(p)
    <2> SUFFICES ASSUME NEW i \in 1..5, NEW j \in 1..5, p[i] = p[j] PROVE i = j
      BY <1>3 DEF Distinct
    <2>1. p[i] = <<"pioneer", n, i>> /\ p[j] = <<"pioneer", n, j>>
      BY <1>1
    <2>2. <<"pioneer", n, i>> = <<"pioneer", n, j>>
      BY <2>1
    <2> QED
      BY <2>2, Zenon
  <1>5. \A i \in 1..5 : p[i] \in ToSet(p)
    BY <1>2
  <1> QED
    BY <1>3, <1>4, <1>5, LibraryIsASet

\* What holds of the souls of a task: three to five, distinct, and those of the library
\* without a negative signal and different from one another.
Sounds(s) ==
    /\ Len(s) \in MIN_AGENTS..5 /\ Distinct(s)
    /\ \A i \in 1..Len(s) : s[i] \in LibrarySouls => ~soul[s[i]].signalled
    /\ \A i, j \in 1..Len(s) :
          i # j /\ s[i] \in LibrarySouls /\ s[j] \in LibrarySouls => ~TooSimilar(s[i], s[j])

Souls == LibrarySouls \cup UNION {ToSet(Pioneer(n)) : n \in Tasks}

LEMMA TeamIsSound ==
    ASSUME NEW n \in Tasks, NEW s \in Seq(LibrarySouls), Team(n, s), MIN_AGENTS <= Len(s)
    PROVE  Sounds(s)
  <1>1. Len(s) \in MIN_AGENTS..5
    <2> DEFINE l == Len(s)
               b == Recommended(n)
    <2>1. l \in Nat /\ l <= b /\ 3 <= l
      BY DEF Team, MIN_AGENTS
    <2>2. b \in 3..5
      BY RecommendedRange DEF MIN_AGENTS
    <2> HIDE DEF l, b
    <2>3. l \in 3..5
      BY <2>1, <2>2
    <2> QED
      BY <2>3 DEF MIN_AGENTS, l
  <1> QED
    BY <1>1 DEF Sounds, Team, Clean, Differ

\* With or without pioneers, a task is staffed soundly.
LEMMA StaffFacts ==
    ASSUME NEW n \in Tasks, NEW near
    PROVE  Staff(n, near) \in Seq(Souls) /\ Sounds(Staff(n, near))
  <1> DEFINE pool   == Search(n, near)
             chosen == Select(n, pool)
             pioneers == Pioneer(n)
             r == Staff(n, near)
  <1>1. chosen \in Seq(LibrarySouls) /\ Team(n, chosen)
    BY SearchFacts, SelectFacts
  <1>2. /\ pioneers \in Seq(Souls) /\ Len(pioneers) = 5 /\ Distinct(pioneers)
        /\ \A i \in 1..5 : pioneers[i] \notin LibrarySouls
    <2>1. ToSet(pioneers) \subseteq Souls
      BY DEF Souls
    <2> HIDE DEF pioneers
    <2>2. pioneers \in Seq(ToSet(pioneers)) => pioneers \in Seq(Souls)
      BY <2>1
    <2> QED
      BY <2>2, PioneerFacts DEF pioneers
  <1>3. chosen \in Seq(Souls)
    <2>1. LibrarySouls \subseteq Souls
      BY DEF Souls
    <2> HIDE DEF chosen
    <2> QED
      BY <1>1, <2>1
  <1>4. r = IF Len(pool) < MIN_AGENTS THEN pioneers
            ELSE IF Len(chosen) < MIN_AGENTS
                 THEN chosen \o SubSeq(pioneers, 1, MIN_AGENTS - Len(chosen))
                 ELSE chosen
    BY DEF Staff
  <1>5. Len(pool) \in Nat
    BY SearchFacts
  <1> HIDE DEF pool, chosen, pioneers, r
  <1>6. CASE r = pioneers
    <2>1. Sounds(pioneers)
      BY <1>2 DEF Sounds, MIN_AGENTS
    <2> QED
      BY <1>2, <1>6, <2>1 DEF r
  <1>7. CASE r = chosen /\ ~(Len(chosen) < MIN_AGENTS)
    <2>1. MIN_AGENTS <= Len(chosen)
      BY <1>1, <1>7 DEF MIN_AGENTS
    <2> QED
      <3>1. Sounds(chosen)
        BY <1>1, <2>1, TeamIsSound
      <3> QED
        BY <1>3, <1>7, <3>1 DEF r
  <1>8. CASE /\ r = chosen \o SubSeq(pioneers, 1, MIN_AGENTS - Len(chosen))
             /\ Len(chosen) < MIN_AGENTS
    <2> DEFINE m == MIN_AGENTS - Len(chosen)
               q == SubSeq(pioneers, 1, m)
               l == Len(chosen)
    <2>1. l \in Nat /\ m \in 0..5 /\ l + m = 3
      BY <1>1, <1>8 DEF MIN_AGENTS
    <2> HIDE DEF m
    <2>2. /\ q \in Seq(Souls) /\ Len(q) = m /\ \A i \in 1..m : q[i] = pioneers[i]
          /\ Distinct(q)
      <3>1. m \in 0..Len(pioneers)
        BY <1>2, <2>1
      <3> QED
        BY <1>2, <3>1, PrefixFacts
    <2>3. r = chosen \o q
      BY <1>8 DEF m
    <2>4. \A i \in 1..Len(q) : q[i] \notin LibrarySouls
      <3>1. \A i \in 1..m : i \in 1..5
        BY <2>1
      <3> QED
        BY <1>2, <2>2, <3>1
    <2> HIDE DEF q, l
    <2>5. \A i \in 1..Len(chosen) : chosen[i] \in LibrarySouls
      BY <1>1
    <2>6. Distinct(r)
      BY <1>1, <1>3, <2>2, <2>3, <2>4, <2>5, ConcatDistinct DEF Team
    <2>7. /\ r \in Seq(Souls) /\ Len(r) = Len(chosen) + Len(q)
          /\ \A i \in 1..Len(chosen) : r[i] = chosen[i]
          /\ \A i \in 1..Len(r) : i \in 1..Len(chosen)
                                  \/ (i - Len(chosen) \in 1..Len(q) /\ r[i] = q[i - Len(chosen)])
      <3>1. q \in Seq(Souls)
        BY <2>2
      <3> QED
        BY <1>3, <2>3, <3>1, ConcatFacts
    <2>8. Len(r) = 3
      BY <2>1, <2>2, <2>7 DEF l
    <2>9. \A i \in 1..Len(r) : r[i] \in LibrarySouls => i \in 1..Len(chosen)
      BY <2>4, <2>7
    <2>10. /\ \A i \in 1..Len(r) : r[i] \in LibrarySouls => ~soul[r[i]].signalled
           /\ \A i, j \in 1..Len(r) : i # j /\ r[i] \in LibrarySouls /\ r[j] \in LibrarySouls
                                        => ~TooSimilar(r[i], r[j])
      BY <1>1, <2>7, <2>9 DEF Team, Clean, Differ
    <2> QED
      <3>1. Sounds(r)
        BY <2>6, <2>8, <2>10 DEF Sounds, MIN_AGENTS
      <3> QED
        BY <2>7, <3>1 DEF r
  <1> QED
    BY <1>4, <1>6, <1>7, <1>8 DEF r

-------------------------------------------------------------------------------
(* Population: the budget. *)

Sums(sum, s) == sum[0] = 0 /\ \A k \in 1..Len(s) : sum[k] = sum[k - 1] + s[k]

\* What the recursive definition of Total says.
LEMMA TotalDef ==
    ASSUME NEW s \in Seq(Nat)
    PROVE  \E sum \in [0..Len(s) -> Nat] : Sums(sum, s) /\ Total(s) = sum[Len(s)]
  <1> DEFINE m == Len(s)
             F == [k \in 1..m |-> [x \in Nat |-> x + s[k]]]
             step(f) == [k \in 0..m |-> IF k = 0 THEN 0 ELSE f[k - 1] + s[k]]
             sum == CHOOSE f : f = step(f)
  <1>1. m \in Nat /\ 0 \in Nat /\ F \in [1..m -> [Nat -> Nat]]
    <2>1. \A k \in 1..m, x \in Nat : x + s[k] \in Nat
      OBVIOUS
    <2>2. m \in Nat
      OBVIOUS
    <2> HIDE DEF m
    <2> QED
      BY <2>1, <2>2
  <1> HIDE DEF m
  <1>2. \E f \in [0..m -> Nat] : IsFold(f, m, 0, F)
    <2> HIDE DEF F
    <2> QED
      BY <1>1, FiniteRecursion
  <1>3. PICK f \in [0..m -> Nat] : f = step(f) /\ Sums(f, s)
    <2>1. PICK f \in [0..m -> Nat] : IsFold(f, m, 0, F)
      BY <1>2
    <2>2. ASSUME NEW k \in 0..m, k # 0
          PROVE  f[k] = f[k - 1] + s[k]
      <3>1. k - 1 \in 0..m /\ k \in 1..m
        BY <1>1, <2>2
      <3> QED
        BY <2>1, <2>2, <3>1 DEF IsFold
    <2>3. f = step(f)
      BY <2>1, <2>2 DEF IsFold
    <2>4. \A k \in 1..m : k \in 0..m /\ k # 0
      BY <1>1
    <2>5. f[0] = 0
      <3>1. 0 \in 0..m
        BY <1>1
      <3> QED
        BY <2>1, <3>1 DEF IsFold
    <2>6. Sums(f, s)
      BY <2>2, <2>4, <2>5 DEF Sums, m
    <2> QED
      BY <2>3, <2>6
  <1>4. sum = step(sum)
    BY <1>3
  <1>5. Total(s) = sum[m]
    BY DEF Total, m
  <1> HIDE DEF sum
  <1> DEFINE T == {k \in 0..m : sum[k] = f[k]}
  <1>6. m \in T
    <2>1. 0 \in T
      BY <1>1, <1>3, <1>4
    <2>2. ASSUME NEW k \in 0..m, k \in T, k # m PROVE k + 1 \in T
      <3>1. k + 1 \in 0..m /\ k + 1 # 0 /\ (k + 1) - 1 = k
        BY <1>1, <2>2
      <3>2. f[k + 1] = f[k] + s[k + 1]
        BY <3>1, <1>3
      <3>3. sum[k + 1] = sum[k] + s[k + 1]
        BY <3>1, <1>4
      <3> QED
        BY <3>1, <3>2, <3>3, <2>2
    <2>3. \A k \in 0..m : k \in T /\ k # m => k + 1 \in T
      BY <2>2
    <2> HIDE DEF T
    <2> QED
      BY <2>1, <2>3, <1>1, BoundedInduction
  <1>7. Total(s) = f[m]
    BY <1>5, <1>6
  <1> HIDE DEF step
  <1> QED
    BY <1>3, <1>7 DEF m

\* Summands of at most b add up to at most b for each.
LEMMA TotalBound ==
    ASSUME NEW s \in Seq(Nat), NEW b \in Nat, \A i \in 1..Len(s) : s[i] <= b
    PROVE  Total(s) \in Nat /\ Total(s) <= b * Len(s)
  <1>1. PICK sum \in [0..Len(s) -> Nat] : Sums(sum, s) /\ Total(s) = sum[Len(s)]
    BY TotalDef
  <1> DEFINE n == Len(s)
             T == {k \in 0..n : sum[k] <= b * k}
  <1>2. n \in Nat
    OBVIOUS
  <1>3. 0 \in T
    BY <1>1, <1>2 DEF Sums
  <1>4. ASSUME NEW k \in 0..n, k \in T, k # n PROVE k + 1 \in T
    <2>1. k + 1 \in 1..n /\ k + 1 \in 0..n /\ (k + 1) - 1 = k /\ k \in Nat
      BY <1>2, <1>4
    <2>2. sum[k + 1] = sum[k] + s[k + 1] /\ s[k + 1] \in Nat /\ s[k + 1] <= b
      <3>1. s[k + 1] \in Nat /\ s[k + 1] <= b
        BY <2>1
      <3> HIDE DEF n
      <3> QED
        BY <1>1, <2>1, <3>1 DEF Sums, n
    <2>3. b * (k + 1) = b * k + b /\ b * k \in Nat
      BY <2>1
    <2>4. sum[k] <= b * k /\ sum[k] \in Nat
      BY <1>1, <1>4
    <2> QED
      BY <2>1, <2>2, <2>3, <2>4
  <1>5. n \in T
    <2>1. \A k \in 0..n : k \in T /\ k # n => k + 1 \in T
      BY <1>4
    <2> HIDE DEF T, n
    <2> QED
      BY <1>2, <1>3, <2>1, BoundedInduction
  <1> QED
    BY <1>1, <1>2, <1>5

-------------------------------------------------------------------------------
(* Population: the staffing. *)

Classes  == {"Artisan", "Understudy", "Novice"}
Manifest == Seq([soul : Souls, class : Classes])

\* Sounds, said of the agents of a task.
Staffed(agents) ==
    /\ Len(agents) \in MIN_AGENTS..5
    /\ \A i, j \in 1..Len(agents) : agents[i].soul = agents[j].soul => i = j
    /\ \A i \in 1..Len(agents) :
          agents[i].soul \in LibrarySouls => ~soul[agents[i].soul].signalled
    /\ \A i, j \in 1..Len(agents) :
          i # j /\ agents[i].soul \in LibrarySouls /\ agents[j].soul \in LibrarySouls
            => ~TooSimilar(agents[i].soul, agents[j].soul)

LEMMA AgentsFacts ==
    ASSUME NEW s \in Seq(Souls), Sounds(s)
    PROVE  AgentsOf(s) \in Manifest /\ Staffed(AgentsOf(s))
  <1> DEFINE a == AgentsOf(s)
  <1>1. \A x \in Souls : Agent(x) \in [soul : Souls, class : Classes] /\ Agent(x).soul = x
    BY DEF Agent, Classes, ClassOf
  <1>2. a = [i \in 1..Len(s) |-> Agent(s[i])] /\ Len(s) \in Nat
    BY DEF AgentsOf
  <1>3. \A i \in 1..Len(s) : s[i] \in Souls
    OBVIOUS
  <1>4. a \in Manifest /\ Len(a) = Len(s)
    BY <1>1, <1>2, <1>3 DEF Manifest
  <1>5. \A i \in 1..Len(s) : a[i].soul = s[i]
    BY <1>1, <1>2, <1>3
  <1> HIDE DEF a
  <1>6. Staffed(a)
    BY <1>4, <1>5 DEF Staffed, Sounds, Distinct
  <1> QED
    BY <1>4, <1>6 DEF a

\* Fewer agents, or agents of another class, staff a task as well.
LEMMA StaffedKept ==
    ASSUME NEW a, NEW b, Staffed(a), Len(b) \in MIN_AGENTS..Len(a),
           \A i \in 1..Len(b) : b[i].soul = a[i].soul
    PROVE  Staffed(b)
  <1>1. Len(b) \in MIN_AGENTS..5 /\ 1..Len(b) \subseteq 1..Len(a)
    <2> DEFINE la == Len(a)
               lb == Len(b)
    <2>1. la \in 3..5 /\ lb \in 3..la
      BY DEF Staffed, MIN_AGENTS
    <2> HIDE DEF la, lb
    <2>2. lb \in 3..5 /\ 1..lb \subseteq 1..la
      BY <2>1
    <2> QED
      BY <2>2 DEF la, lb, MIN_AGENTS
  <1> QED
    BY <1>1 DEF Staffed

\* The exchange of classes keeps the souls and leaves no Artisan.
LEMMA ExchangedFacts ==
    ASSUME NEW staffing \in Seq(Manifest)
    PROVE  /\ Exchanged(staffing) \in Seq(Manifest) /\ Len(Exchanged(staffing)) = Len(staffing)
           /\ \A n \in 1..Len(staffing) :
                 /\ Len(Exchanged(staffing)[n]) = Len(staffing[n])
                 /\ \A i \in 1..Len(staffing[n]) : /\ Exchanged(staffing)[n][i].soul = staffing[n][i].soul
                                               /\ Exchanged(staffing)[n][i].class # "Artisan"
  <1> DEFINE swap(x) == IF x.class = "Artisan" THEN [x EXCEPT !.class = "Understudy"] ELSE x
             A == [soul : Souls, class : Classes]
             swapped(a) == [i \in 1..Len(a) |-> swap(a[i])]
             e == Exchanged(staffing)
  <1>1. \A x \in A : swap(x) \in A /\ swap(x).soul = x.soul /\ swap(x).class # "Artisan"
    BY DEF Classes
  <1>2. e = [n \in 1..Len(staffing) |-> swapped(staffing[n])]
    BY DEF Exchanged
  <1> HIDE DEF swap, A, e
  <1>3. ASSUME NEW a \in Seq(A)
        PROVE  /\ swapped(a) \in Seq(A) /\ Len(swapped(a)) = Len(a)
               /\ \A i \in 1..Len(a) : /\ swapped(a)[i].soul = a[i].soul
                                       /\ swapped(a)[i].class # "Artisan"
    <2>1. \A i \in 1..Len(a) : a[i] \in A
      OBVIOUS
    <2>2. Len(a) \in Nat /\ swapped(a) \in [1..Len(a) -> A]
      BY <1>1, <2>1
    <2>3. swapped(a) \in Seq(A) /\ Len(swapped(a)) = Len(a)
      BY <2>2
    <2>4. \A i \in 1..Len(a) : swapped(a)[i] = swap(a[i])
      OBVIOUS
    <2> QED
      BY <1>1, <2>1, <2>3, <2>4
  <1>4. Manifest = Seq(A)
    BY DEF Manifest, A
  <1> HIDE DEF swapped
  <1>5. Len(staffing) \in Nat /\ \A n \in 1..Len(staffing) : staffing[n] \in Seq(A)
    BY <1>4
  <1>6. e \in [1..Len(staffing) -> Manifest]
    BY <1>2, <1>3, <1>4, <1>5
  <1>7. e \in Seq(Manifest) /\ Len(e) = Len(staffing)
    BY <1>5, <1>6
  <1>8. \A n \in 1..Len(staffing) : e[n] = swapped(staffing[n])
    BY <1>2
  <1> QED
    BY <1>3, <1>5, <1>7, <1>8 DEF e

\* The dismissal leaves the first three agents of every task.
LEMMA DismissedFacts ==
    ASSUME NEW staffing \in Seq(Manifest), \A n \in 1..Len(staffing) : MIN_AGENTS <= Len(staffing[n])
    PROVE  /\ Dismissed(staffing) \in Seq(Manifest) /\ Len(Dismissed(staffing)) = Len(staffing)
           /\ \A n \in 1..Len(staffing) :
                 /\ Len(Dismissed(staffing)[n]) = MIN_AGENTS
                 /\ \A i \in 1..MIN_AGENTS : Dismissed(staffing)[n][i] = staffing[n][i]
  <1> DEFINE A == [soul : Souls, class : Classes]
             cut(a) == IF Len(a) > MIN_AGENTS THEN SubSeq(a, 1, MIN_AGENTS) ELSE a
             d == Dismissed(staffing)
  <1>1. d = [n \in 1..Len(staffing) |-> cut(staffing[n])]
    BY DEF Dismissed
  <1> HIDE DEF A, d
  <1>2. ASSUME NEW a \in Seq(A), MIN_AGENTS <= Len(a)
        PROVE  /\ cut(a) \in Seq(A) /\ Len(cut(a)) = MIN_AGENTS
               /\ \A i \in 1..MIN_AGENTS : cut(a)[i] = a[i]
    <2>1. CASE Len(a) > MIN_AGENTS
      <3>1. cut(a) = SubSeq(a, 1, 3) /\ 3 \in 0..Len(a)
        BY <2>1 DEF MIN_AGENTS
      <3> HIDE DEF cut
      <3> QED
        BY <3>1, PrefixFacts DEF MIN_AGENTS
    <2>2. CASE ~(Len(a) > MIN_AGENTS)
      <3>1. cut(a) = a
        BY <2>2
      <3>2. Len(a) = 3
        <4> DEFINE l == Len(a)
        <4>1. l \in Nat /\ 3 <= l /\ ~(l > 3)
          BY <1>2, <2>2 DEF MIN_AGENTS
        <4> HIDE DEF l
        <4>2. l = 3
          BY <4>1
        <4> QED
          BY <4>2 DEF l
      <3> HIDE DEF cut
      <3> QED
        BY <3>1, <3>2 DEF MIN_AGENTS
    <2> QED
      BY <2>1, <2>2
  <1>3. Manifest = Seq(A)
    BY DEF Manifest, A
  <1> HIDE DEF cut
  <1>4. Len(staffing) \in Nat /\ \A n \in 1..Len(staffing) : staffing[n] \in Seq(A)
    BY <1>3
  <1>5. d \in [1..Len(staffing) -> Manifest]
    BY <1>1, <1>2, <1>3, <1>4
  <1>6. d \in Seq(Manifest) /\ Len(d) = Len(staffing)
    BY <1>4, <1>5
  <1>7. \A n \in 1..Len(staffing) : d[n] = cut(staffing[n])
    BY <1>1
  <1> QED
    BY <1>2, <1>4, <1>6, <1>7 DEF d

LEMMA TeamCost ==
    ASSUME NEW a \in Manifest, Len(a) = 3, \A i \in 1..3 : a[i].class # "Artisan"
    PROVE  TaskCost(a) \in Nat /\ TaskCost(a) <= 150
  <1> DEFINE A == [soul : Souls, class : Classes]
             c == [i \in 1..Len(a) |-> AgentCost(a[i].class)]
  <1>1. ASSUME NEW i \in 1..3 PROVE AgentCost(a[i].class) \in Nat /\ AgentCost(a[i].class) <= 50
    <2>1. a[i] \in A
      <3>1. a \in Seq(A) /\ i \in 1..Len(a)
        BY DEF Manifest
      <3> HIDE DEF A
      <3> QED
        BY <3>1, ElementOfSeq, Zenon
    <2>2. a[i].class = "Understudy" \/ a[i].class = "Novice"
      BY <2>1 DEF Classes
    <2> QED
      BY <2>2 DEF AgentCost
  <1> DEFINE l == Len(a)
  <1>2. l \in Nat /\ TaskCost(a) = Total(c)
    BY DEF TaskCost
  <1>3. c \in [1..l -> Nat] /\ \A i \in 1..l : c[i] <= 50
    BY <1>1
  <1> HIDE DEF l, c
  <1>4. c \in Seq(Nat) /\ Len(c) = l
    BY <1>2, <1>3
  <1>5. Total(c) \in Nat /\ Total(c) <= 50 * l
    BY <1>3, <1>4, TotalBound
  <1>6. l = 3
    BY DEF l
  <1> QED
    BY <1>2, <1>5, <1>6

\* Three agents without an Artisan cost at most 150 for each task.
LEMMA CostBound ==
    ASSUME NEW staffing \in Seq(Manifest),
           \A n \in 1..Len(staffing) : /\ Len(staffing[n]) = MIN_AGENTS
                                   /\ \A i \in 1..MIN_AGENTS : staffing[n][i].class # "Artisan"
    PROVE  Cost(staffing) \in Nat /\ Cost(staffing) <= 150 * Len(staffing)
  <1> DEFINE l == Len(staffing)
             c == [n \in 1..l |-> TaskCost(staffing[n])]
  <1>1. ASSUME NEW n \in 1..l PROVE TaskCost(staffing[n]) \in Nat /\ TaskCost(staffing[n]) <= 150
    <2>1. staffing[n] \in Manifest /\ Len(staffing[n]) = 3 /\ \A i \in 1..3 : staffing[n][i].class # "Artisan"
      BY DEF MIN_AGENTS
    <2> QED
      BY <2>1, TeamCost
  <1>2. l \in Nat /\ Cost(staffing) = Total(c)
    BY DEF Cost
  <1> HIDE DEF l
  <1>3. c \in [1..l -> Nat] /\ \A n \in 1..l : c[n] <= 150
    BY <1>1
  <1> HIDE DEF c
  <1>4. c \in Seq(Nat) /\ Len(c) = l
    BY <1>2, <1>3
  <1> QED
    BY <1>2, <1>3, <1>4, TotalBound DEF l

\* The gate pays for whatever the pre-flight check let pass.
LEMMA ReducedIsAffordable ==
    ASSUME NEW staffing \in Seq(Manifest), Len(staffing) = Len(Complexity),
           \A n \in 1..Len(staffing) : MIN_AGENTS <= Len(staffing[n]),
           cap \in Nat, PreFlightFunds(cap), AgentEstimate >= AgentCost("Understudy")
    PROVE  Affordable(Reduced(staffing))
  <1> DEFINE e == Exchanged(staffing)
             d == Dismissed(e)
  <1>1. CASE HasArtisan(staffing) /\ Cost(e) <= cap
    BY <1>1 DEF Reduced, Affordable
  <1>2. CASE ~(HasArtisan(staffing) /\ Cost(e) <= cap)
    <2>1. Reduced(staffing) = d
      BY <1>2 DEF Reduced
    <2>2. /\ e \in Seq(Manifest) /\ Len(e) = Len(staffing)
          /\ \A n \in 1..Len(staffing) :
                 /\ Len(e[n]) = Len(staffing[n])
                 /\ \A i \in 1..Len(staffing[n]) : e[n][i].class # "Artisan"
      BY ExchangedFacts
    <2> HIDE DEF e
    <2>3. /\ d \in Seq(Manifest) /\ Len(d) = Len(staffing)
          /\ \A n \in 1..Len(staffing) : /\ Len(d[n]) = MIN_AGENTS
                                     /\ \A i \in 1..MIN_AGENTS : d[n][i] = e[n][i]
      BY <2>2, DismissedFacts
    <2> HIDE DEF d
    <2>4. \A n \in 1..Len(d) : \A i \in 1..MIN_AGENTS : d[n][i].class # "Artisan"
      <3> SUFFICES ASSUME NEW n \in 1..Len(d), NEW i \in 1..MIN_AGENTS
                   PROVE  d[n][i].class # "Artisan"
        OBVIOUS
      <3>1. n \in 1..Len(staffing) /\ staffing[n] \in Manifest /\ MIN_AGENTS <= Len(staffing[n])
        BY <2>3
      <3>2. i \in 1..Len(staffing[n])
        BY <3>1 DEF Manifest, MIN_AGENTS
      <3> QED
        BY <2>2, <2>3, <3>1, <3>2
    <2>5. Cost(d) \in Nat /\ Cost(d) <= 150 * Len(d)
      BY <2>3, <2>4, CostBound
    <2>6. cap = 0 \/ Len(Complexity) * 3 * AgentEstimate <= cap
      BY DEF PreFlightFunds, MIN_AGENTS
    <2> DEFINE l == Len(Complexity)
    <2>7. l \in Nat /\ Len(d) = l /\ AgentEstimate \in Nat /\ AgentEstimate >= 50
      BY <2>3, MissionAssumption DEF AgentCost
    <2> HIDE DEF l
    <2>8. 150 * l <= l * 3 * AgentEstimate
      <3>1. PICK k \in Nat : AgentEstimate = 50 + k
        <4>1. AgentEstimate - 50 \in Nat /\ AgentEstimate = 50 + (AgentEstimate - 50)
          BY <2>7
        <4> QED
          BY <4>1
      <3>2. (l * 3) * (50 + k) = 150 * l + (l * 3) * k /\ (l * 3) * k \in Nat
        BY <2>7
      <3> QED
        BY <2>7, <3>1, <3>2
    <2>9. cap = 0 \/ Cost(d) <= cap
      <3>1. 150 * Len(d) = 150 * l /\ 150 * l \in Nat /\ l * 3 * AgentEstimate \in Nat
        BY <2>7
      <3>2. cap = 0 \/ l * 3 * AgentEstimate <= cap
        BY <2>6 DEF l
      <3> QED
        BY <2>5, <2>8, <3>1, <3>2
    <2> QED
      BY <2>1, <2>9 DEF Affordable
  <1> QED
    BY <1>1, <1>2

\* The inductive invariant of the assembly.
PopInv ==
    /\ cap \in Nat /\ PreFlightFunds(cap)
    /\ manifests \in Seq(Manifest) /\ Len(manifests) <= Len(Complexity)
    /\ \A n \in 1..Len(manifests) : Staffed(manifests[n])
    /\ AdmittedIsFunded

LEMMA PopInitial == PopInit => PopInv
  <1> SUFFICES ASSUME PopInit PROVE PopInv
    OBVIOUS
  <1>1. manifests \in Seq(Manifest) /\ Len(manifests) = 0
    BY DEF PopInit
  <1>2. Len(Complexity) \in Nat /\ cap \in Nat /\ PreFlightFunds(cap)
    BY MissionAssumption DEF PopInit
  <1>3. AdmittedIsFunded
    BY DEF PopInit, AdmittedIsFunded
  <1> QED
    BY <1>1, <1>2, <1>3 DEF PopInv

LEMMA StaffedStays ==
    ASSUME UNCHANGED <<soul, alike>>
    PROVE  \A a : Staffed(a) <=> Staffed(a)'
  BY DEF Staffed, TooSimilar

LEMMA StaffedSize ==
    ASSUME NEW a, Staffed(a) PROVE MIN_AGENTS <= Len(a)
  <1> DEFINE l == Len(a)
  <1>1. l \in 3..5
    BY DEF Staffed, MIN_AGENTS
  <1> HIDE DEF l
  <1>2. 3 <= l
    BY <1>1
  <1> QED
    BY <1>2 DEF l, MIN_AGENTS

\* A staffing with an exchange of classes, or with agents dismissed down to three, staffs
\* every task that was staffed.
LEMMA ReducedFacts ==
    ASSUME NEW staffing \in Seq(Manifest), \A n \in 1..Len(staffing) : Staffed(staffing[n])
    PROVE  /\ Reduced(staffing) \in Seq(Manifest) /\ Len(Reduced(staffing)) = Len(staffing)
           /\ \A n \in 1..Len(staffing) : Staffed(Reduced(staffing)[n])
  <1> DEFINE e == Exchanged(staffing)
             d == Dismissed(e)
  <1>1. /\ e \in Seq(Manifest) /\ Len(e) = Len(staffing)
        /\ \A n \in 1..Len(staffing) :
              /\ Len(e[n]) = Len(staffing[n])
              /\ \A i \in 1..Len(staffing[n]) : e[n][i].soul = staffing[n][i].soul
    BY ExchangedFacts
  <1> HIDE DEF e
  <1>2. \A n \in 1..Len(staffing) : Staffed(e[n])
    <2> SUFFICES ASSUME NEW n \in 1..Len(staffing) PROVE Staffed(e[n])
      OBVIOUS
    <2> DEFINE a == staffing[n]
               b == e[n]
               l == Len(a)
    <2>1. l \in 3..5 /\ Staffed(a)
      BY DEF Staffed, MIN_AGENTS
    <2>2. Len(b) = l /\ \A i \in 1..l : b[i].soul = a[i].soul
      BY <1>1
    <2> HIDE DEF a, b
    <2>3. l \in MIN_AGENTS..l
      <3> HIDE DEF l
      <3> QED
        BY <2>1 DEF MIN_AGENTS
    <2>4. Staffed(b)
      BY <2>1, <2>2, <2>3, StaffedKept
    <2> QED
      BY <2>4 DEF b
  <1>3. \A n \in 1..Len(e) : MIN_AGENTS <= Len(e[n])
    BY <1>1, <1>2, StaffedSize
  <1>4. /\ d \in Seq(Manifest) /\ Len(d) = Len(e)
        /\ \A n \in 1..Len(e) : /\ Len(d[n]) = MIN_AGENTS
                                /\ \A i \in 1..MIN_AGENTS : d[n][i] = e[n][i]
    BY <1>1, <1>3, DismissedFacts
  <1> HIDE DEF d
  <1>5. \A n \in 1..Len(staffing) : Staffed(d[n])
    <2> SUFFICES ASSUME NEW n \in 1..Len(staffing) PROVE Staffed(d[n])
      OBVIOUS
    <2> DEFINE a == e[n]
               b == d[n]
               l == Len(a)
    <2>1. l \in 3..5 /\ Staffed(a)
      BY <1>2 DEF Staffed, MIN_AGENTS
    <2>2. Len(b) = 3 /\ \A i \in 1..3 : b[i].soul = a[i].soul
      BY <1>1, <1>4 DEF MIN_AGENTS
    <2> HIDE DEF a, b
    <2>3. 3 \in MIN_AGENTS..l
      <3> HIDE DEF l
      <3> QED
        BY <2>1 DEF MIN_AGENTS
    <2>4. Staffed(b)
      BY <2>1, <2>2, <2>3, StaffedKept
    <2> QED
      BY <2>4 DEF b
  <1>6. Reduced(staffing) = e \/ Reduced(staffing) = d
    BY DEF Reduced, e, d
  <1> QED
    BY <1>1, <1>2, <1>4, <1>5, <1>6

LEMMA PopStep == PopInv /\ [PopNext]_popVars => PopInv'
  <1> SUFFICES ASSUME PopInv, [PopNext]_popVars PROVE PopInv'
    OBVIOUS
  <1>1. CASE AssembleTask
    <2> DEFINE n == Len(manifests) + 1
    <2>1. PICK near : manifests' = Append(manifests, AgentsOf(Staff(n, near)))
      BY <1>1 DEF AssembleTask
    <2>2. n \in Tasks
      BY <1>1, MissionAssumption DEF AssembleTask, PopInv, Tasks
    <2> DEFINE a == AgentsOf(Staff(n, near))
    <2> HIDE DEF n
    <2>3. a \in Manifest /\ Staffed(a)
      BY <2>2, StaffFacts, AgentsFacts
    <2> HIDE DEF a
    <2>4. manifests' = Append(manifests, a)
      BY <2>1 DEF a, n
    <2>5. /\ manifests \in Seq(Manifest) /\ manifests' \in Seq(Manifest)
          /\ Len(manifests') = Len(manifests) + 1 /\ manifests'[Len(manifests) + 1] = a
          /\ \A k \in 1..Len(manifests) : manifests'[k] = manifests[k]
      BY <2>3, <2>4, AppendProperties DEF PopInv
    <2>6. \A k \in 1..Len(manifests') : k \in 1..Len(manifests) \/ k = Len(manifests) + 1
      BY <2>5
    <2>7. \A k \in 1..Len(manifests') : Staffed(manifests'[k])
      BY <2>3, <2>5, <2>6 DEF PopInv
    <2>8. UNCHANGED <<soul, alike, cap, outcome>>
      BY <1>1 DEF AssembleTask
    <2>9. \A k \in 1..Len(manifests') : Staffed(manifests[k])'
      BY <2>7, <2>8, StaffedStays
    <2>10. Len(manifests') <= Len(Complexity)
      BY <2>2, <2>5 DEF Tasks, n
    <2>11. AdmittedIsFunded' /\ cap' \in Nat /\ PreFlightFunds(cap')
      BY <2>8 DEF PopInv, AdmittedIsFunded
    <2> QED
      BY <2>5, <2>9, <2>10, <2>11 DEF PopInv
  <1>2. CASE ValidateBudget
    <2> DEFINE staffing == IF Affordable(manifests) THEN manifests ELSE Reduced(manifests)
    <2>1. /\ manifests \in Seq(Manifest) /\ Len(manifests) = Len(Complexity)
          /\ \A n \in 1..Len(manifests) : Staffed(manifests[n])
      BY <1>2 DEF ValidateBudget, PopInv
    <2>2. /\ staffing \in Seq(Manifest) /\ Len(staffing) = Len(manifests)
          /\ \A n \in 1..Len(staffing) : Staffed(staffing[n])
      BY <2>1, ReducedFacts
    <2>3. AgentEstimate >= AgentCost("Understudy") => Affordable(staffing)
      <3>1. \A n \in 1..Len(manifests) : MIN_AGENTS <= Len(manifests[n])
        BY <2>1, StaffedSize
      <3> QED
        BY <2>1, <3>1, ReducedIsAffordable DEF PopInv
    <2> HIDE DEF staffing
    <2>4. /\ outcome = "assembling" /\ UNCHANGED <<soul, alike, cap>>
          /\ \/ manifests' = staffing /\ outcome' = "spawning"
             \/ ~Affordable(staffing) /\ outcome' = "failed" /\ UNCHANGED manifests
      BY <1>2 DEF ValidateBudget, staffing
    <2>5. /\ manifests' \in Seq(Manifest) /\ Len(manifests') = Len(Complexity)
          /\ \A n \in 1..Len(manifests') : Staffed(manifests'[n])
      BY <2>1, <2>2, <2>4
    <2>6. \A n \in 1..Len(manifests') : Staffed(manifests[n])'
      BY <2>4, <2>5, StaffedStays
    <2>7. AdmittedIsFunded'
      BY <2>3, <2>4 DEF AdmittedIsFunded
    <2>8. cap' \in Nat /\ PreFlightFunds(cap') /\ Len(Complexity) \in Nat
      BY <2>4, MissionAssumption DEF PopInv
    <2> QED
      BY <2>5, <2>6, <2>7, <2>8 DEF PopInv
  <1>3. CASE UNCHANGED popVars
    BY <1>3, StaffedStays DEF popVars, PopInv, AdmittedIsFunded
  <1> QED
    BY <1>1, <1>2, <1>3 DEF PopNext

\* Distinct positions have distinct souls: the count of the souls is that of the agents.
LEMMA StaffedIsSound ==
    ASSUME NEW agents, Staffed(agents), DOMAIN agents = 1..Len(agents)
    PROVE  LET souls == {agents[i].soul : i \in DOMAIN agents}
           IN  /\ Len(agents) \in MIN_AGENTS..5
               /\ Cardinality(souls) = Len(agents)
               /\ \A s \in souls \cap LibrarySouls : ~soul[s].signalled
               /\ \A s, t \in souls \cap LibrarySouls : s # t => ~TooSimilar(s, t)
  <1> DEFINE l == Len(agents)
             souls == {agents[i].soul : i \in 1..l}
             f == [i \in 1..l |-> agents[i].soul]
  <1>1. l \in 3..5 /\ \A i, j \in 1..l : f[i] = f[j] => i = j
    BY DEF Staffed, MIN_AGENTS
  <1>2. f \in Bijection(1..l, souls)
    <2> HIDE DEF l
    <2> QED
      BY <1>1 DEF Bijection, Injection, Surjection, IsInjective
  <1>3. IsFiniteSet(1..l) /\ Cardinality(1..l) = l
    <2> HIDE DEF l
    <2>1. l \in Int /\ 1 \in Int /\ ~(1 > l) /\ l - 1 + 1 = l
      BY <1>1
    <2> QED
      BY <2>1, FS_Interval
  <1>4. Cardinality(souls) = l
    <2> HIDE DEF l, souls, f
    <2> QED
      BY <1>2, <1>3, FS_Bijection DEF ExistsBijection
  <1>5. /\ \A s \in souls \cap LibrarySouls : ~soul[s].signalled
        /\ \A s, t \in souls \cap LibrarySouls : s # t => ~TooSimilar(s, t)
    BY DEF Staffed
  <1> QED
    BY <1>4, <1>5 DEF Staffed

LEMMA PopInvariant == PopSpec => []PopInv
  BY PopInitial, PopStep, PTL DEF PopSpec

\* Every task is staffed with three to five distinct souls, none with a negative signal,
\* and those from the library differ from one another: for every library, likeness,
\* mission and budget, before the budget gate and after its exchanges and dismissals.
THEOREM StaffingIsSound == PopSpec => []StaffedSoundly
  <1>1. PopInv => StaffedSoundly
    <2> SUFFICES ASSUME PopInv, NEW n \in DOMAIN manifests
                 PROVE  LET agents == manifests[n]
                            souls  == {agents[i].soul : i \in DOMAIN agents}
                        IN  /\ Len(agents) \in MIN_AGENTS..5
                            /\ Cardinality(souls) = Len(agents)
                            /\ \A s \in souls \cap LibrarySouls : ~soul[s].signalled
                            /\ \A s, t \in souls \cap LibrarySouls : s # t => ~TooSimilar(s, t)
      BY DEF StaffedSoundly
    <2> DEFINE a == manifests[n]
    <2>1. Staffed(a) /\ DOMAIN a = 1..Len(a)
      BY DEF PopInv, Manifest
    <2> QED
      BY <2>1, StaffedIsSound
  <1> QED
    BY <1>1, PopInvariant, PTL

\* A mission that passed the pre-flight budget check is never refused by the gate behind
\* the assembly, as long as the estimate per agent is not below an Understudy's price.
THEOREM AdmittedMissionsAreFunded == PopSpec => []AdmittedIsFunded
  <1>1. PopInv => AdmittedIsFunded
    BY DEF PopInv
  <1> QED
    BY <1>1, PopInvariant, PTL
===============================================================================
