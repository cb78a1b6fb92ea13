---------------------------- MODULE TaskDagProofs ----------------------------
(***************************************************************************)
(* Proofs about the Go execution DAG, for any finite set of tasks, any     *)
(* dependency graphs and any retry limits, and about the retry discipline  *)
(* it implements.                                                          *)
(***************************************************************************)
EXTENDS TaskDag, FiniteSetTheorems, WellFoundedInduction, TLAPS

\* Is an execution of t still liable to be charged by the sweeper?
Held(t) == IF status[t] = "running" \/ t \in stale THEN 1 ELSE 0

\* The accounts of one task.  Every start after the first was paid for by a
\* retry; a pending task has paid for its next start; and each start buys two
\* charges, one by its report (executing) and one by the sweeper (Held).
Accounts(t) ==
  /\ status[t] = "absent" => dispatched[t] = 0
  /\ dispatched[t] <= retryCount[t] + 1
  /\ status[t] \in {"absent", "pending"} => dispatched[t] <= retryCount[t]
  /\ status[t] \in {"absent", "pending", "running"} => retryCount[t] <= MaxRetries[t]
  /\ dispatched[t] <= MaxRetries[t] + 1
  /\ retryCount[t] + executing[t] + Held(t) <= 2 * dispatched[t]
  /\ status[t] = "running" => executing[t] > 0

IInv == TypeOK /\ \A t \in Task : Accounts(t)

-------------------------------------------------------------------------------

LEMMA InitIInv == Init => IInv
<1> SUFFICES ASSUME Init PROVE IInv
  OBVIOUS
<1>1. TypeOK
  BY GraphsAssumption DEF Init, TypeOK, Status
<1>2. ASSUME NEW t \in Task PROVE Accounts(t)
  <2>1. /\ status[t] = "absent"
        /\ retryCount[t] = 0
        /\ executing[t] = 0
        /\ dispatched[t] = 0
        /\ t \notin stale
    BY DEF Init
  <2>2. MaxRetries[t] \in Nat
    BY MaxRetriesAssumption
  <2>3. QED
    BY <2>1, <2>2 DEF Accounts, Held
<1>3. QED
  BY <1>1, <1>2 DEF IInv

\* MarkFailed's body keeps the types, and what it does to any one task is a
\* change the accounts can follow.
LEMMA FailTypes ==
  ASSUME TypeOK, NEW t \in Task, Fail(t)
  PROVE  /\ status' \in [Task -> Status \union {"absent"}]
         /\ retryCount' \in [Task -> Nat]
         /\ retryCount' = [retryCount EXCEPT ![t] = @ + 1]
         /\ status'[t] = "pending" => retryCount'[t] <= MaxRetries[t]
         /\ status'[t] \in {"pending", "failed", "skipped"}
         /\ \A u \in Task \ {t} : status'[u] \in {status[u], "skipped"}
  BY DEF Fail, TypeOK, Status

LEMMA NextIInv == IInv /\ [Next]_vars => IInv'
<1> SUFFICES ASSUME IInv, [Next]_vars PROVE IInv'
  OBVIOUS
<1> USE MaxRetriesAssumption DEF IInv, TypeOK, Accounts, Held, Status
<1>1. ASSUME NEW t \in Task, AddTask(t) PROVE IInv'
  BY <1>1 DEF AddTask
<1>2. ASSUME Validate PROVE IInv'
  BY <1>2 DEF Validate
<1>3. ASSUME ScanReady PROVE IInv'
  BY <1>3 DEF ScanReady, ReadyTasks
<1>4. ASSUME NEW t \in Task, MarkRunning(t) PROVE IInv'
  BY <1>4 DEF MarkRunning
<1>5. ASSUME NEW t \in Task, MarkDone(t) PROVE IInv'
  BY <1>5 DEF MarkDone
<1>6. ASSUME NEW t \in Task, MarkFailed(t) PROVE IInv'
  BY <1>6, FailTypes DEF MarkFailed
<1>7. ASSUME NEW S \in SUBSET Task, CollectStale(S) PROVE IInv'
  BY <1>7 DEF CollectStale
<1>8. ASSUME NEW t \in Task, FailStale(t) PROVE IInv'
  BY <1>8, FailTypes DEF FailStale
<1>9. ASSUME UNCHANGED vars PROVE IInv'
  BY <1>9 DEF vars
<1>10. QED
  BY <1>1, <1>2, <1>3, <1>4, <1>5, <1>6, <1>7, <1>8, <1>9 DEF Next

-------------------------------------------------------------------------------

\* The graph's variables always have their types.
THEOREM TypeCorrect == Spec => []TypeOK
<1>1. IInv => TypeOK
  BY DEF IInv
<1>2. QED
  BY InitIInv, NextIInv, <1>1, PTL DEF Spec

\* Whatever the interleaving of the dispatcher, the executions' reports and the
\* sweeper, no task is started more than MaxRetries + 1 times.
THEOREM RetryBudgetHolds == Spec => []RetryBudget
<1>1. IInv => RetryBudget
  BY DEF IInv, Accounts, RetryBudget
<1>2. QED
  BY InitIInv, NextIInv, <1>1, PTL DEF Spec

\* A start is charged at most twice, so RetryCount never passes
\* 2 * (MaxRetries + 1), although MarkFailed itself has no upper limit.
THEOREM ChargedAtMostTwiceHolds == Spec => []ChargedAtMostTwice
<1>1. IInv => ChargedAtMostTwice
  BY DEF IInv, TypeOK, Accounts, Held, ChargedAtMostTwice
<1>2. QED
  BY InitIInv, NextIInv, <1>1, PTL DEF Spec

\* A task the graph calls running has an execution that is still to report.
THEOREM RunningIsOwnedHolds == Spec => []RunningIsOwned
<1>1. IInv => RunningIsOwned
  BY DEF IInv, Accounts, RunningIsOwned
<1>2. QED
  BY InitIInv, NextIInv, <1>1, PTL DEF Spec

-------------------------------------------------------------------------------
(* The cascade of a permanent failure. *)

LEMMA LeastExists ==
  ASSUME NEW S \in SUBSET Nat, S # {}
  PROVE  \E x \in S : \A y \in S : x <= y
<1> DEFINE less == OpToRel(<, Nat)
<1>1. IsWellFoundedOn(less, Nat)
  BY NatLessThanWellFounded
<1>2. \A x, y \in Nat : y < x => <<y, x>> \in less
  BY DEF OpToRel
<1> HIDE DEF less
<1>3. PICK x \in S : \A y \in S : <<y, x>> \notin less
  BY <1>1, WFMin
<1>4. \A y \in S : ~(y < x)
  BY <1>2, <1>3
<1>5. QED
  BY <1>4

\* A set of naturals that holds 0 and each number's successor holds all.
LEMMA Inductive ==
  ASSUME NEW S, 0 \in S, \A n \in Nat : n \in S => n + 1 \in S
  PROVE  Nat \subseteq S
<1> SUFFICES ASSUME Nat \ S # {} PROVE FALSE
  OBVIOUS
<1>1. PICK x \in Nat \ S : \A y \in Nat \ S : x <= y
  <2>1. Nat \ S \in SUBSET Nat
    OBVIOUS
  <2>2. QED
    BY <2>1, LeastExists
<1>2. x # 0
  OBVIOUS
<1>3. x - 1 \in Nat /\ (x - 1) + 1 = x
  BY <1>2
<1>4. x - 1 \in S
  BY <1>1, <1>3
<1>5. QED
  BY <1>3, <1>4

\* A function can be iterated: the recursive definitions below have values.
LEMMA IterationExists ==
  ASSUME NEW S, NEW a \in S, NEW F \in [S -> S]
  PROVE  \E f \in [Nat -> S] : f[0] = a /\ \A n \in Nat : f[n + 1] = F[f[n]]
<1> DEFINE UpTo(n, g) == /\ g \in [0..n -> S] /\ g[0] = a
                         /\ \A i \in 0..n : i # n => g[i + 1] = F[g[i]]
<1>1. \A n \in Nat : \E g : UpTo(n, g)
  <2> DEFINE D == {n \in Nat : \E g : UpTo(n, g)}
  <2>1. 0 \in D
    <3>1. UpTo(0, [i \in 0..0 |-> a])
      OBVIOUS
    <3>2. QED
      BY <3>1
  <2>2. ASSUME NEW n \in Nat, n \in D PROVE n + 1 \in D
    <3>1. PICK g : UpTo(n, g)
      BY <2>2
    <3> DEFINE h == [i \in 0..n + 1 |-> IF i = n + 1 THEN F[g[n]] ELSE g[i]]
    <3>2. h \in [0..n + 1 -> S]
      BY <3>1
    <3>3. h[0] = a /\ \A i \in 0..n : h[i] = g[i]
      BY <3>1
    <3>4. h[n + 1] = F[g[n]]
      OBVIOUS
    <3> HIDE DEF h
    <3>5. ASSUME NEW i \in 0..n + 1, i # n + 1 PROVE h[i + 1] = F[h[i]]
      <4>1. CASE i = n
        BY <3>3, <3>4, <4>1
      <4>2. CASE i # n
        <5>1. i \in 0..n /\ i + 1 \in 0..n
          BY <3>5, <4>2
        <5>2. QED
          BY <3>1, <3>3, <4>2, <5>1
      <4>3. QED
        BY <4>1, <4>2
    <3>6. UpTo(n + 1, h)
      BY <3>2, <3>3, <3>5
    <3>7. QED
      BY <3>6
  <2> HIDE DEF D
  <2>3. Nat \subseteq D
    BY <2>1, <2>2, Inductive
  <2>4. QED
    BY <2>3 DEF D
<1>2. ASSUME NEW m \in Nat, NEW g, NEW h, UpTo(m, g), UpTo(m + 1, h) PROVE h[m] = g[m]
  <2> DEFINE D == {i \in Nat : i <= m => h[i] = g[i]}
  <2>1. 0 \in D
    BY <1>2
  <2>2. ASSUME NEW i \in Nat, i \in D PROVE i + 1 \in D
    <3> SUFFICES ASSUME i + 1 <= m PROVE h[i + 1] = g[i + 1]
      OBVIOUS
    <3>1. i \in 0..m /\ i # m /\ i \in 0..m + 1 /\ i # m + 1 /\ h[i] = g[i]
      BY <2>2
    <3>2. QED
      BY <1>2, <3>1
  <2> HIDE DEF D
  <2>3. Nat \subseteq D
    BY <2>1, <2>2, Inductive
  <2>4. QED
    BY <2>3 DEF D
<1> DEFINE Last(n) == CHOOSE g : UpTo(n, g)
           f == [n \in Nat |-> Last(n)[n]]
<1>3. \A n \in Nat : UpTo(n, Last(n))
  BY <1>1
<1> HIDE DEF Last
<1>4. \A n \in Nat : Last(n)[n] \in S
  BY <1>3
<1>5. f \in [Nat -> S]
  BY <1>4
<1>6. f[0] = a
  BY <1>3
<1>7. ASSUME NEW n \in Nat PROVE f[n + 1] = F[f[n]]
  <2>1. n + 1 \in Nat /\ n \in 0..n + 1 /\ n # n + 1
    OBVIOUS
  <2>2. UpTo(n, Last(n)) /\ UpTo(n + 1, Last(n + 1))
    BY <1>3, <2>1
  <2>3. Last(n + 1)[n] = Last(n)[n]
    BY <1>2, <2>2
  <2>4. Last(n + 1)[n + 1] = F[Last(n + 1)[n]]
    BY <2>1, <2>2
  <2>5. QED
    BY <2>1, <2>3, <2>4
<1> HIDE DEF f
<1>8. QED
  BY <1>5, <1>6, <1>7

\* A set of tasks that grows round by round until it stays grows at most as often
\* as there are tasks.
LEMMA Saturates ==
  ASSUME NEW s \in [Nat -> SUBSET Task],
         \A n \in Nat : s[n] \subseteq s[n + 1],
         \A n \in Nat : s[n + 1] = s[n] => s[(n + 1) + 1] = s[n + 1]
  PROVE  s[Cardinality(Task) + 1] = s[Cardinality(Task)]
<1> DEFINE N == Cardinality(Task)
           D == {n \in Nat : s[n + 1] = s[n] \/ Cardinality(s[n]) >= n}
<1>1. N \in Nat
  BY TaskAssumption, FS_CardinalityType
<1>2. ASSUME NEW n \in Nat
      PROVE  s[n] \in SUBSET Task /\ IsFiniteSet(s[n]) /\ Cardinality(s[n]) \in Nat
  <2>1. s[n] \in SUBSET Task
    OBVIOUS
  <2>2. IsFiniteSet(s[n])
    BY <2>1, TaskAssumption, FS_Subset
  <2>3. QED
    BY <2>1, <2>2, FS_CardinalityType
<1>3. 0 \in D
  <2>1. Cardinality(s[0]) >= 0
    BY <1>2
  <2>2. QED
    BY <2>1
<1>4. ASSUME NEW n \in Nat, n \in D PROVE n + 1 \in D
  <2>1. n + 1 \in Nat
    OBVIOUS
  <2>2. CASE s[n + 1] = s[n]
    BY <2>1, <2>2
  <2>3. CASE s[n + 1] # s[n]
    <3>1. \A X : \A Y \in SUBSET X :
            IsFiniteSet(X) => Cardinality(Y) <= Cardinality(X) /\ (Cardinality(X) = Cardinality(Y) => X = Y)
      BY FS_Subset
    <3>2. IsFiniteSet(s[n + 1]) /\ s[n] \in SUBSET s[n + 1]
      BY <1>2, <2>1
    <3>3. /\ Cardinality(s[n]) <= Cardinality(s[n + 1])
          /\ Cardinality(s[n + 1]) # Cardinality(s[n])
      BY <2>3, <3>1, <3>2, Zenon
    <3>4. Cardinality(s[n]) >= n
      BY <1>4, <2>3
    <3>5. Cardinality(s[n]) \in Nat /\ Cardinality(s[n + 1]) \in Nat
      BY <1>2, <2>1
    <3>6. Cardinality(s[n + 1]) >= n + 1
      BY <3>3, <3>4, <3>5
    <3>7. QED
      BY <2>1, <3>6
  <2>4. QED
    BY <2>2, <2>3
<1>5. N \in D
  <2> HIDE DEF D
  <2>1. Nat \subseteq D
    BY <1>3, <1>4, Inductive
  <2>2. QED
    BY <1>1, <2>1
<1>6. CASE Cardinality(s[N]) >= N
  <2>1. /\ s[N] \in SUBSET Task /\ Cardinality(s[N]) \in Nat
        /\ s[N + 1] \in SUBSET Task /\ s[N] \subseteq s[N + 1]
    BY <1>1, <1>2
  <2>2. Cardinality(s[N]) <= N /\ (Cardinality(Task) = Cardinality(s[N]) => Task = s[N])
    BY <2>1, TaskAssumption, FS_Subset
  <2>3. Cardinality(s[N]) = N
    BY <1>1, <1>6, <2>1, <2>2
  <2>4. s[N] = Task
    BY <2>2, <2>3
  <2>5. QED
    BY <2>1, <2>4
<1>7. QED
  BY <1>5, <1>6

\* What n rounds of skipDownstream's walk have reached.
LEMMA DownstreamIs ==
  ASSUME NEW st, NEW t \in Task
  PROVE  \E s \in [Nat -> SUBSET Task] :
           /\ s[0] = DirectDownstream(st, {t})
           /\ \A n \in Nat : s[n + 1] = s[n] \union DirectDownstream(st, s[n])
           /\ Downstream(st, t) = s[Cardinality(Task)]
<1> DEFINE F == [X \in SUBSET Task |-> X \union DirectDownstream(st, X)]
           a == DirectDownstream(st, {t})
           Walk(s) == s = [n \in Nat |-> IF n = 0 THEN a
                                         ELSE s[n - 1] \union DirectDownstream(st, s[n - 1])]
           w == CHOOSE s : Walk(s)
<1>1. a \in SUBSET Task /\ F \in [SUBSET Task -> SUBSET Task]
  BY DEF DirectDownstream
<1>2. Downstream(st, t) = w[Cardinality(Task)]
  BY DEF Downstream
<1>3. PICK f \in [Nat -> SUBSET Task] : f[0] = a /\ \A n \in Nat : f[n + 1] = F[f[n]]
  <2>1. PICK S, G, b : S = SUBSET Task /\ G = F /\ b = a
    OBVIOUS
  <2>2. b \in S /\ G \in [S -> S]
    BY <1>1, <2>1
  <2> HIDE DEF F, a, w
  <2>3. \E f \in [Nat -> S] : f[0] = b /\ \A n \in Nat : f[n + 1] = G[f[n]]
    <3>1. \A X : \A c \in X : \A H \in [X -> X] :
            \E f \in [Nat -> X] : f[0] = c /\ \A n \in Nat : f[n + 1] = H[f[n]]
      BY IterationExists
    <3>2. \A c \in S : \A H \in [S -> S] :
            \E f \in [Nat -> S] : f[0] = c /\ \A n \in Nat : f[n + 1] = H[f[n]]
      BY <3>1, SMTT(30)
    <3>3. \A H \in [S -> S] :
            \E f \in [Nat -> S] : f[0] = b /\ \A n \in Nat : f[n + 1] = H[f[n]]
      BY <2>2, <3>2
    <3>4. QED
      BY <2>2, <3>3
  <2>4. QED
    BY <2>1, <2>3
<1>4. Walk(f)
  <2>1. ASSUME NEW n \in Nat, n # 0
        PROVE  f[n] = f[n - 1] \union DirectDownstream(st, f[n - 1])
    <3>1. n - 1 \in Nat /\ (n - 1) + 1 = n
      BY <2>1
    <3>2. f[n] = F[f[n - 1]] /\ f[n - 1] \in SUBSET Task
      BY <1>3, <3>1
    <3>3. QED
      BY <3>2
  <2> HIDE DEF F, a
  <2>2. f = [n \in Nat |-> f[n]]
    OBVIOUS
  <2>3. QED
    BY <1>3, <2>1, <2>2
<1>5. Walk(w)
  <2> HIDE DEF Walk
  <2>1. QED
    BY <1>4
<1> HIDE DEF w
<1>6. w[0] = a /\ \A n \in Nat : w[n + 1] = w[n] \union DirectDownstream(st, w[n])
  <2> HIDE DEF a
  <2>1. w[0] = a
    BY <1>5
  <2>2. ASSUME NEW n \in Nat PROVE w[n + 1] = w[n] \union DirectDownstream(st, w[n])
    <3>1. n + 1 \in Nat /\ n + 1 # 0 /\ (n + 1) - 1 = n
      OBVIOUS
    <3>2. w[n + 1] = w[(n + 1) - 1] \union DirectDownstream(st, w[(n + 1) - 1])
      BY <1>5, <3>1
    <3>3. QED
      BY <3>1, <3>2
  <2>3. QED
    BY <2>1, <2>2
<1>7. w \in [Nat -> SUBSET Task]
  <2> DEFINE D == {n \in Nat : w[n] \in SUBSET Task}
  <2>1. 0 \in D
    BY <1>1, <1>6
  <2>2. ASSUME NEW n \in Nat, n \in D PROVE n + 1 \in D
    BY <1>6, <2>2 DEF DirectDownstream
  <2> HIDE DEF D
  <2>3. Nat \subseteq D
    BY <2>1, <2>2, Inductive
  <2>4. w = [n \in Nat |-> w[n]]
    BY <1>5
  <2>5. QED
    BY <2>3, <2>4 DEF D
<1>8. QED
  BY <1>2, <1>6, <1>7

\* The walk stops where no pending task depends on what it has reached, and it
\* reaches none that does not: a task per round at least, so the rounds suffice.
LEMMA DownstreamExact ==
  ASSUME NEW st, NEW t \in Task
  PROVE  LET D == Downstream(st, t)
         IN  /\ D \subseteq Task
             /\ DirectDownstream(st, D \union {t}) \subseteq D
             /\ D \subseteq DirectDownstream(st, D \union {t})
<1>1. PICK s \in [Nat -> SUBSET Task] :
        /\ s[0] = DirectDownstream(st, {t})
        /\ \A n \in Nat : s[n + 1] = s[n] \union DirectDownstream(st, s[n])
        /\ Downstream(st, t) = s[Cardinality(Task)]
  BY DownstreamIs
<1> DEFINE N == Cardinality(Task)
           D == {n \in Nat : /\ s[0] \subseteq s[n]
                             /\ s[n] \subseteq DirectDownstream(st, s[n] \union {t})}
<1>2. N \in Nat
  BY TaskAssumption, FS_CardinalityType
<1>3. 0 \in D
  <2>1. s[0] \subseteq DirectDownstream(st, s[0] \union {t})
    BY <1>1 DEF DirectDownstream
  <2>2. QED
    BY <2>1
<1>4. ASSUME NEW n \in Nat, n \in D PROVE n + 1 \in D
  <2>1. n + 1 \in Nat /\ s[0] \subseteq s[n + 1]
    <3>1. s[0] \subseteq s[n] /\ s[n] \subseteq s[n + 1]
      BY <1>1, <1>4
    <3>2. QED
      BY <3>1
  <2>2. s[n + 1] \subseteq DirectDownstream(st, s[n + 1] \union {t})
    BY <1>1, <1>4 DEF DirectDownstream
  <2>3. QED
    BY <2>1, <2>2
<1>5. N \in D
  <2> HIDE DEF D
  <2>1. Nat \subseteq D
    BY <1>3, <1>4, Inductive
  <2>2. QED
    BY <1>2, <2>1
<1>6. s[N + 1] = s[N]
  <2>1. \A n \in Nat : s[n] \subseteq s[n + 1]
    BY <1>1
  <2>2. ASSUME NEW n \in Nat, s[n + 1] = s[n] PROVE s[(n + 1) + 1] = s[n + 1]
    <3>1. n + 1 \in Nat
      OBVIOUS
    <3>2. QED
      BY <1>1, <2>2, <3>1
  <2>3. QED
    BY <2>1, <2>2, Saturates
<1>7. DirectDownstream(st, s[N]) \subseteq s[N] /\ DirectDownstream(st, {t}) \subseteq s[N]
  BY <1>1, <1>2, <1>5, <1>6
<1>8. DirectDownstream(st, s[N] \union {t}) \subseteq s[N]
  BY <1>7 DEF DirectDownstream
<1>9. s[N] \subseteq Task /\ s[N] \subseteq DirectDownstream(st, s[N] \union {t})
  BY <1>2, <1>5
<1> HIDE DEF N, D
<1>10. QED
  BY <1>1, <1>8, <1>9 DEF N

-------------------------------------------------------------------------------
(* What Validate accepts. *)

\* What n rounds of the depth-first search have come upstream from t.
LEMMA UpstreamIs ==
  ASSUME dependsOn \in [Task -> SUBSET Task], NEW t \in Task
  PROVE  \E s \in [Nat -> SUBSET Task] :
           /\ s[0] = dependsOn[t]
           /\ \A n \in Nat : s[n + 1] = s[n] \union UNION {dependsOn[d] : d \in s[n]}
           /\ Upstream(t) = s[Cardinality(Task)]
<1> DEFINE F == [X \in SUBSET Task |-> X \union UNION {dependsOn[d] : d \in X}]
           a == dependsOn[t]
           Walk(s) == s = [n \in Nat |-> IF n = 0 THEN a
                                         ELSE s[n - 1] \union UNION {dependsOn[d] : d \in s[n - 1]}]
           w == CHOOSE s : Walk(s)
<1>1. a \in SUBSET Task /\ F \in [SUBSET Task -> SUBSET Task]
  <2>1. ASSUME NEW X \in SUBSET Task PROVE X \union UNION {dependsOn[d] : d \in X} \in SUBSET Task
    OBVIOUS
  <2>2. QED
    BY <2>1
<1>2. Upstream(t) = w[Cardinality(Task)]
  BY DEF Upstream
<1>3. PICK f \in [Nat -> SUBSET Task] : f[0] = a /\ \A n \in Nat : f[n + 1] = F[f[n]]
  <2>1. PICK S, G, b : S = SUBSET Task /\ G = F /\ b = a
    OBVIOUS
  <2>2. b \in S /\ G \in [S -> S]
    BY <1>1, <2>1
  <2> HIDE DEF F, a, w
  <2>3. \E f \in [Nat -> S] : f[0] = b /\ \A n \in Nat : f[n + 1] = G[f[n]]
    <3>1. \A X : \A c \in X : \A H \in [X -> X] :
            \E f \in [Nat -> X] : f[0] = c /\ \A n \in Nat : f[n + 1] = H[f[n]]
      BY IterationExists
    <3>2. \A c \in S : \A H \in [S -> S] :
            \E f \in [Nat -> S] : f[0] = c /\ \A n \in Nat : f[n + 1] = H[f[n]]
      BY <3>1
    <3>3. \A H \in [S -> S] :
            \E f \in [Nat -> S] : f[0] = b /\ \A n \in Nat : f[n + 1] = H[f[n]]
      BY <2>2, <3>2
    <3>4. QED
      BY <2>2, <3>3
  <2>4. QED
    BY <2>1, <2>3
<1>4. Walk(f)
  <2>1. ASSUME NEW n \in Nat, n # 0
        PROVE  f[n] = f[n - 1] \union UNION {dependsOn[d] : d \in f[n - 1]}
    <3>1. n - 1 \in Nat /\ (n - 1) + 1 = n
      BY <2>1
    <3>2. f[n] = F[f[n - 1]] /\ f[n - 1] \in SUBSET Task
      BY <1>3, <3>1
    <3>3. QED
      BY <3>2
  <2> HIDE DEF F, a
  <2>2. f = [n \in Nat |-> f[n]]
    OBVIOUS
  <2>3. QED
    BY <1>3, <2>1, <2>2
<1>5. Walk(w)
  <2> HIDE DEF Walk
  <2>1. QED
    BY <1>4
<1> HIDE DEF w
<1>6. w[0] = a /\ \A n \in Nat : w[n + 1] = w[n] \union UNION {dependsOn[d] : d \in w[n]}
  <2> HIDE DEF a
  <2>1. w[0] = a
    BY <1>5
  <2>2. ASSUME NEW n \in Nat PROVE w[n + 1] = w[n] \union UNION {dependsOn[d] : d \in w[n]}
    <3>1. n + 1 \in Nat /\ n + 1 # 0 /\ (n + 1) - 1 = n
      OBVIOUS
    <3>2. w[n + 1] = w[(n + 1) - 1] \union UNION {dependsOn[d] : d \in w[(n + 1) - 1]}
      BY <1>5, <3>1
    <3>3. QED
      BY <3>1, <3>2
  <2>3. QED
    BY <2>1, <2>2
<1>7. w \in [Nat -> SUBSET Task]
  <2> DEFINE D == {n \in Nat : w[n] \in SUBSET Task}
  <2>1. 0 \in D
    BY <1>1, <1>6
  <2>2. ASSUME NEW n \in Nat, n \in D PROVE n + 1 \in D
    BY <1>6, <2>2
  <2> HIDE DEF D
  <2>3. Nat \subseteq D
    BY <2>1, <2>2, Inductive
  <2>4. w = [n \in Nat |-> w[n]]
    BY <1>5
  <2>5. QED
    BY <2>3, <2>4 DEF D
<1>8. QED
  BY <1>2, <1>6, <1>7

\* Upstream(t) is the least set that holds t's dependencies and theirs.
LEMMA UpstreamExact ==
  ASSUME dependsOn \in [Task -> SUBSET Task], NEW t \in Task
  PROVE  /\ Upstream(t) \subseteq Task
         /\ dependsOn[t] \subseteq Upstream(t)
         /\ \A d \in Upstream(t) : dependsOn[d] \subseteq Upstream(t)
         /\ \A X \in SUBSET Task :
              dependsOn[t] \subseteq X /\ (\A d \in X : dependsOn[d] \subseteq X)
                => Upstream(t) \subseteq X
<1>1. PICK s \in [Nat -> SUBSET Task] :
        /\ s[0] = dependsOn[t]
        /\ \A n \in Nat : s[n + 1] = s[n] \union UNION {dependsOn[d] : d \in s[n]}
        /\ Upstream(t) = s[Cardinality(Task)]
  BY UpstreamIs
<1> DEFINE N == Cardinality(Task)
<1>2. N \in Nat
  BY TaskAssumption, FS_CardinalityType
<1>3. s[N + 1] = s[N]
  <2>1. \A n \in Nat : s[n] \subseteq s[n + 1]
    BY <1>1
  <2>2. ASSUME NEW n \in Nat, s[n + 1] = s[n] PROVE s[(n + 1) + 1] = s[n + 1]
    <3>1. n + 1 \in Nat
      OBVIOUS
    <3>2. QED
      BY <1>1, <2>2, <3>1
  <2>3. QED
    BY <2>1, <2>2, Saturates
<1>4. dependsOn[t] \subseteq s[N]
  <2> DEFINE D == {n \in Nat : dependsOn[t] \subseteq s[n]}
  <2>1. 0 \in D
    BY <1>1
  <2>2. ASSUME NEW n \in Nat, n \in D PROVE n + 1 \in D
    BY <1>1, <2>2
  <2> HIDE DEF D
  <2>3. Nat \subseteq D
    BY <2>1, <2>2, Inductive
  <2>4. QED
    BY <1>2, <2>3 DEF D
<1>5. \A d \in s[N] : dependsOn[d] \subseteq s[N]
  <2>1. s[N] = s[N] \union UNION {dependsOn[d] : d \in s[N]}
    BY <1>1, <1>2, <1>3
  <2>2. QED
    BY <2>1
<1>6. ASSUME NEW X \in SUBSET Task, dependsOn[t] \subseteq X, \A d \in X : dependsOn[d] \subseteq X
      PROVE  s[N] \subseteq X
  <2> DEFINE D == {n \in Nat : s[n] \subseteq X}
  <2>1. 0 \in D
    BY <1>1, <1>6
  <2>2. ASSUME NEW n \in Nat, n \in D PROVE n + 1 \in D
    BY <1>1, <1>6, <2>2
  <2> HIDE DEF D
  <2>3. Nat \subseteq D
    BY <2>1, <2>2, Inductive
  <2>4. QED
    BY <1>2, <2>3 DEF D
<1>7. s[N] \subseteq Task
  BY <1>2
<1> HIDE DEF N
<1>8. QED
  BY <1>1, <1>4, <1>5, <1>6, <1>7 DEF N

\* A graph Validate accepted has its dependencies, and however tasks are picked
\* from it, one of them depends on none of the others.
GraphValid ==
  validated =>
    /\ \A t \in Tasks : dependsOn[t] \subseteq Tasks
    /\ \A S \in SUBSET Tasks : S # {} => \E t \in S : dependsOn[t] \intersect S = {}

\* Of the tasks of S, one that comes after as few as any comes after none of S.
LEMMA ValidateSound ==
  ASSUME TypeOK, ValidGraph
  PROVE  /\ \A t \in Tasks : dependsOn[t] \subseteq Tasks
         /\ \A S \in SUBSET Tasks : S # {} => \E t \in S : dependsOn[t] \intersect S = {}
<1> DEFINE Behind(t) == Cardinality(Upstream(t))
<1>0. dependsOn \in [Task -> SUBSET Task] /\ Tasks \subseteq Task
  BY DEF TypeOK, Tasks
<1>1. ASSUME NEW t \in Task
      PROVE  Upstream(t) \in SUBSET Task /\ IsFiniteSet(Upstream(t)) /\ Behind(t) \in Nat
  <2>1. Upstream(t) \in SUBSET Task
    BY <1>0, UpstreamExact
  <2>2. IsFiniteSet(Upstream(t))
    BY <2>1, TaskAssumption, FS_Subset
  <2>3. QED
    BY <2>1, <2>2, FS_CardinalityType
<1>2. ASSUME NEW S \in SUBSET Tasks, S # {} PROVE \E t \in S : dependsOn[t] \intersect S = {}
  <2> DEFINE counts == {Behind(t) : t \in S}
  <2>1. PICK t \in S : \A u \in S : Behind(t) <= Behind(u)
    <3>1. counts \in SUBSET Nat /\ counts # {}
      BY <1>0, <1>1, <1>2
    <3> HIDE DEF counts
    <3>2. PICK x \in counts : \A y \in counts : x <= y
      BY <3>1, LeastExists
    <3>3. QED
      BY <3>2 DEF counts
  <2>2. ASSUME NEW d \in dependsOn[t] \intersect S PROVE FALSE
    <3>1. t \in Task /\ d \in Task
      BY <1>0, <1>2
    <3>2. d \in Upstream(t) /\ d \notin Upstream(d)
      BY <1>0, <1>2, <3>1, UpstreamExact DEF ValidGraph
    <3>3. Upstream(d) \subseteq Upstream(t)
      <4>1. dependsOn[d] \subseteq Upstream(t) /\ \A e \in Upstream(t) : dependsOn[e] \subseteq Upstream(t)
        BY <1>0, <3>1, <3>2, UpstreamExact
      <4>2. QED
        BY <1>0, <1>1, <3>1, <4>1, UpstreamExact
    <3>4. Behind(d) < Behind(t)
      <4>1. \A X : \A Y \in SUBSET X :
              IsFiniteSet(X) => Cardinality(Y) <= Cardinality(X) /\ (Cardinality(X) = Cardinality(Y) => X = Y)
        BY FS_Subset
      <4>2. Behind(d) <= Behind(t) /\ Behind(d) # Behind(t)
        BY <1>1, <3>1, <3>2, <3>3, <4>1
      <4>3. QED
        BY <1>1, <3>1, <4>2
    <3>5. QED
      BY <1>1, <2>1, <3>1, <3>4
  <2>3. QED
    BY <2>2
<1>3. QED
  BY <1>2 DEF ValidGraph

LEMMA GraphValidKept == IInv /\ GraphValid /\ [Next]_vars => GraphValid'
<1> SUFFICES ASSUME IInv, GraphValid, [Next]_vars, validated' PROVE GraphValid'
  BY DEF GraphValid
<1>1. TypeOK /\ \A t \in Task : status[t] = "absent" => dispatched[t] = 0 /\ executing[t] = 0 /\ Held(t) = 0
  <2>1. TypeOK
    BY DEF IInv
  <2>2. ASSUME NEW t \in Task, status[t] = "absent"
        PROVE  dispatched[t] = 0 /\ executing[t] = 0 /\ Held(t) = 0
    <3>1. Accounts(t) /\ executing[t] \in Nat /\ retryCount[t] \in Nat /\ Held(t) \in Nat
      BY <2>1 DEF IInv, TypeOK, Held
    <3>2. dispatched[t] = 0 /\ retryCount[t] + executing[t] + Held(t) <= 2 * dispatched[t]
      BY <2>2, <3>1 DEF Accounts
    <3>3. QED
      BY <3>1, <3>2
  <2>3. QED
    BY <2>1, <2>2
<1>2. CASE ~validated
  <2>1. Validate
    BY <1>2 DEF Next, AddTask, ScanReady, MarkRunning, MarkDone, MarkFailed, CollectStale, FailStale, vars
  <2>2. /\ \A t \in Tasks : dependsOn[t] \subseteq Tasks
        /\ \A S \in SUBSET Tasks : S # {} => \E t \in S : dependsOn[t] \intersect S = {}
    BY <1>1, <2>1, ValidateSound DEF Validate
  <2>3. Tasks' = Tasks /\ dependsOn' = dependsOn
    BY <2>1 DEF Validate, Tasks
  <2>4. QED
    BY <2>2, <2>3 DEF GraphValid
<1>3. CASE validated
  <2>1. dependsOn' = dependsOn
    BY <1>3 DEF Next, AddTask, Validate, ScanReady, MarkRunning, MarkDone, MarkFailed, CollectStale,
               FailStale, vars
  <2>2. \A t \in Task : status'[t] = "absent" <=> status[t] = "absent"
    <3> USE <1>1 DEF TypeOK, Status, Held
    <3>1. ASSUME NEW t \in Task, MarkFailed(t) \/ FailStale(t)
          PROVE  \A u \in Task : status'[u] = "absent" <=> status[u] = "absent"
      <4>1. Fail(t) /\ status[t] # "absent"
        <5>1. Fail(t) /\ (executing[t] > 0 \/ t \in stale)
          BY <3>1 DEF MarkFailed, FailStale
        <5>2. status[t] = "absent" => executing[t] = 0 /\ (IF t \in stale THEN 1 ELSE 0) = 0
          OBVIOUS
        <5>3. QED
          BY <5>1, <5>2
      <4>2. status'[t] # "absent"
        BY <4>1, FailTypes
      <4>3. ASSUME NEW u \in Task \ {t} PROVE status'[u] = "absent" <=> status[u] = "absent"
        <5>1. \A v \in Downstream([status EXCEPT ![t] = "failed"], t) :
                v \in Task /\ [status EXCEPT ![t] = "failed"][v] = "pending"
          BY DownstreamExact DEF DirectDownstream
        <5>2. QED
          BY <4>1, <5>1 DEF Fail
      <4>4. QED
        BY <4>1, <4>2, <4>3
    <3>2. ASSUME NEW t \in Task, MarkRunning(t) PROVE \A u \in Task : status'[u] = "absent" <=> status[u] = "absent"
      BY <3>2 DEF MarkRunning
    <3>3. ASSUME NEW t \in Task, MarkDone(t) PROVE \A u \in Task : status'[u] = "absent" <=> status[u] = "absent"
      BY <3>3 DEF MarkDone
    <3>4. ASSUME status' = status PROVE \A u \in Task : status'[u] = "absent" <=> status[u] = "absent"
      BY <3>4
    <3>5. QED
      BY <1>3, <3>1, <3>2, <3>3, <3>4 DEF Next, AddTask, Validate, ScanReady, CollectStale, vars
  <2>3. Tasks' = Tasks
    BY <2>2 DEF Tasks
  <2>4. QED
    BY <1>3, <2>1, <2>3 DEF GraphValid
<1>4. QED
  BY <1>2, <1>3

\* The dispatcher never finds nothing to start and nothing running, with tasks
\* still pending, unless one of them depends on a task that failed or was skipped.
StallExplained ==
  (/\ validated /\ ~IsComplete /\ ReadyTasks = {}
   /\ \A t \in Task : status[t] # "running")
    => \E t \in Task : /\ status[t] = "pending"
                       /\ \E d \in dependsOn[t] : status[d] \in {"failed", "skipped"}

\* Because Validate accepts no cycle and no dependency that is not in the graph,
\* a graph in which nothing is ready or runs is complete or has a failure upstream
\* of what is left, for any number of tasks.
THEOREM StallExplainedHolds == Spec => []StallExplained
<1>1. Init => GraphValid
  BY DEF Init, GraphValid
<1>2. IInv /\ GraphValid => StallExplained
  <2> SUFFICES ASSUME IInv, GraphValid, validated, ~IsComplete, ReadyTasks = {},
                      \A t \in Task : status[t] # "running"
               PROVE  \E t \in Task : /\ status[t] = "pending"
                                      /\ \E d \in dependsOn[t] : status[d] \in {"failed", "skipped"}
    BY DEF StallExplained
  <2> DEFINE S == {t \in Task : status[t] = "pending"}
  <2>1. S \in SUBSET Tasks /\ S # {}
    BY DEF IsComplete, Tasks
  <2>2. PICK t \in S : dependsOn[t] \intersect S = {}
    BY <2>1 DEF GraphValid
  <2>3. dependsOn[t] \subseteq Tasks
    BY <2>1 DEF GraphValid
  <2>4. PICK d \in dependsOn[t] : status[d] # "done"
    BY DEF ReadyTasks, allDepsComplete
  <2>5. d \in Task /\ status[d] \in Status /\ status[d] \notin {"running", "pending", "done"}
    BY <2>2, <2>3, <2>4 DEF Tasks, IInv, TypeOK
  <2>6. QED
    BY <2>5 DEF Status
<1>3. QED
  BY InitIInv, NextIInv, GraphValidKept, <1>1, <1>2, PTL DEF Spec

-------------------------------------------------------------------------------
(* What the cascade of a permanent failure reaches. *)

\* Before validation nothing was started; a task never started is pending or
\* skipped, and skipped if something it depends on is.
SkipInv ==
  /\ ~validated => /\ ready = {}
                   /\ \A u \in Task : dispatched[u] = 0 /\ status[u] \in {"absent", "pending"}
  /\ \A u \in Task : dispatched[u] = 0 => status[u] \in {"absent", "pending", "skipped"}
  /\ \A u \in Tasks : \A d \in dependsOn[u] :
       status[d] = "skipped" /\ dispatched[u] = 0 => status[u] = "skipped"

\* Only a task that was started is charged.
LEMMA ChargedWasStarted ==
  ASSUME IInv, NEW f \in Task, executing[f] > 0 \/ f \in stale
  PROVE  dispatched[f] > 0
<1>1. Accounts(f) /\ executing[f] \in Nat /\ retryCount[f] \in Nat /\ dispatched[f] \in Nat
  BY DEF IInv, TypeOK
<1>2. Held(f) \in Nat /\ (f \in stale => Held(f) = 1)
  BY DEF Held
<1>3. retryCount[f] + executing[f] + Held(f) <= 2 * dispatched[f]
  BY <1>1 DEF Accounts
<1>4. QED
  BY <1>1, <1>2, <1>3

\* The statuses a permanent failure leaves: its cascade turns the pending tasks
\* of Downstream to skipped and leaves the others alone.
LEMMA FailLeaves ==
  ASSUME TypeOK, NEW f \in Task, Fail(f), retryCount[f] + 1 > MaxRetries[f]
  PROVE  \E D \in SUBSET Task :
           /\ \A u \in D : /\ u # f /\ status[u] = "pending" /\ status'[u] = "skipped"
                           /\ dependsOn[u] \intersect (D \union {f}) # {}
           /\ \A u \in Task \ (D \union {f}) :
                /\ status'[u] = status[u]
                /\ status[u] = "pending" => dependsOn[u] \intersect (D \union {f}) = {}
           /\ status'[f] = "failed"
<1> DEFINE failed == [status EXCEPT ![f] = "failed"]
           D == Downstream(failed, f)
<1>1. status' = [u \in Task |-> IF u \in D THEN "skipped" ELSE failed[u]]
  <2>1. ~(retryCount[f] + 1 <= MaxRetries[f])
    BY MaxRetriesAssumption DEF TypeOK
  <2>2. QED
    BY <2>1 DEF Fail
<1>2. /\ failed[f] = "failed"
      /\ \A u \in Task \ {f} : failed[u] = status[u]
  BY DEF TypeOK
<1>3. /\ D \subseteq Task
      /\ DirectDownstream(failed, D \union {f}) \subseteq D
      /\ D \subseteq DirectDownstream(failed, D \union {f})
  <2> HIDE DEF failed
  <2> QED
    BY DownstreamExact
<1> HIDE DEF D, failed
<1>4. \A u \in D : failed[u] = "pending" /\ dependsOn[u] \intersect (D \union {f}) # {}
  BY <1>3 DEF DirectDownstream
<1>5. \A u \in Task \ D : failed[u] = "pending" => dependsOn[u] \intersect (D \union {f}) = {}
  BY <1>3 DEF DirectDownstream
<1>6. f \notin D
  BY <1>2, <1>4
<1>7. \A u \in D : /\ u # f /\ status[u] = "pending" /\ status'[u] = "skipped"
                   /\ dependsOn[u] \intersect (D \union {f}) # {}
  BY <1>1, <1>2, <1>3, <1>4, <1>6
<1>8. \A u \in Task \ (D \union {f}) :
        /\ status'[u] = status[u]
        /\ status[u] = "pending" => dependsOn[u] \intersect (D \union {f}) = {}
  BY <1>1, <1>2, <1>5
<1>9. status'[f] = "failed"
  BY <1>1, <1>2, <1>6
<1>10. QED
  BY <1>3, <1>7, <1>8, <1>9

LEMMA FailKeepsSkipInv ==
  ASSUME IInv, GraphValid, SkipInv, NEW f \in Task, Fail(f), dispatched[f] > 0,
         UNCHANGED <<dependsOn, validated, dispatched, ready>>
  PROVE  SkipInv'
<1>1. TypeOK /\ validated
  BY DEF IInv, SkipInv
<1>2. dispatched[f] # 0 /\ dispatched[f] \in Nat
  BY <1>1 DEF TypeOK
<1>3. CASE retryCount[f] + 1 <= MaxRetries[f]
  <2>1. status' = [status EXCEPT ![f] = "pending"]
    <3>1. ~(retryCount[f] + 1 > MaxRetries[f])
      BY <1>1, <1>3, MaxRetriesAssumption DEF TypeOK
    <3>2. QED
      BY <3>1 DEF Fail
  <2>2. status'[f] = "pending" /\ \A u \in Task \ {f} : status'[u] = status[u]
    BY <1>1, <2>1 DEF TypeOK
  <2>3. ASSUME NEW u \in Task, dispatched[u] = 0 PROVE u # f /\ status'[u] = status[u]
    BY <1>2, <2>2, <2>3
  <2>4. \A d \in Task : status'[d] = "skipped" => status[d] = "skipped"
    BY <2>2
  <2>5. \A u \in Task : dependsOn[u] \subseteq Task
    BY <1>1 DEF TypeOK
  <2>6. QED
    BY <1>1, <2>3, <2>4, <2>5 DEF SkipInv, Tasks
<1>4. CASE ~(retryCount[f] + 1 <= MaxRetries[f])
  <2>1. retryCount[f] + 1 > MaxRetries[f]
    BY <1>1, <1>4, MaxRetriesAssumption DEF TypeOK
  <2>2. PICK D \in SUBSET Task :
           /\ \A u \in D : /\ u # f /\ status[u] = "pending" /\ status'[u] = "skipped"
                           /\ dependsOn[u] \intersect (D \union {f}) # {}
           /\ \A u \in Task \ (D \union {f}) :
                /\ status'[u] = status[u]
                /\ status[u] = "pending" => dependsOn[u] \intersect (D \union {f}) = {}
           /\ status'[f] = "failed"
    BY <1>1, <2>1, FailLeaves
  <2>3. ASSUME NEW u \in Task, dispatched[u] = 0
        PROVE  u # f /\ status'[u] \in {"absent", "pending", "skipped"}
               /\ (status[u] = "skipped" => status'[u] = "skipped")
    BY <1>2, <2>2, <2>3 DEF SkipInv
  <2>4. ASSUME NEW u \in Task, status'[u] # "absent", NEW d \in dependsOn[u],
               status'[d] = "skipped", dispatched[u] = 0
        PROVE  status'[u] = "skipped"
    <3>1. u # f /\ d \in Task /\ d # f
      BY <1>1, <1>2, <2>2, <2>4 DEF TypeOK
    <3>2. status[u] # "absent"
      BY <2>2, <2>4, <3>1
    <3>3. CASE d \in D
      BY <2>2, <2>3, <2>4, <3>1, <3>2, <3>3 DEF SkipInv
    <3>4. CASE d \notin D
      BY <2>2, <2>3, <2>4, <3>1, <3>2, <3>4 DEF SkipInv, Tasks
    <3>5. QED
      BY <3>3, <3>4
  <2>5. QED
    BY <1>1, <2>3, <2>4 DEF SkipInv, Tasks
<1>5. QED
  BY <1>3, <1>4

LEMMA SkipInvKept == IInv /\ GraphValid /\ SkipInv /\ [Next]_vars => SkipInv'
<1> SUFFICES ASSUME IInv, GraphValid, SkipInv, [Next]_vars PROVE SkipInv'
  OBVIOUS
<1>0. TypeOK
  BY DEF IInv
<1>1. ASSUME NEW t \in Task, AddTask(t) PROVE SkipInv'
  BY <1>0, <1>1 DEF AddTask, SkipInv, TypeOK, Tasks
<1>2. ASSUME Validate \/ (\E S \in SUBSET Task : CollectStale(S)) PROVE SkipInv'
  BY <1>2 DEF Validate, CollectStale, SkipInv, Tasks
<1>3. ASSUME ScanReady PROVE SkipInv'
  BY <1>3 DEF ScanReady, SkipInv, Tasks
<1>4. ASSUME NEW t \in Task, MarkRunning(t) PROVE SkipInv'
  BY <1>0, <1>4 DEF MarkRunning, SkipInv, TypeOK, Tasks
<1>5. ASSUME NEW t \in Task, MarkDone(t) PROVE SkipInv'
  <2>1. dispatched[t] > 0
    BY <1>5, ChargedWasStarted DEF MarkDone
  <2>2. QED
    BY <1>0, <1>5, <2>1 DEF MarkDone, SkipInv, TypeOK, Tasks
<1>6. ASSUME NEW t \in Task, MarkFailed(t) \/ FailStale(t) PROVE SkipInv'
  <2>1. dispatched[t] > 0
    BY <1>6, ChargedWasStarted DEF MarkFailed, FailStale
  <2>2. QED
    BY <1>6, <2>1, FailKeepsSkipInv DEF MarkFailed, FailStale
<1>7. ASSUME UNCHANGED vars PROVE SkipInv'
  BY <1>7 DEF vars, SkipInv, Tasks
<1>8. QED
  BY <1>1, <1>2, <1>3, <1>4, <1>5, <1>6, <1>7 DEF Next

\* What CascadeExact says of a step.
Cascade ==
  \A t \in Task : FailsForGood(t) =>
    /\ \A u \in Task :
         status'[u] = "skipped" /\ status[u] # "skipped" => u \in Dependents(t)
    /\ \A u \in Dependents(t) \intersect Tasks :
         (\A d \in Between(t, u) : dispatched[d] = 0) => status'[u] = "skipped"

\* What lies behind a task that something depends on lies behind that, too.
LEMMA UpstreamOfDependency ==
  ASSUME dependsOn \in [Task -> SUBSET Task], NEW t \in Task, NEW d \in dependsOn[t]
  PROVE  d \in Upstream(t) /\ Upstream(d) \subseteq Upstream(t)
<1>1. d \in Task /\ d \in Upstream(t) /\ Upstream(t) \in SUBSET Task
  BY UpstreamExact
<1>2. dependsOn[d] \subseteq Upstream(t) /\ \A e \in Upstream(t) : dependsOn[e] \subseteq Upstream(t)
  BY <1>1, UpstreamExact
<1>3. QED
  BY <1>1, <1>2, UpstreamExact

LEMMA FailCascades ==
  ASSUME IInv, GraphValid, SkipInv, NEW f \in Task, Fail(f), dispatched[f] > 0
  PROVE  Cascade
<1>0. TypeOK /\ validated /\ dispatched[f] # 0
  BY DEF IInv, SkipInv, TypeOK
<1>1. dependsOn \in [Task -> SUBSET Task]
  BY <1>0 DEF TypeOK
<1> SUFFICES ASSUME NEW t \in Task, FailsForGood(t)
             PROVE  /\ \A u \in Task :
                         status'[u] = "skipped" /\ status[u] # "skipped" => u \in Dependents(t)
                    /\ \A u \in Dependents(t) \intersect Tasks :
                         (\A d \in Between(t, u) : dispatched[d] = 0) => status'[u] = "skipped"
  BY DEF Cascade
<1>2. f = t
  <2>1. retryCount' = [retryCount EXCEPT ![f] = @ + 1] /\ retryCount[t] \in Nat
    BY <1>0 DEF Fail, TypeOK
  <2>2. QED
    BY <1>0, <2>1 DEF FailsForGood, TypeOK
<1>3. retryCount[f] + 1 > MaxRetries[f]
  BY <1>0, <1>2 DEF Fail, FailsForGood, TypeOK
<1>4. PICK D \in SUBSET Task :
         /\ \A u \in D : /\ u # f /\ status[u] = "pending" /\ status'[u] = "skipped"
                         /\ dependsOn[u] \intersect (D \union {f}) # {}
         /\ \A u \in Task \ (D \union {f}) :
              /\ status'[u] = status[u]
              /\ status[u] = "pending" => dependsOn[u] \intersect (D \union {f}) = {}
         /\ status'[f] = "failed"
  BY <1>0, <1>3, FailLeaves
<1>5. D \subseteq Dependents(f)
  <2> DEFINE S == D \ Dependents(f)
  <2>1. S \in SUBSET Tasks
    BY <1>4 DEF Tasks
  <2> SUFFICES ASSUME S # {} PROVE FALSE
    OBVIOUS
  <2>2. PICK u \in S : dependsOn[u] \intersect S = {}
    BY <1>0, <2>1 DEF GraphValid
  <2>3. PICK d \in dependsOn[u] : d \in D \union {f}
    BY <1>4, <2>2
  <2>4. d \in Upstream(u) /\ Upstream(d) \subseteq Upstream(u)
    BY <1>1, <2>2, <2>3, UpstreamOfDependency
  <2>5. d = f \/ f \in Upstream(d)
    BY <2>2, <2>3 DEF Dependents
  <2>6. QED
    BY <2>2, <2>4, <2>5 DEF Dependents
<1>6. ASSUME NEW u \in Dependents(f) \intersect Tasks, \A d \in Between(f, u) : dispatched[d] = 0
      PROVE  status'[u] = "skipped"
  <2> SUFFICES ASSUME status'[u] # "skipped" PROVE FALSE
    OBVIOUS
  <2> DEFINE way == Upstream(u) \union {u}
             left == {d \in way \intersect Dependents(f) : status'[d] # "skipped"}
             apart == {e \in Task \ Dependents(f) : e # f}
             X == left \union apart
  <2>1. u \in Task /\ f \in Upstream(u) /\ Upstream(u) \in SUBSET Task /\ way \in SUBSET Tasks
    <3>1. u \in Task /\ f \in Upstream(u) /\ Upstream(u) \in SUBSET Task
      BY <1>1, UpstreamExact DEF Dependents
    <3>2. Tasks \in SUBSET Task /\ \A d \in Tasks : dependsOn[d] \subseteq Tasks
      BY <1>0 DEF GraphValid, Tasks
    <3>3. Upstream(u) \subseteq Tasks
      BY <1>1, <3>1, <3>2, UpstreamExact
    <3>4. QED
      BY <3>1, <3>3
  <2>2. ASSUME NEW d \in left PROVE dependsOn[d] \subseteq X
    <3>1. d \in Tasks /\ d \in Task /\ d # f /\ dispatched[d] = 0
      BY <1>0, <1>6, <2>1 DEF Between, Tasks
    <3>2. status[d] = "pending" /\ d \notin D
      BY <1>4, <3>1 DEF SkipInv, Tasks
    <3>3. dependsOn[d] \intersect (D \union {f}) = {}
      BY <1>4, <3>1, <3>2
    <3>4. ASSUME NEW e \in dependsOn[d] PROVE e \in X
      <4>1. e \in Task /\ e # f /\ e \notin D
        BY <1>1, <3>1, <3>3
      <4>2. status'[e] # "skipped"
        BY <1>4, <3>1, <3>2, <4>1 DEF SkipInv
      <4>3. e \in Upstream(u)
        <5>1. dependsOn[u] \subseteq Upstream(u)
              /\ \A v \in Upstream(u) : dependsOn[v] \subseteq Upstream(u)
          BY <1>1, <2>1, UpstreamExact
        <5>2. QED
          BY <5>1
      <4>4. QED
        BY <4>1, <4>2, <4>3
    <3>5. QED
      BY <3>4
  <2>3. ASSUME NEW e \in apart PROVE dependsOn[e] \subseteq X
    <3>1. ASSUME NEW d \in dependsOn[e] PROVE d \in Task /\ d # f /\ d \notin Dependents(f)
      <4>1. d \in Task /\ d \in Upstream(e) /\ Upstream(d) \subseteq Upstream(e)
        BY <1>1, UpstreamOfDependency
      <4>2. QED
        BY <4>1 DEF Dependents
    <3>2. QED
      BY <3>1
  <2>4. u \in left
    OBVIOUS
  <2>5. X \in SUBSET Task
    BY <2>1
  <2>6. f \notin X
    <3>1. \A d \in left : d # f
      BY <1>0, <1>6 DEF Between
    <3>2. QED
      BY <3>1
  <2> HIDE DEF left, apart
  <2>7. Upstream(u) \subseteq X
    BY <1>1, <2>1, <2>2, <2>3, <2>4, <2>5, UpstreamExact
  <2>8. QED
    BY <2>1, <2>6, <2>7
<1>7. ASSUME NEW u \in Task, status'[u] = "skipped", status[u] # "skipped"
      PROVE  u \in Dependents(f)
  BY <1>4, <1>5, <1>7
<1>8. QED
  BY <1>2, <1>6, <1>7

LEMMA NextCascades == IInv /\ GraphValid /\ SkipInv /\ [Next]_vars => [Cascade]_vars
<1> SUFFICES ASSUME IInv, GraphValid, SkipInv, Next PROVE Cascade
  OBVIOUS
<1>1. TypeOK
  BY DEF IInv
<1>2. ASSUME NEW t \in Task, MarkFailed(t) \/ FailStale(t) PROVE Cascade
  <2>1. dispatched[t] > 0
    BY <1>2, ChargedWasStarted DEF MarkFailed, FailStale
  <2>2. QED
    BY <1>2, <2>1, FailCascades DEF MarkFailed, FailStale
<1>3. ASSUME retryCount' = retryCount PROVE Cascade
  BY <1>1, <1>3 DEF Cascade, FailsForGood, TypeOK
<1>4. QED
  BY <1>2, <1>3 DEF Next, AddTask, Validate, ScanReady, MarkRunning, MarkDone, CollectStale

\* A permanent failure skips only tasks behind the failed one, directly or
\* transitively, and all of them that were never started and are reached
\* through tasks never started, whatever the graph (skipDownstream): the walk
\* stops early nowhere else than at a dependent that was already started.
THEOREM CascadeExactHolds == Spec => CascadeExact
<1>1. Init => GraphValid /\ SkipInv
  BY DEF Init, GraphValid, SkipInv, Tasks
<1>2. IInv /\ GraphValid /\ SkipInv /\ [Next]_vars =>
        [ \A t \in Task : FailsForGood(t) =>
            /\ \A u \in Task :
                 status'[u] = "skipped" /\ status[u] # "skipped" => u \in Dependents(t)
            /\ \A u \in Dependents(t) \intersect Tasks :
                 (\A d \in Between(t, u) : dispatched[d] = 0) => status'[u] = "skipped" ]_vars
  BY NextCascades DEF Cascade
<1>3. QED
  BY InitIInv, NextIInv, GraphValidKept, SkipInvKept, <1>1, <1>2, PTL DEF Spec, CascadeExact

-------------------------------------------------------------------------------
(* The graph implements the retry discipline. *)

\* MarkFailed's body is a charge of the abstract queue: the task comes back on
\* offer, or it leaves with the dependents it skips.
LEMMA FailCharges ==
  ASSUME TypeOK, NEW t \in Task, Fail(t), UNCHANGED dispatched
  PROVE  Retries!Reoffer(t) \/ Retries!Exhaust(t)
<1> USE DEF TypeOK, Status
<1>0. retryCount[t] \in Nat /\ MaxRetries[t] \in Nat
  BY MaxRetriesAssumption
<1>1. CASE retryCount[t] + 1 <= MaxRetries[t]
  <2>1. status' = [status EXCEPT ![t] = "pending"]
    <3>1. ~(retryCount[t] + 1 > MaxRetries[t])
      BY <1>0, <1>1
    <3>2. QED
      BY <3>1 DEF Fail
  <2>2. {u \in Task : status'[u] = "pending"} = {u \in Task : status[u] = "pending"} \union {t}
    BY <2>1
  <2>3. QED
    BY <1>1, <2>2 DEF Fail, Retries!Reoffer
<1>2. CASE retryCount[t] + 1 > MaxRetries[t]
  <2>1. status'[t] # "pending"
    <3>1. ~(retryCount[t] + 1 <= MaxRetries[t])
      BY <1>0, <1>2
    <3>2. QED
      BY <3>1 DEF Fail
  <2>2. \A u \in Task \ {t} : status'[u] \in {status[u], "skipped"}
    BY FailTypes
  <2>3. {u \in Task : status'[u] = "pending"} \in SUBSET ({u \in Task : status[u] = "pending"} \ {t})
    BY <2>1, <2>2
  <2>4. QED
    BY <1>2, <2>3 DEF Fail, Retries!Exhaust
<1>3. QED
  BY <1>0, <1>1, <1>2

LEMMA NextRefines == IInv /\ [Next]_vars => [Retries!Next]_(Retries!vars)
<1> SUFFICES ASSUME IInv, [Next]_vars PROVE [Retries!Next]_(Retries!vars)
  OBVIOUS
<1> USE DEF IInv, TypeOK, Status
<1>1. ASSUME NEW t \in Task, AddTask(t) PROVE Retries!Offer
  <2>1. Accounts(t)
    OBVIOUS
  <2>2. dispatched[t] = 0
    BY <1>1, <2>1 DEF AddTask, Accounts
  <2>3. retryCount[t] = 0
    <3>1. retryCount[t] \in Nat /\ executing[t] \in Nat /\ Held(t) \in Nat
      BY DEF Held
    <3>2. retryCount[t] + executing[t] + Held(t) <= 2 * dispatched[t]
      BY <2>1 DEF Accounts
    <3>3. QED
      BY <2>2, <3>1, <3>2
  <2>4. {u \in Task : status'[u] = "pending"} = {u \in Task : status[u] = "pending"} \union {t}
    BY <1>1 DEF AddTask
  <2>5. QED
    BY <1>1, <2>2, <2>3, <2>4 DEF AddTask, Retries!Offer
<1>2. ASSUME NEW t \in Task, MarkRunning(t)
      PROVE  \/ \E S \in SUBSET {u \in Task : status[u] = "pending"} : Retries!HandOut(S)
             \/ UNCHANGED Retries!vars
  <2>1. CASE status[t] = "pending"
    <3>1. {u \in Task : status'[u] = "pending"} = {u \in Task : status[u] = "pending"} \ {t}
      BY <1>2, <2>1 DEF MarkRunning
    <3>2. dispatched' = [u \in Task |-> dispatched[u] + (IF u \in {t} THEN 1 ELSE 0)]
      BY <1>2, <2>1 DEF MarkRunning
    <3>3. t \in {u \in Task : status[u] = "pending"} /\ retryCount' = retryCount
      BY <1>2, <2>1 DEF MarkRunning
    <3>4. Retries!HandOut({t})
      BY <3>1, <3>2, <3>3 DEF Retries!HandOut
    <3>5. QED
      BY <3>3, <3>4
  <2>2. CASE status[t] # "pending"
    BY <1>2, <2>2 DEF MarkRunning, Retries!vars
  <2>3. QED
    BY <2>1, <2>2
<1>3. ASSUME NEW t \in Task, MarkDone(t) PROVE Retries!Withdraw
  <2>1. {u \in Task : status'[u] = "pending"} \in SUBSET {u \in Task : status[u] = "pending"}
    BY <1>3 DEF MarkDone
  <2>2. QED
    BY <1>3, <2>1 DEF MarkDone, Retries!Withdraw
<1>4. ASSUME NEW t \in Task, MarkFailed(t) \/ FailStale(t)
      PROVE  Retries!Reoffer(t) \/ Retries!Exhaust(t)
  BY <1>4, FailCharges DEF MarkFailed, FailStale
<1>5. ASSUME \/ Validate
             \/ ScanReady
             \/ \E S \in SUBSET Task : CollectStale(S)
             \/ UNCHANGED vars
      PROVE  UNCHANGED Retries!vars
  BY <1>5 DEF Validate, ScanReady, CollectStale, vars, Retries!vars
<1>6. QED
  BY <1>1, <1>2, <1>3, <1>4, <1>5 DEF Next, Retries!Next

\* Every behaviour of the graph is one of the abstract retry queue: a task is
\* handed out only from the queue, and each return to it costs one retry within
\* the budget.
THEOREM RefinesRetryQueue == Spec => ImplementsRetryQueue
<1>1. Init => Retries!Init
  BY DEF Init, Retries!Init
<1>2. QED
  BY InitIInv, NextIInv, NextRefines, <1>1, PTL DEF Spec, ImplementsRetryQueue, Retries!Spec

-------------------------------------------------------------------------------
(* The retry discipline itself, of whatever store: its bound on executions    *)
(* is inherited by everything shown to implement it.                          *)

CONSTANT Budget
VARIABLES offered, handedOut, charged

Discipline == INSTANCE RetryQueue

\* Every execution but the first was paid for by a retry, and a task on offer
\* has already paid for the execution it is offered for.
Paid ==
  \A t \in Task :
    /\ handedOut[t] <= charged[t] + 1
    /\ t \in offered => handedOut[t] <= charged[t] /\ charged[t] <= Budget[t]

DisciplineInv == Discipline!TypeOK /\ Paid /\ Discipline!BoundedAttempts

LEMMA DisciplineInvInductive ==
  ASSUME Budget \in [Task -> Nat], DisciplineInv, [Discipline!Next]_(Discipline!vars)
  PROVE  DisciplineInv'
<1> USE DEF DisciplineInv, Discipline!TypeOK, Paid, Discipline!BoundedAttempts
<1>1. ASSUME Discipline!Offer PROVE DisciplineInv'
  BY <1>1 DEF Discipline!Offer
<1>2. ASSUME NEW S \in SUBSET offered, Discipline!HandOut(S) PROVE DisciplineInv'
  <2>1. \A t \in Task : handedOut'[t] = IF t \in S THEN handedOut[t] + 1 ELSE handedOut[t]
    BY <1>2 DEF Discipline!HandOut
  <2>2. offered' = offered \ S /\ S \subseteq offered /\ charged' = charged
    BY <1>2 DEF Discipline!HandOut
  <2>3. handedOut' \in [Task -> Nat]
    BY <1>2 DEF Discipline!HandOut
  <2>4. QED
    BY <2>1, <2>2, <2>3
<1>3. ASSUME NEW t \in Task, Discipline!Reoffer(t) PROVE DisciplineInv'
  BY <1>3 DEF Discipline!Reoffer
<1>4. ASSUME NEW t \in Task, Discipline!Exhaust(t) PROVE DisciplineInv'
  BY <1>4 DEF Discipline!Exhaust
<1>5. ASSUME Discipline!Withdraw PROVE DisciplineInv'
  BY <1>5 DEF Discipline!Withdraw
<1>6. ASSUME UNCHANGED Discipline!vars PROVE DisciplineInv'
  BY <1>6 DEF Discipline!vars
<1>7. QED
  BY <1>1, <1>2, <1>3, <1>4, <1>5, <1>6 DEF Discipline!Next

\* A store that keeps to the retry discipline executes no task more than
\* Budget + 1 times.  The budgets of the tasks on offer at the start count from
\* zero, so the bound is the same for them.
THEOREM AttemptsBounded ==
  ASSUME Budget \in [Task -> Nat]
  PROVE  Discipline!Spec => []Discipline!BoundedAttempts
<1>1. Discipline!Init => DisciplineInv
  BY DEF Discipline!Init, DisciplineInv, Discipline!TypeOK, Paid, Discipline!BoundedAttempts
<1>2. DisciplineInv /\ [Discipline!Next]_(Discipline!vars) => DisciplineInv'
  BY DisciplineInvInductive
<1>3. DisciplineInv => Discipline!BoundedAttempts
  BY DEF DisciplineInv
<1>4. QED
  BY <1>1, <1>2, <1>3, PTL DEF Discipline!Spec

===============================================================================
