------------------------- MODULE ExpertRoutingProofs --------------------------
(***************************************************************************)
(* Proofs about the mixture-of-experts router, for any experts, prices,    *)
(* skills, similarities, tasks, requests and latencies.                    *)
(***************************************************************************)
EXTENDS ExpertRouting, FiniteSetTheorems, WellFoundedInduction, TLAPS

\* A non-empty set of naturals has a least element.
LEMMA LeastExists ==
  ASSUME NEW S \in SUBSET Nat, S # {}
  PROVE  Min(S) \in S /\ \A y \in S : Min(S) <= y
<1> DEFINE less == OpToRel(<, Nat)
<1>1. IsWellFoundedOn(less, Nat)
  BY NatLessThanWellFounded
<1>2. \A x, y \in Nat : y < x => <<y, x>> \in less
  BY DEF OpToRel
<1> HIDE DEF less
<1>3. PICK x \in S : \A y \in S : <<y, x>> \notin less
  BY <1>1, WFMin
<1>4. \A y \in S : ~(y < x)
  BY <1>2, <1>3
<1>5. \A y \in S : x <= y
  BY <1>4
<1>6. QED
  BY <1>5 DEF Min

\* A finite one has a greatest: a least set without one would lose an element and have one.
LEMMA GreatestExists ==
  ASSUME NEW S \in SUBSET Nat, S # {}, IsFiniteSet(S)
  PROVE  Max(S) \in S /\ \A y \in S : y <= Max(S)
<1> DEFINE Topped(T) == \E x \in T : \A y \in T : x >= y
           sizes == {n \in Nat : \E T \in SUBSET Nat : /\ T # {} /\ IsFiniteSet(T)
                                                       /\ Cardinality(T) = n /\ ~Topped(T)}
<1>1. sizes = {}
  <2> SUFFICES ASSUME sizes # {} PROVE FALSE
    OBVIOUS
  <2> DEFINE n == Min(sizes)
  <2>1. n \in sizes /\ \A m \in sizes : n <= m
    <3>1. sizes \in SUBSET Nat
      OBVIOUS
    <3> HIDE DEF sizes
    <3>2. QED
      BY <3>1, LeastExists
  <2>2. PICK T \in SUBSET Nat : T # {} /\ IsFiniteSet(T) /\ Cardinality(T) = n /\ ~Topped(T)
    BY <2>1
  <2> HIDE DEF n
  <2>3. PICK t \in T : TRUE
    BY <2>2
  <2>4. IsFiniteSet(T \ {t}) /\ Cardinality(T \ {t}) = n - 1 /\ Cardinality(T \ {t}) \in Nat /\ n \in Nat
    BY <2>1, <2>2, <2>3, FS_RemoveElement, FS_CardinalityType
  <2>5. n - 1 \notin sizes
    <3> HIDE DEF sizes
    <3> QED
      BY <2>1, <2>4
  <2>6. T \ {t} # {} => Topped(T \ {t})
    BY <2>4, <2>5
  <2>7. Topped(T)
    BY <2>3, <2>6
  <2>8. QED
    BY <2>2, <2>7
<1>2. Cardinality(S) \in Nat
  BY FS_CardinalityType
<1>3. Topped(S)
  BY <1>1, <1>2
<1>4. QED
  BY <1>3 DEF Max

\* The values of a function on a finite set are finitely many.
LEMMA ImageFinite ==
  ASSUME NEW S, IsFiniteSet(S), NEW f, f = [x \in S |-> f[x]]
  PROVE  IsFiniteSet({f[x] : x \in S})
<1>1. f \in Surjection(S, {f[x] : x \in S})
  BY DEF Surjection
<1>2. QED
  BY <1>1, FS_Surjection

\* Quotients: their bounds, and that they grow with what is divided.
LEMMA Quotient ==
  ASSUME NEW a \in Nat, NEW b \in Nat \ {0}
  PROVE  /\ a \div b \in Nat
         /\ b * (a \div b) <= a /\ a < b * (a \div b) + b
<1>1. a \div b \in Int /\ a % b \in 0..b - 1 /\ a = b * (a \div b) + (a % b)
  OBVIOUS
<1>2. b * (a \div b) \in Int
  BY <1>1
<1>3. b * (a \div b) <= a /\ a < b * (a \div b) + b
  BY <1>1, <1>2
<1>4. a \div b >= 0
  <2> SUFFICES ASSUME a \div b <= -1 PROVE FALSE
    BY <1>1
  <2>1. b * (a \div b) <= b * (-1)
    BY <1>1
  <2>2. QED
    BY <1>2, <1>3, <2>1
<1>5. QED
  BY <1>1, <1>3, <1>4

LEMMA QuotientGrows ==
  ASSUME NEW a \in Nat, NEW c \in Nat, a <= c, NEW b \in Nat \ {0}
  PROVE  a \div b <= c \div b
<1>1. /\ a \div b \in Nat /\ c \div b \in Nat
      /\ b * (a \div b) <= a /\ c < b * (c \div b) + b
  BY Quotient
<1> SUFFICES ASSUME a \div b >= c \div b + 1 PROVE FALSE
  BY <1>1
<1> DEFINE x == a \div b
           y == c \div b
<1>2. x \in Nat /\ y \in Nat /\ x >= y + 1 /\ b * x <= a /\ c < b * y + b
  BY <1>1
<1> HIDE DEF x, y
<1>3. b * x >= b * (y + 1) /\ b * (y + 1) = b * y + b
  BY <1>2
<1>4. QED
  BY <1>2, <1>3

\* A share of a whole, in thousandths.
LEMMA Share ==
  ASSUME NEW a \in Nat, NEW b \in Nat \ {0}, a <= b
  PROVE  (1000 * a) \div b \in Nat /\ (1000 * a) \div b <= 1000
<1>1. (1000 * a) \div b <= (1000 * b) \div b
  BY QuotientGrows
<1>2. (1000 * b) \div b \in Nat /\ b * ((1000 * b) \div b) <= 1000 * b /\ (1000 * a) \div b \in Nat
  BY Quotient
<1> DEFINE z == (1000 * b) \div b
<1>3. z \in Nat /\ b * z <= 1000 * b
  BY <1>2
<1> HIDE DEF z
<1>4. z <= 1000
  <2> SUFFICES ASSUME z >= 1001 PROVE FALSE
    BY <1>3
  <2>1. b * z >= b * 1001
    BY <1>3
  <2>2. QED
    BY <1>3, <2>1
<1>5. QED
  BY <1>1, <1>2, <1>4 DEF z

\* The root of a number below 20001 squared.
LEMMA RootIs ==
  ASSUME NEW n \in Nat, n < 20001 * 20001
  PROVE  Root(n) \in Nat
<1> DEFINE above == {k \in Nat : n < (k + 1) * (k + 1)}
           k == Min(above)
<1>1. above \in SUBSET Nat /\ 20000 \in above
  BY SMTT(30)
<1>2. k \in above /\ \A j \in above : k <= j
  <2> HIDE DEF above
  <2> QED
    BY <1>1, LeastExists
<1> HIDE DEF k
<1>3. k \in 0..20000 /\ n < (k + 1) * (k + 1)
  BY <1>1, <1>2
<1>4. k * k <= n
  <2>1. CASE k = 0
    BY <2>1
  <2>2. CASE k # 0
    <3>1. k - 1 \in Nat /\ k - 1 \notin above
      <4> HIDE DEF above
      <4> QED
        BY <1>2, <1>3, <2>2
    <3>2. (k - 1 + 1) * (k - 1 + 1) \in Nat /\ k - 1 + 1 = k
      BY <3>1, <1>3
    <3>3. QED
      BY <3>1, <3>2
  <2>3. QED
    BY <2>1, <2>2
<1> DEFINE Rooted(j) == j * j <= n /\ n < (j + 1) * (j + 1)
           range == 0..20000
<1>5. Rooted(k)
  BY <1>3, <1>4, SMTT(30)
<1>6. k \in range /\ Root(n) = CHOOSE j \in range : Rooted(j)
  BY <1>3, SMTT(30) DEF Root
<1> HIDE DEF Rooted, range
<1>7. Root(n) \in range
  BY <1>5, <1>6
<1>8. \A root \in range : root \in Nat
  BY DEF range
<1>9. QED
  BY <1>7, <1>8

-------------------------------------------------------------------------------

LEMMA DotBounded ==
  ASSUME NEW m \in Nat, NEW v \in [Dimension -> 0..m], NEW w \in [Dimension -> 0..m]
  PROVE  Dot(v, w) \in Nat /\ Dot(v, w) <= 8 * (m * m)
<1> DEFINE at(d) == v[d] * w[d]
           most == m * m
<1>1. most \in Nat
  OBVIOUS
<1>2. ASSUME NEW d \in Dimension PROVE at(d) \in 0..most
  <2>1. v[d] \in 0..m /\ w[d] \in 0..m
    OBVIOUS
  <2> DEFINE x == v[d]
             y == w[d]
  <2>2. x \in 0..m /\ y \in 0..m
    BY <2>1
  <2> HIDE DEF x, y
  <2>3. x * y \in Nat /\ x * y <= m * y /\ m * y <= m * m
    BY <2>2
  <2>4. QED
    BY <2>3 DEF x, y
<1>3. Dot(v, w) = at("strategy") + at("architecture") + at("backend_code") + at("frontend_code")
        + at("testing") + at("devops") + at("cost_optimization") + at("security")
  BY DEF Dot
<1> HIDE DEF at, most
<1>4. QED
  BY <1>1, <1>2, <1>3 DEF Dimension, most

LEMMA TaskVectorIs == ASSUME NEW r \in Request PROVE TaskVector(r) \in [Dimension -> 0..9]
  BY DEF TaskVector, Hint

LEMMA CosineIs ==
  ASSUME NEW v \in [Dimension -> 0..9], NEW w \in [Dimension -> 0..20]
  PROVE  Cosine(v, w) \in Nat
<1>1. /\ Dot(v, v) \in Nat /\ Dot(v, v) <= 8 * (9 * 9)
      /\ Dot(w, w) \in Nat /\ Dot(w, w) <= 8 * (20 * 20)
      /\ Dot(v, w) \in Nat
  <2>1. v \in [Dimension -> 0..20]
    OBVIOUS
  <2>2. QED
    BY <2>1, DotBounded
<1>2. ASSUME NEW x \in Nat, NEW y \in Nat, x <= 648, y <= 3200
      PROVE  100 * x * y \in Nat /\ 100 * x * y < 20001 * 20001
  <2>1. x * y \in Nat /\ x * y <= 648 * y
    BY <1>2
  <2>2. 100 * x * y = 100 * (x * y)
    OBVIOUS
  <2>3. QED
    BY <1>2, <2>1, <2>2
<1>3. PICK n \in Nat : n = 100 * Dot(v, v) * Dot(w, w) /\ n < 20001 * 20001
  <2>1. PICK x \in Nat : x = Dot(v, v) /\ x <= 648
    BY <1>1
  <2>2. PICK y \in Nat : y = Dot(w, w) /\ y <= 3200
    BY <1>1
  <2>3. QED
    BY <1>2, <2>1, <2>2
<1>4. PICK both \in Nat : both = Dot(v, w)
  BY <1>1
<1>5. PICK root \in Nat : root = Root(n)
  BY <1>3, RootIs
<1>6. Cosine(v, w) = IF root = 0 THEN 0 ELSE Least(1000, (10000 * both) \div root)
  BY <1>3, <1>4, <1>5 DEF Cosine
<1>7. root # 0 => (10000 * both) \div root \in Nat
  BY Quotient
<1>8. QED
  BY <1>6, <1>7 DEF Least

LEMMA SimilarityIs ==
  ASSUME NEW r \in Request, NEW e \in Expert
  PROVE  Similarity[r][e] \in Nat
<1>1. Capability[e] \in [Dimension -> 0..20]
  BY RoutingAssumption
<1>2. QED
  BY <1>1, TaskVectorIs, CosineIs DEF Similarity

-------------------------------------------------------------------------------

\* The types of the variables.
RoutingTypes ==
  /\ stage \in [Task -> Stage]
  /\ request \in [Task -> Request \union {NoRequest}]
  /\ decision \in [Task -> Decision \union {NoDecision}]
  /\ batch \in SUBSET Task
  /\ load \in [Expert -> Nat] /\ total \in [Expert -> Nat]
  /\ failed \in [Expert -> Nat] /\ spent \in [Expert -> Nat]
  /\ latencies \in [Expert -> Seq(Latency)]
  /\ available \in {"unknown", "up", "down"}

\* One task: what it asks for is known while it is being routed; it has a decision
\* from then on, with a fallback other than the expert chosen.
Routed(t) ==
  /\ stage[t] \in {"batched", "single", "asked"} => request[t] \in Request
  /\ stage[t] \in {"decided", "running", "ended"} <=> decision[t] \in Decision
  /\ decision[t].expert \notin decision[t].fallback
  /\ t \in batch => stage[t] \in {"batched", "single", "asked", "decided"}

\* One expert: its load is the number of its tasks that run, none of them counted as
\* failed yet; only failures make its window of latencies longer.
RunningAt(e) == {t \in Task : stage[t] = "running" /\ decision[t].expert = e}
Booked(e) ==
  /\ IsFiniteSet(RunningAt(e)) /\ load[e] = Cardinality(RunningAt(e))
  /\ failed[e] + load[e] <= total[e]
  /\ Len(latencies[e]) <= Window + failed[e]

ExpertInv == RoutingTypes /\ (\A t \in Task : Routed(t)) /\ \A e \in Expert : Booked(e)

LEMMA ExpertsFinite ==
  /\ IsFiniteSet(Expert) /\ Experts[1] \in Expert
  /\ \A e \in Expert : Place(e) \in Nat /\ Experts[Place(e)] = e
<1>1. /\ DOMAIN Experts = 1..Len(Experts) /\ Len(Experts) \in Nat \ {0}
      /\ Expert = {Experts[i] : i \in 1..Len(Experts)}
  BY RoutingAssumption DEF Expert, Range
<1>2. IsFiniteSet(Expert)
  <2>1. Experts = [i \in 1..Len(Experts) |-> Experts[i]]
    BY RoutingAssumption
  <2>2. IsFiniteSet(1..Len(Experts))
    BY <1>1, FS_Interval
  <2>3. QED
    BY <1>1, <2>1, <2>2, ImageFinite
<1>3. ASSUME NEW e \in Expert PROVE Place(e) \in 1..Len(Experts) /\ Experts[Place(e)] = e
  BY <1>1 DEF Place
<1>4. QED
  BY <1>1, <1>2, <1>3

LEMMA RoundedIs ==
  ASSUME NEW a \in Nat, NEW b \in Nat \ {0}
  PROVE  Rounded(a, b) \in Nat
<1>1. 2 * a + b \in Nat /\ 2 * b \in Nat \ {0}
  OBVIOUS
<1>2. QED
  BY <1>1, Quotient DEF Rounded

LEMMA FactorsAre ==
  ASSUME ExpertInv, NEW e \in Expert
  PROVE  /\ LoadFactor(e) \in Nat /\ LoadFactor(e) <= 1000
         /\ SuccessRate(e) \in Nat /\ AvgCost(e) \in Nat
<1>1. /\ load[e] \in Nat /\ total[e] \in Nat /\ failed[e] \in Nat /\ spent[e] \in Nat
      /\ failed[e] <= total[e] /\ MaxConcurrent[e] \in Nat \ {0}
  BY RoutingAssumption DEF ExpertInv, RoutingTypes, Booked
<1>2. Rounded(1000 * load[e], MaxConcurrent[e]) \in Nat
  BY <1>1, RoundedIs
<1>3. total[e] # 0 => /\ Rounded(1000 * (total[e] - failed[e]), total[e]) \in Nat
                      /\ Rounded(spent[e], total[e]) \in Nat
  <2>1. 1000 * (total[e] - failed[e]) \in Nat
    BY <1>1
  <2>2. QED
    BY <1>1, <2>1, RoundedIs
<1>4. QED
  BY <1>2, <1>3 DEF LoadFactor, SuccessRate, AvgCost, Least

LEMMA ScoreIs ==
  ASSUME ExpertInv, NEW r \in Request, NEW e \in Expert
  PROVE  Score(r, e) \in Nat
<1>1. Similarity[r][e] \in Nat
  BY SimilarityIs
<1>2. QED
  BY <1>1, FactorsAre DEF Score, Least

\* Some expert is ranked before all others.
LEMMA FirstIs ==
  ASSUME ExpertInv, NEW r \in Request, NEW S \in SUBSET Expert, S # {}
  PROVE  /\ Foremost(r, S) \in S
         /\ \A o \in S \ {Foremost(r, S)} : Before(r, Foremost(r, S), o)
<1> DEFINE scores == {Score(r, e) : e \in S}
           most == Max(scores)
           tied == {e \in S : Score(r, e) = most}
           places == {Place(e) : e \in tied}
<1>1. most \in scores /\ \A n \in scores : n <= most
  <2>1. IsFiniteSet(S)
    BY ExpertsFinite, FS_Subset
  <2>2. IsFiniteSet(scores)
    <3> DEFINE score == [e \in S |-> Score(r, e)]
    <3>1. IsFiniteSet({score[e] : e \in S})
      BY <2>1, ImageFinite
    <3>2. QED
      BY <3>1
  <2>3. scores \in SUBSET Nat /\ scores # {}
    BY ScoreIs
  <2> HIDE DEF scores
  <2>4. QED
    BY <2>2, <2>3, GreatestExists
<1> HIDE DEF most
<1>2. Min(places) \in places /\ \A n \in places : Min(places) <= n
  <2>1. places \in SUBSET Nat /\ places # {}
    BY <1>1, ExpertsFinite
  <2> HIDE DEF places
  <2>2. QED
    BY <2>1, LeastExists
<1>3. PICK e \in tied : Place(e) = Min(places)
  BY <1>2
<1>4. ASSUME NEW o \in S \ {e} PROVE Before(r, e, o)
  <2>1. /\ Score(r, o) \in Nat /\ Score(r, o) <= most /\ Score(r, e) = most
        /\ Place(o) \in Nat /\ Place(e) \in Nat /\ most \in Nat
    BY <1>1, <1>3, ScoreIs, ExpertsFinite
  <2>2. Place(o) # Place(e)
    BY <1>3, <1>4, ExpertsFinite
  <2>3. Score(r, o) = most => Place(e) <= Place(o)
    BY <1>2, <1>3, <1>4
  <2>4. QED
    BY <2>1, <2>2, <2>3 DEF Before
<1>5. QED
  BY <1>3, <1>4 DEF Foremost

LEMMA DecideIs ==
  ASSUME ExpertInv, NEW r \in Request
  PROVE  /\ Decide(r) \in Decision
         /\ Decide(r).expert \notin Decide(r).fallback
         /\ Decide(r).how = "scored" =>
              \A o \in Candidates(r) \ {Decide(r).expert} : Before(r, Decide(r).expert, o)
<1> DEFINE top == Foremost(r, Candidates(r))
           others == Candidates(r) \ {top}
           second == IF others = {} THEN {} ELSE {Foremost(r, others)}
<1>1. Candidates(r) \in SUBSET Expert
  BY RoutingAssumption DEF Candidates, Skilled
<1>2. CASE Candidates(r) = {} \/ Direct(r)
  <2>1. Decide(r) \in {LastResort, [expert |-> r.direct, fallback |-> {}, how |-> "direct"]}
    BY <1>2 DEF Decide, Direct
  <2>2. (r.direct # None => r.direct \in Expert) /\ Experts[1] \in Expert
    BY RoutingAssumption, ExpertsFinite
  <2>3. Decide(r) = LastResort \/ r.direct # None
    BY <1>2 DEF Decide, Direct
  <2>4. PICK d \in Decision : d = Decide(r) /\ d.fallback = {} /\ d.how # "scored"
    <3>1. LastResort \in Decision /\ LastResort.fallback = {} /\ LastResort.how # "scored"
      BY <2>2 DEF LastResort, Decision
    <3>2. CASE r.direct # None
      <4> DEFINE d == [expert |-> r.direct, fallback |-> {}, how |-> "direct"]
      <4>1. d \in Decision /\ d.fallback = {} /\ d.how # "scored"
        BY <2>2, <3>2 DEF Decision
      <4> HIDE DEF d
      <4>2. QED
        BY <2>1, <3>1, <4>1 DEF d
    <3>3. QED
      BY <2>3, <3>1, <3>2
  <2>5. QED
    BY <2>4
<1>3. CASE Candidates(r) # {} /\ ~Direct(r)
  <2>1. top \in Candidates(r) /\ \A o \in Candidates(r) \ {top} : Before(r, top, o)
    BY <1>1, <1>3, FirstIs
  <2>2. second \subseteq others
    BY <1>1, FirstIs
  <2>3. \E back \in {{}, second} : Decide(r) = [expert |-> top, how |-> "scored", fallback |-> back]
    BY <1>3 DEF Decide
  <2> HIDE DEF top, second
  <2>4. PICK back \in {{}, second} : Decide(r) = [expert |-> top, how |-> "scored", fallback |-> back]
    BY <2>3
  <2>5. QED
    BY <1>1, <2>1, <2>2, <2>4 DEF Decision
<1>4. QED
  BY <1>2, <1>3

-------------------------------------------------------------------------------

LEMMA ExpertInvImplies == ExpertInv => TypeOK /\ LoadIsRunning
  BY DEF ExpertInv, RoutingTypes, Routed, Booked, RunningAt, TypeOK, LoadIsRunning

LEMMA NoDecisionIs == NoDecision \notin Decision /\ NoDecision.expert \notin NoDecision.fallback
<1>1. NoDecision.expert = None /\ NoDecision.fallback = {}
  BY DEF NoDecision
<1>2. \A d \in Decision : d.expert \in Expert
  BY DEF Decision
<1>3. QED
  BY <1>1, <1>2, RoutingAssumption

LEMMA ExpertInit == Init => ExpertInv
<1> SUFFICES ASSUME Init PROVE ExpertInv
  OBVIOUS
<1>1. RoutingTypes
  BY DEF Init, RoutingTypes, Stage
<1>2. ASSUME NEW t \in Task PROVE Routed(t)
  <2>1. stage[t] = "new" /\ decision[t] = NoDecision /\ batch = {}
    BY DEF Init
  <2>2. QED
    BY <2>1, NoDecisionIs DEF Routed
<1>3. ASSUME NEW e \in Expert PROVE Booked(e)
  <2>1. RunningAt(e) = {}
    BY DEF Init, RunningAt
  <2>2. Len(latencies[e]) = 0 /\ load[e] = 0 /\ failed[e] = 0 /\ total[e] = 0
    BY DEF Init
  <2>3. QED
    BY <2>1, <2>2, FS_EmptySet, RoutingAssumption DEF Booked
<1>4. QED
  BY <1>1, <1>2, <1>3 DEF ExpertInv

\* The books are about the tasks that run: routing leaves them as they are.
LEMMA RoutingKeepsBooks ==
  ASSUME ExpertInv, UNCHANGED stats,
         \A t \in Task : \/ stage'[t] = stage[t] /\ decision'[t] = decision[t]
                         \/ stage[t] # "running" /\ stage'[t] # "running"
  PROVE  \A e \in Expert : Booked(e)'
<1> SUFFICES ASSUME NEW e \in Expert PROVE Booked(e)'
  OBVIOUS
<1>1. RunningAt(e)' = RunningAt(e)
  BY DEF RunningAt
<1>2. Booked(e) /\ UNCHANGED <<load, total, failed, latencies>>
  BY DEF ExpertInv, stats
<1>3. QED
  BY <1>1, <1>2 DEF Booked

\* Tasks raised while they are routed.
LEMMA RaiseKeepsExpertInv ==
  ASSUME ExpertInv, NEW ts \in SUBSET Task, Raise(ts), available' \in {"unknown", "up", "down"},
         \A t \in ts : stage[t] \in {"new", "batched", "single", "asked", "decided"}
  PROVE  ExpertInv'
<1>1. RoutingTypes'
  BY DEF ExpertInv, RoutingTypes, Raise, Stage, stats
<1>2. ASSUME NEW t \in Task PROVE Routed(t)'
  <2>1. CASE t \in ts
    <3>1. stage'[t] = "raised" /\ decision'[t] = NoDecision /\ t \notin batch'
      BY <2>1 DEF Raise
    <3>2. QED
      BY <3>1, NoDecisionIs DEF Routed
  <2>2. CASE t \notin ts
    <3>1. /\ stage'[t] = stage[t] /\ decision'[t] = decision[t] /\ request'[t] = request[t]
          /\ t \in batch' => t \in batch
      BY <2>2 DEF Raise
    <3>2. QED
      BY <3>1 DEF ExpertInv, Routed
  <2>3. QED
    BY <2>1, <2>2
<1>3. \A e \in Expert : Booked(e)'
  BY RoutingKeepsBooks DEF Raise
<1>4. QED
  BY <1>1, <1>2, <1>3 DEF ExpertInv

\* An error takes the decisions of the batch with it, none of which has been acted on.
LEMMA LostAreRouted ==
  ASSUME ExpertInv, NEW t \in Task, stage[t] \in {"new", "batched", "single", "asked", "decided"}
  PROVE  /\ Lost(t) \in SUBSET Task
         /\ \A u \in Lost(t) : stage[u] \in {"new", "batched", "single", "asked", "decided"}
  BY DEF Lost, ExpertInv, RoutingTypes, Routed

\* route_batch.
LEMMA BatchKeepsExpertInv ==
  ASSUME ExpertInv,
         (\E ts \in SUBSET Task : RouteBatch(ts)) \/ BatchAnswered \/ BatchUnanswered \/ BatchDecided
  PROVE  ExpertInv'
<1> USE DEF ExpertInv, RoutingTypes
<1>1. CASE \E ts \in SUBSET Task : RouteBatch(ts)
  <2>1. PICK ts \in SUBSET Task : RouteBatch(ts)
    BY <1>1
  <2>2. PICK rs \in [ts -> Batchable] :
          request' = [t \in Task |-> IF t \in ts THEN rs[t] ELSE request[t]]
    BY <2>1 DEF RouteBatch
  <2>3. RoutingTypes'
    BY <2>1, <2>2 DEF RouteBatch, Batchable, Stage, stats
  <2>4. ASSUME NEW t \in Task PROVE Routed(t)'
    BY <2>1, <2>2 DEF RouteBatch, Batchable, Routed
  <2>5. \A e \in Expert : Booked(e)'
    BY <2>1, RoutingKeepsBooks DEF RouteBatch
  <2>6. QED
    BY <2>3, <2>4, <2>5
<1>2. CASE BatchAnswered
  <2>1. Raise(batch) /\ UNCHANGED available
    BY <1>2 DEF BatchAnswered
  <2>2. \A t \in batch : stage[t] \in {"new", "batched", "single", "asked", "decided"}
    BY DEF Routed
  <2>3. QED
    BY <2>1, <2>2, RaiseKeepsExpertInv
<1>3. CASE BatchUnanswered
  <2>1. RoutingTypes'
    BY <1>3 DEF BatchUnanswered, Stage, stats
  <2>2. ASSUME NEW t \in Task PROVE Routed(t)'
    BY <1>3 DEF BatchUnanswered, Batched, Routed
  <2>3. \A e \in Expert : Booked(e)'
    BY <1>3, RoutingKeepsBooks DEF BatchUnanswered, Batched
  <2>4. QED
    BY <2>1, <2>2, <2>3
<1>4. CASE BatchDecided
  <2>1. RoutingTypes' /\ \A t \in Task : Routed(t)'
    BY <1>4 DEF BatchDecided, stats, Routed
  <2>2. \A e \in Expert : Booked(e)'
    BY <1>4, RoutingKeepsBooks DEF BatchDecided
  <2>3. QED
    BY <2>1, <2>2
<1>5. QED
  BY <1>1, <1>2, <1>3, <1>4

\* route in Python.
LEMMA PythonKeepsExpertInv ==
  ASSUME ExpertInv, NEW t \in Task, NEW r \in Request, RouteInPython(t, r),
         stage[t] \in {"new", "single", "asked"}, available' \in {"unknown", "up", "down"}
  PROVE  ExpertInv'
<1>1. CASE Raises(r)
  BY <1>1, LostAreRouted, RaiseKeepsExpertInv DEF RouteInPython
<1>2. CASE ~Raises(r)
  <2> USE DEF ExpertInv, RoutingTypes
  <2>1. /\ stage' = [stage EXCEPT ![t] = "decided"] /\ request' = [request EXCEPT ![t] = NoRequest]
        /\ decision' = [decision EXCEPT ![t] = Decide(r)] /\ UNCHANGED <<batch, stats>>
    BY <1>2 DEF RouteInPython
  <2>2. Decide(r) \in Decision /\ Decide(r).expert \notin Decide(r).fallback
    BY DecideIs
  <2>3. RoutingTypes'
    BY <2>1, <2>2 DEF Stage, stats
  <2>4. ASSUME NEW u \in Task PROVE Routed(u)'
    BY <2>1, <2>2 DEF Routed
  <2>5. \A e \in Expert : Booked(e)'
    BY <2>1, RoutingKeepsBooks
  <2>6. QED
    BY <2>3, <2>4, <2>5
<1>3. QED
  BY <1>1, <1>2

\* route and route_batch.
LEMMA RoutesKeepExpertInv ==
  ASSUME ExpertInv,
         \/ \E ts \in SUBSET Task : RouteBatch(ts)
         \/ BatchAnswered \/ BatchUnanswered \/ BatchDecided
         \/ \E t \in Task : Route(t) \/ Answered(t) \/ Unanswered(t)
         \/ HealthCheck
  PROVE  ExpertInv'
<1>1. CASE HealthCheck
  <2> USE DEF ExpertInv, RoutingTypes
  <2>1. RoutingTypes' /\ \A t \in Task : Routed(t)'
    BY <1>1 DEF HealthCheck, stats, Routed
  <2>2. \A e \in Expert : Booked(e)'
    BY <1>1, RoutingKeepsBooks DEF HealthCheck
  <2>3. QED
    BY <2>1, <2>2
<1>2. ASSUME NEW t \in Task, Answered(t) PROVE ExpertInv'
  BY <1>2, LostAreRouted, RaiseKeepsExpertInv DEF Answered
<1>3. ASSUME NEW t \in Task, Unanswered(t) PROVE ExpertInv'
  <2>1. request[t] \in Request /\ stage[t] = "asked"
    BY <1>3 DEF Unanswered, ExpertInv, Routed
  <2>2. QED
    BY <1>3, <2>1, PythonKeepsExpertInv DEF Unanswered
<1>4. ASSUME NEW t \in Task, Route(t) PROVE ExpertInv'
  <2>1. PICK r \in Request :
          \/ available = "down" /\ RouteInPython(t, r)
          \/ /\ stage' = [stage EXCEPT ![t] = "asked"]
             /\ request' = [request EXCEPT ![t] = r]
             /\ UNCHANGED <<decision, batch, stats>>
    BY <1>4 DEF Route, ExpertInv, Routed
  <2>2. stage[t] \in {"new", "single"} /\ available' \in {"unknown", "up", "down"}
    BY <1>4 DEF Route, ExpertInv, RoutingTypes
  <2>3. CASE RouteInPython(t, r)
    BY <2>2, <2>3, PythonKeepsExpertInv
  <2>4. CASE /\ stage' = [stage EXCEPT ![t] = "asked"]
             /\ request' = [request EXCEPT ![t] = r]
             /\ UNCHANGED <<decision, batch, stats>>
    <3> USE DEF ExpertInv, RoutingTypes
    <3>1. RoutingTypes'
      BY <2>2, <2>4 DEF Stage, stats
    <3>2. ASSUME NEW u \in Task PROVE Routed(u)'
      BY <2>2, <2>4 DEF Routed
    <3>3. \A e \in Expert : Booked(e)'
      BY <2>2, <2>4, RoutingKeepsBooks
    <3>4. QED
      BY <3>1, <3>2, <3>3
  <2>5. QED
    BY <2>1, <2>3, <2>4
<1>5. QED
  BY <1>1, <1>2, <1>3, <1>4, BatchKeepsExpertInv

\* The registry's records of a task.
LEMMA RecordsKeepExpertInv ==
  ASSUME ExpertInv, NEW t \in Task, Start(t) \/ Complete(t) \/ Fail(t)
  PROVE  ExpertInv'
<1> USE DEF ExpertInv, RoutingTypes
<1>1. PICK e \in Expert : e = decision[t].expert /\ decision[t] \in Decision
  <2>1. decision[t] \in Decision
    BY DEF Start, Complete, Fail, Routed
  <2>2. QED
    BY <2>1 DEF Decision
<1>2. /\ load[e] \in Nat /\ total[e] \in Nat /\ failed[e] \in Nat /\ spent[e] \in Nat
      /\ latencies[e] \in Seq(Latency) /\ Len(latencies[e]) <= Window + failed[e]
      /\ IsFiniteSet(RunningAt(e)) /\ load[e] = Cardinality(RunningAt(e))
      /\ failed[e] + load[e] <= total[e] /\ Window \in Nat \ {0}
  <2>1. Booked(e) /\ Window \in Nat \ {0}
    BY RoutingAssumption
  <2>2. /\ load[e] \in Nat /\ total[e] \in Nat /\ failed[e] \in Nat /\ spent[e] \in Nat
        /\ latencies[e] \in Seq(Latency)
    OBVIOUS
  <2>3. QED
    BY <2>1, <2>2 DEF Booked
<1>3. ASSUME NEW o \in Expert \ {e} PROVE RunningAt(o)' = RunningAt(o)
  BY <1>1, <1>3 DEF RunningAt, Start, Complete, Fail
<1>4. CASE Start(t)
  <2>1. /\ stage' = [stage EXCEPT ![t] = "running"] /\ stage[t] = "decided" /\ t \notin batch
        /\ load' = [load EXCEPT ![e] = @ + 1] /\ total' = [total EXCEPT ![e] = @ + 1]
        /\ UNCHANGED <<request, decision, batch, failed, spent, latencies, available>>
    BY <1>1, <1>4 DEF Start
  <2>2. RoutingTypes'
    <3>1. stage' \in [Task -> Stage]
      BY <1>1, <2>1 DEF Stage
    <3>2. load' \in [Expert -> Nat] /\ total' \in [Expert -> Nat]
      BY <1>1, <1>2, <2>1, SMTT(30)
    <3>3. QED
      BY <2>1, <3>1, <3>2
  <2>3. ASSUME NEW u \in Task PROVE Routed(u)'
    BY <1>1, <2>1, SMTT(30) DEF Routed
  <2>4. RunningAt(e)' = RunningAt(e) \union {t} /\ t \notin RunningAt(e)
    BY <1>1, <2>1 DEF RunningAt
  <2>5. IsFiniteSet(RunningAt(e)') /\ Cardinality(RunningAt(e)') = load[e] + 1
    <3>1. IsFiniteSet(RunningAt(e)) /\ load[e] = Cardinality(RunningAt(e))
      BY <1>2
    <3>2. /\ IsFiniteSet(RunningAt(e) \union {t})
          /\ Cardinality(RunningAt(e) \union {t}) = Cardinality(RunningAt(e)) + 1
      BY <2>4, <3>1, FS_AddElement, Zenon
    <3>3. QED
      BY <2>4, <3>1, <3>2, Zenon
  <2>6. Booked(e)'
    BY <1>1, <1>2, <2>1, <2>5 DEF Booked
  <2>7. ASSUME NEW o \in Expert \ {e} PROVE Booked(o)'
    BY <1>1, <1>3, <2>1 DEF Booked
  <2>8. QED
    BY <2>2, <2>3, <2>6, <2>7
<1>5. CASE Complete(t) \/ Fail(t)
  <2>1. /\ stage' = [stage EXCEPT ![t] = "ended"] /\ stage[t] = "running"
        /\ load' = [load EXCEPT ![e] = IF @ = 0 THEN 0 ELSE @ - 1]
        /\ UNCHANGED <<request, decision, batch, total, available>>
    BY <1>1, <1>5 DEF Complete, Fail, Released
  <2>2. ASSUME NEW u \in Task PROVE Routed(u)'
    BY <1>1, <2>1 DEF Routed
  <2>3. RunningAt(e)' = RunningAt(e) \ {t} /\ t \in RunningAt(e)
    BY <1>1, <2>1 DEF RunningAt
  <2>4. /\ IsFiniteSet(RunningAt(e)') /\ Cardinality(RunningAt(e)') = load[e] - 1
        /\ load[e] # 0
    BY <1>2, <2>3, FS_RemoveElement, FS_EmptySet
  <2>5. load'[e] = load[e] - 1 /\ load' \in [Expert -> Nat]
    BY <1>1, <1>2, <2>1, <2>4
  <2>9. /\ stage' \in [Task -> Stage] /\ request' \in [Task -> Request \union {NoRequest}]
        /\ decision' \in [Task -> Decision \union {NoDecision}]
        /\ batch' \in SUBSET Task /\ total' \in [Expert -> Nat] /\ available' \in {"unknown", "up", "down"}
    BY <2>1 DEF Stage
  <2>6. CASE Complete(t)
    <3>1. PICK p \in Price, l \in Latency :
            LET appended == Append(latencies[e], l) IN
            /\ spent' = [spent EXCEPT ![e] = @ + p]
            /\ latencies' = [latencies EXCEPT ![e] =
                 IF Len(appended) > Window THEN Tail(appended) ELSE appended]
      BY <1>1, <2>6 DEF Complete
    <3> DEFINE appended == Append(latencies[e], l)
               kept == IF Len(appended) > Window THEN Tail(appended) ELSE appended
    <3>2. kept \in Seq(Latency) /\ Len(kept) <= Window + failed[e]
      <4>1. appended \in Seq(Latency) /\ Len(appended) = Len(latencies[e]) + 1
        BY <1>2
      <4> HIDE DEF appended
      <4>2. appended # <<>>
        BY <1>2, <4>1
      <4>3. Tail(appended) \in Seq(Latency) /\ Len(Tail(appended)) = Len(appended) - 1
        BY <4>1, <4>2
      <4>4. QED
        BY <1>2, <4>1, <4>3
    <3>3. latencies' = [latencies EXCEPT ![e] = kept] /\ failed' = failed
      BY <2>6, <3>1 DEF Complete
    <3>8. spent[e] + p \in Nat
      <4>1. p \in Nat /\ spent[e] \in Nat
        BY <1>2, RoutingAssumption
      <4>2. QED
        BY <4>1
    <3> HIDE DEF kept
    <3>4. RoutingTypes'
      <4>1. latencies' \in [Expert -> Seq(Latency)] /\ failed' \in [Expert -> Nat]
        BY <3>2, <3>3
      <4>2. spent' \in [Expert -> Nat]
        BY <3>1, <3>8
      <4>3. QED
        BY <2>5, <2>9, <4>1, <4>2
    <3>5. Booked(e)'
      BY <1>1, <1>2, <2>1, <2>4, <2>5, <3>2, <3>3 DEF Booked
    <3>6. ASSUME NEW o \in Expert \ {e} PROVE Booked(o)'
      BY <1>1, <1>3, <2>1, <3>3 DEF Booked
    <3>7. QED
      BY <2>2, <3>4, <3>5, <3>6
  <2>7. CASE Fail(t)
    <3>1. PICK l \in Latency : latencies' = [latencies EXCEPT ![e] = Append(@, l)]
      BY <1>1, <2>7 DEF Fail
    <3>2. /\ failed' = [failed EXCEPT ![e] = @ + 1] /\ UNCHANGED spent
          /\ Append(latencies[e], l) \in Seq(Latency)
          /\ Len(Append(latencies[e], l)) = Len(latencies[e]) + 1
      BY <1>1, <1>2, <2>7 DEF Fail
    <3>3. RoutingTypes'
      <4>1. latencies' \in [Expert -> Seq(Latency)] /\ spent' \in [Expert -> Nat]
        BY <3>1, <3>2
      <4>2. failed' \in [Expert -> Nat]
        BY <1>2, <3>2
      <4>3. QED
        BY <2>5, <2>9, <4>1, <4>2
    <3>4. Booked(e)'
      BY <1>1, <1>2, <2>1, <2>4, <2>5, <3>1, <3>2, SMTT(30) DEF Booked
    <3>5. ASSUME NEW o \in Expert \ {e} PROVE Booked(o)'
      BY <1>1, <1>3, <2>1, <3>1, <3>2 DEF Booked
    <3>6. QED
      BY <2>2, <3>3, <3>4, <3>5
  <2>8. QED
    BY <1>5, <2>6, <2>7, SMTT(30)
<1>6. QED
  BY <1>4, <1>5

LEMMA ExpertInvariant == Spec => []ExpertInv
<1>1. ExpertInv /\ [Next]_vars => ExpertInv'
  <2> SUFFICES ASSUME ExpertInv, [Next]_vars PROVE ExpertInv'
    OBVIOUS
  <2>1. CASE UNCHANGED vars
    BY <2>1 DEF vars, stats, ExpertInv, RoutingTypes, Routed, Booked, RunningAt
  <2>2. CASE \E t \in Task : Start(t) \/ Complete(t) \/ Fail(t)
    BY <2>2, RecordsKeepExpertInv
  <2>3. QED
    BY <2>1, <2>2, RoutesKeepExpertInv DEF Next
<1>2. QED
  BY <1>1, ExpertInit, PTL DEF Spec

-------------------------------------------------------------------------------

\* The window has a 95th percentile.
LEMMA P95Is ==
  ASSUME ExpertInv, NEW e \in Expert
  PROVE  P95(e) \in Nat
<1> DEFINE window == latencies[e]
           n == Len(window)
           i == (95 * n) \div 100
           rank == IF i = 0 THEN 1 ELSE i
           enough == {l \in Range(window) : Cardinality(Within(e, l)) >= rank}
<1>1. CASE window = <<>>
  BY <1>1 DEF P95
<1>2. CASE window # <<>>
  <2>1. window \in Seq(Latency) /\ Latency \subseteq Nat
    BY RoutingAssumption DEF ExpertInv, RoutingTypes
  <2>2. /\ n \in Nat \ {0} /\ DOMAIN window = 1..n /\ window = [k \in 1..n |-> window[k]]
        /\ \A k \in 1..n : window[k] \in Nat
    <3>1. \A k \in 1..n : window[k] \in Latency
      BY <2>1
    <3> HIDE DEF window
    <3>2. QED
      BY <1>2, <2>1, <3>1
  <2>3. rank \in Nat /\ rank <= n
    <3>1. i \in Nat /\ 100 * i <= 95 * n
      <4>1. 95 * n \in Nat /\ 100 \in Nat \ {0}
        BY <2>2
      <4> HIDE DEF n
      <4>2. QED
        BY <4>1, Quotient
    <3> HIDE DEF i, n
    <3>2. QED
      BY <2>2, <3>1
  <2> HIDE DEF rank
  <2>4. IsFiniteSet(1..n) /\ Cardinality(1..n) = n
    BY <2>2, FS_Interval
  <2>5. /\ Range(window) = {window[k] : k \in 1..n}
        /\ Range(window) \in SUBSET Nat /\ Range(window) # {}
    <3>1. Range(window) = {window[k] : k \in 1..n}
      BY <2>2, Zenon DEF Range
    <3>2. 1 \in 1..n
      BY <2>2
    <3> HIDE DEF window
    <3>3. QED
      BY <2>2, <3>1, <3>2
  <2>6. IsFiniteSet(Range(window))
    <3> HIDE DEF window, n
    <3> QED
      BY <2>2, <2>4, <2>5, ImageFinite
  <2>7. PICK l \in Range(window) : \A m \in Range(window) : m <= l
    <3> HIDE DEF window
    <3> QED
      BY <2>5, <2>6, GreatestExists
  <2>8. Within(e, l) = 1..n
    BY <2>2, <2>5, <2>7 DEF Within
  <2>9. enough \in SUBSET Nat /\ enough # {}
    BY <2>3, <2>4, <2>5, <2>8
  <2>10. Min(enough) \in Nat
    <3> HIDE DEF enough
    <3> QED
      BY <2>9, LeastExists
  <2>11. P95(e) = Min(enough)
    BY <1>2 DEF P95, rank
  <2>12. QED
    BY <2>10, <2>11
<1>3. QED
  BY <1>1, <1>2

\* A factor scaled by the greatest of its values falls when the factor grows.
LEMMA ScaledFalls ==
  ASSUME NEW f \in [Expert -> Nat], NEW floor \in Nat \ {0},
         NEW o \in Expert, NEW e \in Expert, f[o] <= f[e]
  PROVE  LET most == Max({floor} \union {f[x] : x \in Expert})
         IN  /\ 1000 - (1000 * f[e]) \div most \in Nat
             /\ 1000 - (1000 * f[o]) \div most \in Nat
             /\ 1000 - (1000 * f[e]) \div most <= 1000 - (1000 * f[o]) \div most
<1> DEFINE all == {floor} \union {f[x] : x \in Expert}
           most == Max(all)
<1>1. all \in SUBSET Nat /\ all # {} /\ IsFiniteSet(all)
  <2>1. f = [x \in Expert |-> f[x]]
    OBVIOUS
  <2>2. IsFiniteSet({f[x] : x \in Expert})
    BY <2>1, ExpertsFinite, ImageFinite
  <2>3. IsFiniteSet({f[x] : x \in Expert} \union {floor})
    BY <2>2, FS_AddElement
  <2>4. all = {f[x] : x \in Expert} \union {floor}
    OBVIOUS
  <2>5. QED
    BY <2>3, <2>4
<1>2. most \in all /\ \A n \in all : n <= most
  <2> HIDE DEF all
  <2> QED
    BY <1>1, GreatestExists
<1>3. most \in Nat \ {0} /\ f[e] <= most /\ f[o] <= most /\ f[e] \in Nat /\ f[o] \in Nat
  BY <1>1, <1>2
<1> HIDE DEF most
<1>4. /\ (1000 * f[o]) \div most \in Nat /\ (1000 * f[o]) \div most <= 1000
      /\ (1000 * f[e]) \div most \in Nat /\ (1000 * f[e]) \div most <= 1000
  BY <1>3, Share
<1>5. (1000 * f[o]) \div most <= (1000 * f[e]) \div most
  BY <1>3, QuotientGrows, SMTT(30)
<1>6. /\ 1000 - (1000 * f[e]) \div most \in Nat
      /\ 1000 - (1000 * f[o]) \div most \in Nat
      /\ 1000 - (1000 * f[e]) \div most <= 1000 - (1000 * f[o]) \div most
  BY <1>4, <1>5
<1>7. QED
  BY <1>6 DEF most

\* The service's score and Python's grow with every factor.
LEMMA ScoreGrows ==
  ASSUME ExpertInv, NEW r \in Request, NEW o \in Expert, NEW e \in Expert,
         Better(Similarity[r], o, e)
  PROVE  Score(r, o) > Score(r, e)
<1>1. Similarity[r][o] \in Nat /\ Similarity[r][e] \in Nat
  BY SimilarityIs
<1>2. QED
  BY <1>1, FactorsAre DEF Better, Score, Least

LEMMA ServiceScoreGrows ==
  ASSUME ExpertInv, NEW near \in Nearness, NEW o \in Expert, NEW e \in Expert,
         Better(near, o, e), P95(o) <= P95(e)
  PROVE  ~(ServiceScore(near, o) <= ServiceScore(near, e))
<1>1. PICK priceO \in Nat, priceE \in Nat :
        /\ priceO = Scaled(AvgCost, o, 1000) /\ priceE = Scaled(AvgCost, e, 1000)
        /\ priceE <= priceO
  <2> DEFINE f == [x \in Expert |-> AvgCost(x)]
             most == Max({1000} \union {f[x] : x \in Expert})
  <2>1. f \in [Expert -> Nat] /\ f[o] <= f[e]
    BY FactorsAre DEF Better
  <2>2. {1000} \union {f[x] : x \in Expert} = {1000} \union {AvgCost(x) : x \in Expert}
    OBVIOUS
  <2>3. /\ Scaled(AvgCost, o, 1000) = 1000 - (1000 * f[o]) \div most
        /\ Scaled(AvgCost, e, 1000) = 1000 - (1000 * f[e]) \div most
    BY <2>2 DEF Scaled
  <2> HIDE DEF f
  <2>4. /\ 1000 - (1000 * f[e]) \div most \in Nat
        /\ 1000 - (1000 * f[o]) \div most \in Nat
        /\ 1000 - (1000 * f[e]) \div most <= 1000 - (1000 * f[o]) \div most
    BY <2>1, ScaledFalls
  <2>5. QED
    BY <2>3, <2>4
<1>2. PICK lateO \in Nat, lateE \in Nat :
        /\ lateO = Scaled(P95, o, 500) /\ lateE = Scaled(P95, e, 500)
        /\ lateE <= lateO
  <2> DEFINE f == [x \in Expert |-> P95(x)]
             most == Max({500} \union {f[x] : x \in Expert})
  <2>1. f \in [Expert -> Nat] /\ f[o] <= f[e]
    BY P95Is
  <2>2. f[o] = P95(o) /\ f[e] = P95(e)
    OBVIOUS
  <2>3. most = Max({500} \union {P95(x) : x \in Expert})
    <3>1. {500} \union {f[x] : x \in Expert} = {500} \union {P95(x) : x \in Expert}
      OBVIOUS
    <3>2. QED
      BY <3>1
  <2> HIDE DEF f
  <2>4. /\ 1000 - (1000 * f[e]) \div most \in Nat
        /\ 1000 - (1000 * f[o]) \div most \in Nat
        /\ 1000 - (1000 * f[e]) \div most <= 1000 - (1000 * f[o]) \div most
    BY <2>1, ScaledFalls
  <2> HIDE DEF most
  <2>5. /\ 1000 - (1000 * P95(e)) \div most \in Nat
        /\ 1000 - (1000 * P95(o)) \div most \in Nat
        /\ 1000 - (1000 * P95(e)) \div most <= 1000 - (1000 * P95(o)) \div most
    BY <2>2, <2>4
  <2> DEFINE scaledO == Scaled(P95, o, 500)
             scaledE == Scaled(P95, e, 500)
  <2>6. /\ scaledO = 1000 - (1000 * P95(o)) \div most
        /\ scaledE = 1000 - (1000 * P95(e)) \div most
    BY <2>3 DEF Scaled
  <2> HIDE DEF scaledO, scaledE
  <2>7. scaledO \in Nat /\ scaledE \in Nat /\ scaledE <= scaledO
    BY <2>5, <2>6
  <2>8. QED
    BY <2>7 DEF scaledO, scaledE
<1>3. /\ (priceE * priceE) \div 1000 \in Nat /\ (priceO * priceO) \div 1000 \in Nat
      /\ (priceE * priceE) \div 1000 <= (priceO * priceO) \div 1000
  <2>1. priceE * priceE \in Nat /\ priceO * priceO \in Nat
    OBVIOUS
  <2>2. priceE * priceE <= priceO * priceO
    <3>1. priceE * priceE <= priceE * priceO /\ priceE * priceO <= priceO * priceO
      BY <1>1
    <3>2. QED
      BY <3>1
  <2>3. QED
    BY <2>1, <2>2, Quotient, QuotientGrows
<1>4. /\ near[o] \in Nat /\ near[e] \in Nat
      /\ LoadFactor(o) \in Nat /\ LoadFactor(e) \in Nat
      /\ SuccessRate(o) \in Nat /\ SuccessRate(e) \in Nat
  <2>1. near[o] \in Nat /\ near[e] \in Nat
    <3>1. near \in [Expert -> 0..1000]
      BY RoutingAssumption, ZenonT(30)
    <3>2. near[o] \in 0..1000 /\ near[e] \in 0..1000
      BY <3>1
    <3>3. \A n \in 0..1000 : n \in Nat
      OBVIOUS
    <3>4. QED
      BY <3>2, <3>3, ZenonT(30)
  <2>2. QED
    BY <2>1, FactorsAre
<1>5. /\ ServiceScore(near, o) = 35 * near[o] + 20 * (1000 - LoadFactor(o)) + 20 * SuccessRate(o)
           + 15 * ((priceO * priceO) \div 1000) + 10 * lateO
      /\ ServiceScore(near, e) = 35 * near[e] + 20 * (1000 - LoadFactor(e)) + 20 * SuccessRate(e)
           + 15 * ((priceE * priceE) \div 1000) + 10 * lateE
  BY <1>1, <1>2 DEF ServiceScore
<1>6. /\ near[o] >= near[e] /\ LoadFactor(o) <= LoadFactor(e) /\ SuccessRate(o) >= SuccessRate(e)
      /\ near[o] > near[e] \/ LoadFactor(o) < LoadFactor(e) \/ SuccessRate(o) > SuccessRate(e)
  BY DEF Better
<1>7. QED
  BY <1>2, <1>3, <1>4, <1>5, <1>6

LEMMA ChoicesUndominated == ExpertInv => ChoiceUndominated
<1> SUFFICES ASSUME ExpertInv, NEW r \in Request, NEW o \in Expert, o \in Candidates(r)
             PROVE  /\ Decide(r).how = "scored" /\ ~Raises(r) => ~Better(Similarity[r], o, Decide(r).expert)
                    /\ \A near \in Nearness :
                         r.served = None =>
                           \A e \in ServiceChoices(r, near) : P95(o) <= P95(e) => ~Better(near, o, e)
  BY DEF ChoiceUndominated
<1>1. Decide(r).how = "scored" => ~Better(Similarity[r], o, Decide(r).expert)
  <2> SUFFICES ASSUME Decide(r).how = "scored", Better(Similarity[r], o, Decide(r).expert)
               PROVE  FALSE
    OBVIOUS
  <2>1. PICK e \in Expert : e = Decide(r).expert
    BY DecideIs DEF Decision
  <2>2. Score(r, o) > Score(r, e) /\ Score(r, o) \in Nat /\ Score(r, e) \in Nat
    BY <2>1, ScoreGrows, ScoreIs
  <2>3. o # e
    BY <2>2
  <2>4. Before(r, e, o)
    BY <2>1, <2>3, DecideIs
  <2>5. QED
    BY <2>2, <2>4 DEF Before
<1>2. ASSUME NEW near \in Nearness, r.served = None, NEW e \in ServiceChoices(r, near),
             P95(o) <= P95(e), Better(near, o, e)
      PROVE  FALSE
  <2>1. e \in Candidates(r) /\ ServiceScore(near, o) <= ServiceScore(near, e)
    BY <1>2 DEF ServiceChoices
  <2>2. e \in Expert
    BY <2>1, RoutingAssumption DEF Candidates, Skilled
  <2>3. ~(ServiceScore(near, o) <= ServiceScore(near, e))
    BY <1>2, <2>2, ServiceScoreGrows
  <2>4. QED
    BY <2>1, <2>3
<1>3. QED
  BY <1>1, <1>2

\* The registry's statistics, the decisions and the tasks' stages always have their types.
THEOREM RoutingTypeCorrect == Spec => []TypeOK
  BY ExpertInvariant, ExpertInvImplies, PTL

\* An expert's load is the number of its running tasks, and its failures and running tasks
\* are among those it was given, whichever way its tasks end.
THEOREM LoadIsRunningHolds == Spec => []LoadIsRunning
  BY ExpertInvariant, ExpertInvImplies, PTL

\* Neither Python, where it decides, nor the service scores first an expert that another
\* candidate equals in every factor and surpasses in one, with the rounding of every
\* quotient, root and product.
THEOREM ChoiceUndominatedHolds == Spec => []ChoiceUndominated
  BY ExpertInvariant, ChoicesUndominated, PTL

===============================================================================
