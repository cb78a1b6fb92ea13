----------------------------- MODULE ExpertRouting -----------------------------
(***************************************************************************)
(* The mixture-of-experts router (src/moe): tasks are routed to experts by *)
(* the Rust scoring service if it answers, else by the same rules in       *)
(* Python, on the statistics the registry keeps of what the experts do.    *)
(*                                                                         *)
(* Factors are in thousandths, as to_dict rounds them; a price is in       *)
(* thousandths of $0.10, the reference price of the score.  A request is a *)
(* record of what routing reads of a task: the expert its type maps to in  *)
(* Python's table and in the service's (None if none), the dimensions its  *)
(* type names and those its context hints at, the experts with a skill it  *)
(* requires ({} also if it requires none), its priority and whether an     *)
(* ensemble is forced.                                                     *)
(***************************************************************************)
EXTENDS Integers, Sequences, SequencesExt, FiniteSetsExt

CONSTANTS
  Experts,        \* the registered experts, in order
  MaxConcurrent,  \* MaxConcurrent[e]: tasks e takes at once
  Capability,     \* Capability[e]: e's vector, in twentieths
  Task,           \* the tasks
  Request,        \* what a task may ask for
  Nearness,       \* similarities the service may find, as [Expert -> 0..1000]
  Latency,        \* milliseconds a task may take
  Price,          \* what a task may cost
  Window          \* size of the window of latencies, 100 in the code

Expert == Range(Experts)
None == "none"
Dimension == {"strategy", "architecture", "backend_code", "frontend_code", "testing",
              "devops", "cost_optimization", "security"}

ASSUME RoutingAssumption ==
  /\ Experts \in Seq(Expert) /\ Experts # <<>> /\ None \notin Expert
  /\ MaxConcurrent \in [Expert -> Nat \ {0}]
  /\ Request \subseteq [direct : Expert \union {None}, served : Expert \union {None},
                        named : SUBSET Dimension, hinted : SUBSET Dimension,
                        skilled : SUBSET Expert, critical : BOOLEAN, forced : BOOLEAN]
  /\ Capability \in [Expert -> [Dimension -> 0..20]]
  /\ Nearness \subseteq [Expert -> 0..1000]
  /\ Latency \subseteq Nat /\ Price \subseteq Nat /\ Window \in Nat \ {0}

VARIABLES
  stage,      \* stage[t]: where t is
  request,    \* request[t]: what t asks for, while it is known to the router
  decision,   \* decision[t]: the answer of route
  batch,      \* the tasks of the route_batch that is awaited
  load,       \* current_load
  total,      \* total_tasks
  failed,     \* failed_tasks
  spent,      \* total_cost_usd
  latencies,  \* latencies_ms
  available   \* what the client believes of the service

stats == <<load, total, failed, spent, latencies>>
vars == <<stage, request, decision, batch, stats, available>>

Decision == [expert : Expert, fallback : SUBSET Expert, how : {"direct", "scored", "last resort"}]
NoDecision == [expert |-> None, fallback |-> {}, how |-> None]
NoRequest == [direct |-> None, served |-> None, named |-> {}, hinted |-> {},
              skilled |-> {}, critical |-> FALSE, forced |-> FALSE]
Stage == {"new", "batched", "single", "asked", "decided", "raised", "running", "ended"}

TypeOK ==
  /\ stage \in [Task -> Stage]
  /\ request \in [Task -> Request \union {NoRequest}]
  /\ decision \in [Task -> Decision \union {NoDecision}]
  /\ \A t \in Task : stage[t] \in {"decided", "running", "ended"} <=> decision[t] \in Decision
  /\ \A t \in Task : decision[t].expert \notin decision[t].fallback
  /\ batch \subseteq {t \in Task : stage[t] \in {"batched", "single", "asked", "decided"}}
  /\ load \in [Expert -> Nat] /\ total \in [Expert -> Nat] /\ spent \in [Expert -> Nat]
  /\ failed \in [Expert -> Nat]
  /\ latencies \in [Expert -> Seq(Latency)]
  /\ \A e \in Expert : Len(latencies[e]) <= Window + failed[e]
  /\ available \in {"unknown", "up", "down"}

Init ==
  /\ stage = [t \in Task |-> "new"]
  /\ request = [t \in Task |-> NoRequest]
  /\ decision = [t \in Task |-> NoDecision]
  /\ batch = {}
  /\ load = [e \in Expert |-> 0] /\ total = [e \in Expert |-> 0]
  /\ failed = [e \in Expert |-> 0] /\ spent = [e \in Expert |-> 0]
  /\ latencies = [e \in Expert |-> <<>>]
  /\ available = "unknown"

--------------------------------------------------------------------------------
(* ExpertStats: the properties, rounded as to_dict rounds them. *)

Least(a, b) == IF a <= b THEN a ELSE b
Rounded(a, b) == (2 * a + b) \div (2 * b)

LoadFactor(e) == Least(1000, Rounded(1000 * load[e], MaxConcurrent[e]))
SuccessRate(e) == IF total[e] = 0 THEN 1000 ELSE Rounded(1000 * (total[e] - failed[e]), total[e])
AvgCost(e) == IF total[e] = 0 THEN 500 ELSE Rounded(spent[e], total[e])

\* The i-th of the latencies in their order is the least that i of them do not exceed.
Within(e, l) == {k \in DOMAIN latencies[e] : latencies[e][k] <= l}

P95(e) ==
  LET i == (95 * Len(latencies[e])) \div 100
  IN  IF latencies[e] = <<>> THEN 30000
      ELSE Min({l \in Range(latencies[e]) :
                  Cardinality(Within(e, l)) >= (IF i = 0 THEN 1 ELSE i)})

Full(e) == LoadFactor(e) = 1000

--------------------------------------------------------------------------------
(* The similarity of a request and an expert, in thousandths. *)

(***************************************************************************)
(* task_type_to_vector, in tenths: a dimension that the type names counts  *)
(* more than one that the context hints at; a request that says nothing is *)
(* as near to every dimension.                                             *)
(***************************************************************************)
Hint(d) == IF d \in {"backend_code", "frontend_code", "testing", "devops"} THEN 6 ELSE 5

TaskVector(r) ==
  [d \in Dimension |-> CASE r.named \union r.hinted = {} -> 1
                         [] d \in r.named -> 9
                         [] d \in r.hinted \ r.named -> Hint(d)
                         [] OTHER -> 0]

Dot(v, w) ==
  LET at(d) == v[d] * w[d]
  IN  at("strategy") + at("architecture") + at("backend_code") + at("frontend_code")
        + at("testing") + at("devops") + at("cost_optimization") + at("security")

Root(n) == CHOOSE k \in 0..20000 : k * k <= n /\ n < (k + 1) * (k + 1)

\* cosine_similarity; neither vector has a negative number.
Cosine(v, w) ==
  LET magnitudes == Root(100 * Dot(v, v) * Dot(w, w))  \* in tenths
  IN  IF magnitudes = 0 THEN 0 ELSE Least(1000, (10000 * Dot(v, w)) \div magnitudes)

Similarity == [r \in Request |-> [e \in Expert |-> Cosine(TaskVector(r), Capability[e])]]

--------------------------------------------------------------------------------
(* Python's routing. *)

\* Mutant of Score: the loaded expert is preferred.
ScoreOfLoad(r, e) ==
  40 * Similarity[r][e] + 25 * LoadFactor(e) + 20 * SuccessRate(e)
    + 15 * (1000 - Least(1000, AvgCost(e)))

(***************************************************************************)
(* compute_expert_score, in hundred-thousandths.                           *)
(***************************************************************************)
Score(r, e) ==
  40 * Similarity[r][e] + 25 * (1000 - LoadFactor(e)) + 20 * SuccessRate(e)
    + 15 * (1000 - Least(1000, AvgCost(e)))

Ensemble(top, second) == top < 70000 \/ top - second < 10000

(***************************************************************************)
(* The experts a request is scored over: those with a skill it requires,   *)
(* all if there are none, without the full ones unless it is critical.     *)
(***************************************************************************)
Skilled(r) == IF r.skilled = {} THEN Expert ELSE r.skilled

Candidates(r) == {e \in Skilled(r) : r.critical \/ ~Full(e)}

(***************************************************************************)
(* rank_experts: by score, descending; the sort is stable, so equal scores *)
(* keep the order of registration.  Foremost heads the ranking of S.       *)
(***************************************************************************)
Place(e) == CHOOSE i \in DOMAIN Experts : Experts[i] = e

Before(r, a, b) ==
  \/ Score(r, a) > Score(r, b)
  \/ Score(r, a) = Score(r, b) /\ Place(a) < Place(b)

Foremost(r, S) == CHOOSE e \in S : \A o \in S \ {e} : Before(r, e, o)

\* _queue_for_retry, which queues nothing.
LastResort == [expert |-> Experts[1], fallback |-> {}, how |-> "last resort"]

Direct(r) == r.direct # None /\ ~r.forced /\ ~Full(r.direct)

Decide(r) ==
  LET top == Foremost(r, Candidates(r))
      others == Candidates(r) \ {top}
      second == IF others = {} THEN {} ELSE {Foremost(r, others)}
      close == \A e \in second : Ensemble(Score(r, top), Score(r, e))
  IN  IF Direct(r) THEN [expert |-> r.direct, fallback |-> {}, how |-> "direct"]
      ELSE IF Candidates(r) = {} THEN LastResort
      ELSE [expert |-> top, how |-> "scored",
            fallback |-> IF r.forced \/ close THEN second ELSE {}]

(***************************************************************************)
(* With one candidate only there is no second role, and unless an ensemble *)
(* is forced it stands for ensemble_mode as well: a None where a decision  *)
(* requires a bool, so that there is none.                                 *)
(***************************************************************************)
Raises(r) == ~Direct(r) /\ ~r.forced /\ \E e \in Expert : Candidates(r) = {e}

--------------------------------------------------------------------------------
(* The service's routing, of a request with the statistics sent to it. *)

Scaled(value(_), e, floor) ==
  LET most == Max({floor} \union {value(o) : o \in Expert})
  IN  1000 - (1000 * value(e)) \div most

(***************************************************************************)
(* compute_expert_score with the weights of the balanced strategy, the one *)
(* the client's requests get; the price counts by its square.  The task's  *)
(* vector is an embedding, of which as many numbers as the vectors sent by *)
(* Python have are compared with them: a similarity may be anything.       *)
(***************************************************************************)
ServiceScore(near, e) ==
  LET price == Scaled(AvgCost, e, 1000)
  IN  35 * near[e] + 20 * (1000 - LoadFactor(e)) + 20 * SuccessRate(e)
        + 15 * ((price * price) \div 1000) + 10 * Scaled(P95, e, 500)

(***************************************************************************)
(* do_route takes the experts from a hash map, so that any of those that   *)
(* score most may come first, and any at all as the last resort.           *)
(***************************************************************************)
ServiceChoices(r, near) ==
  IF r.served # None /\ ~r.forced /\ ~Full(r.served) THEN {r.served}
  ELSE IF Candidates(r) = {} THEN Skilled(r)
  ELSE {e \in Candidates(r) :
          \A o \in Candidates(r) : ServiceScore(near, o) <= ServiceScore(near, e)}

--------------------------------------------------------------------------------
(* route *)

Raise(ts) ==
  /\ stage' = [t \in Task |-> IF t \in ts THEN "raised" ELSE stage[t]]
  /\ request' = [t \in Task |-> IF t \in ts THEN NoRequest ELSE request[t]]
  /\ decision' = [t \in Task |-> IF t \in ts THEN NoDecision ELSE decision[t]]
  /\ batch' = batch \ ts
  /\ UNCHANGED stats

(***************************************************************************)
(* The error of one task leaves gather without the decisions of its batch. *)
(***************************************************************************)
Lost(t) == {t} \union (IF t \in batch THEN batch ELSE {})

RouteInPython(t, r) ==
  IF Raises(r) THEN Raise(Lost(t))
  ELSE /\ stage' = [stage EXCEPT ![t] = "decided"]
       /\ request' = [request EXCEPT ![t] = NoRequest]
       /\ decision' = [decision EXCEPT ![t] = Decide(r)]
       /\ UNCHANGED <<batch, stats>>

(***************************************************************************)
(* route_batch asks for several tasks at once, without what a single       *)
(* request may require or force.  To keep the state small, one batch is    *)
(* awaited at a time.                                                      *)
(***************************************************************************)
Batchable == {r \in Request : r.skilled = {} /\ ~r.forced}
Batched == {t \in Task : stage[t] = "batched"}

RouteBatch(ts) ==
  /\ ts # {} /\ batch = {} /\ \A t \in ts : stage[t] = "new"
  /\ stage' = [t \in Task |-> IF t \notin ts THEN stage[t]
                            ELSE IF available = "down" THEN "single" ELSE "batched"]
  /\ \E rs \in [ts -> Batchable] :
       request' = [t \in Task |-> IF t \in ts THEN rs[t] ELSE request[t]]
  /\ batch' = ts
  /\ UNCHANGED <<decision, stats, available>>

(***************************************************************************)
(* The service answered: the first of its answers makes route_batch raise, *)
(* as below.                                                               *)
(***************************************************************************)
BatchAnswered ==
  /\ Batched # {}
  /\ Raise(batch)
  /\ UNCHANGED available

(***************************************************************************)
(* It did not: the tasks are routed one by one.                            *)
(***************************************************************************)
BatchUnanswered ==
  /\ Batched # {}
  /\ stage' = [t \in Task |-> IF t \in Batched THEN "single" ELSE stage[t]]
  /\ available' = "down"
  /\ UNCHANGED <<request, decision, batch, stats>>

(***************************************************************************)
(* gather returns the decisions when every task has one.                   *)
(***************************************************************************)
BatchDecided ==
  /\ batch # {} /\ \A t \in batch : stage[t] = "decided"
  /\ batch' = {}
  /\ UNCHANGED <<stage, request, decision, stats, available>>

(***************************************************************************)
(* The client does not ask a service it believes is down.                  *)
(***************************************************************************)
Route(t) ==
  /\ stage[t] \in {"new", "single"}
  /\ \E r \in IF stage[t] = "new" THEN Request ELSE {request[t]} :
       \/ /\ available = "down"
          /\ RouteInPython(t, r)
       \/ /\ available # "down"
          /\ stage' = [stage EXCEPT ![t] = "asked"]
          /\ request' = [request EXCEPT ![t] = r]
          /\ UNCHANGED <<decision, batch, stats>>
  /\ UNCHANGED available

(***************************************************************************)
(* The service answered.  Its answer names the task task_id where a        *)
(* decision requires request_id, so that route raises, whatever it says.   *)
(***************************************************************************)
Answered(t) ==
  /\ stage[t] = "asked"
  /\ Raise(Lost(t))
  /\ available' = "up"

(***************************************************************************)
(* It did not: the client gives it up and Python routes.                   *)
(***************************************************************************)
Unanswered(t) ==
  /\ stage[t] = "asked"
  /\ RouteInPython(t, request[t])
  /\ available' = "down"

HealthCheck ==
  /\ available' \in {"up", "down"}
  /\ UNCHANGED <<stage, request, decision, batch, stats>>

--------------------------------------------------------------------------------
(* What the caller then reports of the task to the registry. *)

Start(t) ==
  LET e == decision[t].expert IN
  /\ stage[t] = "decided" /\ t \notin batch
  /\ stage' = [stage EXCEPT ![t] = "running"]
  /\ load' = [load EXCEPT ![e] = @ + 1]
  /\ total' = [total EXCEPT ![e] = @ + 1]
  /\ UNCHANGED <<request, decision, batch, failed, spent, latencies, available>>

Released(e) == [load EXCEPT ![e] = IF @ = 0 THEN 0 ELSE @ - 1]

\* Mutant of Fail: the expert stays loaded with the task that failed.
FailKeepsLoad(t) ==
  LET e == decision[t].expert IN
  /\ stage[t] = "running"
  /\ stage' = [stage EXCEPT ![t] = "ended"]
  /\ failed' = [failed EXCEPT ![e] = @ + 1]
  /\ \E l \in Latency : latencies' = [latencies EXCEPT ![e] = Append(@, l)]
  /\ UNCHANGED <<request, decision, batch, load, total, spent, available>>

(***************************************************************************)
(* record_complete drops the oldest latency of a window that is over its   *)
(* size; record_failure does not, and the next completion drops only one.  *)
(***************************************************************************)
Complete(t) ==
  LET e == decision[t].expert IN
  /\ stage[t] = "running"
  /\ stage' = [stage EXCEPT ![t] = "ended"]
  /\ load' = Released(e)
  /\ \E p \in Price, l \in Latency :
       LET appended == Append(latencies[e], l) IN
       /\ spent' = [spent EXCEPT ![e] = @ + p]
       /\ latencies' = [latencies EXCEPT ![e] =
            IF Len(appended) > Window THEN Tail(appended) ELSE appended]
  /\ UNCHANGED <<request, decision, batch, total, failed, available>>

Fail(t) ==
  LET e == decision[t].expert IN
  /\ stage[t] = "running"
  /\ stage' = [stage EXCEPT ![t] = "ended"]
  /\ load' = Released(e)
  /\ failed' = [failed EXCEPT ![e] = @ + 1]
  /\ \E l \in Latency : latencies' = [latencies EXCEPT ![e] = Append(@, l)]
  /\ UNCHANGED <<request, decision, batch, total, spent, available>>

Next ==
  \/ \E ts \in SUBSET Task : RouteBatch(ts)
  \/ BatchAnswered \/ BatchUnanswered \/ BatchDecided
  \/ \E t \in Task : \/ Route(t) \/ Answered(t) \/ Unanswered(t)
                     \/ Start(t) \/ Complete(t) \/ Fail(t)
  \/ HealthCheck

Spec == Init /\ [][Next]_vars

--------------------------------------------------------------------------------
(***************************************************************************)
(* An expert's load is the number of its tasks that run, whichever way the *)
(* tasks before them ended.                                                *)
(***************************************************************************)
LoadIsRunning ==
  \A e \in Expert :
    /\ load[e] = Cardinality({t \in Task : stage[t] = "running" /\ decision[t].expert = e})
    /\ failed[e] + load[e] <= total[e]

(***************************************************************************)
(* o is at least as good as e in every factor and better in one.           *)
(***************************************************************************)
Better(near, o, e) ==
  /\ near[o] >= near[e] /\ LoadFactor(o) <= LoadFactor(e)
  /\ SuccessRate(o) >= SuccessRate(e) /\ AvgCost(o) <= AvgCost(e)
  /\ \/ near[o] > near[e] \/ LoadFactor(o) < LoadFactor(e)
     \/ SuccessRate(o) > SuccessRate(e)

(***************************************************************************)
(* Whatever the experts' records, neither Python, where it decides, nor    *)
(* the service scores an expert first while another it may choose is       *)
(* better in some factor and worse in none, the service's latency          *)
(* included.                                                               *)
(***************************************************************************)
ChoiceUndominated ==
  \A r \in Request, o \in Expert :
    o \in Candidates(r) =>
      /\ Decide(r).how = "scored" /\ ~Raises(r) => ~Better(Similarity[r], o, Decide(r).expert)
      /\ \A near \in Nearness :
           r.served = None =>
             \A e \in ServiceChoices(r, near) : P95(o) <= P95(e) => ~Better(near, o, e)
================================================================================
