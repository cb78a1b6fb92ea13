------------------------- MODULE ProjectEngineProofs -------------------------
(***************************************************************************)
(* Proofs about the Python engine, for any set of tasks, any answers of    *)
(* the language model and any retry limit.                                 *)
(***************************************************************************)
EXTENDS ProjectEngine, TLAPS

\* Where a task's coroutine is fixes the task's status and its accounts.
Coroutine(t) ==
  \/ /\ pc[t] = "idle" /\ status[t] \in {"absent", "pending"}
     /\ runs[t] = 0 /\ retryCount[t] = 0
  \/ /\ pc[t] = "idle" /\ status[t] = "failed"
     /\ runs[t] = MaxRetries + 1 /\ retryCount[t] = MaxRetries + 1
  \/ /\ \/ pc[t] = "calling" /\ status[t] \in {"in_progress", "retrying"}
        \/ pc[t] \in {"saving", "idle"} /\ status[t] = "completed"
     /\ runs[t] = retryCount[t] + 1 /\ retryCount[t] <= MaxRetries
  \/ /\ pc[t] = "backoff" /\ status[t] = "retrying"
     /\ runs[t] = retryCount[t] /\ retryCount[t] \in 1..MaxRetries

\* What the lifecycle's stage says about all tasks.
StageAgrees ==
  /\ stage \in {"bootstrapping", "strategy", "architecture", "failed"} =>
       \A t \in Task : status[t] = "absent"
  /\ stage \in {"self_critique", "completed"} => IsComplete /\ Wave = {}

Registered == {t \in Task : status[t] # "absent"}

\* The graph has no cycle, and edges only between tasks it holds.
GraphSound ==
  /\ \A t \in Registered : predecessors[t] \subseteq Registered
  /\ \A t \in Task \ Registered : predecessors[t] = {}
  /\ \A S \in SUBSET Registered :
       S # {} => \E t \in S : predecessors[t] \intersect S = {}

EInv ==
  /\ TypeOK
  /\ \A t \in Task : Coroutine(t)
  /\ StageAgrees
  /\ GraphSound
  /\ PredecessorsSettled

-------------------------------------------------------------------------------
(* The plans the graph may be built from. *)

LEMMA StandardPlanTasks ==
  /\ DOMAIN StandardPlan.order = 1..8
  /\ PlanTasks(StandardPlan) = {"repo", "backend", "frontend", "tests", "docker",
                                "infra", "deploy", "finance"}
<1> DEFINE o == StandardPlan.order
<1>1. o = <<"repo", "backend", "frontend", "tests", "docker", "infra", "deploy", "finance">>
  BY DEF StandardPlan
<1> HIDE DEF o
<1>2. DOMAIN o = 1..8
  BY <1>1
<1>3. /\ o[1] = "repo" /\ o[2] = "backend" /\ o[3] = "frontend" /\ o[4] = "tests"
      /\ o[5] = "docker" /\ o[6] = "infra" /\ o[7] = "deploy" /\ o[8] = "finance"
  BY <1>1
<1>4. {o[i] : i \in DOMAIN o} = {"repo", "backend", "frontend", "tests", "docker",
                                "infra", "deploy", "finance"}
  BY <1>2, <1>3
<1>5. QED
  BY <1>2, <1>4 DEF PlanTasks, o

LEMMA StandardPlanIsPlan == IsPlan(StandardPlan)
<1> DEFINE p == StandardPlan
<1>1. PlanTasks(p) = {"repo", "backend", "frontend", "tests", "docker", "infra",
                      "deploy", "finance"}
  BY StandardPlanTasks
<1>2. p.order \in Seq(Task)
  <2>1. PlanTasks(p) \subseteq Task
    BY TaskAssumption
  <2>2. \A i \in 1..8 : p.order[i] \in Task
    BY <2>1, StandardPlanTasks DEF PlanTasks
  <2>3. p.order = [i \in 1..8 |-> p.order[i]]
    BY DEF StandardPlan
  <2>4. QED
    BY <2>2, <2>3
<1>3. p.dependencies \in [Task -> SUBSET PlanTasks(p)]
  BY <1>1 DEF StandardPlan
<1>4. \A i, j \in DOMAIN p.order : p.order[i] = p.order[j] => i = j
  BY DEF StandardPlan
<1>5. QED
  BY <1>2, <1>3, <1>4, TaskAssumption DEF IsPlan, StandardPlan

LEMMA StandardPlanIsAcyclic == IsAcyclic(StandardPlan)
<1> DEFINE needs == StandardPlan.dependencies
<1> SUFFICES ASSUME NEW S \in SUBSET PlanTasks(StandardPlan), S # {}
             PROVE  \E t \in S : needs[t] \intersect S = {}
  BY DEF IsAcyclic, EdgesInto
<1>1. /\ PlanTasks(StandardPlan) =
            {"repo", "backend", "frontend", "tests", "docker", "infra", "deploy", "finance"}
      /\ PlanTasks(StandardPlan) \subseteq Task
  BY StandardPlanTasks, TaskAssumption
<1>2. /\ needs["repo"] = {}
      /\ needs["backend"] = {"repo"}
      /\ needs["frontend"] = {"repo"}
      /\ needs["tests"] = {"backend"}
      /\ needs["docker"] = {"backend", "frontend"}
      /\ needs["infra"] = {"tests", "docker"}
      /\ needs["deploy"] = {"infra"}
      /\ needs["finance"] = {"deploy"}
  BY <1>1 DEF StandardPlan
<1> HIDE DEF needs
<1>3. CASE "repo" \in S
  BY <1>2, <1>3
<1>4. CASE "repo" \notin S /\ ("backend" \in S \/ "frontend" \in S)
  BY <1>2, <1>4
<1>5. CASE "backend" \notin S /\ "frontend" \notin S /\ ("tests" \in S \/ "docker" \in S)
  BY <1>2, <1>5
<1>6. CASE "tests" \notin S /\ "docker" \notin S /\ "infra" \in S
  BY <1>2, <1>6
<1>7. CASE "infra" \notin S /\ "deploy" \in S
  BY <1>2, <1>7
<1>8. CASE S = {"finance"}
  BY <1>2, <1>8
<1>9. QED
  BY <1>1, <1>3, <1>4, <1>5, <1>6, <1>7, <1>8 DEF needs

\* Whatever the model answers, the graph is built from an acyclic plan.
LEMMA BuiltFromSound ==
  ASSUME NEW answer \in Plans \union {StandardPlan}
  PROVE  IsPlan(BuiltFrom(answer)) /\ IsAcyclic(BuiltFrom(answer))
BY StandardPlanIsPlan, StandardPlanIsAcyclic, PlansAssumption DEF BuiltFrom

-------------------------------------------------------------------------------
(* The inductive invariant. *)

LEMMA InitEInv == Init => EInv
BY RetriesAssumption DEF Init, EInv, TypeOK, Stages, Coroutine, StageAgrees,
   GraphSound, Registered, PredecessorsSettled, IsComplete, Wave

\* The graph that BuildGraph installs is sound.
LEMMA BuildGraphSound ==
  ASSUME NEW answer \in Plans \union {StandardPlan}, BuildGraph(answer)
  PROVE  /\ GraphSound'
         /\ dependencies' \in [Task -> SUBSET Task]
         /\ predecessors' \in [Task -> SUBSET Task]
<1> DEFINE p == BuiltFrom(answer)
<1>1. IsPlan(p) /\ IsAcyclic(p)
  BY BuiltFromSound
<1>2. PlanTasks(p) \subseteq Task
  BY <1>1 DEF IsPlan, PlanTasks
<1>3. /\ dependencies' = [t \in Task |-> IF t \in PlanTasks(p) THEN p.dependencies[t] ELSE {}]
      /\ predecessors' = [t \in Task |-> IF t \in PlanTasks(p) THEN EdgesInto(p, t) ELSE {}]
      /\ status' = [t \in Task |-> IF t \in PlanTasks(p) THEN "pending" ELSE "absent"]
  BY DEF BuildGraph
<1> HIDE DEF p
<1>4. Registered' = PlanTasks(p)
  BY <1>2, <1>3 DEF Registered
<1>5. \A t \in PlanTasks(p) : EdgesInto(p, t) \subseteq PlanTasks(p)
  BY DEF EdgesInto, PlanTasks
<1>6. /\ \A t \in PlanTasks(p) : predecessors'[t] = EdgesInto(p, t)
      /\ \A t \in Task \ PlanTasks(p) : predecessors'[t] = {}
  BY <1>2, <1>3
<1>7. GraphSound'
  <2>1. \A S \in SUBSET PlanTasks(p) : S # {} => \E t \in S : predecessors'[t] \intersect S = {}
    BY <1>1, <1>6 DEF IsAcyclic
  <2>2. QED
    BY <1>4, <1>5, <1>6, <2>1 DEF GraphSound
<1>8. dependencies' \in [Task -> SUBSET Task]
  BY <1>1, <1>3 DEF IsPlan
<1>9. predecessors' \in [Task -> SUBSET Task]
  BY <1>2, <1>3, <1>5
<1>10. QED
  BY <1>7, <1>8, <1>9

\* The lifecycle's other steps leave every task alone.
LEMMA LifecycleKeepsEInv ==
  ASSUME EInv,
         \/ BeginStrategy
         \/ BeginArchitecture
         \/ LifecycleRaises
         \/ GraphComplete
         \/ FinishProject
         \/ CancelProject
  PROVE  EInv'
<1> USE DEF EInv, TypeOK, Stages, Enter, graph, tasks
<1>1. UNCHANGED <<graph, tasks>>
  BY DEF BeginStrategy, BeginArchitecture, LifecycleRaises, GraphComplete,
         FinishProject, CancelProject
<1>2. TypeOK'
  BY <1>1 DEF BeginStrategy, BeginArchitecture, LifecycleRaises, GraphComplete,
         FinishProject, CancelProject
<1>3. StageAgrees'
  BY <1>1 DEF StageAgrees, IsComplete, Wave, BeginStrategy, BeginArchitecture,
         LifecycleRaises, GraphComplete, FinishProject, CancelProject
<1>4. (\A t \in Task : Coroutine(t))' /\ GraphSound' /\ PredecessorsSettled'
  BY <1>1 DEF Coroutine, GraphSound, Registered, PredecessorsSettled
<1>5. QED
  BY <1>2, <1>3, <1>4

\* What one task's coroutine does disturbs nothing the other tasks rely on.
LEMMA TaskStepKeepsEInv ==
  ASSUME EInv, NEW t \in Task, TaskStep(t)
  PROVE  EInv'
<1> USE RetriesAssumption DEF EInv, TypeOK, Raise, AgentReturns, AgentRaises,
        CheckpointSaved, CheckpointRaises, BackoffOver, graph
<1>1. /\ pc[t] # "idle"
      /\ UNCHANGED <<stage, projectStatus, graph>>
      /\ \A u \in Task \ {t} : /\ status'[u] = status[u]
                               /\ retryCount'[u] = retryCount[u]
                               /\ runs'[u] = runs[u]
                               /\ pc'[u] = pc[u]
  BY DEF TaskStep
<1>2. TypeOK' /\ Coroutine(t)' /\ status'[t] \notin {"absent", "pending"}
  BY DEF TaskStep, Coroutine
<1>3. \A u \in Task : Coroutine(u)'
  <2> SUFFICES ASSUME NEW u \in Task, u # t PROVE Coroutine(u)'
    BY <1>2
  <2>1. Coroutine(u)
    OBVIOUS
  <2>2. QED
    BY <1>1, <2>1 DEF Coroutine
<1>4. stage = "executing"
  BY <1>1 DEF StageAgrees, Coroutine, Wave, Stages
<1>5. StageAgrees'
  <2>1. stage' = "executing"
    BY <1>1, <1>4
  <2>2. QED
    BY ONLY <2>1 DEF StageAgrees
<1>6. status[t] \notin {"absent", "pending"} /\ runs[t] > 0
  BY <1>1 DEF Coroutine
<1>7. GraphSound'
  <2>1. Registered' = Registered
    BY <1>1, <1>2, <1>6 DEF Registered
  <2>2. QED
    BY <1>1, <2>1 DEF GraphSound
<1>8. PredecessorsSettled'
  BY <1>1, <1>6 DEF PredecessorsSettled
<1>9. QED
  BY <1>2, <1>3, <1>5, <1>7, <1>8

LEMMA StartWaveKeepsEInv == EInv /\ StartWave => EInv'
<1> SUFFICES ASSUME EInv, StartWave PROVE EInv'
  OBVIOUS
<1> USE RetriesAssumption DEF EInv, TypeOK, StartWave, ReadyTasks, graph
<1>1. TypeOK' /\ (\A t \in Task : Coroutine(t))'
  BY DEF Coroutine, Wave
<1>2. StageAgrees' /\ Registered' = Registered
  BY DEF StageAgrees, Registered
<1>3. GraphSound'
  BY <1>2 DEF GraphSound
<1>4. PredecessorsSettled'
  BY DEF PredecessorsSettled, Wave, Coroutine
<1>5. QED
  BY <1>1, <1>2, <1>3, <1>4

LEMMA NextEInv == EInv /\ [Next]_vars => EInv'
<1> SUFFICES ASSUME EInv, [Next]_vars PROVE EInv'
  OBVIOUS
<1>1. ASSUME NEW answer \in Plans \union {StandardPlan}, BuildGraph(answer) PROVE EInv'
  <2> USE DEF EInv
  <2>1. /\ stage = "architecture" /\ stage' = "executing" /\ projectStatus' = "executing"
        /\ UNCHANGED <<retryCount, runs, pc>>
        /\ status' \in [Task -> {"pending", "absent"}]
    BY <1>1 DEF BuildGraph, Enter
  <2>2. \A t \in Task : pc[t] = "idle" /\ runs[t] = 0 /\ retryCount[t] = 0
    BY <2>1 DEF StageAgrees, Coroutine
  <2>3. TypeOK' /\ GraphSound'
    BY <1>1, <2>1, BuildGraphSound DEF TypeOK, Stages
  <2>4. StageAgrees' /\ PredecessorsSettled' /\ (\A t \in Task : Coroutine(t))'
    BY <2>1, <2>2 DEF StageAgrees, PredecessorsSettled, Coroutine
  <2>5. QED
    BY <2>3, <2>4
<1>2. ASSUME NEW t \in Task, TaskStep(t) PROVE EInv'
  BY <1>2, TaskStepKeepsEInv
<1>3. CASE StartWave
  BY <1>3, StartWaveKeepsEInv
<1>4. CASE UNCHANGED vars
  BY <1>4 DEF vars, graph, tasks, EInv, TypeOK, Coroutine, StageAgrees, GraphSound,
     Registered, PredecessorsSettled, IsComplete, Wave
<1>5. QED
  BY <1>1, <1>2, <1>3, <1>4, LifecycleKeepsEInv DEF Next, LifecycleStep

LEMMA Invariance == Spec => []EInv
BY InitEInv, NextEInv, PTL DEF Spec

-------------------------------------------------------------------------------
(* The theorems. *)

\* The variables keep their types: the statuses, stages and places in a
\* coroutine are the ones the code names.
THEOREM TypeCorrect == Spec => []TypeOK
BY Invariance, PTL DEF EInv

\* An agent is called only when the checkpoints of all predecessors in the
\* graph are settled, and none of them is run again afterwards.
THEOREM PredecessorsSettledHolds == Spec => []PredecessorsSettled
BY Invariance, PTL DEF EInv

\* The execution loop never sleeps without a failure that explains it.
THEOREM NoSilentStallHolds == Spec => []NoSilentStall
<1>1. EInv => NoSilentStall
  <2> SUFFICES ASSUME EInv, Wave = {}, ~IsComplete, ReadyTasks = {}
               PROVE  BlockedTasks # {}
    BY DEF NoSilentStall
  <2> DEFINE waiting == {t \in Task : status[t] = "pending"}
  <2>1. \A t \in Task : status[t] \in {"absent", "pending", "completed", "failed"}
    BY DEF EInv, Coroutine, Wave
  <2>2. waiting # {} /\ waiting \in SUBSET Registered
    BY <2>1 DEF IsComplete, Registered
  <2>3. PICK t \in waiting : predecessors[t] \intersect waiting = {}
    BY <2>2 DEF EInv, GraphSound
  <2>4. \A d \in predecessors[t] : d \in Registered /\ status[d] \in {"completed", "failed"}
    <3>1. predecessors[t] \subseteq Registered
      BY <2>2 DEF EInv, GraphSound
    <3>2. QED
      BY <2>1, <2>3, <3>1 DEF Registered
  <2>5. PICK d \in predecessors[t] : status[d] # "completed"
    BY DEF ReadyTasks
  <2>6. QED
    BY <2>4, <2>5 DEF BlockedTasks
<1>2. QED
  BY Invariance, <1>1, PTL

\* Self-critique starts on a graph at rest, with every task's account closed.
THEOREM QuiescentAtCritiqueHolds == Spec => []QuiescentAtCritique
<1>1. EInv => QuiescentAtCritique
  BY RetriesAssumption DEF EInv, TypeOK, Coroutine, StageAgrees, IsComplete, Wave,
     QuiescentAtCritique
<1>2. QED
  BY Invariance, <1>1, PTL

\* Building the graph offers its tasks; only tasks never run are in it.
LEMMA BuildGraphOffers ==
  ASSUME EInv, NEW answer \in Plans \union {StandardPlan}, BuildGraph(answer)
  PROVE  Retries!Offer
<1>1. \A t \in Task : status[t] = "absent"
  BY DEF BuildGraph, Enter, EInv, StageAgrees
<1>2. \A t \in Task : pc[t] = "idle" /\ runs[t] = 0 /\ retryCount[t] = 0
  BY <1>1 DEF EInv, Coroutine
<1>3. UNCHANGED <<runs, retryCount, pc>>
  BY DEF BuildGraph
<1>4. QED
  BY <1>1, <1>2, <1>3 DEF Retries!Offer

\* A wave hands out the ready tasks, which are all on offer.
LEMMA StartWaveHandsOut ==
  ASSUME EInv, StartWave
  PROVE  \E S \in SUBSET {t \in Task : status[t] = "pending" \/ pc[t] = "backoff"} :
           Retries!HandOut(S)
<1>1. \A t \in Task : pc[t] = "idle"
  BY DEF StartWave, Wave
<1>2. PICK S : S = ReadyTasks
  OBVIOUS
<1>3. S \in SUBSET {t \in Task : status[t] = "pending" \/ pc[t] = "backoff"}
  BY <1>2 DEF ReadyTasks
<1>4. {t \in Task : status'[t] = "pending" \/ pc'[t] = "backoff"}
        = {t \in Task : status[t] = "pending" \/ pc[t] = "backoff"} \ S
  BY <1>1, <1>2, <1>3 DEF StartWave, EInv, TypeOK
<1>5. Retries!HandOut(S)
  BY <1>2, <1>4 DEF Retries!HandOut, StartWave
<1>6. QED
  BY <1>3, <1>5

LEMMA TaskStepRefines ==
  ASSUME EInv, NEW t \in Task, TaskStep(t)
  PROVE  [Retries!Next]_(Retries!vars)
<1> DEFINE waiting == {u \in Task : status[u] = "pending" \/ pc[u] = "backoff"}
<1> USE RetriesAssumption DEF EInv, TypeOK
<1>1. CASE AgentReturns(t) \/ CheckpointSaved(t)
  <2>1. waiting' = waiting
    BY <1>1 DEF AgentReturns, CheckpointSaved, Coroutine
  <2>2. QED
    BY <1>1, <2>1 DEF AgentReturns, CheckpointSaved, Retries!vars
<1>2. CASE AgentRaises(t) \/ CheckpointRaises(t)
  <2>1. /\ retryCount' = [retryCount EXCEPT ![t] = @ + 1]
        /\ runs' = runs
        /\ pc[t] \in {"calling", "saving"} /\ status[t] # "pending"
        /\ Raise(t)
    BY <1>2 DEF AgentRaises, CheckpointRaises, Raise, Coroutine
  <2>2. CASE retryCount[t] < MaxRetries
    <3>1. waiting' = waiting \union {t}
      BY <2>1, <2>2 DEF Raise
    <3>2. retryCount[t] + 1 <= [u \in Task |-> MaxRetries][t]
      BY <2>2
    <3>3. Retries!Reoffer(t)
      BY <2>1, <3>1, <3>2 DEF Retries!Reoffer
    <3>4. QED
      BY <3>3 DEF Retries!Next
  <2>3. CASE retryCount[t] >= MaxRetries
    <3>1. waiting' = waiting /\ t \notin waiting
      BY <2>1, <2>3 DEF Raise
    <3>2. retryCount[t] + 1 > [u \in Task |-> MaxRetries][t]
      BY <2>3
    <3>3. waiting' \in SUBSET (waiting \ {t})
      BY <3>1
    <3>4. Retries!Exhaust(t)
      BY <2>1, <3>2, <3>3 DEF Retries!Exhaust
    <3>5. QED
      BY <3>4 DEF Retries!Next
  <2>4. QED
    BY <2>2, <2>3
<1>3. CASE BackoffOver(t)
  <2>1. waiting' = waiting \ {t} /\ {t} \in SUBSET waiting
    BY <1>3 DEF BackoffOver, Coroutine
  <2>2. runs' = [u \in Task |-> runs[u] + (IF u \in {t} THEN 1 ELSE 0)]
    <3>1. runs' = [runs EXCEPT ![t] = runs[t] + 1] /\ runs \in [Task -> Nat]
      BY <1>3 DEF BackoffOver
    <3>2. \A u \in Task : runs[u] + (IF u \in {t} THEN 1 ELSE 0)
                           = IF u = t THEN runs[t] + 1 ELSE runs[u]
      BY <3>1
    <3>3. QED
      BY ONLY <3>1, <3>2, t \in Task
  <2>3. Retries!HandOut({t})
    BY <1>3, <2>1, <2>2 DEF BackoffOver, Retries!HandOut
  <2>4. QED
    BY <2>1, <2>3 DEF Retries!Next
<1>4. QED
  BY <1>1, <1>2, <1>3 DEF TaskStep

\* Every behaviour of the engine is one of the abstract retry queue: an agent
\* is called again only after a charge within the budget.
THEOREM RefinesRetryQueue == Spec => ImplementsRetryQueue
<1>1. Init => Retries!Init
  BY DEF Init, Retries!Init
<1>2. EInv /\ [Next]_vars => [Retries!Next]_(Retries!vars)
  <2> SUFFICES ASSUME EInv, [Next]_vars PROVE [Retries!Next]_(Retries!vars)
    OBVIOUS
  <2>1. ASSUME NEW answer \in Plans \union {StandardPlan}, BuildGraph(answer)
        PROVE  Retries!Next
    BY <2>1, BuildGraphOffers DEF Retries!Next
  <2>2. CASE StartWave
    BY <2>2, StartWaveHandsOut DEF Retries!Next
  <2>3. ASSUME NEW t \in Task, TaskStep(t) PROVE [Retries!Next]_(Retries!vars)
    BY <2>3, TaskStepRefines
  <2>4. CASE \/ BeginStrategy \/ BeginArchitecture \/ LifecycleRaises \/ GraphComplete
             \/ FinishProject \/ CancelProject \/ UNCHANGED vars
    BY <2>4 DEF BeginStrategy, BeginArchitecture, LifecycleRaises, GraphComplete,
       FinishProject, CancelProject, vars, tasks, Retries!vars
  <2>5. QED
    BY <2>1, <2>2, <2>3, <2>4 DEF Next, LifecycleStep
<1>3. QED
  BY Invariance, <1>1, <1>2, PTL DEF Spec, ImplementsRetryQueue, Retries!Spec

===============================================================================
