---------------------------- MODULE ProjectEngine ----------------------------
(***************************************************************************)
(* One project in the Python engine: the lifecycle coroutine of            *)
(* OrchestratorEngine (orchestrator/planner.py), which builds a task graph *)
(* (orchestrator/task_graph.py) and executes it wave by wave, the task     *)
(* coroutines of the current wave, and the API's cancel handler            *)
(* (api/main.py), which writes the project's status beside them.           *)
(*                                                                         *)
(* Code between two awaits runs undisturbed, so it is one action.  The     *)
(* coroutines of a wave are all scheduled by one call of asyncio.gather    *)
(* and take their first step before any of them can disturb another, so    *)
(* StartWave is one action too.                                            *)
(***************************************************************************)
EXTENDS Naturals, FiniteSets, Sequences

CONSTANTS
  Task,        \* task ids
  MaxRetries,  \* Task.max_retries
  Plans        \* what the language model may answer: order and dependencies

\* The graph built when there is no model to ask, or its answer is unusable.
StandardPlan ==
  [ order |-> <<"repo", "backend", "frontend", "tests", "docker", "infra",
                "deploy", "finance">>,
    dependencies |->
      [t \in Task |->
         CASE t \in {"backend", "frontend"} -> {"repo"}
           [] t = "tests"   -> {"backend"}
           [] t = "docker"  -> {"backend", "frontend"}
           [] t = "infra"   -> {"tests", "docker"}
           [] t = "deploy"  -> {"infra"}
           [] t = "finance" -> {"deploy"}
           [] OTHER         -> {} ] ]

PlanTasks(p) == {p.order[i] : i \in DOMAIN p.order}

IsPlan(p) ==
  /\ DOMAIN p = {"order", "dependencies"}
  /\ p.order \in Seq(Task)
  /\ p.dependencies \in [Task -> SUBSET Task]
  /\ \A i, j \in DOMAIN p.order : p.order[i] = p.order[j] => i = j
  /\ \A t \in PlanTasks(p) : p.dependencies[t] \subseteq PlanTasks(p)

ASSUME TaskAssumption == IsFiniteSet(Task) /\ PlanTasks(StandardPlan) \subseteq Task
ASSUME RetriesAssumption == MaxRetries \in Nat
ASSUME PlansAssumption == \A p \in Plans : IsPlan(p)

VARIABLES
  stage,          \* how far the lifecycle coroutine is
  projectStatus,  \* ctx["status"], what the status API reports
  dependencies,   \* dependencies[t]: Task.dependencies, as declared
  predecessors,   \* predecessors[t]: the edges TaskGraph.graph has into t
  status,         \* status[t]: Task.status, "absent" outside the graph
  retryCount,     \* retryCount[t]: Task.retry_count
  runs,           \* how often t's agent was called (history)
  pc              \* pc[t]: where t's coroutine awaits, "idle" without one

vars == <<stage, projectStatus, dependencies, predecessors, status, retryCount,
          runs, pc>>
graph == <<dependencies, predecessors>>
tasks == <<status, retryCount, runs, pc>>

Stages == {"bootstrapping", "strategy", "architecture", "executing",
           "self_critique", "completed", "failed"}

TypeOK ==
  /\ stage \in Stages
  /\ projectStatus \in Stages
  /\ dependencies \in [Task -> SUBSET Task]
  /\ predecessors \in [Task -> SUBSET Task]
  /\ status \in [Task -> {"absent", "pending", "in_progress", "retrying",
                          "completed", "failed"}]
  /\ retryCount \in [Task -> Nat]
  /\ runs \in [Task -> Nat]
  /\ pc \in [Task -> {"idle", "calling", "saving", "backoff"}]

-------------------------------------------------------------------------------
(* Building the graph. *)

\* add_task adds an edge only from tasks already added, t itself included.
EdgesInto(p, t) ==
  {d \in p.dependencies[t] :
     \E i, j \in DOMAIN p.order : i <= j /\ p.order[i] = d /\ p.order[j] = t}

\* networkx finds no cycle, so no add_task raises: however tasks are picked,
\* one of them has no edge from the others or from itself.
IsAcyclic(p) ==
  \A S \in SUBSET PlanTasks(p) :
    S # {} => \E t \in S : EdgesInto(p, t) \intersect S = {}

\* Mutant of BuiltFrom: add_task without its cycle check.
BuiltUnchecked(p) == p

\* The plan the graph is built from when the model answers p.
BuiltFrom(p) == IF IsAcyclic(p) THEN p ELSE StandardPlan

-------------------------------------------------------------------------------
(* The graph's queries. *)

ReadyTasks ==
  {t \in Task : status[t] = "pending"
                /\ \A d \in predecessors[t] : status[d] = "completed"}

BlockedTasks ==
  {t \in Task : status[t] = "pending"
                /\ \E d \in predecessors[t] : status[d] = "failed"}

\* Mutants of IsComplete: no coroutine is at work; and is_successful.
NothingRunning == \A t \in Task : status[t] \notin {"in_progress", "retrying"}
IsSuccessful == \A t \in Task : status[t] \in {"absent", "completed"}

IsComplete == \A t \in Task : status[t] \in {"absent", "completed", "failed"}

\* The tasks whose coroutines asyncio.gather is waiting for.
Wave == {t \in Task : pc[t] # "idle"}

-------------------------------------------------------------------------------
(* The lifecycle coroutine. *)

Init ==
  /\ stage = "bootstrapping"
  /\ projectStatus = "bootstrapping"
  /\ dependencies = [t \in Task |-> {}]
  /\ predecessors = [t \in Task |-> {}]
  /\ status = [t \in Task |-> "absent"]
  /\ retryCount = [t \in Task |-> 0]
  /\ runs = [t \in Task |-> 0]
  /\ pc = [t \in Task |-> "idle"]

Enter(from, to) ==
  /\ stage = from
  /\ stage' = to
  /\ projectStatus' = to

BeginStrategy == Enter("bootstrapping", "strategy") /\ UNCHANGED <<graph, tasks>>

\* The CEO's plan arrived, or its exception was replaced by the fallback plan.
BeginArchitecture == Enter("strategy", "architecture") /\ UNCHANGED <<graph, tasks>>

\* An exception outside the guarded agent calls ends the lifecycle: a plan or
\* an architecture that is not a dict, or one json.dumps refuses.
LifecycleRaises ==
  /\ \/ Enter("strategy", "failed")
     \/ Enter("architecture", "failed")
  /\ UNCHANGED <<graph, tasks>>

\* The architecture is there; the graph is built from the model's answer or,
\* without a usable one, from the standard plan.
BuildGraph(answer) ==
  LET p == BuiltFrom(answer)
  IN  /\ Enter("architecture", "executing")
      /\ dependencies' = [t \in Task |-> IF t \in PlanTasks(p) THEN p.dependencies[t] ELSE {}]
      /\ predecessors' = [t \in Task |-> IF t \in PlanTasks(p) THEN EdgesInto(p, t) ELSE {}]
      /\ status' = [t \in Task |-> IF t \in PlanTasks(p) THEN "pending" ELSE "absent"]
      /\ UNCHANGED <<retryCount, runs, pc>>

\* Mutant of StartWave: the tasks are spawned, and nobody waits for them.
StartWaveUnawaited ==
  /\ stage = "executing"
  /\ ReadyTasks # {}
  /\ status' = [t \in Task |-> IF t \in ReadyTasks THEN "in_progress" ELSE status[t]]
  /\ runs' = [t \in Task |-> runs[t] + (IF t \in ReadyTasks THEN 1 ELSE 0)]
  /\ pc' = [t \in Task |-> IF t \in ReadyTasks THEN "calling" ELSE pc[t]]
  /\ UNCHANGED <<stage, projectStatus, graph, retryCount>>

\* The loop of _execute_task_graph when the previous gather has returned.  With
\* no ready task it sleeps and looks again, which changes nothing.
StartWave ==
  /\ stage = "executing"
  /\ Wave = {}
  /\ ReadyTasks # {}
  /\ status' = [t \in Task |-> IF t \in ReadyTasks THEN "in_progress" ELSE status[t]]
  /\ runs' = [t \in Task |-> runs[t] + (IF t \in ReadyTasks THEN 1 ELSE 0)]
  /\ pc' = [t \in Task |-> IF t \in ReadyTasks THEN "calling" ELSE pc[t]]
  /\ UNCHANGED <<stage, projectStatus, graph, retryCount>>

GraphComplete ==
  /\ Wave = {}
  /\ IsComplete
  /\ Enter("executing", "self_critique")
  /\ UNCHANGED <<graph, tasks>>

FinishProject == Enter("self_critique", "completed") /\ UNCHANGED <<graph, tasks>>

-------------------------------------------------------------------------------
(* The coroutine of one task, _execute_single_task. *)

\* execute_task returned, or its credentials error was replaced by a fallback
\* output: the task is completed, and its checkpoint is being saved.
AgentReturns(t) ==
  /\ pc[t] = "calling"
  /\ pc' = [pc EXCEPT ![t] = "saving"]
  /\ status' = [status EXCEPT ![t] = "completed"]
  /\ UNCHANGED <<stage, projectStatus, graph, retryCount, runs>>

CheckpointSaved(t) ==
  /\ pc[t] = "saving"
  /\ pc' = [pc EXCEPT ![t] = "idle"]
  /\ UNCHANGED <<stage, projectStatus, graph, status, retryCount, runs>>

\* Mutants of Raise: one retry too many; and a coroutine that ends instead of
\* looping after it marked its task as retrying.
RaiseOneRetryMore(t) ==
  /\ retryCount' = [retryCount EXCEPT ![t] = @ + 1]
  /\ \/ /\ retryCount[t] <= MaxRetries
        /\ status' = [status EXCEPT ![t] = "retrying"]
        /\ pc' = [pc EXCEPT ![t] = "backoff"]
     \/ /\ retryCount[t] > MaxRetries
        /\ status' = [status EXCEPT ![t] = "failed"]
        /\ pc' = [pc EXCEPT ![t] = "idle"]

RaiseAbandons(t) ==
  /\ retryCount' = [retryCount EXCEPT ![t] = @ + 1]
  /\ pc' = [pc EXCEPT ![t] = "idle"]
  /\ status' = [status EXCEPT ![t] =
                  IF retryCount[t] < MaxRetries THEN "retrying" ELSE "failed"]

\* The except branch: retry after a back-off while can_retry, else mark_failed.
Raise(t) ==
  /\ retryCount' = [retryCount EXCEPT ![t] = @ + 1]
  /\ \/ /\ retryCount[t] < MaxRetries
        /\ status' = [status EXCEPT ![t] = "retrying"]
        /\ pc' = [pc EXCEPT ![t] = "backoff"]
     \/ /\ retryCount[t] >= MaxRetries
        /\ status' = [status EXCEPT ![t] = "failed"]
        /\ pc' = [pc EXCEPT ![t] = "idle"]

\* The agent raised, or no agent is registered for the task's role.
AgentRaises(t) ==
  /\ pc[t] = "calling"
  /\ Raise(t)
  /\ UNCHANGED <<stage, projectStatus, graph, runs>>

\* save_checkpoint raised, or the output is not a dict: the same except branch,
\* although the task is already marked completed.
CheckpointRaises(t) ==
  /\ pc[t] = "saving"
  /\ Raise(t)
  /\ UNCHANGED <<stage, projectStatus, graph, runs>>

BackoffOver(t) ==
  /\ pc[t] = "backoff"
  /\ pc' = [pc EXCEPT ![t] = "calling"]
  /\ runs' = [runs EXCEPT ![t] = @ + 1]
  /\ UNCHANGED <<stage, projectStatus, graph, status, retryCount>>

-------------------------------------------------------------------------------

\* DELETE /v1/projects/{id}: the status only; the coroutines run on.
CancelProject ==
  /\ projectStatus' = "failed"
  /\ UNCHANGED <<stage, graph, tasks>>

LifecycleStep ==
  \/ BeginStrategy
  \/ BeginArchitecture
  \/ LifecycleRaises
  \/ \E answer \in Plans \union {StandardPlan} : BuildGraph(answer)
  \/ StartWave
  \/ GraphComplete
  \/ FinishProject

TaskStep(t) ==
  \/ AgentReturns(t)
  \/ AgentRaises(t)
  \/ CheckpointSaved(t)
  \/ CheckpointRaises(t)
  \/ BackoffOver(t)

Next ==
  \/ LifecycleStep
  \/ \E t \in Task : TaskStep(t)
  \/ CancelProject

\* The event loop runs every coroutine that can go on, and every awaited call
\* (agent, git, sleep) returns or raises in the end.
Fairness ==
  /\ WF_vars(LifecycleStep)
  /\ \A t \in Task : WF_vars(TaskStep(t))

Spec == Init /\ [][Next]_vars /\ Fairness

-------------------------------------------------------------------------------
(* Properties. *)

\* Once a task's agent has been called, the tasks it has edges from are
\* completed and their checkpoints settled, for good: a predecessor whose
\* checkpoint fails is run again while no dependent has seen its output.
PredecessorsSettled ==
  \A t \in Task : runs[t] > 0 =>
    \A d \in predecessors[t] : status[d] = "completed" /\ pc[d] = "idle"

\* The loop never sleeps for nothing: with the wave over, unfinished tasks and
\* none ready, some task waits for a failed one, so the warning is logged.
NoSilentStall ==
  (stage = "executing" /\ Wave = {} /\ ~IsComplete /\ ReadyTasks = {})
    => BlockedTasks # {}

\* Self-critique and the final report see a graph at rest: every task ended,
\* and every ended task's agent was called as often as its retries say.
QuiescentAtCritique ==
  stage \in {"self_critique", "completed"} =>
    \A t \in Task :
      /\ pc[t] = "idle"
      /\ \/ status[t] = "absent"
         \/ status[t] = "completed" /\ runs[t] = retryCount[t] + 1
         \/ status[t] = "failed" /\ runs[t] = MaxRetries + 1

\* A failure reaches only the tasks behind it: every other task of the graph
\* ends, completed or failed in its own right.
FailedUpstream(t) ==
  LET within[n \in Nat] ==
        IF n = 0 THEN predecessors[t]
        ELSE LET nearer == within[n - 1]
             IN  nearer \union UNION {predecessors[d] : d \in nearer}
  IN  \E d \in within[Cardinality(Task)] : status[d] = "failed"

FailureContained ==
  \A t \in Task :
    (status[t] = "pending") ~> (status[t] \in {"completed", "failed"} \/ FailedUpstream(t))

\* The lifecycle ends unless some task waits for a failed one.
EndsUnlessBlocked == <>(stage \in {"completed", "failed"} \/ BlockedTasks # {})

\* The graph implements the abstract retry discipline.  A task waiting out its
\* back-off is on offer again.
Retries ==
  INSTANCE RetryQueue WITH
    Budget <- [t \in Task |-> MaxRetries],
    offered <- {t \in Task : status[t] = "pending" \/ pc[t] = "backoff"},
    handedOut <- runs,
    charged <- retryCount

ImplementsRetryQueue == Retries!Spec

\* The engine "handles failures": a project with a failed task comes to a
\* reported end.
FailureEndsProject ==
  (\E t \in Task : status[t] = "failed") ~> (stage \in {"completed", "failed"})

===============================================================================
