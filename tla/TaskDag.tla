------------------------------- MODULE TaskDag -------------------------------
(***************************************************************************)
(* The execution DAG of the Go orchestrator                                *)
(* (go-backend/internal/orchestrator/dag/dag.go) with the three parties    *)
(* that call it concurrently: the dispatcher, which asks for the ready     *)
(* tasks and then starts them one by one; the executions it started, each  *)
(* of which reports once, however late; and the stale-task sweeper.        *)
(*                                                                         *)
(* Every method holds the graph's mutex, so it is one action, except       *)
(* RequeueStaleTasks: it collects the stale ids under a read lock, drops   *)
(* the lock, and fails them one at a time.  The ready list too is used     *)
(* after its lock is released.  Both snapshots are variables here.         *)
(***************************************************************************)
EXTENDS Naturals, FiniteSets

CONSTANTS
  Task,             \* task ids
  MaxRetries,       \* MaxRetries[t]: Task.MaxRetries
  DependencyGraphs  \* the functions Task.DependsOn may be: [Task -> SUBSET Task]

\* AddTask replaces 0 by 3.
ASSUME MaxRetriesAssumption == MaxRetries \in [Task -> Nat \ {0}]
ASSUME GraphsAssumption == DependencyGraphs \subseteq [Task -> SUBSET Task]
ASSUME TaskAssumption == IsFiniteSet(Task)

VARIABLES
  dependsOn,   \* dependsOn[t]: Task.DependsOn
  validated,   \* has Validate accepted the graph?
  status,      \* status[t]: Task.Status, "absent" before AddTask
  retryCount,  \* retryCount[t]: Task.RetryCount
  executing,   \* executions of t that have not reported yet
  dispatched,  \* how often t was started (history)
  ready,       \* the list ReadyTasks returned, minus the entries dealt with
  stale        \* the ids RequeueStaleTasks collected, minus those failed

vars == <<dependsOn, validated, status, retryCount, executing, dispatched,
          ready, stale>>

Status == {"pending", "running", "done", "failed", "skipped"}

TypeOK ==
  /\ dependsOn \in [Task -> SUBSET Task]
  /\ validated \in BOOLEAN
  /\ status \in [Task -> Status \union {"absent"}]
  /\ retryCount \in [Task -> Nat]
  /\ executing \in [Task -> Nat]
  /\ dispatched \in [Task -> Nat]
  /\ ready \subseteq Task
  /\ stale \subseteq Task

-------------------------------------------------------------------------------
(* The graph's queries. *)

Tasks == {t \in Task : status[t] # "absent"}

allDepsComplete(t) == \A d \in dependsOn[t] : status[d] = "done"

ReadyTasks == {t \in Task : status[t] = "pending" /\ allDepsComplete(t)}

IsComplete == \A t \in Task : status[t] \notin {"pending", "running"}

\* Everything t depends on in one step or more, along registered tasks.
Upstream(t) ==
  LET within[n \in Nat] ==
        IF n = 0 THEN dependsOn[t]
        ELSE within[n - 1] \union UNION {dependsOn[d] : d \in within[n - 1]}
  IN  within[Cardinality(Task)]

\* Validate returns no error: no cycle.  A dependency that is not registered
\* is a nil *Task there, so the depth-first search panics on it.
ValidGraph == \A t \in Tasks : t \notin Upstream(t) /\ dependsOn[t] \subseteq Tasks

\* The tasks skipDownstream marks when failed has just failed, st being the
\* statuses at that point: it walks from a task to the pending tasks that list
\* it, so a dependent that is running or finished stops the walk.
DirectDownstream(st, failed) ==
  {u \in Task : st[u] = "pending" /\ dependsOn[u] \intersect failed # {}}

\* Mutant of Downstream: the walk does not recurse.
DownstreamShallow(st, failed) == DirectDownstream(st, {failed})

Downstream(st, failed) ==
  LET skipped[n \in Nat] ==
        IF n = 0 THEN DirectDownstream(st, {failed})
        ELSE skipped[n - 1] \union DirectDownstream(st, skipped[n - 1])
  IN  skipped[Cardinality(Task)]

-------------------------------------------------------------------------------
(* Building the graph. *)

Init ==
  /\ dependsOn \in DependencyGraphs
  /\ validated = FALSE
  /\ status = [t \in Task |-> "absent"]
  /\ retryCount = [t \in Task |-> 0]
  /\ executing = [t \in Task |-> 0]
  /\ dispatched = [t \in Task |-> 0]
  /\ ready = {}
  /\ stale = {}

\* AddTask with a fresh id (the code generates one when the caller gives none).
AddTask(t) ==
  /\ ~validated
  /\ status[t] = "absent"
  /\ status' = [status EXCEPT ![t] = "pending"]
  /\ UNCHANGED <<dependsOn, validated, retryCount, executing, dispatched,
                 ready, stale>>

Validate ==
  /\ ~validated
  /\ ValidGraph
  /\ validated' = TRUE
  /\ UNCHANGED <<dependsOn, status, retryCount, executing, dispatched,
                 ready, stale>>

-------------------------------------------------------------------------------
(* The dispatcher. *)

ScanReady ==
  /\ validated
  /\ ready = {}
  /\ ReadyTasks # {}
  /\ ready' = ReadyTasks
  /\ UNCHANGED <<dependsOn, validated, status, retryCount, executing,
                 dispatched, stale>>

\* Mutant of MarkRunning: no check that the entry is still pending.
MarkRunningUnchecked(t) ==
  /\ t \in ready
  /\ ready' = ready \ {t}
  /\ status' = [status EXCEPT ![t] = "running"]
  /\ executing' = [executing EXCEPT ![t] = @ + 1]
  /\ dispatched' = [dispatched EXCEPT ![t] = @ + 1]
  /\ UNCHANGED <<dependsOn, validated, retryCount, stale>>

\* MarkRunning on an entry of the list: an error unless it is still pending.
MarkRunning(t) ==
  /\ t \in ready
  /\ ready' = ready \ {t}
  /\ \/ /\ status[t] = "pending"
        /\ status' = [status EXCEPT ![t] = "running"]
        /\ executing' = [executing EXCEPT ![t] = @ + 1]
        /\ dispatched' = [dispatched EXCEPT ![t] = @ + 1]
     \/ /\ status[t] # "pending"
        /\ UNCHANGED <<status, executing, dispatched>>
  /\ UNCHANGED <<dependsOn, validated, retryCount, stale>>

-------------------------------------------------------------------------------
(* The executions' reports, and the failures the sweeper makes up.          *)
(* Neither MarkDone nor MarkFailed looks at the status it overwrites.       *)

\* The body of MarkFailed, under the lock.
Fail(t) ==
  LET failed == [status EXCEPT ![t] = "failed"]
      skipped == Downstream(failed, t)
  IN  /\ retryCount' = [retryCount EXCEPT ![t] = @ + 1]
      /\ \/ /\ retryCount[t] + 1 <= MaxRetries[t]
            /\ status' = [status EXCEPT ![t] = "pending"]
         \/ /\ retryCount[t] + 1 > MaxRetries[t]
            /\ status' = [u \in Task |-> IF u \in skipped THEN "skipped" ELSE failed[u]]

MarkDone(t) ==
  /\ executing[t] > 0
  /\ executing' = [executing EXCEPT ![t] = @ - 1]
  /\ status' = [status EXCEPT ![t] = "done"]
  /\ UNCHANGED <<dependsOn, validated, retryCount, dispatched, ready, stale>>

MarkFailed(t) ==
  /\ executing[t] > 0
  /\ executing' = [executing EXCEPT ![t] = @ - 1]
  /\ Fail(t)
  /\ UNCHANGED <<dependsOn, validated, dispatched, ready, stale>>

\* Mutant of CollectStale: only running tasks that nobody executes any more.
CollectUnowned(S) ==
  /\ stale = {}
  /\ S # {}
  /\ \A t \in S : status[t] = "running" /\ executing[t] = 0
  /\ stale' = S
  /\ UNCHANGED <<dependsOn, validated, status, retryCount, executing,
                 dispatched, ready>>

\* RequeueStaleTasks, first half: any of the running tasks may have outlived
\* the timeout by now.
CollectStale(S) ==
  /\ stale = {}
  /\ S # {}
  /\ \A t \in S : status[t] = "running"
  /\ stale' = S
  /\ UNCHANGED <<dependsOn, validated, status, retryCount, executing,
                 dispatched, ready>>

\* RequeueStaleTasks, second half: MarkFailed on one of the collected ids.
FailStale(t) ==
  /\ t \in stale
  /\ stale' = stale \ {t}
  /\ Fail(t)
  /\ UNCHANGED <<dependsOn, validated, executing, dispatched, ready>>

-------------------------------------------------------------------------------

Next ==
  \/ \E t \in Task : AddTask(t)
  \/ Validate
  \/ ScanReady
  \/ \E t \in Task : MarkRunning(t)
  \/ \E t \in Task : MarkDone(t)
  \/ \E t \in Task : MarkFailed(t)
  \/ \E S \in SUBSET Task : CollectStale(S)
  \/ \E t \in Task : FailStale(t)

\* The dispatcher's and the sweeper's loops go on.  A running task is collected
\* in the end, since its timeout passes; an execution need not ever report.
Fairness ==
  /\ WF_vars(ScanReady)
  /\ \A t \in Task : WF_vars(MarkRunning(t))
  /\ \A t \in Task : WF_vars(\E S \in SUBSET Task : t \in S /\ CollectStale(S))
  /\ \A t \in Task : WF_vars(FailStale(t))

Spec == Init /\ [][Next]_vars /\ Fairness

-------------------------------------------------------------------------------
(* Properties. *)

\* However reports, time-outs and restarts interleave, a task is started at
\* most MaxRetries + 1 times (the retry test of MarkFailed).
RetryBudget == \A t \in Task : dispatched[t] <= MaxRetries[t] + 1

\* One execution costs its task at most two retries: the sweeper may charge it
\* as stale and its own late report once more, but nothing charges it again.
ChargedAtMostTwice == \A t \in Task : retryCount[t] <= 2 * dispatched[t]

\* A task the graph calls running has an execution that is still to report, so
\* a running task never waits for nobody.
RunningIsOwned == \A t \in Task : status[t] = "running" => executing[t] > 0

\* The tasks behind t, and those of them on the way from t to u.
Dependents(t) == {u \in Task : t \in Upstream(u)}

Between(t, u) == Dependents(t) \intersect (Upstream(u) \union {u})

FailsForGood(t) == retryCount'[t] > retryCount[t] /\ status'[t] = "failed"

\* A permanent failure skips only tasks behind the failed one, and every one of
\* them, however far, that was never started and is reached through tasks that
\* were never started.  Not "all tasks that depend" on it, as the comment on
\* skipDownstream has it: an execution taken back as stale may succeed late and
\* let a dependent start, and when the retry then fails for good the walk passes
\* over the running dependent and whatever is behind it.
CascadeExact ==
  [][ \A t \in Task : FailsForGood(t) =>
        /\ \A u \in Task :
             status'[u] = "skipped" /\ status[u] # "skipped" => u \in Dependents(t)
        /\ \A u \in Dependents(t) \intersect Tasks :
             (\A d \in Between(t, u) : dispatched[d] = 0) => status'[u] = "skipped" ]_vars

\* A task whose execution hangs does not stay running for ever: the sweeper
\* takes it back.
HungTaskRecovered == \A t \in Task : (status[t] = "running") ~> (status[t] # "running")

\* A validated graph whose executions never outlive the timeout runs to the end.
CompletesWithoutTimeouts == (<>validated /\ [](stale = {})) => <>[](validated /\ IsComplete)

\* The graph implements the abstract retry discipline.
Retries ==
  INSTANCE RetryQueue WITH
    Budget <- MaxRetries,
    offered <- {t \in Task : status[t] = "pending"},
    handedOut <- dispatched,
    charged <- retryCount

ImplementsRetryQueue == Retries!Spec

===============================================================================
