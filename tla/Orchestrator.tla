----------------------------- MODULE Orchestrator -----------------------------
(***************************************************************************)
(* The Go orchestrator's pipeline for one project                          *)
(* (go-backend/internal/orchestrator/server): the gRPC handlers that       *)
(* create and cancel it, the result handler that applies agents' results   *)
(* to the task table and starts the next stage, the heartbeat handler, and *)
(* the lease monitor.  They share the Postgres rows, the Redis leases and  *)
(* the ai-org-tasks topic, without a transaction around any two            *)
(* statements: what a goroutine has still to do after a statement is a     *)
(* variable here, and a crash or a failed statement forgets it.            *)
(*                                                                         *)
(* Kafka delivers at least once, the agents never commit the tasks they    *)
(* consume, and an orchestrator restarted before its offsets are committed *)
(* consumes results again.  So a result of a task published once may be    *)
(* handled at any later time, any number of times, with either outcome.    *)
(*                                                                         *)
(* The tables are taken as the statements expect them: they have every     *)
(* column that is named, no CHECK refuses a status, and a row scans.       *)
(***************************************************************************)
EXTENDS Naturals

CONSTANTS
  MaxTasks,       \* bound on the task ids drawn
  MaxRetries,     \* the lease monitor's maxRetries (3 in the code)
  ResultVersions, \* the versions results carry: 0 if the agent sends none, as the
                  \* shipped ones, 1 if it sends back what it was told
  MaxFaults       \* bound on crashes and failed statements

Task == 1..MaxTasks  \* the uuids, in the order they are drawn

ASSUME BoundsAssumption == MaxTasks \in Nat /\ MaxRetries \in Nat /\ MaxFaults \in Nat
\* A task row starts at version 1 and agents are never told its later ones.
ASSUME VersionsAssumption == ResultVersions \subseteq {0, 1}

VARIABLES
  project,     \* projects.status
  role,        \* role[t]: the agent a drawn id's message is for, else "none"
  status,      \* status[t]: tasks.status, "absent" without a row
  version,     \* version[t]: tasks.version
  retryCount,  \* retryCount[t]: tasks.retry_count
  costs,       \* costs[t]: rows of cost_events for t
  succeeded,   \* tasks a successful result of which was applied (history)
  leased,      \* tasks with a key task:lease:<id> in Redis
  published,   \* published[t]: messages for t on ai-org-tasks (history)
  due,         \* steps that handlers have still to take
  toPublish,   \* inserted rows whose message is still to be sent
  scanned,     \* the rows the lease monitor selected and has not reached
  lost,        \* the row it found without a lease
  toRepublish, \* the row it reset and will publish again
  faults       \* crashes and failed statements so far

rows == <<role, status, version, retryCount, costs, succeeded>>
monitor == <<scanned, lost, toRepublish>>
vars == <<project, rows, leased, published, due, toPublish, monitor, faults>>

Stages == {"CEO", "CTO", "Engineer_Backend"}
Steps == Stages \union {"close", "recover", "skip"}

TypeOK ==
  /\ project \in {"absent", "planning", "cancelled", "done", "failed", "recovering"}
  /\ role \in [Task -> Stages \union {"none"}]
  /\ status \in [Task -> {"absent", "pending", "running", "done", "failed", "skipped"}]
  /\ version \in [Task -> Nat]
  /\ retryCount \in [Task -> Nat]
  /\ costs \in [Task -> Nat]
  /\ succeeded \subseteq Task
  /\ leased \subseteq Task
  /\ published \in [Task -> Nat]
  /\ due \subseteq Steps
  /\ toPublish \subseteq Task
  /\ scanned \subseteq Task
  /\ lost \subseteq Task
  /\ toRepublish \subseteq Task
  /\ faults \in 0..MaxFaults

Init ==
  /\ project = "absent"
  /\ role = [t \in Task |-> "none"]
  /\ status = [t \in Task |-> "absent"]
  /\ version = [t \in Task |-> 1]
  /\ retryCount = [t \in Task |-> 0]
  /\ costs = [t \in Task |-> 0]
  /\ succeeded = {}
  /\ leased = {}
  /\ published = [t \in Task |-> 0]
  /\ due = {}
  /\ toPublish = {}
  /\ scanned = {}
  /\ lost = {}
  /\ toRepublish = {}
  /\ faults = 0

\* A statement or publication fails, or the process crashes.
Fault == faults < MaxFaults /\ faults' = faults + 1

\* uuid.NewString: an id nobody has drawn.
Fresh(t) == role[t] = "none" /\ \A u \in Task : u < t => role[u] # "none"

-------------------------------------------------------------------------------
(* The gRPC handlers. *)

\* CreateProject, as far as the project's row.
CreateProject ==
  /\ project = "absent"
  /\ project' = "planning"
  /\ due' = due \union {"CEO"}
  /\ UNCHANGED <<rows, leased, published, toPublish, monitor, faults>>

\* The next stage's row is inserted: by CreateProject for the CEO, which also
\* takes the lease, by dispatchNextAfterCEO and dispatchNext for the others.
InsertTask(r, t) ==
  /\ r \in due \intersect Stages
  /\ Fresh(t)
  /\ due' = due \ {r}
  /\ role' = [role EXCEPT ![t] = r]
  /\ status' = [status EXCEPT ![t] = "pending"]
  /\ leased' = IF r = "CEO" THEN leased \union {t} ELSE leased
  /\ toPublish' = toPublish \union {t}
  /\ UNCHANGED <<project, version, retryCount, costs, succeeded, published, monitor, faults>>

Publish(t) ==
  /\ t \in toPublish
  /\ toPublish' = toPublish \ {t}
  /\ published' = [published EXCEPT ![t] = @ + 1]
  /\ UNCHANGED <<project, rows, leased, due, monitor, faults>>

\* CancelProject's first statement; the second one skips the open tasks.
CancelProject ==
  /\ project = "planning"
  /\ project' = "cancelled"
  /\ due' = due \union {"skip"}
  /\ UNCHANGED <<rows, leased, published, toPublish, monitor, faults>>

SkipTasks ==
  /\ "skip" \in due
  /\ due' = due \ {"skip"}
  /\ status' = [t \in Task |-> IF status[t] \in {"pending", "running"} THEN "skipped"
                               ELSE status[t]]
  /\ UNCHANGED <<project, role, version, retryCount, costs, succeeded, leased,
                 published, toPublish, monitor, faults>>

-------------------------------------------------------------------------------
(* The result handler. *)

\* Mutant of TaskStatus: the message's word is stored as it is.
TaskStatusVerbatim(result) == result

\* The task's status for the result's: whatever has not failed is done.
TaskStatus(result) == IF result = "failed" THEN "failed" ELSE "done"

Successor(r) == CASE r = "CEO"              -> "CTO"
                  [] r = "CTO"              -> "Engineer_Backend"
                  [] r = "Engineer_Backend" -> "close"

\* Mutant of NextStep: the next stage follows a failure too.
NextStepIgnoringFailure(r, outcome) == Successor(r)

\* What Handle does once the row is updated.
NextStep(r, outcome) == IF outcome = "failed" THEN "recover" ELSE Successor(r)

\* Mutant of Accepts: no optimistic lock.
AcceptsAnyVersion(t, v) == status[t] \notin {"absent", "done"}

\* The UPDATE finds its row: id, version and status agree.
Accepts(t, v) == status[t] \notin {"absent", "done"} /\ version[t] = v

\* Handle on a result of t: no effect unless the UPDATE hits its row.  The cost is
\* recorded too, and the handler goes on when its insert fails.
HandleResult(t, result, v) ==
  /\ published[t] > 0
  /\ Accepts(t, v)
  /\ status' = [status EXCEPT ![t] = TaskStatus(result)]
  /\ version' = [version EXCEPT ![t] = @ + 1]
  /\ leased' = leased \ {t}
  /\ \/ costs' = [costs EXCEPT ![t] = @ + 1] /\ UNCHANGED faults
     \/ Fault /\ UNCHANGED costs
  /\ succeeded' = IF TaskStatus(result) = "done" THEN succeeded \union {t} ELSE succeeded
  /\ due' = due \union {NextStep(role[t], TaskStatus(result))}
  /\ UNCHANGED <<project, role, retryCount, published, toPublish, monitor>>

CloseProject ==
  /\ "close" \in due
  /\ due' = due \ {"close"}
  /\ project' = "done"
  /\ UNCHANGED <<rows, leased, published, toPublish, monitor, faults>>

\* SagaCoordinator.HandleFailure sends the CEO a correction under a fresh id,
\* for which it inserts no row; then the project is marked.
Recover(t) ==
  /\ "recover" \in due
  /\ Fresh(t)
  /\ due' = due \ {"recover"}
  /\ role' = [role EXCEPT ![t] = "CEO"]
  /\ toPublish' = toPublish \union {t}
  /\ \/ project' = "recovering" /\ UNCHANGED faults
     \/ Fault /\ UNCHANGED project
  /\ UNCHANGED <<status, version, retryCount, costs, succeeded, leased, published, monitor>>

-------------------------------------------------------------------------------
(* Agents and leases. *)

\* An agent at work on t sets the row running.  No statement in the repository
\* does; the lease monitor and CancelProject expect it.
ClaimTask(t) ==
  /\ published[t] > 0
  /\ status[t] = "pending"
  /\ status' = [status EXCEPT ![t] = "running"]
  /\ UNCHANGED <<project, role, version, retryCount, costs, succeeded, leased, published, due,
                 toPublish, monitor, faults>>

\* The heartbeat handler takes the lease whatever the task's state; only those of
\* running tasks are ever read again.
Heartbeat(t) ==
  /\ status[t] = "running"
  /\ t \notin leased
  /\ leased' = leased \union {t}
  /\ UNCHANGED <<project, rows, published, due, toPublish, monitor, faults>>

LeaseExpires(t) ==
  /\ t \in leased
  /\ leased' = leased \ {t}
  /\ UNCHANGED <<project, rows, published, due, toPublish, monitor, faults>>

-------------------------------------------------------------------------------
(* The lease monitor, one tick of checkLeases. *)

\* Mutant of ScanRunning: it selects the tasks nobody has claimed.
ScanPending ==
  /\ scanned = {} /\ lost = {} /\ toRepublish = {}
  /\ scanned' = {t \in Task : status[t] = "pending"}
  /\ scanned' # {}
  /\ UNCHANGED <<project, rows, leased, published, due, toPublish, lost, toRepublish,
                 faults>>

ScanRunning ==
  /\ scanned = {} /\ lost = {} /\ toRepublish = {}
  /\ scanned' = {t \in Task : status[t] = "running"}
  /\ scanned' # {}
  /\ UNCHANGED <<project, rows, leased, published, due, toPublish, lost, toRepublish,
                 faults>>

CheckLease(t) ==
  /\ t \in scanned
  /\ lost = {} /\ toRepublish = {}
  /\ scanned' = scanned \ {t}
  /\ lost' = {t} \ leased
  /\ UNCHANGED <<project, rows, leased, published, due, toPublish, toRepublish, faults>>

\* Mutant of RetryLost: the limit is compared the wrong way round.
RetryLostOneMore(t) ==
  /\ t \in lost
  /\ retryCount[t] <= MaxRetries
  /\ lost' = {}
  /\ toRepublish' = {t}
  /\ status' = [status EXCEPT ![t] = "pending"]
  /\ retryCount' = [retryCount EXCEPT ![t] = @ + 1]
  /\ UNCHANGED <<project, role, version, costs, succeeded, leased, published, due, toPublish,
                 scanned, faults>>

\* The row is reset without a look at the status it has by now.
RetryLost(t) ==
  /\ t \in lost
  /\ retryCount[t] < MaxRetries
  /\ lost' = {}
  /\ toRepublish' = {t}
  /\ status' = [status EXCEPT ![t] = "pending"]
  /\ retryCount' = [retryCount EXCEPT ![t] = @ + 1]
  /\ UNCHANGED <<project, role, version, costs, succeeded, leased, published, due, toPublish,
                 scanned, faults>>

Republish(t) ==
  /\ t \in toRepublish
  /\ toRepublish' = {}
  /\ published' = [published EXCEPT ![t] = @ + 1]
  /\ UNCHANGED <<project, rows, leased, due, toPublish, scanned, lost, faults>>

\* Retries exhausted: the task fails, and the project unless its UPDATE does.
FailLost(t) ==
  /\ t \in lost
  /\ retryCount[t] >= MaxRetries
  /\ lost' = {}
  /\ status' = [status EXCEPT ![t] = "failed"]
  /\ \/ project' = "failed" /\ UNCHANGED faults
     \/ Fault /\ UNCHANGED project
  /\ UNCHANGED <<role, version, retryCount, costs, succeeded, leased, published, due, toPublish,
                 scanned, toRepublish>>

-------------------------------------------------------------------------------

\* A crash forgets everything in memory, a failed statement or publication one
\* goroutine's remaining steps: errors are returned or logged, never retried.
Forget ==
  /\ Fault
  /\ due' \in SUBSET due
  /\ toPublish' \in SUBSET toPublish
  /\ scanned' \in {scanned, {}}
  /\ lost' \in SUBSET lost
  /\ toRepublish' \in SUBSET toRepublish
  /\ UNCHANGED <<project, rows, leased, published>>

MonitorStep(t) ==
  CheckLease(t) \/ RetryLost(t) \/ Republish(t) \/ FailLost(t)

Next ==
  \/ CreateProject
  \/ \E r \in Stages, t \in Task : InsertTask(r, t)
  \/ \E t \in Task : Publish(t)
  \/ CancelProject
  \/ SkipTasks
  \/ \E t \in Task, result \in {"completed", "failed"}, v \in ResultVersions :
        HandleResult(t, result, v)
  \/ CloseProject
  \/ \E t \in Task : Recover(t)
  \/ \E t \in Task : ClaimTask(t) \/ Heartbeat(t) \/ LeaseExpires(t)
  \/ ScanRunning
  \/ \E t \in Task : MonitorStep(t)
  \/ Forget

\* The orchestrator's goroutines go on and the monitor's ticker fires.  Nothing is
\* assumed of the agents.
Fairness ==
  /\ WF_vars(\E r \in Stages, t \in Task : InsertTask(r, t))
  /\ WF_vars(CloseProject)
  /\ WF_vars(ScanRunning)
  /\ \A t \in Task : WF_vars(Publish(t)) /\ WF_vars(MonitorStep(t))

Spec == Init /\ [][Next]_vars /\ Fairness

\* And every published task gets a successful result in the end: one that the
\* handler takes, if results of any version it takes arrive at all.
AnsweredSpec ==
  /\ Spec
  /\ \A t \in Task : WF_vars(\E v \in ResultVersions : HandleResult(t, "completed", v))

-------------------------------------------------------------------------------
(* Properties. *)

RowsOf(r) == {t \in Task : role[t] = r /\ status[t] # "absent"}

\* However often results are delivered and tasks are retried, every stage of the
\* pipeline has at most one row, at most one result of a row is applied, and its
\* cost is recorded at most once.
EachStageOnce ==
  /\ \A r \in Stages : \A t, u \in RowsOf(r) : t = u
  /\ \A t \in Task : version[t] <= 2 /\ costs[t] <= version[t] - 1

\* A stage begins only when a successful result of the stage before it was
\* applied, and a project is done only when one of every stage was, whatever
\* failed results, retries and late results came in between.
PipelineOrder ==
  /\ RowsOf("CTO") # {} => RowsOf("CEO") \intersect succeeded # {}
  /\ RowsOf("Engineer_Backend") # {} => RowsOf("CTO") \intersect succeeded # {}
  /\ project = "done" => RowsOf("Engineer_Backend") \intersect succeeded # {}

\* A running task whose agent has fallen silent does not stay running.
LostTaskLeavesRunning ==
  \A t \in Task : ~<>[](status[t] = "running" /\ t \notin leased)

\* No fault, cancellation, failed result or lost lease.
Calm ==
  /\ faults = 0
  /\ project \in {"absent", "planning", "done"}
  /\ lost = {}
  /\ \A t \in Task : status[t] # "failed"

\* "ResultHandler processes task results from Kafka and advances the DAG": an
\* undisturbed project gets from planning to done.  Does not hold with the shipped
\* agents: their ResultMessage has no version, so each result arrives with 0, and
\* no UPDATE finds a row, which starts at 1.
PipelineCompletes == []Calm => ((project = "planning") ~> (project = "done"))

\* The lease monitor's retries implement the abstract retry discipline.
Retries ==
  INSTANCE RetryQueue WITH
    Budget <- [t \in Task |-> MaxRetries],
    offered <- toPublish \union toRepublish,
    handedOut <- published,
    charged <- retryCount

ImplementsRetryQueue == Retries!Spec

===============================================================================
