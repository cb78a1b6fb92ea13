# Verification of the Autonomous Multi-Agent AI Organization

TLA+ models of the parts of this repository that decide *which work is done, when, how often
and for whom*: the two execution graphs, the engine and the orchestrator that drive them, the
agents' consume loop and model calls, the expert router, the event fan-out, the gateway's
creation of a project, the workspace the agents share, and the backend an agent generates. TLC
checks the models on small instances; TLAPS proves the safety results for every value of the
constants.

Contents: 1 the system, 2 the modules, 3 the runs, 4 the proofs, 5 where the code and what is
said of it part, 6 what is not modelled.

## 1. The system

Two control planes live side by side in the repository.

* The **Python engine** (`orchestrator/planner.py`, served by `api/main.py`) runs a project in
  one process: it asks agents for a plan and an architecture, builds a task graph, executes it
  wave by wave, saves a checkpoint of the workspace after each task and reports events to
  websockets.
* The **Go services** (`go-backend/`) run it across processes: the gateway calls the
  orchestrator over gRPC; the orchestrator keeps projects and tasks in Postgres, leases in Redis,
  publishes tasks to `ai-org-tasks`, and consumes results and heartbeats that Python agents
  (`agents/agent_service.py`) publish; the ws-hub fans events out to browsers.

| Component | State it keeps | Operations | Interacts with | What makes it correct |
|---|---|---|---|---|
| Execution DAG, `dag.go` | status, retry count and dependencies of each task, under a mutex | AddTask, Validate, ReadyTasks, MarkRunning, MarkDone, MarkFailed, RequeueStaleTasks | a dispatcher, the executions it starts, a sweeper | starts bounded by the retries; a failure keeps what depends on it from starting; nothing runs unowned or for ever |
| Project engine, `planner.py`, `task_graph.py` | phase, graph, each task's status and retries, one coroutine per running task | start, lifecycle phases, build graph, run a wave, retry, cancel | agents, checkpoints, subscribers | a task runs after what it depends on; failures stay contained; the lifecycle ends |
| Orchestrator server, `server/*.go` | project and task rows, leases, steps its goroutines have still to take | CreateProject, CancelProject, result and heartbeat handlers, lease monitor, saga correction | Postgres, Redis, Kafka, agents | each stage once and in order; lost tasks retried within the limit; a project gets done |
| Agent runtime, `agent_service.py`, `base_agent.py` | current task, budget counter in Redis, cache of answers, thread pool | consume, process, publish result or DLQ entry, call the model | Kafka, Redis, providers | no task is lost; spending stops near the budget; an answer is the answer to its question |
| Message bus, `kafka_client.py`, `kafka.go` | topics, offsets, the group's assignment | publish, poll, mark, commit, rebalance | everyone | what is read again is known and bounded |
| Event fan-out, `cmd/ws-hub`, `api/main.py` | connection registries, replay stream, offsets | register, broadcast, store, leave | browsers, the engine's lifecycle | a client sees its project's events in order and once; a dead client harms nobody |
| Gateway, `gateway/` | idempotency keys, rate windows | middlewares, forwarding handlers, settings | orchestrator, Redis, Postgres | one effect per idempotency key; every request answered |
| Keys and preferences, `keystore.go`, `settings_handler.go` | users' keys, preferences per role | add, delete, prefer, resolve at dispatch | gateway, orchestrator | a task is sent with a key its user had and meant |
| Expert routing, `moe/`, `moe-scoring/` | load, successes, latencies and costs of each expert; belief about the service | route, route_batch, start, complete, fail, health_check | scoring service | counts are the tasks that run; the choice is not beaten in every respect |
| Project memory, `orchestrator/memory/` | workspace, manifest of artifacts, git index and branch, logs | save, checkpoint, rewind | the engine, agents | a checkpoint holds what its task made; a rewind restores it |
| Agents and tools, `agents/`, `tools/` | none between tasks | draft, critique, write files, run tests | models, workspace | what reaches the project's memory is usable |
| Generated backend, templates of `backend_agent.py` | accounts and items | register, login, item routes | its users | one account per address; what was deleted stays deleted |

`PROJECT.json` lists these and the parts that are not modelled, with the reason, and every
behaviour that is hard to test, at its line ("hazards").

The hard behaviours are: snapshots used after a lock is released (`dag.go`); awaits between a
status and what it stands for (`planner.py`), between a budget check and its count
(`base_agent.py`), inside a loop over a list that others change (`api/main.py`); git commands side
by side on one worktree (`checkpointing.py`); statements without a transaction around them
(`results.go`, `keystore.go`, `idempotency.go`) and a consumer that marks messages its handler
failed on (`kafka.go`); at-least-once delivery with agents that never commit; leases that expire
while work goes on; threads that outlive the wait for them; and loops whose termination depends on
the shape of a graph a language model wrote.

## 2. Modules

| Module | Models | State | Actions |
|---|---|---|---|
| `RetryQueue` | the abstract promise about retries: a task on offer is handed out once and comes back only for a charge within its budget | `offered`, `handedOut`, `charged` | `Offer`, `HandOut`, `Reoffer`, `Exhaust`, `Withdraw` |
| `TaskDag` | `dag.go` and its three callers | fields of `Task` as functions of the id; `ready` and `stale` are the snapshots used after the lock; `executing` counts executions that will still report | one per method; `RequeueStaleTasks` is two (`CollectStale`, `FailStale`), as it drops the lock in between |
| `ProjectEngine` | `planner.py`, `task_graph.py`, the API's cancel handler | `stage` is where the lifecycle coroutine is, `projectStatus` what the API reports, `pc` where each task's coroutine awaits; `dependencies` is what was declared, `predecessors` the edges that were built | code between two awaits is one action |
| `Orchestrator` | `grpc.go`, `results.go`, `heartbeat.go`, `monitor.go`, `saga.go` for one project | rows and leases; `due`, `toPublish`, `scanned`, `lost`, `toRepublish` are what goroutines have still to do after their last statement | one per statement or publication; `Forget` is a crash or a failed statement |
| `AgentRuntime` | `agent_service.py`, the budget gate of `base_agent.py` and the consumer half of `kafka_client.py`, for the pods of one role and one partition | the partition's `log`, `owner` and `position`; each pod's `phase` and `current` message, and whether it is `deaf`; the three topics' contents; `used` is `budget:used`, `calling` the agents between the gate and the counter | `Poll`, `AgentReturns`/`AgentRaises`, `Report`/`ReportLost`, `Shutdown`, `Crash`, `Start`; the group's `Join` and `Rebalance`; `PassGate`, `BypassGate`, `CallCounted`, `CallUncounted` |
| `ModelCalls` | `call_llm`, `self_critique` and the semantic cache of `base_agent.py`, `memory.py`, with the runs of the CEO and the CTO agent | each project's `stage` and `pc`, its `answer`, `draft`, `plan` and `design`; the `cache`; `queue`, `running` and `hung`, the jobs of the default thread pool | `BeginCall`, `Gate`, `TimesOut`, `Retry` of a call; `ThreadTakes`, `ThreadHangs`, `ThreadEnds`; `PlanDrafted` ... `DesignCriticised`, what an agent does with an answer or an exception |
| `ExpertRouting` | `moe/` and the scorer of `moe-scoring/` | `stage`, `request` and `decision` of each task, the `batch` awaited; the registry's `load`, `total`, `failed`, `spent`, `latencies`; `available`, what the client believes | `Route`, `RouteBatch`; `Answered`/`Unanswered` and `BatchAnswered`/`BatchUnanswered`, what comes of the service; `BatchDecided`; `HealthCheck`; `Start`, `Complete`, `Fail` |
| `WsHub` | `cmd/ws-hub/main.go` and the consumer of `kafka.go` | the partition (`topic`, `committed`, `marked`), the consumer's `stage` and the connections it has `remaining`, the Redis `stream`, the registry `conns`, what each connection `received` | `BeginBroadcast`, `Write`, `EndBroadcast`, `Store`, `PassOver`, `AutoCommit`; `Replay`, `RegisterReplayed`, `RegisterFresh`, `Close`, `Stick`, `Remove`; `Restart` |
| `LiveEvents` | the websockets of `api/main.py` and the engine's subscribers | `listeners`, the list `broadcast` iterates over while others change it; each source's `index`, the connection it is `sending` to and those that were `dead` | `Subscribe`, `Connect`, `Authenticate`, `PeerCloses`, `Disconnect`; `Broadcast`, and the three ends of a send: `Delivered`, `TimesOut`, `Raises` |
| `Workspace` | `checkpointing.py`, `git_tool.py`, `artifacts_store.py` and what the agents write | `worktree`, git's `index`, `lock`, `commits` and `head`, the `manifest`; each task's `phase` and what it `made`; what a command that was given up has `left` running; the `rewind` in progress | `StartWave`, `AgentWrites`, `AgentEnds`, `Raises`; `BranchFails`; `Begins`, `Ends`, `Refused` and `GivenUp` of the add and of the commit; `Diff`, `DiffFails`; `ResetBegins`, `ResetEnds`, `ResetGivenUp`, `Clean`, `CleanFails` |
| `KeyStore` | the tables of keys and preferences and the queries on them | `added`, `gone`, `pref` | `AddKey`, `DeleteKey`, `SetAgentPref`, `DeleteAgentPref`; `ResolveKey` is the second query of the resolver |
| `Gateway` | `POST /v1/projects` through the gateway's middlewares, the orchestrator's `CreateProject` with `keystore.go`, and back; it extends `KeyStore` | where each attempt is (`pc`), its `answer`, the idempotency key's value `idem`, who has `held` a connection, what was `seen` and resolved (`config`), `projects`, `tasks`, `sent` | one per command to Redis, Postgres or Kafka: `Lookup`, `Mark`, `InsertProject`, `InsertTask`, `ReadPref`, `ReadKey`, `Publish`, `Store`; their failures (`Unguarded`, `Refuse`, `Unavailable`, `OrchestratorDies`); `Expire`, `Edit`, `Crash` |
| `GeneratedApp` | the server that the templates of `backend_agent.py` make | rows of `accounts` and `items`; for each request its operation `op`, its next query `pc` and what its session `loaded` | `Begin`, then one per query: `CheckEmail`, `InsertUser`, `Login`, `Authenticate`, `Create`, `List`, `Load`, `CommitUpdate`, `CommitDelete`, `Refresh`, `QueryFails` |

`TaskDag`, `ProjectEngine` and `Orchestrator` each implement `RetryQueue` through an instance with
a refinement mapping (`Retries`), which is checked and proved. `MC*.tla` are the instances TLC
checks, `*Proofs.tla` hold the theorems; the definitions of `ModelCalls`, `LiveEvents` and
`GeneratedApp` that other modules have too carry a prefix (`CallsInit`, `LiveNext`, `AppSpec`), as
each of these is proved about beside another module. Definitions named "Mutant of ..." are
plausible bugs: each property of a passing run is violated when one of them replaces the definition
it mutates. Variables and components marked "(history)" only record what happened; no guard reads
them.

How the modules fit together:

* `AgentRuntime` is the environment that `Orchestrator` assumes: the results there may arrive any
  number of times and late, which is what pods that never commit an offset produce.
* `ModelCalls` opens up what `AgentRuntime` treats as one step between the gate and the counter,
  and `ProjectEngine` as one step of its planning stage: both take the end of a call as given,
  and `PlannedUnlessBlocked` says when it does not come. Its `PlanUsable` is about what the plan and
  the design hold, `Plans` there about the graph of tasks that is asked for later.
* `Workspace` opens up the checkpoint that `ProjectEngine` awaits after each task; `LiveEvents`
  opens up the emission of an event. `BroadcastEnds` is why the lifecycle may be taken not to wait
  for a browser for ever.
* `Gateway` ends where `Orchestrator` begins: with the row of the planning task and its message.

### Abstractions

Names, prompts, payloads, timestamps and amounts are left out unless a property tells them apart.
Which tasks have outlived a timeout, which outcome an agent has, what a model answers and when a
lease expires are nondeterministic.

*TaskDag.* Nothing in the repository but its tests calls the package, so the dispatcher is the one
the comments and `dag_test.go` describe: it asks for the ready tasks, marks each of them running
and ignores the ones `MarkRunning` refuses.

*ProjectEngine.* The model's answer is one of the constant `Plans`; an answer with a cycle makes
`add_task` raise and the standard plan take its place, as in the code.

*Orchestrator.* The tables are taken as the statements expect them. The repository ships two
schemas (the migrations and the chart's `init.sql`); neither alone has every column the statements
name, `trace_id` is NULL in every inserted row although the monitor scans it into a string, and
no statement sets a task running although the monitor and CancelProject look for it. The model
keeps `ClaimTask` as an external action and lets rows scan; with the schemas as shipped the lease
monitor's part never happens, which leaves a subset of the model's behaviours.
A result names the version of the row that was sent, or none; the shipped agents' never names one.

*AgentRuntime.* Money is counted in calls, since each adds the same flat estimate to
`budget:used`. A message is one of four kinds: a task, a task on its last attempt, one that
`TaskMessage` refuses, one of another role. Agents of other roles appear only through the budget
they share. The counter is read and incremented in single Redis commands; what lies between them,
an `await` of the provider, is where other agents act. A pod whose consumer cannot reach
Kafka when it starts is `deaf` for its life; one whose producer cannot, loses each outcome, as any
pod may lose one (`ReportLost`). That the queues of the bus in memory hold 10,000 messages, after
which a publication blocks, is left out.

*ModelCalls.* An answer is one of four kinds: without text, not JSON, JSON that an agent cannot work
with, or as asked for. Two prompts for the same stage may be similar enough for the cache, whoever
asks. An agent is taken to have a model: without one its answers are fixed texts. A thread that
calls a provider, or embeds a prompt, may hang: the Gemini clients are built without a timeout
(`memory.py:31`, `agent_service.py:93`).

*ExpertRouting.* Factors and scores are in thousandths, as the code rounds them; capabilities
are the registry's vectors in twentieths, and Python's keyword vectors and cosines are computed.
The service embeds the task with a model of its own and compares what it finds with the vectors it
is sent, so its similarity may be any of the constant `Nearness`. A single candidate, with no
ensemble forced, makes `route` raise (`router.py:198`), and a task that raises takes the other
tasks of its batch with it. No caller of the registry's `record_*` methods is in the repository:
`Start`, `Complete` and `Fail` are what a caller would do, once each and in that order.

*WsHub.* One project, and the partition of its id. The orchestrator keys its events by the project;
the agents key theirs by the event's type or the task's id (`misfiled`), which may be on this
partition or on another, and the hub passes them over. An event is its offset.

*LiveEvents.* Coroutines are suspended in sends only, so what lies between two sends is one action.
A browser that reconnects is a new connection.

*Workspace.* A file's content is the number of the attempt that wrote it. A git command that
changes the index holds `index.lock` while it runs and fails if another holds it. Any command may
also fail for a reason of its own, or be given up after its limit, when it is not killed
(`base_tool.py:172`) and runs on with the lock: `MaxFailures` bounds these. A failed look at the
branch makes an initial commit of whatever there is (`checkpointing.py:62`). Tasks may have files
of the same names, as two tasks of one role in a plan of the model's do; the properties promise
nothing about the files they share. In the standard plan only the DevOps tasks do, one after the
other.

*Gateway.* The attempts are one client's tries at one project, from one address, with one
idempotency key or none: `JWTAuth` runs after the limiter and the idempotency check, so neither
knows the user. An attempt over the rate is answered at once; the counter is not modelled, any
attempt may be over it.

*GeneratedApp.* Each request has its own session; two requests interleave between their queries
(READ COMMITTED). A row's id is the request that inserted it.

## 3. Runs

| Run | Question | Instance | States | Result |
|---|---|---|---|---|
| `TaskDag` | do retries, cascade, recovery and completion hold under any interleaving? | 3 tasks, 1 retry each; chain, fork, join, short cut, and two graphs with a cycle | 29,193 | holds |
| `ProjectEngine` | do waves respect the graph, do failures stay contained, does the lifecycle end? | the standard 8-task plan and 5 answers (fork, forward reference, self-dependency, cycle, no task), 1 retry | 7,213 | holds |
| `ProjectEngine_livelock` | does a project with a failed task come to an end? | same | | violated |
| `Orchestrator` | each stage once, in order; lost tasks retried? | 3 task ids, 1 retry, results with version 0 or 1, one fault | 308,026 | holds |
| `Orchestrator_versions` | is a calm project with the shipped agents done in the end? | same, results with version 0, no fault | | violated |
| `AgentRuntime` | is each task of a role run, reported and settled whatever stops its pod, how often, and by how much can the budget be exceeded? | 2 pods, 1 agent of another role, 2 messages, limit of 1 call, 1 disturbance, 1 ungated call, any start out of reach of Kafka | 342,864 | holds |
| `ModelCalls` | is what reaches memory usable, and is every project planned that no hung thread blocks? | 2 projects, 1 thread, 2 attempts | 428,793 | holds |
| `ExpertRouting` | are the counts the running tasks, and is the chosen expert not beaten in every term? | 2 experts (one takes 1 task, one takes 2), 3 tasks, 5 requests, 2 similarities, a window of 1 | 34,126 | holds |
| `WsHub` | does each connection get its events in order, and does nothing but a stuck one hold it up? | 2 connections, stream of 1, 3 events, 1 crash | 250,924 | holds |
| `LiveEvents` | what does a list that changes under the loop cost a websocket, and does each broadcast end? | 2 coroutines (2 and 1 events), 2 websockets, one of which sends a command | 77,514 | holds |
| `Workspace` | are a completed task's files in the last commit, does a rewind restore its checkpoint? Do racing requests to the backend written there make one account, and does what was deleted stay so? | an engineer's task, then tests and infrastructure side by side; 1 retry, 1 rewind, 1 failure of git; 2 requests, 2 addresses, 2 values of a field | 2,314,306 | holds |
| `Gateway` | who gets past a marked idempotency key, with which of the user's keys is a task sent, is every attempt answered? | 2 attempts, a pool of 2 connections, 2 providers and a key of one, 3 edits, 1 crash | 745,244 | holds |

What the properties say, in the order of the runs:

* `TaskDag`: `CascadeExact` (a final failure skips only tasks that depend on it, and all of them
  that were never started and are reached through such tasks; the comment on `skipDownstream`
  promises more than that: section 5), `HungTaskRecovered` (a task whose execution hangs leaves that
  state), `CompletesWithoutTimeouts` (a graph nothing disturbs is completed),
  `ImplementsRetryQueue`.
* `ProjectEngine`: `PredecessorsSettled` (a task runs only after what it was linked to),
  `NoSilentStall` (a graph that is not complete has a task running, ready, or behind a failed one),
  `QuiescentAtCritique` (no coroutine of a task outlives the execution stage), `FailureContained` (a
  task behind no failed one ends), `EndsUnlessBlocked`, `ImplementsRetryQueue`.
* `Orchestrator`: `EachStageOnce`, `PipelineOrder`, `LostTaskLeavesRunning`, `ImplementsRetryQueue`.
  `PipelineCompletes` (an undisturbed project is done in the end) is refuted for results without a
  version; with `ResultVersions` {0, 1} in its cfg TLC finds it to hold.
* `AgentRuntime`: `NothingSkipped` (what the owner's position has passed was reported, or is being
  worked on), `ExecutionsBounded` (a task is executed once, and once more for each disturbance),
  `OvershootBounded` (the budget is exceeded by one call per agent and the ungated ones),
  `EveryTaskSettled` (unless all the role's pods are deaf).
* `ModelCalls`: `PlanUsable`, `PlannedUnlessBlocked` (a project is planned, from templates if need
  be, unless it stays where it embeds a prompt: in a thread that hangs, or behind a pool full of
  such threads).
* `ExpertRouting`: `LoadIsRunning` (`current_load` is the number of tasks between start and end),
  `ChoiceUndominated` (where there is a decision, no candidate is nearer, freer, more successful,
  faster and cheaper than the expert chosen).
* `WsHub`: `FeedInOrder` (a feed goes back only for a crash, once for each), `ServedSinceRegistered`
  (a registered connection has every event with its project's key whose broadcast began since),
  `ServedUnlessStuck`.
* `LiveEvents`: `InOrderOnce`, `PassedOverBounded` (a removal costs a running broadcast one
  listener at most), `BroadcastEnds`.
* `Workspace`: `SavedUnlessRefused` (the files that a completed task wrote alone are in the last
  commit, unless a git command of its own failed or a rewind took them), `RewindRestores` (a rewind
  nobody writes or stages beside leaves exactly the commit's files); of `GeneratedApp`,
  `OneAccountPerEmail` and `DeletedStays`. The two modules share no state and the initial state of
  `MCWorkspace` says which of them runs.
* `Gateway`: `RepeatsExplained` (who gets past the idempotency check although another had marked the
  key was not checked: it had no key, or Redis failed at its look-up or its mark; so a project is
  made twice only by an unchecked attempt, by attempts that raced, or after the key expired),
  `DispatchedKey` (the key sent was not deleted before the request and is of the provider sent, or
  the one the preference names), `AnsweredUnlessStarved` (an attempt is answered, unless the
  resolvers hold every connection of the pool).

Each module has a type invariant. The runs of `Orchestrator`, `AgentRuntime` and `Gateway` check it;
the others leave it to its proof.

`RetryBudget`, `ChargedAtMostTwice` and `RunningIsOwned` of `TaskDag` (starts are bounded by the
retries, a start is charged twice at most, a running task has an execution that is still to report)
are stated and proved, and in no run: `ImplementsRetryQueue` and `HungTaskRecovered` check the same
accounts. So is `StallExplained` (`TaskDagProofs`), whose liveness counterpart
`CompletesWithoutTimeouts` is in the run.

Why the bounds are enough. Three tasks give every shape in which one task's failure can reach or
miss another (chain, fork, join, short cut), and a dispatcher that holds a stale list of two. One
retry is the least that separates "retried" from "exhausted"; in `TaskDag` and `ProjectEngine` the
proofs cover any number. The eight tasks of the standard plan are needed since the plan is in the
code. In `Orchestrator` three ids are one row per stage, or a row and a correction; one fault is
enough to lose any single step, and the safety properties are proved for any number of ids, retries
and faults. In `AgentRuntime` two pods are needed to hand the partition over while the first still
works, two messages to skip one, three agents to overshoot the limit together; the proofs cover any
number of each. In `ModelCalls` one thread is fewer than the jobs that one call's attempts can leave
behind, so that threads given up do hold up the other project. In `ExpertRouting` three tasks fill
both experts, which is what sends a task to the last resort. In `WsHub` a stream of one drops events
with the second, and three events give the broadcasts before, during and after a crash; in
`LiveEvents` two websockets are the least with one to pass over, and the one that commands
broadcasts while the coroutines do. In `Workspace` two tasks must run side by side after one whose
files are committed, and one failure of git besides those of the lock is enough to leave a command
running that holds it. In `Gateway` two attempts can hold the pool's two connections and race for
one key, one crash is of the gateway or of the orchestrator, and three edits add a key, prefer it
and delete it or choose another provider, between the resolver's two queries if need be. In
`GeneratedApp` two requests race beside an account and an item that are there from the start. For
the safety properties nothing rests on these bounds: each of them is proved for any number of each
(section 4). They matter to the liveness properties.

`CHECK_DEADLOCK FALSE` is given where the system may really stop: a finished graph, a finished
lifecycle, a project whose steps were forgotten, planning that is done, no more events, requests or
tasks. `ExpertRouting` is checked for deadlock: its health check can always be called.

### Fairness

* `TaskDag`: weak fairness of the dispatcher's and the sweeper's loops (a ready task is looked at
  and started, a running task is collected in the end, because its timeout passes, and failed).
  None for executions: they may hang.
* `ProjectEngine`: weak fairness of the lifecycle and of each task's coroutine. asyncio schedules
  every coroutine whose await has finished, and the agents' calls, the git commands and the sleeps
  it awaits end or raise; that an embedding may hang instead is the subject of `ModelCalls`.
* `Orchestrator`: weak fairness of the goroutines' next steps (a goroutine that is not killed goes
  on), and of the lease monitor (its ticker fires every 30 s and each tick goes through its rows).
  None for `Forget`, cancellation, claims, heartbeats or expiry. `PipelineCompletes` alone is about
  `AnsweredSpec`, which adds weak fairness of a successful result of each published task: it is
  refuted for agents that do answer.
* `AgentRuntime`: weak fairness of the group's assignment (the broker gives a partition without an
  owner to a polling consumer), of each pod's poll, report and start (`restart: unless-stopped`
  in `docker-compose.yml`), and of the end of a model call, which times out. An agent makes
  finitely many calls in a run: it is again and again between two calls, so the end of its run has
  strong fairness. That takes for granted that `execute_task` ends: nothing limits it
  (`agent_service.py:392`), and a Gemini embedding that hangs in the cache (`memory.py:43-50`) is
  awaited without a limit; `EveryTaskSettled` says nothing of a pod that is held up so, which
  `ModelCalls` does. None for crashes, shutdowns or rebalances.
* `ModelCalls`: weak fairness of each project's coroutine with its timers, of the pool (a free
  thread takes the first job) and of the end of each job that does not hang: any job may, at any
  time, as the clients have no timeout. None for success: every attempt may fail.
* `WsHub`: weak fairness of each write (a write to a connection that is not stuck returns) and
  strong fairness of the consumer's own steps. Go's iteration over a map ends, but connections
  that register meanwhile may be visited too and make the end of the broadcast possible only again
  and again. None for clients, commits or crashes.
* `LiveEvents`: weak fairness of the time-out of each send (`wait_for`, half a second), and of
  nothing else: the broadcast ends even if no peer ever takes a message.
* `Gateway`: weak fairness of each attempt's steps: Redis, Postgres and Kafka answer or fail.
  A resolver that waits for a connection has no step while there is none.
* `Workspace`, `ExpertRouting`, `GeneratedApp` state safety only and no fairness.

## 4. Proofs

All proofs are checked by TLAPS; every theorem is about a module's specification and any constants
that satisfy its named assumptions: finite `Task` and connections; retry limits in `Nat`, positive
in `TaskDag` because `AddTask` replaces 0; plans whose dependencies are listed; results' versions 0
or 1; a stream, a pool and a window of latencies that hold at least one; a thread and an attempt at
least; experts that may take a task each, with capabilities in twentieths up to 1. Every safety
property of the runs is a theorem.

* `TaskDagProofs`: `TypeCorrect`, `RetryBudgetHolds`, `ChargedAtMostTwiceHolds`,
  `RunningIsOwnedHolds`, `RefinesRetryQueue`, `CascadeExactHolds`, `StallExplainedHolds`, and
  `AttemptsBounded` of the retry discipline itself. The inductive invariant keeps accounts of each
  task (`Accounts`): every start after the first is paid for by a retry, a pending task has already
  paid for its next start, and each start buys two charges, one for its report and one for the
  sweeper. `RetryBudget` alone is not inductive: it does not say that a pending task has a start
  left. `AttemptsBounded` rests on the same idea in the abstract: a task was handed out at most as
  often as it was charged, plus one if it is not on offer. `CascadeExact` and `StallExplained` need
  to know what the recursive `Downstream` and `Upstream` compute on a graph of any size.
  `IterationExists` shows that a function can be iterated, hence that these definitions have values;
  `Saturates`, that a set of tasks which grows until it stays stays after as many rounds as there
  are tasks. So `Downstream` is closed and has no member without a reason (`DownstreamExact`), and
  `Upstream` is the least closed set (`UpstreamExact`). A graph `Validate` accepts has no cycle
  (`ValidateSound`: of any set of its tasks, one with the fewest tasks upstream has none of the set
  there), and keeps what it needs (`GraphValid`).
* `ProjectEngineProofs`: `TypeCorrect`, `PredecessorsSettledHolds`, `NoSilentStallHolds`,
  `QuiescentAtCritiqueHolds`, `RefinesRetryQueue`. `EInv` adds where each coroutine can be in each
  status (`Coroutine`), that coroutines exist only while the graph executes (`StageAgrees`), that
  every set of tasks has a member without an edge from it (`GraphSound`, from `IsAcyclic` of the
  plan built, `StandardPlanIsAcyclic` included) and that edges come from tasks of the graph
  (`Registered`). `NoSilentStall` follows by taking the set of unfinished tasks: its member without
  edges inside it is ready or blocked.
* `OrchestratorProofs`: `TypeCorrect`, `EachStageOnceHolds`, `PipelineOrderHolds`,
  `RefinesRetryQueue`. `OInv` treats a stage as a token (`Tokens`): it is due only while it has no
  row, and it exists, due or as a row, only when the stage before has succeeded. The optimistic
  lock (`Rows`) admits one result per row, so a token is never issued twice.
* `AgentsProofs`, the agents at work: `TypeCorrect`, `NothingSkippedHolds`,
  `ExecutionsBoundedHolds`, `OvershootBoundedHolds`. `RInv` adds which phases go with which message
  (`Working`), that every execution but the one of the current assignment is paid for by a
  disturbance (`Executions`: a message behind the owner's position may have been taken once more
  than the others), and that a call in flight is as good as counted (`Spending`: calls counted and
  in flight exceed `Limit - 1` by at most one per agent and the ungated ones).
* `AgentsProofs`, their model calls: `CallsTypeCorrect`, `PlanUsableHolds`. `CInv` adds
  where a project can be (`Sound`): a call that waits has its job in the queue or in a thread, so
  that the answer it is given is for the stage it is at, and what is under critique is something,
  the design's an object, as costing it has read its fields.
* `FanOutProofs`, the hub: `TypeCorrect`, `ServedSinceRegisteredHolds`, `FeedInOrderHolds`.
  `Served` adds the event in hand: a connection the broadcast has passed has it already. `Ordered`
  makes crashes pay for steps back, those a feed has taken and the one its next event would be
  (`Paid`, `Ahead`); the stream is a feed too, since a replay copies it, and what a connection may
  have got depends on whether the broadcast has still to come to it (`Upto`).
* `FanOutProofs`, the API's websockets: `LiveTypeCorrect`, `InOrderOnceHolds`,
  `PassedOverBoundedHolds`. `LiveInv` follows each broadcast (`Followed`): whoever has its event, or
  is being sent it, stands at its index or before, which no removal can undo since it moves places
  towards the front; and those it owes the event and has come past are as few as the removals.
  The latter counts the connection at the index, which `PassedOver` does not, because a removal
  moves the next one there (`WithoutIs`, what a removal leaves in which order).
* `WorkspaceProofs`, the workspace: `TypeCorrect`, `SavedUnlessRefusedHolds`, `RewindRestoresHolds`.
  `Safe` says where the files of a task's last attempt are in each phase, for the tasks that nothing
  was refused to, nobody rewound and no other shares a name with: in the worktree, in the index
  since its add ended, in what a running add of another task has read. The last follows from the
  lock, which a command keeps after it was given up: an add that began before would have had the
  task's own add refused (`LockHeld`). `Restoring` says what a reset has done when the cleaning
  begins; `TreesKnown`, that whatever a reset brings back is in the manifest, so that cleaning
  spares it.
* `WorkspaceProofs`, the generated application: `AppTypeCorrect`, `OneAccountPerEmailHolds`,
  `DeletedStaysHolds`. `AInv` says which rows a request's progress vouches for (`Sound`): a
  registration past its insertion has its account, and an id is used by the call that makes it only
  (`Made`), so that a deleted item's id is not filled again.
* `ExpertRoutingProofs`: `RoutingTypeCorrect`, `LoadIsRunningHolds`, `ChoiceUndominatedHolds`.
  `ExpertInv` counts a failure apart from the tasks that run (`Booked`), which keeps the success
  rate in its range. `ChoiceUndominated` is about the arithmetic: quotients, the 95th percentile,
  the rounded square root and each term of the score are bounded and grow with what is better
  (`Quotient`, `QuotientGrows`, `RootIs`, `CosineIs`, `P95Is`, `ScaledFalls`), so the score does
  (`ScoreGrows`, `ServiceScoreGrows`), in Python's rounding and in the service's.
* `GatewayProofs`: `TypeCorrect`, `RepeatsExplainedHolds`, `DispatchedKeyHolds`. `Progress` says
  what an attempt has stored at each step, `Unmarked` that an absent key has been marked by nobody
  since it was made or expired, so that only a look-up that failed can have passed a mark, `Fits`
  that what was resolved for an attempt agrees with the settings from its request on. That the
  second query finds a row of the user's, although both tables change in between, is the lemma
  `ResolveKeyFinds`.

Only model-checked:

* Liveness (`HungTaskRecovered`, `CompletesWithoutTimeouts`, `FailureContained`,
  `EndsUnlessBlocked`, `LostTaskLeavesRunning`, `EveryTaskSettled`, `PlannedUnlessBlocked`,
  `ServedUnlessStuck`, `BroadcastEnds`, `AnsweredUnlessStarved`): TLAPS does not support `ENABLED`
  and so no fairness argument.

Induction. The library's induction theorems take an operator as parameter, which the installed
backends cannot instantiate. The proofs take the least counterexample in a set of numbers instead
(`LeastExists`, from `WFMin`), and state what is iterated as a function.

`FailureEndsProject` and `PipelineCompletes` are refuted by counterexamples of TLC.

## 5. Where the code and what is said of it part

Two disagreements are exhibited by runs, and are the findings in `PROJECT.json`:

* *Failed projects.* After a task with dependents has failed for good, the engine polls its blocked
  tasks for ever (`ProjectEngine_livelock`).
* *Results' versions.* The Go handler applies a result only to the row of the version it names
  (`results.go:78`); the Python `ResultMessage`, which it "matches" (`results.go:33`), has no such
  field, so that it is read as 0, and rows start at 1: with the agents as shipped no project gets
  past its first stage (`Orchestrator_versions`).

What else was met while modelling. The models follow the code; none of these is a run.

* *The cascade.* `skipDownstream` "marks all tasks that depend (directly or transitively) on the
  failed task as Skipped" (`dag.go:176`), but walks only pending ones (`dag.go:180`). When the
  sweeper has found an execution stale, the execution may still succeed and a dependent start; the
  sweeper then fails the completed task all the same, and if its retry fails for good the dependent
  runs on unskipped. Should it fail too, it goes back to pending and waits for a failed task for
  ever. `CascadeExact` promises the skip only to what was never started.
* *Progress.* `architecture.md:93` has the agents' events streamed to the UI. The hub takes an
  event's key for its project (`main.go:98`), the agents key theirs by its type
  (`agent_service.py:543`) or by the task (`base_agent.py:215`), so that no connection gets them.
  What the properties of `WsHub` promise concerns the events keyed by the project, which are the
  orchestrator's.
* *One request at a time.* "Request is currently being processed" (`idempotency.go:51`) is looked up
  and marked in two commands, between which another request looks: both are processed, and make a
  project each. `RepeatsExplained` tolerates that.
* *The fallback.* "Falls back to pure-Python scoring" (`http_client.py:5`) raises where a single
  expert may take the task and no ensemble is forced (`router.py:198`, `schemas.py:193`): `route`
  has no decision, and a batch loses all of its own. `ChoiceUndominated` leaves these requests out.
* *Heartbeats.* The lease of a task is renewed by a heartbeat that names it; the agent service never
  gives its agent a producer (`base_agent.py:254`), and the heartbeats it sends itself name a pod
  (`agent_service.py:214`), which the handler takes for the lease of a task without a name.
* *Falling back.* A Kafka client that "falls back to in-memory bus if Kafka is unavailable (dev
  mode)" does so in production as well, when Kafka is late, and never tries again: the pod is deaf,
  or runs tasks and tells nobody, and reports itself healthy.
* *Stale ready lists.* A dispatcher that holds a list from `ReadyTasks` may start a task whose
  dependency has gone back to pending since (`dag.go:91`): `MarkRunning` looks only at the task.
* *Dropped edges.* `add_task` ignores a dependency on a task that comes later in the answer
  (`task_graph.py:150`), so a declared order is kept only as far as the answer lists it.
* *Cancelling.* A result that arrives late overwrites the skipped row of a cancelled project and
  starts its next stage (`orchestrator.proto:17` says that cancelling stops it). The Python API's
  cancel is overwritten by the lifecycle's next phase (`main.py:483`), as its comment admits.
* *Stage transitions.* `architecture.md:116` calls them atomic; they are a statement, an insertion
  and a publication, and a crash between them strands the project.
* *Budget.* The gate (`base_agent.py:115`) stops at the limit one agent at a time: several of them
  pass it together, by as much as `OvershootBounded` says.
* *Cache.* "If exact thought was processed before" (`base_agent.py:332`) is a cosine above 0.98 of
  the prompt, without role, model or system prompt; what a model answered is stored before anything
  looks at it, malformed answers included, and a hit passes by the budget gate.
* *The plan's check.* The CEO's `isinstance` check (`ceo_agent.py:140`) is not reached by what it
  is meant for: `self_critique` raises on it first. `PlanUsable` holds thanks to that, and to a log
  line that takes the length of a list.
* *Scoring service.* Its answer carries a `task_id`, but `MoERouteDecision` needs a `request_id`
  (`router.py:119`): `route` and `route_batch` raise whenever the service answers. The state is sent
  "so it matches python state", yet the service compares a thousand-number embedding with Python's
  eight-number vectors and has a table of types of its own.
* *Overload.* `router.py` speaks of queueing tasks when all experts are overloaded; nothing is
  queued, the first expert takes the task. Once a request has failed, the client believes the
  service down until `health_check`, which nobody calls.
* *Checkpoints.* "Captures the exact workspace state" (`checkpointing.py:43`) does not hold for
  saves side by side: a commit takes what others staged, and a git command that is refused, fails or
  takes more than a minute leaves a checkpoint without its task's files, and one that was given up
  goes on beside the next. What a rewind restores of the memory is dropped by its handler.
* *Tests.* "We actually call the tool" (`qa_agent.py:423`): the command is passed as the tool's
  `action`, and its result has no `.get`, so each run of the tests is a simulated pass (`TestRuns`).
* *Idempotency.* A request whose look-up fails goes on, whatever the key says (`idempotency.go:43`):
  during an outage of Redis a retry makes its project again. Any answer is stored as COMPLETED, a
  503 too, so the retry is told that it is a duplicate; a crash leaves PENDING until the key
  expires. Only a refusal by the CSRF check stores FAILED.
* *The pool.* `ResolveForAgent` keeps the first query's connection during the second: as many
  requests as the pool has connections wait for one another, and the call has no deadline
  (`handler.go:103`). `AnsweredUnlessStarved` is as much as can be promised.
* *Preferences.* `SetAgentPref` accepts a key of another provider than the one it names.

## 6. Not modelled, and why

* The Kafka dispatcher's futures and `consume_loop`: the planner sets its dispatcher to None and
  nothing else makes one. What the in-memory bus does when everything runs in one process for
  development: the API publishes to it and nothing reads it.
* The counters of the gateway's and the API's rate limiters; the gateway's routes that forward one
  request or read or write one row; JWT, CSRF and encryption, which are functions of one value.
* The decay worker, which rewrites columns nothing reads; the cost ledger, the decision log and the
  project's memory, which append to lists nothing decides on; metrics, tracing and health.
* Prompts, and the text of the templates for infrastructure and the frontend; the tools that only
  read or that nothing calls (browser, linter, collaboration).
* User interfaces, deployment, the egress proxy, the security checker: input and output without
  state that the rest depends on.
* `AddTask` of an id that exists, which replaces the task: no caller does it.
  `suspend_for_approval`, which publishes its request before it waits for the answer: nothing calls
  it.

What could come next, in order: an abstract specification of the fan-out that `WsHub` and
`LiveEvents` both implement; the cooperation of `Gateway` and `Orchestrator` in one behaviour; the
rate limiters' windows.
