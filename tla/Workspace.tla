------------------------------- MODULE Workspace -------------------------------
(***************************************************************************)
(* The workspace of one project: its agents save their files to it         *)
(* (agents, ArtifactsStore), the engine takes a checkpoint of it after     *)
(* each task, and a client may rewind it (CheckpointManager, GitTool).     *)
(*                                                                         *)
(* The tasks of a wave run side by side on one git worktree.  Each git     *)
(* command is a process that is awaited; those that change the index hold  *)
(* its lock while they run and fail if another holds it.  Any command may  *)
(* fail for a reason of its own, and is given up after a minute, when it   *)
(* runs on.  Which branch is checked out does not matter here: only the    *)
(* checkpoints' branch is ever left with commits, or the one it is made    *)
(* from.                                                                   *)
(*                                                                         *)
(* The agents' own loops over their files do not await: they are single    *)
(* actions.  A task's files are mostly its own; but a model's plan may     *)
(* have two tasks of one role, whose files have the same names.            *)
(***************************************************************************)
EXTENDS Naturals, Sequences, FiniteSets

CONSTANTS
  Task,
  Role,        \* Role[t]: whose task t is
  Needs,       \* Needs[t]: the tasks that t depends on
  First, Last, \* First[t], Last[t]: what t's agent may write before and after it awaits
  StateFile,   \* .ai-org/memory_state.json
  Nobody,
  MaxRetries,
  MaxRewinds,  \* bound on the clients' rewinds
  MaxFailures  \* bound on git's failures, but for those of a held lock

Output(t) == First[t] \union Last[t]
File == (UNION {Output(t) : t \in Task}) \union {StateFile}

Roles == {"Engineer_Backend", "Engineer_Frontend", "QA", "DevOps", "Finance"}

ASSUME WorkspaceAssumption ==
  /\ Role \in [Task -> Roles]
  /\ First \in [Task -> SUBSET File] /\ Last \in [Task -> SUBSET File]
  /\ Needs \in [Task -> SUBSET Task] /\ MaxRetries \in Nat /\ MaxRewinds \in Nat
  /\ MaxFailures \in Nat
  /\ \A t \in Task : StateFile \notin Output(t)
  /\ Nobody \notin Task /\ "rewind" \notin Task /\ Nobody # "rewind"

VARIABLES
  phase,    \* phase[t]: where task t is
  attempt,  \* attempt[t]: how often its agent was started
  made,     \* made[t]: the files of t's last attempt
  worktree, \* worktree[f]: the attempt that wrote f, 0 if there is no such file
  manifest, \* the files in ArtifactsStore._artifacts
  index,    \* git's index, as worktree
  lock,     \* who holds index.lock
  left,     \* what the holder was doing when it was given up, or "none"
  seen,     \* the worktree when the running add began
  commits,  \* the commits made: whose checkpoint, and its tree
  head,     \* the commit of the branch, 0 if there is none
  rewind,   \* "idle", "resetting", "cleaning"
  target,   \* the commit to rewind to
  rewinds,  \* rewinds so far
  bootstrap, \* tasks whose checkpoint first makes an initial commit
  failures, \* git's failures so far, but for those of a held lock
  refused,  \* tasks one of whose git commands failed or was given up (history)
  rewound,  \* tasks whose files a rewind may have taken (history)
  disturbed \* files were written or staged during the rewind (history)

git == <<index, lock, left, seen, commits, head>>
failing == <<bootstrap, failures, refused>>
rewinding == <<rewind, target, rewinds, rewound>>
vars == <<phase, attempt, made, worktree, manifest, git, rewinding, failing, disturbed>>

Tree == [File -> 0..(MaxRetries + 1)]
Empty == [f \in File |-> 0]
HeadTree == IF head = 0 THEN Empty ELSE commits[head].tree

Saving == {"saving", "adding", "added", "committing"}
Phase == {"waiting", "working", "awaiting"} \union Saving \union {"changed", "done", "failed"}

VarTypes ==
  /\ phase \in [Task -> Phase]
  /\ attempt \in [Task -> 0..(MaxRetries + 1)]
  /\ made \in [Task -> SUBSET File] /\ \A t \in Task : made[t] \subseteq Output(t)
  /\ worktree \in Tree /\ index \in Tree /\ seen \in Tree
  /\ manifest \subseteq File \ {StateFile}
  /\ commits \in Seq([by : Task, tree : Tree]) /\ head \in 0..Len(commits)
  /\ rewind \in {"idle", "resetting", "cleaning"}
  /\ target \in 0..Len(commits)
  /\ rewinds \in 0..MaxRewinds
  /\ left \in {"none", "add", "commit", "reset"}
  /\ refused \subseteq Task /\ rewound \subseteq Task
  /\ bootstrap \subseteq Task /\ failures \in 0..MaxFailures
  /\ disturbed \in BOOLEAN

LockHeld ==
  /\ lock \in Task \union {Nobody, "rewind"}
  /\ \A t \in Task : lock = t /\ left = "none" <=> phase[t] \in {"adding", "committing"}
  /\ lock = "rewind" /\ left = "none" <=> rewind = "resetting"
  /\ left \in {"add", "commit"} => lock \in Task
  /\ left = "reset" => lock = "rewind"

\* The agents' files of a tree are in the manifest.
Known(tree) == \A f \in File \ {StateFile} : tree[f] # 0 => f \in manifest

TypeOK == VarTypes /\ LockHeld /\ Known(worktree)

Init ==
  /\ phase = [t \in Task |-> "waiting"]
  /\ attempt = [t \in Task |-> 0]
  /\ made = [t \in Task |-> {}]
  /\ worktree = Empty /\ index = Empty /\ seen = Empty
  /\ manifest = {}
  /\ lock = Nobody /\ left = "none"
  /\ commits = <<>> /\ head = 0
  /\ rewind = "idle" /\ target = 0 /\ rewinds = 0
  /\ bootstrap = {} /\ failures = 0
  /\ refused = {} /\ rewound = {}
  /\ disturbed = FALSE

-------------------------------------------------------------------------------
(* The agents. *)

Ready == {t \in Task : phase[t] = "waiting" /\ \A u \in Needs[t] : phase[u] = "done"}

\* The engine starts the ready tasks together, when the last wave is over.
StartWave ==
  /\ \A t \in Task : phase[t] \in {"waiting", "done", "failed"}
  /\ Ready # {}
  /\ phase' = [t \in Task |-> IF t \in Ready THEN "working" ELSE phase[t]]
  /\ attempt' = [t \in Task |-> IF t \in Ready THEN 1 ELSE attempt[t]]
  /\ UNCHANGED <<made, worktree, manifest, git, rewinding, failing, disturbed>>

\* ArtifactsStore.save for each file: to disk, and into the manifest.
SaveFiles(t, files) ==
  /\ worktree' = [f \in File |-> IF f \in files THEN attempt[t] ELSE worktree[f]]
  /\ manifest' = manifest \union files
  /\ disturbed' = (disturbed \/ (files # {} /\ rewind # "idle"))

\* The engineers' files are what a model answered, which may leave some or all of
\* them out, or those of the templates.
BackendFiles(t) == SUBSET First[t]
FrontendFiles(t) == SUBSET First[t]

\* The tests, and the infrastructure: all of their files.
TestFiles(t) == {First[t]}
InfrastructureFiles(t) == {First[t]}

Early(t) ==
  CASE Role[t] = "Engineer_Backend" -> BackendFiles(t)
    [] Role[t] = "Engineer_Frontend" -> FrontendFiles(t)
    [] Role[t] = "QA" -> TestFiles(t)
    [] Role[t] = "DevOps" -> InfrastructureFiles(t)
    [] Role[t] = "Finance" -> {{}}

\* The sandbox runs a command for one action, and fails for any other.
Sandbox(action) == IF action = "execute" THEN {"success", "failure"} ELSE {"failure"}

\* QA gives its command in the place of the action, and reads the answer, which is
\* none, as a dictionary: it raises, and a simulated run, which passes, is reported.
Simulated(answer) == "passed"
TestRuns == {Simulated(answer) : answer \in Sandbox("pytest")}

\* A report for each failure of the run.
BugReports(t) == {IF run = "passed" THEN {} ELSE Last[t] : run \in TestRuns}

\* The URL of the deployment, and the report of the costs.
DeploymentUrl(t) == {Last[t]}
CostReport(t) == {Last[t]}

Late(t) ==
  CASE Role[t] \in {"Engineer_Backend", "Engineer_Frontend"} -> {{}}
    [] Role[t] = "QA" -> BugReports(t)
    [] Role[t] = "DevOps" -> DeploymentUrl(t)
    [] Role[t] = "Finance" -> CostReport(t)

\* The agent saves its files one by one, and may raise at any of them; then it awaits
\* its sandbox or its deployment.
AgentWrites(t) ==
  /\ phase[t] = "working"
  /\ \E files \in SUBSET First[t] :
       /\ SaveFiles(t, files)
       /\ made' = [made EXCEPT ![t] = files]
  /\ phase' = [phase EXCEPT ![t] = "awaiting"]
  /\ UNCHANGED <<attempt, git, rewinding, failing>>

\* The agent has saved all it had, and ends; the checkpoint begins with the state file.
AgentEnds(t) ==
  /\ phase[t] = "awaiting" /\ made[t] \in Early(t)
  /\ \E late \in Late(t) :
       /\ worktree' = [f \in File |-> CASE f \in late -> attempt[t]
                                        [] f = StateFile -> 1
                                        [] OTHER -> worktree[f]]
       /\ manifest' = manifest \union late
       /\ made' = [made EXCEPT ![t] = @ \union late]
  /\ disturbed' = (disturbed \/ rewind # "idle")
  /\ phase' = [phase EXCEPT ![t] = "saving"]
  /\ UNCHANGED <<attempt, git, rewinding, failing>>

\* The agent raised, or the state file could not be written: the engine starts
\* the agent again, on what it has written, or gives the task up.
Raises(t) ==
  /\ phase[t] \in {"working", "awaiting"}
  /\ IF attempt[t] <= MaxRetries
     THEN /\ phase' = [phase EXCEPT ![t] = "working"]
          /\ attempt' = [attempt EXCEPT ![t] = @ + 1]
     ELSE phase' = [phase EXCEPT ![t] = "failed"] /\ UNCHANGED attempt
  /\ UNCHANGED <<made, worktree, manifest, git, rewinding, failing, disturbed>>

-------------------------------------------------------------------------------
(* save_checkpoint, after the state file. *)

Failure == failures < MaxFailures /\ failures' = failures + 1

\* A command of t's fails at once, as it does when the lock is held, or is given up.
Refuse(t) == refused' = refused \union {t}
CannotBegin(t) == Refuse(t) /\ \/ lock # Nobody /\ UNCHANGED failures
                               \/ Failure
GivesUp(t) == Refuse(t) /\ Failure

\* The branch is asked for first.  No answer is taken for an empty repository, which
\* gets an initial commit of whatever there is, before the branch is made.
BranchFails(t) ==
  /\ phase[t] = "saving" /\ t \notin refused
  /\ GivesUp(t)
  /\ bootstrap' = bootstrap \union {t}
  /\ UNCHANGED <<phase, attempt, made, worktree, manifest, git, rewinding, disturbed>>

\* Mutant of AddBegins: the lock is not looked at.
AddBeginsAnyway(t) ==
  /\ phase[t] = "saving"
  /\ lock' = t
  /\ seen' = worktree
  /\ phase' = [phase EXCEPT ![t] = "adding"]
  /\ UNCHANGED <<attempt, made, worktree, manifest, index, left, commits, head, rewinding, failing, disturbed>>

AddBegins(t) ==
  /\ phase[t] = "saving" /\ lock = Nobody
  /\ lock' = t
  /\ seen' = worktree
  /\ phase' = [phase EXCEPT ![t] = "adding"]
  /\ UNCHANGED <<attempt, made, worktree, manifest, index, left, commits, head, rewinding, failing, disturbed>>

\* The process of t's command ends; t goes on, unless it has given it up.
Ends(t, what, at, to) ==
  /\ lock = t
  /\ \/ left = "none" /\ phase[t] = at /\ phase' = [phase EXCEPT ![t] = to]
     \/ left = what /\ UNCHANGED phase
  /\ lock' = Nobody
  /\ left' = "none"

\* git add reads the files while others may write them: it takes each as it was
\* when it began or as it is.
AddEnds(t) ==
  /\ Ends(t, "add", "adding", "added")
  /\ \E late \in SUBSET {f \in File : seen[f] # worktree[f]} :
       index' = [f \in File |-> IF f \in late THEN worktree[f] ELSE seen[f]]
  /\ seen' = Empty
  /\ disturbed' = (disturbed \/ rewind # "idle")
  /\ UNCHANGED <<attempt, made, worktree, manifest, commits, head, rewinding, failing>>

\* The result of add is not looked at.
AddRefused(t) ==
  /\ phase[t] = "saving"
  /\ CannotBegin(t)
  /\ phase' = [phase EXCEPT ![t] = "added"]
  /\ UNCHANGED <<attempt, made, worktree, manifest, git, rewinding, bootstrap, disturbed>>

AddGivenUp(t) ==
  /\ phase[t] = "adding"
  /\ GivesUp(t)
  /\ left' = "add"
  /\ phase' = [phase EXCEPT ![t] = "added"]
  /\ UNCHANGED <<attempt, made, worktree, manifest, index, lock, seen, commits, head, rewinding, bootstrap, disturbed>>

\* diff --staged: without a difference there is nothing to commit.  The initial commit
\* is made without it.
Diff(t) ==
  /\ phase[t] = "added"
  /\ phase' = [phase EXCEPT ![t] = IF index = HeadTree /\ t \notin bootstrap THEN "done" ELSE "changed"]
  /\ UNCHANGED <<attempt, made, worktree, manifest, git, rewinding, failing, disturbed>>

\* It fails: it has written no difference.
DiffFails(t) ==
  /\ phase[t] = "added" /\ t \notin bootstrap
  /\ GivesUp(t)
  /\ phase' = [phase EXCEPT ![t] = "done"]
  /\ UNCHANGED <<attempt, made, worktree, manifest, git, rewinding, bootstrap, disturbed>>

CommitBegins(t) ==
  /\ phase[t] = "changed" /\ lock = Nobody
  /\ lock' = t
  /\ phase' = [phase EXCEPT ![t] = "committing"]
  /\ UNCHANGED <<attempt, made, worktree, manifest, index, left, seen, commits, head, rewinding, failing, disturbed>>

\* After the initial commit the checkpoint itself is made.
Committed(t) == IF t \in bootstrap THEN "saving" ELSE "done"

\* The index is committed, unless another has done so since the diff.
CommitEnds(t) ==
  /\ Ends(t, "commit", "committing", Committed(t))
  /\ bootstrap' = bootstrap \ {t}
  /\ IF index = HeadTree THEN UNCHANGED <<commits, head>>
     ELSE /\ commits' = Append(commits, [by |-> t, tree |-> index])
          /\ head' = Len(commits')
  /\ UNCHANGED <<attempt, made, worktree, manifest, index, seen, rewinding, failures, refused, disturbed>>

\* A warning is logged, the task is completed all the same.
CommitRefused(t) ==
  /\ phase[t] = "changed"
  /\ CannotBegin(t)
  /\ phase' = [phase EXCEPT ![t] = Committed(t)]
  /\ bootstrap' = bootstrap \ {t}
  /\ UNCHANGED <<attempt, made, worktree, manifest, git, rewinding, disturbed>>

CommitGivenUp(t) ==
  /\ phase[t] = "committing"
  /\ GivesUp(t)
  /\ left' = "commit"
  /\ phase' = [phase EXCEPT ![t] = Committed(t)]
  /\ bootstrap' = bootstrap \ {t}
  /\ UNCHANGED <<attempt, made, worktree, manifest, index, lock, seen, commits, head, rewinding, disturbed>>

-------------------------------------------------------------------------------
(* rewind, asked for by a client at any time. *)

\* Tasks that have written files.
Started == {t \in Task : phase[t] \notin {"waiting", "working"} \/ made[t] # {}}

\* git reset --hard; refused, the client is told that its project was rewound.
ResetBegins(c) ==
  /\ rewind = "idle" /\ rewinds < MaxRewinds /\ lock = Nobody
  /\ rewind' = "resetting"
  /\ target' = c
  /\ rewinds' = rewinds + 1
  /\ lock' = "rewind"
  /\ disturbed' = FALSE
  /\ UNCHANGED <<phase, attempt, made, worktree, manifest, index, left, seen, commits, head, failing, rewound>>

\* Given up, it is not followed by the clean.
ResetGivenUp ==
  /\ rewind = "resetting"
  /\ Failure
  /\ rewind' = "idle"
  /\ left' = "reset"
  /\ UNCHANGED <<phase, attempt, made, worktree, manifest, index, lock, seen, commits, head, target, rewinds, rewound>>
  /\ UNCHANGED <<bootstrap, refused, disturbed>>

\* The process of the reset ends.
ResetOver ==
  /\ lock = "rewind"
  /\ \/ left = "none" /\ rewind' = "cleaning" /\ UNCHANGED target
     \/ left = "reset" /\ UNCHANGED rewind /\ target' = 0
  /\ lock' = Nobody
  /\ left' = "none"

\* Mutant of ResetEnds: reset --soft.
ResetEndsSoft ==
  /\ ResetOver
  /\ head' = target
  /\ rewound' = rewound \union Started
  /\ UNCHANGED <<phase, attempt, made, worktree, manifest, index, seen, commits, rewinds, failing, disturbed>>

\* Tracked files become the commit's, files that never were added stay.
ResetEnds ==
  /\ ResetOver
  /\ LET tree == commits[target].tree IN
     /\ worktree' = [f \in File |-> IF tree[f] # 0 \/ index[f] # 0 THEN tree[f] ELSE worktree[f]]
     /\ index' = tree
  /\ head' = target
  /\ rewound' = rewound \union Started
  /\ UNCHANGED <<phase, attempt, made, manifest, seen, commits, rewinds, failing, disturbed>>

\* git clean -fd: files that are not in the index go.  Memory is not restored: the
\* client's handler drops the state that rewind returns.
Clean ==
  /\ rewind = "cleaning"
  /\ worktree' = [f \in File |-> IF index[f] = 0 THEN 0 ELSE worktree[f]]
  /\ rewind' = "idle"
  /\ target' = 0
  /\ rewound' = rewound \union Started
  /\ UNCHANGED <<phase, attempt, made, manifest, git, rewinds, failing, disturbed>>

\* Its result is not looked at.  (Given up, it runs on, as if it were awaited.)
CleanFails ==
  /\ rewind = "cleaning"
  /\ Failure
  /\ rewind' = "idle"
  /\ target' = 0
  /\ UNCHANGED <<phase, attempt, made, worktree, manifest, git, rewinds, rewound, bootstrap, refused, disturbed>>

-------------------------------------------------------------------------------

Agents == \E t \in Task : AgentWrites(t) \/ AgentEnds(t) \/ Raises(t)
Saves ==
  \E t \in Task : \/ BranchFails(t)
                  \/ AddBegins(t) \/ AddEnds(t) \/ AddRefused(t) \/ AddGivenUp(t)
                  \/ Diff(t) \/ DiffFails(t)
                  \/ CommitBegins(t) \/ CommitEnds(t) \/ CommitRefused(t) \/ CommitGivenUp(t)
Rewinds ==
  \/ \E c \in 1..Len(commits) : ResetBegins(c)
  \/ ResetEnds \/ ResetGivenUp \/ Clean \/ CleanFails

Next == StartWave \/ Agents \/ Saves \/ Rewinds

Spec == Init /\ [][Next]_vars

-------------------------------------------------------------------------------

\* No other task writes files of the same names.
Alone(t) == \A u \in Task \ {t} : Output(t) \intersect Output(u) = {}

\* However the saves of a wave interleave, with commands given up that still run, the
\* files of a completed task that wrote them alone are in the last commit, unless one of
\* its own git commands failed or was given up, or a client's rewind took them.
SavedUnlessRefused ==
  \A t \in Task \ (refused \union rewound) :
    phase[t] = "done" /\ Alone(t) => \A f \in made[t] : HeadTree[f] = attempt[t]

\* A rewind that nobody wrote or staged files beside leaves the checkpoint's files
\* in the workspace, and no others.
RewindRestores == [][(Clean /\ ~disturbed) => worktree' = HeadTree]_vars

===============================================================================
