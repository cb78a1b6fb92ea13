--------------------------- MODULE WorkspaceProofs ----------------------------
(***************************************************************************)
(* Proofs about a project's workspace, for any tasks and outputs, any      *)
(* dependencies, retry limit and number of rewinds and of failures of git; *)
(* and about the application the agents write into it, for any requests,   *)
(* addresses and statuses of an item.                                      *)
(***************************************************************************)
EXTENDS Workspace, GeneratedApp, FiniteSetTheorems, TLAPS

Staged == {"added", "changed", "committing", "done"}

\* Tasks whose files nobody else has touched.
Intact == {t \in Task : Alone(t)} \ (refused \union rewound)

\* A git add runs, awaited or not.
AddRuns == left = "add" \/ \E t \in Task : phase[t] = "adding"

\* What a reset may write back, the manifest knows.
TreesKnown ==
  /\ Known(worktree) /\ Known(index) /\ Known(seen)
  /\ \A c \in DOMAIN commits : Known(commits[c].tree)

Holds(tree, t) == \A f \in made[t] : tree[f] = attempt[t]

\* Where the files of t's attempt are.  A running add of another task began after
\* t's add had ended, or it would have refused t the lock: so it saw t's files.
Safe(t) ==
  /\ phase[t] \in {"awaiting"} \union Saving \union {"changed", "done"} => Holds(worktree, t)
  /\ phase[t] = "adding" => Holds(seen, t)
  /\ phase[t] \in Staged => Holds(index, t)
  /\ phase[t] \in Staged /\ AddRuns => Holds(seen, t)
  /\ phase[t] = "done" => Holds(HeadTree, t)

\* What a rewind has done so far, if nobody wrote or staged files beside it.
Restoring ==
  /\ lock = "rewind" => target # 0
  /\ left = "reset" => rewind = "idle"
  /\ rewind = "cleaning" /\ ~disturbed =>
       index = HeadTree /\ \A f \in File : index[f] # 0 => worktree[f] = index[f]

IInv ==
  /\ TypeOK
  /\ TreesKnown
  /\ \A t \in Intact : Safe(t)
  /\ Restoring

-------------------------------------------------------------------------------

LEMMA OutputFacts ==
  /\ StateFile \in File
  /\ \A t \in Task : /\ First[t] \subseteq Output(t) /\ Last[t] \subseteq Output(t)
                     /\ Output(t) \subseteq File \ {StateFile}
  /\ \A t, u \in Task, f \in File : Alone(u) /\ f \in Output(t) /\ f \in Output(u) => t = u
  /\ MaxRetries \in Nat /\ MaxRewinds \in Nat /\ MaxFailures \in Nat
  /\ Nobody \notin Task /\ "rewind" \notin Task /\ Nobody # "rewind"
<1>1. \A t \in Task : StateFile \notin Output(t)
  BY WorkspaceAssumption
<1>3. \A t \in Task : Output(t) \subseteq File
  BY DEF File
<1>4. StateFile \in File
  BY DEF File
<1>5. \A t \in Task : First[t] \subseteq Output(t) /\ Last[t] \subseteq Output(t)
  BY DEF Output
<1>6. \A t, u \in Task, f \in File : Alone(u) /\ f \in Output(t) /\ f \in Output(u) => t = u
  BY DEF Alone
<1>7. QED
  BY <1>1, <1>3, <1>4, <1>5, <1>6, WorkspaceAssumption

\* What an agent saves when it ends is among what it may save then.
LEMMA LateFacts == \A t \in Task : Late(t) \subseteq SUBSET Last[t]
<1> SUFFICES ASSUME NEW t \in Task PROVE Late(t) \subseteq SUBSET Last[t]
  OBVIOUS
<1>1. Role[t] \in Roles
  BY WorkspaceAssumption
<1>2. BugReports(t) \subseteq {{}, Last[t]}
  BY DEF BugReports
<1>3. QED
  BY <1>1, <1>2 DEF Late, Roles, DeploymentUrl, CostReport

\* The commits' files are trees, and so are the branch's.
LEMMA CommitTrees ==
  ASSUME VarTypes
  PROVE  /\ HeadTree \in Tree
         /\ \A c \in 1..Len(commits) : commits[c].tree \in Tree
<1> DEFINE Commit == [by : Task, tree : Tree]
<1>1. commits \in Seq(Commit) /\ head \in 0..Len(commits)
  BY DEF VarTypes
<1>2. \A x \in Commit : x.tree \in Tree
  OBVIOUS
<1>3. ASSUME NEW c \in 1..Len(commits) PROVE commits[c] \in Commit
  <2> HIDE DEF Commit
  <2>1. QED
    BY <1>1
<1>4. Empty \in Tree
  BY OutputFacts DEF Empty, Tree
<1>5. head # 0 => head \in 1..Len(commits)
  BY <1>1
<1>6. QED
  BY <1>2, <1>3, <1>4, <1>5 DEF HeadTree

LEMMA TypesNext == IInv /\ [Next]_vars => VarTypes'
<1> SUFFICES ASSUME IInv, [Next]_vars PROVE VarTypes'
  OBVIOUS
<1> USE OutputFacts DEF IInv, TypeOK, VarTypes, git, rewinding, failing, Tree, Empty, Phase, Saving, SaveFiles, Ready
<1>1. CASE StartWave
  BY <1>1, SMTT(30) DEF StartWave
<1>2. ASSUME NEW t \in Task, AgentWrites(t) PROVE VarTypes'
  BY <1>2, SMTT(30) DEF AgentWrites
<1>3. ASSUME NEW t \in Task, AgentEnds(t) PROVE VarTypes'
  <2>1. /\ attempt[t] \in 0..(MaxRetries + 1)
        /\ 1 \in 0..(MaxRetries + 1)
    OBVIOUS
  <2>2. worktree' \in Tree
    BY <1>3, <2>1 DEF AgentEnds
  <2>3. PICK late \in SUBSET Last[t] :
          made' = [made EXCEPT ![t] = @ \union late] /\ manifest' = manifest \union late
    BY <1>3, LateFacts DEF AgentEnds
  <2>4. made' \in [Task -> SUBSET File] /\ manifest' \subseteq File \ {StateFile}
    BY <2>3
  <2>5. \A u \in Task : made'[u] \subseteq Output(u)
    BY <2>3
  <2>6. QED
    BY <1>3, <2>2, <2>4, <2>5 DEF AgentEnds
<1>4. ASSUME NEW t \in Task, Raises(t) PROVE VarTypes'
  <2>1. CASE attempt[t] <= MaxRetries
    <3>1. /\ phase' = [phase EXCEPT ![t] = "working"]
          /\ attempt' = [attempt EXCEPT ![t] = @ + 1]
      BY <1>4, <2>1 DEF Raises
    <3>2. attempt[t] + 1 \in 0..(MaxRetries + 1)
      BY <2>1
    <3>3. QED
      BY <1>4, <3>1, <3>2 DEF Raises
  <2>2. CASE ~(attempt[t] <= MaxRetries)
    <3>1. phase' = [phase EXCEPT ![t] = "failed"] /\ UNCHANGED attempt
      BY <1>4, <2>2 DEF Raises
    <3>2. QED
      BY <1>4, <3>1 DEF Raises
  <2>3. QED
    BY <2>1, <2>2
<1>5. ASSUME NEW t \in Task, AddBegins(t) PROVE VarTypes'
  BY <1>5 DEF AddBegins
<1>6. ASSUME NEW t \in Task, AddEnds(t) PROVE VarTypes'
  <2>1. index' \in Tree /\ seen' \in Tree
    BY <1>6 DEF AddEnds
  <2>2. phase' \in [Task -> Phase] /\ left' = "none"
    BY <1>6 DEF AddEnds, Ends
  <2>3. QED
    BY <1>6, <2>1, <2>2 DEF AddEnds
<1>7. ASSUME NEW t \in Task, AddRefused(t) PROVE VarTypes'
  BY <1>7, SMTT(30) DEF AddRefused, CannotBegin, Refuse, Failure
<1>8. ASSUME NEW t \in Task, Diff(t) PROVE VarTypes'
  BY <1>8 DEF Diff
<1>9. ASSUME NEW t \in Task, CommitBegins(t) PROVE VarTypes'
  BY <1>9 DEF CommitBegins
<1>10. ASSUME NEW t \in Task, CommitEnds(t) PROVE VarTypes'
  <2>1. commits' \in Seq([by : Task, tree : Tree]) /\ head' \in 0..Len(commits')
    <3>1. CASE index = HeadTree
      BY <1>10, <3>1 DEF CommitEnds, Ends, Committed
    <3>2. CASE index # HeadTree
      <4> DEFINE Commit == [by : Task, tree : Tree]
      <4>1. [by |-> t, tree |-> index] \in Commit
        OBVIOUS
      <4>2. commits \in Seq(Commit)
        OBVIOUS
      <4>3. commits' = Append(commits, [by |-> t, tree |-> index]) /\ head' = Len(commits')
        BY <1>10, <3>2 DEF CommitEnds, Ends, Committed
      <4> HIDE DEF Commit
      <4>4. commits' \in Seq(Commit) /\ Len(commits') \in Nat
        BY <4>1, <4>2, <4>3
      <4>5. QED
        BY <4>3, <4>4 DEF Commit
    <3>3. QED
      BY <3>1, <3>2
  <2>2. target' \in 0..Len(commits')
    BY <1>10, SMTT(30) DEF CommitEnds, Ends, Committed
  <2>3. QED
    BY <1>10, <2>1, <2>2 DEF CommitEnds, Ends, Committed
<1>11. ASSUME NEW t \in Task, CommitRefused(t) PROVE VarTypes'
  BY <1>11, SMTT(30) DEF CommitRefused, CannotBegin, Refuse, Failure, Committed
<1>12. ASSUME NEW c \in 1..Len(commits), ResetBegins(c) PROVE VarTypes'
  <2>1. target' \in 0..Len(commits) /\ rewinds' \in 0..MaxRewinds
    BY <1>12 DEF ResetBegins
  <2>2. QED
    BY <1>12, <2>1 DEF ResetBegins
<1>13. CASE ResetEnds
  <2>1. target \in 1..Len(commits)
    BY <1>13 DEF ResetEnds, ResetOver, Restoring
  <2>2. commits[target].tree \in Tree
    BY <2>1, CommitTrees
  <2>3. worktree' \in Tree
    BY <1>13, <2>2 DEF ResetEnds, ResetOver
  <2>4. /\ rewind' \in {"idle", "resetting", "cleaning"} /\ target' \in 0..Len(commits)
        /\ left' = "none" /\ head' = target
    BY <1>13, <2>1, SMTT(30) DEF ResetEnds, ResetOver
  <2>5. index' = commits[target].tree /\ rewound' \subseteq Task
    BY <1>13 DEF ResetEnds, Started
  <2>6. QED
    BY <1>13, <2>1, <2>2, <2>3, <2>4, <2>5, ZenonT(30) DEF ResetEnds
<1>14. CASE Clean
  <2>1. worktree' \in Tree
    BY <1>14 DEF Clean
  <2>2. QED
    BY <1>14, <2>1, SMTT(30) DEF Clean, Started
<1>15. CASE UNCHANGED vars
  BY <1>15 DEF vars
<1>17. ASSUME NEW t \in Task, BranchFails(t) PROVE VarTypes'
  BY <1>17, SMTT(60) DEF BranchFails, Failure, GivesUp, Refuse, Committed
<1>18. ASSUME NEW t \in Task, AddGivenUp(t) PROVE VarTypes'
  <2>1. failures' \in 0..MaxFailures /\ refused' \subseteq Task
    BY <1>18 DEF AddGivenUp, Failure, GivesUp, Refuse
  <2>2. QED
    BY <1>18, <2>1 DEF AddGivenUp
<1>19. ASSUME NEW t \in Task, DiffFails(t) PROVE VarTypes'
  BY <1>19 DEF DiffFails, Failure, GivesUp, Refuse, Committed
<1>20. ASSUME NEW t \in Task, CommitGivenUp(t) PROVE VarTypes'
  BY <1>20 DEF CommitGivenUp, Failure, GivesUp, Refuse, Committed
<1>21. CASE ResetGivenUp
  BY <1>21 DEF ResetGivenUp, Failure, GivesUp, Refuse, Committed
<1>22. CASE CleanFails
  BY <1>22, SMTT(60) DEF CleanFails, Failure, GivesUp, Refuse, Committed
<1>16. QED
  BY <1>1, <1>2, <1>3, <1>4, <1>5, <1>6, <1>7, <1>8, <1>9, <1>10, <1>11, <1>12, <1>13, <1>14, <1>15, <1>17, <1>18, <1>19, <1>20, <1>21, <1>22 DEF Next, Agents, Saves, Rewinds

LEMMA LockNext == IInv /\ [Next]_vars => LockHeld'
<1> SUFFICES ASSUME IInv, [Next]_vars PROVE LockHeld'
  OBVIOUS
<1> USE OutputFacts DEF IInv, TypeOK, VarTypes, LockHeld, git, rewinding, failing, Phase, Saving, SaveFiles, Ready
<1>1. CASE StartWave
  BY <1>1 DEF StartWave
<1>2. ASSUME NEW t \in Task, AgentWrites(t) PROVE LockHeld'
  BY <1>2 DEF AgentWrites
<1>3. ASSUME NEW t \in Task, AgentEnds(t) PROVE LockHeld'
  BY <1>3 DEF AgentEnds
<1>4. ASSUME NEW t \in Task, Raises(t) PROVE LockHeld'
  BY <1>4 DEF Raises
<1>5. ASSUME NEW t \in Task, AddBegins(t) PROVE LockHeld'
  BY <1>5 DEF AddBegins
<1>6. ASSUME NEW t \in Task, AddEnds(t) PROVE LockHeld'
  BY <1>6 DEF AddEnds, Ends
<1>7. ASSUME NEW t \in Task, AddRefused(t) PROVE LockHeld'
  BY <1>7 DEF AddRefused, CannotBegin, Refuse, Failure
<1>8. ASSUME NEW t \in Task, Diff(t) PROVE LockHeld'
  BY <1>8 DEF Diff
<1>9. ASSUME NEW t \in Task, CommitBegins(t) PROVE LockHeld'
  BY <1>9 DEF CommitBegins
<1>10. ASSUME NEW t \in Task, CommitEnds(t) PROVE LockHeld'
  BY <1>10 DEF CommitEnds, Ends, Committed
<1>11. ASSUME NEW t \in Task, CommitRefused(t) PROVE LockHeld'
  BY <1>11 DEF CommitRefused, CannotBegin, Refuse, Failure, Committed
<1>12. ASSUME NEW c \in 1..Len(commits), ResetBegins(c) PROVE LockHeld'
  BY <1>12 DEF ResetBegins
<1>13. CASE ResetEnds
  BY <1>13 DEF ResetEnds, ResetOver
<1>14. CASE Clean
  BY <1>14 DEF Clean
<1>15. CASE UNCHANGED vars
  BY <1>15 DEF vars
<1>17. ASSUME NEW t \in Task, BranchFails(t) PROVE LockHeld'
  BY <1>17 DEF BranchFails, Committed
<1>18. ASSUME NEW t \in Task, AddGivenUp(t) PROVE LockHeld'
  BY <1>18 DEF AddGivenUp, Committed
<1>19. ASSUME NEW t \in Task, DiffFails(t) PROVE LockHeld'
  BY <1>19 DEF DiffFails, Committed
<1>20. ASSUME NEW t \in Task, CommitGivenUp(t) PROVE LockHeld'
  BY <1>20 DEF CommitGivenUp, Committed
<1>21. CASE ResetGivenUp
  BY <1>21 DEF ResetGivenUp, Committed
<1>22. CASE CleanFails
  BY <1>22 DEF CleanFails, Committed
<1>16. QED
  BY <1>1, <1>2, <1>3, <1>4, <1>5, <1>6, <1>7, <1>8, <1>9, <1>10, <1>11, <1>12, <1>13, <1>14, <1>15, <1>17, <1>18, <1>19, <1>20, <1>21, <1>22 DEF Next, Agents, Saves, Rewinds

LEMMA TreesNext == IInv /\ [Next]_vars => TreesKnown'
<1> SUFFICES ASSUME IInv, [Next]_vars PROVE TreesKnown'
  OBVIOUS
<1> USE OutputFacts DEF IInv, TypeOK, VarTypes, TreesKnown, Known, Restoring, git, rewinding, failing, Tree, Empty, SaveFiles
<1>1. CASE StartWave
  BY <1>1 DEF StartWave
<1>2. ASSUME NEW t \in Task, AgentWrites(t) PROVE TreesKnown'
  <2>1. manifest \subseteq manifest' /\ UNCHANGED <<index, seen, commits>>
    BY <1>2 DEF AgentWrites
  <2>2. Known(worktree)'
    BY <1>2 DEF AgentWrites
  <2>3. QED
    BY <2>1, <2>2
<1>3. ASSUME NEW t \in Task, AgentEnds(t) PROVE TreesKnown'
  <2>1. UNCHANGED <<index, seen, commits>>
    BY <1>3 DEF AgentEnds
  <2>2. PICK late \in SUBSET Last[t] :
          /\ worktree' = [f \in File |-> CASE f \in late -> attempt[t]
                                           [] f = StateFile -> 1
                                           [] OTHER -> worktree[f]]
          /\ manifest' = manifest \union late
    BY <1>3, LateFacts DEF AgentEnds
  <2>3. Known(worktree)'
    BY <2>2
  <2>4. QED
    BY <2>1, <2>2, <2>3
<1>4. ASSUME NEW t \in Task, Raises(t) PROVE TreesKnown'
  BY <1>4 DEF Raises
<1>5. ASSUME NEW t \in Task, AddBegins(t) PROVE TreesKnown'
  BY <1>5 DEF AddBegins
<1>6. ASSUME NEW t \in Task, AddEnds(t) PROVE TreesKnown'
  BY <1>6 DEF AddEnds, Ends
<1>7. ASSUME NEW t \in Task, AddRefused(t) PROVE TreesKnown'
  BY <1>7 DEF AddRefused, CannotBegin, Refuse, Failure
<1>8. ASSUME NEW t \in Task, Diff(t) PROVE TreesKnown'
  BY <1>8 DEF Diff
<1>9. ASSUME NEW t \in Task, CommitBegins(t) PROVE TreesKnown'
  BY <1>9 DEF CommitBegins
<1>10. ASSUME NEW t \in Task, CommitEnds(t) PROVE TreesKnown'
  <2>1. UNCHANGED <<worktree, manifest, index, seen>>
    BY <1>10 DEF CommitEnds, Ends, Committed
  <2>2. ASSUME NEW c \in DOMAIN commits' PROVE Known(commits'[c].tree)
    <3>1. commits' = commits \/ commits' = Append(commits, [by |-> t, tree |-> index])
      BY <1>10 DEF CommitEnds, Ends, Committed
    <3>2. CASE commits' = commits
      BY <2>1, <3>2
    <3>3. CASE commits' = Append(commits, [by |-> t, tree |-> index])
      <4> DEFINE last == [by |-> t, tree |-> index]
      <4>1. last.tree = index
        OBVIOUS
      <4> HIDE DEF last
      <4>2. commits' = Append(commits, last)
        BY <3>3 DEF last
      <4> DEFINE Commit == [by : Task, tree : Tree]
      <4>3. commits \in Seq(Commit)
        OBVIOUS
      <4> HIDE DEF Commit
      <4>4. /\ c \in 1..(Len(commits) + 1) /\ Len(commits) \in Nat
            /\ DOMAIN commits = 1..Len(commits)
            /\ commits'[Len(commits) + 1] = last
            /\ \A i \in 1..Len(commits) : commits'[i] = commits[i]
        BY <4>2, <4>3, SMTT(30)
      <4>5. c = Len(commits) + 1 \/ c \in 1..Len(commits)
        BY <4>4, SMTT(30)
      <4>6. QED
        BY <2>1, <4>1, <4>4, <4>5, ZenonT(30)
    <3>4. QED
      BY <3>1, <3>2, <3>3
  <2>3. QED
    BY <2>1, <2>2
<1>11. ASSUME NEW t \in Task, CommitRefused(t) PROVE TreesKnown'
  BY <1>11 DEF CommitRefused, CannotBegin, Refuse, Failure, Committed
<1>12. ASSUME NEW c \in 1..Len(commits), ResetBegins(c) PROVE TreesKnown'
  BY <1>12 DEF ResetBegins
<1>13. CASE ResetEnds
  <2>1. target \in DOMAIN commits
    BY <1>13 DEF ResetEnds, ResetOver
  <2>2. Known(commits[target].tree)
    BY <2>1
  <2>3. UNCHANGED <<manifest, seen, commits>> /\ index' = commits[target].tree
    BY <1>13 DEF ResetEnds, ResetOver
  <2>4. Known(worktree')
    BY <1>13, <2>2 DEF ResetEnds, ResetOver
  <2>5. QED
    BY <2>2, <2>3, <2>4
<1>14. CASE Clean
  BY <1>14 DEF Clean
<1>15. CASE UNCHANGED vars
  BY <1>15 DEF vars
<1>17. ASSUME NEW t \in Task, BranchFails(t) PROVE TreesKnown'
  BY <1>17 DEF BranchFails
<1>18. ASSUME NEW t \in Task, AddGivenUp(t) PROVE TreesKnown'
  BY <1>18 DEF AddGivenUp
<1>19. ASSUME NEW t \in Task, DiffFails(t) PROVE TreesKnown'
  BY <1>19 DEF DiffFails
<1>20. ASSUME NEW t \in Task, CommitGivenUp(t) PROVE TreesKnown'
  BY <1>20 DEF CommitGivenUp
<1>21. CASE ResetGivenUp
  BY <1>21 DEF ResetGivenUp
<1>22. CASE CleanFails
  BY <1>22 DEF CleanFails
<1>16. QED
  BY <1>1, <1>2, <1>3, <1>4, <1>5, <1>6, <1>7, <1>8, <1>9, <1>10, <1>11, <1>12, <1>13, <1>14, <1>15, <1>17, <1>18, <1>19, <1>20, <1>21, <1>22 DEF Next, Agents, Saves, Rewinds

\* Git's failures and a client's rewinds are remembered.
LEMMA HistoryGrows ==
  ASSUME IInv, [Next]_vars
  PROVE  refused \subseteq refused' /\ rewound \subseteq rewound'
<1> USE DEF failing, git, rewinding, Refuse, GivesUp, CannotBegin
<1>1. CASE StartWave \/ Agents
  BY <1>1 DEF StartWave, Agents, AgentWrites, AgentEnds, Raises
<1>2. CASE \E t \in Task : BranchFails(t) \/ AddBegins(t) \/ AddEnds(t) \/ AddRefused(t) \/ AddGivenUp(t)
  BY <1>2 DEF BranchFails, AddBegins, AddEnds, AddRefused, AddGivenUp
<1>3. CASE \E t \in Task : \/ Diff(t) \/ DiffFails(t)
                           \/ CommitBegins(t) \/ CommitEnds(t) \/ CommitRefused(t) \/ CommitGivenUp(t)
  BY <1>3 DEF Diff, DiffFails, CommitBegins, CommitEnds, CommitRefused, CommitGivenUp
<1>4. CASE Rewinds
  BY <1>4 DEF Rewinds, ResetBegins, ResetEnds, ResetGivenUp, Clean, CleanFails
<1>5. CASE UNCHANGED vars
  BY <1>5 DEF vars
<1>6. QED
  BY <1>1, <1>2, <1>3, <1>4, <1>5 DEF Next, Saves

\* A step that neither stages, commits nor starts an add, beside a task.
LEMMA BesideSafe ==
  ASSUME NEW u \in Task, Safe(u), AddRuns' => AddRuns,
         phase'[u] = phase[u], made'[u] = made[u], attempt'[u] = attempt[u],
         Holds(worktree, u) => Holds(worktree, u)',
         UNCHANGED <<index, seen, commits, head>>
  PROVE  Safe(u)'
<1>1. UNCHANGED HeadTree
  BY DEF HeadTree
<1>2. /\ Holds(seen, u) => Holds(seen, u)'
      /\ Holds(index, u) => Holds(index, u)'
      /\ Holds(HeadTree, u) => Holds(HeadTree, u)'
  BY <1>1 DEF Holds
<1>3. QED
  BY <1>2 DEF Safe

\* What a step does to one task that is still intact after it.
LEMMA SafeNext ==
  ASSUME IInv, [Next]_vars, NEW u \in Task, u \in Intact'
  PROVE  Safe(u)'
<1>0. u \in Intact /\ Safe(u) /\ u \notin refused' /\ u \notin rewound' /\ Alone(u)
  BY HistoryGrows DEF Intact, IInv
<1>a. \A t \in Task, f \in File : f \in Output(t) /\ f \in Output(u) => t = u
  BY <1>0, OutputFacts
<1> USE OutputFacts DEF IInv, TypeOK, VarTypes, LockHeld, Saving, Staged, Tree, Phase, git, rewinding, failing
<1>1. CASE StartWave
  <2>1. /\ UNCHANGED <<made, worktree, index, seen, left, commits, head>>
        /\ \A t \in Task : IF t \in Ready THEN phase'[t] = "working"
                           ELSE phase'[t] = phase[t] /\ attempt'[t] = attempt[t]
    BY <1>1 DEF StartWave
  <2>2. AddRuns' => AddRuns
    BY <2>1 DEF AddRuns
  <2>3. Holds(worktree, u) /\ u \notin Ready => Holds(worktree, u)'
    BY <2>1 DEF Holds
  <2>4. CASE u \in Ready
    BY <2>1, <2>4 DEF Safe
  <2>5. CASE u \notin Ready
    BY <1>0, <2>1, <2>2, <2>3, <2>5, BesideSafe
  <2>6. QED
    BY <2>4, <2>5
<1>2. ASSUME NEW t \in Task, AgentWrites(t) PROVE Safe(u)'
  <2>1. PICK files \in SUBSET First[t] : SaveFiles(t, files) /\ made' = [made EXCEPT ![t] = files]
    BY <1>2 DEF AgentWrites
  <2>2. /\ phase' = [phase EXCEPT ![t] = "awaiting"]
        /\ UNCHANGED <<attempt, index, seen, left, commits, head>>
    BY <1>2 DEF AgentWrites
  <2>3. CASE u = t
    BY <2>1, <2>2, <2>3 DEF Safe, SaveFiles, Holds
  <2>4. CASE u # t
    <3>1. ASSUME NEW f \in made[u] PROVE worktree'[f] = worktree[f]
      <4>1. f \in File /\ f \notin files
        BY <1>a, <2>4
      <4>2. QED
        BY <2>1, <4>1 DEF SaveFiles
    <3>2. made'[u] = made[u] /\ phase'[u] = phase[u]
      BY <2>1, <2>2, <2>4
    <3>3. AddRuns' => AddRuns
      BY <2>2 DEF AddRuns
    <3>4. QED
      BY <1>0, <2>2, <3>1, <3>2, <3>3, BesideSafe DEF Holds
  <2>5. QED
    BY <2>3, <2>4
<1>3. ASSUME NEW t \in Task, AgentEnds(t) PROVE Safe(u)'
  <2>1. PICK late \in SUBSET Last[t] :
          /\ worktree' = [f \in File |-> CASE f \in late -> attempt[t]
                                           [] f = StateFile -> 1
                                           [] OTHER -> worktree[f]]
          /\ made' = [made EXCEPT ![t] = @ \union late]
    BY <1>3, LateFacts DEF AgentEnds
  <2>2. /\ phase[t] = "awaiting" /\ phase' = [phase EXCEPT ![t] = "saving"]
        /\ UNCHANGED <<attempt, index, seen, left, commits, head>>
    BY <1>3 DEF AgentEnds
  <2>3. Holds(worktree, u) => Holds(worktree, u)'
    <3>1. SUFFICES ASSUME Holds(worktree, u), NEW f \in made'[u] PROVE worktree'[f] = attempt'[u]
      BY DEF Holds
    <3>2. made'[u] \subseteq Output(u)
      BY <2>1
    <3>3. f \in File /\ f # StateFile
      BY <3>2
    <3>4. CASE f \in late
      <4>1. u = t
        BY <1>a, <3>2, <3>3, <3>4
      <4>2. QED
        BY <2>1, <2>2, <3>3, <3>4, <4>1
    <3>5. CASE f \notin late
      <4>1. f \in made[u]
        BY <2>1, <3>5
      <4>2. QED
        BY <2>1, <2>2, <3>1, <3>3, <3>5, <4>1 DEF Holds
    <3>6. QED
      BY <3>4, <3>5
  <2>4. CASE u = t
    BY <1>0, <2>2, <2>3, <2>4 DEF Safe
  <2>5. CASE u # t
    <3>1. made'[u] = made[u] /\ phase'[u] = phase[u]
      BY <2>1, <2>2, <2>5
    <3>2. AddRuns' => AddRuns
      BY <2>2 DEF AddRuns
    <3>3. QED
      BY <1>0, <2>2, <2>3, <3>1, <3>2, BesideSafe
  <2>6. QED
    BY <2>4, <2>5
<1>4. ASSUME NEW t \in Task, Raises(t) PROVE Safe(u)'
  <2>1. UNCHANGED <<made, worktree, index, seen, left, commits, head>>
    BY <1>4 DEF Raises
  <2>2. \A v \in Task : phase'[v] \in {phase[v], "working", "failed"}
    BY <1>4 DEF Raises
  <2>3. u # t => phase'[u] = phase[u] /\ attempt'[u] = attempt[u]
    BY <1>4 DEF Raises
  <2>4. u = t => phase'[u] \in {"working", "failed"}
    BY <1>4 DEF Raises
  <2>5. AddRuns' => AddRuns
    BY <2>1, <2>2 DEF AddRuns
  <2>6. CASE u = t
    BY <2>4, <2>6 DEF Safe
  <2>7. CASE u # t
    BY <1>0, <2>1, <2>3, <2>5, <2>7, BesideSafe DEF Holds
  <2>8. QED
    BY <2>6, <2>7
<1>5. ASSUME NEW t \in Task, AddBegins(t) PROVE Safe(u)'
  <2>1. /\ phase[t] = "saving" /\ phase' = [phase EXCEPT ![t] = "adding"] /\ seen' = worktree
        /\ UNCHANGED <<attempt, made, worktree, index, commits, head>>
    BY <1>5 DEF AddBegins
  <2>2. phase'[u] = phase[u] \/ (u = t /\ phase[u] = "saving" /\ phase'[u] = "adding")
    BY <2>1
  <2>3. QED
    BY <1>0, <2>1, <2>2 DEF Safe, Holds, HeadTree
<1>6. ASSUME NEW t \in Task, AddEnds(t) PROVE Safe(u)'
  <2>1. /\ lock = t /\ UNCHANGED <<attempt, made, worktree, commits, head>>
        /\ left' = "none"
    BY <1>6 DEF AddEnds, Ends
  <2>2. AddRuns /\ ~AddRuns'
    <3>1. AddRuns
      BY <1>6 DEF AddEnds, Ends, AddRuns
    <3>2. \A v \in Task : phase'[v] # "adding"
      <4>1. \A v \in Task : phase[v] = "adding" => v = t /\ left = "none"
        BY <2>1
      <4>2. QED
        BY <1>6, <4>1 DEF AddEnds, Ends
    <3>3. QED
      BY <2>1, <3>1, <3>2 DEF AddRuns
  <2>3. Holds(seen, u) /\ Holds(worktree, u) => Holds(index, u)'
    BY <1>6, <2>1 DEF AddEnds, Holds
  <2>4. \/ phase'[u] = phase[u]
        \/ phase[u] = "adding" /\ phase'[u] = "added"
    BY <1>6 DEF AddEnds, Ends
  <2>5. /\ Holds(worktree, u) => Holds(worktree, u)'
        /\ Holds(HeadTree, u) => Holds(HeadTree, u)'
    BY <2>1 DEF Holds, HeadTree
  <2>6. phase'[u] # "adding"
    BY <2>2 DEF AddRuns
  <2>7. QED
    BY <1>0, <2>2, <2>3, <2>4, <2>5, <2>6 DEF Safe
<1>7. ASSUME NEW t \in Task, BranchFails(t) \/ AddRefused(t) \/ DiffFails(t) \/ CommitRefused(t) PROVE Safe(u)'
  <2>1. u # t
    BY <1>0, <1>7 DEF BranchFails, AddRefused, DiffFails, CommitRefused, CannotBegin, GivesUp, Refuse
  <2>2. /\ \A v \in Task \ {t} : phase'[v] = phase[v]
        /\ phase'[t] # "adding" \/ phase'[t] = phase[t]
        /\ UNCHANGED <<attempt, made, worktree, index, seen, left, commits, head>>
    BY <1>7 DEF BranchFails, AddRefused, DiffFails, CommitRefused, Committed
  <2>3. AddRuns' => AddRuns
    BY <2>2 DEF AddRuns
  <2>4. QED
    BY <1>0, <2>1, <2>2, <2>3, BesideSafe DEF Holds
<1>8. ASSUME NEW t \in Task, AddGivenUp(t) \/ CommitGivenUp(t) PROVE Safe(u)'
  <2>1. u # t
    BY <1>0, <1>8 DEF AddGivenUp, CommitGivenUp, GivesUp, Refuse
  <2>2. /\ \A v \in Task \ {t} : phase'[v] = phase[v]
        /\ phase'[t] # "adding"
        /\ left' = "add" => phase[t] = "adding"
        /\ UNCHANGED <<attempt, made, worktree, index, seen, commits, head>>
    BY <1>8 DEF AddGivenUp, CommitGivenUp, Committed
  <2>3. AddRuns' => AddRuns
    BY <2>2 DEF AddRuns
  <2>4. QED
    BY <1>0, <2>1, <2>2, <2>3, BesideSafe DEF Holds
<1>9. ASSUME NEW t \in Task, Diff(t) PROVE Safe(u)'
  <2>1. /\ UNCHANGED <<attempt, made, worktree, index, seen, left, commits, head>>
        /\ phase[t] = "added" /\ \A v \in Task \ {t} : phase'[v] = phase[v]
        /\ (index = HeadTree /\ phase'[t] = "done") \/ phase'[t] = "changed"
    BY <1>9 DEF Diff
  <2>2. (AddRuns' => AddRuns) /\ UNCHANGED HeadTree
    BY <2>1 DEF AddRuns, HeadTree
  <2>3. CASE u # t
    BY <1>0, <2>1, <2>2, <2>3, BesideSafe DEF Holds
  <2>4. CASE u = t
    <3>1. Holds(worktree, u) /\ Holds(index, u) /\ (AddRuns => Holds(seen, u))
      BY <1>0, <2>1, <2>4 DEF Safe
    <3>2. Holds(worktree, u)' /\ Holds(index, u)' /\ (AddRuns' => Holds(seen, u)')
      BY <2>1, <2>2, <3>1 DEF Holds
    <3>3. phase'[u] = "done" => Holds(HeadTree, u)'
      BY <2>1, <2>2, <2>4, <3>1 DEF Holds
    <3>4. phase'[u] \in {"done", "changed"}
      BY <2>1, <2>4
    <3>5. QED
      BY <3>2, <3>3, <3>4 DEF Safe
  <2>5. QED
    BY <2>3, <2>4
<1>10. ASSUME NEW t \in Task, CommitBegins(t) PROVE Safe(u)'
  <2>1. /\ UNCHANGED <<attempt, made, worktree, index, seen, left, commits, head>>
        /\ phase[t] = "changed" /\ phase' = [phase EXCEPT ![t] = "committing"]
    BY <1>10 DEF CommitBegins
  <2>2. (AddRuns' => AddRuns) /\ UNCHANGED HeadTree
    BY <2>1 DEF AddRuns, HeadTree
  <2>3. CASE u # t
    BY <1>0, <2>1, <2>2, <2>3, BesideSafe DEF Holds
  <2>4. CASE u = t
    BY <1>0, <2>1, <2>2, <2>4 DEF Safe, Holds
  <2>5. QED
    BY <2>3, <2>4
<1>11. ASSUME NEW t \in Task, CommitEnds(t) PROVE Safe(u)'
  <2>1. /\ UNCHANGED <<attempt, made, worktree, index, seen>>
        /\ left # "add" /\ left' = "none"
    BY <1>11 DEF CommitEnds, Ends
  <2>2. HeadTree' = index
    <3>1. CASE index = HeadTree
      BY <1>11, <3>1 DEF CommitEnds, HeadTree
    <3>2. CASE index # HeadTree
      <4> DEFINE last == [by |-> t, tree |-> index]
      <4>1. last.tree = index
        OBVIOUS
      <4> HIDE DEF last
      <4>2. commits' = Append(commits, last) /\ head' = Len(commits')
        BY <1>11, <3>2 DEF CommitEnds, last
      <4>3. head' # 0 /\ commits'[head'] = last
        BY <4>2
      <4>4. QED
        BY <4>1, <4>3 DEF HeadTree
    <3>3. QED
      BY <3>1, <3>2
  <2>3. /\ phase'[u] = phase[u] \/ (phase[u] = "committing" /\ phase'[u] \in {"saving", "done"})
        /\ \A v \in Task : phase'[v] = "adding" => phase[v] = "adding"
    BY <1>11 DEF CommitEnds, Ends, Committed
  <2>4. AddRuns' => AddRuns
    BY <2>1, <2>3 DEF AddRuns
  <2>5. /\ Holds(worktree, u) => Holds(worktree, u)'
        /\ Holds(seen, u) => Holds(seen, u)'
        /\ Holds(index, u) => Holds(index, u)' /\ Holds(HeadTree, u)'
    BY <2>1, <2>2 DEF Holds
  <2>6. QED
    BY <1>0, <2>3, <2>4, <2>5 DEF Safe
<1>12. CASE (\E c \in 1..Len(commits) : ResetBegins(c)) \/ ResetGivenUp
  <2>1. /\ UNCHANGED <<phase, attempt, made, worktree, index, seen, commits, head>>
        /\ left' = "add" => left = "add"
    BY <1>12 DEF ResetBegins, ResetGivenUp
  <2>2. AddRuns' => AddRuns
    BY <2>1 DEF AddRuns
  <2>3. QED
    BY <1>0, <2>1, <2>2, BesideSafe DEF Holds
<1>13. CASE ResetEnds \/ Clean
  <2>1. phase'[u] \in {"waiting", "working"}
    BY <1>0, <1>13 DEF ResetEnds, Clean, Started
  <2>2. QED
    BY <2>1 DEF Safe
<1>14. CASE CleanFails \/ UNCHANGED vars
  <2>1. UNCHANGED <<phase, attempt, made, worktree, index, seen, left, commits, head>>
    BY <1>14 DEF CleanFails, vars
  <2>2. AddRuns' => AddRuns
    BY <2>1 DEF AddRuns
  <2>3. QED
    BY <1>0, <2>1, <2>2, BesideSafe DEF Holds
<1>15. QED
  BY <1>1, <1>2, <1>3, <1>4, <1>5, <1>6, <1>7, <1>8, <1>9, <1>10, <1>11, <1>12, <1>13, <1>14 DEF Next, Agents, Saves, Rewinds

LEMMA RestoringNext == IInv /\ [Next]_vars => Restoring'
<1> SUFFICES ASSUME IInv, [Next]_vars PROVE Restoring'
  OBVIOUS
<1> USE OutputFacts DEF IInv, TypeOK, VarTypes, Restoring, HeadTree, git, rewinding, failing, Tree, SaveFiles
<1>1. CASE StartWave
  BY <1>1 DEF StartWave
<1>2. ASSUME NEW t \in Task, AgentWrites(t) PROVE Restoring'
  <2>1. PICK files \in SUBSET First[t] : SaveFiles(t, files)
    BY <1>2 DEF AgentWrites
  <2>2. CASE rewind = "cleaning" /\ files # {}
    BY <1>2, <2>1, <2>2 DEF AgentWrites
  <2>3. CASE rewind = "cleaning" /\ files = {}
    <3>1. \A f \in File : worktree'[f] = worktree[f]
      BY <2>1, <2>3
    <3>2. QED
      BY <1>2, <2>1, <2>3, <3>1 DEF AgentWrites
  <2>4. CASE rewind # "cleaning"
    BY <1>2, <2>4 DEF AgentWrites
  <2>5. QED
    BY <2>2, <2>3, <2>4
<1>3. ASSUME NEW t \in Task, AgentEnds(t) PROVE Restoring'
  BY <1>3 DEF AgentEnds
<1>4. ASSUME NEW t \in Task, Raises(t) PROVE Restoring'
  BY <1>4 DEF Raises
<1>5. ASSUME NEW t \in Task, AddBegins(t) PROVE Restoring'
  BY <1>5 DEF AddBegins
<1>6. ASSUME NEW t \in Task, AddEnds(t) PROVE Restoring'
  BY <1>6 DEF AddEnds, Ends
<1>7. ASSUME NEW t \in Task, AddRefused(t) PROVE Restoring'
  BY <1>7 DEF AddRefused, CannotBegin, Refuse, Failure
<1>8. ASSUME NEW t \in Task, Diff(t) PROVE Restoring'
  BY <1>8 DEF Diff
<1>9. ASSUME NEW t \in Task, CommitBegins(t) PROVE Restoring'
  BY <1>9 DEF CommitBegins
<1>10. ASSUME NEW t \in Task, CommitEnds(t) PROVE Restoring'
  BY <1>10 DEF CommitEnds, Ends, Committed
<1>11. ASSUME NEW t \in Task, CommitRefused(t) PROVE Restoring'
  BY <1>11 DEF CommitRefused, CannotBegin, Refuse, Failure, Committed
<1> USE WorkspaceAssumption DEF LockHeld
<1>12. ASSUME NEW c \in 1..Len(commits), ResetBegins(c) PROVE Restoring'
  <2>1. left' = "none" /\ c \in Nat /\ c # 0
    BY <1>12 DEF ResetBegins
  <2>2. QED
    BY <1>12, <2>1 DEF ResetBegins
<1>13. CASE ResetEnds
  BY <1>13 DEF ResetEnds, ResetOver
<1>14. CASE Clean
  BY <1>14 DEF Clean
<1>15. CASE UNCHANGED vars
  BY <1>15 DEF vars
<1>17. ASSUME NEW t \in Task, BranchFails(t) PROVE Restoring'
  BY <1>17 DEF BranchFails
<1>18. ASSUME NEW t \in Task, AddGivenUp(t) PROVE Restoring'
  BY <1>18 DEF AddGivenUp
<1>19. ASSUME NEW t \in Task, DiffFails(t) PROVE Restoring'
  BY <1>19 DEF DiffFails
<1>20. ASSUME NEW t \in Task, CommitGivenUp(t) PROVE Restoring'
  BY <1>20 DEF CommitGivenUp
<1>21. CASE ResetGivenUp
  BY <1>21 DEF ResetGivenUp
<1>22. CASE CleanFails
  BY <1>22 DEF CleanFails
<1>16. QED
  BY <1>1, <1>2, <1>3, <1>4, <1>5, <1>6, <1>7, <1>8, <1>9, <1>10, <1>11, <1>12, <1>13, <1>14, <1>15, <1>17, <1>18, <1>19, <1>20, <1>21, <1>22 DEF Next, Agents, Saves, Rewinds

LEMMA InitIInv == Init => IInv
<1> SUFFICES ASSUME Init PROVE IInv
  OBVIOUS
<1> USE OutputFacts DEF Init
<1>1. Empty \in Tree
  BY DEF Empty, Tree
<1>2. VarTypes
  <2>1. commits = <<>> /\ <<>> \in Seq([by : Task, tree : Tree]) /\ Len(<<>>) = 0
    OBVIOUS
  <2>2. worktree \in Tree /\ index \in Tree /\ seen \in Tree
    BY <1>1
  <2> HIDE DEF Init
  <2>3. head = 0 /\ target = 0 /\ rewinds = 0 /\ rewind = "idle" /\ manifest = {}
    BY DEF Init
  <2>4. /\ refused = {} /\ rewound = {} /\ disturbed = FALSE
        /\ bootstrap = {} /\ failures = 0 /\ left = "none"
    BY DEF Init
  <2>5. attempt = [t \in Task |-> 0] /\ phase = [t \in Task |-> "waiting"] /\ made = [t \in Task |-> {}]
    BY DEF Init
  <2>6. /\ phase \in [Task -> Phase] /\ attempt \in [Task -> 0..(MaxRetries + 1)]
        /\ made \in [Task -> SUBSET File] /\ \A t \in Task : made[t] \subseteq Output(t)
    BY <2>5 DEF Phase
  <2>7. /\ commits \in Seq([by : Task, tree : Tree]) /\ head \in 0..Len(commits)
        /\ target \in 0..Len(commits) /\ rewinds \in 0..MaxRewinds
    BY <2>1, <2>3
  <2>8. failures \in 0..MaxFailures
    BY <2>4, WorkspaceAssumption
  <2>9. QED
    BY <2>2, <2>3, <2>4, <2>6, <2>7, <2>8 DEF VarTypes
<1>3. LockHeld
  BY DEF LockHeld
<1>4. TreesKnown /\ Known(worktree)
  BY DEF TreesKnown, Known, Empty
<1>5. \A t \in Intact : Safe(t)
  BY DEF Intact, Safe, Saving, Staged
<1>6. Restoring
  BY DEF Restoring
<1>7. QED
  BY <1>2, <1>3, <1>4, <1>5, <1>6 DEF IInv, TypeOK

LEMMA NextIInv == IInv /\ [Next]_vars => IInv'
<1> SUFFICES ASSUME IInv, [Next]_vars PROVE IInv'
  OBVIOUS
<1>1. VarTypes' /\ LockHeld' /\ TreesKnown' /\ Restoring'
  BY TypesNext, LockNext, TreesNext, RestoringNext
<1>2. \A u \in Task : u \in Intact' => Safe(u)'
  BY SafeNext
<1>3. (\A t \in Intact : Safe(t))'
  BY <1>2 DEF Intact
<1>4. QED
  BY <1>1, <1>3 DEF IInv, TypeOK, TreesKnown

LEMMA Invariant == Spec => []IInv
  BY InitIInv, NextIInv, PTL DEF Spec

-------------------------------------------------------------------------------

\* The workspace, the index, the commits and the lock always have their types, the
\* lock is held by the command that runs, and every agent's file is in the manifest.
THEOREM TypeCorrect == Spec => []TypeOK
<1>1. IInv => TypeOK
  BY DEF IInv
<1>2. QED
  BY Invariant, <1>1, PTL

\* However the saves of any number of tasks interleave, a completed task's files
\* are in the branch's last commit, unless one of its own git commands was refused
\* or a rewind took them.
THEOREM SavedUnlessRefusedHolds == Spec => []SavedUnlessRefused
<1>1. IInv => SavedUnlessRefused
  BY DEF IInv, Intact, Safe, Holds, SavedUnlessRefused
<1>2. QED
  BY Invariant, <1>1, PTL

\* A rewind that nobody wrote or staged files beside leaves exactly the checkpoint's
\* files, whatever the workspace was before.
THEOREM RewindRestoresHolds == Spec => RewindRestores
<1>1. IInv /\ [Next]_vars => [(Clean /\ ~disturbed) => worktree' = HeadTree]_vars
  <2> SUFFICES ASSUME IInv, Clean, ~disturbed PROVE worktree' = HeadTree
    OBVIOUS
  <2>1. index = HeadTree /\ \A f \in File : index[f] # 0 => worktree[f] = index[f]
    BY DEF IInv, Restoring, Clean
  <2>2. index \in [File -> 0..(MaxRetries + 1)]
    BY DEF IInv, TypeOK, VarTypes, Tree
  <2>3. worktree' = [f \in File |-> IF index[f] = 0 THEN 0 ELSE worktree[f]]
    BY DEF Clean
  <2>4. \A f \in File : worktree'[f] = index[f]
    BY <2>1, <2>3
  <2>5. worktree' = index
    BY <2>2, <2>3, <2>4
  <2>6. QED
    BY <2>1, <2>5
<1>2. QED
  BY Invariant, <1>1, PTL DEF Spec, RewindRestores

-------------------------------------------------------------------------------
(***************************************************************************)
(* The generated application.                                              *)
(***************************************************************************)

AppTypes ==
  /\ accounts \subseteq [id : Id, email : Email]
  /\ items \in [Id -> SUBSET Row]
  /\ op \in [Call -> OfAccounts \union OfItems \union {NoOp}]
  /\ pc \in [Call -> {"idle", "done"} \union Running]
  /\ loaded \in [Call -> Status \union {NoStatus}]
  /\ answer \in [Call -> {0, 200, 201, 204, 400, 401, 404, 500}]

\* The first item is made, and an item whose call has inserted its row.
Made(i) == i = FirstItem \/ pc[i] \in {"refresh", "done"}

\* The tables: an address is registered once; an id has at most one row, inserted by
\* its call, whose owner has an account.
Tables ==
  /\ \A a, b \in accounts : a.email = b.email => a = b
  /\ \A i \in Id :
       /\ \A row, other \in items[i] : row = other
       /\ \A row \in items[i] : \E a \in accounts : a.id = row.owner
       /\ items[i] # {} => Made(i)

\* One call.  What it asks for fits its next query; its user has an account; a
\* registration past its insertion has its row; a deletion is of an item that was
\* made, whose row is gone when it is answered.
Sound(c) ==
  /\ pc[c] = "done" <=> answer[c] # 0
  /\ pc[c] \in {"check", "insert"} => op[c] \in OfAccounts /\ op[c].kind = "register"
  /\ pc[c] \in {"auth", "create", "load", "commit"} => op[c] \in OfItems
  /\ pc[c] = "create" => op[c].kind = "create"
  /\ op[c] \in OfItems => \E a \in accounts : a.id = op[c].user
  /\ op[c].kind = "register" /\ (pc[c] = "refresh" \/ answer[c] = 201)
       => [id |-> c, email |-> op[c].email] \in accounts
  /\ op[c].kind = "delete" /\ (pc[c] = "commit" \/ answer[c] = 204) => Made(op[c].item)
  /\ op[c].kind = "delete" /\ answer[c] = 204 => items[op[c].item] = {}

AInv == AppTypes /\ Tables /\ \A c \in Call : Sound(c)

LEMMA AInvImplies == AInv => AppTypeOK /\ OneAccountPerEmail /\ DeletedStays
<1> SUFFICES ASSUME AInv PROVE AppTypeOK /\ OneAccountPerEmail /\ DeletedStays
  OBVIOUS
<1>1. ASSUME NEW i \in Id PROVE Cardinality(items[i]) <= 1
  <2>1. CASE items[i] = {}
    BY <2>1, FS_EmptySet
  <2>2. CASE items[i] # {}
    <3>1. PICK row \in items[i] : items[i] = {row}
      BY <2>2 DEF AInv, Tables
    <3>2. QED
      BY <3>1, FS_Singleton, SMTT(30)
  <2>3. QED
    BY <2>1, <2>2
<1>2. AppTypeOK
  BY <1>1, ZenonT(30) DEF AInv, AppTypes, Tables, Sound, AppTypeOK
<1>3. OneAccountPerEmail
  <2>1. \A a, b \in accounts : a.email = b.email => a = b
    BY DEF AInv, Tables
  <2>2. ASSUME NEW c \in Call, NEW d \in Call, op[c].kind = "register", op[d].kind = "register",
               answer[c] = 201, answer[d] = 201, op[c].email = op[d].email
        PROVE  c = d
    <3>1. /\ [id |-> c, email |-> op[c].email] \in accounts
          /\ [id |-> d, email |-> op[d].email] \in accounts
      BY <2>2 DEF AInv, Sound
    <3>2. [id |-> c, email |-> op[c].email] = [id |-> d, email |-> op[d].email]
      BY <2>1, <2>2, <3>1
    <3>3. QED
      BY <3>2
  <2>3. QED
    BY <2>1, <2>2 DEF OneAccountPerEmail
<1>4. DeletedStays
  BY ZenonT(30) DEF AInv, Sound, DeletedStays
<1>5. QED
  BY <1>2, <1>3, <1>4

LEMMA AInit == AppInit => AInv
<1> SUFFICES ASSUME AppInit PROVE AInv
  OBVIOUS
<1> USE DEF AppInit
<1>1. AppTypes
  BY DEF AppTypes, Id, Row
<1>2. Tables
  <2>1. PICK e \in Email, s \in Status :
          /\ accounts = {[id |-> FirstItem, email |-> e]}
          /\ items = [i \in Id |-> IF i = FirstItem THEN {[owner |-> FirstItem, status |-> s]} ELSE {}]
    OBVIOUS
  <2>2. \A a, b \in accounts : a.email = b.email => a = b
    BY <2>1
  <2>3. ASSUME NEW i \in Id
        PROVE  /\ \A row, other \in items[i] : row = other
               /\ \A row \in items[i] : \E a \in accounts : a.id = row.owner
               /\ items[i] # {} => Made(i)
    <3>1. CASE i = FirstItem
      <4>1. items[i] = {[owner |-> FirstItem, status |-> s]}
        BY <2>1, <3>1
      <4>2. QED
        BY <2>1, <3>1, <4>1 DEF Made
    <3>2. CASE i # FirstItem
      BY <2>1, <3>2
    <3>3. QED
      BY <3>1, <3>2
  <2>4. QED
    BY <2>2, <2>3 DEF Tables
<1>3. \A c \in Call : Sound(c)
  BY DEF Sound, OfItems, NoOp
<1>4. QED
  BY <1>1, <1>2, <1>3 DEF AInv

\* What a step of one call leaves of the others.
LEMMA OthersSound ==
  ASSUME AInv, NEW c \in Call,
         \A d \in Call \ {c} : op'[d] = op[d] /\ pc'[d] = pc[d] /\ answer'[d] = answer[d],
         accounts \subseteq accounts',
         \A i \in Id : Made(i) => Made(i)',
         \A i \in Id : Made(i) /\ items[i] = {} => items'[i] = {},
         Sound(c)'
  PROVE  \A d \in Call : Sound(d)'
<1> SUFFICES ASSUME NEW d \in Call, d # c PROVE Sound(d)'
  OBVIOUS
<1>1. Sound(d) /\ op'[d] = op[d] /\ pc'[d] = pc[d] /\ answer'[d] = answer[d]
  BY DEF AInv
<1>2. op[d].kind = "delete" => op[d].item \in Id
  BY DEF AInv, AppTypes, OfAccounts, OfItems, NoOp
<1>3. QED
  BY <1>1, <1>2 DEF Sound

\* A step that inserts no row and changes none keeps the tables.
LEMMA TablesKept ==
  ASSUME Tables, UNCHANGED <<accounts, items>>, \A i \in Id : Made(i) => Made(i)'
  PROVE  Tables'
  BY DEF Tables

\* The kinds of requests are distinct.
LEMMA Kinds ==
  /\ \A o \in OfAccounts : o.kind \in {"register", "login"} /\ o.email \in Email
  /\ \A o \in OfItems : /\ o.kind \in {"create", "update", "get", "delete", "list"}
                        /\ o.user \in Id /\ o.item \in Id
                        /\ o.kind \in {"create", "update"} => o.status \in Status
  /\ NoOp.kind = "none"
  BY DEF OfAccounts, OfItems, NoOp

LEMMA StepKeepsAInv ==
  ASSUME AInv, NEW c \in Call,
         \/ Begin(c) \/ CheckEmail(c) \/ InsertUser(c) \/ Login(c) \/ Authenticate(c) \/ Create(c)
         \/ List(c) \/ Load(c) \/ CommitUpdate(c) \/ CommitDelete(c) \/ Refresh(c) \/ QueryFails(c)
  PROVE  AInv'
<1>0. AppTypes /\ Tables /\ Sound(c) /\ c \in Id /\ c # FirstItem
  BY AppAssumption DEF AInv, Id
<1> USE Kinds
<1>1. ASSUME AppTypes', Sound(c)', UNCHANGED <<accounts, items>>,
             \A d \in Call \ {c} : op'[d] = op[d] /\ pc'[d] = pc[d] /\ answer'[d] = answer[d],
             pc[c] \notin {"refresh", "done"} \/ pc'[c] \in {"refresh", "done"}
      PROVE  AInv'
  <2>1. \A i \in Id : Made(i) => Made(i)'
    BY <1>1 DEF Made, Id
  <2>2. QED
    BY <1>0, <1>1, <2>1, OthersSound, TablesKept DEF AInv
<1>2. CASE Begin(c)
  <2>1. CASE \E o \in OfAccounts :
               /\ op' = [op EXCEPT ![c] = o]
               /\ Goto(c, "idle", IF o.kind = "register" THEN "check" ELSE "login")
    <3>1. AppTypes' /\ Sound(c)'
      BY <1>0, <1>2, <2>1 DEF Begin, Goto, AppTypes, Sound, Running, OfAccounts, OfItems
    <3>2. QED
      BY <1>0, <1>1, <1>2, <2>1, <3>1 DEF Begin, Goto, AppTypes
  <2>2. CASE \E o \in OfItems :
               /\ \E a \in accounts : a.id = o.user
               /\ op' = [op EXCEPT ![c] = o]
               /\ Goto(c, "idle", "auth")
    <3>1. AppTypes' /\ Sound(c)'
      BY <1>0, <1>2, <2>2 DEF Begin, Goto, AppTypes, Sound, Running
    <3>2. QED
      BY <1>0, <1>1, <1>2, <2>2, <3>1 DEF Begin, Goto, AppTypes
  <2>3. QED
    BY <1>2, <2>1, <2>2 DEF Begin
<1>3. CASE CheckEmail(c)
  <2>1. AppTypes' /\ Sound(c)'
    BY <1>0, <1>3 DEF CheckEmail, Goto, Answer, AppTypes, Sound, Running
  <2>2. QED
    BY <1>0, <1>1, <1>3, <2>1 DEF CheckEmail, Goto, Answer, AppTypes
<1>4. CASE InsertUser(c)
  <2>1. CASE Registered(op[c].email) /\ Answer(c, "insert", 500) /\ UNCHANGED accounts
    <3>1. AppTypes' /\ Sound(c)'
      BY <1>0, <1>4, <2>1 DEF InsertUser, Answer, AppTypes, Sound, Running
    <3>2. QED
      BY <1>0, <1>1, <1>4, <2>1, <3>1 DEF InsertUser, Answer, AppTypes
  <2>2. CASE /\ ~Registered(op[c].email)
             /\ Goto(c, "insert", "refresh")
             /\ accounts' = accounts \union {[id |-> c, email |-> op[c].email]}
    <3>0. op[c] \in OfAccounts /\ op[c].kind = "register" /\ op[c].email \in Email /\ pc[c] = "insert"
      BY <1>0, <2>2 DEF Goto, Sound
    <3>1. AppTypes'
      BY <1>0, <1>4, <2>2, <3>0 DEF InsertUser, Goto, AppTypes, Running
    <3>2. Sound(c)'
      BY <1>0, <1>4, <2>2, <3>0 DEF InsertUser, Goto, AppTypes, Sound
    <3>3. \A i \in Id : Made(i) => Made(i)'
      BY <1>0, <2>2 DEF Goto, AppTypes, Made, Id
    <3>4. \A a, b \in accounts' : a.email = b.email => a = b
      BY <1>0, <2>2 DEF Tables, Registered
    <3>5. Tables'
      BY <1>0, <1>4, <2>2, <3>3, <3>4 DEF Tables, InsertUser
    <3>6. \A d \in Call : Sound(d)'
      BY <1>0, <1>4, <2>2, <3>2, <3>3, OthersSound DEF InsertUser, Goto, AppTypes
    <3>7. QED
      BY <3>1, <3>5, <3>6 DEF AInv
  <2>3. QED
    BY <1>4, <2>1, <2>2 DEF InsertUser
<1>5. CASE Login(c)
  <2>1. AppTypes' /\ Sound(c)'
    BY <1>0, <1>5 DEF Login, Answer, AppTypes, Sound, Running
  <2>2. QED
    BY <1>0, <1>1, <1>5, <2>1 DEF Login, Answer, AppTypes
<1>6. CASE Authenticate(c)
  <2>1. AppTypes' /\ Sound(c)'
    BY <1>0, <1>6 DEF Authenticate, Own, Goto, Answer, AppTypes, Sound, Running, Row
  <2>2. QED
    BY <1>0, <1>1, <1>6, <2>1 DEF Authenticate, Goto, Answer, AppTypes
<1>7. CASE Create(c)
  <2> DEFINE new == [owner |-> op[c].user, status |-> op[c].status]
  <2>0. /\ pc[c] = "create" /\ op[c] \in OfItems /\ op[c].kind = "create" /\ new \in Row
        /\ ~Made(c) /\ items' = [items EXCEPT ![c] = {new}]
    BY <1>0, <1>7 DEF Create, Goto, Sound, Row, Made
  <2>1. PICK a \in accounts : a.id = new.owner
    BY <1>0, <2>0 DEF Sound
  <2> HIDE DEF new
  <2>2. AppTypes'
    BY <1>0, <1>7, <2>0 DEF Create, Goto, AppTypes, Running
  <2>3. Sound(c)'
    BY <1>0, <1>7, <2>0 DEF Create, Goto, AppTypes, Sound
  <2>4. (\A i \in Id : Made(i) => Made(i)') /\ Made(c)'
    BY <1>0, <1>7 DEF Create, Goto, AppTypes, Made, Id
  <2>5. Tables'
    BY <1>0, <1>7, <2>0, <2>1, <2>4 DEF Create, AppTypes, Tables
  <2>6. \A d \in Call : Sound(d)'
    BY <1>0, <1>7, <2>0, <2>3, <2>4, OthersSound DEF Create, Goto, AppTypes
  <2>7. QED
    BY <2>2, <2>5, <2>6 DEF AInv
<1>8. CASE List(c)
  <2>1. AppTypes' /\ Sound(c)'
    BY <1>0, <1>8 DEF List, Answer, AppTypes, Sound, Running
  <2>2. QED
    BY <1>0, <1>1, <1>8, <2>1 DEF List, Answer, AppTypes
<1>9. CASE Load(c)
  <2>0. op[c] \in OfItems /\ op[c].item \in Id /\ pc[c] = "load"
    BY <1>0, <1>9 DEF Load, Sound
  <2>1. CASE Own(c) = {} /\ Answer(c, "load", 404) /\ UNCHANGED loaded
    <3>1. AppTypes' /\ Sound(c)'
      BY <1>0, <1>9, <2>1 DEF Load, Answer, AppTypes, Sound, Running
    <3>2. QED
      BY <1>0, <1>1, <1>9, <2>1, <3>1 DEF Load, Answer, AppTypes
  <2>2. CASE \E row \in Own(c) :
               /\ IF op[c].kind = "get" THEN Answer(c, "load", 200) ELSE Goto(c, "load", "commit")
               /\ loaded' = IF loaded[c] = NoStatus THEN [loaded EXCEPT ![c] = row.status] ELSE loaded
    <3>1. PICK row \in Own(c) :
               /\ IF op[c].kind = "get" THEN Answer(c, "load", 200) ELSE Goto(c, "load", "commit")
               /\ loaded' = IF loaded[c] = NoStatus THEN [loaded EXCEPT ![c] = row.status] ELSE loaded
      BY <2>2
    <3>2. row.status \in Status /\ items[op[c].item] # {}
      BY <1>0, <2>0 DEF Own, AppTypes, Row
    <3>3. Made(op[c].item) /\ op[c].item # c
      BY <1>0, <2>0, <3>2 DEF Tables, Made
    <3>4. AppTypes'
      BY <1>0, <1>9, <3>1, <3>2 DEF Load, Answer, Goto, AppTypes, Running
    <3>5. Made(op[c].item)'
      BY <1>0, <1>9, <2>0, <3>1, <3>3 DEF Load, Made, Answer, Goto, AppTypes, Id
    <3>6. Sound(c)'
      BY <1>0, <1>9, <2>0, <3>1, <3>5 DEF Load, Answer, Goto, AppTypes, Sound, Running
    <3>7. QED
      BY <1>0, <1>1, <1>9, <3>1, <3>4, <3>6 DEF Load, Answer, Goto, AppTypes
  <2>3. QED
    BY <1>9, <2>1, <2>2 DEF Load
<1>10. CASE CommitUpdate(c)
  <2> DEFINE i == op[c].item
             changed == {[row EXCEPT !.status = op[c].status] : row \in items[i]}
  <2>0. op[c] \in OfItems /\ op[c].kind = "update" /\ i \in Id /\ op[c].status \in Status /\ pc[c] = "commit"
    BY <1>0, <1>10 DEF CommitUpdate, Goto, Answer, Sound
  <2>1. CASE UNCHANGED items
    <3>1. /\ Goto(c, "commit", "refresh") \/ Answer(c, "commit", 500)
          /\ UNCHANGED <<accounts, items, op, loaded>>
      BY <1>10, <2>1 DEF CommitUpdate
    <3>2. AppTypes'
      <4>1. CASE Goto(c, "commit", "refresh")
        BY <1>0, <3>1, <4>1 DEF Goto, AppTypes, Running
      <4>2. CASE Answer(c, "commit", 500)
        BY <1>0, <3>1, <4>2 DEF Answer, AppTypes
      <4>3. QED
        BY <3>1, <4>1, <4>2
    <3>3. Sound(c)'
      BY <1>0, <1>10, <2>0, <2>1, <3>1 DEF CommitUpdate, Goto, Answer, AppTypes, Sound
    <3>4. QED
      BY <1>0, <1>1, <1>10, <2>0, <2>1, <3>1, <3>2, <3>3 DEF CommitUpdate, Goto, Answer, AppTypes
  <2>2. CASE items[i] # {} /\ Goto(c, "commit", "refresh") /\ items' = [items EXCEPT ![i] = changed]
    <3>1. /\ changed \in SUBSET Row
          /\ \A row, other \in changed : row = other
          /\ \A row \in changed : \E a \in accounts : a.id = row.owner
      BY <1>0, <2>0 DEF AppTypes, Tables, Row
    <3> HIDE DEF changed
    <3>2. AppTypes'
      BY <1>0, <1>10, <2>0, <2>2, <3>1 DEF CommitUpdate, Goto, AppTypes, Running
    <3>3. Sound(c)'
      BY <1>0, <1>10, <2>0, <2>2 DEF CommitUpdate, Goto, AppTypes, Sound
    <3>4. \A k \in Id : Made(k) => Made(k)'
      BY <1>0, <2>2 DEF Goto, AppTypes, Made, Id
    <3>5. Tables'
      BY <1>0, <1>10, <2>0, <2>2, <3>1, <3>4 DEF CommitUpdate, AppTypes, Tables
    <3>6. \A d \in Call : Sound(d)'
      BY <1>0, <1>10, <2>0, <2>2, <3>3, <3>4, OthersSound DEF CommitUpdate, Goto, AppTypes
    <3>7. QED
      BY <3>2, <3>5, <3>6 DEF AInv
  <2>3. QED
    BY <1>10, <2>1, <2>2 DEF CommitUpdate
<1>11. CASE CommitDelete(c)
  <2>0. op[c] \in OfItems /\ op[c].kind = "delete" /\ op[c].item \in Id /\ pc[c] = "commit"
    BY <1>0, <1>11 DEF CommitDelete, Answer, Sound
  <2>1. AppTypes'
    BY <1>0, <1>11 DEF CommitDelete, Answer, AppTypes
  <2>2. \A i \in Id : Made(i) => Made(i)'
    BY <1>0, <1>11 DEF CommitDelete, Answer, AppTypes, Made, Id
  <2>3. Sound(c)'
    BY <1>0, <1>11, <2>0, <2>2 DEF CommitDelete, Answer, AppTypes, Sound
  <2>4. Tables'
    BY <1>0, <1>11, <2>0, <2>2 DEF CommitDelete, AppTypes, Tables
  <2>5. \A d \in Call : Sound(d)'
    BY <1>0, <1>11, <2>0, <2>2, <2>3, OthersSound DEF CommitDelete, Answer, AppTypes
  <2>6. QED
    BY <2>1, <2>4, <2>5 DEF AInv
<1>12. CASE Refresh(c)
  <2>1. AppTypes' /\ Sound(c)'
    BY <1>0, <1>12 DEF Refresh, Answer, AppTypes, Sound, Running
  <2>2. QED
    BY <1>0, <1>1, <1>12, <2>1 DEF Refresh, Answer, AppTypes
<1>13. CASE QueryFails(c)
  <2>1. AppTypes' /\ Sound(c)'
    BY <1>0, <1>13 DEF QueryFails, Answer, AppTypes, Sound, Running
  <2>2. QED
    BY <1>0, <1>1, <1>13, <2>1 DEF QueryFails, Answer, AppTypes
<1>14. QED
  BY <1>2, <1>3, <1>4, <1>5, <1>6, <1>7, <1>8, <1>9, <1>10, <1>11, <1>12, <1>13

LEMMA AInvariant == AppSpec => []AInv
<1>1. AInv /\ [AppNext]_appVars => AInv'
  <2>1. AInv /\ UNCHANGED appVars => AInv'
    BY DEF appVars, AInv, AppTypes, Tables, Made, Sound
  <2>2. QED
    BY <2>1, StepKeepsAInv DEF AppNext
<1>2. QED
  BY AInit, <1>1, PTL DEF AppSpec

\* The tables, the requests and their answers always have their types.
THEOREM AppTypeCorrect == AppSpec => []AppTypeOK
  BY AInvariant, AInvImplies, PTL

\* An address has one account and at most one registration of it is answered 201, however
\* the checks and the insertions of two registrations interleave: the column is unique.
THEOREM OneAccountPerEmailHolds == AppSpec => []OneAccountPerEmail
  BY AInvariant, AInvImplies, PTL

\* An item whose deletion was answered 204 does not come back, though an update that had
\* loaded it commits afterwards.
THEOREM DeletedStaysHolds == AppSpec => []DeletedStays
  BY AInvariant, AInvImplies, PTL

===============================================================================
