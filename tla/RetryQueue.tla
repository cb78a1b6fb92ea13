------------------------------ MODULE RetryQueue ------------------------------
(***************************************************************************)
(* What every task store of the system promises about retries, whatever    *)
(* its implementation: the Go execution graph (TaskDag), the Python        *)
(* engine's task graph (ProjectEngine) and the orchestrator's task table   *)
(* (Orchestrator) each implement this specification.                       *)
(*                                                                         *)
(* A task on offer may be handed out once; it comes back on offer only by  *)
(* charging one retry, and only while the charge stays within its budget.  *)
(* It follows that a task is executed at most Budget + 1 times.            *)
(***************************************************************************)
EXTENDS Naturals

CONSTANTS
  Task,       \* tasks that may be executed
  Budget      \* Budget[t]: retries allowed to t

VARIABLES
  offered,    \* tasks that may be handed out for execution
  handedOut,  \* handedOut[t]: how often t was handed out
  charged     \* charged[t]: retries charged to t

vars == <<offered, handedOut, charged>>

TypeOK ==
  /\ offered \subseteq Task
  /\ handedOut \in [Task -> Nat]
  /\ charged \in [Task -> Nat]

Init ==
  /\ offered \in SUBSET Task
  /\ handedOut = [t \in Task |-> 0]
  /\ charged = [t \in Task |-> 0]

\* Tasks nobody has executed yet come on offer, one or a whole graph at a time.
Offer ==
  /\ offered' \in SUBSET Task
  /\ offered \subseteq offered'
  /\ \A t \in offered' \ offered : handedOut[t] = 0 /\ charged[t] = 0
  /\ UNCHANGED <<handedOut, charged>>

\* Tasks on offer are handed out, one or a wave at a time.
HandOut(S) ==
  /\ offered' = offered \ S
  /\ handedOut' = [t \in Task |-> handedOut[t] + (IF t \in S THEN 1 ELSE 0)]
  /\ UNCHANGED charged

\* A failure, charged while the budget lasts: the task comes back on offer.
Reoffer(t) ==
  /\ charged[t] + 1 <= Budget[t]
  /\ charged' = [charged EXCEPT ![t] = @ + 1]
  /\ offered' = offered \union {t}
  /\ UNCHANGED handedOut

\* The failure that exhausts the budget: the task leaves for good, and others
\* (the tasks that depend on it) may leave with it.
Exhaust(t) ==
  /\ charged[t] + 1 > Budget[t]
  /\ charged' = [charged EXCEPT ![t] = @ + 1]
  /\ offered' \in SUBSET (offered \ {t})
  /\ UNCHANGED handedOut

\* Tasks that end in any other way (success, cancellation) leave.
Withdraw ==
  /\ offered' \in SUBSET offered
  /\ UNCHANGED <<handedOut, charged>>

Next ==
  \/ Withdraw
  \/ Offer
  \/ \E t \in Task : Reoffer(t) \/ Exhaust(t)
  \/ \E S \in SUBSET offered : HandOut(S)

Spec == Init /\ [][Next]_vars

-------------------------------------------------------------------------------

\* A task is executed at most Budget + 1 times.
BoundedAttempts == \A t \in Task : handedOut[t] <= Budget[t] + 1

===============================================================================
