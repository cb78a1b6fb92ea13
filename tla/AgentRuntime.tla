------------------------------ MODULE AgentRuntime ------------------------------
(***************************************************************************)
(* The agent microservices (agents/agent_service.py), the Kafka client     *)
(* they consume with (messaging/kafka_client.py) and the budget gate of    *)
(* their model calls (agents/base_agent.py).                               *)
(*                                                                         *)
(* The pods of one role form a consumer group; one partition of the tasks  *)
(* topic is followed here.  A pod polls one message, runs its agent,       *)
(* publishes the outcome and polls again.  Offsets are never committed, so *)
(* every assignment of the partition starts at its beginning.  A pod that  *)
(* lost the partition, because it was told to stop or exceeded the poll    *)
(* interval, still finishes and reports its task.                          *)
(*                                                                         *)
(* A pod makes its producer and its consumer once, at its start.  Either   *)
(* of them that cannot reach Kafka then uses, for good, a bus in the pod's *)
(* memory, on which nobody else publishes and to which nobody listens.     *)
(*                                                                         *)
(* All agents of all roles add to one counter, budget:used, which each     *)
(* reads before a model call and increments after it.  Money is counted in *)
(* calls: each adds the same flat estimate.                                *)
(***************************************************************************)
EXTENDS Naturals, FiniteSets, Sequences

CONSTANTS
  Pod,             \* the pods of the role's consumer group
  Neighbour,       \* agents of other roles, which share the budget
  NoPod,           \* the partition has no owner
  Limit,           \* BUDGET_LIMIT_USD, in calls
  MaxMessages,     \* bound on the messages of the partition
  MaxDisturbances, \* bound on crashes, shutdowns and rebalances
  MaxUngated       \* bound on calls made while Redis could not be asked

Agent == Pod \union Neighbour
Offset == 1..MaxMessages

ASSUME AgentAssumption == IsFiniteSet(Agent) /\ Pod # {} /\ Pod \intersect Neighbour = {} /\ NoPod \notin Agent
ASSUME BoundsAssumption ==
  Limit \in Nat \ {0} /\ MaxMessages \in Nat /\ MaxDisturbances \in Nat /\ MaxUngated \in Nat

VARIABLES
  log,          \* the partition: the kind of each message
  owner,        \* the pod the partition is assigned to
  position,     \* how many messages its owner was given
  phase,        \* phase[p]: what pod p is doing
  current,      \* current[p]: offset of the message p works on, else 0
  stopping,     \* pods that finish their task and exit
  deaf,         \* pods whose consumer did not reach Kafka at their start
  taken,        \* taken[o]: executions begun of the task at o (history)
  results,      \* <<offset, status>> on the results topic
  deadLetters,  \* offsets on the dead letter topic
  unpublished,  \* offsets an outcome of which could not be published
  calling,      \* agents between the budget gate and the counter
  used,         \* budget:used
  ungated,      \* calls let through unchecked so far
  disturbances  \* crashes, shutdowns and rebalances so far

partition == <<log, owner, position>>
working == <<phase, current, stopping, taken>>
pods == <<working, deaf>>
outcomes == <<results, deadLetters, unpublished>>
budget == <<calling, used, ungated>>
vars == <<partition, pods, outcomes, budget, disturbances>>

\* "last" is a task with retry_count = max_retries, "malformed" a message that
\* TaskMessage refuses (null input_data, say), "other" a task of another role.
Kinds == {"task", "last", "malformed", "other"}
Busy == {"running", "completed", "failed", "rejecting"}

TypeOK ==
  /\ log \in Seq(Kinds) /\ Len(log) <= MaxMessages
  /\ owner \in Pod \union {NoPod}
  /\ position \in 0..Len(log)
  /\ phase \in [Pod -> Busy \union {"polling", "down"}]
  /\ current \in [Pod -> 0..Len(log)]
  /\ stopping \subseteq Pod
  /\ deaf \subseteq Pod
  /\ taken \in [Offset -> Nat]
  /\ results \subseteq Offset \X {"completed", "failed"}
  /\ deadLetters \subseteq Offset
  /\ unpublished \subseteq Offset
  /\ calling \subseteq Agent
  /\ used \in Nat
  /\ ungated \in 0..MaxUngated
  /\ disturbances \in 0..MaxDisturbances

Init ==
  /\ log = <<>>
  /\ owner = NoPod
  /\ position = 0
  /\ phase = [p \in Pod |-> "down"]
  /\ current = [p \in Pod |-> 0]
  /\ stopping = {}
  /\ deaf = {}
  /\ taken = [o \in Offset |-> 0]
  /\ results = {}
  /\ deadLetters = {}
  /\ unpublished = {}
  /\ calling = {}
  /\ used = 0
  /\ ungated = 0
  /\ disturbances = 0

Disturb == disturbances < MaxDisturbances /\ disturbances' = disturbances + 1

-------------------------------------------------------------------------------
(* The topic and its consumer group. *)

\* The orchestrator publishes a task, for this role or another.
Dispatch(kind) ==
  /\ Len(log) < MaxMessages
  /\ log' = Append(log, kind)
  /\ UNCHANGED <<owner, position, pods, outcomes, budget, disturbances>>

\* Mutants of ResumePosition: one message is left out, the polled messages count
\* as consumed, or auto_offset_reset is "latest".
ResumeOnePast(pos) == pos + 1
ResumeAfterPolled(pos) == pos
ResumeAtLatest(pos) == Len(log)

\* Where an assignment resumes when the group's last consumer was at pos: nothing
\* was committed, so at the earliest message.
ResumePosition(pos) == 0

\* The partition is assigned to a pod, which takes part in the group only in poll.
AssignTo(p) ==
  /\ phase[p] = "polling" /\ p \notin deaf
  /\ owner' = p
  /\ position' = ResumePosition(position)
  /\ UNCHANGED <<log, pods, outcomes, budget>>

Join(p) == owner = NoPod /\ AssignTo(p) /\ UNCHANGED disturbances

\* A pod joined, or the owner did not poll for longer than max.poll.interval.
Rebalance(p) == owner # NoPod /\ AssignTo(p) /\ Disturb

\* p leaves the group.
Leave(p) == owner' = IF owner = p THEN NoPod ELSE owner

-------------------------------------------------------------------------------
(* A pod. *)

\* What the consume loop does with a message.
Receipt(kind) ==
  CASE kind = "other" -> "polling"
    [] kind = "malformed" -> "rejecting"
    [] kind \in {"task", "last"} -> "running"

\* consume_one finds a message in the partition that is p's.  On the bus in its memory
\* a deaf pod finds none: what is published there are outcomes.
HasMessage(p) == p \notin deaf /\ owner = p /\ position < Len(log)

\* consume_stream yields the next message.
Poll(p) ==
  LET o == position + 1 IN
  /\ phase[p] = "polling" /\ HasMessage(p)
  /\ position' = o
  /\ phase' = [phase EXCEPT ![p] = Receipt(log[o])]
  /\ current' = [current EXCEPT ![p] = IF log[o] = "other" THEN 0 ELSE o]
  /\ taken' = [taken EXCEPT ![o] = IF log[o] \in {"task", "last"} THEN @ + 1 ELSE @]
  /\ UNCHANGED <<log, owner, stopping, deaf, outcomes, budget, disturbances>>

\* The agent's run ends, with an output or an exception.
AgentEnds(p, outcome) ==
  /\ phase[p] = "running" /\ p \notin calling
  /\ phase' = [phase EXCEPT ![p] = outcome]
  /\ UNCHANGED <<partition, current, stopping, taken, deaf, outcomes, budget, disturbances>>

\* Mutant of Unserialisable: the task is simply run again.
UnserialisableRunsAgain(p) ==
  /\ phase[p] = "completed"
  /\ phase' = [phase EXCEPT ![p] = "running"]
  /\ taken' = [taken EXCEPT ![current[p]] = @ + 1]
  /\ UNCHANGED <<partition, current, stopping, deaf, outcomes, budget, disturbances>>

\* The output cannot be serialised: publish_model raises in the same try block.
Unserialisable(p) ==
  /\ phase[p] = "completed"
  /\ phase' = [phase EXCEPT ![p] = "failed"]
  /\ UNCHANGED <<partition, current, stopping, taken, deaf, outcomes, budget, disturbances>>

\* A rejected message and a final failure go to the dead letter topic only.
ToDeadLetters(p) == phase[p] = "rejecting" \/ (phase[p] = "failed" /\ log[current[p]] = "last")

\* The pod has reported: it polls again, or exits if it was told to stop.
Done(p) ==
  /\ phase' = [phase EXCEPT ![p] = IF p \in stopping THEN "down" ELSE "polling"]
  /\ current' = [current EXCEPT ![p] = 0]
  /\ stopping' = stopping \ {p}
  /\ UNCHANGED <<partition, taken, deaf, budget, disturbances>>

Report(p) ==
  /\ phase[p] \in {"completed", "failed", "rejecting"}
  /\ IF ToDeadLetters(p)
     THEN deadLetters' = deadLetters \union {current[p]} /\ UNCHANGED results
     ELSE results' = results \union {<<current[p], phase[p]>>} /\ UNCHANGED deadLetters
  /\ Done(p)
  /\ UNCHANGED unpublished

\* publish returns False, which nobody looks at; or True, always, if the producer did
\* not reach Kafka at the pod's start and puts its messages on the bus in memory.
ReportLost(p) ==
  /\ phase[p] \in {"completed", "failed", "rejecting"}
  /\ unpublished' = unpublished \union {current[p]}
  /\ Done(p)
  /\ UNCHANGED <<results, deadLetters>>

\* SIGTERM: the consumer is closed at once, the task in hand is finished.
Shutdown(p) ==
  /\ phase[p] # "down" /\ p \notin stopping
  /\ IF phase[p] = "polling"
     THEN phase' = [phase EXCEPT ![p] = "down"] /\ UNCHANGED stopping
     ELSE stopping' = stopping \union {p} /\ UNCHANGED phase
  /\ Leave(p)
  /\ Disturb
  /\ UNCHANGED <<log, position, current, taken, deaf, outcomes, budget>>

\* The process ends, be it by an exception outside _process_task's try block.
Crash(p) ==
  /\ phase[p] # "down"
  /\ phase' = [phase EXCEPT ![p] = "down"]
  /\ current' = [current EXCEPT ![p] = 0]
  /\ stopping' = stopping \ {p}
  /\ calling' = calling \ {p}
  /\ Leave(p)
  /\ Disturb
  /\ UNCHANGED <<log, position, taken, deaf, outcomes, used, ungated>>

\* The consumer reaches Kafka or falls back, for as long as the process lives.
MakeConsumer(p) == deaf' \in {deaf \ {p}, deaf \union {p}}

\* A process starts, for the first time or again: it loads its agent and makes its
\* producer (see ReportLost) and its consumer.
Start(p) ==
  /\ phase[p] = "down"
  /\ phase' = [phase EXCEPT ![p] = "polling"]
  /\ MakeConsumer(p)
  /\ UNCHANGED <<partition, current, stopping, taken, outcomes, budget, disturbances>>

-------------------------------------------------------------------------------
(* call_llm, by the agent a pod runs or by one of another role. *)

CanCall(a) == a \notin calling /\ (a \in Pod => phase[a] = "running")

\* Mutant of PassGate: the limit is not looked at.
PassGateUnchecked(a) ==
  /\ CanCall(a)
  /\ calling' = calling \union {a}
  /\ UNCHANGED <<partition, pods, outcomes, used, ungated, disturbances>>

\* The gate: the call goes on if the counter is below the limit.
PassGate(a) ==
  /\ CanCall(a)
  /\ used < Limit
  /\ calling' = calling \union {a}
  /\ UNCHANGED <<partition, pods, outcomes, used, ungated, disturbances>>

\* Redis cannot be reached: the gate is bypassed.
BypassGate(a) ==
  /\ CanCall(a)
  /\ ungated < MaxUngated
  /\ calling' = calling \union {a}
  /\ ungated' = ungated + 1
  /\ UNCHANGED <<partition, pods, outcomes, used, disturbances>>

\* The provider has answered, and the call is counted.
CallCounted(a) ==
  /\ a \in calling
  /\ calling' = calling \ {a}
  /\ used' = used + 1
  /\ UNCHANGED <<partition, pods, outcomes, ungated, disturbances>>

\* The provider has failed, or the counter could not be incremented.
CallUncounted(a) ==
  /\ a \in calling
  /\ calling' = calling \ {a}
  /\ UNCHANGED <<partition, pods, outcomes, used, ungated, disturbances>>

-------------------------------------------------------------------------------

AgentReturns(p) == AgentEnds(p, "completed")
AgentRaises(p) == AgentEnds(p, "failed")

Next ==
  \/ \E kind \in Kinds : Dispatch(kind)
  \/ \E p \in Pod :
        \/ Join(p) \/ Rebalance(p)
        \/ Poll(p) \/ AgentReturns(p) \/ AgentRaises(p) \/ Unserialisable(p)
        \/ Report(p) \/ ReportLost(p)
        \/ Shutdown(p) \/ Crash(p) \/ Start(p)
  \/ \E a \in Agent : PassGate(a) \/ BypassGate(a) \/ CallCounted(a) \/ CallUncounted(a)

\* The group always assigns its partition, pods are started, publications and
\* model calls time out, and an agent makes finitely many calls.
Fairness ==
  /\ WF_vars(\E p \in Pod : Join(p))
  /\ \A p \in Pod :
       /\ WF_vars(Poll(p))
       /\ SF_vars(AgentReturns(p) \/ AgentRaises(p))
       /\ WF_vars(Report(p) \/ ReportLost(p))
       /\ WF_vars(Start(p))
  /\ \A a \in Agent : WF_vars(CallCounted(a) \/ CallUncounted(a))

Spec == Init /\ [][Next]_vars
FairSpec == Spec /\ Fairness

-------------------------------------------------------------------------------

Settled(o) ==
  \/ o \in deadLetters \union unpublished
  \/ \E status \in {"completed", "failed"} : <<o, status>> \in results

\* Whatever the interleaving, shutdown or crash, a consumer that has moved past a
\* message of its role has settled it, or is working on it: no task is lost
\* between being polled and being reported.
NothingSkipped ==
  owner # NoPod =>
    \A o \in 1..position : log[o] = "other" \/ Settled(o) \/ current[owner] = o

\* A task is executed again only because its partition was assigned again: at
\* most once more for each crash, shutdown or rebalance.
ExecutionsBounded == \A o \in Offset : taken[o] <= 1 + disturbances

\* The gate is checked before a call and the counter incremented after it, so
\* calls in flight at the limit all pass: each agent exceeds it by one call at most,
\* apart from the calls made while Redis was out of reach.
OvershootBounded == used <= Limit - 1 + Cardinality(Agent) + ungated

\* Every task of the role on the topic is settled in the end, through any number
\* of crashes, shutdowns and rebalances, unless each of the role's pods has come to
\* poll the bus of its own memory.
AllDeaf == \A p \in Pod : p \in deaf /\ phase[p] = "polling"
EveryTaskSettled ==
  \A o \in Offset : (o <= Len(log) /\ log[o] # "other") ~> (Settled(o) \/ AllDeaf)

===============================================================================
