----------------------------- MODULE AgentsProofs -----------------------------
(***************************************************************************)
(* Proofs about the agent microservices, for any number of pods,           *)
(* neighbours, messages, disturbances and unchecked calls, and any limit;  *)
(* and about the model calls of the planning phases, for any projects,     *)
(* prompts and threads.                                                    *)
(***************************************************************************)
EXTENDS AgentRuntime, ModelCalls, FiniteSetTheorems, WellFoundedInduction, TLAPS

\* A pod works on a message exactly while it is busy.
Working ==
  \A p \in Pod :
    /\ phase[p] \in {"polling", "down"} => current[p] = 0
    /\ phase[p] \in Busy => current[p] # 0

\* Every execution of a task but the one in the current assignment of the
\* partition is paid for by a disturbance.
Executions ==
  \A o \in Offset :
    taken[o] <= disturbances + (IF owner # NoPod /\ o <= position THEN 1 ELSE 0)

\* A call in flight is as good as counted.
Spending == used + Cardinality(calling) <= Limit - 1 + Cardinality(Agent) + ungated

RInv == TypeOK /\ Working /\ NothingSkipped /\ Executions /\ Spending

groupVars == <<log, owner, position, pods, outcomes, disturbances>>

-------------------------------------------------------------------------------

LEMMA AgentFinite == IsFiniteSet(Agent) /\ Cardinality(Agent) \in Nat \ {0} /\ Pod \subseteq Agent
<1>1. IsFiniteSet(Agent) /\ Pod \subseteq Agent
  BY AgentAssumption DEF Agent
<1>2. Cardinality(Agent) \in Nat
  BY <1>1, FS_CardinalityType
<1>3. Agent # {}
  BY AgentAssumption DEF Agent
<1>4. Cardinality(Agent) # 0
  BY <1>1, <1>3, FS_EmptySet
<1>5. QED
  BY <1>1, <1>2, <1>4

\* The agents with a call in flight are finitely many, at most all of them.
LEMMA CallingFinite ==
  ASSUME NEW S \in SUBSET Agent
  PROVE  IsFiniteSet(S) /\ Cardinality(S) \in Nat /\ Cardinality(S) <= Cardinality(Agent)
BY AgentFinite, FS_Subset, FS_CardinalityType

LEMMA InitRInv == Init => RInv
<1> SUFFICES ASSUME Init PROVE RInv
  OBVIOUS
<1> USE BoundsAssumption DEF Init
<1>1. TypeOK
  BY AgentAssumption DEF TypeOK, Kinds, Busy, Offset, Agent
<1>2. Working /\ NothingSkipped /\ Executions
  BY DEF Working, NothingSkipped, Executions, Busy, Offset
<1>3. Spending
  BY AgentFinite, FS_EmptySet DEF Spending
<1>4. QED
  BY <1>1, <1>2, <1>3 DEF RInv

-------------------------------------------------------------------------------
(* The budget. *)

\* Only calls change it: the others may end some of them.
LEMMA SpendingUndisturbed ==
  ASSUME TypeOK, Spending, calling' \subseteq calling, UNCHANGED <<used, ungated>>
  PROVE  Spending'
<1>1. calling \subseteq Agent /\ used \in Nat /\ ungated \in Nat
  BY BoundsAssumption DEF TypeOK
<1>2. IsFiniteSet(calling) /\ Cardinality(calling) \in Nat
  BY <1>1, CallingFinite
<1>3. Cardinality(calling') \in Nat /\ Cardinality(calling') <= Cardinality(calling)
  BY <1>2, FS_Subset, FS_CardinalityType
<1>4. QED
  BY <1>1, <1>2, <1>3, AgentFinite, BoundsAssumption DEF Spending

\* A call passes the gate below the limit, and then at most every agent is
\* calling; a call that bypasses it is added to the bound.
LEMMA CallKeepsSpending ==
  ASSUME TypeOK, Spending, NEW a \in Agent,
         PassGate(a) \/ BypassGate(a) \/ CallCounted(a) \/ CallUncounted(a)
  PROVE  Spending'
<1>1. /\ calling \subseteq Agent /\ used \in Nat /\ ungated \in Nat
      /\ IsFiniteSet(calling) /\ Cardinality(calling) \in Nat
  BY CallingFinite, BoundsAssumption DEF TypeOK
<1> USE <1>1, AgentFinite, BoundsAssumption DEF Spending
<1>2. CASE PassGate(a)
  <2>1. /\ calling' \subseteq Agent /\ used' = used /\ ungated' = ungated
        /\ used <= Limit - 1
    BY <1>2 DEF PassGate
  <2>2. Cardinality(calling') \in Nat /\ Cardinality(calling') <= Cardinality(Agent)
    BY <2>1, CallingFinite
  <2>3. QED
    BY <2>1, <2>2
<1>3. CASE BypassGate(a)
  <2>1. /\ a \notin calling /\ calling' = calling \union {a}
        /\ used' = used /\ ungated' = ungated + 1
    BY <1>3 DEF BypassGate, CanCall
  <2>2. Cardinality(calling') = Cardinality(calling) + 1
    BY <2>1, FS_AddElement
  <2>3. QED
    BY <2>1, <2>2
<1>4. CASE CallCounted(a)
  <2>1. a \in calling /\ calling' = calling \ {a} /\ used' = used + 1 /\ ungated' = ungated
    BY <1>4 DEF CallCounted
  <2>2. Cardinality(calling') = Cardinality(calling) - 1
    BY <2>1, FS_RemoveElement
  <2>3. QED
    BY <2>1, <2>2
<1>5. CASE CallUncounted(a)
  BY <1>5, SpendingUndisturbed DEF CallUncounted
<1>6. QED
  BY <1>2, <1>3, <1>4, <1>5

\* A call changes nothing else.
LEMMA CallKeepsRInv ==
  ASSUME RInv, NEW a \in Agent,
         PassGate(a) \/ BypassGate(a) \/ CallCounted(a) \/ CallUncounted(a)
  PROVE  RInv'
<1> USE DEF RInv
<1>1. Spending'
  BY CallKeepsSpending
<1>2. UNCHANGED groupVars
  BY DEF PassGate, BypassGate, CallCounted, CallUncounted, groupVars, partition
<1>3. calling' \subseteq Agent /\ used' \in Nat /\ ungated' \in 0..MaxUngated
  BY BoundsAssumption DEF TypeOK, PassGate, BypassGate, CallCounted, CallUncounted, budget
<1>4. TypeOK'
  BY <1>2, <1>3 DEF TypeOK, groupVars, pods, working, outcomes
<1>5. Working' /\ NothingSkipped' /\ Executions'
  BY <1>2 DEF Working, NothingSkipped, Executions, Settled, groupVars, pods, working, outcomes
<1>6. QED
  BY <1>1, <1>4, <1>5

-------------------------------------------------------------------------------
(* The topic and its consumer group. *)

LEMMA DispatchKeepsRInv ==
  ASSUME RInv, NEW kind \in Kinds, Dispatch(kind)
  PROVE  RInv'
<1> USE DEF RInv
<1>1. /\ log \in Seq(Kinds) /\ Len(log) \in Nat /\ log' \in Seq(Kinds)
      /\ Len(log') = Len(log) + 1 /\ Len(log') <= MaxMessages
      /\ \A o \in 1..Len(log) : log'[o] = log[o]
      /\ position \in 0..Len(log)
  BY BoundsAssumption DEF Dispatch, TypeOK
<1>2. UNCHANGED <<owner, position, pods, outcomes, budget, disturbances>>
  BY DEF Dispatch
<1>3. TypeOK'
  BY <1>1, <1>2 DEF TypeOK, pods, working, outcomes, budget
<1>4. Working' /\ Executions'
  BY <1>2 DEF Working, Executions, pods, working
<1>5. NothingSkipped'
  <2> SUFFICES ASSUME owner # NoPod, NEW o \in 1..position
               PROVE  log'[o] = "other" \/ Settled(o)' \/ current[owner] = o
    BY <1>2 DEF NothingSkipped, pods, working
  <2>1. log'[o] = log[o]
    BY <1>1
  <2>2. log[o] = "other" \/ Settled(o) \/ current[owner] = o
    BY DEF NothingSkipped
  <2>3. QED
    BY <1>2, <2>1, <2>2 DEF Settled, outcomes
<1>6. Spending'
  BY <1>2, SpendingUndisturbed DEF budget
<1>7. QED
  BY <1>3, <1>4, <1>5, <1>6

\* A new assignment starts at the beginning, so that nothing is behind it. It
\* follows on an owner's departure, which was a disturbance, or is one.
LEMMA AssignKeepsRInv ==
  ASSUME RInv, NEW p \in Pod, Join(p) \/ Rebalance(p)
  PROVE  RInv'
<1> USE BoundsAssumption DEF RInv
<1>1. /\ owner' = p /\ position' = 0
      /\ UNCHANGED <<log, pods, outcomes, budget>>
  BY DEF Join, Rebalance, AssignTo, ResumePosition
<1>2. /\ disturbances' \in 0..MaxDisturbances
      /\ disturbances' = IF owner = NoPod THEN disturbances ELSE disturbances + 1
  BY DEF Join, Rebalance, Disturb, TypeOK
<1>3. TypeOK'
  BY <1>1, <1>2 DEF TypeOK, pods, working, outcomes, budget
<1>4. Working'
  BY <1>1 DEF Working, pods, working
<1>5. NothingSkipped'
  BY <1>1 DEF NothingSkipped
<1>6. Executions'
  <2> SUFFICES ASSUME NEW o \in Offset PROVE taken[o] <= disturbances'
    BY <1>1, <1>2 DEF Executions, pods, working, Offset, TypeOK
  <2>1. taken[o] <= disturbances + (IF owner # NoPod /\ o <= position THEN 1 ELSE 0)
    BY DEF Executions
  <2>2. taken[o] \in Nat /\ disturbances \in Nat
    BY DEF TypeOK
  <2>3. QED
    BY <2>1, <2>2, <1>2
<1>7. Spending'
  BY <1>1, SpendingUndisturbed DEF budget
<1>8. QED
  BY <1>3, <1>4, <1>5, <1>6, <1>7

-------------------------------------------------------------------------------
(* A pod. *)

\* The owner polls only when it works on nothing, so that all it was given before
\* is settled; the message it gets is the one execution of this assignment.
LEMMA PollKeepsRInv ==
  ASSUME RInv, NEW p \in Pod, Poll(p)
  PROVE  RInv'
<1> USE BoundsAssumption DEF RInv
<1> DEFINE o == position + 1
<1>1. /\ phase[p] = "polling" /\ owner = p /\ current[p] = 0
      /\ position' = o /\ o \in 1..Len(log) /\ o \in Offset
      /\ log[o] \in Kinds
      /\ UNCHANGED <<log, owner, stopping, deaf, outcomes, budget, disturbances>>
  BY DEF Poll, HasMessage, TypeOK, Working, Offset
<1>2. /\ phase' = [phase EXCEPT ![p] = Receipt(log[o])]
      /\ current' = [current EXCEPT ![p] = IF log[o] = "other" THEN 0 ELSE o]
      /\ taken' = [taken EXCEPT ![o] = IF log[o] \in {"task", "last"} THEN @ + 1 ELSE @]
  BY DEF Poll
<1>3. /\ Receipt(log[o]) \in {"polling", "rejecting", "running"}
      /\ Receipt(log[o]) = "polling" <=> log[o] = "other"
  BY <1>1 DEF Receipt, Kinds
<1>4. TypeOK'
  BY <1>1, <1>2, <1>3 DEF TypeOK, Busy, outcomes, budget
<1>5. Working'
  BY <1>1, <1>2, <1>3 DEF Working, Busy, TypeOK
<1>6. NothingSkipped'
  <2> SUFFICES ASSUME owner # NoPod, NEW q \in 1..o
               PROVE  log[q] = "other" \/ Settled(q) \/ current'[p] = q
    BY <1>1 DEF NothingSkipped, Settled, outcomes
  <2>1. CASE q = o
    BY <1>1, <1>2, <2>1 DEF TypeOK
  <2>2. CASE q # o
    <3>1. q \in 1..position /\ q # 0
      BY <1>1, <2>2 DEF TypeOK
    <3>2. QED
      BY <1>1, <3>1 DEF NothingSkipped
  <2>3. QED
    BY <2>1, <2>2
<1>7. Executions'
  <2> SUFFICES ASSUME NEW q \in Offset
               PROVE  taken'[q] <= disturbances + (IF owner # NoPod /\ q <= o THEN 1 ELSE 0)
    BY <1>1 DEF Executions
  <2>1. /\ taken[q] <= disturbances + (IF owner # NoPod /\ q <= position THEN 1 ELSE 0)
        /\ taken[q] \in Nat /\ disturbances \in Nat /\ owner # NoPod
    BY <1>1, AgentAssumption DEF Executions, TypeOK, Agent
  <2>2. position \in Nat /\ q \in Nat
    BY DEF TypeOK, Offset
  <2>3. CASE q = o
    <3>1. taken'[q] <= taken[q] + 1
      BY <1>1, <1>2, <2>1, <2>3 DEF TypeOK
    <3>2. taken'[q] \in Nat
      BY <1>4 DEF TypeOK
    <3>3. ~(q <= position)
      BY <2>2, <2>3
    <3>4. QED
      BY <2>1, <2>2, <2>3, <3>1, <3>2, <3>3
  <2>4. CASE q # o
    <3>1. taken'[q] = taken[q]
      BY <1>2, <2>4 DEF TypeOK
    <3>2. QED
      BY <2>1, <2>2, <2>4, <3>1
  <2>5. QED
    BY <2>3, <2>4
<1>8. Spending'
  BY <1>1, SpendingUndisturbed DEF budget
<1>9. QED
  BY <1>4, <1>5, <1>6, <1>7, <1>8

\* The agent's run, and the publication of its outcome: the message in hand is
\* settled before the pod lets go of it.
LEMMA WorkKeepsRInv ==
  ASSUME RInv, NEW p \in Pod,
         \/ AgentReturns(p) \/ AgentRaises(p) \/ Unserialisable(p)
         \/ Report(p) \/ ReportLost(p) \/ Start(p)
  PROVE  RInv'
<1> USE DEF RInv
<1>1. UNCHANGED <<partition, taken, budget, disturbances>> /\ deaf' \subseteq Pod
  BY DEF AgentReturns, AgentRaises, AgentEnds, Unserialisable, Report, ReportLost, Done, Start, MakeConsumer, TypeOK
<1>2. Executions' /\ Spending'
  BY <1>1, SpendingUndisturbed DEF Executions, partition, budget
<1>3. CASE AgentReturns(p) \/ AgentRaises(p) \/ Unserialisable(p) \/ Start(p)
  <2>1. UNCHANGED <<current, stopping, outcomes>>
    BY <1>3 DEF AgentReturns, AgentRaises, AgentEnds, Unserialisable, Start
  <2>2. PICK next \in {"completed", "failed", "polling"} :
          /\ phase' = [phase EXCEPT ![p] = next]
          /\ IF next = "polling" THEN phase[p] = "down" ELSE phase[p] \in {"running", "completed"}
    BY <1>3 DEF AgentReturns, AgentRaises, AgentEnds, Unserialisable, Start
  <2>3. TypeOK'
    BY <1>1, <2>1, <2>2 DEF TypeOK, partition, budget, outcomes, Busy
  <2>4. Working'
    BY <2>1, <2>2 DEF Working, Busy, TypeOK
  <2>5. NothingSkipped'
    BY <1>1, <2>1 DEF NothingSkipped, Settled, partition, outcomes
  <2>6. QED
    BY <1>2, <2>3, <2>4, <2>5
<1>4. CASE Report(p) \/ ReportLost(p)
  <2>1. /\ phase[p] \in {"completed", "failed", "rejecting"}
        /\ phase' = [phase EXCEPT ![p] = IF p \in stopping THEN "down" ELSE "polling"]
        /\ current' = [current EXCEPT ![p] = 0]
        /\ stopping' = stopping \ {p}
    BY <1>4 DEF Report, ReportLost, Done
  <2>2. current[p] \in Offset
    <3>1. current[p] \in 0..Len(log) /\ Len(log) \in Nat /\ Len(log) <= MaxMessages
      BY BoundsAssumption DEF TypeOK
    <3>2. current[p] # 0
      BY <2>1 DEF Working, Busy
    <3>3. QED
      BY <3>1, <3>2, BoundsAssumption DEF Offset
  <2>3. /\ results \subseteq results' /\ results' \subseteq Offset \X {"completed", "failed"}
        /\ deadLetters \subseteq deadLetters' /\ deadLetters' \subseteq Offset
        /\ unpublished \subseteq unpublished' /\ unpublished' \subseteq Offset
    BY <1>4, <2>1, <2>2 DEF Report, ReportLost, ToDeadLetters, TypeOK
  <2>4. ASSUME NEW o, current[p] = o PROVE Settled(o)'
    <3>1. CASE ReportLost(p)
      BY <2>4, <3>1 DEF ReportLost, Settled
    <3>2. CASE Report(p) /\ ToDeadLetters(p)
      BY <2>4, <3>2 DEF Report, Settled
    <3>3. CASE Report(p) /\ ~ToDeadLetters(p)
      <4>1. phase[p] \in {"completed", "failed"} /\ <<o, phase[p]>> \in results'
        BY <2>4, <3>3 DEF Report, ToDeadLetters
      <4>2. QED
        BY <4>1 DEF Settled
    <3>4. QED
      BY <1>4, <3>1, <3>2, <3>3
  <2>5. TypeOK'
    BY <1>1, <2>1, <2>3 DEF TypeOK, partition, budget, Busy
  <2>6. Working'
    BY <2>1 DEF Working, Busy, TypeOK
  <2>7. NothingSkipped'
    <3> SUFFICES ASSUME owner # NoPod, NEW o \in 1..position, log[o] # "other"
                 PROVE  Settled(o)' \/ current'[owner] = o
      BY <1>1 DEF NothingSkipped, partition
    <3>1. Settled(o) \/ current[owner] = o
      BY DEF NothingSkipped
    <3>2. CASE Settled(o)
      BY <2>3, <3>2 DEF Settled
    <3>3. CASE current[owner] = o
      <4>1. CASE owner = p
        BY <2>4, <3>3, <4>1
      <4>2. CASE owner # p
        BY <2>1, <3>3, <4>2 DEF TypeOK
      <4>3. QED
        BY <4>1, <4>2
    <3>4. QED
      BY <3>1, <3>2, <3>3
  <2>8. QED
    BY <1>2, <2>5, <2>6, <2>7
<1>5. QED
  BY <1>3, <1>4

\* The pods that end release the partition, and what they had not settled is
\* polled again in the next assignment, which this disturbance pays for.
LEMMA EndKeepsRInv ==
  ASSUME RInv, NEW p \in Pod, Shutdown(p) \/ Crash(p)
  PROVE  RInv'
<1> USE BoundsAssumption DEF RInv
<1>1. /\ owner' = IF owner = p THEN NoPod ELSE owner
      /\ disturbances' = disturbances + 1 /\ disturbances' \in 0..MaxDisturbances
      /\ UNCHANGED <<log, position, taken, deaf, outcomes, used, ungated>>
      /\ calling' \subseteq calling
  BY DEF Shutdown, Crash, Leave, Disturb, TypeOK, budget
<1>2. TypeOK'
  <2>1. phase' \in [Pod -> Busy \union {"polling", "down"}]
    BY DEF Shutdown, Crash, TypeOK
  <2>2. current' \in [Pod -> 0..Len(log)] /\ stopping' \subseteq Pod
    BY DEF Shutdown, Crash, TypeOK
  <2>3. QED
    BY <1>1, <2>1, <2>2 DEF TypeOK, outcomes
<1>3. Working'
  BY DEF Working, Shutdown, Crash, TypeOK, Busy
<1>4. \A q \in Pod \ {p} : current'[q] = current[q]
  BY DEF Shutdown, Crash, TypeOK
<1>5. NothingSkipped'
  <2> SUFFICES ASSUME owner' # NoPod, NEW o \in 1..position
               PROVE  log[o] = "other" \/ Settled(o) \/ current'[owner'] = o
    BY <1>1 DEF NothingSkipped, Settled, outcomes
  <2>1. owner' = owner /\ owner \in Pod \ {p}
    BY <1>1 DEF TypeOK
  <2>2. QED
    BY <1>4, <2>1 DEF NothingSkipped
<1>6. Executions'
  <2> SUFFICES ASSUME NEW o \in Offset
               PROVE  taken[o] <= disturbances + 1
    BY <1>1, SMTT(30) DEF Executions, TypeOK, Offset
  <2>1. taken[o] <= disturbances + (IF owner # NoPod /\ o <= position THEN 1 ELSE 0)
    BY DEF Executions
  <2>2. taken[o] \in Nat /\ disturbances \in Nat
    BY DEF TypeOK
  <2>3. QED
    BY <2>1, <2>2
<1>7. Spending'
  BY <1>1, SpendingUndisturbed
<1>8. QED
  BY <1>2, <1>3, <1>5, <1>6, <1>7

LEMMA StutterKeepsRInv ==
  ASSUME RInv, UNCHANGED vars
  PROVE  RInv'
BY DEF RInv, TypeOK, Working, NothingSkipped, Settled, Executions, Spending,
       vars, partition, pods, working, outcomes, budget

-------------------------------------------------------------------------------

LEMMA RInvInvariant == Spec => []RInv
<1>1. ASSUME RInv, [Next]_vars PROVE RInv'
  <2>1. ASSUME NEW kind \in Kinds, Dispatch(kind) PROVE RInv'
    BY <1>1, <2>1, DispatchKeepsRInv
  <2>2. ASSUME NEW p \in Pod, Join(p) \/ Rebalance(p) PROVE RInv'
    BY <1>1, <2>2, AssignKeepsRInv
  <2>3. ASSUME NEW p \in Pod, Poll(p) PROVE RInv'
    BY <1>1, <2>3, PollKeepsRInv
  <2>4. ASSUME NEW p \in Pod,
               \/ AgentReturns(p) \/ AgentRaises(p) \/ Unserialisable(p)
               \/ Report(p) \/ ReportLost(p) \/ Start(p)
        PROVE RInv'
    BY <1>1, <2>4, WorkKeepsRInv
  <2>5. ASSUME NEW p \in Pod, Shutdown(p) \/ Crash(p) PROVE RInv'
    BY <1>1, <2>5, EndKeepsRInv
  <2>6. ASSUME NEW a \in Agent,
               PassGate(a) \/ BypassGate(a) \/ CallCounted(a) \/ CallUncounted(a)
        PROVE RInv'
    BY <1>1, <2>6, CallKeepsRInv
  <2>7. CASE UNCHANGED vars
    BY <1>1, <2>7, StutterKeepsRInv
  <2>8. QED
    BY <1>1, <2>1, <2>2, <2>3, <2>4, <2>5, <2>6, <2>7 DEF Next
<1>2. QED
  BY InitRInv, <1>1, PTL DEF Spec

\* The types hold in every reachable state.
THEOREM TypeCorrect == Spec => []TypeOK
BY RInvInvariant, PTL DEF RInv

\* No message is lost between being polled and being reported, whatever pods
\* crash, stop or lose the partition: every message behind the consumer is
\* settled or in its owner's hands.
THEOREM NothingSkippedHolds == Spec => []NothingSkipped
BY RInvInvariant, PTL DEF RInv

\* A task is executed at most once more for each crash, shutdown or rebalance.
THEOREM ExecutionsBoundedHolds == Spec => []ExecutionsBounded
<1>1. RInv => ExecutionsBounded
  <2> SUFFICES ASSUME RInv, NEW o \in Offset PROVE taken[o] <= 1 + disturbances
    BY DEF ExecutionsBounded
  <2>1. taken[o] <= disturbances + (IF owner # NoPod /\ o <= position THEN 1 ELSE 0)
    BY DEF RInv, Executions
  <2>2. taken[o] \in Nat /\ disturbances \in Nat
    BY BoundsAssumption DEF RInv, TypeOK
  <2>3. QED
    BY <2>1, <2>2
<1>2. QED
  BY RInvInvariant, <1>1, PTL

\* The budget is exceeded by at most one call of each agent, less the one that
\* passes rightly, and by the calls made while the gate was bypassed.
THEOREM OvershootBoundedHolds == Spec => []OvershootBounded
<1>1. RInv => OvershootBounded
  <2> SUFFICES ASSUME RInv PROVE OvershootBounded
    OBVIOUS
  <2>1. Cardinality(calling) \in Nat /\ used \in Nat /\ ungated \in Nat
    BY CallingFinite, BoundsAssumption DEF RInv, TypeOK
  <2>2. QED
    BY <2>1, AgentFinite, BoundsAssumption DEF RInv, Spending, OvershootBounded
<1>2. QED
  BY RInvInvariant, <1>1, PTL

-------------------------------------------------------------------------------
(***************************************************************************)
(* The model calls of the planning phases.                                 *)
(***************************************************************************)

\* A non-empty set of naturals has a least element.
LEMMA LeastExists ==
  ASSUME NEW S \in SUBSET Nat, S # {}
  PROVE  Min(S) \in S
<1> DEFINE less == OpToRel(<, Nat)
<1>1. IsWellFoundedOn(less, Nat)
  BY NatLessThanWellFounded
<1>2. \A x, y \in Nat : y < x => <<y, x>> \in less
  BY DEF OpToRel
<1> HIDE DEF less
<1>3. PICK x \in S : \A y \in S : <<y, x>> \notin less
  BY <1>1, WFMin
<1>4. \A y \in S : ~(y < x)
  BY <1>2, <1>3
<1>5. \A y \in S : x <= y
  BY <1>4
<1>6. QED
  BY <1>5 DEF Min

LEMMA Concatenated ==
  ASSUME NEW S, NEW a \in Seq(S), NEW b \in Seq(S)
  PROVE  /\ a \o b \in Seq(S) /\ Len(a \o b) = Len(a) + Len(b)
         /\ \A i \in 1..Len(a) : (a \o b)[i] = a[i]
         /\ \A i \in Len(a) + 1..Len(a) + Len(b) : (a \o b)[i] = b[i - Len(a)]
OBVIOUS

\* What is left of a sequence when one occurrence of e is removed.
LEMMA RemovedFirst ==
  ASSUME NEW S, NEW q \in Seq(S), NEW e
  PROVE  /\ RemoveFirst(q, e) \in Seq(S)
         /\ ToSet(q) \ {e} \subseteq ToSet(RemoveFirst(q, e))
<1>1. CASE ~\E i \in 1..Len(q) : q[i] = e
  BY <1>1 DEF RemoveFirst
<1>2. CASE \E i \in 1..Len(q) : q[i] = e
  <2> DEFINE places == {i \in 1..Len(q) : q[i] = e}
             at == Min(places)
             front == SubSeq(q, 1, at - 1)
             back == SubSeq(q, at + 1, Len(q))
  <2>1. at \in places
    <3>1. places \in SUBSET Nat /\ places # {}
      BY <1>2
    <3> HIDE DEF places
    <3>2. QED
      BY <3>1, LeastExists
  <2>2. at \in 1..Len(q) /\ q[at] = e
    BY <2>1
  <2>3. RemoveFirst(q, e) = front \o back
    BY <1>2 DEF RemoveFirst, RemoveAt, SelectInSeq
  <2> HIDE DEF at
  <2>4. /\ front \in Seq(S) /\ Len(front) = at - 1 /\ \A i \in 1..at - 1 : front[i] = q[i]
        /\ back \in Seq(S) /\ Len(back) = Len(q) - at
        /\ \A i \in 1..Len(q) - at : back[i] = q[at + i]
    BY <2>2
  <2> HIDE DEF front, back
  <2>5. /\ front \o back \in Seq(S) /\ Len(front \o back) = Len(q) - 1
        /\ \A i \in 1..at - 1 : (front \o back)[i] = q[i]
        /\ \A i \in at..Len(q) - 1 : (front \o back)[i] = q[i + 1]
    <3>1. front \in Seq(S) /\ back \in Seq(S) /\ Len(front) = at - 1 /\ Len(back) = Len(q) - at
      BY <2>4
    <3>2. /\ front \o back \in Seq(S) /\ Len(front \o back) = Len(front) + Len(back)
          /\ \A i \in 1..Len(front) : (front \o back)[i] = front[i]
          /\ \A i \in Len(front) + 1..Len(front) + Len(back) :
               (front \o back)[i] = back[i - Len(front)]
      BY <3>1, Concatenated
    <3>3. \A i \in at..Len(q) - 1 : (front \o back)[i] = q[i + 1]
      <4>1. TAKE i \in at..Len(q) - 1
      <4>2. /\ i \in Len(front) + 1..Len(front) + Len(back) /\ i - Len(front) = i - (at - 1)
            /\ i - (at - 1) \in 1..Len(q) - at /\ at + (i - (at - 1)) = i + 1
        BY <2>2, <3>1
      <4>3. (front \o back)[i] = back[i - (at - 1)]
        BY <3>2, <4>2
      <4>4. back[i - (at - 1)] = q[at + (i - (at - 1))]
        BY <2>4, <4>2
      <4>5. QED
        BY <4>2, <4>3, <4>4
    <3>4. front \o back \in Seq(S) /\ Len(front \o back) = Len(q) - 1
      BY <2>2, <3>1, <3>2
    <3>5. \A i \in 1..at - 1 : (front \o back)[i] = front[i]
      BY <3>1, <3>2
    <3>6. QED
      BY <2>4, <3>3, <3>4, <3>5
  <2>6. ASSUME NEW i \in 1..Len(q), q[i] # e PROVE q[i] \in ToSet(front \o back)
    <3>1. CASE i < at
      <4>1. i \in DOMAIN (front \o back) /\ (front \o back)[i] = q[i]
        BY <2>2, <2>5, <3>1, SMTT(30)
      <4>2. QED
        BY <4>1 DEF ToSet
    <3>2. CASE i > at
      <4>1. i - 1 \in at..Len(q) - 1 /\ i - 1 + 1 = i
        BY <2>2, <3>2
      <4>2. (front \o back)[i - 1] = q[i]
        BY <2>5, <4>1
      <4>3. i - 1 \in DOMAIN (front \o back)
        BY <2>2, <2>5, <4>1
      <4>4. QED
        BY <4>2, <4>3 DEF ToSet
    <3>3. QED
      BY <2>2, <2>6, <3>1, <3>2
  <2>7. QED
    BY <2>3, <2>5, <2>6 DEF ToSet
<1>3. QED
  BY <1>1, <1>2

LEMMA AppendedSet ==
  ASSUME NEW S, NEW q \in Seq(S), NEW e \in S
  PROVE  Append(q, e) \in Seq(S) /\ ToSet(Append(q, e)) = ToSet(q) \union {e}
<1>1. /\ Append(q, e) \in Seq(S) /\ DOMAIN Append(q, e) = 1..Len(q) + 1
      /\ \A i \in 1..Len(q) : Append(q, e)[i] = q[i]
      /\ Append(q, e)[Len(q) + 1] = e
  OBVIOUS
<1>2. QED
  BY <1>1 DEF ToSet

LEMMA TailSet ==
  ASSUME NEW S, NEW q \in Seq(S), q # <<>>
  PROVE  /\ Head(q) \in S /\ Tail(q) \in Seq(S)
         /\ ToSet(q) = ToSet(Tail(q)) \union {Head(q)}
<1>1. /\ Head(q) = q[1] /\ q[1] \in S /\ Tail(q) \in Seq(S) /\ Len(q) \in Nat \ {0}
      /\ Len(Tail(q)) = Len(q) - 1
      /\ \A i \in 1..Len(q) - 1 : Tail(q)[i] = q[i + 1]
  OBVIOUS
<1>2. ASSUME NEW i \in 1..Len(q) PROVE q[i] \in ToSet(Tail(q)) \union {Head(q)}
  <2>1. CASE i = 1
    BY <1>1, <2>1
  <2>2. CASE i # 1
    <3>1. i - 1 \in DOMAIN Tail(q) /\ Tail(q)[i - 1] = q[i]
      BY <1>1, <2>2
    <3>2. QED
      BY <3>1 DEF ToSet
  <2>3. QED
    BY <2>1, <2>2
<1>3. ToSet(Tail(q)) \subseteq ToSet(q)
  BY <1>1 DEF ToSet
<1>4. QED
  BY <1>1, <1>2, <1>3 DEF ToSet

-------------------------------------------------------------------------------

\* The types of the variables; only so many jobs are in a thread.
VarTypes ==
  /\ stage \in [Project -> Stage \union {"planned"}]
  /\ pc \in [Project -> {"idle", "gate", "backoff", "answered", "raised"} \union Waiting]
  /\ attempt \in [Project -> 0..MaxAttempts]
  /\ answer \in [Project -> [of : Stage, kind : Kind] \union {NoAnswer}]
  /\ draft \in [Project -> {"unusable", "object", Nothing}]
  /\ plan \in [Project -> {"unusable", "object", Nothing}]
  /\ design \in [Project -> {"unusable", "object", Nothing}]
  /\ cache \in [Stage -> SUBSET Kind]
  /\ queue \in Seq(Job)
  /\ running \subseteq Job
  /\ hung \subseteq running

Threads == IsFiniteSet(running) /\ Cardinality(running) <= Workers

\* Where one project is.  Its call has begun while it is being planned; a call that
\* waits has its job in the pool; another attempt is made only while one is left; an
\* answer in hand is for the stage it is at; a critique has something to be about;
\* and what has got to memory can be read.
Sound(p) ==
  /\ pc[p] # "idle" => stage[p] # "planned"
  /\ pc[p] = "idle" => attempt[p] = 0
  /\ pc[p] \in Waiting => Awaited(p) \in ToSet(queue) \union running
  /\ pc[p] = "backoff" => attempt[p] < MaxAttempts
  /\ pc[p] \in {"storing", "answered"} => answer[p].of = stage[p]
  /\ stage[p] = "plan critique" => draft[p] # Nothing
  /\ stage[p] = "design critique" => draft[p] = "object"
  /\ stage[p] \notin {"plan", "plan critique"} => plan[p] = "object"
  /\ stage[p] = "planned" => design[p] = "object"

CInv == VarTypes /\ Threads /\ \A p \in Project : Sound(p)

LEMMA CInvImplies == CInv => CallsTypeOK /\ PlanUsable
  BY DEF CInv, VarTypes, Threads, Sound, CallsTypeOK, PlanUsable

LEMMA CInit == CallsInit => CInv
<1> SUFFICES ASSUME CallsInit PROVE CInv
  OBVIOUS
<1>1. Threads
  BY FS_EmptySet, CallsAssumption DEF CallsInit, Threads
<1>2. queue \in Seq(Job) /\ cache \in [Stage -> SUBSET Kind]
  BY DEF CallsInit
<1>3. attempt \in [Project -> 0..MaxAttempts]
  BY CallsAssumption DEF CallsInit
<1>4. VarTypes
  BY <1>2, <1>3 DEF CallsInit, VarTypes, Stage
<1>5. QED
  BY <1>1, <1>4 DEF CallsInit, CInv, Sound, Waiting

\* What a step of one project, or of one of its jobs, leaves of the others.
LEMMA OthersSound ==
  ASSUME VarTypes, \A q \in Project : Sound(q), NEW p \in Project,
         \A q \in Project \ {p} :
           /\ stage'[q] = stage[q] /\ pc'[q] = pc[q] /\ attempt'[q] = attempt[q]
           /\ answer'[q] = answer[q] /\ draft'[q] = draft[q]
           /\ plan'[q] = plan[q] /\ design'[q] = design[q],
         \A j \in ToSet(queue) \union running : j.by # p => j \in ToSet(queue') \union running',
         Sound(p)'
  PROVE  \A q \in Project : Sound(q)'
<1> SUFFICES ASSUME NEW q \in Project, q # p PROVE Sound(q)'
  OBVIOUS
<1>1. Awaited(q)' = Awaited(q)
  BY DEF Awaited, Doing
<1>2. Awaited(q).by # p
  BY DEF Awaited
<1>3. Sound(q)
  OBVIOUS
<1>4. QED
  BY <1>1, <1>2, <1>3, ZenonT(30) DEF Sound

\* A job is submitted to the end of the queue.
LEMMA Submitted ==
  ASSUME VarTypes, NEW p \in Project, stage[p] # "planned",
         NEW what \in {"lookup", "ask", "store"}, NEW n \in 0..MaxAttempts, Submit(p, what, n)
  PROVE  /\ queue' \in Seq(Job)
         /\ ToSet(queue') = ToSet(queue) \union {[by |-> p, for |-> stage[p], what |-> what, n |-> n]}
<1>1. [by |-> p, for |-> stage[p], what |-> what, n |-> n] \in Job
  BY DEF Job, VarTypes
<1>2. queue \in Seq(Job)
  BY DEF VarTypes
<1>3. QED
  BY <1>1, <1>2, AppendedSet DEF Submit

LEMMA CallsKeepCInv ==
  ASSUME CInv, NEW p \in Project, Calls(p)
  PROVE  CInv'
<1>0. VarTypes /\ Threads /\ Sound(p) /\ 0 \in 0..MaxAttempts /\ 1 \in 0..MaxAttempts
  BY CallsAssumption DEF CInv
<1>1. ASSUME VarTypes', Sound(p)', UNCHANGED <<stage, memory, cache, running, hung>>,
             \A q \in Project \ {p} : pc'[q] = pc[q] /\ attempt'[q] = attempt[q] /\ answer'[q] = answer[q],
             \A j \in ToSet(queue) : j.by # p => j \in ToSet(queue')
      PROVE  CInv'
  <2>1. Threads'
    BY <1>0, <1>1 DEF Threads
  <2>2. \A q \in Project : Sound(q)'
    BY <1>1, OthersSound DEF CInv, memory
  <2>3. QED
    BY <1>1, <2>1, <2>2 DEF CInv
<1>2. CASE BeginCall(p)
  <2>0. stage[p] # "planned"
    BY <1>2 DEF BeginCall
  <2>1. CASE Submit(p, "lookup", 0) /\ Goto(p, "looking")
    <3>1. /\ queue' \in Seq(Job)
          /\ ToSet(queue') = ToSet(queue) \union {[by |-> p, for |-> stage[p], what |-> "lookup", n |-> 0]}
      BY <1>0, <2>0, <2>1, Submitted
    <3>2. VarTypes'
      BY <1>0, <1>2, <2>1, <3>1 DEF BeginCall, Goto, VarTypes, memory, Waiting
    <3>3. Awaited(p)' = [by |-> p, for |-> stage[p], what |-> "lookup", n |-> 0]
      BY <1>0, <1>2, <2>1 DEF BeginCall, Goto, Sound, VarTypes, Awaited, Doing
    <3>4. Sound(p)'
      BY <1>0, <1>2, <2>1, <3>1, <3>3 DEF BeginCall, Goto, Sound, VarTypes, memory
    <3>5. QED
      BY <1>0, <1>1, <1>2, <2>1, <3>1, <3>2, <3>4 DEF BeginCall, Goto, VarTypes
  <2>2. CASE Goto(p, "gate") /\ UNCHANGED queue
    <3>1. VarTypes' /\ Sound(p)'
      BY <1>0, <1>2, <2>2 DEF BeginCall, Goto, Sound, VarTypes, memory, Waiting
    <3>2. QED
      BY <1>0, <1>1, <1>2, <2>2, <3>1 DEF BeginCall, Goto, VarTypes
  <2>3. QED
    BY <1>2, <2>1, <2>2 DEF BeginCall
<1>3. CASE Gate(p)
  <2>0. stage[p] # "planned"
    BY <1>0, <1>3 DEF Gate, Sound
  <2>1. CASE Submit(p, "ask", 1) /\ attempt' = [attempt EXCEPT ![p] = 1] /\ Goto(p, "asking")
    <3>1. /\ queue' \in Seq(Job)
          /\ ToSet(queue') = ToSet(queue) \union {[by |-> p, for |-> stage[p], what |-> "ask", n |-> 1]}
      BY <1>0, <2>0, <2>1, Submitted
    <3>2. VarTypes'
      BY <1>0, <1>3, <2>1, <3>1 DEF Gate, Goto, VarTypes, memory, Waiting
    <3>3. Awaited(p)' = [by |-> p, for |-> stage[p], what |-> "ask", n |-> 1]
      BY <1>0, <1>3, <2>1 DEF Gate, Goto, VarTypes, Awaited, Doing
    <3>4. Sound(p)'
      BY <1>0, <1>3, <2>1, <3>1, <3>3 DEF Gate, Goto, Sound, VarTypes, memory
    <3>5. QED
      BY <1>0, <1>1, <1>3, <2>1, <3>1, <3>2, <3>4 DEF Gate, Goto, VarTypes
  <2>2. CASE Goto(p, "raised") /\ UNCHANGED <<attempt, queue>>
    <3>1. VarTypes' /\ Sound(p)'
      BY <1>0, <1>3, <2>2 DEF Gate, Goto, Sound, VarTypes, memory, Waiting
    <3>2. QED
      BY <1>0, <1>1, <1>3, <2>2, <3>1 DEF Gate, Goto, VarTypes
  <2>3. QED
    BY <1>3, <2>1, <2>2 DEF Gate
<1>4. CASE TimesOut(p)
  <2>1. queue' \in Seq(Job) /\ ToSet(queue) \ {Awaited(p)} \subseteq ToSet(queue')
    BY <1>0, <1>4, RemovedFirst DEF TimesOut, VarTypes
  <2>2. \A j \in ToSet(queue) : j.by # p => j \in ToSet(queue')
    BY <2>1 DEF Awaited
  <2>3. /\ pc'[p] \in {"backoff", "raised"}
        /\ pc' \in [Project -> {"idle", "gate", "backoff", "answered", "raised"} \union Waiting]
        /\ attempt' \in [Project -> 0..MaxAttempts]
        /\ pc'[p] = "backoff" => attempt'[p] < MaxAttempts
        /\ \A q \in Project \ {p} : pc'[q] = pc[q] /\ attempt'[q] = attempt[q]
    BY <1>0, <1>4 DEF TimesOut, AttemptFails, Goto, VarTypes
  <2>4. VarTypes' /\ Sound(p)'
    BY <1>0, <1>4, <2>1, <2>3 DEF TimesOut, VarTypes, Sound, memory, Waiting
  <2>5. QED
    BY <1>1, <1>4, <2>2, <2>3, <2>4 DEF TimesOut
<1>5. CASE Retry(p)
  <2>1. stage[p] # "planned" /\ attempt[p] + 1 \in 0..MaxAttempts
    <3>1. stage[p] # "planned" /\ attempt[p] < MaxAttempts /\ attempt[p] \in 0..MaxAttempts
      BY <1>0, <1>5 DEF Retry, Sound, VarTypes
    <3>2. QED
      BY <3>1, CallsAssumption
  <2>2. /\ queue' \in Seq(Job)
        /\ ToSet(queue') = ToSet(queue) \union {[by |-> p, for |-> stage[p], what |-> "ask", n |-> attempt[p] + 1]}
    BY <1>0, <1>5, <2>1, Submitted DEF Retry
  <2>3. VarTypes'
    BY <1>0, <1>5, <2>1, <2>2 DEF Retry, Goto, VarTypes, memory, Waiting
  <2>4. Awaited(p)' = [by |-> p, for |-> stage[p], what |-> "ask", n |-> attempt[p] + 1]
    BY <1>0, <1>5 DEF Retry, Goto, VarTypes, Awaited, Doing
  <2>5. Sound(p)'
    BY <1>0, <1>5, <2>2, <2>4 DEF Retry, Goto, Sound, VarTypes, memory
  <2>6. QED
    BY <1>0, <1>1, <1>5, <2>2, <2>3, <2>5 DEF Retry, Goto, VarTypes
<1>6. QED
  BY <1>2, <1>3, <1>4, <1>5 DEF Calls

\* An agent takes its call's answer, or does without, and its project goes on.
LEMMA AgentsKeepCInv ==
  ASSUME CInv, NEW p \in Project, Agents(p)
  PROVE  CInv'
<1>0. VarTypes /\ Threads /\ Sound(p) /\ 0 \in 0..MaxAttempts
  BY CallsAssumption DEF CInv
<1>1. PICK s \in Stage \union {"planned"} : Proceed(p, s)
  BY DEF Agents, PlanDrafted, PlanRaised, PlanCriticised, DesignDrafted, DesignRaised,
         DesignCriticised, Stage
<1>2. /\ draft' \in [Project -> {"unusable", "object", Nothing}]
      /\ plan' \in [Project -> {"unusable", "object", Nothing}]
      /\ design' \in [Project -> {"unusable", "object", Nothing}]
      /\ \A q \in Project \ {p} : draft'[q] = draft[q] /\ plan'[q] = plan[q] /\ design'[q] = design[q]
      /\ stage'[p] = "plan critique" => draft'[p] # Nothing
      /\ stage'[p] = "design critique" => draft'[p] = "object"
      /\ stage'[p] \notin {"plan", "plan critique"} => plan'[p] = "object"
      /\ stage'[p] = "planned" => design'[p] = "object"
  <2>1. Drafts(p) => answer[p].kind \in {"text", "unusable", "object"}
    <3>1. ASSUME Drafts(p) PROVE answer[p] \in [of : Stage, kind : Kind]
      <4>1. answer[p].of # "planned" /\ answer[p] \in [of : Stage, kind : Kind] \union {NoAnswer}
        BY <1>0, <3>1 DEF Drafts, Sound, VarTypes
      <4>2. NoAnswer.of = "planned"
        BY DEF NoAnswer
      <4>3. QED
        BY <4>1, <4>2
    <3>2. QED
      BY <3>1 DEF Drafts, Kind
  <2> USE <1>0 DEF VarTypes, Sound, Proceed
  <2>2. CASE PlanDrafted(p)
    BY <2>1, <2>2 DEF PlanDrafted, ParsedPlan, PlanTemplate, Nothing
  <2>3. CASE PlanRaised(p)
    BY <2>3 DEF PlanRaised, EnginePlan
  <2>4. CASE PlanCriticised(p)
    BY <2>4 DEF PlanCriticised, Annotates, EnginePlan
  <2>5. CASE DesignDrafted(p)
    <3>1. ParsedDesign(answer[p].kind) \in {"unusable", "object"} /\ plan[p] = "object"
      BY <2>1, <2>5 DEF DesignDrafted, ParsedDesign, ArchitectureTemplate
    <3>2. CASE Costed(ParsedDesign(answer[p].kind))
      <4>1. /\ stage[p] = "design" /\ UNCHANGED <<plan, design>>
            /\ draft' = [draft EXCEPT ![p] = ParsedDesign(answer[p].kind)]
            /\ stage' = [stage EXCEPT ![p] = "design critique"]
        BY <2>5, <3>2 DEF DesignDrafted
      <4>2. ParsedDesign(answer[p].kind) = "object"
        BY <3>2 DEF Costed
      <4>3. stage'[p] = "design critique" /\ draft'[p] = "object"
        BY <4>1, <4>2
      <4>4. draft' \in [Project -> {"unusable", "object", Nothing}]
        BY <4>1, <4>2
      <4>5. QED
        BY <3>1, <4>1, <4>3, <4>4
    <3>3. CASE ~Costed(ParsedDesign(answer[p].kind))
      BY <2>5, <3>1, <3>3 DEF DesignDrafted, EngineArchitecture
    <3>4. QED
      BY <3>2, <3>3
  <2>6. CASE DesignRaised(p)
    BY <2>6 DEF DesignRaised, EngineArchitecture
  <2>7. CASE DesignCriticised(p)
    BY <2>7 DEF DesignCriticised
  <2>8. QED
    BY <2>2, <2>3, <2>4, <2>5, <2>6, <2>7 DEF Agents
<1>3. VarTypes' /\ Sound(p)'
  BY <1>0, <1>1, <1>2 DEF Proceed, pool, VarTypes, Sound, Waiting
<1>4. Threads'
  BY <1>0, <1>1 DEF Proceed, pool, Threads
<1>5. \A q \in Project : Sound(q)'
  BY <1>0, <1>1, <1>2, <1>3, OthersSound DEF CInv, Proceed, pool, VarTypes
<1>6. QED
  BY <1>3, <1>4, <1>5 DEF CInv

LEMMA TakesKeepsCInv ==
  ASSUME CInv, ThreadTakes
  PROVE  CInv'
<1> DEFINE job == Head(queue)
<1>0. VarTypes /\ Threads /\ queue # <<>>
  BY DEF CInv, ThreadTakes
<1>1. /\ job \in Job /\ queue' \in Seq(Job)
      /\ ToSet(queue) = ToSet(queue') \union {job}
      /\ running' = running \union {job}
  BY <1>0, TailSet DEF ThreadTakes, VarTypes
<1>2. VarTypes'
  BY <1>0, <1>1 DEF ThreadTakes, VarTypes, call, memory
<1>3. Threads'
  <2>1. /\ IsFiniteSet(running \union {job})
        /\ Cardinality(running \union {job}) \in {Cardinality(running), Cardinality(running) + 1}
    BY <1>0, FS_AddElement DEF Threads
  <2>2. Cardinality(running) \in Nat /\ Cardinality(running) < Workers
    BY <1>0, FS_CardinalityType DEF Threads, ThreadTakes
  <2>3. QED
    BY <1>1, <2>1, <2>2, CallsAssumption DEF Threads
<1>4. ASSUME NEW q \in Project PROVE Sound(q)'
  <2>1. Awaited(q)' = Awaited(q)
    BY DEF ThreadTakes, call, Awaited, Doing
  <2>2. QED
    BY <1>1, <2>1 DEF CInv, Sound, ThreadTakes, call, memory
<1>5. QED
  BY <1>2, <1>3, <1>4 DEF CInv

LEMMA HangsKeepsCInv ==
  ASSUME CInv, NEW j \in running, ThreadHangs(j)
  PROVE  CInv'
<1>1. VarTypes' /\ Threads'
  BY DEF CInv, ThreadHangs, VarTypes, Threads, call, memory
<1>2. ASSUME NEW q \in Project PROVE Sound(q)'
  <2>1. Awaited(q)' = Awaited(q)
    BY DEF ThreadHangs, call, Awaited, Doing
  <2>2. QED
    BY <2>1 DEF CInv, Sound, ThreadHangs, call, memory
<1>3. QED
  BY <1>1, <1>2 DEF CInv

\* Only the job its project waits for is answered, so its answer is for the stage
\* the project is at.
LEMMA EndsKeepsCInv ==
  ASSUME CInv, NEW j \in running, ThreadEnds(j)
  PROVE  CInv'
<1> DEFINE p == j.by
<1>0. VarTypes /\ Threads /\ p \in Project /\ Sound(p) /\ 0 \in 0..MaxAttempts
  <2>1. VarTypes /\ Threads /\ j \in Job
    BY DEF CInv, VarTypes
  <2>2. QED
    BY <2>1, CallsAssumption DEF CInv, Job
<1> HIDE DEF p
<1>1. Threads'
  <2>1. /\ IsFiniteSet(running \ {j})
        /\ Cardinality(running \ {j}) = Cardinality(running) - 1
        /\ Cardinality(running) \in Nat
    BY <1>0, FS_RemoveElement, FS_CardinalityType DEF Threads
  <2>2. QED
    BY <1>0, <2>1, CallsAssumption DEF ThreadEnds, Threads
<1>2. CASE pc[p] \in Waiting /\ j = Awaited(p)
  <2>0. /\ stage[p] \in Stage /\ j.for = stage[p] /\ j.what = Doing(p)
        /\ running' = running \ {j} /\ hung \subseteq running' /\ UNCHANGED <<stage, memory, hung>>
    <3>1. stage[p] \in Stage
      BY <1>0, <1>2 DEF Sound, VarTypes, Waiting
    <3>2. QED
      BY <1>0, <1>2, <3>1 DEF ThreadEnds, Awaited, VarTypes
  <2>1. ASSUME VarTypes', Sound(p)',
               \A q \in Project \ {p} : pc'[q] = pc[q] /\ attempt'[q] = attempt[q] /\ answer'[q] = answer[q],
               ToSet(queue) \subseteq ToSet(queue')
        PROVE  CInv'
    <3>1. \A i \in ToSet(queue) \union running : i.by # p => i \in ToSet(queue') \union running'
      BY <2>0, <2>1 DEF p
    <3>2. \A q \in Project : Sound(q)'
      BY <1>0, <2>0, <2>1, <3>1, OthersSound DEF CInv, memory
    <3>3. QED
      BY <1>1, <2>1, <3>2 DEF CInv
  <2>2. CASE pc[p] = "looking"
    <3>1. Searched(p)
      BY <1>2, <2>0, <2>2 DEF ThreadEnds, Doing, p
    <3>2. /\ answer' \in [Project -> [of : Stage, kind : Kind] \union {NoAnswer}]
          /\ pc'[p] \in {"answered", "gate"}
          /\ pc'[p] = "answered" => answer'[p].of = stage[p]
      <4>1. CASE \E k \in cache[stage[p]] : Answers(p, stage[p], k) /\ Goto(p, "answered")
        <5>1. PICK k \in Kind : Answers(p, stage[p], k) /\ Goto(p, "answered")
          BY <1>0, <2>0, <4>1 DEF VarTypes
        <5>2. QED
          BY <1>0, <2>0, <5>1 DEF Answers, Goto, VarTypes
      <4>2. CASE Goto(p, "gate") /\ UNCHANGED answer
        BY <1>0, <4>2 DEF Goto, VarTypes
      <4>3. QED
        BY <3>1, <4>1, <4>2 DEF Searched
    <3>3. VarTypes'
      BY <1>0, <2>0, <3>1, <3>2 DEF Searched, Goto, VarTypes, memory
    <3>4. Sound(p)'
      BY <1>0, <2>0, <3>2 DEF Sound, Waiting, memory, Stage
    <3>5. QED
      BY <1>0, <2>1, <3>1, <3>3, <3>4 DEF Searched, Answers, Goto, VarTypes
  <2>3. CASE pc[p] = "storing"
    <3>1. Stored(p)
      BY <1>2, <2>0, <2>3 DEF ThreadEnds, Doing, p
    <3>2. answer[p] \in [of : Stage, kind : Kind]
      <4>1. answer[p].of = stage[p] /\ stage[p] # "planned"
        BY <1>0, <2>0, <2>3 DEF Sound, Stage
      <4>2. answer[p] # NoAnswer
        BY <4>1 DEF NoAnswer
      <4>3. QED
        BY <1>0, <4>2 DEF VarTypes
    <3>3. cache' \in [Stage -> SUBSET Kind]
      <4>1. answer[p].of \in Stage /\ answer[p].kind \in Kind
        BY <3>2
      <4>2. cache \in [Stage -> SUBSET Kind]
        BY <1>0 DEF VarTypes
      <4>3. CASE cache' = [cache EXCEPT ![answer[p].of] = @ \union {answer[p].kind}]
        BY <4>1, <4>2, <4>3
      <4>4. CASE UNCHANGED cache
        BY <4>2, <4>4
      <4>5. QED
        BY <3>1, <4>3, <4>4 DEF Stored
    <3>4. VarTypes'
      BY <1>0, <2>0, <3>1, <3>3 DEF Stored, Goto, VarTypes, memory
    <3>5. Sound(p)'
      BY <1>0, <2>0, <2>3, <3>1 DEF Stored, Goto, VarTypes, Sound, Waiting, memory
    <3>6. QED
      BY <1>0, <2>1, <3>1, <3>4, <3>5 DEF Stored, Goto, VarTypes
  <2>4. CASE pc[p] = "asking"
    <3>1. Asked(p, stage[p])
      BY <1>2, <2>0, <2>4 DEF ThreadEnds, Doing, p
    <3>2. CASE AttemptFails(p) /\ UNCHANGED <<answer, queue>>
      <4>1. /\ pc'[p] \in {"backoff", "raised"}
            /\ pc' \in [Project -> {"idle", "gate", "backoff", "answered", "raised"} \union Waiting]
            /\ attempt' \in [Project -> 0..MaxAttempts]
            /\ pc'[p] = "backoff" => attempt'[p] < MaxAttempts
            /\ \A q \in Project \ {p} : pc'[q] = pc[q] /\ attempt'[q] = attempt[q]
        BY <1>0, <3>2 DEF AttemptFails, Goto, VarTypes
      <4>2. VarTypes' /\ Sound(p)'
        BY <1>0, <2>0, <3>1, <3>2, <4>1 DEF Asked, VarTypes, Sound, memory, Waiting, Stage
      <4>3. QED
        BY <2>1, <3>2, <4>1, <4>2
    <3>3. CASE /\ \E k \in KindsOf(stage[p]) : Answers(p, stage[p], k)
               /\ attempt' = [attempt EXCEPT ![p] = 0]
      <4>1. /\ answer' \in [Project -> [of : Stage, kind : Kind] \union {NoAnswer}]
            /\ answer'[p].of = stage[p]
            /\ \A q \in Project \ {p} : answer'[q] = answer[q]
        BY <1>0, <2>0, <3>3 DEF Answers, KindsOf, Kind, VarTypes
      <4>2. attempt' \in [Project -> 0..MaxAttempts] /\ attempt'[p] = 0 /\ cache' = cache
        BY <1>0, <3>1, <3>3 DEF Asked, VarTypes
      <4>3. CASE Submit(p, "store", 0) /\ Goto(p, "storing")
        <5>1. /\ queue' \in Seq(Job)
              /\ ToSet(queue') = ToSet(queue) \union {[by |-> p, for |-> stage[p], what |-> "store", n |-> 0]}
          BY <1>0, <2>0, <4>3, Submitted DEF Stage
        <5>2. VarTypes'
          BY <1>0, <2>0, <4>1, <4>2, <4>3, <5>1 DEF Goto, VarTypes, memory, Waiting
        <5>3. Awaited(p)' = [by |-> p, for |-> stage[p], what |-> "store", n |-> 0]
          BY <1>0, <2>0, <4>2, <4>3 DEF Goto, VarTypes, Awaited, Doing
        <5>4. Sound(p)'
          BY <1>0, <2>0, <4>1, <4>2, <4>3, <5>1, <5>3 DEF Goto, VarTypes, Sound, memory, Stage
        <5>5. QED
          BY <1>0, <2>1, <3>3, <4>1, <4>3, <5>1, <5>2, <5>4 DEF Goto, VarTypes
      <4>4. CASE Goto(p, "answered") /\ UNCHANGED queue
        <5>1. VarTypes' /\ Sound(p)'
          BY <1>0, <2>0, <4>1, <4>2, <4>4 DEF Goto, VarTypes, Sound, memory, Waiting, Stage
        <5>2. QED
          BY <1>0, <2>1, <3>3, <4>1, <4>4, <5>1 DEF Goto, VarTypes
      <4>5. QED
        BY <3>1, <3>2, <4>3, <4>4 DEF Asked
    <3>4. QED
      BY <3>1, <3>2, <3>3 DEF Asked
  <2>5. QED
    BY <1>2, <2>2, <2>3, <2>4 DEF Waiting
<1>3. CASE ~(pc[p] \in Waiting /\ j = Awaited(p))
  <2>1. /\ UNCHANGED <<call, cache, queue, stage, memory, hung>>
        /\ running' = running \ {j} /\ hung \subseteq running'
    BY <1>0, <1>3 DEF ThreadEnds, VarTypes, p
  <2>2. VarTypes'
    BY <1>0, <2>1 DEF VarTypes, call, memory
  <2>3. Awaited(p)' = Awaited(p)
    BY <2>1 DEF Awaited, Doing, call
  <2>4. Sound(p)'
    BY <1>0, <1>3, <2>1, <2>3 DEF Sound, call, memory
  <2>5. \A q \in Project : Sound(q)'
    BY <1>0, <2>1, <2>4, OthersSound DEF CInv, call, memory, p
  <2>6. QED
    BY <1>1, <2>2, <2>5 DEF CInv
<1>4. QED
  BY <1>2, <1>3

LEMMA CInvariant == CallsSpec => []CInv
<1>1. CInv /\ [CallsNext]_callsVars => CInv'
  <2> SUFFICES ASSUME CInv, [CallsNext]_callsVars PROVE CInv'
    OBVIOUS
  <2>1. CASE UNCHANGED callsVars
    <3>1. \A q \in Project : Awaited(q)' = Awaited(q)
      BY <2>1 DEF callsVars, call, Awaited, Doing
    <3>2. QED
      BY <2>1, <3>1 DEF callsVars, call, memory, pool, CInv, VarTypes, Threads, Sound
  <2>2. QED
    BY <2>1, CallsKeepCInv, AgentsKeepCInv, TakesKeepsCInv, HangsKeepsCInv, EndsKeepsCInv DEF CallsNext
<1>2. QED
  BY CInit, <1>1, PTL DEF CallsSpec

\* The variables of the planning phases, the cache and the thread pool always have their types.
THEOREM CallsTypeCorrect == CallsSpec => []CallsTypeOK
  BY CInvariant, CInvImplies, PTL

\* Whatever the models and the cache answer, a project past its plan has one that is an
\* object, and a planned project a design: run_project and the CTO agent replace what is not.
THEOREM PlanUsableHolds == CallsSpec => []PlanUsable
  BY CInvariant, CInvImplies, PTL

===============================================================================
