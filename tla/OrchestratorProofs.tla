-------------------------- MODULE OrchestratorProofs --------------------------
(***************************************************************************)
(* Proofs about the Go orchestrator's pipeline, for any number of tasks,   *)
(* retries and faults.                                                     *)
(***************************************************************************)
EXTENDS Orchestrator, TLAPS

\* t is a row of stage r, and one a successful result of which was applied.
IsRow(t, r) == role[t] = r /\ status[t] # "absent"
Succeeded(r) == \E t \in Task : IsRow(t, r) /\ t \in succeeded

\* The row of each task: an id gets one with its role, the first applied result
\* takes the version to 2 and records at most one cost.
Rows ==
  \A t \in Task :
    /\ status[t] # "absent" => role[t] \in Stages
    /\ role[t] = "none" => published[t] = 0 /\ t \notin toPublish
    /\ status[t] = "absent" => version[t] = 1 /\ retryCount[t] = 0 /\ t \notin succeeded
    /\ version[t] \in {1, 2}
    /\ costs[t] <= version[t] - 1
    /\ t \in succeeded => version[t] = 2

\* The lease monitor holds rows that were published, and a task that is still to
\* be published for the first time is not among them; it handles one row at a time.
MonitorSound ==
  /\ \A t \in scanned \union lost \union toRepublish :
        status[t] # "absent" /\ published[t] > 0
  /\ \A t \in Task : status[t] = "running" => published[t] > 0
  /\ \A t \in toPublish : published[t] = 0
  /\ lost # {} => toRepublish = {}
  /\ \A t, u \in toRepublish : t = u

\* The token of a stage: it is due only while it has no row, and exists, due or
\* as a row, only when the stage before it has succeeded.
Tokens ==
  /\ \A t, u \in Task : role[t] = role[u] /\ status[t] # "absent" /\ status[u] # "absent" => t = u
  /\ \A r \in due \intersect Stages : \A t \in Task : ~IsRow(t, r)
  /\ "CEO" \in due \/ (\E t \in Task : IsRow(t, "CEO")) => project # "absent"
  /\ "CTO" \in due \/ (\E t \in Task : IsRow(t, "CTO")) => Succeeded("CEO")
  /\ "Engineer_Backend" \in due \/ (\E t \in Task : IsRow(t, "Engineer_Backend"))
        => Succeeded("CTO")
  /\ "close" \in due \/ project = "done" => Succeeded("Engineer_Backend")

OInv == TypeOK /\ Rows /\ MonitorSound /\ Tokens

-------------------------------------------------------------------------------

LEMMA InitOInv == Init => OInv
BY BoundsAssumption DEF Init, OInv, TypeOK, Rows, MonitorSound, Tokens, IsRow, Stages, Steps

\* The handlers of the gRPC server keep the invariant.
LEMMA ServerKeepsOInv ==
  ASSUME OInv,
         \/ CreateProject
         \/ \E r \in Stages, t \in Task : InsertTask(r, t)
         \/ \E t \in Task : Publish(t)
         \/ CancelProject
         \/ SkipTasks
  PROVE  OInv'
<1> USE BoundsAssumption DEF OInv, TypeOK, Rows, MonitorSound, Tokens, IsRow, Succeeded,
      Stages, Steps, rows, monitor
<1>1. CASE CreateProject
  BY <1>1 DEF CreateProject
<1>2. ASSUME NEW r \in Stages, NEW t \in Task, InsertTask(r, t) PROVE OInv'
  <2>1. role[t] = "none" /\ status[t] = "absent"
    BY <1>2 DEF InsertTask, Fresh
  <2>2. TypeOK'
    BY <1>2 DEF InsertTask
  <2>3. Rows'
    BY <1>2, <2>1 DEF InsertTask
  <2>4. MonitorSound'
    BY <1>2, <2>1 DEF InsertTask
  <2>5. Tokens'
    BY <1>2, <2>1 DEF InsertTask
  <2>6. QED
    BY <2>2, <2>3, <2>4, <2>5
<1>3. ASSUME NEW t \in Task, Publish(t) PROVE OInv'
  BY <1>3 DEF Publish
<1>4. CASE CancelProject
  BY <1>4 DEF CancelProject
<1>5. CASE SkipTasks
  BY <1>5 DEF SkipTasks
<1>6. QED
  BY <1>1, <1>2, <1>3, <1>4, <1>5, ZenonT(30)

\* So does the result handler: the optimistic lock admits only the first result
\* of a row, whose stage has succeeded neither before nor elsewhere.
LEMMA HandleResultKeepsOInv ==
  ASSUME OInv, NEW t \in Task, NEW result \in {"completed", "failed"},
         NEW v \in ResultVersions, HandleResult(t, result, v)
  PROVE  OInv'
<1> USE BoundsAssumption, VersionsAssumption DEF OInv, TypeOK, Rows, MonitorSound, Tokens,
      IsRow, Succeeded, Stages, Steps, monitor, Fault
<1>1. version[t] = 1 /\ version' = [version EXCEPT ![t] = 2]
  <2>1. version[t] \in {1, 2} /\ version[t] = v /\ v \in {0, 1}
    BY DEF HandleResult, Accepts
  <2>2. version[t] = 1
    BY <2>1
  <2>3. version' = [version EXCEPT ![t] = version[t] + 1]
    BY DEF HandleResult
  <2>4. QED
    BY ONLY <2>2, <2>3
<1>2. status[t] # "absent" /\ role[t] \in Stages /\ t \notin succeeded
  BY <1>1 DEF HandleResult, Accepts
<1>3. PICK s \in {"done", "failed"} : s = TaskStatus(result)
  BY DEF TaskStatus
<1>4. PICK next \in {"CTO", "Engineer_Backend", "close", "recover"} :
        /\ next = NextStep(role[t], s)
        /\ next # "recover" => s = "done"
        /\ next = "CTO" => role[t] = "CEO"
        /\ next = "Engineer_Backend" => role[t] = "CTO"
        /\ next = "close" => role[t] = "Engineer_Backend"
  BY <1>2 DEF NextStep, Successor
<1>5. /\ status' = [status EXCEPT ![t] = s]
      /\ succeeded' = IF s = "done" THEN succeeded \union {t} ELSE succeeded
      /\ due' = due \union {next}
      /\ costs' = [costs EXCEPT ![t] = @ + 1] \/ costs' = costs
      /\ UNCHANGED <<project, role, retryCount, published, toPublish, scanned, lost, toRepublish>>
  BY <1>3, <1>4 DEF HandleResult
<1>6. leased' \subseteq Task /\ faults' \in 0..MaxFaults
  BY DEF HandleResult
<1>7. TypeOK'
  BY <1>1, <1>5, <1>6
<1>8. Rows' /\ MonitorSound'
  BY <1>1, <1>2, <1>5
<1>9. Tokens'
  BY <1>1, <1>2, <1>4, <1>5
<1>10. QED
  BY <1>7, <1>8, <1>9

\* And everything else: the rest of the handlers, the agents, the monitor, a fault.
LEMMA OthersKeepOInv ==
  ASSUME OInv,
         \/ CloseProject
         \/ \E t \in Task : Recover(t)
         \/ \E t \in Task : ClaimTask(t) \/ Heartbeat(t) \/ LeaseExpires(t)
         \/ ScanRunning
         \/ \E t \in Task : MonitorStep(t)
         \/ Forget
         \/ UNCHANGED vars
  PROVE  OInv'
<1> USE BoundsAssumption DEF OInv, TypeOK, Rows, MonitorSound, Tokens, IsRow, Succeeded,
      Stages, Steps, rows, monitor, Fault
<1>1. CASE CloseProject
  BY <1>1 DEF CloseProject
<1>2. ASSUME NEW t \in Task, Recover(t) PROVE OInv'
  BY <1>2 DEF Recover, Fresh
<1>3. ASSUME NEW t \in Task, ClaimTask(t) PROVE OInv'
  BY <1>3 DEF ClaimTask
<1>4. ASSUME NEW t \in Task, Heartbeat(t) \/ LeaseExpires(t) PROVE OInv'
  <2>1. leased' \subseteq Task
    BY <1>4 DEF Heartbeat, LeaseExpires
  <2>2. UNCHANGED <<project, rows, published, due, toPublish, monitor, faults>>
    BY <1>4 DEF Heartbeat, LeaseExpires
  <2>3. QED
    BY <2>1, <2>2
<1>5. CASE ScanRunning
  BY <1>5 DEF ScanRunning
<1>6. ASSUME NEW t \in Task, CheckLease(t) PROVE OInv'
  BY <1>6 DEF CheckLease
<1>7. ASSUME NEW t \in Task, Republish(t) PROVE OInv'
  BY <1>7 DEF Republish
<1>8. ASSUME NEW t \in Task, RetryLost(t) PROVE OInv'
  BY <1>8 DEF RetryLost
<1>9. ASSUME NEW t \in Task, FailLost(t) PROVE OInv'
  BY <1>9 DEF FailLost
<1>10. CASE Forget
  BY <1>10 DEF Forget
<1>11. CASE UNCHANGED vars
  BY <1>11 DEF vars
<1>12. QED
  BY <1>1, <1>2, <1>3, <1>4, <1>5, <1>6, <1>7, <1>8, <1>9, <1>10, <1>11 DEF MonitorStep

LEMMA Invariance == Spec => []OInv
<1>1. OInv /\ [Next]_vars => OInv'
  BY ServerKeepsOInv, HandleResultKeepsOInv, OthersKeepOInv DEF Next
<1>2. QED
  BY InitOInv, <1>1, PTL DEF Spec

-------------------------------------------------------------------------------

\* The state of the tables, the leases and the handlers stays well formed.
THEOREM TypeCorrect == Spec => []TypeOK
BY Invariance, PTL DEF OInv

\* However results are duplicated, tasks retried and goroutines crashed, every
\* stage has one row, of which one result is applied.
THEOREM EachStageOnceHolds == Spec => []EachStageOnce
<1>1. OInv => EachStageOnce
  BY DEF OInv, TypeOK, Rows, Tokens, EachStageOnce, RowsOf
<1>2. QED
  BY Invariance, <1>1, PTL

\* No stage begins, and no project is done, before the stage it needs succeeded.
THEOREM PipelineOrderHolds == Spec => []PipelineOrder
<1>1. OInv => PipelineOrder
  BY DEF OInv, Tokens, IsRow, Succeeded, PipelineOrder, RowsOf
<1>2. QED
  BY Invariance, <1>1, PTL

-------------------------------------------------------------------------------

\* Sending t's message hands it out of the retry queue, and nothing else.
LEMMA SendHandsOut ==
  ASSUME OInv, NEW t \in Task, t \in toPublish \union toRepublish,
         published' = [published EXCEPT ![t] = @ + 1],
         (toPublish \union toRepublish)' = (toPublish \union toRepublish) \ {t},
         UNCHANGED retryCount
  PROVE  Retries!Next
<1>1. {t} \in SUBSET (toPublish \union toRepublish)
  OBVIOUS
<1>2. published \in [Task -> Nat]
  BY DEF OInv, TypeOK
<1>3. published' = [u \in Task |-> published[u] + (IF u \in {t} THEN 1 ELSE 0)]
  <2>1. \A u \in Task : published[u] + (IF u \in {t} THEN 1 ELSE 0)
                         = IF u = t THEN published[t] + 1 ELSE published[u]
    BY <1>2
  <2>2. published' = [published EXCEPT ![t] = published[t] + 1]
    OBVIOUS
  <2>3. QED
    BY ONLY <1>2, <2>1, <2>2, t \in Task
<1>4. Retries!HandOut({t})
  BY <1>3 DEF Retries!HandOut
<1>5. QED
  BY <1>1, <1>4 DEF Retries!Next

\* An inserted row, a correction and a lost task come on offer.
LEMMA OfferRefines ==
  ASSUME OInv,
         \/ \E r \in Stages, t \in Task : InsertTask(r, t)
         \/ \E t \in Task : Recover(t)
  PROVE  Retries!Next
<1>1. PICK t \in Task :
        /\ role[t] = "none"
        /\ toPublish' = toPublish \union {t}
        /\ UNCHANGED <<retryCount, published, toRepublish>>
  BY DEF InsertTask, Recover, Fresh, monitor
<1>2. published[t] = 0 /\ retryCount[t] = 0
  BY <1>1 DEF OInv, Rows, Stages
<1>3. (toPublish \union toRepublish)' \in SUBSET Task
  BY <1>1 DEF OInv, TypeOK
<1>4. Retries!Offer
  BY <1>1, <1>2, <1>3 DEF Retries!Offer
<1>5. QED
  BY <1>4 DEF Retries!Next

LEMMA PublishRefines ==
  ASSUME OInv, NEW t \in Task, Publish(t) \/ Republish(t)
  PROVE  Retries!Next
<1>1. t \in toPublish \union toRepublish
  BY DEF Publish, Republish
<1>2. published' = [published EXCEPT ![t] = @ + 1] /\ UNCHANGED retryCount
  BY DEF Publish, Republish, rows
<1>3. CASE Publish(t)
  <2>1. t \notin toRepublish
    BY <1>3 DEF OInv, MonitorSound, TypeOK, Publish
  <2>2. QED
    BY <1>1, <1>2, <1>3, <2>1, SendHandsOut DEF Publish, monitor
<1>4. CASE Republish(t)
  <2>1. t \notin toPublish
    BY <1>4 DEF OInv, MonitorSound, TypeOK, Republish
  <2>2. toRepublish = {t}
    BY <1>4 DEF OInv, MonitorSound, Republish
  <2>3. QED
    BY <1>1, <1>2, <1>4, <2>1, <2>2, SendHandsOut DEF Republish
<1>5. QED
  BY <1>3, <1>4

LEMMA RetryRefines ==
  ASSUME OInv, NEW t \in Task, RetryLost(t)
  PROVE  Retries!Next
<1>1. toRepublish = {} /\ toRepublish' = {t} /\ UNCHANGED <<toPublish, published>>
  BY DEF RetryLost, OInv, MonitorSound
<1>2. retryCount' = [retryCount EXCEPT ![t] = @ + 1]
  BY DEF RetryLost
<1>3. retryCount[t] + 1 <= [u \in Task |-> MaxRetries][t]
  BY BoundsAssumption DEF RetryLost, OInv, TypeOK
<1>4. Retries!Reoffer(t)
  BY <1>1, <1>2, <1>3 DEF Retries!Reoffer
<1>5. QED
  BY <1>4 DEF Retries!Next

\* Every behaviour of the orchestrator is one of the abstract retry queue: a
\* task's message is sent again only for a retry within maxRetries.
THEOREM RefinesRetryQueue == Spec => ImplementsRetryQueue
<1>1. Init => Retries!Init
  BY DEF Init, Retries!Init
<1>2. OInv /\ [Next]_vars => [Retries!Next]_(Retries!vars)
  <2> SUFFICES ASSUME OInv, [Next]_vars PROVE [Retries!Next]_(Retries!vars)
    OBVIOUS
  <2>1. CASE (\E r \in Stages, t \in Task : InsertTask(r, t)) \/ (\E t \in Task : Recover(t))
    BY <2>1, OfferRefines
  <2>2. CASE \E t \in Task : Publish(t) \/ Republish(t)
    BY <2>2, PublishRefines
  <2>3. CASE \E t \in Task : RetryLost(t)
    BY <2>3, RetryRefines
  <2>4. CASE Forget
    BY <2>4 DEF Forget, rows, Retries!Next, Retries!Withdraw
  <2>5. CASE \/ CreateProject \/ CancelProject \/ SkipTasks \/ CloseProject \/ ScanRunning
             \/ UNCHANGED vars
             \/ \E t \in Task : \/ ClaimTask(t) \/ Heartbeat(t) \/ LeaseExpires(t)
                               \/ CheckLease(t) \/ FailLost(t)
             \/ \E t \in Task, result \in {"completed", "failed"}, v \in ResultVersions :
                  HandleResult(t, result, v)
    BY <2>5 DEF CreateProject, CancelProject, SkipTasks, CloseProject, ScanRunning, ClaimTask,
       Heartbeat, LeaseExpires, CheckLease, FailLost, HandleResult, vars, rows, monitor,
       Retries!vars
  <2>6. QED
    BY <2>1, <2>2, <2>3, <2>4, <2>5 DEF Next, MonitorStep
<1>3. QED
  BY Invariance, <1>1, <1>2, PTL DEF Spec, ImplementsRetryQueue, Retries!Spec

===============================================================================
