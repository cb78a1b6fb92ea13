\* Any results, cancellations, lost leases, and one crash or failed statement.
SPECIFICATION Spec
CONSTANTS
  MaxTasks = 3
  MaxRetries = 1
  ResultVersions = {0, 1}
  MaxFaults = 1
INVARIANTS
  TypeOK
  EachStageOnce
  PipelineOrder
PROPERTIES
  LostTaskLeavesRunning
  ImplementsRetryQueue
CHECK_DEADLOCK FALSE
