SPECIFICATION Spec
CONSTANTS
  Task <- MCTask
  MaxRetries = 1
  Plans <- MCPlans
INVARIANTS
  PredecessorsSettled
  NoSilentStall
  QuiescentAtCritique
PROPERTIES
  FailureContained
  EndsUnlessBlocked
  ImplementsRetryQueue
CHECK_DEADLOCK FALSE
