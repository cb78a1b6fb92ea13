SPECIFICATION Spec
CONSTANTS
  t1 = t1
  t2 = t2
  t3 = t3
  Task <- MCTask
  MaxRetries <- MCMaxRetries
  DependencyGraphs <- MCGraphs
PROPERTIES
  CascadeExact
  HungTaskRecovered
  CompletesWithoutTimeouts
  ImplementsRetryQueue
CHECK_DEADLOCK FALSE
