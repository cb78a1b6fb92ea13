SPECIFICATION Spec
CONSTANTS
  Task <- MCTask
  MaxRetries = 1
  Plans <- MCPlans
PROPERTIES
  FailureEndsProject
CHECK_DEADLOCK FALSE
