\* The shipped agents: no result carries a version, and nothing else goes wrong.
SPECIFICATION AnsweredSpec
CONSTANTS
  MaxTasks = 3
  MaxRetries = 1
  ResultVersions = {0}
  MaxFaults = 0
PROPERTY PipelineCompletes
CHECK_DEADLOCK FALSE
