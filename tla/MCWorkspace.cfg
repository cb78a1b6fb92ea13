\* Three tasks in two waves, one retry, one rewind and one failure of git; or two
\* requests to the application.
SPECIFICATION MCSpec
CONSTANTS
  Task = {backend, tests, docker}
  backend = backend
  tests = tests
  docker = docker
  main = main
  suite = suite
  report = report
  compose = compose
  url = url
  StateFile = state
  Nobody = Nobody
  Role <- Roles3
  Needs <- Dependencies
  First <- WritesFirst
  Last <- WritesLast
  MaxRetries = 1
  MaxRewinds = 1
  MaxFailures = 1
  FirstItem = FirstItem
  Call = {call1, call2}
  e1 = e1
  active = active
  Email = {e1, e2}
  Status = {active, inactive}
INVARIANTS
  SavedUnlessRefused
  OneAccountPerEmail
  DeletedStays
PROPERTIES
  RewindRestores
CHECK_DEADLOCK FALSE
