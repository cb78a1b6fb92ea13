\* Two projects and one thread, that a call's two attempts may keep.
SPECIFICATION CallsSpec
CONSTANTS
  Project = {p1, p2}
  Workers = 1
  MaxAttempts = 2
INVARIANTS
  PlanUsable
PROPERTIES
  PlannedUnlessBlocked
CHECK_DEADLOCK FALSE
