\* Two pods of a role and an agent of another one.
SPECIFICATION FairSpec
CONSTANTS
  Pod = {p1, p2}
  Neighbour = {n1}
  NoPod = NoPod
  Limit = 1
  MaxMessages = 2
  MaxDisturbances = 1
  MaxUngated = 1
INVARIANTS
  TypeOK
  NothingSkipped
  ExecutionsBounded
  OvershootBounded
PROPERTIES
  EveryTaskSettled
CHECK_DEADLOCK FALSE
