\* Two browsers, a stream that drops its oldest event, and a crash.
SPECIFICATION FairSpec
CONSTANTS
  Conn = {c1, c2}
  MaxLen = 1
  MaxEvents = 3
  MaxRestarts = 1
INVARIANTS
  FeedInOrder
  ServedSinceRegistered
PROPERTIES
  ServedUnlessStuck
CHECK_DEADLOCK FALSE
