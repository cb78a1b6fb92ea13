\* Two websockets, of which one may send a command, and two coroutines.
SPECIFICATION LiveFairSpec
CONSTANTS
  Coroutine = {lifecycle, alert}
  Socket = {c1, c2}
  lifecycle = lifecycle
  alert = alert
  c1 = c1
  NoSocket = NoSocket
  MaxEmits <- Emits
INVARIANTS
  InOrderOnce
  PassedOverBounded
PROPERTIES
  BroadcastEnds
CHECK_DEADLOCK FALSE
