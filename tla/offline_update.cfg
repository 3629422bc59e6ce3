SPECIFICATION OfflineFairSpec
CONSTANTS
  Client = {c1, c2}
  other = other
  UP_RE_TIMES = 2
  Timer = {t1, t2}
  MIN_ACTIVED_TIMER = 1
  Block = {b1, b2}
  Request <- MCRequest
  Task <- MCTask
  NULL = NULL
INVARIANTS OnePlace WaitingIsTracked BlockHasOneUser RequestInOnePlace LeaverInOnePlace
PROPERTY LeaverRemoved
\* When every client is removed nothing is left to do.
CHECK_DEADLOCK FALSE
