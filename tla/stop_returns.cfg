\* stop() under fair scheduling and peers that react to nothing but a shutdown.
SPECIFICATION FairSpec
CONSTANTS
  Slot = {c1}
  Plugin = {p1}
  Id = {u1}
  NoId = NoId
  NULL = NULL
  SERVICE = SERVICE
  Capacity = 1
  MAX_AUTH_SESSION_COUNT = 1
  UP_RE_TIMES = 2
  AcceptDepth = 1
  MaxIncarnation = 1
  CanStop = TRUE
PROPERTY StopReturns
\* A stopped server stops.
CHECK_DEADLOCK FALSE
