\* Two clients compete for one name in one plugin; every address is used once; the
\* server may be stopped.
SPECIFICATION Spec
CONSTANTS
  Slot = {c1,c2}
  Plugin = {p1}
  Id = {u1}
  NoId = NoId
  NULL = NULL
  SERVICE = SERVICE
  Capacity = 2
  MAX_AUTH_SESSION_COUNT = 1
  UP_RE_TIMES = 2
  AcceptDepth = 1
  MaxIncarnation = 1
  CanStop = TRUE
INVARIANTS TypeOK ErrorFindsDispatcher UniqueLogin MembersKept
PROPERTY ImplementsLifetime
\* A stopped server stops.
CHECK_DEADLOCK FALSE
