\* A connection that breaks while its login is answered.
SPECIFICATION Spec
CONSTANTS
  Slot = {c1}
  Plugin = {p1}
  Id = {u1}
  NoId = NoId
  NULL = NULL
  SERVICE = SERVICE
  Capacity = 1
  MAX_AUTH_SESSION_COUNT = 1
  UP_RE_TIMES = 2
  AcceptDepth = 1
  MaxIncarnation = 1
  CanStop = FALSE
PROPERTY JoinsOnlyUnbroken
