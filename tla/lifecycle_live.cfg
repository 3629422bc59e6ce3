\* One address used twice, two plugins, unload, under fair scheduling of the server.
SPECIFICATION FairSpec
CONSTANTS
  Slot = {c1}
  Plugin = {p1,p2}
  Id = {u1}
  NoId = NoId
  NULL = NULL
  SERVICE = SERVICE
  Capacity = 1
  MAX_AUTH_SESSION_COUNT = 1
  UP_RE_TIMES = 2
  AcceptDepth = 1
  MaxIncarnation = 2
  CanStop = FALSE
INVARIANTS OneContinuation UnloadedPluginIdle
PROPERTIES LeaverDestroyed UnloadReturns
