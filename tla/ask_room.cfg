SPECIFICATION MCSpec
CONSTANTS
  Client = {c1, c2, c3, c4}
  NULL = NULL
  ROOM_COUNT = 3
  ROOM_CAPACITY = 4
  QUESTION_COUNT = 2
  PARAMS = {1}
  UNINITIALISED <- MCUninitialised
  MAX_CODE = 3
SYMMETRY Symmetry
INVARIANTS BothTeams OneSeat QuestionsInTurn
PROPERTY LeaderStays
\* The process ends with the first client that leaves the plug-in.
CHECK_DEADLOCK FALSE
