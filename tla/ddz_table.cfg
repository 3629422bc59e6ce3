\* Three players and a table; a hand is one card, and so is the bottom.
SPECIFICATION FairSpec
CONSTANTS
  Client = {c1, c2, c3}
  DeskCount = 1
  HandSize = 1
  BottomSize = 1
  NULL = NULL
INVARIANTS SeatsAgree PlayersSeated ReadyStarts OneDriver
PROPERTY GameEnds
\* Players may stay away.
CHECK_DEADLOCK FALSE
