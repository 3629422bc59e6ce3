SPECIFICATION FairSpec
CONSTANTS
 LowRank = 8
 BottomSize = 1
 Named <- MCNamed
 Start <- MCStart
 Stake = 1
 MaxCommands = 2
 MaxCards = 5
 NULL = NULL
INVARIANTS LeadIsFree ParserKnowsPlays AnswerBeats
PROPERTIES LordPays RobotsFinish PlaysTable
\* A game that is over is over.
CHECK_DEADLOCK FALSE
