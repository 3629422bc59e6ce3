\* Up to three buffers; messages may fail to format and sends may break.
SPECIFICATION FairSpec
CONSTANTS
  InitialSize = 1
  MAX_BUFFER_SEQUENCE_SIZE = 3
  MaxWrites = 7
INVARIANTS OneWriteAtATime InFlightUntouched
PROPERTIES ImplementsStream AcceptedIsSent
\* A connection that nobody writes to rests.
CHECK_DEADLOCK FALSE
