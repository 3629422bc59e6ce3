SPECIFICATION ReceiveSpec
CONSTANTS
  BUFFER_SIZE = 11
  Sent <- MixedSent
  Stream <- MixedStream
  Misread = {0, 2}
  Line <- MCLine
  NULL = NULL
  Behind <- MCBehind
  Upgraded <- MCUpgraded
INVARIANTS PayloadArrived BytesUsedOnce ShortFrameIntact FramePerRead WordsFound LineIsPayload
\* The chain of receives ends with the connection.
CHECK_DEADLOCK FALSE
