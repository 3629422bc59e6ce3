SPECIFICATION Spec
CONSTANTS
  BUFFER_SIZE = 14
  Sent <- ShortSent
  Stream <- ShortStream
  Misread = {0, 2}
INVARIANT StickyFramesParsed
CHECK_DEADLOCK FALSE
