\* One connection, one message.
SPECIFICATION FairSpec
CONSTANTS
  Conns = {1}
  Sizes <- OneMessage
  HeadLen = 2
  MaxBuf = 3
PROPERTIES
  HangupIsSeen
CHECK_DEADLOCK FALSE
