\* Two connections with messages of every length.
SPECIFICATION FairSpec
CONSTANTS
  Conns = {1, 2}
  Sizes <- SomeMessages
  HeadLen = 2
  MaxBuf = 3
INVARIANTS
  TypeOK
  WholeMessages
PROPERTIES
  Delivered
  HangupIsSeenUnlessStuck
CHECK_DEADLOCK FALSE
