\* From an empty server: one descriptor, two connections one after the other.
SPECIFICATION FairSpec
CONSTANTS
  Bufs = {b1, b2, b3}
  NoBuf = NoBuf
  Fds = {1}
  MaxConn = 2
  MaxMsg <- TwoThenOne
  MaxGone = 2
INVARIANTS
  TypeOK
PROPERTIES
  Settles
CHECK_DEADLOCK FALSE
