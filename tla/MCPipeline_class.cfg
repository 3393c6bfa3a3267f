\* Four buffers, two descriptors, a third connection on one of them.
SPECIFICATION InClassSpec
CONSTANTS
  Bufs = {b1, b2, b3, b4}
  NoBuf = NoBuf
  Fds = {1, 2}
  MaxConn = 3
  MaxMsg <- OnlyFirst
  MaxGone = 1
PROPERTIES
  InOrder
  Framed
  LifeCycle
CHECK_DEADLOCK FALSE
SYMMETRY Symmetry
