\* The second connection gets the descriptor of the first, which was being sent to.
SPECIFICATION Spec
CONSTANTS
  Bufs = {b1, b2, b3}
  NoBuf = NoBuf
  Fds = {1}
  MaxConn = 2
  MaxMsg <- TwoThenOne
  MaxGone = 1
PROPERTIES
  NoTornMessage
CHECK_DEADLOCK FALSE
