\* One room, its teacher, a student who comes back on a new connection.
SPECIFICATION Spec
CONSTANTS
  Rooms = {1}
  Fds = {1, 2, 3}
  Ids = {1, 2}
  Scenarios <- ComesBack
  MaxQueue = 2
INVARIANTS
  OnlineToldOnline
CHECK_DEADLOCK FALSE
