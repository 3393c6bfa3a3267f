\* Classes in one room, two rooms with used descriptors, and a puzzle game.
SPECIFICATION Spec
CONSTANTS
  Rooms = {1, 2}
  Fds = {1, 2, 3}
  Ids = {1, 2}
  Scenarios <- Lessons
  MaxQueue = 2
INVARIANTS
  TypeOK
  ToldIsTrue
  StudentInOneRoom
  
  

  
CHECK_DEADLOCK FALSE
