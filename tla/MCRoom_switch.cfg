\* Two rooms and one teacher, who goes from one to the other.
SPECIFICATION Spec
CONSTANTS
  Rooms = {1, 2}
  Fds = {1}
  Ids = {1, 2}
  Scenarios <- OneTeacher
  MaxQueue = 2
PROPERTIES
  SceneReachesRoom
CHECK_DEADLOCK FALSE
