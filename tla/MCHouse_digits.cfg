\* As MCHouse.cfg, with a name of 17, which has a digit too many.
SPECIFICATION HouseSpec
CONSTANTS
  Rooms = {1}
  Fds = {1, 2, 3}
  Ids = {1, 2, 3}
  MaxQueue = 2
  Ten = 2
  IntSize = 1024
  LongSize = 786432
  LastStudent = 1
  ListRoom = 3
  Scenarios <- Lessons
  Names = {1, 17}
  Places = {5}
  PictureIds = {}
  HouseIds = {}
  Houses = {}
  LongHouses = {}
PROPERTY
  LayerIsThePicture
CHECK_DEADLOCK FALSE
