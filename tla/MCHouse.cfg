\* One room and its house building.  Numbers to the base 2: 3 digits for a place, 2
\* for the scale, 4 for the name and 2 each for the layer and the student, and not
\* 2^19 of them above 0, so that a student's id 3 is too large.  5 is a place and a
\* scale with something behind the point, 256 one with too many digits.
\* Of the students' houses the second is longer than what is kept of it.
SPECIFICATION HouseSpec
CONSTANTS
  Rooms = {1}
  Fds = {1, 2, 3}
  Ids = {1, 2, 3}
  MaxQueue = 2
  Ten = 2
  IntSize = 1024
  LongSize = 786432
  LastStudent = 1
  ListRoom = 3
  Scenarios <- Days
  Names = {1}
  Places = {5, 256}
  PictureIds = {}
  HouseIds <- Strangers
  Houses = {1, 2}
  LongHouses = {2}
INVARIANTS
  HouseTypeOK
  MembersUpToDate
PROPERTY
  OnlyTheOneMeant
  BoardKeepsUp
CHECK_DEADLOCK FALSE
