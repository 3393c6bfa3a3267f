\* Two requests, four buffers, one change of a table, one exception and one
\* notice of Evloop, in any order.
SPECIFICATION FairSpec
CONSTANTS
  Clients = {1, 2, 3, 4}
  Teacher = 1
  White = 2
  Students = {3}
  Bufs = 4
  Requests <- Asks
  Groups <- FourOrThree
  Tables <- Start
  Edited = {"student", "items"}
  MaxAsk = 2
  MaxEdit = 1
  MaxFault = 1
  MaxNotice = 1
INVARIANTS
  TypeOK
  TablesArriveWhole
  AnswersInOrder
  LostWithoutAnswer
PROPERTIES
  Served
CHECK_DEADLOCK FALSE
