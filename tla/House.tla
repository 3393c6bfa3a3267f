-------------------------------- MODULE House --------------------------------
(***************************************************************************)
(* The building of houses (handler/HandleBuildHouse.cpp,                   *)
(* content/makehouse.cpp): one group, test_group, of the connections that  *)
(* joined it, and one house with the pictures they put into it.  The group *)
(* and the house belong to the server, not to a room: they last as long as *)
(* the process, and a connection that ends stays in the group.             *)
(*                                                                         *)
(* Composed with Room, whose clients and handlers are those of this        *)
(* module; a room's m_is_show decides whether its clients may add, move    *)
(* and delete pictures.  A client speaks of a picture by its layer, as it  *)
(* finds it in the list it was last sent; DataTool packs the lists.        *)
(*                                                                         *)
(* Nothing a client says of a picture is checked, nor how many there are.  *)
(* Where that makes the code write past the end of an array or a buffer,   *)
(* `damaged' is set: what the process does after that is undefined.        *)
(***************************************************************************)
EXTENDS Room, DataTool

CONSTANTS
  Names,       \* names of pictures
  Places,      \* values of coordinates, angles and scales, in Unit-ths
  PictureIds,  \* students' ids a picture may name besides its sender's own
  HouseIds,    \* and those a house may
  Houses,      \* what a student's house may be
  LongHouses,  \* those whose message has more than 1024 bytes
  LastStudent, \* 35: longlong_data has rows for the ids from 0 to this
  ListRoom     \* 638: the pictures a Buf has room for

ASSUME HouseAssumption ==
  /\ Names \subseteq Int /\ Places \subseteq Int
  /\ PictureIds \subseteq Int /\ HouseIds \subseteq Int
  /\ Houses \subseteq Nat \ {0} /\ LongHouses \subseteq Houses
  /\ LastStudent \in Nat /\ ListRoom \in Nat

VARIABLES
  m_is_show,        \* per room: 1 while its house building is shown
  test_group,       \* the connections that have joined
  test_white_fd,    \* the whiteboard that gets the students' houses, or 0
  m_node_map,       \* the pictures of the house, by node id
  m_node_layer_list,  \* node ids in the order of add and changeLayer
  m_auto_nodeid, m_current_layer,  \* the next id and the next layer
  longlong_data,    \* per student: the house it has sent last, or NoHouse
  shown,            \* per fd: the list last sent to it
  boards,           \* per fd and student: the house last sent to it
  missed,           \* history: who of the group was not sent the last list
  skipped,          \* history: the students the last answer to a whiteboard left out
  strayed,          \* history: the fds sent bytes that are no message
  damaged           \* history: whether memory was overwritten

groupVars == <<m_is_show, test_group, test_white_fd>>
nodeVars == <<m_node_map, m_node_layer_list, m_auto_nodeid, m_current_layer>>
lists == <<shown, missed>>
houseData == <<longlong_data, boards, skipped, strayed>>
house == <<groupVars, nodeVars, lists, houseData, damaged>>
houseVars == <<vars, house>>

Empty == [id \in {} |-> 0]

\* A list as its receivers have it: the count in front and the packed pictures,
\* each with whether it fitted.  NoList has never been sent.
NoList == [count |-> -1, pics |-> Empty]

\* A house on a whiteboard, and whether its message came whole.
Rows == 0 .. LastStudent
Students35 == 1 .. LastStudent
NoHouse == 0
NoBoard == [house |-> NoHouse, whole |-> TRUE]
NoBoards == [id \in Rows |-> NoBoard]

HouseInit ==
  /\ Init
  /\ m_is_show = [r \in Rooms |-> 0]
  /\ test_group = {} /\ test_white_fd = 0
  /\ m_node_map = Empty /\ m_node_layer_list = <<>>
  /\ m_auto_nodeid = 1 /\ m_current_layer = 1
  /\ longlong_data = [id \in Rows |-> NoHouse]
  /\ shown = [fd \in Fds |-> NoList]
  /\ boards = [fd \in Fds |-> NoBoards]
  /\ missed = {} /\ skipped = {} /\ strayed = {} /\ damaged = FALSE

(***************************************************************************)
(* Clients                                                                 *)
(***************************************************************************)
\* A new client has been sent nothing, whoever had its descriptor before.
HouseAccept ==
  LET new == {fd \in Fds : conn[fd] = "closed" /\ conn'[fd] = "open"} IN
  /\ Accept
  /\ shown' = [fd \in Fds |-> IF fd \in new THEN NoList ELSE shown[fd]]
  /\ boards' = [fd \in Fds |-> IF fd \in new THEN NoBoards ELSE boards[fd]]
  /\ strayed' = strayed \ new
  /\ UNCHANGED <<groupVars, nodeVars, longlong_data, missed, skipped, damaged>>

Ask(fd, op, arg) == Send(fd, op, arg) /\ UNCHANGED <<client, house>>

\* CT_BuildHouse_GameStart, 0 from a student and 1 from a whiteboard.
AskJoin(fd) ==
  /\ client[fd].kind = "student" /\ fd \notin test_group
  /\ Ask(fd, "gameStart", 0)
AskBoard(fd) ==
  /\ client[fd].kind = "white"
  /\ Ask(fd, "gameStart", 1)

\* CT_BuildHouse_Add_Pic of a student in a room.
AskAdd(fd, name, at, sid) ==
  /\ client[fd].kind = "student" /\ client[fd].room # 0
  /\ Ask(fd, "addPic", [name |-> name, at |-> at, studentId |-> sid])

\* The layer the client on fd reads for a picture in its list.
LayerRead(fd, id) == getPicture(shown[fd].pics[id].data).layer
Named(fd) == {id \in DOMAIN shown[fd].pics : Readable(shown[fd].pics[id].data)}

\* A message about a picture the client was shown has the layer it read, and
\* where to; for the properties also the picture itself, and whether it fitted.
AskEdit(fd, op, id, to) ==
  Ask(fd, op, [layer |-> LayerRead(fd, id), to |-> to, meant |-> id,
               fits |-> shown[fd].pics[id].fits])

\* CT_BuildHouse_Update: a student sends its house.  CT_RainbowValley_HouseInfo:
\* a whiteboard asks for the houses.
AskUpdate(fd, data, sid) ==
  /\ client[fd].kind = "student"
  /\ Ask(fd, "update", [studentId |-> sid, data |-> data])
AskInfo(fd) ==
  /\ client[fd].kind = "white"
  /\ Ask(fd, "houseInfo", 0)

HouseClient(fd) ==
  \/ AskJoin(fd)
  \/ AskBoard(fd)
  \/ \E name \in Names, at \in Places, sid \in PictureIds \cup {client[fd].id} :
       AskAdd(fd, name, at, sid)
  \/ \E data \in Houses, sid \in HouseIds \cup {client[fd].id} : AskUpdate(fd, data, sid)
  \/ \E id \in Named(fd) :
       \/ \E to \in Places, op \in {"movePic", "scalePic", "anglePic"} : AskEdit(fd, op, id, to)
       \/ AskEdit(fd, "delPic", id, 0)
       \/ \E other \in Named(fd) : AskEdit(fd, "changeLayer", id, LayerRead(fd, other))
  \/ AskInfo(fd)

(***************************************************************************)
(* RecvTask: the handlers                                                  *)
(***************************************************************************)
ERRORNODEID == -1

MutNodeFrom(layer) ==
  LET ids == {id \in DOMAIN m_node_map : m_node_map[id].layer >= layer} IN
  IF ids = {} THEN ERRORNODEID ELSE CHOOSE id \in ids : \A other \in ids : id <= other

\* get_node_id_by_layer: the first picture with that layer.
NodeOf(layer) ==
  LET ids == {id \in DOMAIN m_node_map : m_node_map[id].layer = layer} IN
  IF ids = {} THEN ERRORNODEID ELSE CHOOSE id \in ids : \A other \in ids : id <= other

\* CGroup::set_buf packs all pictures.
Packed(map) == [id \in DOMAIN map |-> [data |-> getData(map[id]), fits |-> Fits(map[id])]]

\* What undefined behaviour leaves of the process.
Survives(undefined) == up' \in (IF undefined THEN BOOLEAN ELSE {TRUE})

\* CGroup::sendToOtherStudent after set_buf: to everybody in the group, the sender
\* too, in the order of the descriptors until there is no buffer left.  No buffer
\* is asked for its size; a copy has the length of a whole message behind its
\* head, and so room for one picture less.  `harm' is what the handler did before.
sendToOtherStudent(count, harm) ==
  LET n == Cardinality(DOMAIN m_node_map') IN
  \E reached \in {test_group} \cup {{fd \in test_group : fd < stop} : stop \in test_group} :
    /\ shown' = [fd \in Fds |-> IF fd \in reached
                                   THEN [count |-> count, pics |-> Packed(m_node_map')]
                                   ELSE shown[fd]]
    /\ missed' = test_group \ reached
    /\ damaged' = (damaged \/ harm \/ n > ListRoom \/ (n = ListRoom /\ reached # {}))

\* The list as set_buf counts it.
sendPictures == sendToOtherStudent(Cardinality(DOMAIN m_node_map'), FALSE)

\* The room of the client shows the house building; else its pictures would go
\* to a group of the room, of which there is none.
IsShown(fd) == RoomOf(fd) # 0 /\ m_is_show[RoomOf(fd)] = 1

HouseHandle(op) ==
  /\ Handle(op)
  /\ UNCHANGED <<net, recvtask, evloop, roles, games, told, late, blurred>>

\* handleBuildHouse_GameStart.
GameStart ==
  /\ HouseHandle("gameStart")
  /\ IF m.arg = 0
       THEN test_group' = test_group \cup {m.fd} /\ UNCHANGED test_white_fd
       ELSE test_white_fd' = m.fd /\ UNCHANGED test_group
  /\ UNCHANGED <<up, m_is_show, nodeVars, lists, houseData, damaged>>

\* The node handleBuildHouse_Add_Pic makes: turned by 0 and as large as it is.
NewPicture(layer) ==
  [x |-> m.arg.at, y |-> m.arg.at, angle |-> 0, scale |-> Unit, name |-> m.arg.name,
   layer |-> layer, studentId |-> m.arg.studentId]

MutLayerOfCount ==
  LET pic == NewPicture(Cardinality(DOMAIN m_node_map) + 1) IN
  /\ HouseHandle("addPic") /\ IsShown(m.fd)
  /\ m_node_map' = [id \in DOMAIN m_node_map \cup {m_auto_nodeid} |->
                     IF id = m_auto_nodeid THEN pic ELSE m_node_map[id]]
  /\ m_node_layer_list' = Append(m_node_layer_list, m_auto_nodeid)
  /\ m_auto_nodeid' = m_auto_nodeid + 1
  /\ m_current_layer' = m_current_layer + 1
  /\ sendPictures /\ Survives(damaged')
  /\ UNCHANGED <<groupVars, houseData>>

\* handleBuildHouse_Add_Pic.  A layer is never given twice.
AddPic ==
  LET pic == NewPicture(m_current_layer) IN
  /\ HouseHandle("addPic")
  /\ IF IsShown(m.fd)
       THEN /\ m_node_map' = [id \in DOMAIN m_node_map \cup {m_auto_nodeid} |->
                               IF id = m_auto_nodeid THEN pic ELSE m_node_map[id]]
            /\ m_node_layer_list' = Append(m_node_layer_list, m_auto_nodeid)
            /\ m_auto_nodeid' = m_auto_nodeid + 1
            /\ m_current_layer' = m_current_layer + 1
            /\ sendPictures
       ELSE UNCHANGED <<nodeVars, lists, damaged>>
  /\ Survives(damaged')
  /\ UNCHANGED <<groupVars, houseData>>

\* The picture with that layer, if there is one, becomes `pic', and all are told.
Modify(pic) ==
  LET id == NodeOf(m.arg.layer) IN
  /\ m_node_map' = IF id = ERRORNODEID THEN m_node_map ELSE [m_node_map EXCEPT ![id] = pic]
  /\ sendPictures /\ Survives(damaged')
  /\ UNCHANGED <<groupVars, m_node_layer_list, m_auto_nodeid, m_current_layer, houseData>>

\* handleBuildHouse_Move: only where the house building is shown.
MovePic ==
  LET pic == m_node_map[NodeOf(m.arg.layer)] IN
  /\ HouseHandle("movePic")
  /\ IF IsShown(m.fd) THEN Modify([pic EXCEPT !.x = m.arg.to, !.y = m.arg.to])
                      ELSE UNCHANGED <<up, house>>

\* handleBuildHouse_Scale and handleBuildHouse_Angle ask for no room.
ScalePic ==
  LET pic == m_node_map[NodeOf(m.arg.layer)] IN
  HouseHandle("scalePic") /\ Modify([pic EXCEPT !.scale = m.arg.to])
AnglePic ==
  LET pic == m_node_map[NodeOf(m.arg.layer)] IN
  HouseHandle("anglePic") /\ Modify([pic EXCEPT !.angle = m.arg.to])

MutDelSilently ==
  LET id == NodeOf(m.arg.layer) IN
  /\ HouseHandle("delPic") /\ IsShown(m.fd) /\ id # ERRORNODEID
  /\ m_node_map' = [n \in DOMAIN m_node_map \ {id} |-> m_node_map[n]]
  /\ shown' = [fd \in Fds |-> IF fd \in test_group \ {m.fd}
                                 THEN [count |-> Cardinality(DOMAIN m_node_map'),
                                       pics |-> Packed(m_node_map')]
                                 ELSE shown[fd]]
  /\ UNCHANGED <<up, groupVars, m_node_layer_list, m_auto_nodeid, m_current_layer, houseData,
                 missed, damaged>>

\* handleBuildHouse_Del_Pic: nothing is sent when there is no such picture, and
\* the count 1000 when it was the last.  The list of layers keeps the deleted one.
DelPic ==
  LET id == NodeOf(m.arg.layer) IN
  /\ HouseHandle("delPic")
  /\ IF IsShown(m.fd) /\ id # ERRORNODEID
       THEN /\ m_node_map' = [n \in DOMAIN m_node_map \ {id} |-> m_node_map[n]]
            /\ IF DOMAIN m_node_map = {id} THEN sendToOtherStudent(1000, FALSE) ELSE sendPictures
       ELSE UNCHANGED <<m_node_map, lists, damaged>>
  /\ Survives(damaged')
  /\ UNCHANGED <<groupVars, m_node_layer_list, m_auto_nodeid, m_current_layer, houseData>>

\* CMakeHouse::layer_down: the node at `at' changes places with the next one
\* `count' times, until it is behind the end.  What was there is no node (0).
Down(list, at, count) ==
  [i \in 1 .. Len(list) |->
    IF i >= at /\ i < at + count THEN (IF i = Len(list) THEN 0 ELSE list[i + 1])
    ELSE IF i = at + count THEN list[at] ELSE list[i]]

\* handleBuildHouse_Change_Layer.  layer_up is given a negative count, and moves
\* nothing, but like layer_down looks for the node first.  A deleted node on the
\* way is undefined: it may say it is the one.  In swap(*iter, *(iter++)) the
\* compiler chooses what comes first, and with it whether anything moves.  What
\* is sent does not depend on the list.
ChangeLayer ==
  LET id == NodeOf(m.arg.layer)
      count == m.arg.layer - m.arg.to
      len == Len(m_node_layer_list)
      Deleted(i) == m_node_layer_list[i] \notin DOMAIN m_node_map IN
  /\ HouseHandle("changeLayer")
  /\ UNCHANGED m_node_map
  /\ IF count = 0 THEN UNCHANGED <<up, m_node_layer_list, lists, damaged>>
     ELSE \E at \in 1 .. len + 1, moved \in BOOLEAN :
       /\ at <= len => m_node_layer_list[at] = id \/ Deleted(at)
       /\ \A i \in 1 .. at - 1 : m_node_layer_list[i] # id
       /\ moved => count > 0 /\ at <= len
       /\ m_node_layer_list' = IF moved THEN Down(m_node_layer_list, at, count)
                                        ELSE m_node_layer_list
       /\ sendToOtherStudent(Cardinality(DOMAIN m_node_map), moved /\ at + count > len)
       /\ Survives(damaged' \/ \E i \in 1 .. len : i <= at /\ Deleted(i))
  /\ UNCHANGED <<groupVars, m_auto_nodeid, m_current_layer, houseData>>

MutUpdateNotSaved ==
  /\ HouseHandle("update") /\ m.arg.studentId \in Rows
  /\ boards' = [fd \in Fds |->
       IF fd = test_white_fd
         THEN [boards[fd] EXCEPT ![m.arg.studentId] = [house |-> m.arg.data, whole |-> TRUE]]
         ELSE boards[fd]]
  /\ UNCHANGED <<up, groupVars, nodeVars, lists, longlong_data, skipped, strayed, damaged>>

\* handleBuildHouse_Update: the first 1024 bytes are kept for the student, and the
\* message is sent on to the whiteboard.  Only ids above 35 are refused.
Update ==
  LET sid == m.arg.studentId IN
  /\ HouseHandle("update")
  /\ longlong_data' = IF sid \in Rows THEN [longlong_data EXCEPT ![sid] = m.arg.data]
                                      ELSE longlong_data
  /\ damaged' = (damaged \/ sid < 0)
  /\ boards' = [fd \in Fds |->
       IF fd = test_white_fd /\ sid \in Rows
         THEN [boards[fd] EXCEPT ![sid] = [house |-> m.arg.data, whole |-> TRUE]]
         ELSE boards[fd]]
  /\ Survives(damaged')
  /\ UNCHANGED <<groupVars, nodeVars, lists, skipped, strayed>>

\* handleRainbowValley_HouseInfo: every house there is goes to the whiteboard as
\* far as it was kept, but for those no buffer is left for.  The row of a student
\* that has sent none is queued too, with whatever descriptor and size its buffer
\* had before.
HouseInfo ==
  /\ HouseHandle("houseInfo")
  /\ skipped' \in SUBSET Students35
  /\ boards' = [fd \in Fds |->
       IF fd # test_white_fd THEN boards[fd]
       ELSE [id \in Rows |->
              IF id \in skipped' \cup {0} \/ longlong_data[id] = NoHouse THEN boards[fd][id]
              ELSE [house |-> longlong_data[id], whole |-> longlong_data[id] \notin LongHouses]]]
  /\ \E stale \in SUBSET Fds :
       /\ Cardinality(stale)
            <= Cardinality({id \in Students35 \ skipped' : longlong_data[id] = NoHouse})
       /\ strayed' = strayed \cup stale
  /\ UNCHANGED <<up, groupVars, nodeVars, lists, longlong_data, damaged>>

\* handleControlChangeScene, the show: 15 starts it, and the room's whiteboard
\* joins the group; 16 ends it.
Scene ==
  LET r == RoomOf(m.fd)
      start == r # 0 /\ m.arg = 15 /\ m_is_show[r] = 0 IN
  /\ ControlChangeScene
  /\ m_is_show' = IF r = 0 THEN m_is_show
                  ELSE [m_is_show EXCEPT ![r] = CASE m.arg = 15 -> 1
                                                  [] m.arg = 16 -> 0 [] OTHER -> @]
  /\ test_group' = IF start /\ m_white_fd[r] > 0 THEN test_group \cup {m_white_fd[r]}
                                                 ELSE test_group
  /\ UNCHANGED <<test_white_fd, nodeVars, lists, houseData, damaged>>

HouseStep ==
  \/ GameStart \/ AddPic \/ MovePic \/ ScalePic \/ AnglePic \/ DelPic \/ ChangeLayer
  \/ Update \/ HouseInfo \/ Scene

(***************************************************************************)
(* Specification                                                           *)
(***************************************************************************)
HouseNext ==
  \/ HouseAccept
  \/ \E fd \in Fds : ClientStep(fd) /\ UNCHANGED house
  \/ \E fd \in Fds : HouseClient(fd)
  \/ HouseStep
  \/ ClassStep /\ UNCHANGED house
  \/ CloseStep /\ UNCHANGED house

HouseSpec == HouseInit /\ [][HouseNext]_houseVars

(***************************************************************************)
(* Properties                                                              *)
(***************************************************************************)
\* The house's variables have their types, and a layer names one picture: the
\* clients, who speak of layers, and the server, which keeps ids, mean the same.
HouseTypeOK ==
  /\ m_is_show \in [Rooms -> {0, 1}]
  /\ test_group \subseteq Fds /\ test_white_fd \in Fds \cup {0}
  /\ DOMAIN m_node_map \subseteq 1 .. m_auto_nodeid - 1
  /\ \A id \in DOMAIN m_node_map : m_node_map[id] \in Pictures
  /\ \A id, other \in DOMAIN m_node_map :
       m_node_map[id].layer = m_node_map[other].layer => id = other
  /\ m_node_layer_list \in Seq(Nat)
  /\ m_auto_nodeid \in Nat /\ m_current_layer \in Nat
  /\ longlong_data \in [Rows -> Houses \cup {NoHouse}]
  /\ boards \in [Fds -> [Rows -> [house : Houses \cup {NoHouse}, whole : BOOLEAN]]]
  /\ \A fd \in Fds : DOMAIN shown[fd].pics \subseteq 1 .. m_auto_nodeid - 1
  /\ missed \subseteq test_group /\ strayed \subseteq Fds
  /\ skipped \subseteq Students35 /\ damaged \in BOOLEAN

\* A message about a picture in a client's list changes or deletes that picture
\* or none, however many were added and deleted before it is handled and however
\* old the list is: if the picture fits the digits and bits DataTool has for it,
\* and no memory was overwritten.
OnlyTheOneMeant ==
  [][\A id \in DOMAIN m_node_map :
       /\ id \notin DOMAIN m_node_map' \/ m_node_map'[id] # m_node_map[id]
       /\ m.arg.fits /\ ~damaged
       => m.arg.meant = id]_houseVars

\* The layer identifies the picture (protocol.h:700), whatever else it is: every
\* message about a picture changes or deletes that picture or none.
LayerIsThePicture ==
  [][\A id \in DOMAIN m_node_map :
       /\ id \notin DOMAIN m_node_map' \/ m_node_map'[id] # m_node_map[id]
       /\ ~damaged
       => m.arg.meant = id]_houseVars

\* A client of the group has as many pictures as the house has now, or 1000 for
\* none, and reads there each one that fits, but for what is behind the point of
\* its fields: unless it has not been sent any list, or not the last one because
\* the buffers ran out, or bytes in between that are no message.
MembersUpToDate ==
  \A fd \in test_group \ (missed \cup strayed) : shown[fd] # NoList /\ ~damaged =>
    /\ DOMAIN shown[fd].pics = DOMAIN m_node_map
    /\ \/ shown[fd].count = Cardinality(DOMAIN m_node_map)
       \/ shown[fd].count = 1000 /\ m_node_map = Empty
    /\ \A id \in DOMAIN m_node_map : Fits(m_node_map[id]) =>
         /\ Readable(shown[fd].pics[id].data)
         /\ getPicture(shown[fd].pics[id].data) = Rounded(m_node_map[id])

\* What the whiteboard in charge shows as a student's house is the one the
\* student sent last, whole unless it is longer than what is kept of it.
BoardIsCurrent(id) ==
  \A fd \in Fds \ strayed : fd = test_white_fd =>
    \/ boards[fd][id] = NoBoard
    \/ /\ boards[fd][id].house = longlong_data[id]
       /\ boards[fd][id].whole \/ longlong_data[id] \in LongHouses

\* The answer to a question for the houses makes the board current for every
\* student there was a buffer for, and it stays so, through updates and connections
\* that come and go, until another whiteboard takes the place: one that comes back
\* to it after updates that went to the other shows old houses until it asks.
BoardKeepsUp ==
  [][\A id \in Students35 :
       /\ \/ BoardIsCurrent(id) /\ test_white_fd' = test_white_fd
          \/ /\ recvqueue # <<>> /\ recvqueue' = Tail(recvqueue) /\ m.op = "houseInfo"
             /\ id \notin skipped'
       /\ ~damaged'
       => BoardIsCurrent(id)']_houseVars

==============================================================================
