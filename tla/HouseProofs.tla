------------------------------ MODULE HouseProofs ------------------------------
(***************************************************************************)
(* House for any clients and whatever they say of pictures, houses and     *)
(* students.                                                               *)
(*                                                                         *)
(* Clients name a picture by its layer, the server keeps it by its id.     *)
(* That they mean the same rests on two facts of                           *)
(* handleBuildHouse_Add_Pic: id and layer are counted up together, and     *)
(* neither is given twice.  So a picture's layer is its id; a list that    *)
(* was ever sent has it there if the picture fitted (PictureComesBack);    *)
(* and so has every message about a picture that waits.                    *)
(*                                                                         *)
(* The last part has the types, and the houses on the whiteboards.         *)
(***************************************************************************)
EXTENDS House, DataToolProofs, SequenceTheorems, NatLemmas, TLAPS

EditOps == {"movePic", "scalePic", "anglePic", "delPic", "changeLayer"}

\* A picture's layer is its id, and both are below the next ones.
LayersAreIds ==
  /\ m_auto_nodeid \in Nat \ {0} /\ m_current_layer = m_auto_nodeid
  /\ \A id \in DOMAIN m_node_map :
       /\ id \in 1 .. m_auto_nodeid - 1
       /\ m_node_map[id] \in Pictures /\ m_node_map[id].layer = id

\* A list of pictures from before the next node is `top', however old.
Says(list, top) ==
  /\ DOMAIN list.pics \subseteq 1 .. top - 1
  /\ \A id \in DOMAIN list.pics :
       /\ getPicture(list.pics[id].data).layer \in Int
       /\ list.pics[id].fits => getPicture(list.pics[id].data).layer = id

\* The list of the pictures there are now.
Current(list) ==
  /\ list.pics = Packed(m_node_map)
  /\ list.count = Cardinality(DOMAIN m_node_map) \/ (list.count = 1000 /\ m_node_map = Empty)

\* Whoever was sent a list is in the group, and has that of now unless it missed it.
ListsAreCurrent ==
  /\ shown = [fd \in Fds |-> shown[fd]]
  /\ \A fd \in Fds : Says(shown[fd], m_auto_nodeid)
  /\ \A fd \in Fds : shown[fd] # NoList =>
       fd \in test_group /\ (fd \in missed \/ Current(shown[fd]))

\* What a message says.
Meant(msg) ==
  /\ msg.fd \in Fds
  /\ msg.op = "update" => msg.arg.data \in Houses /\ msg.arg.studentId \in Int
  /\ msg.op = "changeLayer" => msg.arg.to \in Int
  /\ msg.op = "addPic" =>
       msg.arg.name \in Names /\ msg.arg.at \in Places /\ msg.arg.studentId \in Int
  /\ msg.op \in {"movePic", "scalePic", "anglePic"} => msg.arg.to \in Places
  /\ msg.op \in EditOps =>
       msg.arg.layer \in Int /\ (msg.arg.fits => msg.arg.layer = msg.arg.meant)

MessagesMeant ==
  /\ \E S : recvqueue \in Seq(S)
  /\ \A i \in 1 .. Len(recvqueue) : Meant(recvqueue[i])

\* The clients have ids.
People ==
  /\ coming \in Seq(Clients)
  /\ client = [fd \in Fds |-> client[fd]]
  /\ \A fd \in Fds :
       /\ client[fd] = [kind |-> client[fd].kind, id |-> client[fd].id,
                        room |-> client[fd].room, in |-> client[fd].in]
       /\ client[fd].id \in Nat

HIInv == LayersAreIds /\ ListsAreCurrent /\ MessagesMeant /\ People

(***************************************************************************)
(* Lemmas                                                                  *)
(***************************************************************************)

\* The picture a message names by its layer is the one with that id.
LEMMA NodeIs ==
  ASSUME LayersAreIds, NEW layer
  PROVE  NodeOf(layer) = IF layer \in DOMAIN m_node_map THEN layer ELSE ERRORNODEID
<1> DEFINE ids == {id \in DOMAIN m_node_map : m_node_map[id].layer = layer}
<1>1. ids = DOMAIN m_node_map \cap {layer}
  BY DEF LayersAreIds
<1>2. CASE layer \in DOMAIN m_node_map
  <2>1. ids = {layer} /\ layer \in Nat
    BY <1>1, <1>2 DEF LayersAreIds
  <2>2. NodeOf(layer) = CHOOSE id \in ids : \A other \in ids : id <= other
    BY <2>1 DEF NodeOf
  <2> HIDE DEF ids
  <2> QED BY <1>2, <2>1, <2>2
<1>3. CASE layer \notin DOMAIN m_node_map
  BY <1>1, <1>3 DEF NodeOf
<1> QED BY <1>2, <1>3

\* What set_buf packs says what the pictures are that fit.
LEMMA PackedSays ==
  ASSUME NEW map, NEW id \in DOMAIN map, map[id] \in Pictures, map[id].layer = id
  PROVE  LET entry == Packed(map)[id] IN
         /\ getPicture(entry.data).layer \in Int
         /\ entry.fits => getPicture(entry.data).layer = id
         /\ Fits(map[id]) => Readable(entry.data) /\ getPicture(entry.data) = Rounded(map[id])
<1>1. Packed(map)[id].data = getData(map[id]) /\ Packed(map)[id].fits = Fits(map[id])
  BY DEF Packed
<1>2. getPicture(getData(map[id])).layer \in Int
  BY PackedInt
<1>3. ASSUME Fits(map[id])
      PROVE  /\ Readable(getData(map[id])) /\ getPicture(getData(map[id])) = Rounded(map[id])
             /\ getPicture(getData(map[id])).layer = id
  <2>1. Readable(getData(map[id])) /\ getPicture(getData(map[id])) = Rounded(map[id])
    BY <1>3, PictureComesBack
  <2>2. Rounded(map[id]).layer = id
    BY DEF Rounded
  <2> QED BY <2>1, <2>2
<1> QED BY <1>1, <1>2, <1>3, Zenon

\* A message taken leaves those behind it.
LEMMA TakeMeant ==
  ASSUME MessagesMeant, NEW op, Handle(op)
  PROVE  /\ m.op = op /\ Meant(m)
         /\ \E S : recvqueue' \in Seq(S)
         /\ \A i \in 1 .. Len(recvqueue') : Meant(recvqueue'[i])
<1>1. PICK S : recvqueue \in Seq(S)
  BY DEF MessagesMeant
<1>2. recvqueue # <<>> /\ m.op = op /\ recvqueue' = Tail(recvqueue)
  BY DEF Handle
<1>3. /\ Len(recvqueue) \in Nat \ {0} /\ m = recvqueue[1] /\ recvqueue' \in Seq(S)
      /\ Len(recvqueue') = Len(recvqueue) - 1
      /\ \A i \in 1 .. Len(recvqueue') : recvqueue'[i] = recvqueue[i + 1]
  BY <1>1, <1>2, HeadTailProperties, EmptySeq DEF m
<1>4. 1 \in 1 .. Len(recvqueue) /\ \A i \in 1 .. Len(recvqueue') : i + 1 \in 1 .. Len(recvqueue)
  BY <1>3
<1>5. Meant(m)
  BY <1>3, <1>4 DEF MessagesMeant
<1>6. \A i \in 1 .. Len(recvqueue') : Meant(recvqueue'[i])
  BY <1>3, <1>4 DEF MessagesMeant
<1>7. \E T : recvqueue' \in Seq(T)
  BY <1>3
<1> QED BY <1>2, <1>5, <1>6, <1>7

\* A message added.
LEMMA AppendMeant ==
  ASSUME MessagesMeant, NEW msg, Meant(msg),
         recvqueue' = Append(recvqueue, msg)
  PROVE  MessagesMeant'
<1>1. PICK S : recvqueue \in Seq(S)
  BY DEF MessagesMeant
<1> DEFINE T == S \cup {msg}
           k == Len(recvqueue)
<1>2. recvqueue \in Seq(T) /\ msg \in T
  BY <1>1, SeqMonotonic
<1>3. /\ recvqueue' \in Seq(T) /\ k \in Nat /\ Len(recvqueue') = k + 1
      /\ \A i \in 1 .. k : recvqueue'[i] = recvqueue[i]
      /\ recvqueue'[k + 1] = msg
  <2> HIDE DEF T
  <2> QED BY <1>2, AppendProperties, LenProperties
<1>4. \A i \in 1 .. k + 1 : i \in 1 .. k \/ i = k + 1
  BY <1>3
<1>5. \A i \in 1 .. k : Meant(recvqueue[i])
  BY DEF MessagesMeant
<1>6. \A i \in 1 .. k + 1 : Meant(recvqueue'[i])
  BY <1>3, <1>4, <1>5
<1>7. \E U : recvqueue' \in Seq(U)
  BY <1>3
<1> HIDE DEF k
<1> QED BY <1>3, <1>6, <1>7 DEF MessagesMeant

\* The lists after sendToOtherStudent.
LEMMA ListsSent ==
  ASSUME ListsAreCurrent, LayersAreIds, LayersAreIds', NEW count, NEW harm,
         sendToOtherStudent(count, harm), UNCHANGED test_group,
         m_auto_nodeid <= m_auto_nodeid',
         \/ count = Cardinality(DOMAIN m_node_map')
         \/ count = 1000 /\ m_node_map' = Empty
  PROVE  ListsAreCurrent'
<1> DEFINE new == [count |-> count, pics |-> Packed(m_node_map')]
<1>1. PICK reached \in {test_group} \cup {{fd \in test_group : fd < stop} : stop \in test_group} :
        /\ shown' = [fd \in Fds |-> IF fd \in reached THEN new ELSE shown[fd]]
        /\ missed' = test_group \ reached
  BY DEF sendToOtherStudent
<1>2. reached \subseteq test_group
  OBVIOUS
<1>3. Says(new, m_auto_nodeid')
  <2>1. new.pics = Packed(m_node_map') /\ DOMAIN new.pics = DOMAIN m_node_map'
    BY DEF Packed
  <2>2. \A id \in DOMAIN m_node_map' :
          /\ id \in 1 .. m_auto_nodeid' - 1
          /\ m_node_map'[id] \in Pictures /\ m_node_map'[id].layer = id
    BY DEF LayersAreIds
  <2> HIDE DEF new
  <2>3. \A id \in DOMAIN m_node_map' :
          /\ getPicture(new.pics[id].data).layer \in Int
          /\ new.pics[id].fits => getPicture(new.pics[id].data).layer = id
    <3>1. ASSUME NEW id \in DOMAIN m_node_map'
          PROVE  LET entry == Packed(m_node_map')[id] IN
                 /\ getPicture(entry.data).layer \in Int
                 /\ entry.fits => getPicture(entry.data).layer = id
      BY <2>2, PackedSays
    <3> QED BY <2>1, <3>1
  <2> QED BY <2>1, <2>2, <2>3 DEF Says
<1>4. /\ new.pics = Packed(m_node_map')
      /\ \/ new.count = Cardinality(DOMAIN m_node_map')
         \/ new.count = 1000 /\ m_node_map' = Empty
  OBVIOUS
<1> HIDE DEF new
<1>5. ASSUME NEW fd \in Fds
      PROVE  /\ Says(shown'[fd], m_auto_nodeid')
             /\ shown'[fd] # NoList => fd \in test_group' /\ (fd \in missed' \/ Current(shown[fd])')
  <2>1. CASE fd \in reached
    <3>1. shown'[fd] = new /\ fd \in test_group'
      BY <1>1, <1>2, <2>1
    <3> QED BY <1>3, <1>4, <3>1 DEF Current
  <2>2. CASE fd \notin reached
    <3>1. shown'[fd] = shown[fd] /\ Says(shown[fd], m_auto_nodeid)
      BY <1>1, <2>2 DEF ListsAreCurrent
    <3>2. m_auto_nodeid \in Nat /\ m_auto_nodeid' \in Nat
      BY DEF LayersAreIds
    <3>3. Says(shown'[fd], m_auto_nodeid')
      BY <3>1, <3>2 DEF Says
    <3> QED BY <1>1, <2>2, <3>1, <3>3 DEF ListsAreCurrent
  <2> QED BY <2>1, <2>2
<1>6. shown' = [fd \in Fds |-> shown'[fd]]
  BY <1>1
<1> QED BY <1>5, <1>6 DEF ListsAreCurrent

\* The lists when the pictures stay and the group grows.
LEMMA ListsSame ==
  ASSUME ListsAreCurrent, UNCHANGED <<m_node_map, m_auto_nodeid, lists>>,
         test_group \subseteq test_group'
  PROVE  ListsAreCurrent'
BY DEF ListsAreCurrent, Current, lists

\* The server starts with no pictures and no messages.
LEMMA HouseInitMeant == HouseInit => HIInv
<1> SUFFICES ASSUME HouseInit PROVE HIInv
  OBVIOUS
<1>1. LayersAreIds /\ ListsAreCurrent
  BY DEF HouseInit, LayersAreIds, ListsAreCurrent, Says, NoList, Empty
<1>2. MessagesMeant
  BY EmptySeq DEF HouseInit, Init, MessagesMeant
<1>3. People
  <2>1. scenario \in Scenarios /\ coming = scenario.cast /\ Scenarios \subseteq Scenario
    BY BoundsAssumption DEF HouseInit, Init
  <2>2. coming \in Seq(Clients)
    BY <2>1 DEF Scenario
  <2> QED BY <2>2 DEF HouseInit, Init, People, NoClient
<1> QED BY <1>1, <1>2, <1>3 DEF HIInv

(***************************************************************************)
(* What clients do                                                         *)
(***************************************************************************)
\* A message that means what it says leaves the house as it is.
LEMMA SendMeant ==
  ASSUME HIInv, UNCHANGED house, NEW fd, NEW op, NEW arg, Send(fd, op, arg),
         Meant([fd |-> fd, op |-> op, arg |-> arg])
  PROVE  LayersAreIds' /\ ListsAreCurrent' /\ MessagesMeant' /\ UNCHANGED coming
<1>1. /\ recvqueue' = Append(recvqueue, [fd |-> fd, op |-> op, arg |-> arg])
      /\ UNCHANGED coming
  BY DEF Send
<1>2. /\ UNCHANGED <<test_group, m_node_map, m_auto_nodeid, m_current_layer, lists>>
      /\ LayersAreIds /\ ListsAreCurrent /\ MessagesMeant
  BY DEF HIInv, house, groupVars, nodeVars
<1>3. MessagesMeant'
  BY <1>1, <1>2, AppendMeant, Zenon
<1>4. LayersAreIds'
  BY <1>2 DEF LayersAreIds
<1>5. ListsAreCurrent'
  BY <1>2, ListsSame
<1> QED BY <1>1, <1>3, <1>4, <1>5

\* A message that is about no picture and no house.
LEMMA OtherMeant ==
  ASSUME NEW fd \in Fds, NEW op, NEW arg, op \notin EditOps \cup {"addPic", "update"}
  PROVE  Meant([fd |-> fd, op |-> op, arg |-> arg])
BY DEF Meant, EditOps

\* A client that a message changes has the id it had.
LEMMA PeopleStay ==
  ASSUME People, UNCHANGED coming, NEW fd \in Fds, NEW room, NEW in,
         \/ UNCHANGED client
         \/ client' = [client EXCEPT ![fd].room = room]
         \/ client' = [client EXCEPT ![fd].in = in]
  PROVE  People'
<1>1. \/ UNCHANGED client
      \/ client' = [client EXCEPT ![fd] = [@ EXCEPT !.room = room]]
      \/ client' = [client EXCEPT ![fd] = [@ EXCEPT !.in = in]]
  OBVIOUS
<1>2. /\ client' = [g \in Fds |-> client'[g]]
      /\ \A g \in Fds : \/ client'[g] = client[g]
                        \/ client'[g] = [client[g] EXCEPT !.room = room]
                        \/ client'[g] = [client[g] EXCEPT !.in = in]
  BY <1>1 DEF People
<1>3. ASSUME NEW g \in Fds
      PROVE  /\ client'[g] = [kind |-> client'[g].kind, id |-> client'[g].id,
                              room |-> client'[g].room, in |-> client'[g].in]
             /\ client'[g].id \in Nat
  <2>1. /\ client[g] = [kind |-> client[g].kind, id |-> client[g].id,
                        room |-> client[g].room, in |-> client[g].in]
        /\ client[g].id \in Nat
    BY DEF People
  <2> QED BY <1>2, <2>1
<1>4. coming' \in Seq(Clients)
  BY DEF People
<1> QED BY <1>2, <1>3, <1>4 DEF People

\* The actions of module Room's clients.
LEMMA ClientMeant ==
  ASSUME HIInv, UNCHANGED house, NEW fd \in Fds, ClientStep(fd)
  PROVE  HIInv'
<1> DEFINE Quiet == \E op, arg : Send(fd, op, arg)
                                 /\ op \notin EditOps \cup {"addPic", "update"}
           Changed == \E room, in :
             \/ UNCHANGED client
             \/ client' = [client EXCEPT ![fd].room = room]
             \/ client' = [client EXCEPT ![fd].in = in]
<1>0. {"selectStudent", "selectWhite", "login", "confirmLeaveEarly", "loginClassRoom",
       "controlChangeScene", "logoutClassRoom", "puzzleStart", "puzzleEnd"}
        \cap (EditOps \cup {"addPic", "update"}) = {}
  BY DEF EditOps
<1>1. (Quiet /\ Changed) \/ Die(fd)
  <2>1. CASE \E r \in scenario.rooms : AskSelect(fd, r)
    <3>1. PICK r : AskSelect(fd, r)
      BY <2>1
    <3>2. PICK op : Send(fd, op, r) /\ op \in {"selectStudent", "selectWhite"}
      BY <3>1 DEF AskSelect
    <3>3. client' = [client EXCEPT ![fd].room = r]
      BY <3>1, Zenon DEF AskSelect
    <3> QED BY <1>0, <3>2, <3>3, Zenon
  <2>2. CASE AskLogin(fd)
    <3>1. PICK arg : Send(fd, "login", arg)
      BY <2>2 DEF AskLogin
    <3>2. client' = [client EXCEPT ![fd].in = TRUE]
      BY <2>2, Zenon DEF AskLogin
    <3> QED BY <1>0, <3>1, <3>2, Zenon
  <2>3. CASE AskLeaveEarly(fd)
    BY <1>0, <2>3 DEF AskLeaveEarly
  <2>4. CASE \E r \in scenario.rooms : AskEnter(fd, r)
    <3>1. PICK r : AskEnter(fd, r)
      BY <2>4
    <3>2. client' = [client EXCEPT ![fd].room = r] /\ Send(fd, "loginClassRoom", r)
      BY <3>1, Zenon DEF AskEnter
    <3> QED BY <1>0, <3>2, Zenon
  <2>5. CASE \E scene \in Scenes : AskScene(fd, scene)
    BY <1>0, <2>5 DEF AskScene
  <2>6. CASE AskLeave(fd)
    <3>1. client' = [client EXCEPT ![fd].room = 0] /\ Send(fd, "logoutClassRoom", 0)
      BY <2>6, Zenon DEF AskLeave
    <3> QED BY <1>0, <3>1, Zenon
  <2>7. CASE AskPuzzleStart(fd)
    BY <1>0, <2>7 DEF AskPuzzleStart
  <2>8. CASE AskPuzzleEnd(fd)
    BY <1>0, <2>8 DEF AskPuzzleEnd
  <2> QED BY <2>1, <2>2, <2>3, <2>4, <2>5, <2>6, <2>7, <2>8 DEF ClientStep
<1>2. CASE Quiet /\ Changed
  <2>1. PICK op, arg : Send(fd, op, arg) /\ op \notin EditOps \cup {"addPic", "update"}
    BY <1>2
  <2>2. LayersAreIds' /\ ListsAreCurrent' /\ MessagesMeant' /\ UNCHANGED coming
    BY <2>1, SendMeant, OtherMeant, Zenon
  <2>3. People'
    BY <1>2, <2>2, PeopleStay DEF HIInv
  <2> QED BY <2>2, <2>3 DEF HIInv
<1>3. CASE Die(fd)
  <2>1. /\ UNCHANGED <<test_group, m_node_map, m_auto_nodeid, m_current_layer, lists>>
        /\ UNCHANGED <<recvqueue, coming, client>>
    BY <1>3 DEF Die, house, groupVars, nodeVars
  <2>2. ListsAreCurrent'
    BY <2>1, ListsSame DEF HIInv
  <2> QED BY <2>1, <2>2 DEF HIInv, LayersAreIds, MessagesMeant, People
<1> QED BY <1>1, <1>2, <1>3

\* What a list has for a layer is a number, and the picture's id if it fitted.
LEMMA LayersRead ==
  ASSUME HIInv, NEW fd \in Fds, NEW id \in Named(fd)
  PROVE  LayerRead(fd, id) \in Int /\ (shown[fd].pics[id].fits => LayerRead(fd, id) = id)
BY DEF HIInv, ListsAreCurrent, Says, Named, LayerRead

\* A message about a picture in a list has its layer.
LEMMA EditMeant ==
  ASSUME HIInv, NEW fd \in Fds, NEW op \in EditOps, NEW id \in Named(fd), NEW to,
         op \in {"movePic", "scalePic", "anglePic"} => to \in Places,
         op = "changeLayer" => to \in Int
  PROVE  Meant([fd |-> fd, op |-> op,
                arg |-> [layer |-> LayerRead(fd, id), to |-> to, meant |-> id,
                         fits |-> shown[fd].pics[id].fits]])
<1> DEFINE layer == LayerRead(fd, id)
           fits == shown[fd].pics[id].fits
<1>1. layer \in Int /\ (fits => layer = id)
  BY LayersRead
<1> HIDE DEF layer, fits
<1>2. Meant([fd |-> fd, op |-> op,
             arg |-> [layer |-> layer, to |-> to, meant |-> id, fits |-> fits]])
  BY <1>1 DEF Meant, EditOps
<1> QED BY <1>2 DEF layer, fits

\* The actions of this module's clients.
LEMMA HouseClientMeant ==
  ASSUME HIInv, NEW fd \in Fds, HouseClient(fd)
  PROVE  HIInv'
<1>0. {"gameStart", "houseInfo"} \cap (EditOps \cup {"addPic", "update"}) = {}
  BY DEF EditOps
<1>2. ASSUME NEW op, NEW arg, Ask(fd, op, arg),
             Meant([fd |-> fd, op |-> op, arg |-> arg])
      PROVE  HIInv'
  <2>1. Send(fd, op, arg) /\ UNCHANGED house /\ UNCHANGED client
    BY <1>2 DEF Ask
  <2>2. LayersAreIds' /\ ListsAreCurrent' /\ MessagesMeant' /\ UNCHANGED coming
    BY <1>2, <2>1, SendMeant
  <2>3. People'
    BY <2>1, <2>2 DEF HIInv, People
  <2> QED BY <2>2, <2>3 DEF HIInv
<1>1. CASE AskBoard(fd)
  <2>1. Ask(fd, "gameStart", 1)
    BY <1>1 DEF AskBoard
  <2>2. Meant([fd |-> fd, op |-> "gameStart", arg |-> 1])
    BY <1>0, OtherMeant, Zenon
  <2> QED BY <1>2, <2>1, <2>2, Zenon
<1>3. CASE AskJoin(fd)
  <2>1. Ask(fd, "gameStart", 0)
    BY <1>3 DEF AskJoin
  <2>2. Meant([fd |-> fd, op |-> "gameStart", arg |-> 0])
    BY <1>0, OtherMeant, Zenon
  <2> QED BY <1>2, <2>1, <2>2, Zenon
<1>4. CASE AskInfo(fd)
  <2>1. Ask(fd, "houseInfo", 0)
    BY <1>4 DEF AskInfo
  <2>2. Meant([fd |-> fd, op |-> "houseInfo", arg |-> 0])
    BY <1>0, OtherMeant, Zenon
  <2> QED BY <1>2, <2>1, <2>2, Zenon
<1>8. \A sid \in PictureIds \cup HouseIds \cup {client[fd].id} : sid \in Int
  <2>1. client[fd].id \in Int
    BY DEF HIInv, People
  <2>2. PictureIds \subseteq Int /\ HouseIds \subseteq Int
    BY HouseAssumption
  <2> QED BY <2>1, <2>2, Zenon
<1>5. CASE \E data \in Houses, sid \in HouseIds \cup {client[fd].id} : AskUpdate(fd, data, sid)
  <2>1. PICK data \in Houses, sid \in HouseIds \cup {client[fd].id} : AskUpdate(fd, data, sid)
    BY <1>5
  <2>2. Ask(fd, "update", [studentId |-> sid, data |-> data]) /\ sid \in Int
    BY <1>8, <2>1 DEF AskUpdate
  <2>3. Meant([fd |-> fd, op |-> "update", arg |-> [studentId |-> sid, data |-> data]])
    BY <2>2 DEF Meant, EditOps
  <2> QED BY <1>2, <2>2, <2>3, Zenon
<1>6. CASE \E name \in Names, at \in Places, sid \in PictureIds \cup {client[fd].id} :
             AskAdd(fd, name, at, sid)
  <2>1. PICK name \in Names, at \in Places, sid \in PictureIds \cup {client[fd].id} :
          AskAdd(fd, name, at, sid)
    BY <1>6
  <2>2. Ask(fd, "addPic", [name |-> name, at |-> at, studentId |-> sid]) /\ sid \in Int
    BY <1>8, <2>1 DEF AskAdd
  <2>3. Meant([fd |-> fd, op |-> "addPic",
               arg |-> [name |-> name, at |-> at, studentId |-> sid]])
    BY <2>2 DEF Meant, EditOps
  <2> QED BY <1>2, <2>2, <2>3, Zenon
<1>7. CASE \E id \in Named(fd) :
             \/ \E to \in Places, op \in {"movePic", "scalePic", "anglePic"} :
                  AskEdit(fd, op, id, to)
             \/ AskEdit(fd, "delPic", id, 0)
             \/ \E other \in Named(fd) : AskEdit(fd, "changeLayer", id, LayerRead(fd, other))
  <2>0. \A other \in Named(fd) : LayerRead(fd, other) \in Int
    BY LayersRead
  <2>1. PICK to : \E id \in Named(fd), op \in EditOps :
          /\ AskEdit(fd, op, id, to)
          /\ op \in {"movePic", "scalePic", "anglePic"} => to \in Places
          /\ op = "changeLayer" => to \in Int
    BY <1>7, <2>0 DEF EditOps
  <2>2. PICK id \in Named(fd), op \in EditOps :
          /\ AskEdit(fd, op, id, to)
          /\ op \in {"movePic", "scalePic", "anglePic"} => to \in Places
          /\ op = "changeLayer" => to \in Int
    BY <2>1
  <2>3. Meant([fd |-> fd, op |-> op,
               arg |-> [layer |-> LayerRead(fd, id), to |-> to, meant |-> id,
                        fits |-> shown[fd].pics[id].fits]])
    BY <2>2, EditMeant
  <2> QED BY <1>2, <2>2, <2>3, Zenon DEF AskEdit
<1> QED BY <1>1, <1>3, <1>4, <1>5, <1>6, <1>7 DEF HouseClient

\* A new client has an id and has been shown nothing.
LEMMA AcceptMeant ==
  ASSUME HIInv, HouseAccept
  PROVE  HIInv'
<1>1. /\ coming # <<>> /\ coming' = Tail(coming)
      /\ UNCHANGED <<recvqueue, test_group, m_node_map, m_auto_nodeid, m_current_layer, missed>>
  BY DEF HouseAccept, Accept, groupVars, nodeVars
<1>2. PICK fd \in scenario.fds :
        client' = [client EXCEPT ![fd] = [NoClient EXCEPT !.kind = Head(coming).kind,
                                                          !.id = Head(coming).id]]
  BY DEF HouseAccept, Accept
<1>3. /\ coming' \in Seq(Clients) /\ Head(coming) \in Clients
  BY <1>1, HeadTailProperties DEF HIInv, People
<1>4. Head(coming).id \in Nat
  <2>1. Head(coming).id \in Ids \cup {0}
    BY <1>3 DEF Clients
  <2>2. Ids \cup {0} \subseteq Nat
    BY IdsAssumption
  <2> QED BY <2>1, <2>2, Zenon
<1>5. People'
  <2>1. /\ client' = [g \in Fds |-> client'[g]]
        /\ \A g \in Fds : \/ client'[g] = client[g]
                          \/ client'[g] = [kind |-> Head(coming).kind, id |-> Head(coming).id,
                                           room |-> 0, in |-> FALSE]
    BY <1>2 DEF HIInv, People, NoClient
  <2> QED BY <1>3, <1>4, <2>1 DEF HIInv, People
<1>6. ListsAreCurrent'
  <2>1. PICK new : shown' = [g \in Fds |-> IF g \in new THEN NoList ELSE shown[g]]
    BY DEF HouseAccept
  <2>2. /\ shown' = [g \in Fds |-> shown'[g]]
        /\ \A g \in Fds : shown'[g] = shown[g] \/ shown'[g] = NoList
    BY <2>1
  <2>3. \A g \in Fds : Says(shown'[g], m_auto_nodeid')
    <3>1. Says(NoList, m_auto_nodeid)
      BY DEF Says, NoList, Empty
    <3> QED BY <1>1, <2>2, <3>1 DEF HIInv, ListsAreCurrent
  <2>4. ASSUME NEW g \in Fds, shown'[g] # NoList
        PROVE  g \in test_group' /\ (g \in missed' \/ Current(shown[g])')
    <3>1. shown'[g] = shown[g]
      BY <2>2, <2>4
    <3> QED BY <1>1, <2>4, <3>1 DEF HIInv, ListsAreCurrent, Current
  <2> QED BY <2>2, <2>3, <2>4 DEF ListsAreCurrent
<1>7. LayersAreIds' /\ MessagesMeant'
  BY <1>1 DEF HIInv, LayersAreIds, MessagesMeant
<1> QED BY <1>5, <1>6, <1>7 DEF HIInv

(***************************************************************************)
(* What the handlers do                                                    *)
(***************************************************************************)
\* The property's action, without the next-state relation.
OneMeantNext ==
  \A id \in DOMAIN m_node_map :
    /\ id \notin DOMAIN m_node_map' \/ m_node_map'[id] # m_node_map[id]
    /\ m.arg.fits /\ ~damaged
    => m.arg.meant = id

\* The messages left mean what they say.
LEMMA RestMeant ==
  ASSUME HIInv, NEW op, Handle(op)
  PROVE  MessagesMeant'
BY TakeMeant DEF HIInv, MessagesMeant

\* A message about a picture has the layer of the one it means, if that fitted.
LEMMA LayerMeant ==
  ASSUME HIInv, NEW op \in EditOps, Handle(op)
  PROVE  m.arg.layer \in Int /\ (m.arg.fits => m.arg.layer = m.arg.meant)
<1>1. m.op = op /\ Meant(m)
  BY TakeMeant DEF HIInv
<1> QED BY <1>1 DEF Meant

\* A handler that leaves the pictures as they are, and sends them or not.
LEMMA PicturesStay ==
  ASSUME HIInv, NEW op, Handle(op), UNCHANGED <<coming, client>>,
         UNCHANGED <<m_node_map, m_auto_nodeid, m_current_layer>>,
         \/ UNCHANGED lists /\ test_group \subseteq test_group'
         \/ /\ \E harm : sendToOtherStudent(Cardinality(DOMAIN m_node_map'), harm)
            /\ UNCHANGED test_group
  PROVE  HIInv' /\ OneMeantNext
<1>1. LayersAreIds'
  BY DEF HIInv, LayersAreIds
<1>2. ListsAreCurrent'
  <2>1. CASE UNCHANGED lists /\ test_group \subseteq test_group'
    BY <2>1, ListsSame DEF HIInv
  <2>2. CASE /\ \E harm : sendToOtherStudent(Cardinality(DOMAIN m_node_map'), harm)
             /\ UNCHANGED test_group
    <3>1. PICK harm : sendToOtherStudent(Cardinality(DOMAIN m_node_map'), harm)
      BY <2>2
    <3>2. m_auto_nodeid <= m_auto_nodeid'
      BY DEF HIInv, LayersAreIds
    <3> QED BY <1>1, <2>2, <3>1, <3>2, ListsSent DEF HIInv
  <2> QED BY <2>1, <2>2
<1>3. MessagesMeant'
  BY RestMeant
<1>4. People'
  BY DEF HIInv, People
<1>5. OneMeantNext
  BY DEF OneMeantNext
<1> QED BY <1>1, <1>2, <1>3, <1>4, <1>5 DEF HIInv

\* handleBuildHouse_Move, _Scale and _Angle: one picture is drawn anew.
LEMMA ModifyMeant ==
  ASSUME HIInv, NEW op \in EditOps, Handle(op), UNCHANGED <<coming, client>>,
         NEW pic, Modify(pic),
         m.arg.layer \in DOMAIN m_node_map => pic \in Pictures /\ pic.layer = m.arg.layer
  PROVE  HIInv' /\ OneMeantNext
<1> DEFINE layer == m.arg.layer
<1>0. NodeOf(layer) = IF layer \in DOMAIN m_node_map THEN layer ELSE ERRORNODEID
  BY NodeIs DEF HIInv
<1>1. /\ m_node_map' = IF NodeOf(layer) = ERRORNODEID THEN m_node_map
                       ELSE [m_node_map EXCEPT ![NodeOf(layer)] = pic]
      /\ sendToOtherStudent(Cardinality(DOMAIN m_node_map'), FALSE)
      /\ UNCHANGED <<test_group, m_auto_nodeid, m_current_layer>>
  BY DEF Modify, groupVars, sendPictures
<1>2. \A id \in DOMAIN m_node_map : id # ERRORNODEID
  BY DEF HIInv, LayersAreIds, ERRORNODEID
<1>3. m_node_map' = IF layer \in DOMAIN m_node_map THEN [m_node_map EXCEPT ![layer] = pic]
                                                   ELSE m_node_map
  BY <1>0, <1>1, <1>2
<1>4. /\ DOMAIN m_node_map' = DOMAIN m_node_map
      /\ \A id \in DOMAIN m_node_map : m_node_map'[id] = m_node_map[id] \/ id = layer
      /\ layer \in DOMAIN m_node_map => m_node_map'[layer] = pic
  BY <1>3
<1>5. LayersAreIds'
  BY <1>1, <1>4 DEF HIInv, LayersAreIds
<1>6. ListsAreCurrent'
  <2>1. m_auto_nodeid <= m_auto_nodeid'
    BY <1>1 DEF HIInv, LayersAreIds
  <2> QED BY <1>1, <1>5, <2>1, ListsSent DEF HIInv
<1>8. MessagesMeant'
  BY RestMeant
<1>9. People'
  BY DEF HIInv, People
<1>10. m.arg.fits => m.arg.meant = layer
  BY LayerMeant
<1>11. OneMeantNext
  BY <1>4, <1>10 DEF OneMeantNext
<1> QED BY <1>5, <1>6, <1>8, <1>9, <1>11 DEF HIInv

\* Where a message puts a picture is a place.
LEMMA ToPlace ==
  ASSUME HIInv, NEW op \in {"movePic", "scalePic", "anglePic"}, Handle(op)
  PROVE  m.arg.to \in Int
<1>1. m.arg.to \in Places
  BY TakeMeant DEF HIInv, Meant
<1> QED BY <1>1, HouseAssumption

\* A picture moved, scaled or turned is a picture with that layer.
Moved(pic, to) == [pic EXCEPT !.x = to, !.y = to]
Scaled(pic, to) == [pic EXCEPT !.scale = to]
Turned(pic, to) == [pic EXCEPT !.angle = to]

LEMMA Redrawn ==
  ASSUME NEW pic \in Pictures, NEW to \in Int
  PROVE  /\ Moved(pic, to) \in Pictures /\ Moved(pic, to).layer = pic.layer
         /\ Scaled(pic, to) \in Pictures /\ Scaled(pic, to).layer = pic.layer
         /\ Turned(pic, to) \in Pictures /\ Turned(pic, to).layer = pic.layer
BY DEF Pictures, Moved, Scaled, Turned

\* handleBuildHouse_Move.
LEMMA MoveMeant ==
  ASSUME HIInv, MovePic
  PROVE  HIInv' /\ OneMeantNext
<1> DEFINE pic == m_node_map[NodeOf(m.arg.layer)]
           new == Moved(pic, m.arg.to)
<1>1. Handle("movePic") /\ UNCHANGED <<coming, client>>
  BY DEF MovePic, HouseHandle, net
<1>2. CASE ~IsShown(m.fd)
  BY <1>1, <1>2, PicturesStay DEF MovePic, house, groupVars, nodeVars
<1>3. CASE IsShown(m.fd)
  <2>1. Modify(new)
    BY <1>3 DEF MovePic, Moved
  <2>2. ASSUME m.arg.layer \in DOMAIN m_node_map
        PROVE  new \in Pictures /\ new.layer = m.arg.layer
    <3>1. pic = m_node_map[m.arg.layer] /\ pic \in Pictures /\ pic.layer = m.arg.layer
      BY <2>2, NodeIs DEF HIInv, LayersAreIds
    <3>2. m.arg.to \in Int
      BY <1>1, ToPlace
    <3> HIDE DEF pic
    <3> QED BY <3>1, <3>2, Redrawn, Zenon
  <2>3. "movePic" \in EditOps
    BY DEF EditOps
  <2> HIDE DEF new
  <2> QED BY <1>1, <2>1, <2>2, <2>3, ModifyMeant
<1> QED BY <1>2, <1>3

\* handleBuildHouse_Scale.
LEMMA ScaleMeant ==
  ASSUME HIInv, ScalePic
  PROVE  HIInv' /\ OneMeantNext
<1> DEFINE pic == m_node_map[NodeOf(m.arg.layer)]
           new == Scaled(pic, m.arg.to)
<1>1. Handle("scalePic") /\ UNCHANGED <<coming, client>> /\ Modify(new)
  BY DEF ScalePic, HouseHandle, net, Scaled
<1>2. ASSUME m.arg.layer \in DOMAIN m_node_map
      PROVE  new \in Pictures /\ new.layer = m.arg.layer
  <2>1. pic = m_node_map[m.arg.layer] /\ pic \in Pictures /\ pic.layer = m.arg.layer
    BY <1>2, NodeIs DEF HIInv, LayersAreIds
  <2>2. m.arg.to \in Int
    BY <1>1, ToPlace
  <2> HIDE DEF pic
  <2> QED BY <2>1, <2>2, Redrawn, Zenon
<1>3. "scalePic" \in EditOps
  BY DEF EditOps
<1> HIDE DEF new
<1> QED BY <1>1, <1>2, <1>3, ModifyMeant

\* handleBuildHouse_Angle.
LEMMA AngleMeant ==
  ASSUME HIInv, AnglePic
  PROVE  HIInv' /\ OneMeantNext
<1> DEFINE pic == m_node_map[NodeOf(m.arg.layer)]
           new == Turned(pic, m.arg.to)
<1>1. Handle("anglePic") /\ UNCHANGED <<coming, client>> /\ Modify(new)
  BY DEF AnglePic, HouseHandle, net, Turned
<1>2. ASSUME m.arg.layer \in DOMAIN m_node_map
      PROVE  new \in Pictures /\ new.layer = m.arg.layer
  <2>1. pic = m_node_map[m.arg.layer] /\ pic \in Pictures /\ pic.layer = m.arg.layer
    BY <1>2, NodeIs DEF HIInv, LayersAreIds
  <2>2. m.arg.to \in Int
    BY <1>1, ToPlace
  <2> HIDE DEF pic
  <2> QED BY <2>1, <2>2, Redrawn, Zenon
<1>3. "anglePic" \in EditOps
  BY DEF EditOps
<1> HIDE DEF new
<1> QED BY <1>1, <1>2, <1>3, ModifyMeant

\* handleBuildHouse_Add_Pic: id and layer are counted up together.
LEMMA AddMeant ==
  ASSUME HIInv, AddPic
  PROVE  HIInv' /\ OneMeantNext
<1> DEFINE pic == NewPicture(m_current_layer)
           top == m_auto_nodeid
<1>1. Handle("addPic") /\ UNCHANGED <<coming, client, test_group>>
  BY DEF AddPic, HouseHandle, net, groupVars
<1>2. CASE ~IsShown(m.fd)
  BY <1>1, <1>2, PicturesStay DEF AddPic, nodeVars
<1>3. CASE IsShown(m.fd)
  <2>1. /\ m_node_map' = [id \in DOMAIN m_node_map \cup {top} |->
                            IF id = top THEN pic ELSE m_node_map[id]]
        /\ m_auto_nodeid' = top + 1 /\ m_current_layer' = m_current_layer + 1
        /\ sendToOtherStudent(Cardinality(DOMAIN m_node_map'), FALSE)
    BY <1>3 DEF AddPic, sendPictures
  <2>2. m.arg.name \in Int /\ m.arg.at \in Int /\ m.arg.studentId \in Int
    <3>1. m.arg.name \in Names /\ m.arg.at \in Places /\ m.arg.studentId \in Int
      BY <1>1, TakeMeant DEF HIInv, Meant
    <3> QED BY <3>1, HouseAssumption
  <2>3. top \in Nat /\ m_current_layer = top /\ top \notin DOMAIN m_node_map /\ top >= 1
    BY DEF HIInv, LayersAreIds
  <2>4. pic \in Pictures /\ pic.layer = top
    <3>1. Unit \in Int
      BY Bases
    <3> QED BY <2>2, <2>3, <3>1 DEF Pictures, NewPicture
  <2> HIDE DEF pic
  <2>5. /\ DOMAIN m_node_map' = DOMAIN m_node_map \cup {top} /\ m_node_map'[top] = pic
        /\ \A id \in DOMAIN m_node_map : m_node_map'[id] = m_node_map[id]
    BY <2>1, <2>3
  <2>6. LayersAreIds'
    BY <2>1, <2>3, <2>4, <2>5 DEF HIInv, LayersAreIds
  <2>7. ListsAreCurrent'
    <3>1. m_auto_nodeid <= m_auto_nodeid'
      BY <2>1, <2>3
    <3> QED BY <1>1, <2>1, <2>6, <3>1, ListsSent DEF HIInv
  <2>8. MessagesMeant'
    BY <1>1, RestMeant
  <2>9. People' /\ OneMeantNext
    BY <1>1, <2>5 DEF HIInv, People, OneMeantNext
  <2> QED BY <2>6, <2>7, <2>8, <2>9 DEF HIInv
<1> QED BY <1>2, <1>3

\* handleBuildHouse_Del_Pic.
LEMMA DelMeant ==
  ASSUME HIInv, DelPic
  PROVE  HIInv' /\ OneMeantNext
<1> DEFINE layer == m.arg.layer
<1>1. /\ Handle("delPic") /\ UNCHANGED <<coming, client>>
      /\ UNCHANGED <<test_group, m_auto_nodeid, m_current_layer>>
  BY DEF DelPic, HouseHandle, net, groupVars
<1>2. CASE ~(IsShown(m.fd) /\ NodeOf(layer) # ERRORNODEID)
  BY <1>1, <1>2, PicturesStay DEF DelPic
<1>3. CASE IsShown(m.fd) /\ NodeOf(layer) # ERRORNODEID
  <2>1. NodeOf(layer) = layer
    BY <1>3, NodeIs DEF HIInv
  <2>2. m_node_map' = [n \in DOMAIN m_node_map \ {layer} |-> m_node_map[n]]
    BY <1>3, <2>1 DEF DelPic
  <2>3. /\ DOMAIN m_node_map' = DOMAIN m_node_map \ {layer}
        /\ \A id \in DOMAIN m_node_map' : m_node_map'[id] = m_node_map[id]
    BY <2>2
  <2>4. LayersAreIds'
    BY <1>1, <2>3 DEF HIInv, LayersAreIds
  <2>5. ListsAreCurrent'
    <3>1. m_auto_nodeid <= m_auto_nodeid' /\ LayersAreIds /\ ListsAreCurrent
      BY <1>1 DEF HIInv, LayersAreIds
    <3>2. CASE DOMAIN m_node_map = {layer}
      <4>1. sendToOtherStudent(1000, FALSE)
        BY <1>3, <2>1, <3>2 DEF DelPic
      <4>2. m_node_map' = Empty
        BY <2>2, <3>2 DEF Empty
      <4>3. /\ UNCHANGED test_group
            /\ 1000 = Cardinality(DOMAIN m_node_map') \/ (1000 = 1000 /\ m_node_map' = Empty)
        BY <1>1, <4>2
      <4> QED BY <2>4, <3>1, <4>1, <4>3, ListsSent, Zenon
    <3>3. CASE DOMAIN m_node_map # {layer}
      <4>1. sendToOtherStudent(Cardinality(DOMAIN m_node_map'), FALSE)
        BY <1>3, <2>1, <3>3 DEF DelPic, sendPictures
      <4>2. UNCHANGED test_group
        BY <1>1
      <4> QED BY <2>4, <3>1, <4>1, <4>2, ListsSent, Zenon
    <3> QED BY <3>2, <3>3
  <2>6. MessagesMeant'
    BY <1>1, RestMeant
  <2>7. m.arg.fits => m.arg.meant = layer
    BY <1>1, LayerMeant DEF EditOps
  <2>8. People' /\ OneMeantNext
    BY <1>1, <2>3, <2>7 DEF HIInv, People, OneMeantNext
  <2> QED BY <2>4, <2>5, <2>6, <2>8 DEF HIInv
<1> QED BY <1>2, <1>3

\* The handlers that do not touch the pictures.
LEMMA OtherHandlersMeant ==
  ASSUME HIInv, GameStart \/ ChangeLayer \/ Update \/ HouseInfo \/ Scene
  PROVE  HIInv' /\ OneMeantNext
<1>1. CASE GameStart
  <2>1. /\ Handle("gameStart") /\ UNCHANGED <<coming, client>>
        /\ UNCHANGED <<m_node_map, m_auto_nodeid, m_current_layer, lists>>
    BY <1>1 DEF GameStart, HouseHandle, net, nodeVars
  <2>2. test_group \subseteq test_group'
    BY <1>1 DEF GameStart
  <2> QED BY <2>1, <2>2, PicturesStay
<1>2. CASE ChangeLayer
  <2>1. /\ Handle("changeLayer") /\ UNCHANGED <<coming, client>>
        /\ UNCHANGED <<m_node_map, m_auto_nodeid, m_current_layer, test_group>>
    BY <1>2 DEF ChangeLayer, HouseHandle, net, groupVars
  <2>2. UNCHANGED lists \/ \E harm : sendToOtherStudent(Cardinality(DOMAIN m_node_map), harm)
    BY <1>2, Zenon DEF ChangeLayer
  <2>3. UNCHANGED lists \/ \E harm : sendToOtherStudent(Cardinality(DOMAIN m_node_map'), harm)
    BY <2>1, <2>2
  <2> QED BY <2>1, <2>3, PicturesStay
<1>3. CASE Update
  <2>1. /\ Handle("update") /\ UNCHANGED <<coming, client>>
        /\ UNCHANGED <<m_node_map, m_auto_nodeid, m_current_layer, test_group, lists>>
    BY <1>3 DEF Update, HouseHandle, net, nodeVars, groupVars
  <2> QED BY <2>1, PicturesStay
<1>4. CASE HouseInfo
  <2>1. /\ Handle("houseInfo") /\ UNCHANGED <<coming, client>>
        /\ UNCHANGED <<m_node_map, m_auto_nodeid, m_current_layer, test_group, lists>>
    BY <1>4 DEF HouseInfo, HouseHandle, net, nodeVars, groupVars
  <2> QED BY <2>1, PicturesStay
<1>5. CASE Scene
  <2>1. /\ Handle("controlChangeScene") /\ UNCHANGED <<coming, client>>
        /\ UNCHANGED <<m_node_map, m_auto_nodeid, m_current_layer, lists>>
    BY <1>5 DEF Scene, ControlChangeScene, net, nodeVars
  <2>2. test_group \subseteq test_group'
    BY <1>5 DEF Scene
  <2> QED BY <2>1, <2>2, PicturesStay
<1> QED BY <1>1, <1>2, <1>3, <1>4, <1>5

\* A step of the threads that is not about the house takes a message or none.
LEMMA RoomStepMeant ==
  ASSUME HIInv, UNCHANGED house, ClassStep \/ CloseStep
  PROVE  HIInv'
<1>1. UNCHANGED <<coming, client>> /\ (UNCHANGED recvqueue \/ \E op : Handle(op))
  <2>1. CASE SelectStudent \/ SelectWhite \/ Enter \/ EnterDone \/ Leave
    BY <2>1 DEF SelectStudent, SelectWhite, Enter, EnterDone, Leave, net
  <2>2. CASE LoginStudent \/ LoginTell \/ LoginList \/ SendList \/ ConfirmLeaveEarly
    BY <2>2 DEF LoginStudent, LoginTell, LoginList, SendList, ConfirmLeaveEarly, net
  <2>3. CASE PuzzleStart \/ PuzzleEndAll \/ PuzzleEndOne
    BY <2>3 DEF PuzzleStart, PuzzleEndAll, PuzzleEndOne, net
  <2>4. CASE CloseStep
    BY <2>4 DEF CloseStep, Close, DelTeacher, DelWhite, DelStudent, Erase, SendRest, CloseDone,
                net
  <2> QED BY <2>1, <2>2, <2>3, <2>4 DEF ClassStep
<1>2. UNCHANGED <<test_group, m_node_map, m_auto_nodeid, m_current_layer, lists>>
  BY DEF house, groupVars, nodeVars
<1>3. LayersAreIds' /\ ListsAreCurrent' /\ People'
  BY <1>1, <1>2, ListsSame DEF HIInv, LayersAreIds, People
<1>4. MessagesMeant'
  <2>1. CASE UNCHANGED recvqueue
    BY <1>2, <2>1 DEF HIInv, MessagesMeant
  <2>2. ASSUME NEW op, Handle(op) PROVE MessagesMeant'
    BY <2>2, RestMeant
  <2> QED BY <1>1, <2>1, <2>2
<1> QED BY <1>3, <1>4 DEF HIInv

\* Every step.
LEMMA HouseNextMeant == HIInv /\ [HouseNext]_houseVars => HIInv' /\ OneMeantNext
<1> SUFFICES ASSUME HIInv, [HouseNext]_houseVars PROVE HIInv' /\ OneMeantNext
  OBVIOUS
<1>1. ASSUME UNCHANGED m_node_map PROVE OneMeantNext
  BY <1>1 DEF OneMeantNext
<1>2. CASE HouseAccept
  <2>1. UNCHANGED m_node_map
    BY <1>2 DEF HouseAccept, nodeVars
  <2> QED BY <1>1, <1>2, <2>1, AcceptMeant
<1>3. CASE \E fd \in Fds : ClientStep(fd) /\ UNCHANGED house
  <2>1. UNCHANGED m_node_map
    BY <1>3 DEF house, nodeVars
  <2> QED BY <1>1, <1>3, <2>1, ClientMeant
<1>4. CASE \E fd \in Fds : HouseClient(fd)
  <2>1. PICK fd \in Fds : HouseClient(fd)
    BY <1>4
  <2>2. UNCHANGED house
    BY <2>1 DEF HouseClient, AskJoin, AskBoard, AskAdd, AskEdit, AskUpdate, AskInfo, Ask
  <2>3. UNCHANGED m_node_map
    BY <2>2 DEF house, nodeVars
  <2> QED BY <1>1, <2>1, <2>3, HouseClientMeant
<1>5. CASE HouseStep
  BY <1>5, AddMeant, MoveMeant, ScaleMeant, AngleMeant, DelMeant, OtherHandlersMeant
     DEF HouseStep
<1>6. CASE (ClassStep \/ CloseStep) /\ UNCHANGED house
  <2>1. UNCHANGED m_node_map
    BY <1>6 DEF house, nodeVars
  <2> QED BY <1>1, <1>6, <2>1, RoomStepMeant
<1>7. CASE UNCHANGED houseVars
  <2>1. /\ UNCHANGED <<test_group, m_node_map, m_auto_nodeid, m_current_layer, lists>>
        /\ UNCHANGED <<recvqueue, coming, client>>
    BY <1>7 DEF houseVars, vars, net, house, groupVars, nodeVars
  <2>2. ListsAreCurrent'
    BY <2>1, ListsSame DEF HIInv
  <2> QED BY <1>1, <2>1, <2>2 DEF HIInv, LayersAreIds, MessagesMeant, People
<1> QED BY <1>2, <1>3, <1>4, <1>5, <1>6, <1>7 DEF HouseNext

(***************************************************************************)
(* Types, and the boards of the whiteboards                                *)
(***************************************************************************)
Stored == Houses \cup {NoHouse}
Board == [house : Stored, whole : BOOLEAN]

HouseTyped ==
  /\ m_white_fd \in [Rooms -> Fds \cup {0}]
  /\ m_is_show \in [Rooms -> {0, 1}]
  /\ test_group \subseteq Fds /\ test_white_fd \in Fds \cup {0}
  /\ m_node_layer_list \in Seq(Nat)
  /\ longlong_data \in [Rows -> Stored]
  /\ boards \in [Fds -> [Rows -> Board]]
  /\ missed \subseteq test_group /\ strayed \subseteq Fds
  /\ skipped \subseteq Students35 /\ damaged \in BOOLEAN

\* No board has a house the server does not have.
BoardsFromData ==
  \A fd \in Fds, id \in Rows : longlong_data[id] = NoHouse => boards[fd][id] = NoBoard

HTInv == HouseTyped /\ BoardsFromData

\* A board that is current stays so.
BoardsStay ==
  test_white_fd' = test_white_fd =>
    \A id \in Students35 : BoardIsCurrent(id) => BoardIsCurrent(id)'

\* The property's action, without the next-state relation.
KeepsUpNext ==
  \A id \in Students35 :
    /\ \/ BoardIsCurrent(id) /\ test_white_fd' = test_white_fd
       \/ /\ recvqueue # <<>> /\ recvqueue' = Tail(recvqueue) /\ m.op = "houseInfo"
          /\ id \notin skipped'
    /\ ~damaged'
    => BoardIsCurrent(id)'

\* A house that was sent is one.
LEMMA HouseSent ==
  ASSUME NEW data \in Houses
  PROVE  data \in Stored /\ data # NoHouse
BY HouseAssumption DEF Stored, NoHouse

LEMMA StudentsAreRows == Students35 \subseteq Rows
BY HouseAssumption DEF Students35, Rows

\* layer_down keeps the list's length; what it puts in from behind the end is 0.
LEMMA DownTyped ==
  ASSUME NEW list \in Seq(Nat), NEW at \in 1 .. Len(list), NEW count \in Int
  PROVE  Down(list, at, count) \in Seq(Nat)
<1> DEFINE len == Len(list)
<1>1. len \in Nat /\ \A i \in 1 .. len : list[i] \in Nat
  BY ElementOfSeq
<1>2. Down(list, at, count) =
        [i \in 1 .. len |->
          IF i >= at /\ i < at + count THEN (IF i = len THEN 0 ELSE list[i + 1])
          ELSE IF i = at + count THEN list[at] ELSE list[i]]
  BY DEF Down
<1>3. at \in 1 .. len
  OBVIOUS
<1> HIDE DEF len
<1>4. ASSUME NEW i \in 1 .. len
      PROVE  (IF i >= at /\ i < at + count THEN (IF i = len THEN 0 ELSE list[i + 1])
              ELSE IF i = at + count THEN list[at] ELSE list[i]) \in Nat
  <2>1. i # len => i + 1 \in 1 .. len
    BY <1>1
  <2> QED BY <1>1, <1>3, <2>1
<1>5. Down(list, at, count) \in [1 .. len -> Nat]
  BY <1>2, <1>4
<1> QED BY <1>1, <1>5

\* The list of layers after handleBuildHouse_Change_Layer.
LEMMA ChangeLayerTyped ==
  ASSUME HIInv, m_node_layer_list \in Seq(Nat), ChangeLayer
  PROVE  m_node_layer_list' \in Seq(Nat)
<1> DEFINE count == m.arg.layer - m.arg.to
<1>1. Handle("changeLayer")
  BY DEF ChangeLayer, HouseHandle
<1>2. \/ UNCHANGED m_node_layer_list
      \/ \E at \in 1 .. Len(m_node_layer_list) + 1 :
           at <= Len(m_node_layer_list) /\ m_node_layer_list' = Down(m_node_layer_list, at, count)
  BY Zenon DEF ChangeLayer
<1>3. count \in Int
  <2>1. m.op = "changeLayer" /\ Meant(m)
    BY <1>1, TakeMeant DEF HIInv
  <2>2. m.arg.to \in Int /\ m.arg.layer \in Int
    BY <2>1 DEF Meant, EditOps
  <2> QED BY <2>2
<1> HIDE DEF count
<1>4. ASSUME NEW at \in 1 .. Len(m_node_layer_list) + 1, at <= Len(m_node_layer_list),
             m_node_layer_list' = Down(m_node_layer_list, at, count)
      PROVE  m_node_layer_list' \in Seq(Nat)
  <2>1. at \in 1 .. Len(m_node_layer_list)
    BY <1>4
  <2> QED BY <1>3, <1>4, <2>1, DownTyped
<1> QED BY <1>2, <1>4

\* A step that leaves the boards but for new clients', and whatever strays.
LEMMA TypedStays ==
  ASSUME HTInv, UNCHANGED longlong_data, m_node_layer_list' \in Seq(Nat),
         m_is_show' \in [Rooms -> {0, 1}], m_white_fd' \in [Rooms -> Fds \cup {0}],
         test_group' \subseteq Fds, test_white_fd' \in Fds \cup {0},
         missed' \subseteq test_group', UNCHANGED skipped, damaged' \in BOOLEAN,
         \E new : /\ boards' = [fd \in Fds |-> IF fd \in new THEN NoBoards ELSE boards[fd]]
                  /\ strayed' = strayed \ new
  PROVE  HTInv' /\ BoardsStay
<1>1. PICK new : /\ boards' = [fd \in Fds |-> IF fd \in new THEN NoBoards ELSE boards[fd]]
                 /\ strayed' = strayed \ new
  OBVIOUS
<1>2. NoBoards \in [Rows -> Board] /\ \A id \in Rows : NoBoards[id] = NoBoard
  BY DEF NoBoards, NoBoard, Board, Stored
<1>3. /\ boards' \in [Fds -> [Rows -> Board]]
      /\ \A fd \in Fds, id \in Rows :
           boards'[fd][id] = IF fd \in new THEN NoBoard ELSE boards[fd][id]
  BY <1>1, <1>2 DEF HTInv, HouseTyped
<1>4. HouseTyped'
  BY <1>1, <1>3 DEF HTInv, HouseTyped
<1>5. BoardsFromData'
  BY <1>3 DEF HTInv, BoardsFromData
<1>6. BoardsStay
  BY <1>1, <1>3, StudentsAreRows DEF BoardsStay, BoardIsCurrent
<1> QED BY <1>4, <1>5, <1>6 DEF HTInv

\* A step that leaves the boards as they are.
LEMMA TypedSame ==
  ASSUME HTInv, UNCHANGED <<longlong_data, boards, skipped, strayed>>,
         m_node_layer_list' \in Seq(Nat),
         m_is_show' \in [Rooms -> {0, 1}], m_white_fd' \in [Rooms -> Fds \cup {0}],
         test_group' \subseteq Fds, test_white_fd' \in Fds \cup {0},
         missed' \subseteq test_group', damaged' \in BOOLEAN
  PROVE  HTInv' /\ BoardsStay
<1>1. boards' = [fd \in Fds |-> IF fd \in {} THEN NoBoards ELSE boards[fd]]
  BY DEF HTInv, HouseTyped
<1>2. strayed' = strayed \ {}
  OBVIOUS
<1> QED BY <1>1, <1>2, TypedStays

\* A step that leaves all of them as they are.
LEMMA HouseStays ==
  ASSUME HTInv, UNCHANGED house, m_white_fd' \in [Rooms -> Fds \cup {0}]
  PROVE  HTInv' /\ BoardsStay
<1>1. /\ UNCHANGED <<m_is_show, test_group, test_white_fd, m_node_layer_list>>
      /\ UNCHANGED <<longlong_data, boards, skipped, strayed, missed, damaged>>
  BY DEF house, groupVars, nodeVars, lists, houseData
<1> QED BY <1>1, TypedSame DEF HTInv, HouseTyped

\* What is taken from a queue is neither kept nor put back at its end.
LEMMA TailIsShorter ==
  ASSUME NEW S, NEW q \in Seq(S), q # <<>>
  PROVE  Tail(q) # q /\ \A msg : Tail(q) # Append(q, msg)
<1>1. Len(q) \in Nat /\ Len(Tail(q)) = Len(q) - 1
  BY HeadTailProperties, LenProperties, Zenon
<1>2. ASSUME NEW msg PROVE Len(Append(q, msg)) = Len(q) + 1
  <2>1. q \in Seq(S \cup {msg}) /\ msg \in S \cup {msg}
    BY SeqMonotonic
  <2> QED BY <2>1, AppendProperties
<1>3. Len(Tail(q)) # Len(q) /\ Len(Tail(q)) # Len(q) + 1
  <2> DEFINE n == Len(q)
             k == Len(Tail(q))
  <2>1. n \in Nat /\ k = n - 1
    BY <1>1
  <2> HIDE DEF n, k
  <2>2. k # n /\ k # n + 1
    BY <2>1
  <2> QED BY <2>2 DEF n, k
<1>4. Tail(q) # q
  BY <1>3
<1>5. ASSUME NEW msg PROVE Tail(q) # Append(q, msg)
  <2>1. Len(Tail(q)) # Len(Append(q, msg))
    BY <1>2, <1>3
  <2> QED BY <2>1, Zenon
<1> QED BY <1>4, <1>5

\* A message taken makes the queue another one than a message added.
LEMMA RestIsShorter ==
  ASSUME HIInv, recvqueue # <<>>
  PROVE  Tail(recvqueue) # recvqueue /\ \A msg : Tail(recvqueue) # Append(recvqueue, msg)
<1>1. PICK S : recvqueue \in Seq(S)
  BY DEF HIInv, MessagesMeant
<1> QED BY <1>1, TailIsShorter, Zenon

\* A step that does not answer a question for the houses.
LEMMA NoQuestion ==
  ASSUME HIInv, BoardsStay,
         \/ UNCHANGED recvqueue
         \/ \E msg : recvqueue' = Append(recvqueue, msg)
         \/ \E op : Handle(op) /\ op # "houseInfo"
  PROVE  KeepsUpNext
<1> SUFFICES ASSUME recvqueue # <<>>, recvqueue' = Tail(recvqueue), m.op = "houseInfo"
             PROVE  FALSE
  BY DEF KeepsUpNext, BoardsStay
<1>1. Tail(recvqueue) # recvqueue /\ \A msg : Tail(recvqueue) # Append(recvqueue, msg)
  BY RestIsShorter, Zenon
<1>2. CASE UNCHANGED recvqueue
  BY <1>1, <1>2
<1>3. ASSUME NEW msg, recvqueue' = Append(recvqueue, msg) PROVE FALSE
  BY <1>1, <1>3
<1>4. ASSUME NEW op, Handle(op), op # "houseInfo" PROVE FALSE
  BY <1>4 DEF Handle
<1> QED BY <1>2, <1>3, <1>4

\* A step of a client leaves the server's data.
LEMMA AcceptTyped ==
  ASSUME HIInv, HTInv, HouseAccept
  PROVE  HTInv' /\ KeepsUpNext
<1>1. /\ UNCHANGED <<m_white_fd, m_is_show, test_group, test_white_fd, m_node_layer_list,
                     longlong_data, missed, skipped, damaged, recvqueue>>
      /\ \E new : /\ boards' = [fd \in Fds |-> IF fd \in new THEN NoBoards ELSE boards[fd]]
                  /\ strayed' = strayed \ new
  BY DEF HouseAccept, Accept, roles, groupVars, nodeVars
<1>2. HTInv' /\ BoardsStay
  BY <1>1, TypedStays DEF HTInv, HouseTyped
<1> QED BY <1>1, <1>2, NoQuestion

LEMMA ClientTyped ==
  ASSUME HIInv, HTInv, UNCHANGED house, NEW fd,
         Die(fd) \/ \E op, arg : Send(fd, op, arg)
  PROVE  HTInv' /\ KeepsUpNext
<1>1. /\ UNCHANGED m_white_fd
      /\ UNCHANGED recvqueue \/ \E msg : recvqueue' = Append(recvqueue, msg)
  BY DEF Die, Send, roles
<1>2. HTInv' /\ BoardsStay
  BY <1>1, HouseStays DEF HTInv, HouseTyped
<1> QED BY <1>1, <1>2, NoQuestion

\* The handlers of the classrooms, and del_client.
LEMMA RoomStepTyped ==
  ASSUME HIInv, HTInv, UNCHANGED house, ClassStep \/ CloseStep
  PROVE  HTInv' /\ KeepsUpNext
<1>1. /\ m_white_fd' \in [Rooms -> Fds \cup {0}]
      /\ UNCHANGED recvqueue \/ \E op : Handle(op) /\ op # "houseInfo"
  <2> USE DEF HTInv, HouseTyped
  <2>1. CASE SelectWhite
    <3>1. m.fd \in Fds
      BY <2>1, TakeMeant DEF SelectWhite, HIInv, Meant
    <3>2. m_white_fd' = [m_white_fd EXCEPT ![m.arg] = m.fd] /\ Handle("selectWhite")
      BY <2>1 DEF SelectWhite
    <3>3. m_white_fd' \in [Rooms -> Fds \cup {0}]
      BY <3>1, <3>2
    <3>4. \E op : Handle(op) /\ op # "houseInfo"
      BY <3>2
    <3> QED BY <3>3, <3>4
  <2>2. CASE SelectStudent \/ Enter \/ EnterDone \/ Leave
    BY <2>2 DEF SelectStudent, Enter, EnterDone, Leave
  <2>3. CASE LoginStudent \/ LoginTell \/ LoginList \/ SendList \/ ConfirmLeaveEarly
    BY <2>3 DEF LoginStudent, LoginTell, LoginList, SendList, ConfirmLeaveEarly, roles
  <2>4. CASE PuzzleStart \/ PuzzleEndAll \/ PuzzleEndOne
    <3>1. UNCHANGED m_white_fd /\ (Handle("puzzleStart") \/ Handle("puzzleEnd"))
      BY <2>4, Zenon DEF PuzzleStart, PuzzleEndAll, PuzzleEndOne, roles
    <3> QED BY <3>1
  <2>5. CASE DelWhite
    BY <2>5 DEF DelWhite
  <2>6. CASE (\E fd \in Fds : Close(fd)) \/ DelTeacher \/ DelStudent \/ Erase \/ SendRest
             \/ CloseDone
    BY <2>6 DEF Close, DelTeacher, DelStudent, Erase, SendRest, CloseDone, roles
  <2> QED BY <2>1, <2>2, <2>3, <2>4, <2>5, <2>6 DEF ClassStep, CloseStep
<1>2. HTInv' /\ BoardsStay
  BY <1>1, HouseStays
<1> QED BY <1>1, <1>2, NoQuestion

\* handleBuildHouse_Update: kept and sent on alike.
LEMMA UpdateTyped ==
  ASSUME HIInv, HTInv, Update
  PROVE  HTInv' /\ KeepsUpNext
<1> DEFINE sid == m.arg.studentId
           data == m.arg.data
           board == [house |-> data, whole |-> TRUE]
<1>1. /\ Handle("update") /\ UNCHANGED m_white_fd
      /\ UNCHANGED <<m_is_show, test_group, test_white_fd, m_node_layer_list>>
      /\ UNCHANGED <<missed, skipped, strayed>> /\ damaged' \in BOOLEAN
  BY DEF Update, HouseHandle, roles, groupVars, nodeVars, lists
<1>2. data \in Stored /\ data # NoHouse
  <2>1. m.op = "update" /\ Meant(m)
    BY <1>1, TakeMeant DEF HIInv
  <2> QED BY <2>1, HouseSent DEF Meant
<1>3. /\ longlong_data' = IF sid \in Rows THEN [longlong_data EXCEPT ![sid] = data]
                                          ELSE longlong_data
      /\ boards' = [fd \in Fds |-> IF fd = test_white_fd /\ sid \in Rows
                                       THEN [boards[fd] EXCEPT ![sid] = board] ELSE boards[fd]]
  BY DEF Update
<1>4. board \in Board /\ board.house = data /\ board.whole
  BY <1>2 DEF Board
<1> HIDE DEF data, sid, board
<1>5. /\ longlong_data' \in [Rows -> Stored]
      /\ \A id \in Rows : longlong_data'[id] = IF id = sid THEN data ELSE longlong_data[id]
  BY <1>2, <1>3 DEF HTInv, HouseTyped
<1>6. /\ boards' \in [Fds -> [Rows -> Board]]
      /\ \A fd \in Fds, id \in Rows :
           boards'[fd][id] = IF fd = test_white_fd /\ id = sid THEN board ELSE boards[fd][id]
  BY <1>3, <1>4 DEF HTInv, HouseTyped
<1>7. HouseTyped'
  BY <1>1, <1>5, <1>6 DEF HTInv, HouseTyped
<1>8. BoardsFromData'
  BY <1>2, <1>5, <1>6 DEF HTInv, BoardsFromData
<1>9. BoardsStay
  BY <1>1, <1>4, <1>5, <1>6, StudentsAreRows DEF BoardsStay, BoardIsCurrent
<1> QED BY <1>1, <1>7, <1>8, <1>9, NoQuestion DEF HTInv

\* handleRainbowValley_HouseInfo makes the board current for whom it does not
\* skip, whatever it was.
LEMMA HouseInfoTyped ==
  ASSUME HIInv, HTInv, HouseInfo
  PROVE  HTInv' /\ KeepsUpNext
<1> DEFINE Kept(id) == [house |-> longlong_data[id], whole |-> longlong_data[id] \notin LongHouses]
           Left(id) == id \in skipped' \cup {0} \/ longlong_data[id] = NoHouse
<1>1. /\ UNCHANGED <<m_white_fd, m_is_show, test_group, test_white_fd, m_node_layer_list,
                     longlong_data, missed, damaged>>
      /\ skipped' \subseteq Students35
      /\ boards' = [fd \in Fds |->
           IF fd # test_white_fd THEN boards[fd]
           ELSE [id \in Rows |-> IF Left(id) THEN boards[fd][id] ELSE Kept(id)]]
  BY DEF HouseInfo, HouseHandle, roles, groupVars, nodeVars, lists
<1>2. PICK stale \in SUBSET Fds : strayed' = strayed \cup stale
  BY DEF HouseInfo
<1>3. \A id \in Rows : Kept(id) \in Board
  BY DEF HTInv, HouseTyped, Board
<1>4. \A id \in Rows : Kept(id).house = longlong_data[id]
                      /\ (Kept(id).whole \/ longlong_data[id] \in LongHouses)
  OBVIOUS
<1> HIDE DEF Kept, Left
<1>5. /\ boards' \in [Fds -> [Rows -> Board]]
      /\ \A fd \in Fds, id \in Rows :
           boards'[fd][id] = IF fd # test_white_fd \/ Left(id) THEN boards[fd][id] ELSE Kept(id)
  BY <1>1, <1>3 DEF HTInv, HouseTyped
<1>6. HouseTyped'
  BY <1>1, <1>2, <1>5 DEF HTInv, HouseTyped
<1>7. BoardsFromData'
  BY <1>1, <1>5 DEF HTInv, BoardsFromData, Left
<1>8. ASSUME NEW id \in Students35, BoardIsCurrent(id) \/ id \notin skipped'
      PROVE  BoardIsCurrent(id)'
  <2>1. id \in Rows /\ id # 0
    BY HouseAssumption DEF Students35, Rows
  <2>2. ASSUME NEW fd \in Fds \ strayed', fd = test_white_fd'
        PROVE  \/ boards'[fd][id] = NoBoard
               \/ /\ boards'[fd][id].house = longlong_data'[id]
                  /\ boards'[fd][id].whole \/ longlong_data'[id] \in LongHouses
    <3>1. fd \in Fds \ strayed /\ fd = test_white_fd
      BY <1>1, <1>2, <2>2
    <3>2. CASE ~Left(id)
      <4>1. boards'[fd][id] = Kept(id)
        BY <1>5, <2>1, <3>1, <3>2
      <4> QED BY <1>1, <1>4, <2>1, <4>1
    <3>3. CASE longlong_data[id] = NoHouse
      <4>1. boards[fd][id] = NoBoard
        BY <2>1, <3>3 DEF HTInv, BoardsFromData
      <4> QED BY <1>5, <2>1, <3>1, <3>3, <4>1 DEF Left
    <3>4. CASE Left(id) /\ longlong_data[id] # NoHouse
      <4>1. BoardIsCurrent(id) /\ boards'[fd][id] = boards[fd][id]
        BY <1>5, <1>8, <2>1, <3>1, <3>4 DEF Left
      <4> QED BY <1>1, <3>1, <4>1 DEF BoardIsCurrent
    <3> QED BY <3>2, <3>3, <3>4
  <2> QED BY <2>2 DEF BoardIsCurrent
<1> QED BY <1>6, <1>7, <1>8 DEF HTInv, KeepsUpNext

\* What a sending leaves of the histories.
LEMMA SentTyped ==
  ASSUME NEW count, NEW harm, sendToOtherStudent(count, harm)
  PROVE  missed' \subseteq test_group /\ damaged' \in BOOLEAN
BY DEF sendToOtherStudent

\* The handlers that send pictures, or nothing.
LEMMA PictureHandlersTyped ==
  ASSUME HIInv, HTInv, AddPic \/ MovePic \/ ScalePic \/ AnglePic \/ DelPic \/ ChangeLayer
  PROVE  HTInv' /\ KeepsUpNext
<1>1. /\ UNCHANGED <<m_white_fd, m_is_show, test_group, test_white_fd>>
      /\ UNCHANGED <<longlong_data, boards, skipped, strayed>>
      /\ \E op : Handle(op) /\ op # "houseInfo"
  <2>1. UNCHANGED groupVars /\ UNCHANGED houseData
        /\ HouseHandle(m.op) /\ m.op # "houseInfo"
    <3>1. CASE AddPic \/ DelPic
      BY <3>1 DEF AddPic, DelPic, HouseHandle, Handle
    <3>2. CASE MovePic
      BY <3>2 DEF MovePic, Modify, HouseHandle, Handle, house
    <3>3. CASE ScalePic \/ AnglePic
      BY <3>3 DEF ScalePic, AnglePic, Modify, HouseHandle, Handle
    <3>4. CASE ChangeLayer
      <4>1. HouseHandle("changeLayer") /\ UNCHANGED groupVars /\ UNCHANGED houseData
        BY <3>4, Zenon DEF ChangeLayer
      <4> QED BY <4>1 DEF HouseHandle, Handle
    <3> QED BY <3>1, <3>2, <3>3, <3>4
  <2> QED BY <2>1 DEF HouseHandle, roles, groupVars, houseData
<1>2. UNCHANGED <<missed, damaged>> \/ \E count, harm : sendToOtherStudent(count, harm)
  <2>1. CASE AddPic
    BY <2>1, Zenon DEF AddPic, sendPictures, lists
  <2>2. CASE MovePic
    BY <2>2, Zenon DEF MovePic, Modify, sendPictures, lists, house
  <2>3. CASE ScalePic \/ AnglePic
    BY <2>3, Zenon DEF ScalePic, AnglePic, Modify, sendPictures
  <2>4. CASE DelPic
    <3>1. (UNCHANGED lists /\ UNCHANGED damaged) \/ sendToOtherStudent(1000, FALSE) \/ sendPictures
      BY <2>4, Zenon DEF DelPic
    <3>2. CASE UNCHANGED lists /\ UNCHANGED damaged
      BY <3>2 DEF lists
    <3>3. CASE sendToOtherStudent(1000, FALSE)
      BY <3>3, Zenon
    <3>4. CASE sendPictures
      BY <3>4, Zenon DEF sendPictures
    <3> QED BY <3>1, <3>2, <3>3, <3>4, Zenon
  <2>5. CASE ChangeLayer
    BY <2>5, Zenon DEF ChangeLayer, lists
  <2> QED BY <2>1, <2>2, <2>3, <2>4, <2>5
<1>3. missed' \subseteq test_group' /\ damaged' \in BOOLEAN
  BY <1>1, <1>2, SentTyped DEF HTInv, HouseTyped
<1>4. m_node_layer_list' \in Seq(Nat)
  <2>0. m_node_layer_list \in Seq(Nat)
    BY DEF HTInv, HouseTyped
  <2>1. CASE AddPic
    <3>1. m_auto_nodeid \in Nat
      BY DEF HIInv, LayersAreIds
    <3>2. CASE IsShown(m.fd)
      <4>1. m_node_layer_list' = Append(m_node_layer_list, m_auto_nodeid)
        BY <2>1, <3>2, Zenon DEF AddPic
      <4> QED BY <2>0, <3>1, <4>1, AppendProperties
    <3>3. CASE ~IsShown(m.fd)
      BY <2>0, <2>1, <3>3 DEF AddPic, nodeVars
    <3> QED BY <3>2, <3>3
  <2>2. CASE MovePic \/ ScalePic \/ AnglePic \/ DelPic
    BY <2>0, <2>2 DEF MovePic, ScalePic, AnglePic, DelPic, Modify, house, nodeVars
  <2>3. CASE ChangeLayer
    BY <2>0, <2>3, ChangeLayerTyped
  <2> QED BY <2>1, <2>2, <2>3
<1>5. HTInv' /\ BoardsStay
  BY <1>1, <1>3, <1>4, TypedSame DEF HTInv, HouseTyped
<1> QED BY <1>1, <1>5, NoQuestion

\* The other handlers of the house building.
LEMMA HouseStepTyped ==
  ASSUME HIInv, HTInv, HouseStep
  PROVE  HTInv' /\ KeepsUpNext
<1> DEFINE Shape ==
      /\ m_is_show' \in [Rooms -> {0, 1}] /\ UNCHANGED m_white_fd
      /\ test_group \subseteq test_group' /\ test_group' \subseteq Fds
      /\ test_white_fd' \in Fds \cup {0}
      /\ UNCHANGED <<m_node_layer_list, lists, longlong_data, boards, skipped, strayed, damaged>>
      /\ \E op : Handle(op) /\ op # "houseInfo"
<1>1. ASSUME Shape PROVE HTInv' /\ KeepsUpNext
  <2>1. missed' \subseteq test_group'
    BY <1>1 DEF HTInv, HouseTyped, lists
  <2>2. HTInv' /\ BoardsStay
    BY <1>1, <2>1, TypedSame DEF HTInv, HouseTyped
  <2> QED BY <1>1, <2>2, NoQuestion
<1>2. /\ m_white_fd \in [Rooms -> Fds \cup {0}] /\ m_is_show \in [Rooms -> {0, 1}]
      /\ test_group \subseteq Fds /\ test_white_fd \in Fds \cup {0}
  BY DEF HTInv, HouseTyped
<1>3. CASE GameStart
  <2>1. m.fd \in Fds
    BY <1>3, TakeMeant DEF GameStart, HouseHandle, HIInv, Meant
  <2>2. Shape
    BY <1>2, <1>3, <2>1 DEF GameStart, HouseHandle, roles, nodeVars, houseData
  <2> QED BY <1>1, <2>2
<1>4. CASE Scene
  <2>1. m_is_show' \in [Rooms -> {0, 1}]
    BY <1>2, <1>4 DEF Scene
  <2>2. test_group \subseteq test_group' /\ test_group' \subseteq Fds
    BY <1>2, <1>4, RoomsAssumption DEF Scene, RoomOf
  <2>3. Shape
    BY <1>2, <1>4, <2>1, <2>2 DEF Scene, ControlChangeScene, roles, nodeVars, houseData
  <2> QED BY <1>1, <2>3
<1> QED BY <1>3, <1>4, PictureHandlersTyped, UpdateTyped, HouseInfoTyped DEF HouseStep

\* The server starts with no houses.
LEMMA HouseInitTyped == HouseInit => HTInv
<1> SUFFICES ASSUME HouseInit PROVE HTInv
  OBVIOUS
<1>1. NoBoard \in Board /\ NoHouse \in Stored
  BY DEF NoBoard, Board, Stored
<1>2. /\ boards = [fd \in Fds |-> [id \in Rows |-> NoBoard]]
      /\ longlong_data = [id \in Rows |-> NoHouse]
  BY DEF HouseInit, NoBoards
<1>3. boards \in [Fds -> [Rows -> Board]] /\ longlong_data \in [Rows -> Stored]
  BY <1>1, <1>2
<1>4. m_white_fd \in [Rooms -> Fds \cup {0}] /\ m_is_show \in [Rooms -> {0, 1}]
  BY DEF HouseInit, Init
<1>5. m_node_layer_list \in Seq(Nat)
  BY EmptySeq DEF HouseInit
<1>6. /\ test_group = {} /\ test_white_fd = 0
      /\ missed = {} /\ strayed = {} /\ skipped = {} /\ damaged = FALSE
  BY Zenon DEF HouseInit
<1>7. HouseTyped
  BY <1>3, <1>4, <1>5, <1>6 DEF HouseTyped
<1> QED BY <1>2, <1>7 DEF HTInv, BoardsFromData

\* Every step.
LEMMA HouseNextTyped == HIInv /\ HTInv /\ [HouseNext]_houseVars => HTInv' /\ KeepsUpNext
<1> SUFFICES ASSUME HIInv, HTInv, [HouseNext]_houseVars PROVE HTInv' /\ KeepsUpNext
  OBVIOUS
<1>1. CASE HouseAccept
  BY <1>1, AcceptTyped
<1>2. CASE \E fd \in Fds : ClientStep(fd) /\ UNCHANGED house
  <2>1. PICK fd \in Fds : ClientStep(fd) /\ UNCHANGED house
    BY <1>2
  <2>2. Die(fd) \/ \E op, arg : Send(fd, op, arg)
    BY <2>1, Zenon DEF ClientStep, AskSelect, AskLogin, AskLeaveEarly, AskEnter, AskScene, AskLeave,
                AskPuzzleStart, AskPuzzleEnd
  <2> QED BY <2>1, <2>2, ClientTyped
<1>3. CASE \E fd \in Fds : HouseClient(fd)
  <2>1. PICK fd \in Fds : HouseClient(fd)
    BY <1>3
  <2>2. \E op, arg : Ask(fd, op, arg)
    BY <2>1, Zenon DEF HouseClient, AskJoin, AskBoard, AskAdd, AskEdit, AskUpdate, AskInfo
  <2>3. UNCHANGED house /\ \E op, arg : Send(fd, op, arg)
    BY <2>2 DEF Ask
  <2> QED BY <2>3, ClientTyped
<1>4. CASE HouseStep
  BY <1>4, HouseStepTyped
<1>5. CASE (ClassStep \/ CloseStep) /\ UNCHANGED house
  BY <1>5, RoomStepTyped
<1>6. CASE UNCHANGED houseVars
  <2>1. UNCHANGED <<m_white_fd, recvqueue>> /\ UNCHANGED house
    BY <1>6 DEF houseVars, vars, roles
  <2>2. HTInv' /\ BoardsStay
    BY <2>1, HouseStays DEF HTInv, HouseTyped
  <2> QED BY <2>1, <2>2, NoQuestion
<1> QED BY <1>1, <1>2, <1>3, <1>4, <1>5, <1>6 DEF HouseNext

(***************************************************************************)
(* Theorems                                                                *)
(***************************************************************************)
\* In every state ids and layers, lists and messages agree.
THEOREM HouseInvariant == HouseSpec => []HIInv
<1>1. HIInv /\ [HouseNext]_houseVars => HIInv'
  BY HouseNextMeant
<1> QED BY <1>1, HouseInitMeant, PTL DEF HouseSpec

\* The picture a client means is the one that is changed or deleted, if it fitted
\* when the client's list was packed: whatever the clients say of theirs, however
\* many add, change and delete pictures meanwhile, and wherever the message is
\* when they do.
THEOREM OneMeant == HouseSpec => OnlyTheOneMeant
<1>1. HIInv /\ [HouseNext]_houseVars
        => [\A id \in DOMAIN m_node_map :
              /\ id \notin DOMAIN m_node_map' \/ m_node_map'[id] # m_node_map[id]
              /\ m.arg.fits /\ ~damaged
              => m.arg.meant = id]_houseVars
  BY HouseNextMeant DEF OneMeantNext
<1> QED BY <1>1, HouseInvariant, PTL DEF HouseSpec, OnlyTheOneMeant

\* The house's variables keep their types, and a layer names one picture.
THEOREM HouseTyping == HouseSpec => []HouseTypeOK
<1>1. HIInv /\ HTInv /\ [HouseNext]_houseVars => HTInv'
  BY HouseNextTyped
<1>2. HouseSpec => []HTInv
  BY <1>1, HouseInitTyped, HouseInvariant, PTL DEF HouseSpec
<1>3. HIInv /\ HTInv => HouseTypeOK
  <2> SUFFICES ASSUME HIInv, HTInv PROVE HouseTypeOK
    OBVIOUS
  <2>1. \A fd \in Fds : DOMAIN shown[fd].pics \subseteq 1 .. m_auto_nodeid - 1
    BY DEF HIInv, ListsAreCurrent, Says
  <2> QED BY <2>1 DEF HIInv, LayersAreIds, HTInv, HouseTyped, HouseTypeOK, Stored, Board
<1> QED BY <1>2, <1>3, HouseInvariant, PTL

\* Every client of the group that was reached by the last list has the pictures of
\* the house, and reads those that fit.
THEOREM UpToDate == HouseSpec => []MembersUpToDate
<1>1. ASSUME HIInv, HouseTypeOK,
             NEW fd \in test_group \ (missed \cup strayed), shown[fd] # NoList
      PROVE  /\ DOMAIN shown[fd].pics = DOMAIN m_node_map
             /\ \/ shown[fd].count = Cardinality(DOMAIN m_node_map)
                \/ shown[fd].count = 1000 /\ m_node_map = Empty
             /\ \A id \in DOMAIN m_node_map : Fits(m_node_map[id]) =>
                  /\ Readable(shown[fd].pics[id].data)
                  /\ getPicture(shown[fd].pics[id].data) = Rounded(m_node_map[id])
  <2>1. Current(shown[fd])
    <3>1. fd \in Fds
      BY <1>1 DEF HouseTypeOK
    <3> QED BY <1>1, <3>1 DEF HIInv, ListsAreCurrent
  <2>2. DOMAIN shown[fd].pics = DOMAIN m_node_map
    BY <2>1 DEF Current, Packed
  <2>3. ASSUME NEW id \in DOMAIN m_node_map, Fits(m_node_map[id])
        PROVE  /\ Readable(shown[fd].pics[id].data)
               /\ getPicture(shown[fd].pics[id].data) = Rounded(m_node_map[id])
    <3>1. m_node_map[id] \in Pictures /\ m_node_map[id].layer = id
      BY <1>1 DEF HIInv, LayersAreIds
    <3>2. LET entry == Packed(m_node_map)[id] IN
          Readable(entry.data) /\ getPicture(entry.data) = Rounded(m_node_map[id])
      BY <2>3, <3>1, PackedSays
    <3> QED BY <2>1, <3>2 DEF Current
  <2> QED BY <2>1, <2>2, <2>3 DEF Current
<1>2. HIInv /\ HouseTypeOK => MembersUpToDate
  BY <1>1 DEF MembersUpToDate
<1> QED BY <1>2, HouseInvariant, HouseTyping, PTL

\* A board that is current stays so until another takes its place, and the answer
\* to a question for the houses makes it current for every student that is not
\* skipped.
THEOREM BoardsKeepUp == HouseSpec => BoardKeepsUp
<1>1. HIInv /\ HTInv /\ [HouseNext]_houseVars => HTInv'
  BY HouseNextTyped
<1>2. HouseSpec => []HTInv
  BY <1>1, HouseInitTyped, HouseInvariant, PTL DEF HouseSpec
<1>3. HIInv /\ HTInv /\ [HouseNext]_houseVars
        => [\A id \in Students35 :
              /\ \/ BoardIsCurrent(id) /\ test_white_fd' = test_white_fd
                 \/ /\ recvqueue # <<>> /\ recvqueue' = Tail(recvqueue) /\ m.op = "houseInfo"
                    /\ id \notin skipped'
              /\ ~damaged'
              => BoardIsCurrent(id)']_houseVars
  BY HouseNextTyped DEF KeepsUpNext
<1> QED BY <1>2, <1>3, HouseInvariant, PTL DEF HouseSpec, BoardKeepsUp

================================================================================
