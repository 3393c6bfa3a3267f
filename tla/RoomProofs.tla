----------------------------- MODULE RoomProofs ------------------------------
(***************************************************************************)
(* What TLAPS proves of Room for any rooms, descriptors, students and      *)
(* scenarios: its typing, that no student is in two rooms, that a room in  *)
(* use keeps its teacher, what may bring the process down, that a          *)
(* connection that has ended leaves nothing behind, and that what clients  *)
(* were told of the students is so.                                        *)
(***************************************************************************)
EXTENDS Room, NatLemmas, SequenceTheorems, FiniteSetTheorems, TLAPS

(***************************************************************************)
(* What the helpers return                                                 *)
(***************************************************************************)

\* CRoomManager::get_room_by_fd returns a room that knows the fd, or nothing if
\* none does.
LEMMA RoomOfIs ==
  ASSUME NEW fd
  PROVE  /\ RoomOf(fd) \in Rooms \cup {0}
         /\ RoomOf(fd) # 0 => RoomOf(fd) \in Rooms /\ Knows(RoomOf(fd), fd)
         /\ RoomOf(fd) = 0 => \A r \in Rooms : ~ Knows(r, fd)
<1> DEFINE S == {r \in Rooms : Knows(r, fd)}
           First(r) == Knows(r, fd) /\ \A s \in Rooms : Knows(s, fd) => r <= s
<1>1. CASE S = {}
  BY <1>1 DEF RoomOf
<1>2. CASE S # {}
  <2>1. S \in SUBSET Nat
    BY RoomsAssumption
  <2>2. \E x \in S : \A y \in S : x <= y
    <3> HIDE DEF S
    <3> QED BY <1>2, <2>1, Least, Zenon
  <2>3. \E r \in Rooms : First(r)
    BY <2>2
  <2>4. RoomOf(fd) = CHOOSE r \in Rooms : First(r)
    BY <1>2 DEF RoomOf
  <2>5. RoomOf(fd) \in Rooms /\ First(RoomOf(fd))
    <3> HIDE DEF First
    <3> QED BY <2>3, <2>4
  <2>6. RoomOf(fd) # 0
    BY <2>5, RoomsAssumption
  <2> QED BY <2>5, <2>6
<1> QED BY <1>1, <1>2

\* CRoomManager::del_client goes to a room it has not been to.
LEMMA NextRoomIs ==
  ASSUME evloop.todo \in SUBSET Rooms, evloop.todo # {}
  PROVE  NextRoom \in evloop.todo /\ NextRoom \in Rooms
<1>1. \E x \in evloop.todo : \A y \in evloop.todo : x <= y
  <2>1. evloop.todo \in SUBSET Nat
    BY RoomsAssumption
  <2> QED BY <2>1, Least, Zenon
<1> QED BY <1>1 DEF NextRoom

Entries == [id : Ids \cup {0}, st : Statuses]
StatusLists == [Ids -> Statuses]

\* The list of all students has a status for each id.
LEMMA ListIs ==
  ASSUME NEW map \in [Fds -> Entries]
  PROVE  List(map) \in StatusLists
<1> SUFFICES ASSUME NEW id \in Ids PROVE List(map)[id] \in Statuses
  BY DEF List, StatusLists
<1> DEFINE fds == {fd \in Fds : map[fd].id = id}
           Last(fd) == \A other \in fds : other <= fd
<1>1. List(map)[id] = IF fds = {} THEN "none" ELSE map[CHOOSE fd \in fds : Last(fd)].st
  BY DEF List
<1>2. CASE fds = {}
  BY <1>1, <1>2 DEF Statuses
<1>3. CASE fds # {}
  <2>1. fds \in SUBSET Nat /\ IsFiniteSet(fds) /\ fds \subseteq Fds
    BY FdsAssumption, FS_Subset
  <2>2. \E x \in fds : \A y \in fds : y <= x
    <3> HIDE DEF fds
    <3> QED BY <1>3, <2>1, Greatest, Zenon
  <2>3. (CHOOSE fd \in fds : Last(fd)) \in fds
    <3>1. \E x \in fds : Last(x)
      BY <2>2
    <3> HIDE DEF fds, Last
    <3> QED BY <3>1
  <2> DEFINE last == CHOOSE fd \in fds : Last(fd)
  <2>4. last \in Fds
    BY <2>3
  <2>5. map[last] \in Entries
    <3> HIDE DEF last
    <3> QED BY <2>4
  <2>6. map[last].st \in Statuses
    <3> HIDE DEF last
    <3> QED BY <2>5 DEF Entries
  <2> QED BY <1>1, <1>3, <2>6
<1> QED BY <1>2, <1>3

\* Being told keeps what is known typed.
LEMMA TellIs ==
  ASSUME told \in [Fds -> [Rooms -> StatusLists]],
         NEW fds, NEW r \in Rooms, NEW list \in StatusLists
  PROVE  Tell(fds, r, list) \in [Fds -> [Rooms -> StatusLists]]
<1> SUFFICES ASSUME NEW fd \in Fds
             PROVE  Tell(fds, r, list)[fd] \in [Rooms -> StatusLists]
  BY DEF Tell
<1>1. told[fd] \in [Rooms -> StatusLists] /\ told[fd][r] \in StatusLists
  OBVIOUS
<1> DEFINE new == [id \in Ids |-> IF list[id] = "none" THEN told[fd][r][id] ELSE list[id]]
<1>2. new \in StatusLists
  BY <1>1 DEF StatusLists
<1>3. Tell(fds, r, list)[fd] = IF fd \notin fds THEN told[fd] ELSE [told[fd] EXCEPT ![r] = new]
  BY DEF Tell
<1> QED
  <2> HIDE DEF new
  <2> QED BY <1>1, <1>2, <1>3

(***************************************************************************)
(* Typing                                                                  *)
(***************************************************************************)

\* The messages clients send: rooms to go to, and ids of students.
Messages ==
  {msg \in [fd : Fds, op : Ops, arg : Nat] :
     /\ msg.op \in {"selectStudent", "selectWhite", "loginClassRoom"} => msg.arg \in Rooms
     /\ msg.op = "login" => msg.arg \in Ids \cup {0}}

\* A thread at work is at work in a room, and Evloop for a client.
AtWork ==
  /\ recvtask.at # "idle" => recvtask.room \in Rooms
  /\ evloop.at \in {"erase", "send"} => evloop.room \in Rooms
  /\ evloop.at # "idle" => evloop.fd \in Fds

IInv == TypeOK /\ recvqueue \in Seq(Messages) /\ AtWork

\* The parts of a well-typed state, with the sets named.
LEMMA Parts ==
  ASSUME TypeOK
  PROVE  /\ m_student_map \in [Rooms -> [Fds -> Entries]]
         /\ told \in [Fds -> [Rooms -> StatusLists]]
         /\ recvtask.list \in StatusLists /\ evloop.list \in StatusLists
BY DEF TypeOK, Entries, StatusLists

\* The first message, and what is left.
LEMMA Front ==
  ASSUME recvqueue \in Seq(Messages), NEW op, Handle(op)
  PROVE  /\ m \in Messages /\ m.op = op
         /\ m.fd \in Fds /\ m.op \in Ops /\ m.arg \in Nat
         /\ m.op \in {"selectStudent", "selectWhite", "loginClassRoom"} => m.arg \in Rooms
         /\ m.op = "login" => m.arg \in Ids \cup {0}
         /\ recvqueue' \in Seq(Messages)
         /\ recvqueue' \in Seq([fd : Fds, op : Ops, arg : Nat])
<1>1. recvqueue # <<>> /\ recvqueue' = Tail(recvqueue) /\ m.op = op
  BY DEF Handle
<1>2. m \in Messages /\ recvqueue' \in Seq(Messages)
  <2> HIDE DEF Messages
  <2> QED BY <1>1 DEF m
<1>3. recvqueue' \in Seq([fd : Fds, op : Ops, arg : Nat])
  <2>1. Messages \subseteq [fd : Fds, op : Ops, arg : Nat]
    BY DEF Messages
  <2> HIDE DEF Messages
  <2> QED BY <1>2, <2>1, SeqMonotonic
<1> QED BY <1>1, <1>2, <1>3 DEF Messages

\* One more message.
LEMMA Back ==
  ASSUME recvqueue \in Seq(Messages), NEW fd \in Fds, NEW op \in Ops, NEW arg \in Nat,
         op \in {"selectStudent", "selectWhite", "loginClassRoom"} => arg \in Rooms,
         op = "login" => arg \in Ids \cup {0}
  PROVE  /\ Append(recvqueue, [fd |-> fd, op |-> op, arg |-> arg]) \in Seq(Messages)
         /\ Append(recvqueue, [fd |-> fd, op |-> op, arg |-> arg])
              \in Seq([fd : Fds, op : Ops, arg : Nat])
<1> DEFINE new == [fd |-> fd, op |-> op, arg |-> arg]
<1>1. new \in Messages
  BY DEF Messages
<1>2. Append(recvqueue, new) \in Seq(Messages)
  <2> HIDE DEF new, Messages
  <2> QED BY <1>1
<1>3. Messages \subseteq [fd : Fds, op : Ops, arg : Nat]
  BY DEF Messages
<1>4. Append(recvqueue, new) \in Seq([fd : Fds, op : Ops, arg : Nat])
  <2> HIDE DEF new, Messages
  <2> QED BY <1>2, <1>3, SeqMonotonic
<1> QED BY <1>2, <1>4

\* A message of a client keeps everything typed.
LEMMA SendKeeps ==
  ASSUME IInv, NEW fd \in Fds, NEW op, NEW arg \in Nat, Send(fd, op, arg),
         op \in {"selectStudent", "selectWhite", "loginClassRoom"} => arg \in Rooms,
         op = "login" => arg \in Ids \cup {0},
         client' \in [Fds -> [kind : {"none", "student", "white", "teacher"},
                             id : Ids \cup {0}, room : Rooms \cup {0}, in : BOOLEAN]]
  PROVE  IInv'
<1>1. op \in Ops
  BY DEF Send, IInv, TypeOK, Scenario
<1>2. recvqueue' \in Seq(Messages) /\ recvqueue' \in Seq([fd : Fds, op : Ops, arg : Nat])
  BY <1>1, Back DEF IInv, Send
<1>3. sent' \in Nat
  BY DEF IInv, TypeOK, Send
<1> QED
  BY <1>2, <1>3 DEF IInv, Send, TypeOK, AtWork, net, roles, games

\* A step of a client keeps everything typed.
LEMMA ClientKeeps ==
  ASSUME IInv, NEW fd \in Fds, ClientStep(fd)
  PROVE  IInv'
<1> USE DEF IInv
<1>0. /\ client[fd] \in [kind : {"none", "student", "white", "teacher"},
                        id : Ids \cup {0}, room : Rooms \cup {0}, in : BOOLEAN]
      /\ scenario.rooms \subseteq Rooms /\ Rooms \subseteq Nat /\ Ids \cup {0} \subseteq Nat
  BY RoomsAssumption, IdsAssumption DEF TypeOK, Scenario
<1>1. ASSUME NEW r \in scenario.rooms, AskSelect(fd, r) PROVE IInv'
  <2>1. client' \in [Fds -> [kind : {"none", "student", "white", "teacher"},
                            id : Ids \cup {0}, room : Rooms \cup {0}, in : BOOLEAN]]
    BY <1>0, <1>1 DEF AskSelect, TypeOK
  <2> QED BY <1>0, <1>1, <2>1, SendKeeps DEF AskSelect
<1>2. ASSUME AskLogin(fd) PROVE IInv'
  <2>1. client' \in [Fds -> [kind : {"none", "student", "white", "teacher"},
                            id : Ids \cup {0}, room : Rooms \cup {0}, in : BOOLEAN]]
    BY <1>0, <1>2 DEF AskLogin, TypeOK
  <2> QED BY <1>0, <1>2, <2>1, SendKeeps DEF AskLogin
<1>3. ASSUME AskLeaveEarly(fd) PROVE IInv'
  BY <1>0, <1>3, SendKeeps DEF AskLeaveEarly, TypeOK
<1>4. ASSUME NEW r \in scenario.rooms, AskEnter(fd, r) PROVE IInv'
  <2>1. client' \in [Fds -> [kind : {"none", "student", "white", "teacher"},
                            id : Ids \cup {0}, room : Rooms \cup {0}, in : BOOLEAN]]
    BY <1>0, <1>4 DEF AskEnter, TypeOK
  <2> QED BY <1>0, <1>4, <2>1, SendKeeps DEF AskEnter
<1>5. ASSUME NEW scene \in Scenes, AskScene(fd, scene) PROVE IInv'
  <2>1. scene \in Nat
    BY <1>5 DEF Scenes
  <2>2. client' \in [Fds -> [kind : {"none", "student", "white", "teacher"},
                            id : Ids \cup {0}, room : Rooms \cup {0}, in : BOOLEAN]]
    <3>1. client' = client
      BY <1>5 DEF AskScene
    <3> QED BY <1>0, <3>1 DEF TypeOK
  <2>3. Send(fd, "controlChangeScene", scene)
    BY <1>5 DEF AskScene
  <2> QED BY <1>0, <2>1, <2>2, <2>3, SendKeeps
<1>6. ASSUME AskLeave(fd) PROVE IInv'
  <2>1. client' \in [Fds -> [kind : {"none", "student", "white", "teacher"},
                            id : Ids \cup {0}, room : Rooms \cup {0}, in : BOOLEAN]]
    BY <1>0, <1>6 DEF AskLeave, TypeOK
  <2> QED BY <1>0, <1>6, <2>1, SendKeeps DEF AskLeave
<1>7. ASSUME AskPuzzleStart(fd) PROVE IInv'
  BY <1>0, <1>7, SendKeeps DEF AskPuzzleStart, TypeOK
<1>8. ASSUME AskPuzzleEnd(fd) PROVE IInv'
  BY <1>0, <1>8, SendKeeps DEF AskPuzzleEnd, TypeOK
<1>9. ASSUME Die(fd) PROVE IInv'
  BY <1>9 DEF Die, TypeOK, AtWork, net, roles, games
<1> QED
  BY <1>1, <1>2, <1>3, <1>4, <1>5, <1>6, <1>7, <1>8, <1>9 DEF ClientStep

\* One entry of a table of tables is replaced.
LEMMA PutIs ==
  ASSUME NEW A, NEW B, NEW V, NEW f \in [A -> [B -> V]], NEW a \in A, NEW b \in B, NEW v \in V
  PROVE  [f EXCEPT ![a][b] = v] \in [A -> [B -> V]]
<1>1. [f[a] EXCEPT ![b] = v] \in [B -> V]
  OBVIOUS
<1> QED BY <1>1

\* One table is replaced.
LEMMA PutRowIs ==
  ASSUME NEW A, NEW V, NEW f \in [A -> V], NEW a, NEW v, a \in A => v \in V
  PROVE  [f EXCEPT ![a] = v] \in [A -> V]
OBVIOUS

\* The record of where the threads met.
LEMMA MeetIs ==
  ASSUME TypeOK, NEW thread, NEW r
  PROVE  Meet(thread, r) \in [Rooms -> SUBSET {"race", "twice"}]
BY DEF TypeOK, Meet

\* A list about nobody, or about one student.
LEMMA JustIs ==
  /\ Nothing \in StatusLists
  /\ \A id, st : st \in Statuses => Just(id, st) \in StatusLists
BY DEF Nothing, Just, StatusLists, Statuses

\* A step of RecvTask keeps everything typed.
LEMMA HandlerKeeps ==
  ASSUME IInv, HandlerStep
  PROVE  IInv'
<1> USE DEF IInv
<1> DEFINE Map == [Rooms -> [Fds -> Entries]]
           Told == [Fds -> [Rooms -> StatusLists]]
           RecvStates == [at : {"idle", "enter", "tell", "list", "send"}, fd : Fds \cup {0},
                          room : Rooms \cup {0}, list : [Ids -> Statuses]]
<1>p. m_student_map \in Map /\ told \in Told
  BY Parts
<1>1. ASSUME SelectStudent PROVE IInv'
  <2>1. m.fd \in Fds /\ m.arg \in Rooms /\ recvqueue' \in Seq(Messages)
        /\ recvqueue' \in Seq([fd : Fds, op : Ops, arg : Nat])
    BY <1>1, Front DEF SelectStudent
  <2>2. m_student_map' \in [Rooms -> [Fds -> [id : Ids \cup {0}, st : Statuses]]]
    <3>1. [id |-> 0, st |-> "off"] \in Entries
      BY DEF Entries, Statuses
    <3>2. [m_student_map EXCEPT ![m.arg][m.fd] = [id |-> 0, st |-> "off"]] \in Map
      BY <1>p, <2>1, <3>1, PutIs, Zenon
    <3> QED BY <1>1, <1>p, <3>2 DEF SelectStudent, Entries
  <2> QED BY <1>1, <2>1, <2>2 DEF SelectStudent, TypeOK, AtWork, net, roles, games
<1>2. ASSUME SelectWhite PROVE IInv'
  <2>1. m.fd \in Fds /\ recvqueue' \in Seq(Messages)
        /\ recvqueue' \in Seq([fd : Fds, op : Ops, arg : Nat])
    BY <1>2, Front DEF SelectWhite
  <2>2. told' \in [Fds -> [Rooms -> [Ids -> Statuses]]]
    BY <1>2 DEF SelectWhite, TypeOK, Statuses, Nothing
  <2>3. m_white_fd' \in [Rooms -> Fds \cup {0}]
    BY <1>2, <2>1 DEF SelectWhite, TypeOK
  <2> QED BY <1>2, <2>1, <2>2, <2>3 DEF SelectWhite, TypeOK, AtWork, net, roles, games
<1>3. ASSUME Enter PROVE IInv'
  <2>1. m.fd \in Fds /\ m.arg \in Rooms /\ recvqueue' \in Seq(Messages)
        /\ recvqueue' \in Seq([fd : Fds, op : Ops, arg : Nat])
    BY <1>3, Front DEF Enter
  <2>2. told' \in [Fds -> [Rooms -> [Ids -> Statuses]]]
    <3>1. [told EXCEPT ![m.fd][m.arg] = Nothing] \in Told
      BY <1>p, <2>1, JustIs, PutIs, Zenon
    <3> QED BY <1>3, <1>p, <3>1 DEF Enter, StatusLists
  <2>3. m_teacher_fd' \in [Rooms -> Fds \cup {0}]
    BY <1>3, <2>1 DEF Enter, TypeOK
  <2>4. /\ recvtask' \in RecvStates
        /\ recvtask'.at # "idle" => recvtask'.room \in Rooms
    <3>1. CASE m_isUsed[m.arg] = 1
      BY <1>3, <3>1 DEF Enter, TypeOK, AtWork
    <3>2. CASE m_isUsed[m.arg] # 1
      <4>1. recvtask' = [at |-> "enter", fd |-> m.fd, room |-> m.arg, list |-> Nothing]
        BY <1>3, <3>2 DEF Enter, RecvIdle
      <4>2. Nothing \in [Ids -> Statuses]
        BY JustIs DEF StatusLists
      <4> QED BY <2>1, <4>1, <4>2
    <3> QED BY <3>1, <3>2
  <2> QED BY <1>3, <2>1, <2>2, <2>3, <2>4 DEF Enter, TypeOK, AtWork, net, roles, games
<1>4. ASSUME EnterDone PROVE IInv'
  <2>1. /\ recvtask' \in RecvStates
        /\ recvtask'.at = "idle"
    BY <1>4 DEF EnterDone, RecvIdle, Nothing, Statuses
  <2>2. m_isUsed' \in [Rooms -> {0, 1}]
    BY <1>4 DEF EnterDone, TypeOK
  <2> QED BY <1>4, <2>1, <2>2 DEF EnterDone, TypeOK, AtWork, net, roles, games
<1>5. ASSUME Leave PROVE IInv'
  <2>1. recvqueue' \in Seq(Messages) /\ recvqueue' \in Seq([fd : Fds, op : Ops, arg : Nat])
    BY <1>5, Front DEF Leave
  <2>2. m_isUsed' \in [Rooms -> {0, 1}] /\ up' \in BOOLEAN
    BY <1>5 DEF Leave, TypeOK
  <2> QED BY <1>5, <2>1, <2>2 DEF Leave, TypeOK, AtWork, net, roles, games
<1>6. ASSUME LoginStudent PROVE IInv'
  <2> DEFINE r == RoomOf(m.fd)
             in == r # 0 /\ m.fd \in Enrolled(r)
  <2>1. /\ m.fd \in Fds /\ m.arg \in Ids \cup {0} /\ r \in Rooms \cup {0}
        /\ recvqueue' \in Seq(Messages) /\ recvqueue' \in Seq([fd : Fds, op : Ops, arg : Nat])
    BY <1>6, Front, RoomOfIs DEF LoginStudent
  <2>2. m_student_map' \in [Rooms -> [Fds -> [id : Ids \cup {0}, st : Statuses]]]
    <3>1. CASE in
      <4>1. [id |-> m.arg, st |-> "on"] \in Entries
        BY <2>1 DEF Entries, Statuses
      <4>2. [m_student_map EXCEPT ![r][m.fd] = [id |-> m.arg, st |-> "on"]] \in Map
        <5>1. r \in Rooms
          BY <2>1, <3>1
        <5> HIDE DEF r
        <5> QED BY <1>p, <2>1, <4>1, <5>1, PutIs, Zenon
      <4> QED BY <1>6, <3>1, <4>2 DEF LoginStudent, Entries
    <3>2. CASE ~ in
      BY <1>6, <1>p, <3>2 DEF LoginStudent, Entries
    <3> QED BY <3>1, <3>2
  <2>3. Just(m.arg, "on") \in [Ids -> Statuses]
    BY DEF Just, Nothing, Statuses
  <2>4. /\ recvtask' \in RecvStates
        /\ recvtask'.at # "idle" => recvtask'.room \in Rooms
    BY <1>6, <2>1, <2>3 DEF LoginStudent, TypeOK, AtWork
  <2>5. blurred' \in [Rooms -> SUBSET {"race", "twice"}]
    <3>1. CASE in
      <4> DEFINE met == Meet(evloop, r)
                 more == IF \E fd \in Fds \ {m.fd} : m_student_map[r][fd].id = m.arg
                           THEN {"twice"} ELSE {}
      <4>1. met \in [Rooms -> SUBSET {"race", "twice"}]
        BY MeetIs
      <4>2. blurred' = [met EXCEPT ![r] = met[r] \cup more]
        BY <1>6, <3>1 DEF LoginStudent
      <4>3. more \subseteq {"race", "twice"}
        OBVIOUS
      <4> HIDE DEF met, more
      <4> QED BY <4>1, <4>2, <4>3
    <3>2. CASE ~ in
      BY <1>6, <3>2 DEF LoginStudent, TypeOK
    <3> QED BY <3>1, <3>2
  <2> QED BY <1>6, <2>1, <2>2, <2>4, <2>5 DEF LoginStudent, TypeOK, AtWork, net, roles, games
<1>7. ASSUME LoginTell PROVE IInv'
  <2>1. told' \in [Fds -> [Rooms -> [Ids -> Statuses]]]
    BY <1>7, TellIs, Parts DEF LoginTell, AtWork, StatusLists
  <2>2. /\ recvtask' \in RecvStates
        /\ recvtask'.at # "idle" => recvtask'.room \in Rooms
    BY <1>7 DEF LoginTell, TypeOK, AtWork
  <2> QED BY <1>7, <2>1, <2>2 DEF LoginTell, TypeOK, AtWork, net, roles, games
<1>8. ASSUME LoginList PROVE IInv'
  <2>1. recvtask.room \in Rooms
    BY <1>8 DEF LoginList, AtWork
  <2>2. List(m_student_map[recvtask.room]) \in [Ids -> Statuses]
    BY <1>p, <2>1, ListIs DEF StatusLists
  <2>3. /\ recvtask' \in RecvStates
        /\ recvtask'.at # "idle" => recvtask'.room \in Rooms
    BY <1>8, <2>1, <2>2 DEF LoginList, TypeOK, AtWork
  <2>4. up' \in BOOLEAN
    BY <1>8 DEF LoginList, TypeOK
  <2> QED BY <1>8, <2>3, <2>4 DEF LoginList, TypeOK, AtWork, net, roles, games
<1>9. ASSUME SendList PROVE IInv'
  <2>1. told' \in [Fds -> [Rooms -> [Ids -> Statuses]]]
    BY <1>9, TellIs, Parts DEF SendList, AtWork, StatusLists
  <2>2. /\ recvtask' \in RecvStates
        /\ recvtask'.at = "idle"
    BY <1>9 DEF SendList, RecvIdle, Nothing, Statuses
  <2> QED BY <1>9, <2>1, <2>2 DEF SendList, TypeOK, AtWork, net, roles, games
<1>10. ASSUME ConfirmLeaveEarly PROVE IInv'
  <2> DEFINE r == RoomOf(m.fd)
             in == r # 0 /\ m.fd \in Enrolled(r)
  <2>1. /\ m.fd \in Fds /\ r \in Rooms \cup {0}
        /\ recvqueue' \in Seq(Messages) /\ recvqueue' \in Seq([fd : Fds, op : Ops, arg : Nat])
    BY <1>10, Front, RoomOfIs DEF ConfirmLeaveEarly
  <2>2. /\ m_student_map' \in [Rooms -> [Fds -> [id : Ids \cup {0}, st : Statuses]]]
        /\ up' \in BOOLEAN
    <3>1. CASE in
      <4>1. r \in Rooms
        BY <2>1, <3>1
      <4>2. m_student_map[r][m.fd] \in Entries
        BY <1>p, <2>1, <4>1
      <4> DEFINE entry == [m_student_map[r][m.fd] EXCEPT !.st = "left"]
      <4>3. entry \in Entries
        BY <4>2 DEF Entries, Statuses
      <4>4. [m_student_map EXCEPT ![r][m.fd] = entry] \in Map
        <5> HIDE DEF entry, r
        <5> QED BY <1>p, <2>1, <4>1, <4>3, PutIs, Zenon
      <4> QED BY <1>10, <3>1, <4>4 DEF ConfirmLeaveEarly, Entries
    <3>2. CASE ~ in
      BY <1>10, <1>p, <3>2 DEF ConfirmLeaveEarly, Entries, TypeOK
    <3> QED BY <3>1, <3>2
  <2>3. CASE ~ in
    BY <1>10, <2>1, <2>2, <2>3 DEF ConfirmLeaveEarly, TypeOK, AtWork, net, roles, games
  <2>4. CASE in
    <3>1. r \in Rooms
      BY <2>1, <2>4
    <3>2. List(m_student_map'[r]) \in [Ids -> Statuses]
      BY <2>2, <3>1, ListIs DEF StatusLists, Entries
    <3>3. Just(m_student_map[r][m.fd].id, "left") \in StatusLists
      BY DEF Just, Nothing, Statuses, StatusLists
    <3>4. told' \in [Fds -> [Rooms -> [Ids -> Statuses]]]
      <4>1. Tell(Chiefs(r), r, Just(m_student_map[r][m.fd].id, "left"))
              \in [Fds -> [Rooms -> StatusLists]]
        BY <1>p, <3>1, <3>3, TellIs
      <4> QED BY <1>10, <2>4, <4>1 DEF ConfirmLeaveEarly, TypeOK, StatusLists
    <3>5. /\ recvtask' \in RecvStates
          /\ recvtask'.at # "idle" => recvtask'.room \in Rooms
      BY <1>10, <2>1, <2>4, <3>1, <3>2 DEF ConfirmLeaveEarly
    <3>6. blurred' \in [Rooms -> SUBSET {"race", "twice"}]
      BY <1>10, <2>4, MeetIs DEF ConfirmLeaveEarly
    <3> QED BY <1>10, <2>1, <2>2, <3>4, <3>5, <3>6 DEF ConfirmLeaveEarly, TypeOK, AtWork, net, roles, games
  <2> QED BY <2>3, <2>4
<1>11. ASSUME PuzzleStart PROVE IInv'
  <2>1. recvqueue' \in Seq(Messages) /\ recvqueue' \in Seq([fd : Fds, op : Ops, arg : Nat])
    BY <1>11, Front DEF PuzzleStart
  <2>2. m_puzzle_map' \in [Rooms -> [Fds -> Clocks]]
    <3>1. PICK fd : LET s == RoomOf(fd) IN
            m_puzzle_map' =
              IF s = 0 THEN m_puzzle_map
              ELSE [m_puzzle_map EXCEPT ![s] =
                     [g \in Fds |-> IF g \in Students(s) /\ @[g] = "none" THEN "run" ELSE @[g]]]
      BY <1>11 DEF PuzzleStart
    <3> DEFINE s == RoomOf(fd)
               old == m_puzzle_map[s]
               new == [g \in Fds |-> IF g \in Students(s) /\ old[g] = "none" THEN "run" ELSE old[g]]
    <3>2. m_puzzle_map' = m_puzzle_map \/ m_puzzle_map' = [m_puzzle_map EXCEPT ![s] = new]
      BY <3>1
    <3>3. s \in Rooms => new \in [Fds -> Clocks]
      BY DEF TypeOK, Clocks
    <3>4. m_puzzle_map \in [Rooms -> [Fds -> Clocks]]
      BY DEF TypeOK
    <3> HIDE DEF s, new
    <3> QED BY <3>2, <3>3, <3>4, PutRowIs
  <2> QED BY <1>11, <2>1, <2>2 DEF PuzzleStart, TypeOK, AtWork, net, roles, games
<1>12. ASSUME PuzzleEndAll PROVE IInv'
  <2>1. recvqueue' \in Seq(Messages) /\ recvqueue' \in Seq([fd : Fds, op : Ops, arg : Nat])
    BY <1>12, Front DEF PuzzleEndAll
  <2>2. m_puzzle_map' \in [Rooms -> [Fds -> Clocks]] /\ up' \in BOOLEAN
    <3> DEFINE r == RoomOf(m.fd)
               old == m_puzzle_map[r]
               new == [fd \in Fds |-> IF old[fd] = "run" THEN "all" ELSE old[fd]]
    <3>1. m_puzzle_map' = [m_puzzle_map EXCEPT ![r] = new]
      BY <1>12 DEF PuzzleEndAll
    <3>2. r \in Rooms => new \in [Fds -> Clocks]
      BY DEF TypeOK, Clocks
    <3>3. m_puzzle_map \in [Rooms -> [Fds -> Clocks]]
      BY DEF TypeOK
    <3>4. up' \in BOOLEAN
      BY <1>12 DEF PuzzleEndAll
    <3>5. m_puzzle_map' \in [Rooms -> [Fds -> Clocks]]
      <4> HIDE DEF r, new
      <4> QED BY <3>1, <3>2, <3>3, PutRowIs
    <3> QED BY <3>4, <3>5
  <2>3. m_student_map' \in [Rooms -> [Fds -> [id : Ids \cup {0}, st : Statuses]]]
    <3> DEFINE r == RoomOf(m.fd)
               old == m_student_map[r]
               new == [fd \in Fds |-> IF m_puzzle_map[r][fd] # "none" /\ fd \notin Students(r)
                                        THEN NullStudent ELSE old[fd]]
    <3>1. m_student_map' = [m_student_map EXCEPT ![r] = new]
      BY <1>12 DEF PuzzleEndAll
    <3>2. NullStudent \in Entries
      BY DEF NullStudent, Entries, Statuses
    <3>3. r \in Rooms => new \in [Fds -> Entries]
      BY <1>p, <3>2
    <3>4. m_student_map' \in Map
      <4> HIDE DEF r, new
      <4> QED BY <1>p, <3>1, <3>3, PutRowIs
    <3> QED BY <3>4 DEF Entries
  <2> QED BY <1>12, <2>1, <2>2, <2>3 DEF PuzzleEndAll, TypeOK, AtWork, net, roles, games
<1>13. ASSUME PuzzleEndOne PROVE IInv'
  <2>1. m.fd \in Fds /\ recvqueue' \in Seq(Messages) /\ recvqueue' \in Seq([fd : Fds, op : Ops, arg : Nat])
    BY <1>13, Front DEF PuzzleEndOne
  <2>2. /\ m_puzzle_map' \in [Rooms -> [Fds -> Clocks]]
        /\ upsets' \subseteq {"scene", "left", "noClock"}
    <3> DEFINE r == RoomOf(m.fd)
               clock == m_puzzle_map[r][m.fd]
               new == CASE clock = "run" -> "own" [] clock = "none" -> "null" [] OTHER -> clock
    <3>1. upsets' \subseteq {"scene", "left", "noClock"}
      BY <1>13 DEF PuzzleEndOne, TypeOK
    <3>2. m_puzzle_map' = IF r = 0 THEN m_puzzle_map ELSE [m_puzzle_map EXCEPT ![r][m.fd] = new]
      BY <1>13 DEF PuzzleEndOne
    <3>3. m_puzzle_map \in [Rooms -> [Fds -> Clocks]] /\ r \in Rooms \cup {0}
      BY RoomOfIs DEF TypeOK
    <3>4. CASE r = 0
      BY <3>1, <3>2, <3>3, <3>4
    <3>5. CASE r # 0
      <4>1. r \in Rooms
        BY <3>3, <3>5
      <4>2. clock \in Clocks
        BY <2>1, <3>3, <4>1
      <4>3. new \in Clocks
        BY <4>2 DEF Clocks
      <4>4. [m_puzzle_map EXCEPT ![r][m.fd] = new] \in [Rooms -> [Fds -> Clocks]]
        <5> HIDE DEF r, new
        <5> QED BY <2>1, <3>3, <4>1, <4>3, PutIs, Zenon
      <4> QED BY <3>1, <3>2, <3>5, <4>4
    <3> QED BY <3>4, <3>5
  <2> QED BY <1>13, <2>1, <2>2 DEF PuzzleEndOne, TypeOK, AtWork, net, roles, games
<1>14. ASSUME ControlChangeScene PROVE IInv'
  <2>1. /\ m.arg \in Nat
        /\ recvqueue' \in Seq(Messages) /\ recvqueue' \in Seq([fd : Fds, op : Ops, arg : Nat])
    BY <1>14, Front DEF ControlChangeScene
  <2>2. /\ m_current_scene' \in [Rooms -> Nat] /\ up' \in BOOLEAN
        /\ upsets' \subseteq {"scene", "left", "noClock"}
    BY <1>14, <2>1 DEF ControlChangeScene, TypeOK
  <2> QED BY <1>14, <2>1, <2>2 DEF ControlChangeScene, TypeOK, AtWork, net, roles, games
<1> QED
  BY <1>1, <1>2, <1>3, <1>4, <1>5, <1>6, <1>7, <1>8, <1>9, <1>10, <1>11, <1>12, <1>13, <1>14
     DEF HandlerStep, ClassStep

\* A step of Evloop keeps everything typed.
LEMMA CloseKeeps ==
  ASSUME IInv, CloseStep
  PROVE  IInv'
<1> USE DEF IInv
<1> DEFINE Map == [Rooms -> [Fds -> Entries]]
           Told == [Fds -> [Rooms -> StatusLists]]
           EvStates == [at : {"idle", "rooms", "erase", "send"}, fd : Fds \cup {0},
                        room : Rooms \cup {0}, list : [Ids -> Statuses], todo : SUBSET Rooms]
<1>p. m_student_map \in Map /\ told \in Told /\ Nothing \in [Ids -> Statuses]
  BY Parts, JustIs DEF StatusLists
<1>e. evloop \in EvStates /\ evloop.todo \in SUBSET Rooms
  BY DEF TypeOK
<1>d. ASSUME NEW r, RoomDone(r)
      PROVE  evloop' \in EvStates /\ evloop'.at = "rooms" /\ evloop'.fd = evloop.fd
  BY <1>p, <1>e, <1>d DEF RoomDone
<1>r. ASSUME AtRoom PROVE NextRoom \in Rooms
  BY <1>e, <1>r, NextRoomIs DEF AtRoom
<1>1. ASSUME NEW fd \in Fds, Close(fd) PROVE IInv'
  <2>1. evloop' \in EvStates /\ evloop'.at = "rooms" /\ evloop'.fd \in Fds
    <3>1. evloop' = [at |-> "rooms", fd |-> fd, room |-> 0, list |-> Nothing, todo |-> Rooms]
      BY <1>1 DEF Close, EvIdle
    <3> QED BY <1>p, <3>1
  <2>2. conn' \in [Fds -> {"closed", "open", "dead"}] /\ late' \subseteq Fds
    BY <1>1 DEF Close, TypeOK
  <2> QED BY <1>1, <2>1, <2>2 DEF Close, TypeOK, AtWork, net, roles, games
<1>2. ASSUME DelTeacher PROVE IInv'
  <2>1. evloop' \in EvStates /\ evloop'.at = "rooms" /\ evloop'.fd \in Fds
    BY <1>2, <1>d DEF DelTeacher, AtWork, AtRoom
  <2>2. /\ m_isUsed' \in [Rooms -> {0, 1}] /\ up' \in BOOLEAN
        /\ m_teacher_fd' \in [Rooms -> Fds \cup {0}]
    BY <1>2 DEF DelTeacher, TypeOK
  <2>3. blurred' \in [Rooms -> SUBSET {"race", "twice"}]
    BY <1>2, MeetIs DEF DelTeacher
  <2> QED BY <1>2, <2>1, <2>2, <2>3 DEF DelTeacher, TypeOK, AtWork, net, roles, games
<1>3. ASSUME DelWhite PROVE IInv'
  <2>1. evloop' \in EvStates /\ evloop'.at = "rooms" /\ evloop'.fd \in Fds
    BY <1>3, <1>d DEF DelWhite, AtWork, AtRoom
  <2>2. m_white_fd' \in [Rooms -> Fds \cup {0}]
    BY <1>3 DEF DelWhite, TypeOK
  <2>3. blurred' \in [Rooms -> SUBSET {"race", "twice"}]
    BY <1>3, MeetIs DEF DelWhite
  <2> QED BY <1>3, <2>1, <2>2, <2>3 DEF DelWhite, TypeOK, AtWork, net, roles, games
<1>4. ASSUME DelStudent PROVE IInv'
  <2> DEFINE r == NextRoom
             here == evloop.fd \in Enrolled(r)
  <2>1. r \in Rooms
    BY <1>4, <1>r DEF DelStudent
  <2>2. m_student_map' \in Map
    <3>1. CASE here
      <4>1. evloop.fd \in Fds
        BY <3>1 DEF Enrolled, Students
      <4> DEFINE entry == [m_student_map[r][evloop.fd] EXCEPT !.st = "off"]
      <4>2. m_student_map[r][evloop.fd] \in Entries
        BY <1>p, <2>1, <4>1
      <4>3. entry \in Entries
        BY <4>2 DEF Entries, Statuses
      <4>4. m_student_map' = [m_student_map EXCEPT ![r][evloop.fd] = entry]
        BY <1>4, <3>1 DEF DelStudent
      <4> QED
        <5> HIDE DEF r, entry
        <5> QED BY <1>p, <2>1, <4>1, <4>3, <4>4, PutIs, Zenon
    <3>2. CASE ~ here
      BY <1>4, <1>p, <3>2 DEF DelStudent
    <3> QED BY <3>1, <3>2
  <2>3. List(m_student_map'[r]) \in [Ids -> Statuses]
    <3>1. m_student_map'[r] \in [Fds -> Entries]
      BY <2>1, <2>2
    <3> QED BY <3>1, ListIs DEF StatusLists
  <2>4. /\ evloop' \in EvStates
        /\ evloop'.room \in Rooms /\ evloop'.fd \in Fds
    <3>0. evloop.fd \in Fds
      BY <1>4 DEF DelStudent, AtRoom, AtWork
    <3> DEFINE list == List(m_student_map'[r])
               at == IF here THEN "erase" ELSE "send"
    <3>1. evloop' = [evloop EXCEPT !.at = at, !.room = r, !.list = list]
      BY <1>4 DEF DelStudent
    <3>2. list \in [Ids -> Statuses] /\ at \in {"erase", "send"}
      BY <2>3
    <3> HIDE DEF list, at, r
    <3> QED BY <3>0, <1>e, <2>1, <3>1, <3>2
  <2>5. blurred' \in [Rooms -> SUBSET {"race", "twice"}]
    BY <1>4, MeetIs DEF DelStudent
  <2>6. up' \in BOOLEAN
    BY <1>4 DEF DelStudent
  <2> QED BY <1>4, <2>2, <2>4, <2>5, <2>6 DEF DelStudent, Entries, TypeOK, AtWork, net, roles, games
<1>5. ASSUME Erase PROVE IInv'
  <2> DEFINE r == evloop.room
             student == m_student_map[r][evloop.fd]
  <2>1. r \in Rooms /\ evloop.fd \in Fds
    BY <1>5 DEF Erase, AtWork
  <2>2. told' \in Told
    <3>1. student.id = 0 \/ student.st \in Statuses
      <4>1. student \in Entries
        BY <1>p, <2>1
      <4> QED BY <4>1 DEF Entries
    <3>2. CASE student.id = 0
      BY <1>5, <1>p, <3>2 DEF Erase
    <3>3. CASE student.id # 0
      <4>1. Just(student.id, student.st) \in StatusLists
        BY <3>1, <3>3, JustIs
      <4>2. told' = Tell(Chiefs(r), r, Just(student.id, student.st))
        BY <1>5, <3>3 DEF Erase
      <4> HIDE DEF r, student
      <4> QED BY <1>p, <2>1, <4>1, <4>2, TellIs
    <3> QED BY <3>2, <3>3
  <2>3. m_student_map' \in Map
    <3>1. Absent \in Entries
      BY DEF Absent, Entries, Statuses
    <3>2. m_student_map' = [m_student_map EXCEPT ![r][evloop.fd] = Absent]
      BY <1>5 DEF Erase
    <3> QED BY <1>p, <3>1, <3>2
  <2>4. /\ evloop' \in EvStates
        /\ evloop'.room \in Rooms /\ evloop'.fd \in Fds
    BY <1>5, <1>e, <2>1 DEF Erase
  <2>5. upsets' \subseteq {"scene", "left", "noClock"}
    BY <1>5 DEF Erase, TypeOK
  <2> QED BY <1>5, <2>2, <2>3, <2>4, <2>5 DEF Erase, Entries, StatusLists, TypeOK, AtWork, net, roles, games
<1>6. ASSUME SendRest PROVE IInv'
  <2>1. evloop' \in EvStates /\ evloop'.at = "rooms" /\ evloop'.fd \in Fds
    BY <1>6, <1>d DEF SendRest, AtWork, AtRoom
  <2>2. told' \in Told
    BY <1>6, <1>p, TellIs, Parts DEF SendRest, AtWork
  <2> QED BY <1>6, <2>1, <2>2 DEF SendRest, StatusLists, TypeOK, AtWork, net, roles, games
<1>7. ASSUME CloseDone PROVE IInv'
  <2>1. evloop' \in EvStates /\ evloop'.at = "idle"
    BY <1>7, <1>p DEF CloseDone, EvIdle
  <2> QED BY <1>7, <2>1 DEF CloseDone, TypeOK, AtWork, net, roles, games
<1> QED
  BY <1>1, <1>2, <1>3, <1>4, <1>5, <1>6, <1>7 DEF CloseStep

\* A connection that is accepted keeps everything typed.
LEMMA AcceptKeeps ==
  ASSUME IInv, Accept
  PROVE  IInv'
<1> USE DEF IInv
<1>1. PICK fd \in scenario.fds :
        /\ conn' = [conn EXCEPT ![fd] = "open"]
        /\ client' = [client EXCEPT ![fd] = [NoClient EXCEPT !.kind = Head(coming).kind,
                                                           !.id = Head(coming).id]]
        /\ told' = [told EXCEPT ![fd] = [r \in Rooms |-> Nothing]]
  BY DEF Accept
<1>2. Head(coming) \in Clients /\ coming' \in Seq(Clients)
  BY DEF Accept, TypeOK
<1>3. client' \in [Fds -> [kind : {"none", "student", "white", "teacher"},
                          id : Ids \cup {0}, room : Rooms \cup {0}, in : BOOLEAN]]
  <2> DEFINE new == [NoClient EXCEPT !.kind = Head(coming).kind, !.id = Head(coming).id]
  <2>1. new \in [kind : {"none", "student", "white", "teacher"},
                 id : Ids \cup {0}, room : Rooms \cup {0}, in : BOOLEAN]
    BY <1>2 DEF NoClient, Clients
  <2>2. client' = [client EXCEPT ![fd] = new]
    BY <1>1
  <2> HIDE DEF new
  <2> QED BY <2>1, <2>2 DEF TypeOK
<1>4. told' \in [Fds -> [Rooms -> [Ids -> Statuses]]]
  <2>1. [r \in Rooms |-> Nothing] \in [Rooms -> StatusLists]
    BY JustIs
  <2>2. told \in [Fds -> [Rooms -> StatusLists]]
    BY Parts
  <2>3. told' \in [Fds -> [Rooms -> StatusLists]]
    BY <1>1, <2>1, <2>2, PutRowIs
  <2> QED BY <2>3 DEF StatusLists
<1>5. conn' \in [Fds -> {"closed", "open", "dead"}]
  BY <1>1 DEF TypeOK
<1> QED
  BY <1>2, <1>3, <1>4, <1>5 DEF Accept, TypeOK, AtWork, net, roles, games

\* The invariant holds at the start ...
LEMMA InitTyped == Init => IInv
<1> SUFFICES ASSUME Init PROVE IInv
  OBVIOUS
<1>1. Nothing \in [Ids -> Statuses]
  BY JustIs DEF StatusLists
<1>2. scenario \in Scenario /\ coming \in Seq(Clients)
  BY BoundsAssumption DEF Init, Scenario
<1>3. /\ client \in [Fds -> [kind : {"none", "student", "white", "teacher"},
                           id : Ids \cup {0}, room : Rooms \cup {0}, in : BOOLEAN]]
      /\ conn \in [Fds -> {"closed", "open", "dead"}]
  BY DEF Init, NoClient
<1>4. /\ recvtask \in [at : {"idle", "enter", "tell", "list", "send"}, fd : Fds \cup {0},
                      room : Rooms \cup {0}, list : [Ids -> Statuses]]
      /\ evloop \in [at : {"idle", "rooms", "erase", "send"}, fd : Fds \cup {0},
                    room : Rooms \cup {0}, list : [Ids -> Statuses], todo : SUBSET Rooms]
      /\ recvtask.at = "idle" /\ evloop.at = "idle"
  BY <1>1 DEF Init, RecvIdle, EvIdle
<1>5. /\ m_student_map \in [Rooms -> [Fds -> [id : Ids \cup {0}, st : Statuses]]]
      /\ m_puzzle_map \in [Rooms -> [Fds -> Clocks]]
  BY DEF Init, Absent, Statuses, Clocks
<1>6. told \in [Fds -> [Rooms -> [Ids -> Statuses]]]
  BY <1>1 DEF Init
<1>7. /\ m_teacher_fd \in [Rooms -> Fds \cup {0}] /\ m_white_fd \in [Rooms -> Fds \cup {0}]
      /\ m_isUsed \in [Rooms -> {0, 1}] /\ m_current_scene \in [Rooms -> Nat]
      /\ blurred \in [Rooms -> SUBSET {"race", "twice"}]
      /\ up \in BOOLEAN /\ sent \in Nat /\ late \subseteq Fds /\ upsets \subseteq {}
      /\ recvqueue = <<>>
  BY DEF Init
<1>8. recvqueue \in Seq(Messages) /\ recvqueue \in Seq([fd : Fds, op : Ops, arg : Nat])
  BY <1>7
<1> QED
  BY <1>2, <1>3, <1>4, <1>5, <1>6, <1>7, <1>8 DEF IInv, TypeOK, AtWork

\* ... and every step keeps it.
LEMMA NextTyped == IInv /\ [Next]_vars => IInv'
<1> SUFFICES ASSUME IInv, [Next]_vars PROVE IInv'
  OBVIOUS
<1>1. ASSUME UNCHANGED vars PROVE IInv'
  BY <1>1 DEF vars, IInv, TypeOK, AtWork, net, roles, games
<1> QED
  BY <1>1, AcceptKeeps, ClientKeeps, HandlerKeeps, CloseKeeps DEF Next

\* Every variable of the classrooms keeps its type, a room is in use once or
\* not at all, and everything clients were told is a status, for any rooms,
\* students and scenarios.
THEOREM Typing == Spec => []TypeOK
<1>1. IInv => TypeOK
  BY DEF IInv
<1> QED
  BY InitTyped, NextTyped, <1>1, PTL DEF Spec

(***************************************************************************)
(* One room per student                                                    *)
(***************************************************************************)

\* If nobody becomes a student of a room, nobody comes to be in two.
LEMMA FewerStudents ==
  ASSUME StudentInOneRoom, \A r \in Rooms : Enrolled(r)' \subseteq Enrolled(r)
  PROVE  StudentInOneRoom'
BY DEF StudentInOneRoom

\* A step keeps every student in one room.  Only SelectStudent makes a student,
\* of a descriptor that no room knows; LoginStudent, ConfirmLeaveEarly and
\* DelStudent change students there are, and the students puzzle_end makes are
\* NULL.
LEMMA OneRoomKept ==
  ASSUME IInv, StudentInOneRoom, Next
  PROVE  StudentInOneRoom'
<1> DEFINE Map == [Rooms -> [Fds -> Entries]]
<1>p. m_student_map \in Map
  BY Parts DEF IInv
<1>0. ASSUME UNCHANGED m_student_map PROVE StudentInOneRoom'
  <2>1. \A r \in Rooms : Enrolled(r)' = Enrolled(r)
    BY <1>0 DEF Enrolled, Students, Nulls
  <2> QED BY <2>1, FewerStudents
<1>1. ASSUME SelectStudent PROVE StudentInOneRoom'
  <2>1. m.fd \in Fds /\ m.arg \in Rooms
    BY <1>1, Front DEF SelectStudent, IInv
  <2>2. CASE RoomOf(m.fd) # 0
    BY <1>0, <1>1, <2>2 DEF SelectStudent
  <2>3. CASE RoomOf(m.fd) = 0
    <3>1. \A r \in Rooms : m.fd \notin Enrolled(r)
      BY <2>3, RoomOfIs DEF Knows, Enrolled
    <3>2. m_student_map' = [m_student_map EXCEPT ![m.arg][m.fd] = [id |-> 0, st |-> "off"]]
      BY <1>1, <2>3 DEF SelectStudent
    <3>3. \A r \in Rooms : r # m.arg => m_student_map'[r] = m_student_map[r]
      BY <1>p, <3>2
    <3>4. \A fd \in Fds : fd # m.fd => m_student_map'[m.arg][fd] = m_student_map[m.arg][fd]
      BY <1>p, <2>1, <3>2
    <3>5. \A r \in Rooms : Enrolled(r)' \subseteq Enrolled(r) \cup
                              (IF r = m.arg THEN {m.fd} ELSE {})
      BY <3>3, <3>4 DEF Enrolled, Students, Nulls
    <3> QED BY <2>1, <3>1, <3>5 DEF StudentInOneRoom
  <2> QED BY <2>2, <2>3
<1>2. ASSUME NEW r \in Rooms, NEW fd \in Enrolled(r), NEW entry,
             m_student_map' = [m_student_map EXCEPT ![r][fd] = entry]
      PROVE  StudentInOneRoom'
  <2>1. fd \in Fds
    BY DEF Enrolled, Students
  <2>2. \A s \in Rooms : s # r => m_student_map'[s] = m_student_map[s]
    BY <1>p, <1>2
  <2>3. \A g \in Fds : g # fd => m_student_map'[r][g] = m_student_map[r][g]
    BY <1>p, <1>2, <2>1
  <2>4. \A s \in Rooms : Enrolled(s)' \subseteq Enrolled(s)
    BY <2>2, <2>3 DEF Enrolled, Students, Nulls
  <2> QED BY <2>4, FewerStudents
<1>3. ASSUME LoginStudent PROVE StudentInOneRoom'
  <2>1. CASE RoomOf(m.fd) # 0 /\ m.fd \in Enrolled(RoomOf(m.fd))
    <3>1. RoomOf(m.fd) \in Rooms
      BY <2>1, RoomOfIs
    <3> QED BY <1>2, <1>3, <2>1, <3>1 DEF LoginStudent
  <2>2. CASE ~ (RoomOf(m.fd) # 0 /\ m.fd \in Enrolled(RoomOf(m.fd)))
    BY <1>0, <1>3, <2>2 DEF LoginStudent
  <2> QED BY <2>1, <2>2
<1>4. ASSUME ConfirmLeaveEarly PROVE StudentInOneRoom'
  <2>1. CASE RoomOf(m.fd) # 0 /\ m.fd \in Enrolled(RoomOf(m.fd))
    <3>1. RoomOf(m.fd) \in Rooms
      BY <2>1, RoomOfIs
    <3>2. m_student_map' = [m_student_map EXCEPT ![RoomOf(m.fd)][m.fd] =
                             [m_student_map[RoomOf(m.fd)][m.fd] EXCEPT !.st = "left"]]
      BY <1>4, <2>1 DEF ConfirmLeaveEarly
    <3> QED BY <1>2, <2>1, <3>1, <3>2
  <2>2. CASE ~ (RoomOf(m.fd) # 0 /\ m.fd \in Enrolled(RoomOf(m.fd)))
    BY <1>0, <1>4, <2>2 DEF ConfirmLeaveEarly
  <2> QED BY <2>1, <2>2
<1>5. ASSUME PuzzleEndAll PROVE StudentInOneRoom'
  <2> DEFINE r == RoomOf(m.fd)
  <2>1. m_student_map' = [m_student_map EXCEPT ![r] =
          [fd \in Fds |-> IF m_puzzle_map[r][fd] # "none" /\ fd \notin Students(r)
                            THEN NullStudent ELSE m_student_map[r][fd]]]
    BY <1>5 DEF PuzzleEndAll
  <2>2. \A s \in Rooms, fd \in Fds :
          m_student_map'[s][fd] \in {m_student_map[s][fd], NullStudent}
    BY <1>p, <2>1
  <2>3. \A s \in Rooms : Enrolled(s)' \subseteq Enrolled(s)
    BY <2>2 DEF Enrolled, Students, Nulls, NullStudent
  <2> QED BY <2>3, FewerStudents
<1>6. ASSUME DelStudent PROVE StudentInOneRoom'
  <2> DEFINE r == NextRoom
  <2>1. r \in Rooms
    BY <1>6, NextRoomIs DEF DelStudent, AtRoom, IInv, TypeOK
  <2>2. CASE evloop.fd \in Enrolled(r)
    <3>1. m_student_map' = [m_student_map EXCEPT ![r][evloop.fd] =
                             [m_student_map[r][evloop.fd] EXCEPT !.st = "off"]]
      BY <1>6, <2>2 DEF DelStudent
    <3> HIDE DEF r
    <3> QED BY <1>2, <2>1, <2>2, <3>1
  <2>3. CASE evloop.fd \notin Enrolled(r)
    BY <1>0, <1>6, <2>3 DEF DelStudent
  <2> QED BY <2>2, <2>3
<1>7. ASSUME Erase PROVE StudentInOneRoom'
  <2>1. m_student_map' = [m_student_map EXCEPT ![evloop.room][evloop.fd] = Absent]
    BY <1>7 DEF Erase
  <2>2. \A s \in Rooms, fd \in Fds : m_student_map'[s][fd] \in {m_student_map[s][fd], Absent}
    BY <1>p, <2>1
  <2>3. \A s \in Rooms : Enrolled(s)' \subseteq Enrolled(s)
    BY <2>2 DEF Enrolled, Students, Nulls, Absent
  <2> QED BY <2>3, FewerStudents
<1>8. ASSUME Accept \/ (\E fd \in Fds : ClientStep(fd)) PROVE UNCHANGED roles
  BY <1>8 DEF Accept, ClientStep, AskSelect, AskLogin, AskLeaveEarly, AskEnter, AskScene,
              AskLeave, AskPuzzleStart, AskPuzzleEnd, Die, Send
<1>9. ASSUME SelectWhite \/ Enter \/ EnterDone \/ Leave \/ PuzzleStart \/ PuzzleEndOne
               \/ ControlChangeScene \/ LoginTell \/ LoginList \/ SendList
      PROVE  UNCHANGED m_student_map
  BY <1>9 DEF SelectWhite, Enter, EnterDone, Leave, PuzzleStart, PuzzleEndOne,
              ControlChangeScene, LoginTell, LoginList, SendList, roles
<1>10. ASSUME (\E fd \in Fds : Close(fd)) \/ DelTeacher \/ DelWhite \/ SendRest \/ CloseDone
       PROVE  UNCHANGED m_student_map
  BY <1>10 DEF Close, DelTeacher, DelWhite, SendRest, CloseDone, roles
<1> QED
  BY <1>0, <1>1, <1>3, <1>4, <1>5, <1>6, <1>7, <1>8, <1>9, <1>10
     DEF Next, HandlerStep, ClassStep, CloseStep, roles

\* A student is in the map of one room at most: refusing a descriptor that some
\* room knows (handleSelectedClassRoom) is enough, for any number of rooms,
\* descriptors that are used again, and messages handled late.
THEOREM OneRoom == Spec => []StudentInOneRoom
<1>1. Init => StudentInOneRoom
  BY DEF Init, StudentInOneRoom, Enrolled, Students, Nulls, Absent
<1>2. IInv /\ StudentInOneRoom /\ [Next]_vars => StudentInOneRoom'
  <2> SUFFICES ASSUME IInv, StudentInOneRoom, [Next]_vars PROVE StudentInOneRoom'
    OBVIOUS
  <2>1. ASSUME UNCHANGED vars PROVE StudentInOneRoom'
    BY <2>1 DEF vars, roles, StudentInOneRoom, Enrolled, Students, Nulls
  <2> QED BY <2>1, OneRoomKept
<1> QED
  BY InitTyped, NextTyped, <1>1, <1>2, PTL DEF Spec

(***************************************************************************)
(* One teacher per room                                                    *)
(***************************************************************************)

\* A room in use keeps its teacher: handleLoginClassRoom asks m_isUsed before it
\* writes the teacher's descriptor, and del_client, the only other that writes
\* it, frees the room in the same stretch.
THEOREM Teachers == Spec => NoTakeOver
<1> DEFINE Kept == \A r \in Rooms :
             (m_isUsed[r] = 1 /\ m_isUsed'[r] = 1) => m_teacher_fd'[r] = m_teacher_fd[r]
<1>1. IInv /\ [Next]_vars => [Kept]_vars
  <2> SUFFICES ASSUME IInv, Next PROVE Kept
    OBVIOUS
  <2>t. m_teacher_fd \in [Rooms -> Fds \cup {0}] /\ m_isUsed \in [Rooms -> {0, 1}]
    BY DEF IInv, TypeOK
  <2>1. ASSUME UNCHANGED m_teacher_fd PROVE Kept
    BY <2>1
  <2>2. ASSUME Enter PROVE Kept
    BY <2>2, <2>t DEF Enter
  <2>3. ASSUME DelTeacher PROVE Kept
    <3>1. \A r \in Rooms : r # NextRoom => m_teacher_fd'[r] = m_teacher_fd[r]
      BY <2>3, <2>t DEF DelTeacher
    <3>2. NextRoom \in Rooms => m_isUsed'[NextRoom] = 0
      BY <2>3, <2>t DEF DelTeacher
    <3> QED BY <3>1, <3>2
  <2>4. ASSUME Accept \/ (\E fd \in Fds : ClientStep(fd)) PROVE UNCHANGED m_teacher_fd
    BY <2>4 DEF Accept, ClientStep, AskSelect, AskLogin, AskLeaveEarly, AskEnter, AskScene,
                AskLeave, AskPuzzleStart, AskPuzzleEnd, Die, Send, roles
  <2>5. ASSUME SelectStudent \/ SelectWhite \/ EnterDone \/ Leave \/ LoginStudent
                 \/ LoginTell \/ LoginList \/ SendList \/ ConfirmLeaveEarly
                 \/ PuzzleStart \/ PuzzleEndAll \/ PuzzleEndOne \/ ControlChangeScene
        PROVE  UNCHANGED m_teacher_fd
    BY <2>5 DEF SelectStudent, SelectWhite, EnterDone, Leave, LoginStudent, LoginTell,
                LoginList, SendList, ConfirmLeaveEarly, PuzzleStart, PuzzleEndAll,
                PuzzleEndOne, ControlChangeScene, roles
  <2>6. ASSUME (\E fd \in Fds : Close(fd)) \/ DelWhite \/ DelStudent \/ Erase
                 \/ SendRest \/ CloseDone
        PROVE  UNCHANGED m_teacher_fd
    BY <2>6 DEF Close, DelWhite, DelStudent, Erase, SendRest, CloseDone, roles
  <2> QED
    BY <2>1, <2>2, <2>3, <2>4, <2>5, <2>6 DEF Next, HandlerStep, ClassStep, CloseStep
<1> QED
  BY InitTyped, NextTyped, <1>1, PTL DEF Spec, NoTakeOver

(***************************************************************************)
(* What brings the process down                                            *)
(***************************************************************************)

\* As long as nothing has happened that may bring the process down, no room has
\* a NULL student or a NULL clock, and whoever has a clock is a student.
Sound ==
  \A r \in Rooms, fd \in Fds :
    /\ m_student_map[r][fd].st # "null" /\ m_puzzle_map[r][fd] # "null"
    /\ m_puzzle_map[r][fd] # "none" => m_student_map[r][fd].st # "none"

Calm == upsets = {} => up /\ Sound

\* Without NULL students the walks through a room's students end well.
LEMMA NoNulls ==
  ASSUME Sound, NEW r \in Rooms
  PROVE  Nulls(r) = {} /\ \A fd \in Fds : m_puzzle_map[r][fd] # "null"
BY DEF Sound, Nulls

\* A student whose entry is replaced by one that is neither absent nor NULL.
LEMMA SoundPut ==
  ASSUME Sound, m_student_map \in [Rooms -> [Fds -> Entries]],
         UNCHANGED m_puzzle_map, NEW r, NEW fd, NEW entry,
         m_student_map' = [m_student_map EXCEPT ![r][fd] = entry],
         entry.st \notin {"null", "none"}
  PROVE  Sound'
<1> SUFFICES ASSUME NEW q \in Rooms, NEW g \in Fds
             PROVE  /\ m_student_map'[q][g].st # "null" /\ m_puzzle_map[q][g] # "null"
                    /\ m_puzzle_map[q][g] # "none" => m_student_map'[q][g].st # "none"
  BY DEF Sound
<1>1. m_student_map'[q][g] \in {m_student_map[q][g], entry}
  OBVIOUS
<1>2. m_student_map'[q][g].st = m_student_map[q][g].st
        \/ m_student_map'[q][g].st \notin {"null", "none"}
  BY <1>1
<1> QED BY <1>2 DEF Sound

\* A step keeps the calm, or is one of the three that end it.
LEMMA CalmKept ==
  ASSUME IInv, Calm, Next
  PROVE  Calm'
<1> SUFFICES ASSUME upsets' = {} PROVE up' /\ Sound'
  BY DEF Calm
<1>p. /\ m_student_map \in [Rooms -> [Fds -> Entries]]
      /\ m_puzzle_map \in [Rooms -> [Fds -> Clocks]]
  BY Parts DEF IInv, TypeOK
<1>s. ASSUME UNCHANGED upsets PROVE up /\ Sound
  BY <1>s DEF Calm
<1>u. ASSUME Sound, UNCHANGED <<m_student_map, m_puzzle_map>> PROVE Sound'
  BY <1>u DEF Sound
<1>1. ASSUME Accept \/ (\E fd \in Fds : ClientStep(fd)) PROVE up' /\ Sound'
  <2>1. UNCHANGED <<up, roles, games>>
    BY <1>1 DEF Accept, ClientStep, AskSelect, AskLogin, AskLeaveEarly, AskEnter, AskScene,
                AskLeave, AskPuzzleStart, AskPuzzleEnd, Die, Send
  <2> QED BY <1>s, <1>u, <2>1 DEF roles, games
<1>2. ASSUME SelectWhite \/ Enter \/ EnterDone \/ LoginTell \/ SendList PROVE up' /\ Sound'
  <2>1. UNCHANGED <<up, m_student_map, m_puzzle_map, upsets>>
    BY <1>2 DEF SelectWhite, Enter, EnterDone, LoginTell, SendList, roles, games
  <2> QED BY <1>s, <1>u, <2>1
<1>3. ASSUME (\E fd \in Fds : Close(fd)) \/ DelWhite \/ SendRest \/ CloseDone
      PROVE  up' /\ Sound'
  <2>1. UNCHANGED <<up, m_student_map, m_puzzle_map, upsets>>
    BY <1>3 DEF Close, DelWhite, SendRest, CloseDone, roles, games
  <2> QED BY <1>s, <1>u, <2>1
<1>4. ASSUME SelectStudent PROVE up' /\ Sound'
  <2>1. UNCHANGED <<up, m_puzzle_map, upsets>>
    BY <1>4 DEF SelectStudent, games
  <2>2. CASE UNCHANGED m_student_map
    BY <1>s, <1>u, <2>1, <2>2
  <2>3. CASE m_student_map' = [m_student_map EXCEPT ![m.arg][m.fd] = [id |-> 0, st |-> "off"]]
    <3> DEFINE entry == [id |-> 0, st |-> "off"]
    <3>1. entry.st = "off" /\ m_student_map' = [m_student_map EXCEPT ![m.arg][m.fd] = entry]
      BY <2>3
    <3> HIDE DEF entry
    <3> QED BY <1>p, <1>s, <2>1, <3>1, SoundPut
  <2> QED BY <1>4, <2>2, <2>3 DEF SelectStudent
<1>5. ASSUME Leave PROVE up' /\ Sound'
  <2>1. UNCHANGED <<m_student_map, m_puzzle_map, upsets>>
    BY <1>5 DEF Leave, games
  <2>2. RoomOf(m.fd) # 0 => Nulls(RoomOf(m.fd)) = {}
    BY <1>s, <2>1, RoomOfIs, NoNulls
  <2> QED BY <1>5, <1>s, <1>u, <2>1, <2>2 DEF Leave
<1>6. ASSUME ControlChangeScene PROVE up' /\ Sound'
  <2>1. up' /\ UNCHANGED upsets
    BY <1>6 DEF ControlChangeScene
  <2>2. UNCHANGED <<m_student_map, m_puzzle_map>>
    BY <1>6 DEF ControlChangeScene
  <2> QED BY <1>s, <1>u, <2>1, <2>2
<1>7. ASSUME LoginStudent PROVE up' /\ Sound'
  <2>1. UNCHANGED <<up, m_puzzle_map, upsets>>
    BY <1>7 DEF LoginStudent, games
  <2>2. CASE UNCHANGED m_student_map
    BY <1>s, <1>u, <2>1, <2>2
  <2>3. CASE m_student_map' = [m_student_map EXCEPT ![RoomOf(m.fd)][m.fd] =
                                [id |-> m.arg, st |-> "on"]]
    <3> DEFINE entry == [id |-> m.arg, st |-> "on"]
    <3>1. /\ entry.st = "on"
          /\ m_student_map' = [m_student_map EXCEPT ![RoomOf(m.fd)][m.fd] = entry]
      BY <2>3
    <3> HIDE DEF entry
    <3> QED BY <1>p, <1>s, <2>1, <3>1, SoundPut
  <2> QED BY <1>7, <2>2, <2>3 DEF LoginStudent
<1>8. ASSUME LoginList PROVE up' /\ Sound'
  <2>1. UNCHANGED <<m_student_map, m_puzzle_map, upsets>>
    BY <1>8 DEF LoginList, roles, games
  <2>2. recvtask.room \in Rooms
    BY <1>8 DEF LoginList, IInv, AtWork
  <2>3. Nulls(recvtask.room) = {}
    BY <1>s, <2>1, <2>2, NoNulls
  <2> QED BY <1>8, <1>s, <1>u, <2>1, <2>3 DEF LoginList
<1>9. ASSUME ConfirmLeaveEarly PROVE up' /\ Sound'
  <2> DEFINE r == RoomOf(m.fd)
             in == r # 0 /\ m.fd \in Enrolled(r)
  <2>1. UNCHANGED <<m_puzzle_map, upsets>>
    BY <1>9 DEF ConfirmLeaveEarly, games
  <2>2. CASE ~ in
    BY <1>9, <1>s, <1>u, <2>1, <2>2 DEF ConfirmLeaveEarly
  <2>3. CASE in
    <3>1. r \in Rooms /\ m.fd \in Fds
      BY <2>3, RoomOfIs DEF Enrolled, Students
    <3>2. up'
      BY <1>9, <1>s, <2>1, <2>3, <3>1, NoNulls DEF ConfirmLeaveEarly
    <3> DEFINE entry == [m_student_map[r][m.fd] EXCEPT !.st = "left"]
    <3>3. m_student_map' = [m_student_map EXCEPT ![r][m.fd] = entry]
      BY <1>9, <2>3 DEF ConfirmLeaveEarly
    <3>4. entry.st = "left"
      <4>1. m_student_map[r][m.fd] \in Entries
        BY <1>p, <3>1
      <4> QED BY <4>1 DEF Entries
    <3> HIDE DEF entry
    <3> QED BY <1>p, <1>s, <2>1, <3>2, <3>3, <3>4, SoundPut
  <2> QED BY <2>2, <2>3
<1>10. ASSUME PuzzleStart PROVE up' /\ Sound'
  <2>1. UNCHANGED <<up, m_student_map, upsets>>
    BY <1>10 DEF PuzzleStart, roles
  <2>2. PICK fd : LET s == RoomOf(fd) IN
          m_puzzle_map' =
            IF s = 0 THEN m_puzzle_map
            ELSE [m_puzzle_map EXCEPT ![s] =
                   [g \in Fds |-> IF g \in Students(s) /\ @[g] = "none" THEN "run" ELSE @[g]]]
    BY <1>10 DEF PuzzleStart
  <2>3. \A r \in Rooms, g \in Fds :
          \/ m_puzzle_map'[r][g] = m_puzzle_map[r][g]
          \/ m_puzzle_map'[r][g] = "run" /\ g \in Students(r)
    BY <1>p, <2>2
  <2> QED BY <1>s, <2>1, <2>3 DEF Sound, Students
<1>11. ASSUME PuzzleEndAll PROVE up' /\ Sound'
  <2> DEFINE r == RoomOf(m.fd)
  <2>1. UNCHANGED upsets /\ r \in Rooms
    BY <1>11, RoomOfIs DEF PuzzleEndAll
  <2>2. up'
    BY <1>11, <1>s, <2>1, NoNulls DEF PuzzleEndAll
  <2>3. \A q \in Rooms, g \in Fds :
          \/ m_puzzle_map'[q][g] = m_puzzle_map[q][g]
          \/ /\ m_puzzle_map'[q][g] = "all"
             /\ m_puzzle_map[q][g] = "run"
    <3>1. m_puzzle_map' = [m_puzzle_map EXCEPT ![r] =
            [g \in Fds |-> IF m_puzzle_map[r][g] = "run" THEN "all" ELSE m_puzzle_map[r][g]]]
      BY <1>11 DEF PuzzleEndAll
    <3>2. \A q \in Rooms, g \in Fds : m_puzzle_map'[q][g] =
            IF q = r THEN IF m_puzzle_map[r][g] = "run" THEN "all" ELSE m_puzzle_map[r][g]
                     ELSE m_puzzle_map[q][g]
      <4> HIDE DEF r
      <4> QED BY <1>p, <3>1
    <3> HIDE DEF r
    <3> QED BY <3>2
  <2>4. \A g \in Fds : m_puzzle_map[r][g] # "none" => g \in Students(r)
    BY <1>s, <2>1 DEF Sound, Students
  <2>5. m_student_map' = [m_student_map EXCEPT ![r] =
          [g \in Fds |-> IF m_puzzle_map[r][g] # "none" /\ g \notin Students(r)
                           THEN NullStudent ELSE m_student_map[r][g]]]
    BY <1>11 DEF PuzzleEndAll
  <2>6. \A q \in Rooms, g \in Fds : m_student_map'[q][g] = m_student_map[q][g]
    <3> HIDE DEF r
    <3> QED BY <1>p, <2>1, <2>4, <2>5
  <2> QED BY <1>s, <2>1, <2>2, <2>3, <2>6 DEF Sound
<1>12. ASSUME PuzzleEndOne PROVE up' /\ Sound'
  <2> DEFINE r == RoomOf(m.fd)
             clock == m_puzzle_map[r][m.fd]
             new == CASE clock = "run" -> "own" [] clock = "none" -> "null" [] OTHER -> clock
  <2>1. UNCHANGED <<up, m_student_map, upsets>> /\ (r # 0 => clock # "none")
    BY <1>12 DEF PuzzleEndOne, roles
  <2>2. m_puzzle_map' = IF r = 0 THEN m_puzzle_map ELSE [m_puzzle_map EXCEPT ![r][m.fd] = new]
    BY <1>12 DEF PuzzleEndOne
  <2>3. \A q \in Rooms, g \in Fds :
          \/ m_puzzle_map'[q][g] = m_puzzle_map[q][g]
          \/ /\ m_puzzle_map'[q][g] = "own"
             /\ m_puzzle_map[q][g] = "run"
    <3>1. CASE r = 0
      BY <2>2, <3>1
    <3>2. CASE r # 0
      <4>1. new \in {clock, "own"} /\ (new = "own" => clock \in {"own", "run"})
        BY <2>1, <3>2
      <4>2. m_puzzle_map' = [m_puzzle_map EXCEPT ![r][m.fd] = new]
        BY <2>2, <3>2
      <4>3. \A q \in Rooms, g \in Fds :
              m_puzzle_map'[q][g] = IF q = r /\ g = m.fd THEN new ELSE m_puzzle_map[q][g]
        <5> HIDE DEF r, new
        <5> QED BY <1>p, <4>2
      <4> QED BY <4>1, <4>3
    <3> QED BY <3>1, <3>2
  <2> QED BY <1>s, <2>1, <2>3 DEF Sound
<1>13. ASSUME DelTeacher PROVE up' /\ Sound'
  <2>1. UNCHANGED <<m_student_map, m_puzzle_map, upsets>>
    BY <1>13 DEF DelTeacher, games
  <2>2. NextRoom \in Rooms
    BY <1>13, NextRoomIs DEF DelTeacher, AtRoom, IInv, TypeOK
  <2>3. RoomOf(evloop.fd) \in Rooms
    <3>1. Knows(NextRoom, evloop.fd)
      BY <1>13 DEF DelTeacher, Knows
    <3> QED BY <2>2, <3>1, RoomOfIs
  <2>4. Nulls(NextRoom) = {} /\ Nulls(RoomOf(evloop.fd)) = {}
    BY <1>s, <2>1, <2>2, <2>3, NoNulls
  <2> QED BY <1>13, <1>s, <1>u, <2>1, <2>4 DEF DelTeacher
<1>14. ASSUME DelStudent PROVE up' /\ Sound'
  <2> DEFINE r == NextRoom
             entry == [m_student_map[r][evloop.fd] EXCEPT !.st = "off"]
  <2>1. UNCHANGED <<m_puzzle_map, upsets>>
    BY <1>14 DEF DelStudent, games
  <2>2. r \in Rooms
    BY <1>14, NextRoomIs DEF DelStudent, AtRoom, IInv, TypeOK
  <2>3. up'
    BY <1>14, <1>s, <2>1, <2>2, NoNulls DEF DelStudent
  <2>4. CASE evloop.fd \notin Enrolled(r)
    BY <1>14, <1>s, <1>u, <2>1, <2>3, <2>4 DEF DelStudent
  <2>5. CASE evloop.fd \in Enrolled(r)
    <3>1. m_student_map' = [m_student_map EXCEPT ![r][evloop.fd] = entry]
      BY <1>14, <2>5 DEF DelStudent
    <3>2. m_student_map[r][evloop.fd] \in Entries
      BY <1>p, <2>2, <2>5 DEF Enrolled, Students
    <3>3. entry.st = "off"
      BY <3>2 DEF Entries
    <3> HIDE DEF entry, r
    <3> QED BY <1>p, <1>s, <2>1, <2>3, <3>1, <3>3, SoundPut
  <2> QED BY <2>4, <2>5
<1>15. ASSUME Erase PROVE up' /\ Sound'
  <2> DEFINE r == evloop.room
             fd == evloop.fd
  <2>1. UNCHANGED <<m_puzzle_map, upsets, up>> /\ m_puzzle_map[r][fd] = "none"
    BY <1>15 DEF Erase
  <2>2. m_student_map' = [m_student_map EXCEPT ![r][fd] = Absent]
    BY <1>15 DEF Erase
  <2>3. \A q \in Rooms, g \in Fds :
          m_student_map'[q][g] = IF q = r /\ g = fd THEN Absent ELSE m_student_map[q][g]
    <3> HIDE DEF r, fd
    <3> QED BY <1>p, <2>2
  <2> QED
    <3> HIDE DEF r, fd
    <3> QED BY <1>s, <2>1, <2>3 DEF Sound, Absent
<1> QED
  BY <1>1, <1>2, <1>3, <1>4, <1>5, <1>6, <1>7, <1>8, <1>9, <1>10, <1>11, <1>12, <1>13, <1>14, <1>15
     DEF Next, HandlerStep, ClassStep, CloseStep

\* The process goes down only after a scene from a teacher without a room, a
\* student who left with a clock, or an end of the puzzle without a clock, for
\* any rooms and clients and however the two threads interleave.
THEOREM Crashes == Spec => []NoOtherCrash
<1>1. Init => Calm
  BY DEF Init, Calm, Sound, Absent
<1>2. IInv /\ Calm /\ [Next]_vars => Calm'
  <2> SUFFICES ASSUME IInv, Calm, [Next]_vars PROVE Calm'
    OBVIOUS
  <2>1. ASSUME UNCHANGED vars PROVE Calm'
    BY <2>1 DEF vars, roles, games, Calm, Sound
  <2> QED BY <2>1, CalmKept
<1>3. Calm => NoOtherCrash
  BY DEF Calm, NoOtherCrash
<1> QED
  BY InitTyped, NextTyped, <1>1, <1>2, <1>3, PTL DEF Spec

(***************************************************************************)
(* Connections that end                                                    *)
(***************************************************************************)

\* The sender of a waiting message is still connected, and it says what its
\* kind of client says.
Stands(msg) ==
  /\ conn[msg.fd] # "closed"
  /\ msg.op \in {"selectStudent", "login"} => client[msg.fd].kind = "student"
  /\ msg.op = "selectWhite" => client[msg.fd].kind = "white"
  /\ msg.op = "loginClassRoom" => client[msg.fd].kind = "teacher"
  /\ msg.op = "login" => msg.arg = client[msg.fd].id

Waiting == \A i \in 1 .. Len(recvqueue) : Stands(recvqueue[i])

\* So is the client RecvTask works for; a teacher who is entering is in the room.
Working ==
  /\ recvtask.at # "idle" => recvtask.fd \in Fds /\ conn[recvtask.fd] # "closed"
  /\ recvtask.at = "enter" => m_teacher_fd[recvtask.room] = recvtask.fd

\* The client Evloop works for is not.
Ending ==
  /\ evloop.at # "idle" => conn[evloop.fd] = "closed"
  /\ evloop.at \in {"erase", "send"} => evloop.room \in evloop.todo

\* Evloop has still to come to what this client was in this room.
Going(fd, r) ==
  /\ evloop.at # "idle" /\ evloop.fd = fd /\ r \in evloop.todo
  /\ evloop.at = "erase" /\ evloop.room = r => fd \notin Chiefs(r)
  /\ ~ (evloop.at = "send" /\ evloop.room = r)

Here == \A r \in Rooms : \A fd \in Audience(r) : conn[fd] # "closed" \/ Going(fd, r)

\* Everybody has the role of its kind, and students their ids.
Pupils ==
  \A r \in Rooms, fd \in Fds :
    /\ fd \in Enrolled(r) => /\ client[fd].kind = "student"
                             /\ m_student_map[r][fd].id \in {0, client[fd].id}
    /\ fd \notin Enrolled(r) => m_student_map[r][fd].id = 0
Masters ==
  \A r \in Rooms, fd \in Fds :
    /\ fd = m_teacher_fd[r] => client[fd].kind = "teacher"
    /\ fd = m_white_fd[r] => client[fd].kind = "white"

Used == \A r \in Rooms : m_isUsed[r] = 1 => m_teacher_fd[r] # 0

Gone == late = {} => Waiting /\ Working /\ Ending /\ Here /\ Pupils /\ Masters /\ Used

\* What a handler leaves alone.
LEMMA HandlerFrame ==
  ASSUME HandlerStep
  PROVE  /\ UNCHANGED <<conn, client, late, evloop>>
         /\ \/ recvtask.at # "idle" /\ recvqueue' = recvqueue
            \/ recvtask.at = "idle" /\ recvqueue # <<>> /\ recvqueue' = Tail(recvqueue)
<1>1. ASSUME EnterDone \/ LoginTell \/ LoginList \/ SendList
      PROVE  /\ UNCHANGED <<conn, client, late, evloop>>
             /\ recvtask.at # "idle" /\ recvqueue' = recvqueue
  BY <1>1 DEF EnterDone, LoginTell, LoginList, SendList, net
<1>2. ASSUME \/ SelectStudent \/ SelectWhite \/ Enter \/ Leave \/ LoginStudent
             \/ ConfirmLeaveEarly \/ PuzzleStart \/ PuzzleEndAll \/ PuzzleEndOne
             \/ ControlChangeScene
      PROVE  /\ UNCHANGED <<conn, client, late, evloop>>
             /\ recvtask.at = "idle" /\ recvqueue # <<>> /\ recvqueue' = Tail(recvqueue)
  BY <1>2 DEF SelectStudent, SelectWhite, Enter, Leave, LoginStudent, ConfirmLeaveEarly,
              PuzzleStart, PuzzleEndAll, PuzzleEndOne, ControlChangeScene, Handle, net
<1> QED BY <1>1, <1>2 DEF HandlerStep, ClassStep

\* What a step of Evloop leaves alone.
LEMMA CloseFrame ==
  ASSUME CloseStep
  PROVE  /\ UNCHANGED <<client, recvqueue, recvtask>>
         /\ (\E fd \in Fds : Close(fd)) \/ UNCHANGED <<conn, late>>
BY DEF CloseStep, Close, DelTeacher, DelWhite, DelStudent, Erase, SendRest, CloseDone, net

\* What a client leaves alone, and the message it sends.
LEMMA ClientFrame ==
  ASSUME IInv, NEW fd \in Fds, ClientStep(fd)
  PROVE  /\ UNCHANGED <<recvtask, evloop, roles, told, late, blurred>>
         /\ \A g \in Fds : client'[g].kind = client[g].kind /\ client'[g].id = client[g].id
         /\ conn[fd] = "open"
         /\ \/ UNCHANGED recvqueue /\ conn' = [conn EXCEPT ![fd] = "dead"]
            \/ /\ UNCHANGED conn
               /\ \E op \in Ops, arg \in Nat :
                    LET msg == [fd |-> fd, op |-> op, arg |-> arg] IN
                    recvqueue' = Append(recvqueue, msg) /\ Stands(msg)
<1> DEFINE Says(op, arg) ==
             LET msg == [fd |-> fd, op |-> op, arg |-> arg] IN
             recvqueue' = Append(recvqueue, msg) /\ Stands(msg)
           Same == \A g \in Fds : client'[g].kind = client[g].kind /\ client'[g].id = client[g].id
           Alone == UNCHANGED <<recvtask, evloop, roles, told, late, blurred>> /\ conn[fd] = "open"
           Sends == Alone /\ Same /\ UNCHANGED conn
                      /\ \E op \in Ops, arg \in Nat : Says(op, arg)
<1>0. /\ scenario.rooms \subseteq Nat /\ scenario.talk \subseteq Ops
      /\ client[fd].id \in Nat
      /\ client \in [Fds -> [kind : {"none", "student", "white", "teacher"},
                             id : Ids \cup {0}, room : Rooms \cup {0}, in : BOOLEAN]]
  <2>1. client \in [Fds -> [kind : {"none", "student", "white", "teacher"},
                              id : Ids \cup {0}, room : Rooms \cup {0}, in : BOOLEAN]]
    BY DEF IInv, TypeOK
  <2>2. client[fd].id \in Ids \cup {0}
    BY <2>1
  <2>3. client[fd].id \in Nat
    BY <2>2, IdsAssumption
  <2>4. scenario \in Scenario
    BY DEF IInv, TypeOK
  <2> QED BY <2>1, <2>3, <2>4, RoomsAssumption DEF Scenario
<1>s. ASSUME NEW op, NEW arg \in Nat, Send(fd, op, arg), Same,
             op \in {"selectStudent", "login"} => client[fd].kind = "student",
             op = "selectWhite" => client[fd].kind = "white",
             op = "loginClassRoom" => client[fd].kind = "teacher",
             op = "login" => arg = client[fd].id
      PROVE  Sends
  <2>1. op \in Ops /\ Alone /\ UNCHANGED conn
    BY <1>0, <1>s DEF Send
  <2>2. Says(op, arg)
    BY <1>s, <2>1 DEF Send, Stands
  <2> HIDE DEF Says, Alone, Same
  <2> QED BY <1>s, <2>1, <2>2
<1>1. ASSUME NEW r \in scenario.rooms, AskSelect(fd, r) PROVE Sends
  <2>1. Same
    BY <1>0, <1>1 DEF AskSelect
  <2>2. r \in Nat
    BY <1>0
  <2> HIDE DEF Sends, Same
  <2>3. CASE client[fd].kind = "student"
    BY <1>1, <1>s, <2>1, <2>2, <2>3 DEF AskSelect
  <2>4. CASE client[fd].kind = "white"
    BY <1>1, <1>s, <2>1, <2>2, <2>4 DEF AskSelect
  <2> QED BY <1>1, <2>3, <2>4 DEF AskSelect
<1>2. ASSUME AskLogin(fd) PROVE Sends
  <2>1. Same
    BY <1>0, <1>2 DEF AskLogin
  <2> HIDE DEF Sends, Same
  <2> QED BY <1>0, <1>2, <1>s, <2>1 DEF AskLogin
<1>3. ASSUME NEW r \in scenario.rooms, AskEnter(fd, r) PROVE Sends
  <2>1. Same
    BY <1>0, <1>3 DEF AskEnter
  <2>2. r \in Nat
    BY <1>0
  <2> HIDE DEF Sends, Same
  <2> QED BY <1>3, <1>s, <2>1, <2>2 DEF AskEnter
<1>4. ASSUME AskLeave(fd) PROVE Sends
  <2>1. Same
    BY <1>0, <1>4 DEF AskLeave
  <2> HIDE DEF Sends, Same
  <2> QED BY <1>4, <1>s, <2>1 DEF AskLeave
<1>5. ASSUME AskLeaveEarly(fd) \/ (\E scene \in Scenes : AskScene(fd, scene))
               \/ AskPuzzleStart(fd) \/ AskPuzzleEnd(fd)
      PROVE  Sends
  <2>1. Same
    BY <1>5 DEF AskLeaveEarly, AskScene, AskPuzzleStart, AskPuzzleEnd
  <2> HIDE DEF Sends, Same
  <2>2. ASSUME AskLeaveEarly(fd) PROVE Sends
    BY <1>s, <2>1, <2>2 DEF AskLeaveEarly
  <2>3. ASSUME NEW scene \in Scenes, AskScene(fd, scene) PROVE Sends
    BY <1>s, <2>1, <2>3 DEF AskScene, Scenes
  <2>4. ASSUME AskPuzzleStart(fd) PROVE Sends
    BY <1>s, <2>1, <2>4 DEF AskPuzzleStart
  <2>5. ASSUME AskPuzzleEnd(fd) PROVE Sends
    BY <1>s, <2>1, <2>5 DEF AskPuzzleEnd
  <2> QED BY <1>5, <2>2, <2>3, <2>4, <2>5
<1>6. ASSUME Die(fd)
      PROVE  Alone /\ Same /\ UNCHANGED recvqueue /\ conn' = [conn EXCEPT ![fd] = "dead"]
  BY <1>6 DEF Die, roles
<1> HIDE DEF Alone, Same
<1> QED
  <2>1. \/ Sends
        \/ Alone /\ Same /\ UNCHANGED recvqueue /\ conn' = [conn EXCEPT ![fd] = "dead"]
    <3> HIDE DEF Sends
    <3> QED BY <1>1, <1>2, <1>3, <1>4, <1>5, <1>6 DEF ClientStep
  <2> QED BY <2>1 DEF Alone, Same

\* What is true of every waiting message while its sender's connection and
\* kind stay the same is true when one is taken, or another is added.
LEMMA WaitingKept ==
  ASSUME IInv, Waiting, Next, late' = {}
  PROVE  Waiting'
<1>q. recvqueue \in Seq([fd : Fds, op : Ops, arg : Nat])
  BY DEF IInv, TypeOK
<1>f. ASSUME NEW i \in 1 .. Len(recvqueue) PROVE recvqueue[i].fd \in Fds /\ Stands(recvqueue[i])
  <2> DEFINE S == [fd : Fds, op : Ops, arg : Nat]
  <2>1. recvqueue[i] \in S
    <3>1. recvqueue \in Seq(S)
      BY <1>q
    <3> HIDE DEF S
    <3> QED BY <1>f, <3>1
  <2> QED BY <1>f, <2>1 DEF Waiting
<1>c. conn \in [Fds -> {"closed", "open", "dead"}]
  BY DEF IInv, TypeOK
<1>1. ASSUME Accept PROVE Waiting'
  <2>1. PICK fd \in scenario.fds :
          /\ conn[fd] = "closed" /\ conn' = [conn EXCEPT ![fd] = "open"]
          /\ client' = [client EXCEPT ![fd] = [NoClient EXCEPT !.kind = Head(coming).kind,
                                                             !.id = Head(coming).id]]
    BY <1>1 DEF Accept
  <2>2. recvqueue' = recvqueue
    BY <1>1 DEF Accept
  <2>3. ASSUME NEW i \in 1 .. Len(recvqueue)
        PROVE  /\ conn'[recvqueue[i].fd] = conn[recvqueue[i].fd]
               /\ client'[recvqueue[i].fd] = client[recvqueue[i].fd]
    BY <1>f, <2>1 DEF Stands, IInv, TypeOK
  <2> QED BY <1>f, <2>2, <2>3 DEF Waiting, Stands
<1>2. ASSUME NEW fd \in Fds, ClientStep(fd) PROVE Waiting'
  <2>0. \A g \in Fds : client'[g].kind = client[g].kind /\ client'[g].id = client[g].id
    BY <1>2, ClientFrame
  <2>1. CASE UNCHANGED recvqueue /\ conn' = [conn EXCEPT ![fd] = "dead"]
    BY <1>c, <1>f, <2>0, <2>1 DEF Waiting, Stands
  <2>2. ASSUME UNCHANGED conn, NEW op \in Ops, NEW arg \in Nat,
               LET msg == [fd |-> fd, op |-> op, arg |-> arg] IN
               recvqueue' = Append(recvqueue, msg) /\ Stands(msg)
        PROVE  Waiting'
    <3> DEFINE msg == [fd |-> fd, op |-> op, arg |-> arg]
    <3>1. recvqueue' = Append(recvqueue, msg) /\ Stands(msg) /\ msg.fd \in Fds
      BY <2>2
    <3> HIDE DEF msg
    <3>2. Len(recvqueue') = Len(recvqueue) + 1
          /\ \A i \in 1 .. Len(recvqueue) : recvqueue'[i] = recvqueue[i]
          /\ recvqueue'[Len(recvqueue) + 1] = msg
      BY <1>q, <3>1
    <3>3. ASSUME NEW i \in 1 .. Len(recvqueue')
          PROVE  recvqueue'[i].fd \in Fds /\ Stands(recvqueue'[i])
      <4>1. CASE i = Len(recvqueue) + 1
        BY <3>1, <3>2, <4>1
      <4>2. CASE i # Len(recvqueue) + 1
        <5>1. i \in 1 .. Len(recvqueue)
          BY <1>q, <3>2, <4>2
        <5> QED BY <1>f, <3>2, <5>1
      <4> QED BY <4>1, <4>2
    <3> QED BY <2>0, <2>2, <3>3 DEF Waiting, Stands
  <2> QED BY <1>2, <2>1, <2>2, ClientFrame
<1>3. ASSUME HandlerStep PROVE Waiting'
  <2>0. UNCHANGED <<conn, client>>
    BY <1>3, HandlerFrame
  <2>1. CASE recvqueue' = recvqueue
    BY <2>0, <2>1 DEF Waiting, Stands
  <2>2. CASE recvqueue # <<>> /\ recvqueue' = Tail(recvqueue)
    <3>1. \A i \in 1 .. Len(recvqueue') :
            i + 1 \in 1 .. Len(recvqueue) /\ recvqueue'[i] = recvqueue[i + 1]
      BY <1>q, <2>2
    <3> QED BY <1>f, <2>0, <3>1 DEF Waiting, Stands
  <2> QED BY <1>3, <2>1, <2>2, HandlerFrame
<1>4. ASSUME CloseStep PROVE Waiting'
  <2>0. UNCHANGED <<client, recvqueue>>
    BY <1>4, CloseFrame
  <2>1. CASE UNCHANGED conn
    BY <2>0, <2>1 DEF Waiting, Stands
  <2>2. ASSUME NEW fd \in Fds, Close(fd) PROVE Waiting'
    <3>1. conn' = [conn EXCEPT ![fd] = "closed"]
          /\ \A i \in 1 .. Len(recvqueue) : recvqueue[i].fd # fd
      BY <2>2 DEF Close
    <3> QED BY <1>c, <1>f, <2>0, <3>1 DEF Waiting, Stands
  <2> QED BY <1>4, <2>1, <2>2, CloseFrame
<1> QED BY <1>1, <1>2, <1>3, <1>4 DEF Next

\* The message a handler takes stands.
LEMMA FrontStands ==
  ASSUME IInv, Waiting, NEW op, Handle(op)
  PROVE  m.fd \in Fds /\ m.op = op /\ Stands(m)
<1>1. recvqueue # <<>> /\ m.op = op
  BY DEF Handle
<1>2. recvqueue \in Seq([fd : Fds, op : Ops, arg : Nat])
  BY DEF IInv, TypeOK
<1>3. m = recvqueue[1] /\ 1 \in 1 .. Len(recvqueue) /\ m.fd \in Fds
  <2> DEFINE S == [fd : Fds, op : Ops, arg : Nat]
  <2>1. m = recvqueue[1] /\ 1 \in 1 .. Len(recvqueue) /\ m \in S
    <3>1. recvqueue \in Seq(S)
      BY <1>2
    <3> HIDE DEF S
    <3> QED BY <1>1, <3>1 DEF m
  <2> QED BY <2>1
<1> QED BY <1>1, <1>3 DEF Waiting

LEMMA WorkingKept ==
  ASSUME IInv, Waiting, Working, Ending, Next, late' = {}
  PROVE  Working'
<1>c. /\ conn \in [Fds -> {"closed", "open", "dead"}] /\ m_teacher_fd \in [Rooms -> Fds \cup {0}]
      /\ recvtask.room \in Rooms \cup {0} /\ (recvtask.at # "idle" => recvtask.room \in Rooms)
  BY DEF IInv, TypeOK, AtWork
<1>1. ASSUME Accept PROVE Working'
  <2>1. UNCHANGED <<recvtask, m_teacher_fd>>
        /\ \E fd : conn[fd] = "closed" /\ conn' = [conn EXCEPT ![fd] = "open"]
    BY <1>1 DEF Accept, roles
  <2> QED BY <1>c, <2>1 DEF Working
<1>2. ASSUME NEW fd \in Fds, ClientStep(fd) PROVE Working'
  <2>1. /\ UNCHANGED <<recvtask, m_teacher_fd>>
        /\ conn' = conn \/ conn' = [conn EXCEPT ![fd] = "dead"]
    <3>1. UNCHANGED <<recvtask, roles>>
      BY <1>2, ClientFrame
    <3>2. conn' = conn \/ conn' = [conn EXCEPT ![fd] = "dead"]
      BY <1>2, ClientFrame
    <3> QED BY <3>1, <3>2 DEF roles
  <2> QED BY <1>c, <2>1 DEF Working
<1>3. ASSUME HandlerStep PROVE Working'
  <2>0. UNCHANGED conn
    BY <1>3, HandlerFrame
  <2>1. ASSUME UNCHANGED <<recvtask, m_teacher_fd>> PROVE Working'
    BY <2>0, <2>1 DEF Working
  <2>2. ASSUME recvtask' = RecvIdle PROVE Working'
    BY <2>2 DEF Working, RecvIdle
  <2>3. ASSUME SelectStudent \/ SelectWhite \/ Leave \/ PuzzleStart \/ PuzzleEndAll
                 \/ PuzzleEndOne \/ ControlChangeScene
        PROVE  UNCHANGED <<recvtask, m_teacher_fd>>
    BY <2>3 DEF SelectStudent, SelectWhite, Leave, PuzzleStart, PuzzleEndAll, PuzzleEndOne,
                ControlChangeScene, roles
  <2>4. ASSUME EnterDone \/ SendList PROVE recvtask' = RecvIdle
    BY <2>4 DEF EnterDone, SendList
  <2>5. ASSUME LoginTell \/ LoginList PROVE Working'
    <3>1. recvtask'.at \in {"list", "send"} /\ recvtask'.fd = recvtask.fd /\ recvtask.at # "idle"
      BY <2>5 DEF LoginTell, LoginList, IInv, TypeOK
    <3> QED BY <2>0, <3>1 DEF Working
  <2>6. ASSUME Enter PROVE Working'
    <3>1. CASE m_isUsed[m.arg] = 1
      BY <2>1, <2>6, <3>1 DEF Enter
    <3>2. CASE m_isUsed[m.arg] # 1
      <4>1. m.arg \in Rooms /\ m.fd \in Fds /\ conn[m.fd] # "closed"
        BY <2>6, Front, FrontStands DEF Enter, IInv, Stands
      <4>2. recvtask'.fd = m.fd /\ recvtask'.room = m.arg
            /\ m_teacher_fd' = [m_teacher_fd EXCEPT ![m.arg] = m.fd]
        BY <2>6, <3>2 DEF Enter, RecvIdle
      <4> QED BY <1>c, <2>0, <4>1, <4>2 DEF Working
    <3> QED BY <3>1, <3>2
  <2>7. ASSUME LoginStudent PROVE Working'
    <3>1. UNCHANGED m_teacher_fd /\ m.fd \in Fds /\ conn[m.fd] # "closed"
      BY <2>7, FrontStands DEF LoginStudent, Stands
    <3>2. recvtask' = recvtask \/ (recvtask'.at = "tell" /\ recvtask'.fd = m.fd)
      BY <2>7 DEF LoginStudent
    <3> QED BY <2>0, <2>1, <3>1, <3>2 DEF Working
  <2>8. ASSUME ConfirmLeaveEarly PROVE Working'
    <3>1. UNCHANGED m_teacher_fd /\ m.fd \in Fds /\ conn[m.fd] # "closed"
      BY <2>8, FrontStands DEF ConfirmLeaveEarly, Stands
    <3>2. recvtask' = recvtask \/ (recvtask'.at = "send" /\ recvtask'.fd = m.fd)
      BY <2>8 DEF ConfirmLeaveEarly
    <3> QED BY <2>0, <2>1, <3>1, <3>2 DEF Working
  <2> QED
    BY <1>3, <2>1, <2>2, <2>3, <2>4, <2>5, <2>6, <2>7, <2>8 DEF HandlerStep, ClassStep
<1>4. ASSUME CloseStep PROVE Working'
  <2>0. UNCHANGED recvtask
    BY <1>4, CloseFrame
  <2>1. ASSUME NEW fd \in Fds, Close(fd) PROVE Working'
    <3>1. conn' = [conn EXCEPT ![fd] = "closed"] /\ recvtask.fd # fd /\ UNCHANGED m_teacher_fd
      BY <2>1 DEF Close, roles
    <3> QED BY <1>c, <2>0, <3>1 DEF Working
  <2>2. ASSUME DelTeacher PROVE Working'
    <3> DEFINE r == NextRoom
    <3>1. /\ m_teacher_fd' = [m_teacher_fd EXCEPT ![r] = 0] /\ UNCHANGED conn
          /\ conn[m_teacher_fd[r]] = "closed"
      BY <2>2 DEF DelTeacher, AtRoom, Ending, net
    <3>2. recvtask.at = "enter" => recvtask.room # r
      BY <3>1 DEF Working
    <3> HIDE DEF r
    <3> QED BY <1>c, <2>0, <3>1, <3>2 DEF Working
  <2>3. ASSUME DelWhite \/ DelStudent \/ Erase \/ SendRest \/ CloseDone PROVE Working'
    <3>1. UNCHANGED <<conn, m_teacher_fd>>
      BY <2>3 DEF DelWhite, DelStudent, Erase, SendRest, CloseDone, net, roles
    <3> QED BY <2>0, <3>1 DEF Working
  <2> QED BY <1>4, <2>1, <2>2, <2>3 DEF CloseStep
<1> QED BY <1>1, <1>2, <1>3, <1>4 DEF Next

LEMMA EndingKept ==
  ASSUME IInv, Ending, Next
  PROVE  Ending'
<1>c. /\ conn \in [Fds -> {"closed", "open", "dead"}] /\ evloop.todo \in SUBSET Rooms
      /\ evloop.at # "idle" => evloop.fd \in Fds
  BY DEF IInv, TypeOK, AtWork
<1>1. ASSUME Accept PROVE Ending'
  BY <1>1 DEF Accept, Ending
<1>2. ASSUME NEW fd \in Fds, ClientStep(fd) PROVE Ending'
  <2>1. UNCHANGED evloop /\ conn[fd] = "open"
    BY <1>2, ClientFrame
  <2>2. conn' = conn \/ conn' = [conn EXCEPT ![fd] = "dead"]
    BY <1>2, ClientFrame
  <2> QED BY <1>c, <2>1, <2>2 DEF Ending
<1>3. ASSUME HandlerStep PROVE Ending'
  BY <1>3, HandlerFrame DEF Ending
<1>4. ASSUME CloseStep PROVE Ending'
  <2>1. ASSUME NEW fd \in Fds, Close(fd) PROVE Ending'
    BY <1>c, <2>1 DEF Close, EvIdle, Ending
  <2>2. ASSUME CloseDone PROVE Ending'
    BY <2>2 DEF CloseDone, EvIdle, Ending
  <2>3. ASSUME DelTeacher \/ DelWhite \/ SendRest PROVE Ending'
    <3>1. UNCHANGED conn
      BY <2>3 DEF DelTeacher, DelWhite, SendRest, net
    <3>2. evloop.at # "idle" /\ evloop'.at = "rooms" /\ evloop'.fd = evloop.fd
      BY <2>3 DEF DelTeacher, DelWhite, SendRest, RoomDone, AtRoom, IInv, TypeOK
    <3> QED BY <3>1, <3>2 DEF Ending
  <2>4. ASSUME DelStudent PROVE Ending'
    <3>1. UNCHANGED conn /\ NextRoom \in evloop.todo
      BY <1>c, <2>4, NextRoomIs DEF DelStudent, AtRoom, net
    <3>2. /\ evloop.at # "idle" /\ evloop'.fd = evloop.fd
          /\ evloop'.room = NextRoom /\ evloop'.todo = evloop.todo
      BY <2>4 DEF DelStudent, AtRoom, IInv, TypeOK
    <3> QED BY <3>1, <3>2 DEF Ending
  <2>5. ASSUME Erase PROVE Ending'
    <3>1. UNCHANGED conn
      BY <2>5 DEF Erase, net
    <3>2. /\ evloop.at = "erase" /\ evloop'.fd = evloop.fd
          /\ evloop'.room = evloop.room /\ evloop'.todo = evloop.todo
      BY <2>5 DEF Erase, IInv, TypeOK
    <3> QED BY <3>1, <3>2 DEF Ending
  <2> QED BY <1>4, <2>1, <2>2, <2>3, <2>4, <2>5 DEF CloseStep
<1> QED BY <1>1, <1>2, <1>3, <1>4 DEF Next

\* One entry of the students' maps becomes `entry', the others stay.
Put(r, fd, entry) ==
  \A q \in Rooms, g \in Fds :
    m_student_map'[q][g] = IF q = r /\ g = fd THEN entry ELSE m_student_map[q][g]

\* An EXCEPT puts one entry.
LEMMA PutOne ==
  ASSUME m_student_map \in [Rooms -> [Fds -> Entries]], NEW r \in Rooms, NEW fd \in Fds,
         NEW entry, m_student_map' = [m_student_map EXCEPT ![r][fd] = entry]
  PROVE  Put(r, fd, entry)
BY DEF Put

\* A new status for a student keeps its id.
LEMMA NewStatus ==
  ASSUME NEW e \in Entries, NEW st, NEW f, f = [e EXCEPT !.st = st]
  PROVE  f = [id |-> e.id, st |-> st]
BY DEF Entries

\* puzzle_end puts NULL students where there is no student.
LEMMA PuzzleNulls ==
  ASSUME m_student_map \in [Rooms -> [Fds -> Entries]], PuzzleEndAll
  PROVE  \A r \in Rooms, fd \in Fds :
           \/ m_student_map'[r][fd] = m_student_map[r][fd]
           \/ m_student_map'[r][fd] = NullStudent /\ m_student_map[r][fd].st = "none"
<1> DEFINE r == RoomOf(m.fd)
           old == m_student_map[r]
           new == [fd \in Fds |-> IF m_puzzle_map[r][fd] # "none" /\ fd \notin Students(r)
                                    THEN NullStudent ELSE old[fd]]
<1>1. m_student_map' = [m_student_map EXCEPT ![r] = new]
  BY DEF PuzzleEndAll
<1>2. \A fd \in Fds : new[fd] = old[fd] \/ (new[fd] = NullStudent /\ old[fd].st = "none")
  BY DEF Students
<1>3. \A q \in Rooms, fd \in Fds :
        m_student_map'[q][fd] = IF q = r THEN new[fd] ELSE m_student_map[q][fd]
  <2> HIDE DEF r, new
  <2> QED BY <1>1
<1> HIDE DEF new
<1> QED BY <1>2, <1>3

\* The ways the students' maps change.
LEMMA MapStep ==
  ASSUME IInv, Next
  PROVE  \/ UNCHANGED m_student_map
         \/ /\ SelectStudent /\ m.arg \in Rooms /\ \A r \in Rooms : ~ Knows(r, m.fd)
            /\ Put(m.arg, m.fd, [id |-> 0, st |-> "off"])
         \/ /\ LoginStudent /\ RoomOf(m.fd) \in Rooms /\ m.fd \in Enrolled(RoomOf(m.fd))
            /\ Put(RoomOf(m.fd), m.fd, [id |-> m.arg, st |-> "on"])
         \/ /\ ConfirmLeaveEarly /\ RoomOf(m.fd) \in Rooms /\ m.fd \in Enrolled(RoomOf(m.fd))
            /\ Put(RoomOf(m.fd), m.fd, [id |-> m_student_map[RoomOf(m.fd)][m.fd].id, st |-> "left"])
         \/ /\ PuzzleEndAll
            /\ \A r \in Rooms, fd \in Fds :
                 \/ m_student_map'[r][fd] = m_student_map[r][fd]
                 \/ m_student_map'[r][fd] = NullStudent /\ m_student_map[r][fd].st = "none"
         \/ /\ DelStudent /\ NextRoom \in Rooms /\ evloop.fd \in Enrolled(NextRoom)
            /\ Put(NextRoom, evloop.fd, [id |-> m_student_map[NextRoom][evloop.fd].id, st |-> "off"])
         \/ Erase /\ Put(evloop.room, evloop.fd, Absent)
<1> DEFINE Map == [Rooms -> [Fds -> Entries]]
<1>p. m_student_map \in Map
  BY Parts DEF IInv
<1>1. ASSUME SelectStudent
      PROVE  \/ UNCHANGED m_student_map
             \/ /\ m.arg \in Rooms /\ \A r \in Rooms : ~ Knows(r, m.fd)
                /\ Put(m.arg, m.fd, [id |-> 0, st |-> "off"])
  <2>1. m.fd \in Fds /\ m.arg \in Rooms
    BY <1>1, Front DEF SelectStudent, IInv
  <2>2. CASE RoomOf(m.fd) # 0
    BY <1>1, <2>2 DEF SelectStudent
  <2>3. CASE RoomOf(m.fd) = 0
    <3>1. m_student_map' = [m_student_map EXCEPT ![m.arg][m.fd] = [id |-> 0, st |-> "off"]]
      BY <1>1, <2>3 DEF SelectStudent
    <3>2. Put(m.arg, m.fd, [id |-> 0, st |-> "off"])
      BY <1>p, <2>1, <3>1, PutOne
    <3> QED BY <2>1, <2>3, <3>2, RoomOfIs
  <2> QED BY <2>2, <2>3
<1>2. ASSUME LoginStudent
      PROVE  \/ UNCHANGED m_student_map
             \/ /\ RoomOf(m.fd) \in Rooms /\ m.fd \in Enrolled(RoomOf(m.fd))
                /\ Put(RoomOf(m.fd), m.fd, [id |-> m.arg, st |-> "on"])
  <2>1. CASE RoomOf(m.fd) # 0 /\ m.fd \in Enrolled(RoomOf(m.fd))
    <3>1. RoomOf(m.fd) \in Rooms /\ m.fd \in Fds
      BY <2>1, RoomOfIs DEF Enrolled, Students
    <3>2. m_student_map' = [m_student_map EXCEPT ![RoomOf(m.fd)][m.fd] = [id |-> m.arg, st |-> "on"]]
      BY <1>2, <2>1 DEF LoginStudent
    <3>3. Put(RoomOf(m.fd), m.fd, [id |-> m.arg, st |-> "on"])
      BY <1>p, <3>1, <3>2, PutOne
    <3> QED BY <2>1, <3>1, <3>3
  <2>2. CASE ~ (RoomOf(m.fd) # 0 /\ m.fd \in Enrolled(RoomOf(m.fd)))
    BY <1>2, <2>2 DEF LoginStudent
  <2> QED BY <2>1, <2>2
<1>3. ASSUME ConfirmLeaveEarly
      PROVE  \/ UNCHANGED m_student_map
             \/ /\ RoomOf(m.fd) \in Rooms /\ m.fd \in Enrolled(RoomOf(m.fd))
                /\ Put(RoomOf(m.fd), m.fd, [id |-> m_student_map[RoomOf(m.fd)][m.fd].id, st |-> "left"])
  <2>1. CASE RoomOf(m.fd) # 0 /\ m.fd \in Enrolled(RoomOf(m.fd))
    <3> DEFINE r == RoomOf(m.fd)
               old == m_student_map[r][m.fd]
               new == [old EXCEPT !.st = "left"]
    <3>1. r \in Rooms /\ m.fd \in Fds
      BY <2>1, RoomOfIs DEF Enrolled, Students
    <3>2. m_student_map' = [m_student_map EXCEPT ![r][m.fd] = new]
      BY <1>3, <2>1 DEF ConfirmLeaveEarly
    <3>3. Put(r, m.fd, new)
      <4> HIDE DEF r, new
      <4> QED BY <1>p, <3>1, <3>2, PutOne
    <3>4. new = [id |-> old.id, st |-> "left"]
      <4>1. old \in Entries
        BY <1>p, <3>1
      <4> HIDE DEF old
      <4> QED BY <4>1, NewStatus
    <3>5. Put(r, m.fd, [id |-> old.id, st |-> "left"])
      <4> HIDE DEF r, new, old
      <4> QED BY <3>3, <3>4
    <3> QED BY <2>1, <3>1, <3>5
  <2>2. CASE ~ (RoomOf(m.fd) # 0 /\ m.fd \in Enrolled(RoomOf(m.fd)))
    BY <1>3, <2>2 DEF ConfirmLeaveEarly
  <2> QED BY <2>1, <2>2
<1>4. ASSUME PuzzleEndAll
      PROVE  \A r \in Rooms, fd \in Fds :
               \/ m_student_map'[r][fd] = m_student_map[r][fd]
               \/ m_student_map'[r][fd] = NullStudent /\ m_student_map[r][fd].st = "none"
  BY <1>p, <1>4, PuzzleNulls
<1>5. ASSUME DelStudent
      PROVE  \/ UNCHANGED m_student_map
             \/ /\ NextRoom \in Rooms /\ evloop.fd \in Enrolled(NextRoom)
                /\ Put(NextRoom, evloop.fd,
                       [id |-> m_student_map[NextRoom][evloop.fd].id, st |-> "off"])
  <2> DEFINE r == NextRoom
             fd == evloop.fd
             old == m_student_map[r][fd]
             new == [old EXCEPT !.st = "off"]
  <2>1. r \in Rooms
    BY <1>5, NextRoomIs DEF DelStudent, AtRoom, IInv, TypeOK
  <2>2. CASE fd \in Enrolled(r)
    <3>1. m_student_map' = [m_student_map EXCEPT ![r][fd] = new] /\ fd \in Fds
      BY <1>5, <2>2 DEF DelStudent, Enrolled, Students
    <3>2. Put(r, fd, new)
      <4> HIDE DEF r, fd, new
      <4> QED BY <1>p, <2>1, <3>1, PutOne
    <3>3. new = [id |-> old.id, st |-> "off"]
      <4>1. old \in Entries
        <5> HIDE DEF r, fd
        <5> QED BY <1>p, <2>1, <3>1
      <4> HIDE DEF old
      <4> QED BY <4>1, NewStatus
    <3>4. Put(r, fd, [id |-> old.id, st |-> "off"])
      <4> HIDE DEF r, fd, new, old
      <4> QED BY <3>2, <3>3
    <3> QED BY <2>1, <2>2, <3>4
  <2>3. CASE fd \notin Enrolled(r)
    BY <1>5, <2>3 DEF DelStudent
  <2> QED BY <2>2, <2>3
<1>6. ASSUME Erase
      PROVE  Put(evloop.room, evloop.fd, Absent)
  <2>1. /\ evloop.room \in Rooms /\ evloop.fd \in Fds
        /\ m_student_map' = [m_student_map EXCEPT ![evloop.room][evloop.fd] = Absent]
    BY <1>6 DEF Erase, IInv, AtWork
  <2> QED BY <1>p, <2>1, PutOne
<1>7. ASSUME Accept \/ (\E fd \in Fds : ClientStep(fd)) PROVE UNCHANGED m_student_map
  BY <1>7 DEF Accept, ClientStep, AskSelect, AskLogin, AskLeaveEarly, AskEnter, AskScene,
              AskLeave, AskPuzzleStart, AskPuzzleEnd, Die, Send, roles
<1>8. ASSUME SelectWhite \/ Enter \/ EnterDone \/ Leave \/ PuzzleStart \/ PuzzleEndOne
               \/ ControlChangeScene \/ LoginTell \/ LoginList \/ SendList
      PROVE  UNCHANGED m_student_map
  BY <1>8 DEF SelectWhite, Enter, EnterDone, Leave, PuzzleStart, PuzzleEndOne,
              ControlChangeScene, LoginTell, LoginList, SendList, roles
<1>9. ASSUME (\E fd \in Fds : Close(fd)) \/ DelTeacher \/ DelWhite \/ SendRest \/ CloseDone
      PROVE  UNCHANGED m_student_map
  BY <1>9 DEF Close, DelTeacher, DelWhite, SendRest, CloseDone, roles
<1> QED
  <2>1. CASE HandlerStep
    BY <1>1, <1>2, <1>3, <1>4, <1>8, <2>1, Zenon DEF HandlerStep, ClassStep
  <2>2. CASE CloseStep
    BY <1>5, <1>6, <1>9, <2>2, Zenon DEF CloseStep
  <2> QED BY <1>7, <2>1, <2>2, Zenon DEF Next

\* A room in use has a teacher.
LEMMA UsedKept ==
  ASSUME IInv, Working, Used, Next
  PROVE  Used'
<1>t. /\ m_teacher_fd \in [Rooms -> Fds \cup {0}] /\ m_isUsed \in [Rooms -> {0, 1}]
      /\ \A fd \in Fds : fd # 0
  BY FdsAssumption DEF IInv, TypeOK
<1>1. ASSUME UNCHANGED m_teacher_fd, \A r \in Rooms : m_isUsed'[r] = 1 => m_isUsed[r] = 1
      PROVE  Used'
  BY <1>1 DEF Used
<1>2. ASSUME Enter PROVE Used'
  <2>1. m.fd \in Fds
    BY <1>2, Front DEF Enter, IInv
  <2> QED BY <1>2, <1>t, <2>1 DEF Enter, Used
<1>3. ASSUME EnterDone PROVE Used'
  <2>1. m_teacher_fd[recvtask.room] # 0
    BY <1>3, <1>t DEF EnterDone, Working
  <2> QED BY <1>3, <1>t, <2>1 DEF EnterDone, Used
<1>4. ASSUME Leave PROVE Used'
  BY <1>1, <1>4, <1>t DEF Leave
<1>5. ASSUME DelTeacher PROVE Used'
  <2> DEFINE r == NextRoom
             first == RoomOf(evloop.fd)
  <2>1. /\ m_isUsed' = [m_isUsed EXCEPT ![r] = 0, ![first] = 0]
        /\ m_teacher_fd' = [m_teacher_fd EXCEPT ![r] = 0]
    BY <1>5 DEF DelTeacher
  <2> HIDE DEF r, first
  <2>2. \A q \in Rooms : q # r => m_teacher_fd'[q] = m_teacher_fd[q]
    BY <1>t, <2>1
  <2>3. \A q \in Rooms : m_isUsed'[q] = 1 => m_isUsed[q] = 1 /\ q # r
    BY <1>t, <2>1
  <2> QED BY <2>2, <2>3 DEF Used
<1>6. ASSUME Accept \/ (\E fd \in Fds : ClientStep(fd)) PROVE UNCHANGED <<m_teacher_fd, m_isUsed>>
  BY <1>6 DEF Accept, ClientStep, AskSelect, AskLogin, AskLeaveEarly, AskEnter, AskScene,
              AskLeave, AskPuzzleStart, AskPuzzleEnd, Die, Send, roles
<1>7. ASSUME SelectStudent \/ SelectWhite \/ LoginStudent
               \/ LoginTell \/ LoginList \/ SendList \/ ConfirmLeaveEarly
               \/ PuzzleStart \/ PuzzleEndAll \/ PuzzleEndOne \/ ControlChangeScene
      PROVE  UNCHANGED <<m_teacher_fd, m_isUsed>>
  BY <1>7 DEF SelectStudent, SelectWhite, LoginStudent, LoginTell,
              LoginList, SendList, ConfirmLeaveEarly, PuzzleStart, PuzzleEndAll,
              PuzzleEndOne, ControlChangeScene, roles
<1>8. ASSUME (\E fd \in Fds : Close(fd)) \/ DelWhite \/ DelStudent \/ Erase
               \/ SendRest \/ CloseDone
      PROVE  UNCHANGED <<m_teacher_fd, m_isUsed>>
  BY <1>8 DEF Close, DelWhite, DelStudent, Erase, SendRest, CloseDone, roles
<1> QED
  BY <1>1, <1>2, <1>3, <1>4, <1>5, <1>6, <1>7, <1>8 DEF Next, HandlerStep, ClassStep, CloseStep

\* The ways the teachers and whiteboards change.
LEMMA ChiefStep ==
  ASSUME IInv, Next
  PROVE  \/ UNCHANGED <<m_teacher_fd, m_white_fd>>
         \/ /\ Enter /\ m.arg \in Rooms /\ UNCHANGED m_white_fd
            /\ m_teacher_fd' = [m_teacher_fd EXCEPT ![m.arg] = m.fd]
         \/ /\ SelectWhite /\ m.arg \in Rooms /\ UNCHANGED m_teacher_fd
            /\ m_white_fd' = [m_white_fd EXCEPT ![m.arg] = m.fd]
         \/ /\ DelTeacher /\ NextRoom \in Rooms /\ UNCHANGED m_white_fd
            /\ m_teacher_fd' = [m_teacher_fd EXCEPT ![NextRoom] = 0]
         \/ /\ DelWhite /\ NextRoom \in Rooms /\ UNCHANGED m_teacher_fd
            /\ m_white_fd' = [m_white_fd EXCEPT ![NextRoom] = 0]
<1>1. ASSUME Enter
      PROVE  \/ UNCHANGED <<m_teacher_fd, m_white_fd>>
             \/ /\ m.arg \in Rooms /\ UNCHANGED m_white_fd
                /\ m_teacher_fd' = [m_teacher_fd EXCEPT ![m.arg] = m.fd]
  <2>1. m.arg \in Rooms
    BY <1>1, Front DEF Enter, IInv
  <2> QED BY <1>1, <2>1 DEF Enter
<1>2. ASSUME SelectWhite
      PROVE  /\ m.arg \in Rooms /\ UNCHANGED m_teacher_fd
             /\ m_white_fd' = [m_white_fd EXCEPT ![m.arg] = m.fd]
  <2>1. m.arg \in Rooms
    BY <1>2, Front DEF SelectWhite, IInv
  <2> QED BY <1>2, <2>1 DEF SelectWhite
<1>r. ASSUME AtRoom PROVE NextRoom \in Rooms
  BY <1>r, NextRoomIs DEF AtRoom, IInv, TypeOK
<1>3. ASSUME DelTeacher
      PROVE  /\ NextRoom \in Rooms /\ UNCHANGED m_white_fd
             /\ m_teacher_fd' = [m_teacher_fd EXCEPT ![NextRoom] = 0]
  BY <1>3, <1>r DEF DelTeacher
<1>4. ASSUME DelWhite
      PROVE  /\ NextRoom \in Rooms /\ UNCHANGED m_teacher_fd
             /\ m_white_fd' = [m_white_fd EXCEPT ![NextRoom] = 0]
  BY <1>4, <1>r DEF DelWhite
<1>5. ASSUME Accept \/ (\E fd \in Fds : ClientStep(fd)) PROVE UNCHANGED <<m_teacher_fd, m_white_fd>>
  BY <1>5 DEF Accept, ClientStep, AskSelect, AskLogin, AskLeaveEarly, AskEnter, AskScene,
              AskLeave, AskPuzzleStart, AskPuzzleEnd, Die, Send, roles
<1>6. ASSUME SelectStudent \/ EnterDone \/ Leave \/ LoginStudent
               \/ LoginTell \/ LoginList \/ SendList \/ ConfirmLeaveEarly
               \/ PuzzleStart \/ PuzzleEndAll \/ PuzzleEndOne \/ ControlChangeScene
      PROVE  UNCHANGED <<m_teacher_fd, m_white_fd>>
  BY <1>6 DEF SelectStudent, EnterDone, Leave, LoginStudent, LoginTell,
              LoginList, SendList, ConfirmLeaveEarly, PuzzleStart, PuzzleEndAll,
              PuzzleEndOne, ControlChangeScene, roles
<1>7. ASSUME (\E fd \in Fds : Close(fd)) \/ DelStudent \/ Erase \/ SendRest \/ CloseDone
      PROVE  UNCHANGED <<m_teacher_fd, m_white_fd>>
  BY <1>7 DEF Close, DelStudent, Erase, SendRest, CloseDone, roles
<1> QED
  <2>1. CASE HandlerStep
    BY <1>1, <1>2, <1>6, <2>1, Zenon DEF HandlerStep, ClassStep
  <2>2. CASE CloseStep
    BY <1>3, <1>4, <1>7, <2>2, Zenon DEF CloseStep
  <2> QED BY <1>5, <2>1, <2>2, Zenon DEF Next

\* Who is in a room's map.
LEMMA EnrolledIs ==
  \A r, fd : fd \in Enrolled(r) <=>
               fd \in Fds /\ m_student_map[r][fd].st \notin {"none", "null"}
BY DEF Enrolled, Students, Nulls

\* While no connection is closed by Evloop, whoever has a role is connected.
LEMMA NobodyGone ==
  ASSUME Here, evloop.at = "idle", NEW fd \in Fds, conn[fd] = "closed", NEW r \in Rooms
  PROVE  fd \notin Enrolled(r) /\ fd # m_teacher_fd[r] /\ fd # m_white_fd[r]
BY DEF Here, Going, Audience, Chiefs

LEMMA PupilsKept ==
  ASSUME IInv, Waiting, Here, Pupils, Next
  PROVE  Pupils'
<1>p. m_student_map \in [Rooms -> [Fds -> Entries]]
  BY Parts DEF IInv
<1>0. ASSUME UNCHANGED <<m_student_map, client>> PROVE Pupils'
  BY <1>0 DEF Pupils, Enrolled, Students, Nulls
<1>1. ASSUME Accept PROVE Pupils'
  <2>1. PICK fd \in scenario.fds :
          /\ conn[fd] = "closed"
          /\ client' = [client EXCEPT ![fd] = [NoClient EXCEPT !.kind = Head(coming).kind,
                                                             !.id = Head(coming).id]]
    BY <1>1 DEF Accept
  <2>2. UNCHANGED m_student_map /\ evloop.at = "idle" /\ fd \in Fds
    BY <1>1 DEF Accept, roles, IInv, TypeOK, Scenario
  <2>3. \A r \in Rooms : fd \notin Enrolled(r)
    BY <2>1, <2>2, NobodyGone
  <2>4. \A g \in Fds : g # fd => client'[g] = client[g]
    BY <2>1 DEF IInv, TypeOK
  <2>5. \A r : Enrolled(r)' = Enrolled(r)
    BY <2>2 DEF Enrolled, Students, Nulls
  <2> QED BY <2>2, <2>3, <2>4, <2>5 DEF Pupils
<1>2. ASSUME NEW fd \in Fds, ClientStep(fd) PROVE Pupils'
  <2>1. \A g \in Fds : client'[g].kind = client[g].kind /\ client'[g].id = client[g].id
    BY <1>2, ClientFrame
  <2>2. UNCHANGED m_student_map
    BY <1>2, ClientFrame DEF roles
  <2>3. \A r : Enrolled(r)' = Enrolled(r)
    BY <2>2 DEF Enrolled, Students, Nulls
  <2> QED BY <2>1, <2>2, <2>3 DEF Pupils
<1>3. ASSUME UNCHANGED client, NEW r \in Rooms, NEW fd, NEW entry, Put(r, fd, entry),
             \/ entry.st \notin {"none", "null"} /\ client[fd].kind = "student"
                  /\ entry.id \in {0, client[fd].id}
             \/ entry.id = 0 /\ entry.st \in {"none", "null"}
      PROVE  Pupils'
  BY <1>3, EnrolledIs DEF Pupils, Put, Enrolled, Students, Nulls
<1>4. ASSUME UNCHANGED client,
             \A r \in Rooms, fd \in Fds :
                 \/ m_student_map'[r][fd] = m_student_map[r][fd]
                 \/ m_student_map'[r][fd] = NullStudent /\ m_student_map[r][fd].st = "none"
      PROVE  Pupils'
  BY <1>4, EnrolledIs DEF Pupils, Enrolled, Students, Nulls, NullStudent
<1>5. ASSUME HandlerStep \/ CloseStep PROVE Pupils'
  <2>0. UNCHANGED client
    BY <1>5, HandlerFrame, CloseFrame
  <2>1. ASSUME SelectStudent, m.arg \in Rooms, Put(m.arg, m.fd, [id |-> 0, st |-> "off"])
        PROVE  Pupils'
    <3>1. client[m.fd].kind = "student"
      BY <2>1, FrontStands DEF SelectStudent, Stands
    <3> QED BY <1>3, <2>0, <2>1, <3>1
  <2>2. ASSUME LoginStudent, NEW r \in Rooms, Put(r, m.fd, [id |-> m.arg, st |-> "on"])
        PROVE  Pupils'
    <3>1. client[m.fd].kind = "student" /\ m.arg = client[m.fd].id
      BY <2>2, FrontStands DEF LoginStudent, Stands
    <3> QED BY <1>3, <2>0, <2>2, <3>1
  <2>3. ASSUME NEW r \in Rooms, NEW fd \in Enrolled(r), NEW st \in {"left", "off"},
               Put(r, fd, [id |-> m_student_map[r][fd].id, st |-> st])
        PROVE  Pupils'
    <3>1. client[fd].kind = "student" /\ m_student_map[r][fd].id \in {0, client[fd].id}
      BY EnrolledIs DEF Pupils
    <3> QED BY <1>3, <2>0, <2>3, <3>1
  <2>4. ASSUME Erase, Put(evloop.room, evloop.fd, Absent) PROVE Pupils'
    <3>1. evloop.room \in Rooms
      BY <2>4 DEF Erase, IInv, AtWork
    <3> QED BY <1>3, <2>0, <2>4, <3>1 DEF Absent
  <2> QED BY <1>0, <1>4, <2>0, <2>1, <2>2, <2>3, <2>4, MapStep
<1> QED BY <1>1, <1>2, <1>5 DEF Next

LEMMA MastersKept ==
  ASSUME IInv, Waiting, Here, Masters, Next
  PROVE  Masters'
<1>t. /\ m_teacher_fd \in [Rooms -> Fds \cup {0}] /\ m_white_fd \in [Rooms -> Fds \cup {0}]
      /\ \A fd \in Fds : fd # 0
  BY FdsAssumption DEF IInv, TypeOK
<1>1. ASSUME Accept PROVE Masters'
  <2>1. PICK fd \in scenario.fds :
          /\ conn[fd] = "closed"
          /\ client' = [client EXCEPT ![fd] = [NoClient EXCEPT !.kind = Head(coming).kind,
                                                             !.id = Head(coming).id]]
    BY <1>1 DEF Accept
  <2>2. UNCHANGED roles /\ evloop.at = "idle" /\ fd \in Fds
    BY <1>1 DEF Accept, IInv, TypeOK, Scenario
  <2>3. \A r \in Rooms : fd # m_teacher_fd[r] /\ fd # m_white_fd[r]
    BY <2>1, <2>2, NobodyGone
  <2>4. \A g \in Fds : g # fd => client'[g] = client[g]
    BY <2>1 DEF IInv, TypeOK
  <2> QED BY <2>2, <2>3, <2>4 DEF Masters, roles
<1>2. ASSUME NEW fd \in Fds, ClientStep(fd) PROVE Masters'
  <2>1. \A g \in Fds : client'[g].kind = client[g].kind
    BY <1>2, ClientFrame
  <2>2. UNCHANGED roles
    BY <1>2, ClientFrame
  <2> QED BY <2>1, <2>2 DEF Masters, roles
<1>3. ASSUME HandlerStep \/ CloseStep PROVE Masters'
  <2>0. UNCHANGED client
    BY <1>3, HandlerFrame, CloseFrame
  <2>1. ASSUME UNCHANGED <<m_teacher_fd, m_white_fd>> PROVE Masters'
    BY <2>0, <2>1 DEF Masters
  <2>2. ASSUME Enter, UNCHANGED m_white_fd, m_teacher_fd' = [m_teacher_fd EXCEPT ![m.arg] = m.fd]
        PROVE  Masters'
    <3>1. client[m.fd].kind = "teacher"
      BY <2>2, FrontStands DEF Enter, Stands
    <3> QED BY <1>t, <2>0, <2>2, <3>1 DEF Masters
  <2>3. ASSUME SelectWhite, UNCHANGED m_teacher_fd, m_white_fd' = [m_white_fd EXCEPT ![m.arg] = m.fd]
        PROVE  Masters'
    <3>1. client[m.fd].kind = "white"
      BY <2>3, FrontStands DEF SelectWhite, Stands
    <3> QED BY <1>t, <2>0, <2>3, <3>1 DEF Masters
  <2>4. ASSUME NEW r, UNCHANGED m_white_fd, m_teacher_fd' = [m_teacher_fd EXCEPT ![r] = 0]
        PROVE  Masters'
    BY <1>t, <2>0, <2>4 DEF Masters
  <2>5. ASSUME NEW r, UNCHANGED m_teacher_fd, m_white_fd' = [m_white_fd EXCEPT ![r] = 0]
        PROVE  Masters'
    BY <1>t, <2>0, <2>5 DEF Masters
  <2> QED BY <2>1, <2>2, <2>3, <2>4, <2>5, ChiefStep
<1> QED BY <1>1, <1>2, <1>3 DEF Next

\* Nobody comes to a role but by a message of its own, handled while it is
\* connected.
LEMMA Newcomers ==
  ASSUME IInv, Waiting, Next, NEW r \in Rooms, NEW fd \in Fds
  PROVE  /\ fd \in Enrolled(r)' => fd \in Enrolled(r) \/ (HandlerStep /\ conn[fd] # "closed")
         /\ fd \in Chiefs(r)' => fd \in Chiefs(r) \/ (HandlerStep /\ conn[fd] # "closed")
<1>1. fd \in Enrolled(r)' => fd \in Enrolled(r) \/ (HandlerStep /\ conn[fd] # "closed")
  <2>1. ASSUME NEW R, NEW F \in Enrolled(R), NEW e, Put(R, F, e)
        PROVE  fd \in Enrolled(r)' => fd \in Enrolled(r)
    BY <2>1, EnrolledIs DEF Put, Enrolled, Students, Nulls
  <2>2. ASSUME SelectStudent, Put(m.arg, m.fd, [id |-> 0, st |-> "off"])
        PROVE  fd \in Enrolled(r)' => fd \in Enrolled(r) \/ (HandlerStep /\ conn[fd] # "closed")
    <3>1. conn[m.fd] # "closed" /\ HandlerStep
      BY <2>2, FrontStands DEF SelectStudent, Stands, HandlerStep, ClassStep
    <3> QED BY <2>2, <3>1, EnrolledIs DEF Put, Enrolled, Students, Nulls
  <2>3. ASSUME Put(evloop.room, evloop.fd, Absent)
        PROVE  fd \in Enrolled(r)' => fd \in Enrolled(r)
    BY <2>3, EnrolledIs DEF Put, Enrolled, Students, Nulls, Absent
  <2>4. ASSUME \A R \in Rooms, F \in Fds :
                 \/ m_student_map'[R][F] = m_student_map[R][F]
                 \/ m_student_map'[R][F] = NullStudent /\ m_student_map[R][F].st = "none"
        PROVE  fd \in Enrolled(r)' => fd \in Enrolled(r)
    BY <2>4, EnrolledIs DEF Enrolled, Students, Nulls, NullStudent
  <2>5. ASSUME UNCHANGED m_student_map PROVE fd \in Enrolled(r)' => fd \in Enrolled(r)
    BY <2>5 DEF Enrolled, Students, Nulls
  <2> QED BY <2>1, <2>2, <2>3, <2>4, <2>5, MapStep
<1>2. fd \in Chiefs(r)' => fd \in Chiefs(r) \/ (HandlerStep /\ conn[fd] # "closed")
  <2>t. /\ m_teacher_fd \in [Rooms -> Fds \cup {0}] /\ m_white_fd \in [Rooms -> Fds \cup {0}]
        /\ fd # 0
    BY FdsAssumption DEF IInv, TypeOK
  <2>1. ASSUME Enter \/ SelectWhite PROVE conn[m.fd] # "closed" /\ HandlerStep
    BY <2>1, FrontStands DEF Enter, SelectWhite, Stands, HandlerStep, ClassStep
  <2> QED BY <2>t, <2>1, ChiefStep DEF Chiefs
<1> QED BY <1>1, <1>2

LEMMA HereKept ==
  ASSUME IInv, Waiting, Ending, Here, Pupils, Masters, Next
  PROVE  Here'
<1> DEFINE A(r) == Enrolled(r) \cup Chiefs(r)
<1>c. /\ conn \in [Fds -> {"closed", "open", "dead"}]
      /\ m_teacher_fd \in [Rooms -> Fds \cup {0}] /\ m_white_fd \in [Rooms -> Fds \cup {0}]
      /\ \A fd \in Fds : fd # 0
  BY FdsAssumption DEF IInv, TypeOK
<1>g. ASSUME NEW r \in Rooms, NEW fd \in Fds, fd \in Enrolled(r) \cup Chiefs(r), conn[fd] = "closed"
      PROVE  Going(fd, r)
  BY <1>g DEF Here, Audience
<1>n. ASSUME NEW r \in Rooms, NEW fd \in Fds
      PROVE  /\ fd \in Enrolled(r)' => fd \in Enrolled(r) \/ (HandlerStep /\ conn[fd] # "closed")
             /\ fd \in Chiefs(r)' => fd \in Chiefs(r) \/ (HandlerStep /\ conn[fd] # "closed")
  BY Newcomers
<1>h. ASSUME \A r \in Rooms, fd \in Fds :
               fd \in Enrolled(r)' \cup Chiefs(r)' /\ conn'[fd] = "closed" => Going(fd, r)'
      PROVE  Here'
  BY <1>h DEF Here, Audience
<1>1. ASSUME Accept PROVE Here'
  <2>1. PICK fd \in scenario.fds : conn' = [conn EXCEPT ![fd] = "open"]
    BY <1>1 DEF Accept
  <2>2. UNCHANGED roles /\ evloop.at = "idle"
    BY <1>1 DEF Accept
  <2>3. ASSUME NEW r \in Rooms, NEW g \in Fds, g \in Enrolled(r)' \cup Chiefs(r)',
               conn'[g] = "closed"
        PROVE  Going(g, r)'
    <3>1. conn[g] = "closed"
      BY <1>c, <2>1, <2>3
    <3>2. g \in Enrolled(r) \cup Chiefs(r)
      BY <2>2, <2>3 DEF roles, Enrolled, Students, Nulls, Chiefs
    <3>3. Going(g, r)
      BY <1>g, <3>1, <3>2
    <3> QED BY <2>2, <3>3 DEF Going
  <2> QED BY <1>h, <2>3
<1>2. ASSUME NEW fd \in Fds, ClientStep(fd) PROVE Here'
  <2>1. UNCHANGED <<roles, evloop>>
    BY <1>2, ClientFrame
  <2>2. conn[fd] = "open" /\ (conn' = conn \/ conn' = [conn EXCEPT ![fd] = "dead"])
    BY <1>2, ClientFrame
  <2>3. ASSUME NEW r \in Rooms, NEW g \in Fds, g \in Enrolled(r)' \cup Chiefs(r)',
               conn'[g] = "closed"
        PROVE  Going(g, r)'
    <3>1. conn[g] = "closed"
      BY <1>c, <2>2, <2>3
    <3>2. g \in Enrolled(r) \cup Chiefs(r)
      BY <2>1, <2>3 DEF roles, Enrolled, Students, Nulls, Chiefs
    <3>3. Going(g, r)
      BY <1>g, <3>1, <3>2
    <3> QED BY <2>1, <3>3 DEF Going, roles, Chiefs
  <2> QED BY <1>h, <2>3
<1>3. ASSUME HandlerStep PROVE Here'
  <2>0. UNCHANGED <<conn, evloop>>
    BY <1>3, HandlerFrame
  <2>1. ASSUME NEW r \in Rooms, NEW g \in Fds, g \in Enrolled(r)' \cup Chiefs(r)',
               conn'[g] = "closed"
        PROVE  Going(g, r)'
    <3>1. g \in Enrolled(r) \cup Chiefs(r)
      BY <1>n, <2>0, <2>1
    <3>2. Going(g, r)
      BY <1>g, <2>0, <2>1, <3>1
    <3>3. g \in Chiefs(r)' => g \in Chiefs(r)
      BY <1>n, <2>0, <2>1
    <3> QED BY <2>0, <3>2, <3>3 DEF Going
  <2> QED BY <1>h, <2>1
<1>4. ASSUME NEW fd \in Fds, Close(fd) PROVE Here'
  <2>1. /\ evloop.at = "idle" /\ conn' = [conn EXCEPT ![fd] = "closed"] /\ UNCHANGED roles
        /\ evloop'.at = "rooms" /\ evloop'.fd = fd /\ evloop'.todo = Rooms
    BY <1>4 DEF Close, EvIdle
  <2>2. ASSUME NEW r \in Rooms, NEW g \in Fds, g \in Enrolled(r)' \cup Chiefs(r)',
               conn'[g] = "closed"
        PROVE  Going(g, r)'
    <3>1. g \in Enrolled(r) \cup Chiefs(r)
      BY <2>1, <2>2 DEF roles, Enrolled, Students, Nulls, Chiefs
    <3>2. g = fd
      BY <1>c, <1>g, <2>1, <2>2, <3>1 DEF Going
    <3> QED BY <2>1, <3>2 DEF Going
  <2> QED BY <1>h, <2>2
<1>5. ASSUME DelTeacher \/ DelWhite \/ DelStudent \/ Erase \/ SendRest \/ CloseDone PROVE Here'
  <2>0. UNCHANGED conn
    BY <1>5 DEF DelTeacher, DelWhite, DelStudent, Erase, SendRest, CloseDone, net
  <2>2. ASSUME NEW r \in Rooms, NEW g \in Fds, g \in Enrolled(r)' \cup Chiefs(r)',
               conn'[g] = "closed"
        PROVE  /\ g \in Enrolled(r) \cup Chiefs(r)
               /\ g \in Enrolled(r)' => g \in Enrolled(r)
               /\ g \in Chiefs(r)' => g \in Chiefs(r)
               /\ Going(g, r) /\ conn[g] = "closed"
    <3>1. /\ g \in Enrolled(r)' => g \in Enrolled(r)
          /\ g \in Chiefs(r)' => g \in Chiefs(r)
      BY <1>n, <2>0, <2>2
    <3> QED BY <1>g, <2>0, <2>2, <3>1
  <2>3. ASSUME DelTeacher PROVE Here'
    <3> DEFINE room == NextRoom
    <3>1. /\ m_teacher_fd' = [m_teacher_fd EXCEPT ![room] = 0] /\ evloop.fd = m_teacher_fd[room]
          /\ UNCHANGED <<m_white_fd, m_student_map>>
      BY <2>3 DEF DelTeacher
    <3>2. evloop'.at = "rooms" /\ evloop'.fd = evloop.fd /\ evloop'.todo = evloop.todo \ {room}
      BY <2>3 DEF DelTeacher, RoomDone, IInv, TypeOK
    <3>3. room \in Rooms
      BY <2>3, NextRoomIs DEF DelTeacher, AtRoom, IInv, TypeOK
    <3>4. ASSUME NEW g \in Fds, g = evloop.fd, NEW r \in Rooms, r = room
          PROVE  g \notin Enrolled(r)' \cup Chiefs(r)'
      <4>1. client[g].kind = "teacher"
        BY <3>1, <3>3, <3>4 DEF Masters
      <4>2. g # m_white_fd[r] /\ g \notin Enrolled(r)
        BY <3>3, <4>1 DEF Masters, Pupils
      <4>3. m_teacher_fd'[r] = 0 /\ g # 0
        <5> HIDE DEF room
        <5> QED BY <1>c, <3>1, <3>4
      <4>4. g \notin Chiefs(r)'
        BY <3>1, <4>2, <4>3 DEF Chiefs
      <4>5. g \notin Enrolled(r)'
        BY <3>1, <4>2 DEF Enrolled, Students, Nulls
      <4> QED BY <4>4, <4>5
    <3> HIDE DEF room
    <3>5. ASSUME NEW r \in Rooms, NEW g \in Fds, g \in Enrolled(r)' \cup Chiefs(r)',
                 conn'[g] = "closed"
          PROVE  Going(g, r)'
      <4>1. Going(g, r)
        BY <2>2, <3>5
      <4>2. g = evloop.fd /\ r \in evloop.todo
        BY <4>1 DEF Going
      <4>3. r # room
        BY <3>4, <3>5, <4>2
      <4> QED BY <3>2, <4>2, <4>3 DEF Going
    <3> QED BY <1>h, <3>5
  <2>4. ASSUME DelWhite PROVE Here'
    <3> DEFINE room == NextRoom
    <3>1. /\ m_white_fd' = [m_white_fd EXCEPT ![room] = 0] /\ evloop.fd = m_white_fd[room]
          /\ UNCHANGED <<m_teacher_fd, m_student_map>>
      BY <2>4 DEF DelWhite
    <3>2. evloop'.at = "rooms" /\ evloop'.fd = evloop.fd /\ evloop'.todo = evloop.todo \ {room}
      BY <2>4 DEF DelWhite, RoomDone, IInv, TypeOK
    <3>3. room \in Rooms
      BY <2>4, NextRoomIs DEF DelWhite, AtRoom, IInv, TypeOK
    <3>4. ASSUME NEW g \in Fds, g = evloop.fd, NEW r \in Rooms, r = room
          PROVE  g \notin Enrolled(r)' \cup Chiefs(r)'
      <4>1. client[g].kind = "white"
        BY <3>1, <3>3, <3>4 DEF Masters
      <4>2. g # m_teacher_fd[r] /\ g \notin Enrolled(r)
        BY <3>3, <4>1 DEF Masters, Pupils
      <4>3. m_white_fd'[r] = 0 /\ g # 0
        <5> HIDE DEF room
        <5> QED BY <1>c, <3>1, <3>4
      <4>4. g \notin Chiefs(r)'
        BY <3>1, <4>2, <4>3 DEF Chiefs
      <4>5. g \notin Enrolled(r)'
        BY <3>1, <4>2 DEF Enrolled, Students, Nulls
      <4> QED BY <4>4, <4>5
    <3> HIDE DEF room
    <3>5. ASSUME NEW r \in Rooms, NEW g \in Fds, g \in Enrolled(r)' \cup Chiefs(r)',
                 conn'[g] = "closed"
          PROVE  Going(g, r)'
      <4>1. Going(g, r)
        BY <2>2, <3>5
      <4>2. g = evloop.fd /\ r \in evloop.todo
        BY <4>1 DEF Going
      <4>3. r # room
        BY <3>4, <3>5, <4>2
      <4> QED BY <3>2, <4>2, <4>3 DEF Going
    <3> QED BY <1>h, <3>5
  <2>5. ASSUME DelStudent PROVE Here'
    <3> DEFINE room == NextRoom
               here == evloop.fd \in Enrolled(room)
    <3>1. /\ evloop.at = "rooms" /\ evloop.fd \notin Chiefs(room)
          /\ UNCHANGED <<m_teacher_fd, m_white_fd>>
      BY <2>5 DEF DelStudent, AtRoom, Chiefs
    <3>2. /\ evloop'.at = (IF here THEN "erase" ELSE "send") /\ evloop'.fd = evloop.fd
          /\ evloop'.todo = evloop.todo /\ evloop'.room = room
      BY <2>5 DEF DelStudent, IInv, TypeOK
    <3> HIDE DEF room
    <3>3. ASSUME NEW r \in Rooms, NEW g \in Fds, g \in Enrolled(r)' \cup Chiefs(r)',
                 conn'[g] = "closed"
          PROVE  Going(g, r)'
      <4>1. Going(g, r) /\ g \in Enrolled(r) \cup Chiefs(r)
        BY <2>2, <3>3
      <4>2. g = evloop.fd /\ r \in evloop.todo
        BY <4>1 DEF Going
      <4>3. r = room => here /\ g \notin Chiefs(r)'
        BY <3>1, <4>1, <4>2 DEF Chiefs
      <4> QED BY <3>2, <4>2, <4>3 DEF Going
    <3> QED BY <1>h, <3>3
  <2>6. ASSUME Erase PROVE Here'
    <3>1. /\ evloop.at = "erase" /\ evloop.room \in Rooms
          /\ UNCHANGED <<m_teacher_fd, m_white_fd>>
      BY <2>6 DEF Erase, IInv, AtWork
    <3>2. /\ evloop'.at = "send" /\ evloop'.fd = evloop.fd
          /\ evloop'.todo = evloop.todo /\ evloop'.room = evloop.room
      BY <2>6 DEF Erase, IInv, TypeOK
    <3>3. ASSUME NEW r \in Rooms, r = evloop.room PROVE evloop.fd \notin Enrolled(r)'
      <4>1. m_student_map' = [m_student_map EXCEPT ![evloop.room][evloop.fd] = Absent]
        BY <2>6 DEF Erase
      <4>2. m_student_map \in [Rooms -> [Fds -> Entries]]
        BY Parts DEF IInv
      <4>3. ASSUME evloop.fd \in Fds PROVE m_student_map'[r][evloop.fd].st = "none"
        BY <3>3, <4>1, <4>2, <4>3 DEF Absent
      <4> QED BY <4>3 DEF Enrolled, Students, Nulls
    <3>4. ASSUME NEW r \in Rooms, NEW g \in Fds, g \in Enrolled(r)' \cup Chiefs(r)',
                 conn'[g] = "closed"
          PROVE  Going(g, r)'
      <4>1. Going(g, r) /\ (g \in Chiefs(r)' => g \in Chiefs(r))
        BY <2>2, <3>4
      <4>2. g = evloop.fd /\ r \in evloop.todo /\ (r = evloop.room => g \notin Chiefs(r)')
        BY <3>1, <4>1 DEF Going
      <4>3. r # evloop.room
        BY <3>3, <3>4, <4>2
      <4> QED BY <3>2, <4>2, <4>3 DEF Going
    <3> QED BY <1>h, <3>4
  <2>7. ASSUME SendRest PROVE Here'
    <3>1. /\ evloop.at = "send"
          /\ evloop'.at = "rooms" /\ evloop'.fd = evloop.fd
          /\ evloop'.todo = evloop.todo \ {evloop.room}
      BY <2>7 DEF SendRest, RoomDone, IInv, TypeOK
    <3>2. ASSUME NEW r \in Rooms, NEW g \in Fds, g \in Enrolled(r)' \cup Chiefs(r)',
                 conn'[g] = "closed"
          PROVE  Going(g, r)'
      <4>1. Going(g, r)
        BY <2>2, <3>2
      <4> QED BY <3>1, <4>1 DEF Going
    <3> QED BY <1>h, <3>2
  <2>8. ASSUME CloseDone PROVE Here'
    <3>1. evloop.todo = {}
      BY <2>8 DEF CloseDone
    <3>2. ASSUME NEW r \in Rooms, NEW g \in Fds, g \in Enrolled(r)' \cup Chiefs(r)',
                 conn'[g] = "closed"
          PROVE  Going(g, r)'
      <4>1. Going(g, r)
        BY <2>2, <3>2
      <4> QED BY <3>1, <4>1 DEF Going
    <3> QED BY <1>h, <3>2
  <2> QED BY <1>5, <2>3, <2>4, <2>5, <2>6, <2>7, <2>8
<1> QED BY <1>1, <1>2, <1>3, <1>4, <1>5 DEF Next, CloseStep

\* Nobody gets out of the list of the late.
LEMMA LateGrows ==
  ASSUME IInv, Next, late' = {}
  PROVE  late = {}
<1>1. ASSUME Accept PROVE late' = late
  BY <1>1 DEF Accept
<1>2. ASSUME NEW fd \in Fds, ClientStep(fd) PROVE late' = late
  BY <1>2, ClientFrame
<1>3. ASSUME NEW fd, Close(fd) PROVE late = {}
  BY <1>3 DEF Close
<1> QED BY <1>1, <1>2, <1>3, HandlerFrame, CloseFrame DEF Next

LEMMA GoneKept ==
  ASSUME IInv, Gone, Next
  PROVE  Gone'
<1> SUFFICES ASSUME late' = {}
             PROVE  Waiting' /\ Working' /\ Ending' /\ Here' /\ Pupils' /\ Masters' /\ Used'
  BY DEF Gone
<1>1. Waiting /\ Working /\ Ending /\ Here /\ Pupils /\ Masters /\ Used
  BY LateGrows DEF Gone
<1> QED
  BY <1>1, WaitingKept, WorkingKept, EndingKept, HereKept, PupilsKept, MastersKept, UsedKept

LEMMA InitGone == Init => Gone
<1> SUFFICES ASSUME Init PROVE Gone
  OBVIOUS
<1>1. Waiting /\ Working /\ Ending
  BY DEF Init, Waiting, Working, Ending, RecvIdle, EvIdle
<1>2. ASSUME NEW r \in Rooms, NEW fd \in Fds
      PROVE  /\ fd \notin Enrolled(r) /\ fd # m_teacher_fd[r] /\ fd # m_white_fd[r]
             /\ m_student_map[r][fd].id = 0 /\ m_isUsed[r] = 0
  BY FdsAssumption, EnrolledIs DEF Init, Absent
<1>3. Here /\ Pupils /\ Masters /\ Used
  BY <1>2 DEF Init, Here, Pupils, Masters, Used, Audience, Chiefs
<1> QED BY <1>1, <1>3 DEF Gone

LEMMA NextGone == IInv /\ Gone /\ [Next]_vars => Gone'
<1> SUFFICES ASSUME IInv, Gone, [Next]_vars PROVE Gone'
  OBVIOUS
<1>1. ASSUME UNCHANGED vars PROVE Gone'
  BY <1>1 DEF vars, net, roles, Gone, Waiting, Stands, Working, Ending, Here, Going, Pupils,
              Masters, Used, Audience, Enrolled, Students, Nulls, Chiefs
<1> QED BY <1>1, GoneKept

\* A connection that has ended leaves nothing behind in any room, and no room is
\* in use without a teacher, unless a message was handled too late: for any
\* rooms, descriptors that are used again, and clients.
THEOREM Forgotten == Spec => []ClosedForgotten
<1>1. Gone => ClosedForgotten
  <2> SUFFICES ASSUME Gone, evloop.at = "idle", late = {}
               PROVE  /\ \A fd \in Fds, r \in Rooms :
                           conn[fd] = "closed" => fd \notin Enrolled(r) \cup Chiefs(r)
                      /\ \A r \in Rooms : m_isUsed[r] = 1 => m_teacher_fd[r] # 0
    BY DEF ClosedForgotten
  <2>1. Here /\ Used
    BY DEF Gone
  <2> QED BY <2>1, NobodyGone DEF Used, Chiefs
<1> QED
  BY InitTyped, NextTyped, InitGone, NextGone, <1>1, PTL DEF Spec

(***************************************************************************)
(* What clients are told                                                   *)
(***************************************************************************)

\* No id is twice in a map of students.
Sole(map) ==
  \A id \in Ids : \A f, g \in Fds : map[f].id = id /\ map[g].id = id => f = g

\* StatusIn, of the map of students.
Status(map, id) == IF \E fd \in Fds : map[fd].id = id THEN List(map)[id] ELSE "off"

\* RecvTask or Evloop has a list for room r.
BusyIn(r) == recvtask.at \in {"tell", "list", "send"} /\ recvtask.room = r
EndingIn(r) == evloop.at \in {"erase", "send"} /\ evloop.room = r

\* What a list says is so.
Right(list, r) == \A id \in Ids : list[id] # "none" => list[id] = StatusIn(r, id)

\* The lists on their way are right, and in the hands of one thread.
Lists(r) ==
  /\ ~ (BusyIn(r) /\ EndingIn(r))
  /\ BusyIn(r) /\ recvtask.at \in {"tell", "send"} => Right(recvtask.list, r)
  /\ BusyIn(r) /\ recvtask.at = "tell" =>
       \A id \in Ids : recvtask.list[id] # "none" => \E fd \in Fds : m_student_map[r][fd].id = id
  /\ EndingIn(r) => Right(evloop.list, r)
  /\ EndingIn(r) /\ evloop.at = "erase" =>
       /\ evloop.fd \in Enrolled(r) /\ m_student_map[r][evloop.fd].st = "off"
       /\ \A id \in Ids : m_student_map[r][evloop.fd].id = id => evloop.list[id] # "none"

\* The client on fd is still to be told of student id.
Due(r, fd, id) ==
  \/ BusyIn(r) /\ recvtask.at = "tell" /\ recvtask.list[id] # "none"
  \/ /\ BusyIn(r) /\ recvtask.at = "list" /\ fd \in Enrolled(r)
     /\ \E g \in Fds : m_student_map[r][g].id = id
  \/ BusyIn(r) /\ recvtask.at = "send" /\ fd \in Enrolled(r) /\ recvtask.list[id] # "none"
  \/ EndingIn(r) /\ evloop.at = "erase" /\ id = m_student_map[r][evloop.fd].id
  \/ EndingIn(r) /\ fd \in Enrolled(r) /\ evloop.list[id] # "none"

\* Whoever is not still to be told knows.
News(r) ==
  \A fd \in Audience(r), id \in Ids :
    told[fd][r][id] \in {"none", StatusIn(r, id)} \/ Due(r, fd, id)

\* A student who is not in a room has been told nothing of it.
Untold ==
  \A fd \in Fds, r \in Rooms :
    conn[fd] # "closed" /\ client[fd].kind = "student" /\ fd \notin Students(r)
      => told[fd][r] = Nothing

Informed(r) == Sole(m_student_map[r]) /\ Lists(r) /\ News(r)

InTouch == late = {} => Untold /\ \A r \in Rooms : blurred[r] = {} => Informed(r)

\* Where no id is twice, the list says of a student what the map says.
LEMMA StatusOf ==
  ASSUME NEW map \in [Fds -> Entries], NEW id \in Ids,
         \A f, g \in Fds : map[f].id = id /\ map[g].id = id => f = g
  PROVE  /\ \A fd \in Fds : map[fd].id = id => List(map)[id] = map[fd].st /\ Status(map, id) = map[fd].st
         /\ (\A fd \in Fds : map[fd].id # id) => List(map)[id] = "none" /\ Status(map, id) = "off"
<1> DEFINE fds == {fd \in Fds : map[fd].id = id}
           last == CHOOSE fd \in fds : \A other \in fds : other <= fd
<1>1. List(map)[id] = IF fds = {} THEN "none" ELSE map[last].st
  BY DEF List
<1>2. ASSUME NEW fd \in Fds, map[fd].id = id
      PROVE  List(map)[id] = map[fd].st /\ Status(map, id) = map[fd].st
  <2>1. fds = {fd}
    BY <1>2
  <2>2. fd \in Nat
    BY FdsAssumption
  <2>3. last = fd
    <3>1. \E x \in fds : \A other \in fds : other <= x
      BY <2>1, <2>2
    <3>2. last \in fds
      <4> HIDE DEF fds
      <4> QED BY <3>1
    <3> QED BY <2>1, <3>2
  <2>4. List(map)[id] = map[fd].st
    <3> HIDE DEF last, fds
    <3> QED BY <1>1, <2>1, <2>3
  <2> QED BY <1>2, <2>4 DEF Status
<1>3. (\A fd \in Fds : map[fd].id # id) => List(map)[id] = "none" /\ Status(map, id) = "off"
  BY <1>1 DEF Status
<1> QED BY <1>2, <1>3

\* A status is the same while the entries with that id are.
LEMMA StatusSame ==
  ASSUME NEW map \in [Fds -> Entries], NEW new \in [Fds -> Entries], NEW id \in Ids,
         \A f, g \in Fds : map[f].id = id /\ map[g].id = id => f = g,
         \A fd \in Fds : map[fd].id = id \/ new[fd].id = id => new[fd] = map[fd]
  PROVE  Status(new, id) = Status(map, id)
<1>1. \A f, g \in Fds : new[f].id = id /\ new[g].id = id => f = g
  OBVIOUS
<1>2. CASE \E fd \in Fds : map[fd].id = id
  <2>1. PICK fd \in Fds : map[fd].id = id
    BY <1>2
  <2>2. new[fd] = map[fd]
    BY <2>1
  <2>3. Status(map, id) = map[fd].st
    BY <2>1, StatusOf
  <2>4. Status(new, id) = new[fd].st
    BY <1>1, <2>1, <2>2, StatusOf
  <2> QED BY <2>2, <2>3, <2>4
<1>3. CASE \A fd \in Fds : map[fd].id # id
  <2>1. \A fd \in Fds : new[fd].id # id
    BY <1>3
  <2>2. Status(map, id) = "off"
    BY <1>3, StatusOf
  <2>3. Status(new, id) = "off"
    BY <1>1, <2>1, StatusOf
  <2> QED BY <2>2, <2>3
<1> QED BY <1>2, <1>3

LEMMA StatusInIs ==
  \A r, id : StatusIn(r, id) = Status(m_student_map[r], id)
BY DEF StatusIn, Status

\* What is known after a list was sent.
LEMMA TellSays ==
  ASSUME told \in [Fds -> [Rooms -> StatusLists]],
         NEW fds, NEW r \in Rooms, NEW list, told' = Tell(fds, r, list)
  PROVE  /\ \A fd \in Fds, q \in Rooms : q # r => told'[fd][q] = told[fd][q]
         /\ \A fd \in Fds : fd \notin fds => told'[fd] = told[fd]
         /\ \A fd \in fds \cap Fds, id \in Ids :
              /\ list[id] = "none" => told'[fd][r][id] = told[fd][r][id]
              /\ list[id] # "none" => told'[fd][r][id] = list[id]
<1> SUFFICES ASSUME NEW fd \in Fds
             PROVE  /\ \A q \in Rooms : q # r => told'[fd][q] = told[fd][q]
                    /\ fd \notin fds => told'[fd] = told[fd]
                    /\ \A id \in Ids : fd \in fds =>
                         /\ list[id] = "none" => told'[fd][r][id] = told[fd][r][id]
                         /\ list[id] # "none" => told'[fd][r][id] = list[id]
  OBVIOUS
<1> DEFINE new == [id \in Ids |-> IF list[id] = "none" THEN told[fd][r][id] ELSE list[id]]
<1>1. told'[fd] = IF fd \notin fds THEN told[fd] ELSE [told[fd] EXCEPT ![r] = new]
  BY DEF Tell
<1>2. told[fd] \in [Rooms -> StatusLists]
  OBVIOUS
<1>3. \A id \in Ids : new[id] = IF list[id] = "none" THEN told[fd][r][id] ELSE list[id]
  OBVIOUS
<1> HIDE DEF new
<1> QED BY <1>1, <1>2, <1>3

\* The same of those who are told, for any list.
LEMMA TellHears ==
  ASSUME told \in [Fds -> [Rooms -> StatusLists]], NEW r \in Rooms
  PROVE  \A fds, list : told' = Tell(fds, r, list) =>
           \A fd \in fds \cap Fds, id \in Ids :
             /\ list[id] = "none" => told'[fd][r][id] = told[fd][r][id]
             /\ list[id] # "none" => told'[fd][r][id] = list[id]
BY TellSays

(***************************************************************************)
(* Steps that are no news for a room                                       *)
(***************************************************************************)

\* The map changes only where it has no student, whoever is new has been told
\* nothing, and the threads' lists for the room are as they were.
Quiet(r) ==
  /\ \A fd \in Fds :
       \/ m_student_map'[r][fd] = m_student_map[r][fd]
       \/ fd \notin Enrolled(r) /\ m_student_map[r][fd].id = 0 /\ m_student_map'[r][fd].id = 0
  /\ \A fd \in Audience(r)' :
       told'[fd][r] = Nothing \/ (fd \in Audience(r) /\ told'[fd][r] = told[fd][r])
  /\ BusyIn(r) \/ BusyIn(r)' => recvtask' = recvtask
  /\ EndingIn(r) \/ EndingIn(r)' => evloop' = evloop

LEMMA QuietKeeps ==
  ASSUME IInv, IInv', NEW r \in Rooms, Informed(r), Quiet(r)
  PROVE  Informed(r)'
<1> DEFINE map == m_student_map[r]
           new == m_student_map'[r]
<1>m. map \in [Fds -> Entries] /\ new \in [Fds -> Entries]
  <2>1. m_student_map \in [Rooms -> [Fds -> Entries]]
    BY Parts DEF IInv
  <2>2. m_student_map' \in [Rooms -> [Fds -> Entries]]
    BY DEF IInv, TypeOK, Entries
  <2> QED BY <2>1, <2>2
<1>1. ASSUME NEW id \in Ids, NEW fd \in Fds, map[fd].id = id \/ new[fd].id = id
      PROVE  new[fd] = map[fd]
  <2>1. id # 0
    BY IdsAssumption
  <2> QED BY <1>1, <2>1 DEF Quiet
<1>2. Sole(new)
  BY <1>1 DEF Informed, Sole
<1>3. \A id \in Ids : StatusIn(r, id)' = StatusIn(r, id)
  <2>1. ASSUME NEW id \in Ids PROVE Status(new, id) = Status(map, id)
    <3>1. \A f, g \in Fds : map[f].id = id /\ map[g].id = id => f = g
      BY DEF Informed, Sole
    <3> HIDE DEF map, new
    <3> QED BY <1>m, <1>1, <3>1, StatusSame
  <2>2. ASSUME NEW id \in Ids PROVE StatusIn(r, id)' = Status(new, id)
    BY DEF StatusIn, Status
  <2> QED BY <2>1, <2>2, StatusInIs
<1>4. ASSUME NEW fd \in Enrolled(r)
      PROVE  fd \in Fds /\ new[fd] = map[fd] /\ fd \in Enrolled(r)'
  <2>1. fd \in Fds /\ new[fd] = map[fd]
    BY EnrolledIs DEF Quiet
  <2> QED BY <2>1 DEF Enrolled, Students, Nulls
<1>5. \A id \in Ids : (\E fd \in Fds : map[fd].id = id) => \E fd \in Fds : new[fd].id = id
  BY <1>1
<1>b. ASSUME BusyIn(r)' \/ BusyIn(r) PROVE recvtask' = recvtask /\ BusyIn(r) /\ BusyIn(r)'
  BY <1>b DEF Quiet, BusyIn
<1>e. ASSUME EndingIn(r)' \/ EndingIn(r) PROVE evloop' = evloop /\ EndingIn(r) /\ EndingIn(r)'
  BY <1>e DEF Quiet, EndingIn
<1>6. Lists(r)'
  <2>0. Lists(r)
    BY DEF Informed
  <2>1. ~ (BusyIn(r)' /\ EndingIn(r)')
    BY <1>b, <1>e, <2>0 DEF Lists
  <2>2. ASSUME BusyIn(r)', recvtask'.at \in {"tell", "send"}
        PROVE  \A id \in Ids : recvtask'.list[id] # "none" => recvtask'.list[id] = StatusIn(r, id)'
    BY <1>3, <1>b, <2>0, <2>2 DEF Lists, Right
  <2>3. ASSUME BusyIn(r)', recvtask'.at = "tell", NEW id \in Ids, recvtask'.list[id] # "none"
        PROVE  \E fd \in Fds : new[fd].id = id
    BY <1>5, <1>b, <2>0, <2>3 DEF Lists
  <2>4. ASSUME EndingIn(r)'
        PROVE  \A id \in Ids : evloop'.list[id] # "none" => evloop'.list[id] = StatusIn(r, id)'
    BY <1>3, <1>e, <2>0, <2>4 DEF Lists, Right
  <2>5. ASSUME EndingIn(r)', evloop'.at = "erase"
        PROVE  /\ evloop'.fd \in Enrolled(r)' /\ new[evloop'.fd].st = "off"
               /\ \A id \in Ids : new[evloop'.fd].id = id => evloop'.list[id] # "none"
    <3>1. evloop' = evloop /\ EndingIn(r) /\ evloop.at = "erase"
      BY <1>e, <2>5
    <3>2. /\ evloop.fd \in Enrolled(r) /\ map[evloop.fd].st = "off"
          /\ \A id \in Ids : map[evloop.fd].id = id => evloop.list[id] # "none"
      BY <2>0, <3>1 DEF Lists
    <3>3. evloop.fd \in Enrolled(r)' /\ new[evloop.fd] = map[evloop.fd]
      BY <1>4, <3>2
    <3> QED BY <3>1, <3>2, <3>3
  <2> QED BY <2>1, <2>2, <2>3, <2>4, <2>5 DEF Lists, Right
<1>7. ASSUME NEW fd \in Audience(r)', NEW id \in Ids
      PROVE  told'[fd][r][id] \in {"none", StatusIn(r, id)'} \/ Due(r, fd, id)'
  <2>1. CASE told'[fd][r] = Nothing
    BY <2>1 DEF Nothing
  <2>2. CASE fd \in Audience(r) /\ told'[fd][r] = told[fd][r]
    <3>1. told[fd][r][id] \in {"none", StatusIn(r, id)} \/ Due(r, fd, id)
      BY <2>2 DEF Informed, News
    <3>2. ASSUME Due(r, fd, id) PROVE Due(r, fd, id)'
      <4>1. fd \in Enrolled(r) => fd \in Enrolled(r)'
        BY <1>4
      <4>2. CASE BusyIn(r)
        <5>1. recvtask' = recvtask /\ BusyIn(r)' /\ ~ EndingIn(r)
          BY <1>b, <4>2 DEF Informed, Lists
        <5> QED BY <1>5, <3>2, <4>1, <5>1 DEF Due
      <4>3. CASE EndingIn(r)
        <5>1. evloop' = evloop /\ EndingIn(r)' /\ ~ BusyIn(r)
          BY <1>e, <4>3 DEF Informed, Lists
        <5>2. evloop.at = "erase" => new[evloop.fd] = map[evloop.fd]
          BY <1>4, <4>3 DEF Informed, Lists
        <5> QED BY <3>2, <4>1, <5>1, <5>2 DEF Due
      <4> QED BY <3>2, <4>2, <4>3 DEF Due
    <3> QED BY <1>3, <2>2, <3>1, <3>2
  <2> QED BY <2>1, <2>2 DEF Quiet
<1> QED
  <2>1. Sole(m_student_map[r])'
    BY <1>2
  <2>2. News(r)'
    BY <1>7 DEF News
  <2> QED BY <1>6, <2>1, <2>2 DEF Informed

\* A step that leaves the room, what its clients know and the lists for it alone.
LEMMA QuietSame ==
  ASSUME NEW r \in Rooms, m_student_map'[r] = m_student_map[r],
         \A fd \in Fds : told'[fd][r] = told[fd][r],
         Fds \cap Chiefs(r)' \subseteq Chiefs(r),
         (BusyIn(r) \/ BusyIn(r)') => recvtask' = recvtask,
         (EndingIn(r) \/ EndingIn(r)') => evloop' = evloop
  PROVE  Quiet(r)
BY DEF Quiet, Audience, Enrolled, Students, Nulls

\* These are no news in any room: connections come and go, roles are taken and
\* lost, and the puzzle.
LEMMA QuietStep ==
  ASSUME IInv, Waiting, Pupils, Untold, NEW r \in Rooms,
         \/ Accept \/ (\E fd \in Fds : ClientStep(fd))
         \/ SelectStudent \/ SelectWhite \/ Enter \/ EnterDone \/ Leave
         \/ PuzzleStart \/ PuzzleEndAll \/ PuzzleEndOne \/ ControlChangeScene
         \/ (\E fd \in Fds : Close(fd)) \/ DelTeacher \/ DelWhite \/ CloseDone
  PROVE  Quiet(r)
<1> DEFINE Told == [Fds -> [Rooms -> StatusLists]]
<1>t. /\ m_teacher_fd \in [Rooms -> Fds \cup {0}] /\ m_white_fd \in [Rooms -> Fds \cup {0}]
      /\ told \in Told /\ m_student_map \in [Rooms -> [Fds -> Entries]]
      /\ \A fd \in Fds : fd # 0
  BY Parts, FdsAssumption DEF IInv, TypeOK
<1>0. ASSUME UNCHANGED <<m_student_map, told, m_teacher_fd, m_white_fd>>,
             UNCHANGED recvtask \/ ~ (BusyIn(r) \/ BusyIn(r)'),
             UNCHANGED evloop \/ ~ (EndingIn(r) \/ EndingIn(r)')
      PROVE  Quiet(r)
  BY <1>0, QuietSame DEF Chiefs
<1>1. ASSUME Accept PROVE Quiet(r)
  <2>1. PICK fd \in Fds : told' = [told EXCEPT ![fd] = [q \in Rooms |-> Nothing]]
    BY <1>1 DEF Accept, IInv, TypeOK, Scenario
  <2>2. \A g \in Fds : told'[g][r] = Nothing \/ told'[g][r] = told[g][r]
    BY <1>t, <2>1
  <2>3. UNCHANGED <<roles, recvtask, evloop>>
    BY <1>1 DEF Accept
  <2>4. Audience(r)' = Audience(r) /\ Audience(r) \subseteq Fds
    BY <2>3 DEF roles, Audience, Enrolled, Students, Nulls, Chiefs
  <2> QED BY <2>2, <2>3, <2>4 DEF Quiet, roles
<1>2. ASSUME NEW fd \in Fds, ClientStep(fd) PROVE Quiet(r)
  BY <1>0, <1>2, ClientFrame DEF roles
<1>3. ASSUME SelectStudent PROVE Quiet(r)
  <2>1. m.fd \in Fds /\ m.arg \in Rooms /\ conn[m.fd] # "closed" /\ client[m.fd].kind = "student"
    BY <1>3, Front, FrontStands DEF SelectStudent, IInv, Stands
  <2>2. UNCHANGED <<told, recvtask, evloop, m_teacher_fd, m_white_fd>>
    BY <1>3 DEF SelectStudent
  <2>3. CASE RoomOf(m.fd) # 0
    BY <1>0, <1>3, <2>2, <2>3 DEF SelectStudent
  <2>4. CASE RoomOf(m.fd) = 0
    <3>1. Put(m.arg, m.fd, [id |-> 0, st |-> "off"])
      <4>1. m_student_map' = [m_student_map EXCEPT ![m.arg][m.fd] = [id |-> 0, st |-> "off"]]
        BY <1>3, <2>4 DEF SelectStudent
      <4> QED BY <1>t, <2>1, <4>1, PutOne
    <3>2. m.fd \notin Students(r) /\ m.fd \notin Enrolled(r)
      BY <2>4, RoomOfIs DEF Knows, Enrolled
    <3>3. m_student_map[r][m.fd].id = 0 /\ told[m.fd][r] = Nothing
      BY <2>1, <3>2 DEF Pupils, Untold
    <3>4. ASSUME NEW fd \in Audience(r)', fd # m.fd PROVE fd \in Audience(r)
      BY <2>2, <3>1, <3>4 DEF Put, Audience, Enrolled, Students, Nulls, Chiefs
    <3> QED BY <2>2, <3>1, <3>2, <3>3, <3>4 DEF Quiet, Put
  <2> QED BY <2>3, <2>4
<1>4. ASSUME SelectWhite PROVE Quiet(r)
  <2>1. m.fd \in Fds /\ m.arg \in Rooms
    BY <1>4, Front DEF SelectWhite, IInv
  <2>2. /\ UNCHANGED <<recvtask, evloop, m_teacher_fd, m_student_map>>
        /\ m_white_fd' = [m_white_fd EXCEPT ![m.arg] = m.fd]
        /\ told' = [told EXCEPT ![m.fd][m.arg] = Nothing]
    BY <1>4 DEF SelectWhite
  <2>3. \A fd \in Fds : told'[fd][r] = IF fd = m.fd /\ r = m.arg THEN Nothing ELSE told[fd][r]
    BY <1>t, <2>1, <2>2
  <2>4. ASSUME NEW fd \in Audience(r)', ~ (fd = m.fd /\ r = m.arg) PROVE fd \in Audience(r)
    BY <1>t, <2>1, <2>2, <2>4 DEF Audience, Enrolled, Students, Nulls, Chiefs
  <2>5. Audience(r)' \subseteq Fds
    BY DEF Audience
  <2> QED BY <2>2, <2>3, <2>4, <2>5 DEF Quiet
<1>5. ASSUME Enter PROVE Quiet(r)
  <2>1. m.fd \in Fds /\ m.arg \in Rooms
    BY <1>5, Front DEF Enter, IInv
  <2>2. UNCHANGED <<evloop, m_white_fd, m_student_map>>
    BY <1>5 DEF Enter
  <2>3. CASE m_isUsed[m.arg] = 1
    BY <1>0, <1>5, <2>2, <2>3 DEF Enter
  <2>4. CASE m_isUsed[m.arg] # 1
    <3>1. /\ m_teacher_fd' = [m_teacher_fd EXCEPT ![m.arg] = m.fd]
          /\ told' = [told EXCEPT ![m.fd][m.arg] = Nothing]
          /\ recvtask.at = "idle" /\ recvtask'.at = "enter"
      BY <1>5, <2>4 DEF Enter, Handle, RecvIdle
    <3>2. \A fd \in Fds : told'[fd][r] = IF fd = m.fd /\ r = m.arg THEN Nothing ELSE told[fd][r]
      BY <1>t, <2>1, <3>1
    <3>3. ASSUME NEW fd \in Audience(r)', ~ (fd = m.fd /\ r = m.arg) PROVE fd \in Audience(r)
      BY <1>t, <2>1, <2>2, <3>1, <3>3 DEF Audience, Enrolled, Students, Nulls, Chiefs
    <3>4. Audience(r)' \subseteq Fds
      BY DEF Audience
    <3>5. ~ BusyIn(r) /\ ~ BusyIn(r)'
      BY <3>1 DEF BusyIn
    <3> QED BY <2>2, <3>2, <3>3, <3>4, <3>5 DEF Quiet
  <2> QED BY <2>3, <2>4
<1>6. ASSUME EnterDone PROVE Quiet(r)
  <2>1. ~ BusyIn(r) /\ ~ BusyIn(r)'
    BY <1>6 DEF EnterDone, BusyIn, RecvIdle
  <2> QED BY <1>0, <1>6, <2>1 DEF EnterDone
<1>7. ASSUME Leave \/ PuzzleStart \/ PuzzleEndOne \/ ControlChangeScene PROVE Quiet(r)
  BY <1>0, <1>7 DEF Leave, PuzzleStart, PuzzleEndOne, ControlChangeScene, roles
<1>8. ASSUME PuzzleEndAll PROVE Quiet(r)
  <2>1. \A fd \in Fds : \/ m_student_map'[r][fd] = m_student_map[r][fd]
                        \/ /\ m_student_map'[r][fd] = NullStudent
                           /\ m_student_map[r][fd].st = "none"
    BY <1>t, <1>8, PuzzleNulls
  <2>2. UNCHANGED <<told, recvtask, evloop, m_teacher_fd, m_white_fd>>
    BY <1>8 DEF PuzzleEndAll
  <2>3. ASSUME NEW fd \in Fds, m_student_map'[r][fd] # m_student_map[r][fd]
        PROVE  fd \notin Enrolled(r) /\ m_student_map[r][fd].id = 0 /\ m_student_map'[r][fd].id = 0
    BY <2>1, <2>3 DEF Pupils, Enrolled, Students, NullStudent
  <2>4. ASSUME NEW fd \in Audience(r)' PROVE fd \in Audience(r)
    BY <2>1, <2>2 DEF Audience, Enrolled, Students, Nulls, Chiefs, NullStudent
  <2> QED BY <2>2, <2>3, <2>4 DEF Quiet
<1>9. ASSUME NEW fd \in Fds, Close(fd) PROVE Quiet(r)
  <2>1. ~ EndingIn(r) /\ ~ EndingIn(r)'
    BY <1>9 DEF Close, EndingIn, EvIdle
  <2> QED BY <1>0, <1>9, <2>1 DEF Close, roles
<1>10. ASSUME DelTeacher \/ DelWhite PROVE Quiet(r)
  <2>1. /\ UNCHANGED <<m_student_map, told, recvtask>>
        /\ evloop.at = "rooms" /\ evloop'.at = "rooms"
    BY <1>10 DEF DelTeacher, DelWhite, AtRoom, RoomDone, IInv, TypeOK
  <2>2. ~ EndingIn(r) /\ ~ EndingIn(r)'
    BY <2>1 DEF EndingIn
  <2>3. \/ m_teacher_fd' = [m_teacher_fd EXCEPT ![NextRoom] = 0] /\ UNCHANGED m_white_fd
        \/ m_white_fd' = [m_white_fd EXCEPT ![NextRoom] = 0] /\ UNCHANGED m_teacher_fd
    BY <1>10 DEF DelTeacher, DelWhite
  <2>4. Fds \cap Chiefs(r)' \subseteq Chiefs(r)
    BY <1>t, <2>3 DEF Chiefs
  <2> QED BY <2>1, <2>2, <2>4, QuietSame
<1>11. ASSUME CloseDone PROVE Quiet(r)
  <2>1. ~ EndingIn(r) /\ ~ EndingIn(r)'
    BY <1>11 DEF CloseDone, EndingIn, EvIdle
  <2> QED BY <1>0, <1>11, <2>1 DEF CloseDone, roles
<1> QED
  BY <1>1, <1>2, <1>3, <1>4, <1>5, <1>6, <1>7, <1>8, <1>9, <1>10, <1>11

\* A list of one room is no news of another.
LEMMA ToldElsewhere ==
  ASSUME told \in [Fds -> [Rooms -> StatusLists]],
         NEW r \in Rooms, NEW q \in Rooms, q # r, NEW fds, NEW list,
         told' = told \/ told' = Tell(fds, q, list)
  PROVE  \A fd \in Fds : told'[fd][r] = told[fd][r]
<1>1. CASE told' = Tell(fds, q, list)
  BY <1>1, TellSays
<1> QED BY <1>1

\* Nor are a login, a leaving and the lists of another room.
LEMMA QuietElsewhere ==
  ASSUME IInv, NEW r \in Rooms,
         \/ LoginStudent /\ (RoomOf(m.fd) # r \/ m.fd \notin Enrolled(r))
         \/ ConfirmLeaveEarly /\ (RoomOf(m.fd) # r \/ m.fd \notin Enrolled(r))
         \/ (LoginTell \/ LoginList \/ SendList) /\ recvtask.room # r
         \/ DelStudent /\ NextRoom # r
         \/ (Erase \/ SendRest) /\ evloop.room # r
  PROVE  Quiet(r)
<1>t. /\ told \in [Fds -> [Rooms -> StatusLists]] /\ m_student_map \in [Rooms -> [Fds -> Entries]]
      /\ recvtask.at # "idle" => recvtask.room \in Rooms
      /\ evloop.at \in {"erase", "send"} => evloop.room \in Rooms
  BY Parts DEF IInv, AtWork
<1>1. ASSUME LoginStudent, RoomOf(m.fd) # r \/ m.fd \notin Enrolled(r) PROVE Quiet(r)
  <2> DEFINE q == RoomOf(m.fd)
  <2>1. UNCHANGED <<told, evloop, m_teacher_fd, m_white_fd>> /\ recvtask.at = "idle"
    BY <1>1 DEF LoginStudent, Handle
  <2>2. CASE q # 0 /\ m.fd \in Enrolled(q)
    <3>1. /\ recvtask'.at = "tell" /\ recvtask'.room = q
          /\ m_student_map' = [m_student_map EXCEPT ![q][m.fd] = [id |-> m.arg, st |-> "on"]]
      BY <1>1, <2>2 DEF LoginStudent
    <3>2. q # r
      BY <1>1, <2>2
    <3> HIDE DEF q
    <3>3. m_student_map'[r] = m_student_map[r]
      BY <1>t, <3>1, <3>2
    <3> QED BY <2>1, <3>1, <3>2, <3>3, QuietSame DEF BusyIn, Chiefs
  <2>3. CASE ~ (q # 0 /\ m.fd \in Enrolled(q))
    <3>1. UNCHANGED <<m_student_map, recvtask>>
      BY <1>1, <2>3 DEF LoginStudent
    <3> QED BY <2>1, <3>1, QuietSame DEF Chiefs
  <2> QED BY <2>2, <2>3
<1>2. ASSUME ConfirmLeaveEarly, RoomOf(m.fd) # r \/ m.fd \notin Enrolled(r) PROVE Quiet(r)
  <2> DEFINE q == RoomOf(m.fd)
             id == m_student_map[q][m.fd].id
             new == [m_student_map[q][m.fd] EXCEPT !.st = "left"]
  <2>1. UNCHANGED <<evloop, m_teacher_fd, m_white_fd>> /\ recvtask.at = "idle"
    BY <1>2 DEF ConfirmLeaveEarly, Handle
  <2>2. CASE q # 0 /\ m.fd \in Enrolled(q)
    <3>1. /\ recvtask'.at = "send" /\ recvtask'.room = q
          /\ m_student_map' = [m_student_map EXCEPT ![q][m.fd] = new]
          /\ told' = told \/ told' = Tell(Chiefs(q), q, Just(id, "left"))
      BY <1>2, <2>2 DEF ConfirmLeaveEarly
    <3>2. q # r /\ q \in Rooms
      BY <1>2, <2>2, RoomOfIs
    <3> HIDE DEF q, id, new
    <3>3. m_student_map'[r] = m_student_map[r]
      BY <1>t, <3>1, <3>2
    <3>4. \A fd \in Fds : told'[fd][r] = told[fd][r]
      BY <1>t, <3>1, <3>2, ToldElsewhere
    <3> QED BY <2>1, <3>1, <3>2, <3>3, <3>4, QuietSame DEF BusyIn, Chiefs
  <2>3. CASE ~ (q # 0 /\ m.fd \in Enrolled(q))
    <3>1. UNCHANGED <<m_student_map, recvtask, told>>
      BY <1>2, <2>3 DEF ConfirmLeaveEarly
    <3> QED BY <2>1, <3>1, QuietSame DEF Chiefs
  <2> QED BY <2>2, <2>3
<1>3. ASSUME LoginTell \/ LoginList \/ SendList, recvtask.room # r PROVE Quiet(r)
  <2>1. UNCHANGED <<evloop, roles>> /\ recvtask.at # "idle"
    BY <1>3 DEF LoginTell, LoginList, SendList
  <2>2. ~ BusyIn(r) /\ ~ BusyIn(r)'
    <3>1. \/ recvtask' = [recvtask EXCEPT !.at = "list"] \/ recvtask' = RecvIdle
          \/ recvtask' = [recvtask EXCEPT !.at = "send", !.list = List(m_student_map[recvtask.room])]
      BY <1>3 DEF LoginTell, LoginList, SendList
    <3>2. recvtask'.room = recvtask.room \/ recvtask'.at = "idle"
      <4> DEFINE list == List(m_student_map[recvtask.room])
      <4>1. recvtask \in [at : {"idle", "enter", "tell", "list", "send"}, fd : Fds \cup {0},
                          room : Rooms \cup {0}, list : [Ids -> Statuses]]
        BY DEF IInv, TypeOK
      <4>2. \/ recvtask' = [recvtask EXCEPT !.at = "list"] \/ recvtask' = RecvIdle
            \/ recvtask' = [recvtask EXCEPT !.at = "send", !.list = list]
        BY <3>1
      <4> HIDE DEF list
      <4>3. ASSUME recvtask' = [recvtask EXCEPT !.at = "list"] PROVE recvtask'.room = recvtask.room
        BY <4>1, <4>3
      <4>4. ASSUME recvtask' = [recvtask EXCEPT !.at = "send", !.list = list]
            PROVE  recvtask'.room = recvtask.room
        BY <4>1, <4>4
      <4>5. ASSUME recvtask' = RecvIdle PROVE recvtask'.at = "idle"
        BY <4>5 DEF RecvIdle
      <4> QED BY <4>2, <4>3, <4>4, <4>5
    <3> QED BY <1>3, <3>2 DEF BusyIn
  <2>3. \A fd \in Fds : told'[fd][r] = told[fd][r]
    <3>1. \/ told' = told \/ told' = Tell(Chiefs(recvtask.room), recvtask.room, recvtask.list)
          \/ told' = Tell(Students(recvtask.room), recvtask.room, recvtask.list)
      BY <1>3 DEF LoginTell, LoginList, SendList
    <3>2. recvtask.room \in Rooms
      BY <1>t, <2>1
    <3>3. r # recvtask.room
      BY <1>3
    <3> QED BY <1>t, <3>1, <3>2, <3>3, ToldElsewhere
  <2> QED BY <2>1, <2>2, <2>3, QuietSame DEF roles, Chiefs
<1>4. ASSUME DelStudent, NextRoom # r PROVE Quiet(r)
  <2> DEFINE q == NextRoom
             new == [m_student_map[q][evloop.fd] EXCEPT !.st = "off"]
  <2>1. /\ UNCHANGED <<recvtask, told, m_teacher_fd, m_white_fd>> /\ evloop.at = "rooms"
        /\ evloop'.room = q
    BY <1>4 DEF DelStudent, AtRoom, IInv, TypeOK
  <2>2. m_student_map'[r] = m_student_map[r]
    <3>1. m_student_map' = m_student_map \/ m_student_map' = [m_student_map EXCEPT ![q][evloop.fd] = new]
      BY <1>4 DEF DelStudent
    <3> HIDE DEF q, new
    <3> QED BY <1>4, <1>t, <3>1 DEF q
  <2>3. ~ EndingIn(r) /\ ~ EndingIn(r)'
    BY <1>4, <2>1 DEF EndingIn
  <2> QED BY <2>1, <2>2, <2>3, QuietSame DEF Chiefs
<1>5. ASSUME Erase \/ SendRest, evloop.room # r PROVE Quiet(r)
  <2>1. UNCHANGED <<recvtask, m_teacher_fd, m_white_fd>> /\ evloop.at \in {"erase", "send"}
    BY <1>5 DEF Erase, SendRest, roles
  <2>2. ~ EndingIn(r) /\ ~ EndingIn(r)'
    BY <1>5 DEF Erase, SendRest, EndingIn, RoomDone, IInv, TypeOK
  <2>3. m_student_map'[r] = m_student_map[r]
    <3>1. \/ m_student_map' = m_student_map
          \/ m_student_map' = [m_student_map EXCEPT ![evloop.room][evloop.fd] = Absent]
      BY <1>5 DEF Erase, SendRest, roles
    <3> QED BY <1>5, <1>t, <3>1
  <2>4. \A fd \in Fds : told'[fd][r] = told[fd][r]
    <3> DEFINE student == m_student_map[evloop.room][evloop.fd]
    <3>1. \/ told' = told \/ told' = Tell(Chiefs(evloop.room), evloop.room, Just(student.id, student.st))
          \/ told' = Tell(Students(evloop.room), evloop.room, evloop.list)
      BY <1>5 DEF Erase, SendRest
    <3>2. evloop.room \in Rooms
      BY <1>t, <2>1
    <3> HIDE DEF student
    <3>3. r # evloop.room
      BY <1>5
    <3> QED BY <1>t, <3>1, <3>2, <3>3, ToldElsewhere
  <2> QED BY <2>1, <2>2, <2>3, <2>4, QuietSame DEF Chiefs
<1> QED BY <1>1, <1>2, <1>3, <1>4, <1>5

(***************************************************************************)
(* Steps that are                                                          *)
(***************************************************************************)

\* The list of all students says what the map says.
LEMMA ListRight ==
  ASSUME NEW map \in [Fds -> Entries], Sole(map), NEW id \in Ids
  PROVE  /\ List(map)[id] # "none" => List(map)[id] = Status(map, id)
         /\ \A fd \in Fds : map[fd].id = id => List(map)[id] = map[fd].st
<1>1. \A f, g \in Fds : map[f].id = id /\ map[g].id = id => f = g
  BY DEF Sole
<1>2. CASE \E fd \in Fds : map[fd].id = id
  BY <1>1, <1>2, StatusOf
<1>3. CASE \A fd \in Fds : map[fd].id # id
  BY <1>1, <1>3, StatusOf
<1> QED BY <1>2, <1>3

\* One entry changes, to an id nobody else has.
Sets(r, f, e) ==
  /\ Sole(m_student_map'[r])
  /\ \A id \in Ids : id # e.id /\ id # m_student_map[r][f].id
                       => StatusIn(r, id)' = StatusIn(r, id)
  /\ \A id \in Ids : id = e.id => StatusIn(r, id)' = e.st
  /\ \A id \in Ids : id # e.id /\ id = m_student_map[r][f].id
                       => StatusIn(r, id)' = "off"

LEMMA PutStatus ==
  ASSUME m_student_map \in [Rooms -> [Fds -> Entries]],
         m_student_map' \in [Rooms -> [Fds -> Entries]],
         NEW r \in Rooms, NEW f \in Fds, NEW e, Put(r, f, e), Sole(m_student_map[r]),
         \A g \in Fds \ {f} : e.id \in Ids => m_student_map[r][g].id # e.id
  PROVE  Sets(r, f, e)
<1> DEFINE map == m_student_map[r]
           new == m_student_map'[r]
<1>m. map \in [Fds -> Entries] /\ new \in [Fds -> Entries]
  OBVIOUS
<1>n. new[f] = e /\ \A g \in Fds \ {f} : new[g] = map[g]
  BY DEF Put
<1>s. \A id : StatusIn(r, id) = Status(map, id) /\ StatusIn(r, id)' = Status(new, id)
  BY DEF StatusIn, Status
<1>1. Sole(new)
  BY <1>n DEF Sole
<1>o. /\ \A id \in Ids : \A g, h \in Fds : map[g].id = id /\ map[h].id = id => g = h
      /\ \A id \in Ids : \A g, h \in Fds : new[g].id = id /\ new[h].id = id => g = h
  BY <1>1 DEF Sole
<1> HIDE DEF map, new
<1>2. ASSUME NEW id \in Ids, id # e.id, id # map[f].id PROVE Status(new, id) = Status(map, id)
  <2>1. \A g \in Fds : map[g].id = id \/ new[g].id = id => new[g] = map[g]
    BY <1>n, <1>2
  <2> QED BY <1>m, <1>o, <2>1, StatusSame
<1>3. ASSUME NEW id \in Ids, id = e.id PROVE Status(new, id) = e.st
  <2>1. new[f].id = id /\ new[f].st = e.st
    BY <1>n, <1>3
  <2>2. \A g, h \in Fds : new[g].id = id /\ new[h].id = id => g = h
    BY <1>o
  <2> QED BY <1>m, <2>1, <2>2, StatusOf
<1>4. ASSUME NEW id \in Ids, id # e.id, id = map[f].id PROVE Status(new, id) = "off"
  <2>1. \A g \in Fds : new[g].id # id
    BY <1>n, <1>o, <1>4
  <2> QED BY <1>m, <1>o, <2>1, StatusOf
<1> QED BY <1>1, <1>2, <1>3, <1>4, <1>s DEF map, new, Sets

\* Where no list is under way, everybody knows.
LEMMA AllKnow ==
  ASSUME NEW r \in Rooms, Informed(r), ~ BusyIn(r), ~ EndingIn(r)
  PROVE  \A fd \in Audience(r), id \in Ids : told[fd][r][id] \in {"none", StatusIn(r, id)}
BY DEF Informed, News, Due

\* Who is to know stays the same when a student's entry changes.
LEMMA SameAudience ==
  ASSUME NEW r \in Rooms, NEW f \in Enrolled(r), NEW e, Put(r, f, e),
         e.st \notin {"none", "null"}, UNCHANGED <<m_teacher_fd, m_white_fd>>
  PROVE  Audience(r)' = Audience(r) /\ Enrolled(r)' = Enrolled(r)
BY EnrolledIs DEF Put, Audience, Enrolled, Students, Nulls, Chiefs

\* A student logs in: whoever is in the room will be told.
LEMMA LoginInforms ==
  ASSUME IInv, IInv', Waiting, Pupils, LoginStudent, NEW r \in Rooms, r = RoomOf(m.fd),
         m.fd \in Enrolled(r), Informed(r), blurred'[r] = {}
  PROVE  Informed(r)'
<1> DEFINE map == m_student_map[r]
           entry == [id |-> m.arg, st |-> "on"]
<1>t. /\ m_student_map \in [Rooms -> [Fds -> Entries]]
      /\ m_student_map' \in [Rooms -> [Fds -> Entries]]
      /\ blurred \in [Rooms -> SUBSET {"race", "twice"}]
  <2>1. m_student_map \in [Rooms -> [Fds -> Entries]]
    BY Parts DEF IInv
  <2>2. m_student_map' \in [Rooms -> [Fds -> Entries]]
    BY DEF IInv, TypeOK, Entries
  <2> QED BY <2>1, <2>2 DEF IInv, TypeOK
<1>0. r # 0
  BY RoomsAssumption
<1>1. /\ m.fd \in Fds /\ m.arg \in Ids \cup {0}
      /\ client[m.fd].kind = "student" /\ m.arg = client[m.fd].id
  BY Front, FrontStands DEF LoginStudent, IInv, Stands
<1>2. /\ m_student_map' = [m_student_map EXCEPT ![r][m.fd] = entry]
      /\ recvtask.at = "idle" /\ recvtask' = [at |-> "tell", fd |-> m.fd, room |-> r,
                                             list |-> Just(m.arg, "on")]
      /\ blurred' = [Meet(evloop, r) EXCEPT ![r] = @ \cup
           (IF \E fd \in Fds \ {m.fd} : map[fd].id = m.arg THEN {"twice"} ELSE {})]
      /\ UNCHANGED <<told, evloop, m_teacher_fd, m_white_fd>>
  BY <1>0 DEF LoginStudent, Handle
<1>3. ~ EndingIn(r) /\ \A fd \in Fds \ {m.fd} : map[fd].id # m.arg
  <2> DEFINE more == IF \E fd \in Fds \ {m.fd} : map[fd].id = m.arg THEN {"twice"} ELSE {}
  <2>1. blurred' = [Meet(evloop, r) EXCEPT ![r] = @ \cup more]
    BY <1>2
  <2>2. Meet(evloop, r) \in [Rooms -> SUBSET {"race", "twice"}]
    BY MeetIs DEF IInv
  <2> HIDE DEF more
  <2>3. Meet(evloop, r)[r] = {} /\ more = {}
    BY <2>1, <2>2
  <2>4. ~ EndingIn(r)
    BY <1>t, <2>3 DEF Meet, EndingIn
  <2> QED BY <2>3, <2>4 DEF more
<1>4. Put(r, m.fd, entry)
  BY <1>t, <1>1, <1>2, PutOne
<1>5. map[m.fd].id \in {0, m.arg}
  BY <1>1 DEF Pupils
<1>6. /\ Sole(m_student_map'[r])
      /\ \A id \in Ids : id # m.arg => StatusIn(r, id)' = StatusIn(r, id)
      /\ \A id \in Ids : id = m.arg => StatusIn(r, id)' = "on"
  <2>1. entry.id = m.arg /\ entry.st = "on"
    OBVIOUS
  <2>2. \A g \in Fds \ {m.fd} : entry.id \in Ids => m_student_map[r][g].id # entry.id
    BY <1>3
  <2>3. \A id \in Ids : id # m.arg => id # map[m.fd].id
    BY <1>5, IdsAssumption
  <2>4. Sole(m_student_map[r])
    BY DEF Informed
  <2>5. m.fd \in Fds /\ Put(r, m.fd, entry)
    BY <1>1, <1>4
  <2> HIDE DEF entry
  <2>6. Sets(r, m.fd, entry)
    BY <1>t, <2>2, <2>4, <2>5, PutStatus
  <2> QED BY <2>1, <2>3, <2>6 DEF Sets
<1>7. \A id \in Ids : recvtask'.list[id] = IF id = m.arg THEN "on" ELSE "none"
  BY <1>2 DEF Just, Nothing
<1>8. BusyIn(r)' /\ ~ EndingIn(r)' /\ recvtask'.at = "tell"
  BY <1>2, <1>3 DEF BusyIn, EndingIn
<1>9. Lists(r)'
  <2>1. Right(recvtask.list, r)'
    BY <1>6, <1>7 DEF Right
  <2>2. m_student_map'[r][m.fd].id = m.arg
    BY <1>1, <1>4 DEF Put
  <2> QED BY <1>1, <1>7, <1>8, <2>1, <2>2 DEF Lists
<1>10. News(r)'
  <2>1. Audience(r)' = Audience(r)
    BY <1>2, <1>4, SameAudience
  <2>2. ~ BusyIn(r)
    BY <1>2 DEF BusyIn
  <2>3. ASSUME NEW fd \in Audience(r), NEW id \in Ids, id # m.arg
        PROVE  told'[fd][r][id] \in {"none", StatusIn(r, id)'}
    BY <1>2, <1>3, <1>6, <2>2, <2>3, AllKnow
  <2>4. ASSUME NEW fd \in Audience(r), NEW id \in Ids, id = m.arg PROVE Due(r, fd, id)'
    BY <1>7, <1>8, <2>4 DEF Due
  <2> QED BY <2>1, <2>3, <2>4 DEF News
<1> QED BY <1>6, <1>9, <1>10 DEF Informed

\* What a room's map, roles and statuses are when only what is known changes.
LEMMA RolesStay ==
  ASSUME UNCHANGED roles
  PROVE  \A r : /\ Audience(r)' = Audience(r) /\ Enrolled(r)' = Enrolled(r)
                /\ m_student_map'[r] = m_student_map[r]
                /\ \A id : StatusIn(r, id)' = StatusIn(r, id)
BY DEF roles, Audience, Enrolled, Students, Nulls, Chiefs, StatusIn

\* Teacher and whiteboard are told of the student who logs in; the list is still
\* to be put together.
LEMMA TellInforms ==
  ASSUME IInv, LoginTell, NEW r \in Rooms, r = recvtask.room, Informed(r)
  PROVE  Informed(r)'
<1>t. told \in [Fds -> [Rooms -> StatusLists]]
  BY Parts DEF IInv
<1>1. /\ recvtask.at = "tell" /\ recvtask'.at = "list" /\ recvtask'.room = r
      /\ told' = Tell(Chiefs(r), r, recvtask.list) /\ UNCHANGED <<evloop, roles>>
  BY DEF LoginTell, IInv, TypeOK
<1>2. BusyIn(r) /\ ~ EndingIn(r) /\ BusyIn(r)' /\ ~ EndingIn(r)'
  <2>1. BusyIn(r) /\ BusyIn(r)'
    BY <1>1 DEF BusyIn
  <2>2. ~ EndingIn(r)
    BY <2>1 DEF Informed, Lists
  <2> QED BY <1>1, <2>1, <2>2 DEF EndingIn
<1>3. Sole(m_student_map[r])' /\ Lists(r)'
  BY <1>1, <1>2 DEF Informed, Lists, Sole, roles
<1>k. told' = Tell(Chiefs(r), r, recvtask.list)
  BY <1>1
<1>a. \A fd \in Fds : fd \notin Chiefs(r) => told'[fd] = told[fd]
  BY <1>k, <1>t, TellSays
<1>b. \A fd \in Chiefs(r) \cap Fds, id \in Ids :
        /\ recvtask.list[id] = "none" => told'[fd][r][id] = told[fd][r][id]
        /\ recvtask.list[id] # "none" => told'[fd][r][id] = recvtask.list[id]
  BY <1>k, <1>t, TellHears
<1>4. ASSUME NEW fd \in Audience(r), NEW id \in Ids
      PROVE  told'[fd][r][id] \in {"none", StatusIn(r, id)} \/ Due(r, fd, id)'
  <2>1. told[fd][r][id] \in {"none", StatusIn(r, id)} \/ recvtask.list[id] # "none"
    BY <1>1, <1>2 DEF Informed, News, Due
  <2>2. recvtask.list[id] # "none" => /\ recvtask.list[id] = StatusIn(r, id)
                                      /\ \E g \in Fds : m_student_map[r][g].id = id
    BY <1>1, <1>2 DEF Informed, Lists, Right
  <2>3. CASE fd \in Chiefs(r)
    <3>1. fd \in Fds
      BY DEF Audience
    <3>2. told'[fd][r][id] = IF recvtask.list[id] = "none" THEN told[fd][r][id]
                                                           ELSE recvtask.list[id]
      BY <1>b, <2>3, <3>1
    <3> QED BY <2>1, <2>2, <3>2
  <2>4. CASE fd \notin Chiefs(r)
    <3>1. fd \in Enrolled(r) /\ fd \in Fds
      BY <2>4 DEF Audience
    <3>2. told'[fd] = told[fd]
      BY <1>a, <2>4, <3>1
    <3>3. recvtask.list[id] # "none" => Due(r, fd, id)'
      <4>1. fd \in Enrolled(r)' /\ m_student_map'[r] = m_student_map[r]
        BY <1>1, <3>1, RolesStay
      <4> QED BY <1>1, <1>2, <2>2, <4>1 DEF Due
    <3> QED BY <2>1, <3>2, <3>3
  <2> QED BY <2>3, <2>4
<1>5. News(r)'
  BY <1>1, <1>4, RolesStay DEF News
<1> QED BY <1>3, <1>5 DEF Informed

\* The list of all students is right, and says something of each of them.
LEMMA ListInforms ==
  ASSUME IInv, Pupils, LoginList, NEW r \in Rooms, r = recvtask.room, Informed(r)
  PROVE  Informed(r)'
<1> DEFINE map == m_student_map[r]
<1>t. map \in [Fds -> Entries]
  <2>1. m_student_map \in [Rooms -> [Fds -> Entries]]
    BY Parts DEF IInv
  <2> QED BY <2>1
<1>1. /\ recvtask.at = "list" /\ recvtask'.at = "send" /\ recvtask'.room = r
      /\ recvtask'.list = List(map) /\ UNCHANGED <<evloop, roles, told>>
  <2> DEFINE list == List(map)
  <2>1. /\ recvtask.at = "list" /\ UNCHANGED <<evloop, roles, told>>
        /\ recvtask' = [recvtask EXCEPT !.at = "send", !.list = list]
    BY DEF LoginList
  <2>2. recvtask \in [at : {"idle", "enter", "tell", "list", "send"}, fd : Fds \cup {0},
                      room : Rooms \cup {0}, list : [Ids -> Statuses]]
    BY DEF IInv, TypeOK
  <2> HIDE DEF list
  <2>3. recvtask'.at = "send" /\ recvtask'.room = recvtask.room /\ recvtask'.list = list
    BY <2>1, <2>2
  <2> QED BY <2>1, <2>3 DEF list
<1>2. BusyIn(r) /\ ~ EndingIn(r) /\ BusyIn(r)' /\ ~ EndingIn(r)'
  <2>1. BusyIn(r) /\ BusyIn(r)'
    BY <1>1 DEF BusyIn
  <2>2. ~ EndingIn(r)
    BY <2>1 DEF Informed, Lists
  <2> QED BY <1>1, <2>1, <2>2 DEF EndingIn
<1>3. \A id \in Ids : /\ List(map)[id] # "none" => List(map)[id] = StatusIn(r, id)
                      /\ \A fd \in Fds : map[fd].id = id => List(map)[id] = map[fd].st
  <2>1. Sole(map)
    BY DEF Informed
  <2> HIDE DEF map
  <2>2. \A id \in Ids : /\ List(map)[id] # "none" => List(map)[id] = Status(map, id)
                        /\ \A fd \in Fds : map[fd].id = id => List(map)[id] = map[fd].st
    BY <1>t, <2>1, ListRight
  <2> QED BY <2>2, StatusInIs DEF map
<1>4. Sole(m_student_map[r])' /\ Lists(r)'
  <2>1. Right(recvtask.list, r)'
    BY <1>1, <1>3, RolesStay DEF Right
  <2> QED BY <1>1, <1>2, <2>1 DEF Informed, Lists, Sole, roles
<1>5. ASSUME NEW fd \in Audience(r), NEW id \in Ids
      PROVE  told[fd][r][id] \in {"none", StatusIn(r, id)} \/ Due(r, fd, id)'
  <2>1. \/ told[fd][r][id] \in {"none", StatusIn(r, id)}
        \/ fd \in Enrolled(r) /\ \E g \in Fds : map[g].id = id
    BY <1>1, <1>2, <1>5 DEF Informed, News, Due
  <2>2. ASSUME fd \in Enrolled(r), NEW g \in Fds, map[g].id = id PROVE Due(r, fd, id)'
    <3>1. id # 0
      BY IdsAssumption
    <3>2. g \in Enrolled(r)
      BY <2>2, <3>1 DEF Pupils
    <3>3. map[g].st # "none"
      BY <3>2, EnrolledIs
    <3>4. recvtask'.list[id] # "none"
      BY <1>1, <1>3, <2>2, <3>3
    <3>5. fd \in Enrolled(r)'
      BY <1>1, <2>2, RolesStay
    <3> QED BY <1>1, <1>2, <3>4, <3>5 DEF Due
  <2> QED BY <2>1, <2>2
<1>6. News(r)'
  BY <1>1, <1>5, RolesStay DEF News
<1> QED BY <1>4, <1>6 DEF Informed

\* When the list has been sent nobody is still to be told.
LEMMA SendInforms ==
  ASSUME IInv, NEW r \in Rooms, Informed(r), UNCHANGED roles,
         \/ SendList /\ r = recvtask.room
         \/ SendRest /\ r = evloop.room
  PROVE  Informed(r)'
<1>t. told \in [Fds -> [Rooms -> StatusLists]]
  BY Parts DEF IInv
<1>1. ASSUME NEW list, told' = Tell(Students(r), r, list), Right(list, r),
             ~ BusyIn(r)', ~ EndingIn(r)',
             \A fd \in Fds, id \in Ids :
               Due(r, fd, id) => fd \in Enrolled(r) /\ list[id] # "none"
      PROVE  Informed(r)'
  <2>k. told' = Tell(Students(r), r, list)
    BY <1>1
  <2>a. \A fd \in Fds : fd \notin Students(r) => told'[fd] = told[fd]
    BY <1>t, <2>k, TellSays
  <2>b. \A fd \in Students(r) \cap Fds, id \in Ids :
          /\ list[id] = "none" => told'[fd][r][id] = told[fd][r][id]
          /\ list[id] # "none" => told'[fd][r][id] = list[id]
    BY <1>t, <2>k, TellHears
  <2>1. ASSUME NEW fd \in Audience(r), NEW id \in Ids
        PROVE  told'[fd][r][id] \in {"none", StatusIn(r, id)}
    <3>1. fd \in Fds
      BY DEF Audience
    <3>2. \/ told[fd][r][id] \in {"none", StatusIn(r, id)}
          \/ fd \in Students(r) /\ list[id] # "none"
      BY <1>1, <3>1 DEF Informed, News, Enrolled
    <3>3. CASE fd \in Students(r)
      <4>1. told'[fd][r][id] = IF list[id] = "none" THEN told[fd][r][id] ELSE list[id]
        BY <2>b, <3>1, <3>3
      <4>2. list[id] # "none" => list[id] = StatusIn(r, id)
        BY <1>1 DEF Right
      <4> QED BY <3>2, <4>1, <4>2
    <3>4. CASE fd \notin Students(r)
      <4>1. told'[fd] = told[fd]
        BY <2>a, <3>1, <3>4
      <4> QED BY <3>2, <3>4, <4>1
    <3> QED BY <3>3, <3>4
  <2>2. News(r)'
    BY <2>1, RolesStay DEF News
  <2>3. Sole(m_student_map[r])' /\ Lists(r)'
    BY <1>1 DEF Informed, Lists, Sole, roles
  <2> QED BY <2>2, <2>3 DEF Informed
<1>2. CASE SendList /\ r = recvtask.room
  <2>1. /\ recvtask.at = "send" /\ recvtask'.at = "idle" /\ UNCHANGED evloop
        /\ told' = Tell(Students(r), r, recvtask.list)
    BY <1>2 DEF SendList, RecvIdle
  <2>2. BusyIn(r) /\ ~ BusyIn(r)'
    BY <1>2, <2>1 DEF BusyIn
  <2>3. ~ EndingIn(r) /\ Right(recvtask.list, r)
    BY <2>1, <2>2 DEF Informed, Lists
  <2>4. ~ EndingIn(r)'
    BY <2>1, <2>3 DEF EndingIn
  <2>5. \A fd \in Fds, id \in Ids : Due(r, fd, id) => fd \in Enrolled(r) /\ recvtask.list[id] # "none"
    BY <2>1, <2>3 DEF Due
  <2> QED BY <1>1, <2>1, <2>2, <2>3, <2>4, <2>5
<1>3. CASE SendRest /\ r = evloop.room
  <2>1. /\ evloop.at = "send" /\ evloop'.at = "rooms" /\ UNCHANGED recvtask
        /\ told' = Tell(Students(r), r, evloop.list)
    BY <1>3 DEF SendRest, RoomDone, IInv, TypeOK
  <2>2. EndingIn(r) /\ ~ EndingIn(r)'
    BY <1>3, <2>1 DEF EndingIn
  <2>3. ~ BusyIn(r) /\ Right(evloop.list, r)
    BY <2>1, <2>2 DEF Informed, Lists
  <2>4. ~ BusyIn(r)'
    BY <2>1, <2>3 DEF BusyIn
  <2>5. \A fd \in Fds, id \in Ids : Due(r, fd, id) => fd \in Enrolled(r) /\ evloop.list[id] # "none"
    BY <2>1, <2>3 DEF Due
  <2> QED BY <1>1, <2>1, <2>2, <2>3, <2>4, <2>5
<1> QED BY <1>2, <1>3

\* The maps of students before and after a step.
LEMMA MapsTyped ==
  ASSUME IInv, IInv'
  PROVE  /\ m_student_map \in [Rooms -> [Fds -> Entries]]
         /\ m_student_map' \in [Rooms -> [Fds -> Entries]]
         /\ told \in [Fds -> [Rooms -> StatusLists]]
         /\ blurred \in [Rooms -> SUBSET {"race", "twice"}]
<1>1. m_student_map \in [Rooms -> [Fds -> Entries]]
  BY Parts DEF IInv
<1>2. m_student_map' \in [Rooms -> [Fds -> Entries]]
  BY DEF IInv, TypeOK, Entries
<1>3. told \in [Fds -> [Rooms -> StatusLists]]
  BY Parts DEF IInv
<1> QED BY <1>1, <1>2, <1>3 DEF IInv, TypeOK

\* Teacher and whiteboard are told of one student, who may have no id yet.
Hears(r, sid, st) ==
  (sid = 0 /\ told' = told) \/ told' = Tell(Chiefs(r), r, Just(sid, st))
Heard(r, sid, st) ==
  \A fd \in Fds, id \in Ids :
    /\ id # sid => told'[fd][r][id] = told[fd][r][id]
    /\ id = sid /\ fd \in Chiefs(r) => told'[fd][r][id] = st
    /\ fd \notin Chiefs(r) => told'[fd][r][id] = told[fd][r][id]

LEMMA ChiefsHear ==
  ASSUME told \in [Fds -> [Rooms -> StatusLists]], NEW r \in Rooms, NEW sid \in Ids \cup {0},
         NEW st \in Statuses \ {"none"}, Hears(r, sid, st)
  PROVE  Heard(r, sid, st)
<1>1. CASE sid = 0 /\ told' = told
  BY <1>1, IdsAssumption DEF Heard
<1>2. CASE told' = Tell(Chiefs(r), r, Just(sid, st))
  <2> DEFINE list == Just(sid, st)
  <2>1. \A id \in Ids : list[id] = IF id = sid THEN st ELSE "none"
    BY DEF Just, Nothing
  <2>2. told' = Tell(Chiefs(r), r, list)
    BY <1>2
  <2> HIDE DEF list
  <2>3. \A fd \in Chiefs(r) \cap Fds, id \in Ids :
          /\ list[id] = "none" => told'[fd][r][id] = told[fd][r][id]
          /\ list[id] # "none" => told'[fd][r][id] = list[id]
    BY <2>2, TellHears
  <2>4. \A fd \in Fds : fd \notin Chiefs(r) => told'[fd] = told[fd]
    BY <2>2, TellSays
  <2> QED BY <2>1, <2>3, <2>4 DEF Heard
<1> QED BY <1>1, <1>2 DEF Hears

\* A student's new status is the one in the list made after it.
Renews(r, f, st) ==
  /\ Sole(m_student_map'[r])
  /\ \A id \in Ids : id # m_student_map[r][f].id => StatusIn(r, id)' = StatusIn(r, id)
  /\ \A id \in Ids : id = m_student_map[r][f].id =>
       StatusIn(r, id)' = st /\ List(m_student_map'[r])[id] = st
  /\ \A id \in Ids : List(m_student_map'[r])[id] # "none" =>
       List(m_student_map'[r])[id] = StatusIn(r, id)'

LEMMA NewList ==
  ASSUME m_student_map \in [Rooms -> [Fds -> Entries]],
         m_student_map' \in [Rooms -> [Fds -> Entries]],
         NEW r \in Rooms, NEW f \in Fds, NEW st, Sole(m_student_map[r]),
         Put(r, f, [id |-> m_student_map[r][f].id, st |-> st])
  PROVE  Renews(r, f, st)
<1> DEFINE sid == m_student_map[r][f].id
           e == [id |-> sid, st |-> st]
           new == m_student_map'[r]
<1>1. \A g \in Fds \ {f} : e.id \in Ids => m_student_map[r][g].id # e.id
  BY DEF Sole
<1>2. Put(r, f, e) /\ e.id = sid /\ e.st = st
  OBVIOUS
<1>3. /\ Sole(m_student_map'[r])
      /\ \A id \in Ids : id # e.id /\ id # m_student_map[r][f].id
                           => StatusIn(r, id)' = StatusIn(r, id)
      /\ \A id \in Ids : id = e.id => StatusIn(r, id)' = e.st
  <2> HIDE DEF e
  <2>1. Sets(r, f, e)
    BY <1>1, <1>2, PutStatus
  <2> QED BY <2>1 DEF Sets
<1>4. new[f].id = sid /\ new[f].st = st
  BY DEF Put
<1>5. ASSUME NEW id \in Ids
      PROVE  /\ List(new)[id] # "none" => List(new)[id] = Status(new, id)
             /\ id = sid => List(new)[id] = st
  <2>1. new \in [Fds -> Entries] /\ Sole(new)
    BY <1>3
  <2>2. /\ List(new)[id] # "none" => List(new)[id] = Status(new, id)
        /\ \A fd \in Fds : new[fd].id = id => List(new)[id] = new[fd].st
    <3> HIDE DEF new
    <3> QED BY <2>1, ListRight
  <2> QED BY <1>4, <2>2
<1>6. \A id : StatusIn(r, id)' = Status(new, id)
  BY DEF StatusIn, Status
<1> QED BY <1>2, <1>3, <1>5, <1>6 DEF Renews

\* A student leaves early: teacher and whiteboard are told, the others will be.
LEMMA LeaveInforms ==
  ASSUME IInv, IInv', ConfirmLeaveEarly, NEW r \in Rooms, r = RoomOf(m.fd),
         m.fd \in Enrolled(r), Informed(r), blurred'[r] = {}
  PROVE  Informed(r)'
<1> DEFINE map == m_student_map[r]
           sid == map[m.fd].id
           new == [map[m.fd] EXCEPT !.st = "left"]
           entry == [id |-> sid, st |-> "left"]
           list == List(m_student_map'[r])
<1>t. /\ m_student_map \in [Rooms -> [Fds -> Entries]]
      /\ m_student_map' \in [Rooms -> [Fds -> Entries]]
      /\ told \in [Fds -> [Rooms -> StatusLists]]
      /\ blurred \in [Rooms -> SUBSET {"race", "twice"}]
  BY MapsTyped
<1>0. r # 0 /\ m.fd \in Fds
  BY RoomsAssumption, EnrolledIs
<1>1. /\ m_student_map' = [m_student_map EXCEPT ![r][m.fd] = new]
      /\ told' = (IF sid = 0 THEN told ELSE Tell(Chiefs(r), r, Just(sid, "left")))
      /\ recvtask.at = "idle" /\ recvtask' = [at |-> "send", fd |-> m.fd, room |-> r, list |-> list]
      /\ blurred' = Meet(evloop, r)
      /\ UNCHANGED <<evloop, m_teacher_fd, m_white_fd>>
  BY <1>0 DEF ConfirmLeaveEarly, Handle
<1>2. ~ EndingIn(r) /\ ~ BusyIn(r)
  BY <1>1, <1>t DEF Meet, EndingIn, BusyIn
<1>3. Put(r, m.fd, entry)
  <2>1. Put(r, m.fd, new)
    <3> HIDE DEF new
    <3> QED BY <1>t, <1>0, <1>1, PutOne
  <2>2. map[m.fd] \in Entries
    BY <1>t, <1>0
  <2>3. new = entry
    BY <2>2, NewStatus
  <2> HIDE DEF new, entry
  <2> QED BY <2>1, <2>3
<1>4. Sole(map)
  BY DEF Informed
<1>5. /\ Sole(m_student_map'[r])
      /\ \A id \in Ids : id # sid => StatusIn(r, id)' = StatusIn(r, id)
      /\ \A id \in Ids : id = sid => StatusIn(r, id)' = "left" /\ list[id] = "left"
      /\ \A id \in Ids : list[id] # "none" => list[id] = StatusIn(r, id)'
  <2>1. Renews(r, m.fd, "left")
    BY <1>t, <1>0, <1>3, <1>4, NewList
  <2> QED BY <2>1 DEF Renews
<1>6. \A fd \in Fds, id \in Ids :
        /\ id # sid => told'[fd][r][id] = told[fd][r][id]
        /\ id = sid /\ fd \in Chiefs(r) => told'[fd][r][id] = "left"
  <2>1. sid \in Ids \cup {0}
    BY <1>t, <1>0 DEF Entries
  <2>2. told \in [Fds -> [Rooms -> StatusLists]]
    BY <1>t
  <2>3. Hears(r, sid, "left") /\ "left" \in Statuses \ {"none"}
    BY <1>1 DEF Hears, Statuses
  <2>4. Heard(r, sid, "left")
    <3> HIDE DEF sid
    <3> QED BY <2>1, <2>2, <2>3, ChiefsHear
  <2> QED BY <2>4 DEF Heard
<1>7. BusyIn(r)' /\ ~ EndingIn(r)' /\ recvtask'.at = "send" /\ recvtask'.list = list
  BY <1>1, <1>2 DEF BusyIn, EndingIn
<1>8. Audience(r)' = Audience(r) /\ Enrolled(r)' = Enrolled(r)
  <2>1. entry.st \notin {"none", "null"}
    OBVIOUS
  <2> HIDE DEF entry
  <2> QED BY <1>1, <1>3, <2>1, SameAudience
<1> HIDE DEF list, sid
<1>9. Lists(r)'
  <2>1. Right(recvtask.list, r)'
    BY <1>5, <1>7 DEF Right
  <2> QED BY <1>7, <2>1 DEF Lists
<1>10. ASSUME NEW fd \in Audience(r), NEW id \in Ids
       PROVE  told'[fd][r][id] \in {"none", StatusIn(r, id)'} \/ Due(r, fd, id)'
  <2>1. told[fd][r][id] \in {"none", StatusIn(r, id)} /\ fd \in Fds
    BY <1>2, AllKnow DEF Audience
  <2>2. CASE id # sid
    BY <1>5, <1>6, <2>1, <2>2
  <2>3. CASE id = sid /\ fd \in Chiefs(r)
    BY <1>5, <1>6, <2>1, <2>3
  <2>4. CASE id = sid /\ fd \notin Chiefs(r)
    <3>1. fd \in Enrolled(r)'
      BY <1>8, <2>4 DEF Audience
    <3>2. recvtask'.list[id] # "none"
      BY <1>5, <1>7, <2>4
    <3> QED BY <1>7, <3>1, <3>2 DEF Due
  <2> QED BY <2>2, <2>3, <2>4
<1>11. News(r)'
  BY <1>8, <1>10 DEF News
<1> QED BY <1>5, <1>9, <1>11 DEF Informed

\* A student's connection ends: its status is in the list, and it is still to be
\* taken off the map.
LEMMA GoneInforms ==
  ASSUME IInv, IInv', DelStudent, NEW r \in Rooms, r = NextRoom, Informed(r), blurred'[r] = {}
  PROVE  Informed(r)'
<1> DEFINE fd == evloop.fd
           map == m_student_map[r]
           sid == map[fd].id
           new == [map[fd] EXCEPT !.st = "off"]
           entry == [id |-> sid, st |-> "off"]
           list == List(m_student_map'[r])
           here == fd \in Enrolled(r)
<1>t. /\ m_student_map \in [Rooms -> [Fds -> Entries]]
      /\ m_student_map' \in [Rooms -> [Fds -> Entries]]
      /\ blurred \in [Rooms -> SUBSET {"race", "twice"}]
  BY MapsTyped
<1>1. /\ m_student_map' = IF here THEN [m_student_map EXCEPT ![r][fd] = new] ELSE m_student_map
      /\ evloop.at = "rooms" /\ blurred' = Meet(recvtask, r)
      /\ UNCHANGED <<told, recvtask, m_teacher_fd, m_white_fd>>
  BY DEF DelStudent, AtRoom
<1>2. /\ evloop'.at = (IF here THEN "erase" ELSE "send") /\ evloop'.room = r
      /\ evloop'.list = list /\ evloop'.fd = fd
  <2> DEFINE at == IF here THEN "erase" ELSE "send"
  <2>1. evloop' = [evloop EXCEPT !.at = at, !.room = r, !.list = list]
    BY DEF DelStudent
  <2>2. evloop \in [at : {"idle", "rooms", "erase", "send"}, fd : Fds \cup {0},
                    room : Rooms \cup {0}, list : [Ids -> Statuses], todo : SUBSET Rooms]
    BY DEF IInv, TypeOK
  <2> HIDE DEF at, list
  <2>3. evloop'.at = at /\ evloop'.room = r /\ evloop'.list = list /\ evloop'.fd = evloop.fd
    BY <2>1, <2>2
  <2> QED BY <2>3 DEF at
<1>3. ~ BusyIn(r) /\ ~ EndingIn(r) /\ ~ BusyIn(r)' /\ EndingIn(r)'
  <2>1. ~ BusyIn(r) /\ ~ EndingIn(r)
    BY <1>1, <1>t DEF Meet, EndingIn, BusyIn
  <2> QED BY <1>1, <1>2, <2>1 DEF BusyIn, EndingIn
<1>4. Sole(map)
  BY DEF Informed
<1>5. ASSUME NEW g \in Audience(r), NEW id \in Ids PROVE told[g][r][id] \in {"none", StatusIn(r, id)}
  BY <1>3, AllKnow
<1>6. CASE here
  <2>1. fd \in Fds /\ Put(r, fd, entry)
    <3>1. fd \in Fds
      BY <1>6, EnrolledIs
    <3>2. m_student_map' = [m_student_map EXCEPT ![r][fd] = new]
      BY <1>1, <1>6
    <3>3. Put(r, fd, new)
      <4> HIDE DEF new
      <4> QED BY <1>t, <3>1, <3>2, PutOne
    <3>4. map[fd] \in Entries
      BY <1>t, <3>1
    <3>5. new = entry
      BY <3>4, NewStatus
    <3> HIDE DEF new, entry
    <3> QED BY <3>1, <3>3, <3>5
  <2>2. /\ Sole(m_student_map'[r])
        /\ \A id \in Ids : id # sid => StatusIn(r, id)' = StatusIn(r, id)
        /\ \A id \in Ids : id = sid => StatusIn(r, id)' = "off" /\ list[id] = "off"
        /\ \A id \in Ids : list[id] # "none" => list[id] = StatusIn(r, id)'
    <3>1. Renews(r, fd, "off")
      BY <1>t, <1>4, <2>1, NewList
    <3> QED BY <3>1 DEF Renews
  <2>3. Audience(r)' = Audience(r) /\ Enrolled(r)' = Enrolled(r)
    <3>1. entry.st \notin {"none", "null"}
      OBVIOUS
    <3> HIDE DEF entry
    <3> QED BY <1>1, <1>6, <2>1, <3>1, SameAudience
  <2>4. m_student_map'[r][fd].st = "off" /\ m_student_map'[r][fd].id = sid
    BY <2>1 DEF Put
  <2> HIDE DEF list, sid
  <2>5. Right(evloop.list, r)'
    BY <1>2, <2>2 DEF Right
  <2>6. Lists(r)'
    BY <1>2, <1>3, <1>6, <2>2, <2>3, <2>4, <2>5 DEF Lists
  <2>7. News(r)'
    <3>1. ASSUME NEW g \in Audience(r), NEW id \in Ids, id # sid
          PROVE  told'[g][r][id] \in {"none", StatusIn(r, id)'}
      BY <1>1, <1>5, <2>2, <3>1
    <3>2. ASSUME NEW g \in Audience(r), NEW id \in Ids, id = sid PROVE Due(r, g, id)'
      BY <1>2, <1>3, <1>6, <2>4, <3>2 DEF Due
    <3> QED BY <2>3, <3>1, <3>2 DEF News
  <2> QED BY <2>2, <2>6, <2>7 DEF Informed
<1>7. CASE ~ here
  <2>1. UNCHANGED m_student_map
    BY <1>1, <1>7
  <2>2. /\ Audience(r)' = Audience(r)
        /\ \A id : StatusIn(r, id)' = StatusIn(r, id)
    BY <1>1, <2>1 DEF Audience, Enrolled, Students, Nulls, Chiefs, StatusIn
  <2>3. \A id \in Ids : list[id] # "none" => list[id] = StatusIn(r, id)
    <3>1. map \in [Fds -> Entries] /\ list = List(map)
      BY <1>t, <2>1
    <3> HIDE DEF map, list
    <3>2. \A id \in Ids : list[id] # "none" => list[id] = Status(map, id)
      BY <1>4, <3>1, ListRight
    <3> QED BY <3>2, StatusInIs DEF map
  <2> HIDE DEF list
  <2>4. Right(evloop.list, r)'
    BY <1>2, <2>2, <2>3 DEF Right
  <2>5. Lists(r)'
    BY <1>2, <1>3, <1>7, <2>4 DEF Lists
  <2>6. News(r)'
    BY <1>1, <1>5, <2>2 DEF News
  <2>7. Sole(m_student_map[r])'
    BY <1>4, <2>1
  <2> QED BY <2>5, <2>6, <2>7 DEF Informed
<1> QED BY <1>6, <1>7

\* A student's entry is taken away.
Clears(r, f) ==
  /\ Sole(m_student_map'[r])
  /\ \A id \in Ids : id # m_student_map[r][f].id => StatusIn(r, id)' = StatusIn(r, id)
  /\ \A id \in Ids : id = m_student_map[r][f].id => StatusIn(r, id)' = "off"

LEMMA PutNobody ==
  ASSUME m_student_map \in [Rooms -> [Fds -> Entries]],
         m_student_map' \in [Rooms -> [Fds -> Entries]],
         NEW r \in Rooms, NEW f \in Fds, Put(r, f, Absent), Sole(m_student_map[r])
  PROVE  Clears(r, f)
<1> DEFINE e == Absent
<1>1. Put(r, f, e) /\ e.id \notin Ids
  BY IdsAssumption DEF Absent
<1> HIDE DEF e
<1>2. \A g \in Fds \ {f} : e.id \in Ids => m_student_map[r][g].id # e.id
  BY <1>1
<1>3. Sets(r, f, e)
  BY <1>1, <1>2, PutStatus
<1> QED BY <1>1, <1>3 DEF Clears, Sets

\* The student is taken off the map: teacher and whiteboard have been told, and
\* the list tells the others.
LEMMA EraseInforms ==
  ASSUME IInv, IInv', Pupils, Masters, Erase, NEW r \in Rooms, r = evloop.room, Informed(r)
  PROVE  Informed(r)'
<1> DEFINE fd == evloop.fd
           map == m_student_map[r]
           sid == map[fd].id
<1>t. /\ m_student_map \in [Rooms -> [Fds -> Entries]]
      /\ m_student_map' \in [Rooms -> [Fds -> Entries]]
      /\ told \in [Fds -> [Rooms -> StatusLists]]
  BY MapsTyped
<1>1. /\ evloop.at = "erase" /\ evloop'.at = "send" /\ evloop'.room = r /\ evloop'.fd = fd
      /\ evloop'.list = evloop.list
      /\ told' = (IF sid = 0 THEN told ELSE Tell(Chiefs(r), r, Just(sid, map[fd].st)))
      /\ m_student_map' = [m_student_map EXCEPT ![r][fd] = Absent]
      /\ UNCHANGED <<recvtask, m_teacher_fd, m_white_fd>>
  BY DEF Erase, IInv, TypeOK
<1>2. EndingIn(r) /\ EndingIn(r)' /\ ~ BusyIn(r) /\ ~ BusyIn(r)'
  <2>1. EndingIn(r) /\ EndingIn(r)'
    BY <1>1 DEF EndingIn
  <2>2. ~ BusyIn(r)
    BY <2>1 DEF Informed, Lists
  <2> QED BY <1>1, <2>1, <2>2 DEF BusyIn
<1>3. /\ fd \in Enrolled(r) /\ map[fd].st = "off" /\ fd \in Fds
      /\ \A id \in Ids : sid = id => evloop.list[id] # "none"
      /\ \A id \in Ids : evloop.list[id] # "none" => evloop.list[id] = StatusIn(r, id)
  <2>1. /\ fd \in Enrolled(r) /\ map[fd].st = "off"
        /\ \A id \in Ids : sid = id => evloop.list[id] # "none"
    BY <1>1, <1>2 DEF Informed, Lists
  <2>2. \A id \in Ids : evloop.list[id] # "none" => evloop.list[id] = StatusIn(r, id)
    BY <1>2 DEF Informed, Lists, Right
  <2> QED BY <2>1, <2>2, EnrolledIs
<1>4. Put(r, fd, Absent)
  BY <1>t, <1>1, <1>3, PutOne
<1>5. Sole(map)
  BY DEF Informed
<1>6. /\ Sole(m_student_map'[r])
      /\ \A id \in Ids : id # sid => StatusIn(r, id)' = StatusIn(r, id)
      /\ \A id \in Ids : id = sid => StatusIn(r, id)' = "off"
  <2>1. Clears(r, fd)
    <3>1. fd \in Fds /\ Put(r, fd, Absent) /\ Sole(m_student_map[r])
      BY <1>3, <1>4, <1>5
    <3> HIDE DEF fd
    <3> QED BY <1>t, <3>1, PutNobody
  <2> QED BY <2>1 DEF Clears
<1>7. Heard(r, sid, "off")
  <2>1. sid \in Ids \cup {0}
    BY <1>t, <1>3 DEF Entries
  <2>2. told \in [Fds -> [Rooms -> StatusLists]]
    BY <1>t
  <2>3. Hears(r, sid, "off") /\ "off" \in Statuses \ {"none"}
    BY <1>1, <1>3 DEF Hears, Statuses
  <2> HIDE DEF sid
  <2> QED BY <2>1, <2>2, <2>3, ChiefsHear
<1>8. \A id \in Ids : id = sid => StatusIn(r, id) = "off"
  <2>1. map \in [Fds -> Entries]
    BY <1>t
  <2>2. ASSUME NEW id \in Ids, id = sid PROVE Status(map, id) = "off"
    <3>1. \A f, g \in Fds : map[f].id = id /\ map[g].id = id => f = g
      BY <1>5 DEF Sole
    <3> HIDE DEF map
    <3> QED BY <1>3, <2>1, <2>2, <3>1, StatusOf DEF sid
  <2> QED BY <2>2, StatusInIs
<1>9. ASSUME NEW g \in Audience(r)'
      PROVE  /\ g \in Fds /\ g # fd /\ g \in Audience(r)
             /\ g \in Enrolled(r) => g \in Enrolled(r)'
             /\ g \in Chiefs(r) \/ g \in Enrolled(r)'
  <2>1. g \in Fds /\ (g \in Enrolled(r)' \/ g \in Chiefs(r)) /\ Chiefs(r)' = Chiefs(r)
    BY <1>1 DEF Audience, Chiefs
  <2>2. fd \notin Enrolled(r)' /\ \A h \in Fds : h # fd => (h \in Enrolled(r)' <=> h \in Enrolled(r))
    BY <1>3, <1>4 DEF Put, Absent, Enrolled, Students, Nulls
  <2>3. fd \notin Chiefs(r)
    <3>1. client[fd].kind = "student"
      BY <1>3 DEF Pupils
    <3> QED BY <1>3, <3>1 DEF Masters, Chiefs
  <2> QED BY <2>1, <2>2, <2>3 DEF Audience
<1> HIDE DEF sid
<1>10. Lists(r)'
  <2>1. Right(evloop.list, r)'
    BY <1>1, <1>3, <1>6, <1>8 DEF Right
  <2> QED BY <1>1, <1>2, <2>1 DEF Lists
<1>11. News(r)'
  <2>1. ASSUME NEW g \in Audience(r)', NEW id \in Ids, id # sid
        PROVE  told'[g][r][id] \in {"none", StatusIn(r, id)'} \/ Due(r, g, id)'
    <3>1. \/ told[g][r][id] \in {"none", StatusIn(r, id)}
          \/ g \in Enrolled(r) /\ evloop.list[id] # "none"
      BY <1>2, <1>9, <2>1 DEF Informed, News, Due, sid
    <3>2. told'[g][r][id] = told[g][r][id]
      BY <1>7, <1>9, <2>1 DEF Heard
    <3>3. CASE g \in Enrolled(r) /\ evloop.list[id] # "none"
      BY <1>1, <1>2, <1>9, <3>3 DEF Due
    <3> QED BY <1>6, <2>1, <3>1, <3>2, <3>3
  <2>2. ASSUME NEW g \in Audience(r)', NEW id \in Ids, id = sid
        PROVE  told'[g][r][id] \in {"none", StatusIn(r, id)'} \/ Due(r, g, id)'
    <3>1. CASE g \in Chiefs(r)
      <4>1. told'[g][r][id] = "off"
        BY <1>7, <1>9, <2>2, <3>1 DEF Heard
      <4>2. StatusIn(r, id)' = "off"
        BY <1>6, <2>2
      <4> QED BY <4>1, <4>2
    <3>2. CASE g \in Enrolled(r)'
      BY <1>1, <1>2, <1>3, <2>2, <3>2 DEF Due, sid
    <3> QED BY <1>9, <3>1, <3>2
  <2> QED BY <2>1, <2>2 DEF News
<1> QED BY <1>6, <1>10, <1>11 DEF Informed
(***************************************************************************)
(* What students who come to a room have been told                         *)
(***************************************************************************)

\* Only a student whose connection has ended is taken off the map.
LEMMA StudentsStay ==
  ASSUME IInv, Next, NEW r \in Rooms, NEW fd \in Students(r)
  PROVE  fd \in Students(r)' \/ (Erase /\ fd = evloop.fd)
<1>0. fd \in Fds /\ m_student_map[r][fd].st # "none"
  BY DEF Students
<1>1. ASSUME NEW q, NEW f, NEW e, Put(q, f, e), e.st # "none" PROVE fd \in Students(r)'
  BY <1>0, <1>1 DEF Put, Students
<1>2. ASSUME \A q \in Rooms, f \in Fds :
                 \/ m_student_map'[q][f] = m_student_map[q][f]
                 \/ m_student_map'[q][f] = NullStudent /\ m_student_map[q][f].st = "none"
      PROVE  fd \in Students(r)'
  BY <1>0, <1>2 DEF Students, NullStudent
<1>3. ASSUME Put(evloop.room, evloop.fd, Absent), fd # evloop.fd PROVE fd \in Students(r)'
  BY <1>0, <1>3 DEF Put, Students
<1>4. ASSUME UNCHANGED m_student_map PROVE fd \in Students(r)'
  BY <1>0, <1>4 DEF Students
<1> QED BY <1>1, <1>2, <1>3, <1>4, MapStep

\* What the threads tell: a list to the students of a room, or to its teacher and
\* whiteboard, or nothing yet to one who takes a role.
LEMMA TellStep ==
  ASSUME IInv, HandlerStep \/ CloseStep
  PROVE  \/ told' = told
         \/ \E g \in Fds, q \in Rooms : told' = [told EXCEPT ![g][q] = Nothing]
         \/ \E q \in Rooms : \E list : told' = Tell(Chiefs(q), q, list)
         \/ \E q \in Rooms : \E list : told' = Tell(Students(q), q, list)
<1> DEFINE Reset == \E g \in Fds, q \in Rooms : told' = [told EXCEPT ![g][q] = Nothing]
           ToChiefs == \E q \in Rooms : \E list : told' = Tell(Chiefs(q), q, list)
           ToStudents == \E q \in Rooms : \E list : told' = Tell(Students(q), q, list)
<1>t. /\ recvtask.at # "idle" => recvtask.room \in Rooms
      /\ evloop.at \in {"erase", "send"} => evloop.room \in Rooms
  <2>1. AtWork
    BY DEF IInv
  <2> QED BY <2>1, Zenon DEF AtWork
<1>1. ASSUME \/ SelectStudent \/ EnterDone \/ Leave \/ LoginStudent \/ LoginList
             \/ PuzzleStart \/ PuzzleEndAll \/ PuzzleEndOne \/ ControlChangeScene
             \/ (\E fd \in Fds : Close(fd)) \/ DelTeacher \/ DelWhite \/ DelStudent \/ CloseDone
      PROVE  told' = told
  BY <1>1 DEF SelectStudent, EnterDone, Leave, LoginStudent, LoginList, PuzzleStart,
              PuzzleEndAll, PuzzleEndOne, ControlChangeScene, Close, DelTeacher, DelWhite,
              DelStudent, CloseDone
<1>2. ASSUME SelectWhite PROVE Reset
  BY <1>2, Front DEF SelectWhite, IInv
<1>3. ASSUME Enter PROVE told' = told \/ Reset
  BY <1>3, Front DEF Enter, IInv
<1>4. ASSUME LoginTell PROVE ToChiefs
  BY <1>4, <1>t DEF LoginTell
<1>5. ASSUME SendList \/ SendRest PROVE ToStudents
  BY <1>5, <1>t DEF SendList, SendRest
<1>6. ASSUME ConfirmLeaveEarly PROVE told' = told \/ ToChiefs
  BY <1>6, RoomOfIs DEF ConfirmLeaveEarly
<1>7. ASSUME Erase PROVE told' = told \/ ToChiefs
  BY <1>7, <1>t DEF Erase
<1> HIDE DEF Reset, ToChiefs, ToStudents
<1>8. told' = told \/ Reset \/ ToChiefs \/ ToStudents
  BY <1>1, <1>2, <1>3, <1>4, <1>5, <1>6, <1>7 DEF HandlerStep, ClassStep, CloseStep
<1> QED BY <1>8 DEF Reset, ToChiefs, ToStudents

LEMMA UntoldKept ==
  ASSUME IInv, Ending, Masters, Untold, Next
  PROVE  Untold'
<1>t. /\ told \in [Fds -> [Rooms -> StatusLists]] /\ conn \in [Fds -> {"closed", "open", "dead"}]
      /\ client \in [Fds -> [kind : {"none", "student", "white", "teacher"},
                         id : Ids \cup {0}, room : Rooms \cup {0}, in : BOOLEAN]]
  BY Parts DEF IInv, TypeOK
<1> SUFFICES ASSUME NEW fd \in Fds, NEW r \in Rooms,
                    conn'[fd] # "closed", client'[fd].kind = "student", fd \notin Students(r)'
             PROVE  told'[fd][r] = Nothing
  BY DEF Untold
<1>1. CASE Accept
  <2>1. PICK g \in scenario.fds :
          /\ conn' = [conn EXCEPT ![g] = "open"]
          /\ client' = [client EXCEPT ![g] = [NoClient EXCEPT !.kind = Head(coming).kind,
                                                            !.id = Head(coming).id]]
          /\ told' = [told EXCEPT ![g] = [q \in Rooms |-> Nothing]]
    BY <1>1 DEF Accept
  <2>2. fd \notin Students(r)
    BY <1>1 DEF Accept, roles, Students
  <2>3. CASE fd = g
    BY <1>t, <2>1, <2>3
  <2>4. CASE fd # g
    BY <1>t, <2>1, <2>2, <2>4 DEF Untold
  <2> QED BY <2>3, <2>4
<1>2. ASSUME NEW g \in Fds, ClientStep(g) PROVE told'[fd][r] = Nothing
  <2>1. /\ UNCHANGED <<roles, told>> /\ client'[fd].kind = client[fd].kind
        /\ conn[g] = "open" /\ (UNCHANGED conn \/ conn' = [conn EXCEPT ![g] = "dead"])
    BY <1>2, ClientFrame
  <2>2. conn[fd] # "closed" /\ fd \notin Students(r)
    BY <1>t, <2>1 DEF roles, Students
  <2> QED BY <2>1, <2>2 DEF Untold
<1>3. CASE HandlerStep \/ CloseStep
  <2>1. UNCHANGED client /\ conn[fd] # "closed"
    <3>1. ASSUME NEW g \in Fds, Close(g) PROVE conn[fd] # "closed"
      BY <1>t, <3>1 DEF Close
    <3> QED BY <1>3, <3>1, HandlerFrame, CloseFrame
  <2>2. fd \notin Students(r)
    <3>1. ASSUME Erase PROVE conn[evloop.fd] = "closed"
      BY <3>1 DEF Erase, Ending
    <3> QED BY <2>1, <3>1, StudentsStay
  <2>3. told[fd][r] = Nothing /\ client[fd].kind = "student"
    BY <2>1, <2>2 DEF Untold
  <2>4. ASSUME NEW g \in Fds, NEW q \in Rooms, told' = [told EXCEPT ![g][q] = Nothing]
        PROVE  told'[fd][r] = Nothing
    BY <1>t, <2>3, <2>4
  <2>5. ASSUME NEW fds, NEW q \in Rooms, NEW list, told' = Tell(fds, q, list),
               q = r => fd \notin fds
        PROVE  told'[fd][r] = Nothing
    <3>1. /\ \A f \in Fds, p \in Rooms : p # q => told'[f][p] = told[f][p]
          /\ \A f \in Fds : f \notin fds => told'[f] = told[f]
      <4>1. told \in [Fds -> [Rooms -> StatusLists]]
        BY <1>t
      <4>2. told' = Tell(fds, q, list)
        BY <2>5
      <4> QED BY <4>1, <4>2, TellSays
    <3> QED BY <2>3, <2>5, <3>1
  <2>6. fd \notin Chiefs(r)
    BY <2>3 DEF Masters, Chiefs
  <2> QED BY <1>3, <2>2, <2>3, <2>4, <2>5, <2>6, TellStep
<1> QED BY <1>1, <1>2, <1>3 DEF Next

\* What has happened in a room is not forgotten.
LEMMA BlurredGrows ==
  ASSUME IInv, Next, NEW r \in Rooms, blurred'[r] = {}
  PROVE  blurred[r] = {}
<1>t. blurred \in [Rooms -> SUBSET {"race", "twice"}]
  BY DEF IInv, TypeOK
<1>1. ASSUME NEW thread, NEW q, blurred' = Meet(thread, q) PROVE blurred[r] = {}
  BY <1>t, <1>1 DEF Meet
<1>2. ASSUME LoginStudent PROVE blurred[r] = {}
  <2> DEFINE q == RoomOf(m.fd)
             more == IF \E fd \in Fds \ {m.fd} : m_student_map[q][fd].id = m.arg
                       THEN {"twice"} ELSE {}
             met == Meet(evloop, q)
  <2>1. blurred' = blurred \/ blurred' = [met EXCEPT ![q] = @ \cup more]
    BY <1>2 DEF LoginStudent
  <2>2. met \in [Rooms -> SUBSET {"race", "twice"}] /\ (met[r] = {} => blurred[r] = {})
    BY <1>t DEF Meet
  <2> HIDE DEF met, more, q
  <2> QED BY <2>1, <2>2
<1>3. ASSUME \/ DelTeacher \/ DelWhite \/ DelStudent \/ ConfirmLeaveEarly PROVE blurred[r] = {}
  BY <1>1, <1>3 DEF DelTeacher, DelWhite, DelStudent, ConfirmLeaveEarly
<1>4. ASSUME \/ Accept \/ SelectStudent \/ SelectWhite \/ Enter \/ EnterDone \/ Leave
             \/ LoginTell \/ LoginList \/ SendList
             \/ PuzzleStart \/ PuzzleEndAll \/ PuzzleEndOne \/ ControlChangeScene
             \/ (\E fd \in Fds : Close(fd)) \/ Erase \/ SendRest \/ CloseDone
      PROVE  blurred[r] = {}
  BY <1>4 DEF Accept, SelectStudent, SelectWhite, Enter, EnterDone, Leave, LoginTell, LoginList,
              SendList, PuzzleStart, PuzzleEndAll, PuzzleEndOne, ControlChangeScene, Close,
              Erase, SendRest, CloseDone
<1>5. ASSUME NEW fd \in Fds, ClientStep(fd) PROVE blurred[r] = {}
  BY <1>5, ClientFrame
<1> QED BY <1>2, <1>3, <1>4, <1>5 DEF Next, HandlerStep, ClassStep, CloseStep
(***************************************************************************)
(* Everybody who is in touch knows                                         *)
(***************************************************************************)

\* One room, a step of a thread that has a list for it or makes one.
LEMMA InformedByLists ==
  ASSUME IInv, IInv', Waiting, Pupils, Masters, NEW r \in Rooms, Informed(r), blurred'[r] = {},
         \/ LoginStudent \/ LoginTell \/ LoginList \/ SendList \/ ConfirmLeaveEarly
         \/ DelStudent \/ Erase \/ SendRest
  PROVE  Informed(r)'
<1>0. ASSUME Quiet(r) PROVE Informed(r)'
  BY <1>0, QuietKeeps
<1>1. ASSUME LoginStudent PROVE Informed(r)'
  <2>1. CASE r = RoomOf(m.fd) /\ m.fd \in Enrolled(r)
    BY <1>1, <2>1, LoginInforms
  <2>2. CASE RoomOf(m.fd) # r \/ m.fd \notin Enrolled(r)
    BY <1>0, <1>1, <2>2, QuietElsewhere
  <2> QED BY <2>1, <2>2
<1>2. ASSUME ConfirmLeaveEarly PROVE Informed(r)'
  <2>1. CASE r = RoomOf(m.fd) /\ m.fd \in Enrolled(r)
    BY <1>2, <2>1, LeaveInforms
  <2>2. CASE RoomOf(m.fd) # r \/ m.fd \notin Enrolled(r)
    BY <1>0, <1>2, <2>2, QuietElsewhere
  <2> QED BY <2>1, <2>2
<1>3. ASSUME LoginTell \/ LoginList \/ SendList PROVE Informed(r)'
  <2>1. CASE recvtask.room # r
    BY <1>0, <1>3, <2>1, QuietElsewhere
  <2>2. ASSUME SendList, recvtask.room = r PROVE Informed(r)'
    <3>1. UNCHANGED roles
      BY <2>2 DEF SendList
    <3> QED BY <2>2, <3>1, SendInforms
  <2> QED BY <1>3, <2>1, <2>2, TellInforms, ListInforms
<1>4. ASSUME DelStudent PROVE Informed(r)'
  <2>1. CASE NextRoom = r
    BY <1>4, <2>1, GoneInforms
  <2>2. CASE NextRoom # r
    BY <1>0, <1>4, <2>2, QuietElsewhere
  <2> QED BY <2>1, <2>2
<1>5. ASSUME Erase \/ SendRest PROVE Informed(r)'
  <2>1. CASE evloop.room # r
    BY <1>0, <1>5, <2>1, QuietElsewhere
  <2>2. ASSUME SendRest, evloop.room = r PROVE Informed(r)'
    <3>1. UNCHANGED roles
      BY <2>2 DEF SendRest
    <3> QED BY <2>2, <3>1, SendInforms
  <2> QED BY <1>5, <2>1, <2>2, EraseInforms
<1> QED BY <1>1, <1>2, <1>3, <1>4, <1>5

LEMMA InTouchKept ==
  ASSUME IInv, IInv', Gone, InTouch, Next
  PROVE  InTouch'
<1> SUFFICES ASSUME late' = {}
             PROVE  Untold' /\ \A r \in Rooms : blurred'[r] = {} => Informed(r)'
  BY DEF InTouch
<1>1. Waiting /\ Ending /\ Pupils /\ Masters /\ Untold
      /\ \A r \in Rooms : blurred[r] = {} => Informed(r)
  BY LateGrows DEF Gone, InTouch
<1>2. ASSUME NEW r \in Rooms, blurred'[r] = {} PROVE Informed(r)'
  <2>1. Informed(r)
    BY <1>1, <1>2, BlurredGrows
  <2>2. ASSUME \/ Accept \/ (\E fd \in Fds : ClientStep(fd))
               \/ SelectStudent \/ SelectWhite \/ Enter \/ EnterDone \/ Leave
               \/ PuzzleStart \/ PuzzleEndAll \/ PuzzleEndOne \/ ControlChangeScene
               \/ (\E fd \in Fds : Close(fd)) \/ DelTeacher \/ DelWhite \/ CloseDone
        PROVE  Informed(r)'
    <3>1. Quiet(r)
      BY <1>1, <2>2, QuietStep
    <3> QED BY <2>1, <3>1, QuietKeeps
  <2>3. ASSUME \/ LoginStudent \/ LoginTell \/ LoginList \/ SendList \/ ConfirmLeaveEarly
               \/ DelStudent \/ Erase \/ SendRest
        PROVE  Informed(r)'
    BY <1>1, <1>2, <2>1, <2>3, InformedByLists
  <2> QED BY <2>2, <2>3 DEF Next, HandlerStep, ClassStep, CloseStep
<1> QED BY <1>1, <1>2, UntoldKept

\* What a client was last told of a student is how the student's status is, once
\* the threads are through: in every room where they never met and no student
\* was twice, while no message was handled too late, for any rooms, connections
\* and students.
THEOREM Knowing == Spec => []ToldIsTrue
<1>1. Init => InTouch
  <2> SUFFICES ASSUME Init PROVE InTouch
    OBVIOUS
  <2>1. /\ told = [fd \in Fds |-> [r \in Rooms |-> Nothing]]
        /\ m_student_map = [r \in Rooms |-> [fd \in Fds |-> Absent]]
        /\ recvtask.at = "idle" /\ evloop.at = "idle"
    BY DEF Init, RecvIdle, EvIdle
  <2>2. Untold
    BY <2>1 DEF Untold
  <2>3. ASSUME NEW r \in Rooms PROVE Informed(r)
    <3>1. \A fd \in Fds : m_student_map[r][fd].id = 0
      BY <2>1 DEF Absent
    <3>2. Sole(m_student_map[r])
      BY <3>1, IdsAssumption DEF Sole
    <3>3. Lists(r)
      BY <2>1 DEF Lists, BusyIn, EndingIn
    <3>4. News(r)
      BY <2>1 DEF News, Nothing, Audience
    <3> QED BY <3>2, <3>3, <3>4 DEF Informed
  <2> QED BY <2>2, <2>3 DEF InTouch
<1>2. IInv /\ IInv' /\ Gone /\ InTouch /\ [Next]_vars => InTouch'
  <2> SUFFICES ASSUME IInv, IInv', Gone, InTouch, [Next]_vars PROVE InTouch'
    OBVIOUS
  <2>1. ASSUME UNCHANGED vars PROVE InTouch'
    BY <2>1 DEF vars, net, roles, InTouch, Untold, Informed, Lists, News, Right, Due, BusyIn,
                EndingIn, StatusIn, Audience, Enrolled, Students, Nulls, Chiefs
  <2> QED BY <2>1, InTouchKept
<1>3. InTouch => ToldIsTrue
  <2> SUFFICES ASSUME InTouch, AtRest, late = {}, NEW r \in Rooms, NEW id \in Ids,
                      blurred[r] = {}, NEW fd \in Audience(r)
               PROVE  told[fd][r][id] \in {"none", StatusIn(r, id)}
    BY DEF ToldIsTrue
  <2>1. Informed(r) /\ ~ BusyIn(r) /\ ~ EndingIn(r)
    BY DEF InTouch, AtRest, BusyIn, EndingIn
  <2> QED BY <2>1, AllKnow
<1> QED
  BY InitTyped, NextTyped, InitGone, NextGone, <1>1, <1>2, <1>3, PTL DEF Spec

=============================================================================
