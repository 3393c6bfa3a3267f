-------------------------------- MODULE Room ---------------------------------
(***************************************************************************)
(* The classrooms (content/room.cpp, content/roommanager.cpp): who teaches *)
(* in a room, which whiteboard and which students are in it, and what each *)
(* client has been told of the students' status.                           *)
(*                                                                         *)
(* Two threads work on the rooms without a lock.  RecvTask runs the        *)
(* handlers of the clients' messages, in order, some of them after the     *)
(* connection they came from is closed.  Evloop runs                       *)
(* CRoomManager::del_client for a connection that has ended.  An action is *)
(* one stretch of a handler; the loops that send one message to each       *)
(* client of a room are one stretch, since every client sees only its own. *)
(* The buffers are module Pipeline's subject; here a message is known to   *)
(* its receiver as soon as it is enqueued for it.                          *)
(***************************************************************************)
EXTENDS Integers, Sequences, FiniteSets

CONSTANTS
  Rooms,     \* room ids, in the order of m_room_map, none of them 0
  Fds,       \* descriptors for clients
  Ids,       \* student ids, none of them 0
  Scenarios, \* bound: what happens in a behaviour, see Scenario
  MaxQueue   \* bound: messages waiting for RecvTask when another comes in

ASSUME RoomsAssumption == Rooms \subseteq Nat \ {0}
ASSUME FdsAssumption == Fds \subseteq Nat \ {0} /\ IsFiniteSet(Fds)
ASSUME IdsAssumption == Ids \subseteq Nat \ {0}

Clients == [kind : {"teacher", "student", "white"}, id : Ids \cup {0}]

\* The messages RecvTask has handlers for here; those from gameStart on are
\* module House's.
Ops == {"selectStudent", "selectWhite", "login", "confirmLeaveEarly",
        "loginClassRoom", "controlChangeScene", "logoutClassRoom",
        "puzzleStart", "puzzleEnd",
        "gameStart", "addPic", "movePic", "scalePic", "anglePic", "delPic",
        "changeLayer", "update", "houseInfo"}

\* Who connects, in order, to which rooms they go, the descriptors there are,
\* what the clients say and how many messages they send.
Scenario == [cast : Seq(Clients), rooms : SUBSET Rooms, fds : SUBSET Fds,
             talk : SUBSET Ops, msgs : Nat]

ASSUME BoundsAssumption == Scenarios \subseteq Scenario /\ MaxQueue \in Nat

VARIABLES
  up,          \* FALSE once the process has crashed
  conn,        \* per fd: "closed", "open", or "dead" (the peer is gone, Evloop
               \* does not know yet)
  client,      \* the client on each fd: what it is, its id if it is a student,
               \* the room it chose and whether it has logged in
  scenario,    \* the scenario of this behaviour
  coming,      \* the clients that have yet to connect
  sent,        \* messages sent so far
  recvqueue,   \* messages for RecvTask
  recvtask, evloop,   \* what the two threads are doing
  m_teacher_fd, m_white_fd, m_isUsed, m_current_scene,   \* per room
  m_student_map,   \* per room and fd
  m_puzzle_map,    \* per room and fd: the clock of a student in the puzzle game
  told,        \* per fd and room: the status of each student as last told
  late,        \* history: fds closed while a message of theirs was to be handled
  blurred,     \* history, per room: whether the two threads met there, and
               \* whether a student was in it twice
  upsets       \* history: what has happened that may bring the process down

roles == <<m_teacher_fd, m_white_fd, m_isUsed, m_current_scene, m_student_map>>
games == <<m_puzzle_map, upsets>>
net == <<conn, client, scenario, coming, sent>>
vars == <<up, net, recvqueue, recvtask, evloop, roles, games, told, late, blurred>>

\* A student in a room: id 0 until it has logged in; "none" is not in the map,
\* and "null" is in the map with no student behind it.
Statuses == {"none", "off", "on", "left", "null"}
Absent == [id |-> 0, st |-> "none"]
NullStudent == [id |-> 0, st |-> "null"]

\* A clock runs until the student ends it ("own") or the teacher ends the game
\* ("all"); "none" and "null" are as for students.
Clocks == {"none", "run", "own", "all", "null"}

NoClient == [kind |-> "none", id |-> 0, room |-> 0, in |-> FALSE]
Nothing == [id \in Ids |-> "none"]

RecvIdle == [at |-> "idle", fd |-> 0, room |-> 0, list |-> Nothing]
EvIdle   == [at |-> "idle", fd |-> 0, room |-> 0, list |-> Nothing, todo |-> {}]

\* The constructor of CRoom has -1 for no teacher and no whiteboard, del_client
\* 0; no client has either.
Init ==
  /\ up = TRUE
  /\ conn = [fd \in Fds |-> "closed"]
  /\ client = [fd \in Fds |-> NoClient]
  /\ scenario \in Scenarios
  /\ coming = scenario.cast /\ sent = 0
  /\ recvqueue = <<>>
  /\ recvtask = RecvIdle /\ evloop = EvIdle
  /\ m_teacher_fd = [r \in Rooms |-> 0]
  /\ m_white_fd = [r \in Rooms |-> 0]
  /\ m_isUsed = [r \in Rooms |-> 0]
  /\ m_current_scene = [r \in Rooms |-> 100]
  /\ m_student_map = [r \in Rooms |-> [fd \in Fds |-> Absent]]
  /\ m_puzzle_map = [r \in Rooms |-> [fd \in Fds |-> "none"]]
  /\ told = [fd \in Fds |-> [r \in Rooms |-> Nothing]]
  /\ late = {}
  /\ blurred = [r \in Rooms |-> {}]
  /\ upsets = {}

(***************************************************************************)
(* Looking things up                                                       *)
(***************************************************************************)
Students(r) == {fd \in Fds : m_student_map[r][fd].st # "none"}
Nulls(r) == {fd \in Fds : m_student_map[r][fd].st = "null"}
Enrolled(r) == Students(r) \ Nulls(r)

\* CRoom::get_room_by_fd
Knows(r, fd) == fd \in Students(r) \/ fd = m_teacher_fd[r] \/ fd = m_white_fd[r]

\* CRoomManager::get_room_by_fd: the first room that knows the fd, 0 for NULL.
RoomOf(fd) ==
  IF \E r \in Rooms : Knows(r, fd)
    THEN CHOOSE r \in Rooms : Knows(r, fd) /\ \A s \in Rooms : Knows(s, fd) => r <= s
    ELSE 0

\* The list of everybody's status in `map'; of two entries with one id a
\* client keeps the later one.
List(map) ==
  [id \in Ids |->
    LET fds == {fd \in Fds : map[fd].id = id} IN
    IF fds = {} THEN "none"
    ELSE map[CHOOSE fd \in fds : \A other \in fds : other <= fd].st]

\* What the clients on `fds' know after a list for room r was sent to them.
Tell(fds, r, list) ==
  [fd \in Fds |->
    IF fd \notin fds THEN told[fd]
    ELSE [told[fd] EXCEPT ![r] =
            [id \in Ids |-> IF list[id] = "none" THEN told[fd][r][id] ELSE list[id]]]]

\* A list of one student.
Just(id, st) == [Nothing EXCEPT ![id] = st]

Chiefs(r) == {m_teacher_fd[r], m_white_fd[r]}

\* The other thread is at work in room r.
Meet(thread, r) ==
  IF thread.at # "idle" /\ thread.room = r THEN [blurred EXCEPT ![r] = @ \cup {"race"}]
                                           ELSE blurred

(***************************************************************************)
(* Clients                                                                 *)
(***************************************************************************)
Accept ==
  /\ up /\ evloop.at = "idle" /\ coming # <<>>
  /\ \E fd \in scenario.fds :
       /\ conn[fd] = "closed"
       /\ \A other \in scenario.fds : conn[other] = "closed" => fd <= other
       /\ conn' = [conn EXCEPT ![fd] = "open"]
       /\ client' = [client EXCEPT ![fd] = [NoClient EXCEPT !.kind = Head(coming).kind,
                                                          !.id = Head(coming).id]]
       /\ told' = [told EXCEPT ![fd] = [r \in Rooms |-> Nothing]]
  /\ coming' = Tail(coming)
  /\ UNCHANGED <<up, scenario, sent, recvqueue, recvtask, evloop, roles, games, late, blurred>>

\* The client on fd sends a message, and recv_cb queues it.
Send(fd, op, arg) ==
  /\ up /\ conn[fd] = "open" /\ evloop.at = "idle"
  /\ op \in scenario.talk /\ sent < scenario.msgs /\ Len(recvqueue) < MaxQueue
  /\ sent' = sent + 1
  /\ recvqueue' = Append(recvqueue, [fd |-> fd, op |-> op, arg |-> arg])
  /\ UNCHANGED <<up, conn, scenario, coming, recvtask, evloop, roles, games, told, late,
                 blurred>>

\* CT_SelectedClassRoom, of a whiteboard or of a student who has not logged in.
AskSelect(fd, r) ==
  /\ client[fd].kind \in {"student", "white"} /\ client[fd].room # r /\ ~client[fd].in
  /\ client' = [client EXCEPT ![fd].room = r]
  /\ Send(fd, IF client[fd].kind = "student" THEN "selectStudent" ELSE "selectWhite", r)

\* CT_Login of a student in a room.  The same student may have been on another
\* connection, but that one is dead then.
AskLogin(fd) ==
  /\ client[fd].kind = "student" /\ client[fd].room # 0 /\ ~client[fd].in
  /\ \A other \in Fds : client[other].id = client[fd].id /\ client[other].in
                          => conn[other] # "open"
  /\ client' = [client EXCEPT ![fd].in = TRUE]
  /\ Send(fd, "login", client[fd].id)

\* CT_ConfirmLeaveEarly of a student who has logged in.
AskLeaveEarly(fd) ==
  /\ client[fd].kind = "student" /\ client[fd].in
  /\ UNCHANGED client
  /\ Send(fd, "confirmLeaveEarly", 0)

\* CT_LoginClassRoom: a teacher enters a room.  There is no answer.
AskEnter(fd, r) ==
  /\ client[fd].kind = "teacher" /\ client[fd].room = 0
  /\ client' = [client EXCEPT ![fd].room = r]
  /\ Send(fd, "loginClassRoom", r)

\* CT_ControlChangeScene; scenes 15 and 16 start and end the show of the house
\* building.
AskScene(fd, scene) ==
  /\ client[fd].kind = "teacher" /\ client[fd].room # 0
  /\ UNCHANGED client
  /\ Send(fd, "controlChangeScene", scene)

\* CT_LogoutClassRoom: the teacher leaves the room.
AskLeave(fd) ==
  /\ client[fd].kind = "teacher" /\ client[fd].room # 0
  /\ client' = [client EXCEPT ![fd].room = 0]
  /\ Send(fd, "logoutClassRoom", 0)

\* CT_Puzzle_GameStart: the teacher starts the puzzle.
AskPuzzleStart(fd) ==
  /\ client[fd].kind = "teacher" /\ client[fd].room # 0
  /\ UNCHANGED client
  /\ Send(fd, "puzzleStart", 0)

\* CT_Puzzle_EndGame: a student has finished, or the teacher ends the puzzle.
AskPuzzleEnd(fd) ==
  /\ client[fd].kind \in {"teacher", "student"} /\ client[fd].room # 0
  /\ UNCHANGED client
  /\ Send(fd, "puzzleEnd", 0)

\* The peer is gone; Evloop will learn of it.
Die(fd) ==
  /\ up /\ conn[fd] = "open"
  /\ conn' = [conn EXCEPT ![fd] = "dead"]
  /\ UNCHANGED <<up, client, scenario, coming, sent, recvqueue, recvtask, evloop, roles,
                 games, told, late, blurred>>

Scenes == {15, 16}

ClientStep(fd) ==
  \/ \E r \in scenario.rooms : AskSelect(fd, r)
  \/ AskLogin(fd)
  \/ AskLeaveEarly(fd)
  \/ \E r \in scenario.rooms : AskEnter(fd, r)
  \/ \E scene \in Scenes : AskScene(fd, scene)
  \/ AskLeave(fd)
  \/ AskPuzzleStart(fd)
  \/ AskPuzzleEnd(fd)
  \/ Die(fd)

(***************************************************************************)
(* RecvTask: the handlers                                                  *)
(***************************************************************************)
m == Head(recvqueue)

\* RecvTask takes the next message, whose handler is the one for `op'.
Handle(op) ==
  /\ up /\ recvtask.at = "idle" /\ recvqueue # <<>> /\ m.op = op
  /\ recvqueue' = Tail(recvqueue)

MutSelectStudentAnywhere ==
  /\ Handle("selectStudent")
  /\ m_student_map' = [m_student_map EXCEPT ![m.arg][m.fd] = [id |-> 0, st |-> "off"]]
  /\ UNCHANGED <<up, net, recvtask, evloop, m_teacher_fd, m_white_fd, m_isUsed,
                 m_current_scene, told, late, games, blurred>>

\* handleSelectedClassRoom, student: refused if any room knows the fd.
SelectStudent ==
  /\ Handle("selectStudent")
  /\ IF RoomOf(m.fd) = 0
       THEN m_student_map' = [m_student_map EXCEPT ![m.arg][m.fd] = [id |-> 0, st |-> "off"]]
       ELSE UNCHANGED m_student_map
  /\ UNCHANGED <<up, net, recvtask, evloop, m_teacher_fd, m_white_fd, m_isUsed,
                 m_current_scene, told, late, games, blurred>>

\* handleSelectedClassRoom, whiteboard.
SelectWhite ==
  /\ Handle("selectWhite")
  /\ m_white_fd' = [m_white_fd EXCEPT ![m.arg] = m.fd]
  /\ told' = [told EXCEPT ![m.fd][m.arg] = Nothing]
  /\ UNCHANGED <<up, net, recvtask, evloop, m_teacher_fd, m_isUsed,
                 m_current_scene, m_student_map, late, games, blurred>>

MutEnterUsedRoom ==
  /\ Handle("loginClassRoom")
  /\ m_teacher_fd' = [m_teacher_fd EXCEPT ![m.arg] = m.fd]
  /\ told' = [told EXCEPT ![m.fd][m.arg] = Nothing]
  /\ recvtask' = [RecvIdle EXCEPT !.at = "enter", !.fd = m.fd, !.room = m.arg]
  /\ UNCHANGED <<up, net, evloop, m_white_fd, m_isUsed, m_current_scene,
                 m_student_map, late, games, blurred>>

\* handleLoginClassRoom: a room in use is refused, silently.
Enter ==
  /\ Handle("loginClassRoom")
  /\ IF m_isUsed[m.arg] = 1
       THEN UNCHANGED <<m_teacher_fd, told, recvtask>>
       ELSE /\ m_teacher_fd' = [m_teacher_fd EXCEPT ![m.arg] = m.fd]
            /\ told' = [told EXCEPT ![m.fd][m.arg] = Nothing]
            /\ recvtask' = [RecvIdle EXCEPT !.at = "enter", !.fd = m.fd, !.room = m.arg]
  /\ UNCHANGED <<up, net, evloop, m_white_fd, m_isUsed, m_current_scene,
                 m_student_map, late, games, blurred>>

\* handleLoginClassRoom, the setIsUsed at its end.
EnterDone ==
  /\ up /\ recvtask.at = "enter"
  /\ m_isUsed' = [m_isUsed EXCEPT ![recvtask.room] = 1]
  /\ recvtask' = RecvIdle
  /\ UNCHANGED <<up, net, recvqueue, evloop, m_teacher_fd, m_white_fd,
                 m_current_scene, m_student_map, told, late, games, blurred>>

\* handleLogoutClassRoom: the room is free again; its teacher's fd stays.
\* reset goes through all students.
Leave ==
  LET r == RoomOf(m.fd)
      master == r # 0 /\ m_teacher_fd[r] = m.fd IN
  /\ Handle("logoutClassRoom")
  /\ up' = ~(master /\ Nulls(r) # {})
  /\ m_isUsed' = IF master THEN [m_isUsed EXCEPT ![r] = 0] ELSE m_isUsed
  /\ UNCHANGED <<net, recvtask, evloop, m_teacher_fd, m_white_fd,
                 m_current_scene, m_student_map, told, late, games, blurred>>

\* handleControlChangeScene: only the room's teacher changes its scene, but
\* scenes 15 and 16 look into the room whether one was found or not.
ControlChangeScene ==
  LET r == RoomOf(m.fd) IN
  /\ Handle("controlChangeScene")
  /\ up' = ~(r = 0 /\ m.arg \in {15, 16})
  /\ upsets' = IF up' THEN upsets ELSE upsets \cup {"scene"}
  /\ m_current_scene' = IF r # 0 /\ m_teacher_fd[r] = m.fd
                          THEN [m_current_scene EXCEPT ![r] = m.arg]
                          ELSE m_current_scene
  /\ UNCHANGED <<net, recvtask, evloop, m_teacher_fd, m_white_fd, m_isUsed,
                 m_student_map, told, late, m_puzzle_map, blurred>>

\* login_student: the student the fd stands for gets its id and is ONLINE; an
\* fd no room has as a student is refused.
LoginStudent ==
  LET r == RoomOf(m.fd) IN
  /\ Handle("login")
  /\ IF r # 0 /\ m.fd \in Enrolled(r)
       THEN /\ m_student_map' = [m_student_map EXCEPT ![r][m.fd] = [id |-> m.arg, st |-> "on"]]
            /\ recvtask' = [at |-> "tell", fd |-> m.fd, room |-> r, list |-> Just(m.arg, "on")]
            /\ blurred' = [Meet(evloop, r) EXCEPT ![r] = @ \cup
                 (IF \E fd \in Fds \ {m.fd} : m_student_map[r][fd].id = m.arg
                    THEN {"twice"} ELSE {})]
       ELSE UNCHANGED <<m_student_map, recvtask, blurred>>
  /\ UNCHANGED <<up, net, evloop, m_teacher_fd, m_white_fd, m_isUsed,
                 m_current_scene, games, told, late>>

\* login_student: teacher and whiteboard are told of this student.
LoginTell ==
  /\ up /\ recvtask.at = "tell"
  /\ told' = Tell(Chiefs(recvtask.room), recvtask.room, recvtask.list)
  /\ recvtask' = [recvtask EXCEPT !.at = "list"]
  /\ UNCHANGED <<up, net, recvqueue, evloop, roles, late, games, blurred>>

\* login_student: the list of all students of the room is put together ...
LoginList ==
  /\ up /\ recvtask.at = "list"
  /\ up' = (Nulls(recvtask.room) = {})
  /\ recvtask' = [recvtask EXCEPT !.at = "send", !.list = List(m_student_map[recvtask.room])]
  /\ UNCHANGED <<net, recvqueue, evloop, roles, told, late, games, blurred>>

\* ... and sent to each of them; also the end of handleConfirmLeaveEarly.
SendList ==
  /\ up /\ recvtask.at = "send"
  /\ told' = Tell(Students(recvtask.room), recvtask.room, recvtask.list)
  /\ recvtask' = RecvIdle
  /\ UNCHANGED <<up, net, recvqueue, evloop, roles, late, games, blurred>>

\* handleConfirmLeaveEarly, and update_all_student_status with flag 1 up to
\* the last loop: the student is LEAVEEARLY, teacher and whiteboard are told.
ConfirmLeaveEarly ==
  LET r == RoomOf(m.fd) IN
  /\ Handle("confirmLeaveEarly")
  /\ IF r # 0 /\ m.fd \in Enrolled(r)
       THEN /\ up' = (Nulls(r) = {})
            /\ m_student_map' = [m_student_map EXCEPT ![r][m.fd].st = "left"]
            /\ told' = IF m_student_map[r][m.fd].id = 0 THEN told
                       ELSE Tell(Chiefs(r), r, Just(m_student_map[r][m.fd].id, "left"))
            /\ recvtask' = [at |-> "send", fd |-> m.fd, room |-> r,
                            list |-> List(m_student_map'[r])]
            /\ blurred' = Meet(evloop, r)
       ELSE UNCHANGED <<up, m_student_map, told, recvtask, blurred>>
  /\ UNCHANGED <<net, evloop, m_teacher_fd, m_white_fd, m_isUsed,
                 m_current_scene, late, games>>

\* handlePuzzle_GameStart: postTeacherToAllStudent has freed the message, so
\* that Evloop may have put another client's fd in it when it is read again.
\* puzzle_start: insert leaves the clocks there are as they are.
PuzzleStart ==
  /\ Handle("puzzleStart")
  /\ \E fd \in {m.fd} \cup {other \in Fds : conn[other] = "open"} :
       LET r == RoomOf(fd) IN
       m_puzzle_map' =
         IF r = 0 THEN m_puzzle_map
         ELSE [m_puzzle_map EXCEPT ![r] =
                [g \in Fds |-> IF g \in Students(r) /\ @[g] = "none" THEN "run" ELSE @[g]]]
  /\ UNCHANGED <<up, net, recvtask, evloop, roles, upsets, told, late, blurred>>

MutNullForNobody ==
  LET r == RoomOf(m.fd) IN
  /\ Handle("puzzleEnd") /\ r # 0 /\ m.fd = m_teacher_fd[r]
  /\ up' = \A fd \in Fds : m_puzzle_map[r][fd] # "null"
  /\ m_puzzle_map' = [m_puzzle_map EXCEPT ![r] =
       [fd \in Fds |-> IF @[fd] = "run" THEN "all" ELSE @[fd]]]
  /\ m_student_map' = [m_student_map EXCEPT ![r] =
       [fd \in Fds |-> IF fd \notin Students(r) THEN NullStudent ELSE @[fd]]]
  /\ UNCHANGED <<net, recvtask, evloop, m_teacher_fd, m_white_fd, m_isUsed,
                 m_current_scene, upsets, told, late, blurred>>

\* handlePuzzle_EndGame, teacher: puzzle_end stops the clocks that run and looks
\* every student with a clock up with operator[], which puts a NULL into
\* m_student_map for one who is not there.
PuzzleEndAll ==
  LET r == RoomOf(m.fd) IN
  /\ Handle("puzzleEnd") /\ r # 0 /\ m.fd = m_teacher_fd[r]
  /\ up' = \A fd \in Fds : m_puzzle_map[r][fd] # "null"
  /\ m_puzzle_map' = [m_puzzle_map EXCEPT ![r] =
       [fd \in Fds |-> IF @[fd] = "run" THEN "all" ELSE @[fd]]]
  /\ m_student_map' = [m_student_map EXCEPT ![r] =
       [fd \in Fds |-> IF m_puzzle_map[r][fd] # "none" /\ fd \notin Students(r)
                         THEN NullStudent ELSE @[fd]]]
  /\ UNCHANGED <<net, recvtask, evloop, m_teacher_fd, m_white_fd, m_isUsed,
                 m_current_scene, upsets, told, late, blurred>>

\* handlePuzzle_EndGame, anybody else: end_puzzle_by_fd ends the sender's clock,
\* and puts a NULL into m_puzzle_map for one who has none.
PuzzleEndOne ==
  LET r == RoomOf(m.fd)
      clock == m_puzzle_map[r][m.fd] IN
  /\ Handle("puzzleEnd") /\ (r # 0 => m.fd # m_teacher_fd[r])
  /\ m_puzzle_map' =
       IF r = 0 THEN m_puzzle_map
       ELSE [m_puzzle_map EXCEPT ![r][m.fd] =
              CASE @ = "run" -> "own" [] @ = "none" -> "null" [] OTHER -> @]
  /\ upsets' = IF r # 0 /\ clock = "none" THEN upsets \cup {"noClock"} ELSE upsets
  /\ UNCHANGED <<up, net, recvtask, evloop, roles, told, late, blurred>>

(***************************************************************************)
(* Evloop: a connection ends                                               *)
(***************************************************************************)

\* closefd, and the start of CRoomManager::del_client.
Close(fd) ==
  /\ up /\ evloop.at = "idle" /\ conn[fd] = "dead"
  /\ conn' = [conn EXCEPT ![fd] = "closed"]
  /\ late' = IF recvtask.fd = fd \/ \E i \in 1..Len(recvqueue) : recvqueue[i].fd = fd
               THEN late \cup {fd} ELSE late
  /\ evloop' = [EvIdle EXCEPT !.at = "rooms", !.fd = fd, !.todo = Rooms]
  /\ UNCHANGED <<up, client, scenario, coming, sent, recvqueue, recvtask, roles, games,
                 told, blurred>>

NextRoom == CHOOSE r \in evloop.todo : \A s \in evloop.todo : r <= s

AtRoom == up /\ evloop.at = "rooms" /\ evloop.todo # {}
RoomDone(r) ==
  evloop' = [evloop EXCEPT !.at = "rooms", !.room = 0, !.list = Nothing, !.todo = @ \ {r}]

MutOneUserLess ==
  LET r == NextRoom IN
  /\ AtRoom /\ evloop.fd = m_teacher_fd[r]
  /\ m_isUsed' = [m_isUsed EXCEPT ![r] = @ - 1]
  /\ m_teacher_fd' = [m_teacher_fd EXCEPT ![r] = 0]
  /\ blurred' = Meet(recvtask, r)
  /\ RoomDone(r)
  /\ UNCHANGED <<up, net, recvqueue, recvtask, m_white_fd, m_current_scene,
                 m_student_map, games, told, late>>

\* CRoom::del_client, teacher: the first room that knows the fd is reset, then
\* this room; its clients are told, and it has no teacher.
DelTeacher ==
  LET r == NextRoom
      first == RoomOf(evloop.fd) IN
  /\ AtRoom /\ evloop.fd = m_teacher_fd[r]
  /\ up' = (Nulls(r) = {} /\ (m_isUsed[first] = 1 => Nulls(first) = {}))
  /\ m_isUsed' = [m_isUsed EXCEPT ![r] = 0, ![first] = 0]
  /\ m_teacher_fd' = [m_teacher_fd EXCEPT ![r] = 0]
  /\ blurred' = Meet(recvtask, r)
  /\ RoomDone(r)
  /\ UNCHANGED <<net, recvqueue, recvtask, m_white_fd, m_current_scene,
                 m_student_map, games, told, late>>

MutKeepWhite ==
  LET r == NextRoom IN
  /\ AtRoom /\ evloop.fd # m_teacher_fd[r] /\ evloop.fd = m_white_fd[r]
  /\ RoomDone(r)
  /\ blurred' = Meet(recvtask, r)
  /\ UNCHANGED <<up, net, recvqueue, recvtask, m_teacher_fd, m_white_fd, m_isUsed,
                 m_current_scene, m_student_map, games, told, late>>

\* CRoom::del_client, whiteboard.
DelWhite ==
  LET r == NextRoom IN
  /\ AtRoom /\ evloop.fd # m_teacher_fd[r] /\ evloop.fd = m_white_fd[r]
  /\ m_white_fd' = [m_white_fd EXCEPT ![r] = 0]
  /\ blurred' = Meet(recvtask, r)
  /\ RoomDone(r)
  /\ UNCHANGED <<up, net, recvqueue, recvtask, m_teacher_fd, m_isUsed,
                 m_current_scene, m_student_map, games, told, late>>

\* CRoom::del_client, anybody else: update_all_student_status with flag 0 marks
\* the student OFFLINE and puts the list of all together.
DelStudent ==
  LET r == NextRoom
      map == m_student_map[r]
      here == evloop.fd \in Enrolled(r) IN
  /\ AtRoom /\ evloop.fd # m_teacher_fd[r] /\ evloop.fd # m_white_fd[r]
  /\ up' = (Nulls(r) = {})
  /\ m_student_map' = IF here THEN [m_student_map EXCEPT ![r][evloop.fd].st = "off"]
                              ELSE m_student_map
  /\ evloop' = [evloop EXCEPT !.at = IF here THEN "erase" ELSE "send", !.room = r,
                              !.list = List(m_student_map'[r])]
  /\ blurred' = Meet(recvtask, r)
  /\ UNCHANGED <<net, recvqueue, recvtask, m_teacher_fd, m_white_fd, m_isUsed,
                 m_current_scene, games, told, late>>

MutEraseUntold ==
  LET r == evloop.room IN
  /\ up /\ evloop.at = "erase"
  /\ m_student_map' = [m_student_map EXCEPT ![r][evloop.fd] = Absent]
  /\ evloop' = [evloop EXCEPT !.at = "send"]
  /\ UNCHANGED <<up, net, recvqueue, recvtask, m_teacher_fd, m_white_fd, m_isUsed,
                 m_current_scene, told, late, games, blurred>>

\* Teacher and whiteboard are told, and the student is taken off the map.
Erase ==
  LET r == evloop.room
      student == m_student_map[r][evloop.fd] IN
  /\ up /\ evloop.at = "erase"
  /\ told' = IF student.id = 0 THEN told ELSE Tell(Chiefs(r), r, Just(student.id, student.st))
  /\ m_student_map' = [m_student_map EXCEPT ![r][evloop.fd] = Absent]
  /\ upsets' = IF m_puzzle_map[r][evloop.fd] = "none" THEN upsets ELSE upsets \cup {"left"}
  /\ evloop' = [evloop EXCEPT !.at = "send"]
  /\ UNCHANGED <<up, net, recvqueue, recvtask, m_teacher_fd, m_white_fd, m_isUsed,
                 m_current_scene, late, m_puzzle_map, blurred>>

\* The list goes to everybody who is left.
SendRest ==
  /\ up /\ evloop.at = "send"
  /\ told' = Tell(Students(evloop.room), evloop.room, evloop.list)
  /\ RoomDone(evloop.room)
  /\ UNCHANGED <<up, net, recvqueue, recvtask, roles, late, games, blurred>>

\* All rooms are through: back to the event loop.
CloseDone ==
  /\ up /\ evloop.at = "rooms" /\ evloop.todo = {}
  /\ evloop' = EvIdle
  /\ UNCHANGED <<up, net, recvqueue, recvtask, roles, told, late, games, blurred>>

(***************************************************************************)
(* Specification                                                           *)
(***************************************************************************)
ClassStep ==
  \/ SelectStudent \/ SelectWhite \/ Enter \/ EnterDone \/ Leave
  \/ LoginStudent \/ LoginTell \/ LoginList \/ SendList \/ ConfirmLeaveEarly
  \/ PuzzleStart \/ PuzzleEndAll \/ PuzzleEndOne

HandlerStep == ClassStep \/ ControlChangeScene

CloseStep ==
  \/ \E fd \in Fds : Close(fd)
  \/ DelTeacher \/ DelWhite \/ DelStudent \/ Erase \/ SendRest \/ CloseDone

Next == Accept \/ (\E fd \in Fds : ClientStep(fd)) \/ HandlerStep \/ CloseStep

Spec == Init /\ [][Next]_vars

(***************************************************************************)
(* Properties                                                              *)
(***************************************************************************)
\* Every variable has its type; a room is in use once or not at all.
TypeOK ==
  /\ up \in BOOLEAN
  /\ conn \in [Fds -> {"closed", "open", "dead"}]
  /\ client \in [Fds -> [kind : {"none", "student", "white", "teacher"},
                         id : Ids \cup {0}, room : Rooms \cup {0}, in : BOOLEAN]]
  /\ scenario \in Scenario
  /\ coming \in Seq(Clients) /\ sent \in Nat
  /\ recvqueue \in Seq([fd : Fds, op : Ops, arg : Nat])
  /\ recvtask \in [at : {"idle", "enter", "tell", "list", "send"}, fd : Fds \cup {0},
                   room : Rooms \cup {0}, list : [Ids -> Statuses]]
  /\ evloop \in [at : {"idle", "rooms", "erase", "send"}, fd : Fds \cup {0},
                 room : Rooms \cup {0}, list : [Ids -> Statuses], todo : SUBSET Rooms]
  /\ m_teacher_fd \in [Rooms -> Fds \cup {0}]
  /\ m_white_fd \in [Rooms -> Fds \cup {0}]
  /\ m_isUsed \in [Rooms -> {0, 1}]
  /\ m_current_scene \in [Rooms -> Nat]
  /\ m_student_map \in [Rooms -> [Fds -> [id : Ids \cup {0}, st : Statuses]]]
  /\ m_puzzle_map \in [Rooms -> [Fds -> Clocks]]
  /\ told \in [Fds -> [Rooms -> [Ids -> Statuses]]]
  /\ late \subseteq Fds
  /\ blurred \in [Rooms -> SUBSET {"race", "twice"}]
  /\ upsets \subseteq {"scene", "left", "noClock"}

\* A student is in the map of one room at most, whatever it, its predecessors
\* on the fd and a late message of theirs have selected.
StudentInOneRoom ==
  \A r, s \in Rooms : Enrolled(r) \cap Enrolled(s) # {} => r = s

\* A closed connection has no role in any room, and no room is in use without
\* a teacher's connection, once del_client is through: the one exception is a
\* message the connection left behind, handled too late (`late').
ClosedForgotten ==
  (evloop.at = "idle" /\ late = {}) =>
    /\ \A fd \in Fds, r \in Rooms :
         conn[fd] = "closed" => fd \notin Enrolled(r) \cup Chiefs(r)
    /\ \A r \in Rooms : m_isUsed[r] = 1 => m_teacher_fd[r] # 0

\* No take-over: a room in use keeps its teacher until that teacher logs out
\* or its connection ends, through logins of others, late messages and reuse
\* of descriptors.
NoTakeOver ==
  [][\A r \in Rooms :
       (m_isUsed[r] = 1 /\ m_isUsed'[r] = 1) => m_teacher_fd'[r] = m_teacher_fd[r]]_vars

\* The status of a student of room r, as the server has it.
StatusIn(r, id) ==
  IF \E fd \in Fds : m_student_map[r][fd].id = id THEN List(m_student_map[r])[id] ELSE "off"

\* Those who are to know the status of the students in room r: its teacher, its
\* whiteboard and its students (a NULL student is nobody).
Audience(r) == Fds \cap (Enrolled(r) \cup Chiefs(r))

AtRest == up /\ evloop.at = "idle" /\ recvtask.at = "idle"

\* What a client was last told of a student is how the student's status is.
\* This is the claim of ST_SendStudentStatus for rooms where the two threads
\* never met and no student was twice, and while no connection was closed with
\* a message of its own still queued.
ToldIsTrue ==
  AtRest /\ late = {} => \A r \in Rooms, id \in Ids : blurred[r] = {} =>
    \A fd \in Audience(r) : told[fd][r][id] \in {"none", StatusIn(r, id)}

\* The same without the exception for a student who comes back on a new
\* connection before the old one is closed: protocol.h calls the message the
\* students' online status.
OnlineToldOnline ==
  AtRest => \A r \in Rooms, id \in Ids : "race" \notin blurred[r] =>
    \A fd \in Audience(r) :
      StatusIn(r, id) = "on" => told[fd][r][id] \in {"none", "on"}

\* A teacher's scene is that of the room it is in: when the server has a
\* teacher as the one in charge of the room it entered and handles its change
\* of scene, the scene of that room changes.
SceneReachesRoom ==
  [][\A fd \in Fds : LET r == client[fd].room IN
       (/\ recvqueue # <<>> /\ recvqueue' = Tail(recvqueue)
        /\ m.op = "controlChangeScene" /\ m.fd = fd
        /\ client[fd].kind = "teacher" /\ r # 0
        /\ m_teacher_fd[r] = fd /\ m_isUsed[r] = 1)
       => m_current_scene'[r] = m.arg]_vars

\* The process goes down only after one of three things: a scene from a teacher
\* without a room, a student who leaves with a clock (puzzle_end then makes a
\* NULL student of it, and the next walk through the students ends the
\* process), or an end of the puzzle by a student who has no clock.  Classes
\* where none of them happens stay up, whatever else their clients do and
\* however the two threads meet.
NoOtherCrash == upsets = {} => up

==============================================================================
