------------------------------- MODULE MCRoom --------------------------------
(* Small instances of Room for TLC; the sets are given in the .cfg files. *)
EXTENDS Room

Teacher == [kind |-> "teacher", id |-> 0]
White == [kind |-> "white", id |-> 0]
Student(id) == [kind |-> "student", id |-> id]

\* What is said in a class, with changes of scene, and in a puzzle game.
Talk == {"selectStudent", "selectWhite", "login", "confirmLeaveEarly",
         "loginClassRoom", "logoutClassRoom"}
SceneTalk == {"selectStudent", "login", "loginClassRoom", "controlChangeScene",
              "logoutClassRoom"}
GameTalk == {"selectStudent", "loginClassRoom", "puzzleStart", "puzzleEnd"}

Class(cast, rooms, fds, msgs) ==
  [cast |-> cast, rooms |-> rooms, fds |-> fds, talk |-> Talk, msgs |-> msgs]
Show(cast, rooms, fds, msgs) ==
  [cast |-> cast, rooms |-> rooms, fds |-> fds, talk |-> SceneTalk, msgs |-> msgs]
Game(cast, talk, msgs) ==
  [cast |-> cast, rooms |-> {1}, fds |-> {1, 2}, talk |-> talk, msgs |-> msgs]

\* One room: a class, two students alone, a whiteboard that comes back, a student
\* who comes back, two teachers.  Two rooms and descriptors that are used again.
\* Scenes.  A puzzle game, and one of a student who has logged in.
Lessons ==
  { Class(<<Teacher, Student(1), Student(2)>>, {1}, {1, 2}, 4),
    Class(<<Student(1), Student(2)>>, {1}, {1, 2}, 5),
    Class(<<White, Student(1), White>>, {1}, {1, 2, 3}, 4),
    Class(<<Teacher, Student(1), Student(1)>>, {1}, {1, 2}, 4),
    Class(<<Teacher, Teacher>>, {1}, {1, 2}, 5),
    Class(<<Teacher, Student(1), Teacher>>, {1, 2}, {1, 2}, 3),
    Class(<<White, Student(1), Student(1)>>, {1, 2}, {1, 2}, 4),
    Show(<<Teacher, Teacher>>, {1, 2}, {1, 2}, 4),
    Game(<<Teacher, Student(1), Student(2)>>, GameTalk, 6),
    Game(<<Teacher, Student(1)>>, GameTalk \cup {"login"}, 5) }

OneTeacher == { Show(<<Teacher>>, {1, 2}, {1}, 5) }
ComesBack == { Class(<<Teacher, Student(1), Student(1)>>, {1}, {1, 2, 3}, 5) }
==============================================================================
