------------------------------- MODULE MCHouse -------------------------------
(* Small instances of House for TLC; the sets are given in the .cfg files. *)
EXTENDS House

Teacher == [kind |-> "teacher", id |-> 0]
White == [kind |-> "white", id |-> 0]
Student(id) == [kind |-> "student", id |-> id]

\* An id of no student, before the first row of longlong_data.
Strangers == {-1}

Coming == {"loginClassRoom", "controlChangeScene", "selectStudent", "gameStart"}

Lesson(cast, fds, talk, msgs) ==
  [cast |-> cast, rooms |-> {1}, fds |-> fds, talk |-> talk, msgs |-> msgs]

\* Pictures that come and go; pictures that are changed; those of a student whose
\* id is too large; a whiteboard in the group.
Lessons ==
  { Lesson(<<Teacher, Student(1)>>, {1, 2}, Coming \cup {"addPic", "delPic"}, 8),
    Lesson(<<Teacher, Student(1)>>, {1, 2},
           Coming \cup {"addPic", "movePic", "scalePic", "anglePic", "delPic", "changeLayer"}, 7),
    Lesson(<<Teacher, Student(3)>>, {1, 2}, Coming \cup {"addPic", "delPic", "changeLayer"}, 7),
    Lesson(<<White, Teacher, Student(1)>>, {1, 2},
           {"loginClassRoom", "controlChangeScene", "selectStudent", "selectWhite", "addPic"}, 5) }

\* The students' houses, for a whiteboard that comes back, for one that takes
\* over, and for a student beyond LastStudent.
Evenings ==
  { Lesson(<<White, Student(1), White>>, {1, 2}, {"gameStart", "update", "houseInfo"}, 4),
    Lesson(<<White, White, Student(1)>>, {1, 2, 3}, {"gameStart", "update"}, 4),
    Lesson(<<White, Student(3)>>, {1, 2}, {"gameStart", "update", "houseInfo"}, 4) }

Days == Lessons \cup Evenings

==============================================================================
