------------------------------ MODULE Records --------------------------------
(***************************************************************************)
(* Questions to the database.  A client asks for the number of rows of a   *)
(* table, for the rows, for the teacher's list of courses or for one fact, *)
(* and a teacher chooses the list of courses of the class.  The answer to  *)
(* one request for rows is many messages: one per row, numbered by its     *)
(* type, and a last one that says that all were sent.  While RecvTask      *)
(* loops over the rows, SendTask empties its queue, Evloop reads further   *)
(* requests and tells clients of departures, and all use one pool.         *)
(*                                                                         *)
(* There is one room; who is in it does not change (module Room), and no   *)
(* connection breaks (module Pipeline).                                    *)
(***************************************************************************)
EXTENDS Naturals, Sequences, SequencesExt, FiniteSets

CONSTANTS
  Clients,    \* the connected clients, by fd
  Teacher,    \* the teacher of the room,
  White,      \* its whiteboard
  Students,   \* and its students; another client is in no room
  Bufs,       \* the number of buffers of the pool
  Requests,   \* the requests a client may send
  Groups,     \* the course groups of the database, each a sequence of courses
  Tables,     \* what the tables hold at the start
  Edited,     \* the tables that others change
  MaxAsk,     \* bound: requests
  MaxEdit,    \* bound: changes made to the tables by others
  MaxFault,   \* bound: exceptions of the database
  MaxNotice   \* bound: departures Evloop tells a client of

ASSUME ClientsAssumption ==
  {Teacher, White} \cup Students \subseteq Clients /\ Clients \subseteq Nat
ASSUME EditedAssumption == Edited \subseteq DOMAIN Tables
ASSUME NumbersAssumption == {Bufs, MaxAsk, MaxEdit, MaxFault, MaxNotice} \subseteq Nat

\* iCase 1 to 6: the tables, and the type of the first row of each.
Base == [course |-> 5000, grade |-> 3000, class |-> 4000, classroom |-> 6000,
         student |-> 10000, items |-> 7000]
Kinds == DOMAIN Base

\* The type of the row with index i.
RowType(kind, i) == Base[kind] + i

\* SQL_SELECT_COURSEITEM_DB has this many places for names of courses.
Places == 4

Room == {Teacher, White} \cup Students

\* A row: which one it is, and the course an item belongs to or the picture of
\* a student, 0 if there is none.
Row == [id : Nat, of : Nat]

Ops == {"count", "rows", "list", "keys", "teacher", "detail", "set"}

ASSUME RequestsAssumption ==
  \A c \in Clients : \A r \in Requests[c] :
    /\ r.op \in Ops /\ r.kind \in Kinds \cup {"none"}
    /\ r.op \in {"count", "rows"} => r.kind \in Kinds

ASSUME TablesAssumption == Tables \in [Kinds -> Seq(Row)]

VARIABLES
  up,
  pool,           \* the number of free buffers
  asked,          \* all requests, in the order they were read
  recvqueue,      \* the numbers of those that wait
  recvtask,       \* what RecvTask is doing
  sendqueue, got, \* messages to send, and received by each client
  table,          \* the tables
  m_course_list,  \* the courses the teacher chose
  silent,         \* requests whose handler ended without an answer
  edits, faults, notices

vars == <<up, pool, asked, recvqueue, recvtask, sendqueue, got, table,
          m_course_list, silent, edits, faults, notices>>
bounds == <<edits, faults, notices>>

Idle == [at |-> "idle", req |-> 0, rows |-> <<>>, next |-> 1, todo |-> {}]

\* No requests in progress; a course group has been chosen before, or not.
Init ==
  /\ up = TRUE /\ pool = Bufs
  /\ asked = <<>> /\ recvqueue = <<>> /\ recvtask = Idle
  /\ sendqueue = <<>> /\ got = [c \in Clients |-> <<>>]
  /\ table = Tables /\ m_course_list \in Groups \cup {<<>>}
  /\ silent = {}
  /\ edits = 0 /\ faults = 0 /\ notices = 0

Message(to, req, tag) ==
  [to |-> to, req |-> req, tag |-> tag, type |-> 0, rows |-> <<>>]

\* enqueue
Post(m) == sendqueue' = Append(sendqueue, m)

\* malloc returned NULL and the caller aborts, or uses it.
Crash ==
  /\ up' = FALSE
  /\ UNCHANGED <<pool, asked, recvqueue, recvtask, sendqueue, got, table,
                 m_course_list, silent, bounds>>

(***************************************************************************)
(* Evloop, SendTask and whoever edits the tables                           *)
(***************************************************************************)

\* recv_cb: a request is read.
Ask(c, r) ==
  /\ up /\ Len(asked) < MaxAsk
  /\ IF pool = 0 THEN Crash
     ELSE /\ pool' = pool - 1
          /\ asked' = Append(asked, [from |-> c, op |-> r.op, kind |-> r.kind])
          /\ recvqueue' = Append(recvqueue, Len(asked'))
          /\ UNCHANGED <<up, recvtask, sendqueue, got, table, m_course_list,
                         silent, bounds>>

\* teacher_disconnect, update_all_student_status: a client is told that
\* another has left, whatever RecvTask is doing.
Notice(c) ==
  /\ up /\ notices < MaxNotice /\ pool > 0
  /\ pool' = pool - 1
  /\ Post(Message(c, 0, "notice"))
  /\ notices' = notices + 1
  /\ UNCHANGED <<up, asked, recvqueue, recvtask, got, table, m_course_list,
                 silent, edits, faults>>

\* SendTask::run: write the first message and free its buffer.
Send ==
  /\ up /\ sendqueue # <<>>
  /\ LET m == Head(sendqueue) IN got' = [got EXCEPT ![m.to] = Append(@, m)]
  /\ sendqueue' = Tail(sendqueue)
  /\ pool' = pool + 1
  /\ UNCHANGED <<up, asked, recvqueue, recvtask, table, m_course_list, silent, bounds>>

\* A row is added to a table, or the first is removed.
Edit(kind) ==
  /\ up /\ edits < MaxEdit
  /\ \/ \E of \in {0, 1} :
          table' = [table EXCEPT ![kind] = Append(@, [id |-> 100 + edits, of |-> of])]
     \/ table[kind] # <<>> /\ table' = [table EXCEPT ![kind] = Tail(@)]
  /\ edits' = edits + 1
  /\ UNCHANGED <<up, pool, asked, recvqueue, recvtask, sendqueue, got,
                 m_course_list, silent, faults, notices>>

(***************************************************************************)
(* The handlers                                                            *)
(***************************************************************************)

Req == Head(recvqueue)
From == asked[Req].from

\* RecvTask takes a request with this operation.
Take(op) == up /\ recvtask.at = "idle" /\ recvqueue # <<>> /\ asked[Req].op = op

\* The rows, in their order, that belong to one of `these'.
Where(rows, these) ==
  LET kept[n \in 0 .. Len(rows)] ==
        IF n = 0 THEN <<>>
        ELSE IF rows[n].of \in these THEN Append(kept[n - 1], rows[n]) ELSE kept[n - 1]
  IN kept[Len(rows)]

\* The rows the statement selects: items of the chosen courses, and students
\* joined with their pictures.
Selected(kind) ==
  CASE kind = "items"   -> Where(table[kind], ToSet(m_course_list))
    [] kind = "student" -> Where(table[kind], Nat \ {0})
    [] OTHER            -> table[kind]

\* The database fails.
Fault == faults < MaxFault /\ faults' = faults + 1

\* The statement for items throws when a place is left unset or there is none
\* for a name; any statement throws when the database fails.
Unset(kind, c) == kind = "items" /\ (c \notin Room \/ Len(m_course_list) # Places)

Throws(kind, c) ==
  \/ Unset(kind, c) /\ UNCHANGED faults
  \/ Fault

\* The handler ends without an answer; it frees the request's buffer or forgets it.
Silently(n) == silent' = silent \cup {n}

MutJumpsQueue(m) == sendqueue' = <<m>> \o sendqueue /\ UNCHANGED <<pool, silent>>

\* The handler puts its answer into the buffer of the request.
AnswerInPlace(m) == Post(m) /\ UNCHANGED <<pool, silent>>

\* postDBRecordCount.  The number of students is that of the table.
Count ==
  LET kind == asked[Req].kind IN
  /\ Take("count")
  /\ recvqueue' = Tail(recvqueue)
  /\ \/ /\ Throws(kind, From)
        /\ Silently(Req)
        /\ UNCHANGED <<pool, sendqueue>>
     \/ /\ ~Unset(kind, From)
        /\ AnswerInPlace([Message(From, Req, "count") EXCEPT
             !.type = Len(IF kind = "student" THEN table[kind] ELSE Selected(kind))])
        /\ UNCHANGED faults
  /\ UNCHANGED <<up, asked, recvtask, got, table, m_course_list, edits, notices>>

\* postDBRecord: executeQuery.  The result set is complete from here on.
Query ==
  LET kind == asked[Req].kind IN
  /\ Take("rows")
  /\ recvqueue' = Tail(recvqueue)
  /\ \/ /\ Throws(kind, From)
        /\ pool' = pool + 1
        /\ Silently(Req)
        /\ UNCHANGED recvtask
     \/ /\ ~Unset(kind, From)
        /\ recvtask' = [Idle EXCEPT !.at = "rows", !.req = Req, !.rows = Selected(kind)]
        /\ UNCHANGED <<pool, silent, faults>>
  /\ UNCHANGED <<up, asked, sendqueue, got, table, m_course_list, edits, notices>>

InLoop == up /\ recvtask.at = "rows"

MutStaleIndex ==
  LET r == asked[recvtask.req] IN
  /\ InLoop /\ recvtask.next <= Len(recvtask.rows)
  /\ IF pool = 0 THEN Crash
     ELSE /\ pool' = pool - 1
          /\ Post([Message(r.from, recvtask.req, "row") EXCEPT
               !.type = RowType(r.kind, recvtask.next),
               !.rows = <<recvtask.rows[recvtask.next]>>])
          /\ recvtask' = [recvtask EXCEPT !.next = @ + 1]
          /\ UNCHANGED <<up, asked, recvqueue, got, table, m_course_list, silent, bounds>>

\* The body of the loop: one row, one buffer.
NextRow ==
  LET r == asked[recvtask.req] IN
  /\ InLoop /\ recvtask.next <= Len(recvtask.rows)
  /\ IF pool = 0 THEN Crash
     ELSE /\ pool' = pool - 1
          /\ Post([Message(r.from, recvtask.req, "row") EXCEPT
               !.type = RowType(r.kind, recvtask.next - 1),
               !.rows = <<recvtask.rows[recvtask.next]>>])
          /\ recvtask' = [recvtask EXCEPT !.next = @ + 1]
          /\ UNCHANGED <<up, asked, recvqueue, got, table, m_course_list, silent, bounds>>

\* next or getString throws: the client has a part of the rows.
RowThrows ==
  /\ InLoop /\ recvtask.next <= Len(recvtask.rows)
  /\ Fault
  /\ pool' = pool + 1
  /\ Silently(recvtask.req)
  /\ recvtask' = Idle
  /\ UNCHANGED <<up, asked, recvqueue, sendqueue, got, table, m_course_list,
                 edits, notices>>

MutKeepRequest ==
  /\ InLoop /\ recvtask.next > Len(recvtask.rows)
  /\ IF pool = 0 THEN Crash
     ELSE /\ Post([Message(asked[recvtask.req].from, recvtask.req, "finished") EXCEPT
               !.rows = recvtask.rows])
          /\ pool' = pool - 1
          /\ recvtask' = Idle
          /\ UNCHANGED <<up, asked, recvqueue, got, table, m_course_list, silent, bounds>>

MutFinishInLoop ==
  /\ InLoop /\ recvtask.next > Len(recvtask.rows)
  /\ \/ recvtask.rows = <<>> /\ pool' = pool + 1 /\ UNCHANGED sendqueue
     \/ /\ recvtask.rows # <<>> /\ UNCHANGED pool
        /\ Post([Message(asked[recvtask.req].from, recvtask.req, "finished") EXCEPT
             !.rows = recvtask.rows])
  /\ recvtask' = Idle
  /\ UNCHANGED <<up, asked, recvqueue, got, table, m_course_list, silent, bounds>>

\* A second after the last row: ST_GetDBRecordFinished.  A buffer is taken for
\* it, then that of the request is freed.  (The rows in the message are not
\* sent: they record what the query returned.)
Finish ==
  /\ InLoop /\ recvtask.next > Len(recvtask.rows)
  /\ IF pool = 0 THEN Crash
     ELSE /\ Post([Message(asked[recvtask.req].from, recvtask.req, "finished") EXCEPT
               !.rows = recvtask.rows])
          /\ recvtask' = Idle
          /\ UNCHANGED <<up, pool, asked, recvqueue, got, table, m_course_list, silent, bounds>>

\* handleGetCourseGroup: the names of the courses, none for a client in no room.
GetCourseGroup ==
  /\ Take("list")
  /\ recvqueue' = Tail(recvqueue)
  /\ AnswerInPlace(Message(From, Req, "list"))
  /\ UNCHANGED <<up, asked, recvtask, got, table, m_course_list, bounds>>

\* One fact is looked up and the answer put in place ...
Tell == AnswerInPlace(Message(From, Req, "answer")) /\ UNCHANGED faults

\* ... or the database fails, or there is nothing to look up.
NotTold == Silently(Req) /\ UNCHANGED sendqueue

One(op) ==
  /\ Take(op)
  /\ recvqueue' = Tail(recvqueue)
  /\ UNCHANGED <<up, asked, recvtask, got, table, m_course_list, edits, notices>>

\* handleGetStudentDetailInfo forgets the buffer on an exception.
GetStudentDetailInfo ==
  /\ One("detail")
  /\ \/ Tell
     \/ Fault /\ NotTold /\ UNCHANGED pool

\* handleGetTeacherInfo forgets it then, and for a client in no room.
GetTeacherInfo ==
  /\ One("teacher")
  /\ \/ From \in Room /\ Tell
     \/ From \in Room /\ Fault /\ NotTold /\ UNCHANGED pool
     \/ From \notin Room /\ NotTold /\ UNCHANGED <<pool, faults>>

\* handleGetCourseItemKeyInfoReq frees it.
GetCourseItemKeyInfo ==
  /\ One("keys")
  /\ \/ Tell
     \/ Fault /\ NotTold /\ pool' = pool + 1

MutNoClear ==
  /\ Take("set")
  /\ recvqueue' = Tail(recvqueue)
  /\ \/ /\ From \in Room
        /\ \E g \in Groups : m_course_list' = m_course_list \o g
     \/ From \notin Room /\ UNCHANGED m_course_list
  /\ recvtask' = [Idle EXCEPT !.at = "tell", !.req = Req]
  /\ UNCHANGED <<up, pool, asked, sendqueue, got, table, silent, bounds>>

\* handleSetCourseGroup: once the query is through, clear_all_course, and
\* add_course for each row.  An exception at a row is caught and leaves the rows
\* before it.  The buffer of the request is forgotten.
SetCourseGroup ==
  /\ Take("set")
  /\ recvqueue' = Tail(recvqueue)
  /\ \/ Fault /\ UNCHANGED m_course_list
     \/ /\ From \in Room /\ Fault
        /\ \E g \in Groups : \E n \in 0 .. Len(g) : m_course_list' = SubSeq(g, 1, n)
     \/ /\ From \in Room
        /\ \E g \in Groups : m_course_list' = g
        /\ UNCHANGED faults
     \/ From \notin Room /\ UNCHANGED <<m_course_list, faults>>
  /\ recvtask' = [Idle EXCEPT !.at = "tell", !.req = Req]
  /\ UNCHANGED <<up, pool, asked, sendqueue, got, table, silent, edits, notices>>

\* A buffer for the notice that the class is on; without one the handler returns.
TellMalloc ==
  /\ up /\ recvtask.at = "tell"
  /\ IF pool = 0
     THEN recvtask' = Idle /\ Silently(recvtask.req) /\ UNCHANGED pool
     ELSE /\ pool' = pool - 1
          /\ recvtask' = [recvtask EXCEPT !.at = "copy",
               !.todo = IF asked[recvtask.req].from \in Room THEN Students ELSE {}]
          /\ UNCHANGED silent
  /\ UNCHANGED <<up, asked, recvqueue, sendqueue, got, table, m_course_list, bounds>>

\* postTeacherToAllStudent: a copy for each student.
TellStudent ==
  /\ up /\ recvtask.at = "copy" /\ recvtask.todo # {}
  /\ LET s == CHOOSE s \in recvtask.todo : \A o \in recvtask.todo : s <= o IN
     IF pool = 0 THEN Crash
     ELSE /\ pool' = pool - 1
          /\ Post(Message(s, recvtask.req, "class"))
          /\ recvtask' = [recvtask EXCEPT !.todo = @ \ {s}]
          /\ UNCHANGED <<up, asked, recvqueue, got, table, m_course_list, silent, bounds>>

\* The original is freed.
TellStudentsDone ==
  /\ up /\ recvtask.at = "copy" /\ recvtask.todo = {}
  /\ pool' = pool + 1
  /\ recvtask' = [recvtask EXCEPT !.at = "white"]
  /\ UNCHANGED <<up, asked, recvqueue, sendqueue, got, table, m_course_list, silent, bounds>>

\* postTeacherToWhite: a buffer for the whiteboard, freed again unless the
\* request came from the teacher.
TellWhite ==
  /\ up /\ recvtask.at = "white"
  /\ \/ /\ pool > 0 /\ asked[recvtask.req].from = Teacher
        /\ pool' = pool - 1
        /\ Post(Message(White, recvtask.req, "class"))
     \/ /\ pool = 0 \/ asked[recvtask.req].from # Teacher
        /\ UNCHANGED <<pool, sendqueue>>
  /\ recvtask' = Idle
  /\ Silently(recvtask.req)
  /\ UNCHANGED <<up, asked, recvqueue, got, table, m_course_list, bounds>>

RecvTask ==
  \/ Count \/ Query \/ NextRow \/ RowThrows \/ Finish
  \/ GetCourseGroup \/ GetStudentDetailInfo \/ GetTeacherInfo \/ GetCourseItemKeyInfo
  \/ SetCourseGroup \/ TellMalloc \/ TellStudent \/ TellStudentsDone \/ TellWhite

Next ==
  \/ RecvTask
  \/ Send
  \/ \E c \in Clients : \/ \E r \in Requests[c] : Ask(c, r)
                        \/ Notice(c)
  \/ \E kind \in Edited : Edit(kind)

Spec == Init /\ [][Next]_vars

\* RecvTask and SendTask go on running; sleep(1) ends.
FairSpec == Spec /\ WF_vars(RecvTask) /\ WF_vars(Send)

(***************************************************************************)
(* Properties                                                              *)
(***************************************************************************)

\* What m_course_list may be: none, a group, or the first courses of one.
CourseLists ==
  {<<>>} \cup Groups \cup UNION {{SubSeq(g, 1, n) : n \in 0 .. Len(g)} : g \in Groups}

\* Every variable has its type, and m_course_list holds the courses of one group,
\* or the first of them if an exception broke the choice off: a choice replaces
\* the one before it and never mixes with it.
TypeOK ==
  /\ up \in BOOLEAN /\ pool \in 0..Bufs
  /\ asked \in Seq([from : Clients, op : Ops, kind : Kinds \cup {"none"}])
  /\ recvqueue \in Seq(DOMAIN asked)
  /\ recvtask.at \in {"idle", "rows", "tell", "copy", "white"}
  /\ recvtask.at # "idle" => recvtask.req \in DOMAIN asked
  /\ recvtask.rows \in Seq(Row) /\ recvtask.next \in 1..Len(recvtask.rows) + 1
  /\ recvtask.todo \subseteq Students
  /\ \A i \in DOMAIN sendqueue : sendqueue[i].to \in Clients
  /\ DOMAIN got = Clients
  /\ table \in [Kinds -> Seq(Row)]
  /\ m_course_list \in CourseLists
  /\ silent \subseteq DOMAIN asked

\* When a client reads ST_GetDBRecordFinished, the last rows it has read are
\* those the query returned, all of them, in order, and each has the type that
\* tells its table and index: whatever other messages Evloop sent in between,
\* whatever earlier request broke off half way, and however the tables changed.
TablesArriveWhole ==
  \A c \in Clients : \A k \in DOMAIN got[c] : got[c][k].tag = "finished" =>
    LET result == got[c][k].rows
        first  == RowType(asked[got[c][k].req].kind, 0)
    IN  \E at \in [DOMAIN result -> 1 .. k - 1] :
          /\ \A i, j \in DOMAIN result : i < j => at[i] < at[j]
          /\ \A i \in DOMAIN result : LET m == got[c][at[i]] IN
               m.tag = "row" /\ m.rows = <<result[i]>> /\ m.type = first + i - 1
          /\ \A j \in 1 .. k - 1 : got[c][j].tag = "row" =>
               \/ \E i \in DOMAIN result : at[i] = j
               \/ \A i \in DOMAIN result : j < at[i]

\* A message that answers a request.
IsAnswer(m) == m.req # 0 /\ m.tag # "class"

\* Answers carry no number of the request, so a client that has asked several
\* questions takes them in the order it asked: they arrive in that order, and
\* all of one come before the first of the next.
AnswersInOrder ==
  \A c \in Clients : \A i, j \in DOMAIN got[c] :
    (i < j /\ IsAnswer(got[c][i]) /\ IsAnswer(got[c][j])) => got[c][i].req <= got[c][j].req

\* The buffer RecvTask works with, and that of a choice, which it does not free.
Held == CASE recvtask.at = "idle" -> 0 [] recvtask.at = "copy" -> 2 [] OTHER -> 1

Forgetful == {"count", "set", "detail", "teacher"}
Lost == {n \in silent : asked[n].op \in Forgetful}

\* The buffers that are not free, hold no request that waits and no message to
\* send, and are not in RecvTask's hands are exactly those of requests for a
\* count or one fact that got no answer, and of choices of a course group, one
\* each.  A table of any length, complete or broken off, loses none.
LostWithoutAnswer ==
  pool + Len(recvqueue) + Len(sendqueue) + Held + Cardinality(Lost) = Bufs

Answered(n) ==
  /\ n \in DOMAIN asked
  /\ \E k \in DOMAIN got[asked[n].from] :
       /\ got[asked[n].from][k].req = n
       /\ got[asked[n].from][k].tag \in {"count", "finished", "list", "answer"}

\* Every request that was read is answered, or its handler ends without an
\* answer, unless the pool runs empty and the server crashes.
Served == \A n \in 1..MaxAsk : Len(asked) >= n ~> (~up \/ n \in silent \/ Answered(n))
==============================================================================
