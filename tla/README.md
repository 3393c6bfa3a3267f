# ecServer in TLA+

ecServer is the server of an electronic classroom.  Teachers, students (with tablets) and
whiteboards connect to it over TCP; it keeps track of who is in which classroom and passes
messages between them.  It is one C++ process with a pool of five threads and no locks
beyond those of its queues and its pool of buffers.

This directory models its core: the sockets messages are read from, the queues between the
threads, the buffers the messages travel in, the road of a message from one socket to another,
the classrooms with the puzzle game, the answers from the database, and the building of houses.
TLC checks small instances, TLAPS proves what matters most for all of them.

## The system

| component | source | state | operations |
|---|---|---|---|
| message queue | `QueueT.h` | a `std::queue`, a mutex, a condition variable | `enqueue`, `dequeue` with time-out, `size` |
| buffer pool | `PoolT.h`, `Buf.h`, `Single.h` | a queue of free buffers; each buffer its bytes and an fd | `malloc`, `free`, `setfd`, `reset` |
| event loop | `Evloop.cpp` | the watchers, one per client | `accept_cb`, `recv_cb`, `closefd` |
| handler thread | `RecvTask.cpp` | - | take a message from `recvqueue`, call its handler |
| sender thread | `SendTask.cpp` | - | take a message from `sendqueue`, send it |
| posting | `handler/HandleMessage.cpp` | - | `postMessage`, `postTeacherToWhite`, `postTeacherToAllStudent`, ... |
| classrooms | `content/room.cpp`, `content/roommanager.cpp` | per room: teacher fd, whiteboard fd, map of students by fd, in use or not, scene, courses, puzzles, building groups | lookups by fd, `add_student`, `del_client`, `update_all_student_status`, ... |
| class handlers | `handler/HandleClassRoom.cpp` | - | select, enter and leave a room, leave early, change of scene, database queries |
| login | `content/LoginCheck.cpp` | - | `check`: `login_student`, `login_teacher`, `login_whiteboard` |
| thread pool | `ThreadPool.cpp` | list of threads, queue of tasks | `start`, `push_task`; `stop`, `kill` (never called) |
| socket I/O | `Sock.c` | errno of the thread | `recv_v`; `send_v` (never called) |
| process | `ProcessManager.cpp` | lock file | `lock`, `run` |
| house building | `content/makehouse.cpp`, `handler/HandleBuildHouse.cpp`, `handler/HandleRainbowValley.cpp` | one group of fds, one house: pictures by node id, each with a layer; the last house of each student | join, add, move, scale, turn, delete a picture, change its layer; update, show the houses |
| code of a picture | `content/DataTool.cpp` | - | `getData`, `getPicture`: seven fields in the digits of one number |
| puzzle | `handler/HandlePuzzle.cpp`, `content/room.cpp` | per room a clock per student | start, end by the teacher, end by a student |
| database | `handler/HandleMessage.cpp`, `database.cpp`, `SQL.h`, the `Get...` handlers | tables; per room the chosen list of courses | count, rows, one fact, choose a course group |
| authorisation | `AuthTask.cpp`, `confirm.hpp` | - | ask the licence server |

**How they interact.**  `ProcessManager::run` starts the pool and pushes four tasks that never
return: `Evloop`, `RecvTask`, `SendTask` and `AuthTask`.  Evloop waits for events of libev.
`recv_cb` takes a buffer from `Single::bufpool`, reads one whole message into it, notes the fd
in it and puts it in `Single::recvqueue`.  RecvTask takes it out and calls the handler of its
type, which looks the room up by the fd (`CRoomManager::get_room_by_fd`: the first room that
knows it), changes the room, and either frees the buffer, puts it in `Single::sendqueue` for
another fd, or sends copies first.  SendTask writes buffers to the fd they carry and frees
them.  When a read fails, Evloop itself frees the buffer, closes the fd and calls
`CRoomManager::del_client`, which changes the rooms *in Evloop's thread* and sends notices.

**What is hard in it.**

* The queue signals only when it was empty, outside its mutex, and `dequeue` gives up after a
  time-out without looking again.
* A buffer is a bare pointer handed between three threads by dozens of handlers; some handlers forget it.
* An fd is a bare number: it is in queued messages, in rooms and in the hands of SendTask while
  Evloop closes it and the kernel gives it to the next client.
* Messages of a connection are handled after the connection was closed.
* The rooms are changed by two threads without a lock.
* Clients are told of changes by messages whose order is that of the threads' steps.
* Evloop reads a message to its end before it looks at another socket, and decides by an errno
  that may be left from another call whether to go on.
* The answer to one request is many messages without the request's number; the statements
  behind it may throw at any row.
* The puzzle looks students and clocks up with `operator[]`, which puts a NULL where there was none.
* Clients name a picture by its layer, the server by an id, and the list that tells them of each
  other has two digits for the layer.
* Nothing a client says is checked: the length of its message, a picture's fields, the number of
  pictures, a student's id.

What makes each component correct, and where this project says so:

* queue: first in first out, each element once, no pop of an empty queue, no lost wake-up,
  everything enqueued is taken - `FifoRefinement`, `PopSafe`, `NoCommonSleep`,
  `DrainedByDeadlines`, `DrainedBySignals`;
* sockets: whole messages only, each once; connections that end are closed - `WholeMessages`,
  `Delivered`, `HangupIsSeen`, `HangupIsSeenUnlessStuck`;
* buffers: one owner at a time, freed once - `LifeCycle`, `OnePlace`;
* road of a message: order, no piece twice, whole messages, every message dealt with -
  `InOrder`, `Framed`, `NoTornMessage`, `Settles`;
* rooms: one room per student, no take-over of a room, nothing left of a closed connection,
  commands reach the right room, clients know the right status, no crash -
  `StudentInOneRoom`, `NoTakeOver`, `ClosedForgotten`, `SceneReachesRoom`, `ToldIsTrue`,
  `OnlineToldOnline`, `NoOtherCrash`;
* database: tables arrive whole, answers in the order of the questions, each question is
  answered or its buffer accounted for - `TablesArriveWhole`, `AnswersInOrder`, `Served`,
  `LostWithoutAnswer`;
* house: everybody sees the house as it is, a change hits the picture it was meant for, the
  whiteboard shows the newest house of each student - `MembersUpToDate`, `OnlyTheOneMeant`,
  `BoardKeepsUp`, and what becomes of a picture that does not fit its digits,
  `LayerIsThePicture`.

## Modules

| module | what it is |
|---|---|
| `FifoQueue` | what a queue promises: a log and how much of it was handed out |
| `QueueT` | `QueueT.h` with its mutex and condition variable, refines `FifoQueue` |
| `QueueTProofs` | its invariants and the refinement, proved |
| `BufLife` | the life of a buffer: the places it can be in and the ways between them |
| `Pipeline` | Evloop, RecvTask, SendTask, the pool, two queues, the kernel's fds; refines `BufLife` |
| `PipelineProofs` | typing, single ownership and the refinement, proved |
| `Sock` | clients' bytes, `recv_v` and `recv_cb` |
| `SockProofs` | typing and whole messages, proved |
| `Room` | classrooms, the handlers that change them, the puzzle, `del_client` in Evloop's thread, the clients |
| `RoomProofs` | typing, one room per student, one teacher per class, causes of a crash, what a closed connection leaves, what clients were told, proved |
| `Records` | questions to the database and the choice of a course group, with SendTask and Evloop beside them |
| `RecordsProofs` | typing, order of answers, count of lost buffers, tables that arrive whole, proved |
| `DataTool` | a picture as one number |
| `DataToolProofs` | it comes back as it was packed, proved |
| `House` | the building of houses; EXTENDS `Room` and `DataTool` |
| `HouseProofs` | typing, the picture meant, the lists sent, the houses on the whiteboard, proved |
| `NatLemmas` | least and greatest numbers of a set, and climbing from 0 to a limit, proved |
| `MCQueueT`, `MCPipeline`, `MCSock`, `MCRoom`, `MCRecords`, `MCHouse` | instances for TLC |

Definitions whose names begin with `Mut` are wrong variants of the action after them; nothing
refers to them.  They serve to see that a property notices the mistake.

### QueueT

One action is one stretch of code between two points where another thread can get in.
`EnqueueLock`, `Push` (test, push, unlock) and `Signal` are `enqueue`; `DequeueLock`, `Check`,
`Pop`, `Relock` and `GiveUp` are `dequeue`.  `pthread_cond_timedwait` lets go of the mutex and
joins the waiters in one step (`Check`); it ends by a signal, without one (`SpuriousWakeup`) or
by its deadline (`TimeOut`), and in each case the mutex is taken again first.  `log` and
`taken` are history variables for the refinement.  Bound: `MaxPush` elements per producer.

### Pipeline

The operations of the queues and of the pool are atomic here, since each is one critical
section and QueueT is checked and proved for itself.  The state is the pool, the two queues,
what each thread is doing with which buffer (`evloop`, `recvtask`, `sendtask`), the fd and the
message in each buffer (`m_fd`, `frame`), the connection open on each fd (`conn`) and who has
left (`gone`).  A message is its sender and its number; notices of the server's own have
sender 0.  It takes two calls of `send` (`Parts`), so that others can act between them.

A handler is represented by what it does with its buffer, which the model leaves open:
free it (`Register`, `Discard`), forget it (`Forget`), answer with it (`Reply`), hand it on
(`Forward`), or send copies before freeing, answering or forgetting it (`CopyToRoom`,
`TellLogin`, `TellLeaveEarly`, then `Copy` for each receiver and `CopiesDone`).  `LogoutNotice`
is the part of `handleLogoutClassRoom` that reads the buffer it has just freed: the notice goes
to the whiteboard of any room or to nobody.  When the pool is empty, callers that test for it
give up and the others abort or crash (`Crash`).  Two threads meeting in the map of students
may crash the process or not.

Simplified: there is one room, given by `roster`, the fds it knows.  What is left in a free
buffer is cleared, although only `Buf::reset` clears the bytes and nobody the fd: of the two
handlers that read a buffer they have freed, `LogoutNotice` leaves the outcome open, and the
other, `handlePuzzle_GameStart`, sends nothing after that (module Room leaves its outcome open).
`handleControlChangeScene` takes its copy for the whiteboard before the others, not among them.
Not represented: the handlers that answer one message with several (module Records).

`last` and `newest` are history variables: the last piece written to each connection, and the
last one of each client's messages written to it.

### Room

The state is that of `CRoom` by name (`m_teacher_fd`, `m_white_fd`, `m_isUsed`,
`m_current_scene`, `m_student_map`), the messages waiting for RecvTask, what the two threads
are doing, and what each client has been told of the students' status (`told`).  A handler
that lets Evloop in between is several actions: `Enter`, `EnterDone` are
`handleLoginClassRoom`; `LoginStudent`, `LoginTell`, `LoginList`, `SendList` are
`login_student`; `Close`, then for each room `DelTeacher`, `DelWhite` or `DelStudent`,
`Erase`, `SendRest`, and `CloseDone` are `closefd` with `del_client`.

The clients behave: they log in after selecting a room, a student is logged in on one live
connection at a time, a teacher enters one room at a time.  But they die at any point, and
their messages stay behind.  Passwords are right.  A message the server sends counts as known
to its receiver when it is enqueued; Pipeline says that each receiver gets them in order.

The puzzle is in the same module because it writes the same maps.  `PuzzleStart` gives each
student of the room a clock; `PuzzleEndAll` is `puzzle_end`, which looks up the student of every
clock, `PuzzleEndOne` is `end_puzzle_by_fd`.  A lookup with `operator[]` of a student or clock
that is not there puts a NULL into the map, and a walk over a map with a NULL in it ends the
process (`up`).  `handlePuzzle_GameStart` reads the fd from a buffer it no longer has: the model
lets it be that of any open connection.  `upsets` records which of the events happened that can
bring the process down.

`late` records the fds closed while a message of theirs was still to be handled, `blurred` the
rooms where the two threads met or a student was present twice.  They are the exceptions of
`ClosedForgotten` and `ToldIsTrue`; the runs that drop them (`room_reconnect`, and the hazards
in `PROJECT.json`) show why they are needed.  Those who are to know (`Audience`) are the teacher,
the whiteboard and the students of a room, not a NULL student: the end of a puzzle can put one
in the place of a student who has left and who still has its own last status, and nobody reads
what is sent there.

### Sock

Evloop and the clients' ends of the connections, byte by byte.  `Write` and `Hangup` are the
client's; `Accept`, `Ready` (`recv_cb` begins), `RecvSome`, `RecvNothing`, `RecvEnd`,
`RecvReset` (what a `recv` may return), `GotHead`, `BadLength`, `GotBody`, `closefd` are Evloop's.
`errno` is a variable of the thread: only a `recv` that returns -1 sets it, and other system calls
may.

The length in a head is any number the client likes.  One below the head's own makes `recv_v` read
nothing and return another number than the one hoped for, and the connection is closed
(`BadLength`).  One above the buffer's 5120 bytes is not noticed: from the first byte past the end
`overrun` is set, and what is overwritten may be a message in the queue or something the process
ends for (`PastTheEnd`).  The properties are about the time before; `Delivered` and
`HangupIsSeenUnlessStuck` hold after it too, as long as the process lives.

### Records

One client's question is a number in `asked`; the messages of the answer carry it for the
properties, not for the client.  `Count`, `GetCourseGroup`, `GetStudentDetailInfo`,
`GetTeacherInfo`, `GetCourseItemKeyInfo` answer in the buffer of the request.  `Query`, `NextRow`
(once per row), `RowThrows`, `Finish` are `postDBRecord`, with the other threads in between:
`Send` empties the queue, `Ask` and `Notice` are Evloop's, `Edit` is whoever else uses the
database.  `SetCourseGroup`, `TellMalloc`, `TellStudent`, `TellStudentsDone`, `TellWhite` are the
choice of a course group: the room's list is emptied before the rows are read, so that an exception
at a row leaves the first courses of the group, and one before that the list there was.  `silent`
are the requests whose handler ended without an answer.  A table's rows are numbers, with what the
two joins look at.  The statement for items has four places for names of courses and throws when
the group has another number of courses.

### House and DataTool

`DataTool` is arithmetic: a picture is a number in mixed base, and cutting digits out of its
string is division.  The base and the sizes of `int` and `long long` are parameters.  Fields of
type `float` are counted in hundredths: `setData` cuts off what is behind the point (`Whole`), and
a float beyond an integer's range becomes its least value (`Convert`), as on x86.  Each product
and the sum are kept in the width the code has for them (`Wrap`).  `Fits` says which pictures have
room in their digits and the number in its type, `Rounded` what is left of one of those;
`Readable` which numbers have a character for the student's id at all.  What float arithmetic
itself rounds off is left out.

`House` adds to Room the house of the server: `m_node_map` by id, the list of layers, the
counters, the group, and what each client was last sent (`shown`, packed numbers) and each
whiteboard shows (`boards`).  Every handler is one action: they run one after another in
RecvTask, and Evloop does not touch the house.  Clients take the layers they speak of from
`shown`, as they read it; `meant` in a message is the id of the picture they saw, and `fits`
whether it had room in its digits, both for the properties only.  Names, places and ids (`PictureIds`,
`HouseIds`, which need not be the sender's own) are any numbers: no handler checks them.

* `sendToOtherStudent` tells the group in the order of the descriptors, until there is no buffer
  left; `missed` are those it did not come to.  (The message it should have freed then is
  forgotten, a matter of the pool, which this module does not have.)
* `Down`, within `ChangeLayer`, is what `layer_down` does to the list, including the step past its
  end.  The search for the node goes through the deleted ones before it, whatever the direction:
  one of them may say it is the node, or end the process.  `layer_up` gets a negative count and
  moves nothing.  What is sent does not depend on the list.
* `DelPic` of the last picture sends the count 1000.
* `Update` keeps the first 1024 bytes of a house and sends on all of it: `whole` says of a house on
  a whiteboard whether it came with the rest (`LongHouses` are those with more).  An id above 35 is
  refused, one below 0 writes before the array.
* `HouseInfo` leaves out any students there is no buffer for (`skipped`).  The rows of those who
  sent no house are queued as well, since the test for one looks at an address: a buffer of zeros
  with the descriptor and size of whatever message it had before, so that any of as many clients as
  there are such rows may have been sent bytes that are no message (`strayed`, until the
  descriptor's next connection).

Where the code writes past a buffer or an array - a list of more pictures than a buffer has room
for, a swap past the end, a negative id - `damaged` is set, and the process may end there.  After
that, and on connections in `strayed`, nothing is promised, and the properties say so; how a client
reads on after stray bytes is not modelled.

The whiteboard's houses are a property of steps (`BoardKeepsUp`), not of states: an update goes
to the whiteboard of the moment only, so that one which comes back to the place after updates
that went to another shows old houses until it asks for them.

## Runs

| run | instance | shows |
|---|---|---|
| `queue` | 2 producers, 2 consumers, 2 elements each | `TypeOK`, `PopSafe`, `NoCommonSleep`, `FifoRefinement`; `DrainedByDeadlines` although a consumer may never come back from its task; `DrainedBySignals` without any deadline |
| `pipeline_class` | 4 buffers, 2 fds, 3 connections, class is on | `InOrder`, `Framed`, `LifeCycle` |
| `pipeline_settles` | 3 buffers, 1 fd, 2 connections, from the empty server | `TypeOK`, `Settles` |
| `pipeline_reuse` | the same | `NoTornMessage` is violated |
| `sock` | 2 connections, 4 messages: one that fills the buffer, one too long for it, one of a head alone, one of a length that cannot be | `TypeOK`, `WholeMessages`, `Delivered`, `HangupIsSeenUnlessStuck` |
| `sock_hang` | 1 connection, 1 message | `HangupIsSeen` is violated |
| `records` | 2 requests of 3 clients, 4 buffers, 1 change of a table, 1 exception, 1 notice | `TypeOK`, `TablesArriveWhole`, `AnswersInOrder`, `LostWithoutAnswer`, `Served` |
| `room_class` | 10 casts: 1 or 2 rooms, 2 or 3 fds, 2 or 3 clients, 3 to 6 messages | `TypeOK`, `ToldIsTrue`, `StudentInOneRoom`, `ClosedForgotten`, `NoOtherCrash`, `NoTakeOver` |
| `room_switch` | 2 rooms, 1 teacher | `SceneReachesRoom` is violated |
| `room_reconnect` | 1 room, teacher, student who comes back | `OnlineToldOnline` is violated |
| `house` | 1 room; 4 lessons of 2 fds, 2 or 3 clients, 5 to 8 messages, and 3 evenings of 2 or 3 fds, 2 or 3 clients, 4 messages | `HouseTypeOK`, `MembersUpToDate`, `OnlyTheOneMeant`, `BoardKeepsUp` |
| `house_digits` | the 4 lessons, with a name that has a digit too many | `LayerIsThePicture` is violated |

**Bounds.**  `queue`: two consumers and four elements let one consumer be signalled while the
other is asleep, popping, or timed out, and another element come; two producers are what
`sendqueue` has (Evloop and RecvTask).  `pipeline_class`: four buffers are enough for a message,
its two copies and one more on its way in, and few enough to run out; two messages of one client
follow each other through the whole server; the third connection gets a used fd.  The order of
the free buffers does not matter, hence the symmetry.  `sock`: heads of two bytes and the bodies
of one and two can be cut in the middle, a message can follow in the same piece, the second
connection waits while the first is read, and its message of four bytes does not go into the
buffer of three.  `records`: four buffers hold a request, two rows and one more message, and run
out at the next; two requests are a table and an answer before or after it; a group with four
courses and one with three make the statement for items work and throw. `room_class`: a scenario
says who connects and how much is said; four messages are two students who select and log in, five
add one who leaves early, six are the course of a puzzle game with a student who leaves it, and
two waiting messages let one be overtaken by the end of its connection; with two fds the third
client has a used one.  What happens only in longer classes is left to the proofs, which cover
every invariant of this run.  `house`: in a lesson, coming in takes four messages of a teacher
and a student, the other four are what happens to pictures: two added, one deleted and one named
by an old list.  The digits are binary: 3 for a place, 2 for the scale, 4 for the name, 2 for the
layer and 2 for the student's id, `int` and `long long` are in proportion, so that the layer 4, a
place with too many digits and the id 3 (for 93 and above) overflow next to pictures that fit; the
place 5 has something behind its point; three pictures are what a buffer has room for.  The
properties are no weaker for that: they except a picture that does not fit, not the others.  In
the evenings, of houses and whiteboards, four messages are two that take the place and two
updates, or a house, a question and another house; one of two houses is longer than what is kept,
and one student is beyond the last row and one before the first.  Deadlock is checked for the
queue, whose consumers go on for ever; the other models stop when their clients have nothing more
to do or the process is down.

**Fairness.**  Threads keep running (weak fairness of every step of a thread).  The lock of a
queue is strongly fair for its takers: it is held for a few instructions and those who wait for
it sleep.  `DrainedByDeadlines` adds that deadlines pass and that not all
consumers stay in their tasks for ever; `DrainedBySignals` adds that the consumers come back for
more, as RecvTask and SendTask do, and assumes nothing of deadlines.  `FairSpec` of Pipeline
assumes the same of the three threads, which for SendTask means that clients read what they are
sent: SendTask repeats a send until it succeeds or fails.  `FairSpec` of Sock assumes that
Evloop's thread runs, that libev serves every descriptor with an event (strong fairness of
`Accept` and `Ready`: epoll reports it again after each callback), and that a client which has
begun a message ends it or hangs up - without this one client holds all the others, which is a
hazard in the list.  `FairSpec` of Records assumes that RecvTask and SendTask run and that
`sleep(1)` ends.  Nothing is assumed of clients' requests or of Evloop's next event.

## Findings

* `pipeline_reuse`: a connection that gets an fd in the middle of somebody else's message
  starts with the rest of that message (`SendTask.cpp:48`).
* `room_switch`: logging out of a room leaves the teacher's fd in it, and the first room with
  that fd gets all later commands (`HandleClassRoom.cpp:556`).
* `sock_hang`: a client that closes in the middle of a message, after a `recv` that found
  nothing, keeps `recv_v` going round for ever, and with it all of Evloop (`Sock.c:129`).
* `room_reconnect`: a student who comes back before its old connection is closed is reported
  offline for good (`room.cpp:91`).
* `house_digits`: a picture with a field too large for its digits changes the layer that clients
  read, so that a change meant for it hits another picture (`DataTool.cpp:131`).  The program's own
  codes of names have five digits (`HandleRainbowValley.cpp:237`), and its test adds a picture for
  the student 100 (`tst_buildhouse.cpp:54`), whose number overflows 64 bits.

Seen on the way, and modelled as it is: the choice of a course group tells the whiteboard
`TT_LOGOUT_CLASSROOM` under the comment "Send teacher login information to whiteboard"
(`HandleClassRoom.cpp:312-327`); the number of students a client is told is that of the table,
the rows it then gets are those with a picture (`SQL.h:37`); the three ways to bring the process
down that `NoOtherCrash` excepts (a change to scene 15 or 16 from a teacher no room knows, which
reads through a NULL pointer right after the handler has reported that there is no such room,
`HandleClassRoom.cpp:104`; a student who leaves during a puzzle; the end of a puzzle from a student
who never started one); the
house whose list is longer than a buffer, the message longer than one, the negative id of a student
(`makehouse.cpp:548`, `Evloop.cpp:129`, `HandleBuildHouse.cpp:574`), after which the models promise
nothing; the rows of students without a house that go to whoever had the buffer before
(`HandleRainbowValley.cpp:82`).

## Proofs

`QueueTProofs` (for any producers, consumers and number of elements): `Typing`,
`MutualExclusion`, `PopsAreSafe`, `NoLostWakeup`, `Refinement`.  The invariant says who holds
the mutex; `PopSafe` follows since only the holder of the mutex gets from `Check` to `Pop`.
`NoLostWakeup` is inductive beside the types: a push on the empty queue leaves its producer
about to signal, and a time-out leaves a consumer awake.  For the refinement the queue is the
tail of the log (`QueueIsLogTail`), and `QueueMoves` says that only `Push` and `Pop` are steps
`FifoQueue` can see.

`PipelineProofs` (for any finite pool, any fds, any number of connections and messages):
`Typing`, `OnePlace`, `Lives` (the refinement of `BufLife`).  None of them is inductive alone.
That SendTask writes to a connection needs that the fd of the buffer in its hands is that of a
client and does not change (`Hands`); that nobody else changes it needs that the buffer is in no
other place (`Apart`); and taking one from a queue leaves it in no other place only if the queue
does not have it twice (`NoneTwice`).  The lemmas `AppendFacts` and `TailFacts` say what the
queue operations do with elements, `MoveIsLife` and `StayIsLife` turn a step of the server into
a step of `BufLife` or none, and then there is one step per action, three times: for places,
for types, for hands.

`RoomProofs` (for any rooms, fds, students, scenarios): `Typing`, `OneRoom`, `Teachers`,
`Crashes`, `Forgotten`, `Knowing`.  What is inductive is the typing with two things added: what
the messages that wait carry (`Messages`) and what the two threads are at (`AtWork`: a list under
way is a list of statuses, a room under way is a room).  `OneRoom` rests on `RoomOfIs`: a lookup
that fails says that no room knows the fd, which is when `SelectStudent` adds it.  `Crashes` needs
that, as long as nothing was upset, there is no NULL student, no NULL clock, and every student with
a clock is in the room (`Calm`), which `Erase` would break if it did not record a student who left
with one.

`Forgotten` (`ClosedForgotten`) has the invariant `Gone`, under the same proviso that no message
was handled too late: the senders of the waiting messages and the client RecvTask works for are
connected (`Waiting`, `Working`), the client Evloop works for is not (`Ending`); whoever has a role
is of the kind the role is for (`Pupils`, `Masters`); and whoever has a role is connected or
is the one whose rooms Evloop has still to come to (`Here`, with `Going`).  A fd that is used again
is therefore in no room (`NobodyGone`), since nobody connects while Evloop closes a connection.
That a room in use has a teacher (`Used`) needs `Working`: the teacher of a class that is just
being entered cannot be gone.

`Knowing` (`ToldIsTrue`) has the invariant `InTouch`: in a room where the threads never met and no
student was twice, no id is twice in the map (`Sole`), one thread at most has a list on its way and
what it says is so (`Lists`), and whoever was told something else than what is so is still to
receive such a list (`News`, `Due`).  A student who is in no room was told nothing yet (`Untold`).
Most actions are no news for a room, which `Quiet` says once for all of them (`QuietKeeps`): the
map changes only where it has no student, new members of the audience were told nothing, lists on
their way stay.  That leaves the actions with a list, each in the room it is for:
`LoginInforms`, `LeaveInforms`, `GoneInforms`, `EraseInforms`, `TellInforms`, `ListInforms`,
`SendInforms`.  A step that is for another room is quiet in this one (`QuietElsewhere`).

`RecordsProofs` (for any clients, pool, requests, tables, exceptions): `Answers`, `LostBuffers`,
`RowsApart`, `Typing`, `Arrival`.  The numbers of the waiting requests only grow (`Numbers`);
RecvTask works on one that is smaller than all of them (`AtWork`); answers on their way and received
are in order and smaller still (`Order`); those without an answer are too (`Silence`), which is why
`Lost` grows by exactly one whenever a buffer is forgotten (`Buffers`).  `RowsApart` says how long
tables may be until the type of a row is no longer its own.  `Arrival` (`TablesArriveWhole`)
separates what was sent from how it lies in the queue and in the clients' hands: the rows sent
for the request RecvTask works on are the first ones of the result, those for a request that was
finished are all (`Content`, of the set of messages); and the messages of tables lie in every
client's line in the order of requests and rows, each once (`InLine`).  Together: before the last
message come exactly the rows of its result, at growing places.

`SockProofs` (for any connections, pieces and lengths, until one is longer than the buffer): `Typing`,
`Whole`.  Between two
callbacks, as many bytes of an open connection were taken as its messages in the queue have
(`OpenTaken`); within one, what was taken and what is still to come end where the head or the
message ends (`Reading`).  Since the ends of messages grow (`EndsGrow`), the place where a head
begins tells which message it is (`LengthIs`).

`NatLemmas`: the ends of messages and the rows a join selects are recursive functions, and the
prover cannot instantiate the library's induction.  `Climb` takes its place for a set of numbers
that is given: one with 0 and with the next of each has all up to a limit (from `Least`).

`DataToolProofs` (for any base and widths, and every picture that fits): `PictureComesBack`.  No
product or sum overflows (`NoOverflow`), so the number is the one in mixed base (`Horner`), and its
digits come back one field after the other (`Digit`).  Of pictures that do not fit it is proved only
that numbers come out (`PackedInt`), which is what the others need beside them.

`HouseProofs` (for any clients and rooms, whatever the clients say of pictures and houses):
`OneMeant`, `UpToDate`, `HouseTyping`, `BoardsKeepUp`.
`handleBuildHouse_Add_Pic` counts ids and layers up together and nothing else changes either,
so a picture's layer *is* its id (`LayersAreIds`), although the code looks it up by searching.
Then every entry of a list ever sent whose picture fitted has its id in it (`Says`, from
`PictureComesBack`), a message about one has its id (`MessagesMeant`), and that stays so while it
waits, since ids are never given twice; entries that did not fit have some layer, of which nothing
is said.  Every client that has a list is in the group and got the newest unless it was missed
(`ListsAreCurrent`), since every handler that changes a picture sends the list.  `BoardsKeepUp`
needs that no board has a house the server does not have (`BoardsFromData`): an answer says nothing
of a student there is no house of.

The proofs assume what the modules' ASSUMEs say: fds, rooms and student ids are positive
numbers, fds and the pool are finite, a thread is a producer or a consumer and there is a
consumer, the room's members are clients, and the widths of the numbers are such that one in each field goes
into its type.  Nothing is assumed of what a message says.

Trying to prove showed twice that a property said too much, and TLC then found the behaviour just
beyond the bounds of the run: a whiteboard that comes back shows old houses (`BoardIsCurrent` was
an invariant once), and a student that left during a puzzle was counted among those who are to
know.  Once it showed that too little was said: `ClosedForgotten` needs no exception for a
teacher who is just entering.

Only checked, not proved: `InOrder` and `Framed`, whose invariants have to speak of the order of
messages over two queues and of the pieces SendTask has sent; and `DrainedByDeadlines`,
`DrainedBySignals`, `Settles`, `Delivered`, `HangupIsSeenUnlessStuck` and `Served`, since the
prover has no way to liveness under fairness.  Every other property of a passing run is a theorem.

## Plan

1. Proofs: `Framed` and `InOrder` of Pipeline.
2. An abstract specification of the news of students' status, refined by Room where the threads
   do not meet.
3. Achievements and grades of a game, should the server come to keep them.

## Not modelled

* Building groups of a room: `handleBuildHouse_GameStart` is compiled with the branch that uses
  `test_group` (`#if 1`), so the groups of a room and the students they point to are never made.
  A picture from a room that does not show the house building goes to such a group, that is nowhere.
* `ThreadPool::stop` and `kill`: called nowhere; the four tasks never return.
* `BHSyncTask`: its start is commented out.  `send_v`, `TcpWrapper`, `memcached`, `mongodb`: not
  used by the server.
* The process lock is one call of `flock`; authorisation is one request to another server that
  shares no state; configuration is read once.
* The layout of messages, apart from a picture's number and a row's type.
* What a process does after it has overwritten memory, and what a client makes of bytes that are no
  message.
* The rounding of float arithmetic.
* Most of the lines of the tree are not the server's: a copy of tinyxml and a generator in
  `autoproto`, headers of glog and Lua in `includes`, tests and clients.
