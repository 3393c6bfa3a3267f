------------------------------ MODULE Pipeline -------------------------------
(***************************************************************************)
(* The road of a message through the server.  Three threads share the      *)
(* buffers of Single::bufpool and two queues of them:                      *)
(*                                                                         *)
(*   Evloop    reads frames from the sockets into fresh buffers, puts them *)
(*             in recvqueue, and on a failed read closes the connection    *)
(*             and tells the clients of its room;                          *)
(*   RecvTask  takes them out and runs their handler, which frees,         *)
(*             forwards, answers, copies to a room or forgets the buffer;  *)
(*   SendTask  takes buffers from sendqueue, writes them to whatever       *)
(*             connection has their fd by then, and frees them.            *)
(*                                                                         *)
(* A handler is represented by what it does with its buffer; which message *)
(* calls for which is left open.  There is one room, reduced to `roster',  *)
(* the fds it knows in some role (module Room has rooms and roles).  The   *)
(* operations of QueueT and PoolT are atomic here: each is one critical    *)
(* section, and module QueueT checks the queue's own.                      *)
(***************************************************************************)
EXTENDS Naturals, Sequences, FiniteSets

CONSTANTS
  Bufs,      \* the buffers of the pool
  NoBuf,     \* no buffer in hand
  Fds,       \* file descriptors the kernel has for clients
  MaxConn,   \* bound: connections accepted in a behaviour
  MaxMsg,    \* bound: messages each connection sends (a function on 1..MaxConn)
  MaxGone    \* bound: connections whose peer leaves

ASSUME FdsAssumption == Fds \subseteq Nat \ {0}
ASSUME BoundsAssumption == MaxConn \in Nat /\ MaxMsg \in [1..MaxConn -> Nat] /\ MaxGone \in Nat
ASSUME BufsAssumption == IsFiniteSet(Bufs) /\ NoBuf \notin Bufs

Conns == 1..MaxConn

\* A message takes this many calls of send.
Parts == 2

VARIABLES
  up,          \* FALSE once the process has aborted or crashed
  pool, recvqueue, sendqueue,
  evloop, recvtask, sendtask,  \* what each thread is doing
  m_fd,        \* Buf::m_fd, per buffer
  frame,       \* the message in each buffer: its sender and its number
  lost,        \* buffers no thread has a pointer to any more
  conn,        \* the connection open on each fd, 0 if closed
  accepted,    \* connections accepted so far
  gone,        \* connections whose peer has left or died
  got,         \* messages received from each connection
  roster,      \* fds some room knows
  last,        \* history: the last piece written to each connection,
  newest       \* and the last one of those each connection's client had sent

vars == <<up, pool, recvqueue, sendqueue, evloop, recvtask, sendtask, m_fd,
          frame, lost, conn, accepted, gone, got, roster, last, newest>>

queues  == <<pool, recvqueue, sendqueue>>
net     == <<conn, accepted, gone, got>>
stream  == <<last, newest>>

\* The contents of a buffer nobody reads: the sender 0 is the server itself.
Blank == [src |-> 0, n |-> 0]
Frames == [src : 0..MaxConn, n : Nat]

\* What one call of send writes of a message.
NoPiece == [src |-> 0, n |-> 0, part |-> 0]
Pieces == [src : 0..MaxConn, n : Nat, part : 0..Parts]

EvIdle   == [at |-> "idle", fd |-> 0, buf |-> NoBuf, todo |-> {}]
RecvIdle == [at |-> "idle", buf |-> NoBuf, scratch |-> NoBuf, todo |-> {}, end |-> "none"]
SendIdle == [at |-> "idle", buf |-> NoBuf, part |-> 0]

\* The constructor of PoolT pushes every buffer once, in some order.
FullPool == {s \in [1..Cardinality(Bufs) -> Bufs] : \A b \in Bufs : \E i \in DOMAIN s : s[i] = b}

Init ==
  /\ up = TRUE
  /\ pool \in FullPool
  /\ recvqueue = <<>> /\ sendqueue = <<>>
  /\ evloop = EvIdle /\ recvtask = RecvIdle /\ sendtask = SendIdle
  /\ m_fd = [b \in Bufs |-> 0]
  /\ frame = [b \in Bufs |-> Blank]
  /\ lost = {}
  /\ conn = [fd \in Fds |-> 0]
  /\ accepted = 0
  /\ gone = {}
  /\ got = [c \in Conns |-> 0]
  /\ roster = {}
  /\ last = [c \in Conns |-> NoPiece]
  /\ newest = [c \in Conns |-> [src \in Conns |-> NoPiece]]

\* What is left in a buffer that is freed or forgotten is never read, with the
\* one exception of LogoutNotice; the model clears it.
Clear(b) ==
  /\ frame' = [frame EXCEPT ![b] = Blank]
  /\ m_fd' = [m_fd EXCEPT ![b] = 0]

\* PoolT::free
Free(b) == pool' = Append(pool, b) /\ Clear(b)

\* malloc returned NULL and the caller aborts, or uses it.
Crash ==
  /\ up' = FALSE
  /\ UNCHANGED <<queues, evloop, recvtask, sendtask, m_fd, frame, lost, net,
                 roster, stream>>

\* malloc, fill in a message like f for the fd `to' and enqueue it.
SendCopy(f, to) ==
  LET b == Head(pool) IN
  /\ pool' = Tail(pool)
  /\ frame' = [frame EXCEPT ![b] = f]
  /\ m_fd' = [m_fd EXCEPT ![b] = to]
  /\ sendqueue' = Append(sendqueue, b)

(***************************************************************************)
(* The clients and the kernel                                              *)
(***************************************************************************)

\* The peer of a connection closes it or dies; what it sent can still be read.
PeerLeaves(c) ==
  /\ c \in 1..accepted \ gone /\ Cardinality(gone) < MaxGone
  /\ gone' = gone \cup {c}
  /\ UNCHANGED <<up, queues, evloop, recvtask, sendtask, m_fd, frame, lost,
                 conn, accepted, got, roster, stream>>

(***************************************************************************)
(* Evloop                                                                  *)
(***************************************************************************)

\* accept_cb: the kernel gives the lowest descriptor that is free.
Accept ==
  /\ up /\ evloop.at = "idle" /\ accepted < MaxConn
  /\ \E fd \in Fds :
       /\ conn[fd] = 0
       /\ \A other \in Fds : conn[other] = 0 => fd <= other
       /\ conn' = [conn EXCEPT ![fd] = accepted + 1]
  /\ accepted' = accepted + 1
  /\ UNCHANGED <<up, queues, evloop, recvtask, sendtask, m_fd, frame, lost,
                 gone, got, roster, stream>>

\* The socket has a message, or the end of the stream, to read.
Readable(fd) ==
  conn[fd] # 0 /\ (got[conn[fd]] < MaxMsg[conn[fd]] \/ conn[fd] \in gone)

\* recv_cb: take a buffer to read into; abort if there is none.
RecvMalloc(fd) ==
  /\ up /\ evloop.at = "idle" /\ Readable(fd)
  /\ IF pool = <<>> THEN Crash
     ELSE /\ evloop' = [EvIdle EXCEPT !.at = "read", !.fd = fd, !.buf = Head(pool)]
          /\ pool' = Tail(pool)
          /\ UNCHANGED <<up, recvqueue, sendqueue, recvtask, sendtask, m_fd,
                         frame, lost, net, roster, stream>>

MutRecvFrame ==
  LET c == conn[evloop.fd] IN
  /\ up /\ evloop.at = "read" /\ got[c] < MaxMsg[c]
  /\ got' = [got EXCEPT ![c] = @ + 1]
  /\ frame' = [frame EXCEPT ![evloop.buf] = [src |-> c, n |-> got[c] + 1]]
  /\ m_fd' = [m_fd EXCEPT ![evloop.buf] = evloop.fd]
  /\ recvqueue' = <<evloop.buf>> \o recvqueue
  /\ evloop' = EvIdle
  /\ UNCHANGED <<up, pool, sendqueue, recvtask, sendtask, lost, conn, accepted,
                 gone, roster, stream>>

\* recv_cb, head and body read: remember the fd and queue the buffer.
RecvFrame ==
  LET c == conn[evloop.fd] IN
  /\ up /\ evloop.at = "read" /\ got[c] < MaxMsg[c]
  /\ got' = [got EXCEPT ![c] = @ + 1]
  /\ frame' = [frame EXCEPT ![evloop.buf] = [src |-> c, n |-> got[c] + 1]]
  /\ m_fd' = [m_fd EXCEPT ![evloop.buf] = evloop.fd]
  /\ recvqueue' = Append(recvqueue, evloop.buf)
  /\ evloop' = EvIdle
  /\ UNCHANGED <<up, pool, sendqueue, recvtask, sendtask, lost, conn, accepted,
                 gone, roster, stream>>

\* recv_cb, a short head or body: free the buffer.
ReadFails ==
  /\ up /\ evloop.at = "read" /\ conn[evloop.fd] \in gone
  /\ Free(evloop.buf)
  /\ evloop' = [evloop EXCEPT !.at = "close", !.buf = NoBuf]
  /\ UNCHANGED <<up, recvqueue, sendqueue, recvtask, sendtask, lost,
                 net, roster, stream>>

\* closefd: from here on the kernel may give the descriptor to another.
CloseFd ==
  /\ up /\ evloop.at = "close"
  /\ conn' = [conn EXCEPT ![evloop.fd] = 0]
  /\ evloop' = [evloop EXCEPT !.at = "scratch"]
  /\ UNCHANGED <<up, queues, recvtask, sendtask, m_fd, frame, lost, accepted,
                 gone, got, roster, stream>>

\* CRoom::del_client of the teacher's fd or the whiteboard's: teacher_disconnect
\* tells the students and the whiteboard, for a whiteboard nobody is told.
DelChief ==
  /\ up /\ evloop.at = "scratch" /\ evloop.fd \in roster
  /\ roster' = roster \ {evloop.fd}
  /\ \E todo \in {{}, roster' \cup {0}} :
       evloop' = [evloop EXCEPT !.at = "notify", !.todo = todo]
  /\ UNCHANGED <<up, queues, recvtask, sendtask, m_fd, frame, lost, net, stream>>

\* CRoom::del_client of any other fd: update_all_student_status puts the list of
\* everybody's status together in a buffer of its own; the malloc is not tested.
Scratch ==
  /\ up /\ evloop.at = "scratch"
  /\ IF pool = <<>> THEN Crash
     ELSE /\ evloop' = [evloop EXCEPT !.at = "notify", !.buf = Head(pool),
                                      !.todo = (roster \ {evloop.fd}) \cup {0}]
          /\ pool' = Tail(pool)
          /\ roster' = roster \ {evloop.fd}
          \* erase from a map RecvTask may be walking through
          /\ up' \in IF recvtask.at = "copy" /\ roster' # roster THEN BOOLEAN ELSE {TRUE}
          /\ UNCHANGED <<recvqueue, sendqueue, recvtask, sendtask, m_fd, frame,
                         lost, net, stream>>

\* One copy for each client of the room.  0 stands for the teacher or the
\* whiteboard the room does not have: m_teacher_fd and m_white_fd are -1 until
\* the first one comes and 0 once it has left.  SendTask frees a buffer for 0,
\* and one for -1 after a send that fails.
Notify ==
  /\ up /\ evloop.at = "notify"
  /\ \E to \in evloop.todo :
       IF pool = <<>> THEN Crash
       ELSE /\ SendCopy(Blank, to)
            /\ evloop' = [evloop EXCEPT !.todo = @ \ {to}]
            /\ UNCHANGED <<up, recvqueue, recvtask, sendtask, lost, net, roster,
                           stream>>

\* Everybody is told: free the scratch buffer, if any; back to the event loop.
NotifyDone ==
  /\ up /\ evloop.at = "notify" /\ evloop.todo = {}
  /\ IF evloop.buf = NoBuf THEN UNCHANGED <<pool, frame, m_fd>> ELSE Free(evloop.buf)
  /\ evloop' = EvIdle
  /\ UNCHANGED <<up, recvqueue, sendqueue, recvtask, sendtask, lost, net,
                 roster, stream>>

(***************************************************************************)
(* RecvTask                                                                *)
(***************************************************************************)
MutTakeNothing ==
  /\ up /\ recvtask.at = "idle" /\ recvqueue # <<>>
  /\ UNCHANGED vars

\* RecvTask::work: dequeue, look the handler up and call it.
Take ==
  /\ up /\ recvtask.at = "idle" /\ recvqueue # <<>>
  /\ recvtask' = [RecvIdle EXCEPT !.at = "handle", !.buf = Head(recvqueue)]
  /\ recvqueue' = Tail(recvqueue)
  /\ UNCHANGED <<up, pool, sendqueue, evloop, sendtask, m_fd, frame, lost, net,
                 roster, stream>>

Handling == up /\ recvtask.at = "handle"

\* Whether the room manager finds a room for the fd of the message.
InRoom(b) == m_fd[b] \in roster

\* The client enters a room (handleSelectedClassRoom, handleLoginClassRoom)
\* under the fd of the message, open or not; the buffer is freed.
Register ==
  /\ Handling
  /\ roster' = roster \cup {m_fd[recvtask.buf]}
  /\ Free(recvtask.buf)
  /\ recvtask' = RecvIdle
  \* insert into a map Evloop may be walking through
  /\ up' \in IF evloop.at = "notify" /\ roster' # roster THEN BOOLEAN ELSE {TRUE}
  /\ UNCHANGED <<recvqueue, sendqueue, evloop, sendtask, lost, net, stream>>

\* Nothing to do, or a sender no room knows: the buffer is freed.
Discard ==
  /\ Handling
  /\ Free(recvtask.buf)
  /\ recvtask' = RecvIdle
  /\ UNCHANGED <<up, recvqueue, sendqueue, evloop, sendtask, lost, net,
                 roster, stream>>

\* A message without a handler, or a handler that returns with the buffer
\* neither queued nor freed.
Forget ==
  /\ Handling
  /\ lost' = lost \cup {recvtask.buf}
  /\ Clear(recvtask.buf)
  /\ recvtask' = RecvIdle
  /\ UNCHANGED <<up, queues, evloop, sendtask, net, roster, stream>>

\* postMessage and most handlers: the buffer goes back with the answer in it.
Reply ==
  /\ Handling
  /\ sendqueue' = Append(sendqueue, recvtask.buf)
  /\ recvtask' = RecvIdle
  /\ UNCHANGED <<up, pool, recvqueue, evloop, sendtask, m_fd, frame, lost, net,
                 roster, stream>>

MutForwardAndFree ==
  /\ Handling /\ InRoom(recvtask.buf)
  /\ \E to \in (roster \ {m_fd[recvtask.buf]}) \cup {0} :
       m_fd' = [m_fd EXCEPT ![recvtask.buf] = to]
  /\ sendqueue' = Append(sendqueue, recvtask.buf)
  /\ pool' = Append(pool, recvtask.buf)
  /\ recvtask' = RecvIdle
  /\ UNCHANGED <<up, recvqueue, evloop, sendtask, frame, lost, net, roster, stream>>

\* postTeacherToWhite and its likes: the buffer goes to another client of the
\* room, or to nobody (fd 0).
Forward ==
  /\ Handling /\ InRoom(recvtask.buf)
  /\ \E to \in (roster \ {m_fd[recvtask.buf]}) \cup {0} :
       m_fd' = [m_fd EXCEPT ![recvtask.buf] = to]
  /\ sendqueue' = Append(sendqueue, recvtask.buf)
  /\ recvtask' = RecvIdle
  /\ UNCHANGED <<up, pool, recvqueue, evloop, sendtask, frame, lost, net, roster,
                 stream>>

CopyTo(todo, end) ==
  /\ recvtask' = [recvtask EXCEPT !.at = "copy", !.todo = todo, !.end = end]
  /\ UNCHANGED <<up, queues, evloop, sendtask, m_fd, frame, lost, net, roster,
                 stream>>

\* postTeacherToAllStudent, alone or in handleControlChangeScene and
\* handleLogoutClassRoom: a copy for each student, the sender perhaps among
\* them, before the message itself is freed.  A change of scene has one more,
\* for the whiteboard or nobody.
CopyToRoom ==
  /\ Handling /\ InRoom(recvtask.buf)
  /\ \E todo \in {roster, roster \ {m_fd[recvtask.buf]}, roster \cup {0}},
        end \in {"free", "logout"} : CopyTo(todo, end)

\* login_student: everybody in the room is told the sender's status before
\* the message is answered.
TellLogin ==
  /\ Handling /\ InRoom(recvtask.buf)
  /\ CopyTo(roster \cup {0}, "reply")

\* handleConfirmLeaveEarly: update_all_student_status again, with its scratch
\* buffer; the message itself is forgotten.
TellLeaveEarly ==
  /\ Handling /\ InRoom(recvtask.buf)
  /\ IF pool = <<>> THEN Crash
     ELSE /\ recvtask' = [recvtask EXCEPT !.at = "copy", !.scratch = Head(pool),
                                          !.todo = roster \cup {0}, !.end = "forget"]
          /\ pool' = Tail(pool)
          /\ UNCHANGED <<up, recvqueue, sendqueue, evloop, sendtask, m_fd, frame,
                         lost, net, roster, stream>>

\* What is copied: the message, or a status message of the server's own.
Copied == IF recvtask.end \in {"free", "logout"} THEN frame[recvtask.buf] ELSE Blank

\* Without a buffer, login_student leaves a student out.
SkipCopy ==
  /\ up /\ recvtask.at = "copy" /\ recvtask.end = "reply" /\ pool = <<>>
  /\ \E to \in recvtask.todo \cap roster :
       recvtask' = [recvtask EXCEPT !.todo = @ \ {to}]
  /\ UNCHANGED <<up, queues, evloop, sendtask, m_fd, frame, lost, net, roster, stream>>

\* Any other copy needs one.
Copy ==
  /\ up /\ recvtask.at = "copy"
  /\ \E to \in recvtask.todo :
       IF pool = <<>> THEN Crash
       ELSE /\ SendCopy(Copied, to)
            /\ recvtask' = [recvtask EXCEPT !.todo = @ \ {to}]
            /\ UNCHANGED <<up, recvqueue, evloop, sendtask, lost, net, roster,
                           stream>>

\* The end of update_all_student_status.
FreeScratch ==
  /\ up /\ recvtask.at = "copy" /\ recvtask.todo = {} /\ recvtask.scratch # NoBuf
  /\ Free(recvtask.scratch)
  /\ recvtask' = [recvtask EXCEPT !.scratch = NoBuf]
  /\ UNCHANGED <<up, recvqueue, sendqueue, evloop, sendtask, lost, net, roster,
                 stream>>

\* The copies are out: free, answer or forget the message.  The logout of a
\* teacher frees it too and goes on.
CopiesDone ==
  /\ up /\ recvtask.at = "copy" /\ recvtask.todo = {} /\ recvtask.scratch = NoBuf
  /\ CASE recvtask.end = "reply" ->
            sendqueue' = Append(sendqueue, recvtask.buf) /\ UNCHANGED <<pool, frame, m_fd, lost>>
       [] recvtask.end = "forget" ->
            /\ lost' = lost \cup {recvtask.buf}
            /\ Clear(recvtask.buf)
            /\ UNCHANGED <<pool, sendqueue>>
       [] OTHER -> Free(recvtask.buf) /\ UNCHANGED <<sendqueue, lost>>
  /\ recvtask' = IF recvtask.end = "logout" THEN [recvtask EXCEPT !.at = "logout"]
                                            ELSE RecvIdle
  /\ UNCHANGED <<up, recvqueue, evloop, sendtask, net, roster, stream>>

\* handleLogoutClassRoom, after the message was freed: a notice for the
\* whiteboard of the room that knows the fd left in the freed buffer, which may
\* be another's by now; none if no room does.
LogoutNotice ==
  /\ up /\ recvtask.at = "logout"
  /\ recvtask' = RecvIdle
  /\ \/ pool # <<>> /\ \E white \in roster \cup {0} : SendCopy(Blank, white)
     \/ UNCHANGED <<pool, frame, m_fd, sendqueue>>
  /\ UNCHANGED <<up, recvqueue, evloop, sendtask, lost, net, roster, stream>>

(***************************************************************************)
(* SendTask                                                                *)
(***************************************************************************)

\* SendTask::work: a buffer for fd 0 is freed, any other is sent.
SendTake ==
  LET b == Head(sendqueue) IN
  /\ up /\ sendtask.at = "idle" /\ sendqueue # <<>>
  /\ sendqueue' = Tail(sendqueue)
  /\ IF m_fd[b] = 0
       THEN Free(b) /\ UNCHANGED sendtask
       ELSE /\ sendtask' = [at |-> "send", buf |-> b, part |-> 1]
            /\ UNCHANGED <<pool, frame, m_fd>>
  /\ UNCHANGED <<up, recvqueue, evloop, recvtask, lost, net, roster, stream>>

\* The connection the buffer in hand is written to: the one on its fd now.
Target == conn[m_fd[sendtask.buf]]

Piece == [src |-> frame[sendtask.buf].src, n |-> frame[sendtask.buf].n,
          part |-> sendtask.part]

\* A live peer reads the piece.
Write ==
  IF Target \in gone THEN UNCHANGED stream
  ELSE /\ last' = [last EXCEPT ![Target] = Piece]
       /\ newest' = IF Piece.src = 0 THEN newest
                    ELSE [newest EXCEPT ![Target][Piece.src] = Piece]

MutOnePieceMore ==
  /\ up /\ sendtask.at = "send" /\ Target # 0
  /\ Write
  /\ IF sendtask.part <= Parts
       THEN sendtask' = [sendtask EXCEPT !.part = @ + 1] /\ UNCHANGED <<pool, frame, m_fd>>
       ELSE sendtask' = SendIdle /\ Free(sendtask.buf)
  /\ UNCHANGED <<up, recvqueue, sendqueue, evloop, recvtask, lost, net, roster>>

\* send takes some of the bytes.  A socket whose peer is gone may still accept
\* them.  EAGAIN and EINTR try again, which changes nothing.
SendPart ==
  /\ up /\ sendtask.at = "send" /\ Target # 0
  /\ Write
  /\ IF sendtask.part < Parts
       THEN sendtask' = [sendtask EXCEPT !.part = @ + 1] /\ UNCHANGED <<pool, frame, m_fd>>
       ELSE sendtask' = SendIdle /\ Free(sendtask.buf)
  /\ UNCHANGED <<up, recvqueue, sendqueue, evloop, recvtask, lost, net, roster>>

MutBreakOnEagain ==
  /\ up /\ sendtask.at = "send"
  /\ Free(sendtask.buf)
  /\ sendtask' = SendIdle
  /\ UNCHANGED <<up, recvqueue, sendqueue, evloop, recvtask, lost, net, roster,
                 stream>>

\* send fails for good, the rest of the message is dropped.
SendFails ==
  /\ up /\ sendtask.at = "send" /\ (Target = 0 \/ Target \in gone)
  /\ Free(sendtask.buf)
  /\ sendtask' = SendIdle
  /\ UNCHANGED <<up, recvqueue, sendqueue, evloop, recvtask, lost, net, roster,
                 stream>>

(***************************************************************************)
(* Specification                                                           *)
(***************************************************************************)
EvloopInCallback ==
  RecvFrame \/ ReadFails \/ CloseFd \/ DelChief \/ Scratch \/ Notify \/ NotifyDone

EvloopStep == Accept \/ (\E fd \in Fds : RecvMalloc(fd)) \/ EvloopInCallback

HandlerStep == Register \/ Discard \/ Forget \/ Reply \/ Forward
  \/ CopyToRoom \/ TellLogin \/ TellLeaveEarly

RecvTaskStep ==
  Take \/ HandlerStep \/ SkipCopy \/ Copy \/ FreeScratch \/ CopiesDone \/ LogoutNotice

SendTaskStep == SendTake \/ SendPart \/ SendFails

Next ==
  \/ \E c \in Conns : PeerLeaves(c)
  \/ EvloopStep \/ RecvTaskStep \/ SendTaskStep

Spec == Init /\ [][Next]_vars

\* The threads keep running.  For SendTask this assumes that the clients read
\* what they are sent: a send that gets EAGAIN is repeated until it does not.
FairSpec ==
  /\ Spec
  /\ WF_vars(EvloopInCallback) /\ WF_vars(RecvTaskStep) /\ WF_vars(SendTaskStep)

(***************************************************************************)
(* Properties                                                              *)
(***************************************************************************)
\* The types of the variables, in parts.
QueuesOK == pool \in Seq(Bufs) /\ recvqueue \in Seq(Bufs) /\ sendqueue \in Seq(Bufs)

EvloopOK ==
  evloop \in [at : {"idle", "read", "close", "scratch", "notify"},
              fd : Fds \cup {0}, buf : Bufs \cup {NoBuf}, todo : SUBSET (Fds \cup {0})]

RecvTaskOK ==
  recvtask \in [at : {"idle", "handle", "copy", "logout"},
                buf : Bufs \cup {NoBuf}, scratch : Bufs \cup {NoBuf},
                todo : SUBSET (Fds \cup {0}),
                end : {"none", "free", "reply", "forget", "logout"}]

SendTaskOK == sendtask \in [at : {"idle", "send"}, buf : Bufs \cup {NoBuf}, part : 0..Parts]

BufsOK == m_fd \in [Bufs -> Fds \cup {0}] /\ frame \in [Bufs -> Frames] /\ lost \subseteq Bufs

NetOK ==
  /\ conn \in [Fds -> 0..MaxConn]
  /\ accepted \in 0..MaxConn /\ gone \subseteq Conns
  /\ got \in [Conns -> Nat]

StreamOK == last \in [Conns -> Pieces] /\ newest \in [Conns -> [Conns -> Pieces]]

\* Every variable has its type.  Not by the shape of the model alone: a message
\* is only ever written to a connection and counted up to its last part if no
\* other thread touches its buffer meanwhile.
TypeOK ==
  /\ up \in BOOLEAN
  /\ QueuesOK /\ EvloopOK /\ RecvTaskOK /\ SendTaskOK /\ BufsOK
  /\ NetOK /\ roster \subseteq Fds /\ StreamOK

Elems(s) == {s[i] : i \in 1..Len(s)}

\* The buffers in the hands of the threads.  After a logout has freed its
\* message, RecvTask's pointer to it dangles.
EvloopBuf == IF evloop.at \in {"read", "notify"} THEN {evloop.buf} ELSE {}
RecvTaskBuf ==
  IF recvtask.at \in {"handle", "copy"} THEN {recvtask.buf, recvtask.scratch} ELSE {}
SendTaskBuf == IF sendtask.at = "send" THEN {sendtask.buf} ELSE {}

\* Where a buffer is, read off the queues and the threads.
PlaceOf(b) ==
  CASE b \in lost -> "lost"
    [] b \in Elems(pool) -> "pool"
    [] b \in Elems(recvqueue) -> "recvq"
    [] b \in Elems(sendqueue) -> "sendq"
    [] b \in EvloopBuf -> "evloop"
    [] b \in RecvTaskBuf -> "recvtask"
    [] b \in SendTaskBuf -> "sendtask"
    [] OTHER -> "nowhere"

place == [b \in Bufs |-> PlaceOf(b)]

\* The three threads together treat every buffer as BufLife says: no buffer
\* is given away twice, queued twice or freed while it is queued.
Life == INSTANCE BufLife WITH Bufs <- Bufs, place <- place
LifeCycle == Life!Spec

Before(x, y) == x.n < y.n \/ (x.n = y.n /\ x.part < y.part)

\* Order and at most once: of one client's messages, another client gets
\* every piece at most once and in the order they were sent, through two
\* queues, three threads and copies.
InOrder ==
  [][\A c, src \in Conns :
       newest'[c][src] # newest[c][src] => Before(newest[c][src], newest'[c][src])]_vars

Continues(x, y) == x.src = y.src /\ x.n = y.n /\ y.part = x.part + 1

\* Framing: after its first piece, a connection only ever gets the rest of the
\* message just begun, or a new message after a complete one.
Framed ==
  [][\A c \in Conns :
       last'[c] # last[c] =>
         \/ last[c] = NoPiece
         \/ Continues(last[c], last'[c])
         \/ last[c].part = Parts /\ last'[c].part = 1]_vars

\* What the comment in SendTask::work asks for, "must be need written bytes
\* data finished": what a connection gets first is the start of a message,
\* never the rest of one whose start went elsewhere.
NoTornMessage ==
  [][\A c \in Conns : last'[c] # last[c] /\ last[c] = NoPiece => last'[c].part = 1]_vars

\* Every message received is dealt with: its buffer gets back to the pool,
\* unless a handler forgot it or the process is down.
Settles ==
  \A b \in Bufs :
    (b \in Elems(recvqueue)) ~> (b \in Elems(pool) \/ b \in lost \/ ~up)

==============================================================================
