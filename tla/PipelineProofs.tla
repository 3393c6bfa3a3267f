--------------------------- MODULE PipelineProofs ----------------------------
(***************************************************************************)
(* What TLAPS proves of Pipeline for every set of buffers and descriptors  *)
(* and every bound: that the three threads together implement the life of  *)
(* a buffer that BufLife describes, because no buffer is ever in two       *)
(* places, nor twice in one queue; and the typing that needs it.           *)
(***************************************************************************)
EXTENDS Pipeline, FiniteSetTheorems, TLAPS

(***************************************************************************)
(* Queues without duplicates                                               *)
(***************************************************************************)
NoDup(s) == \A i, j \in 1..Len(s) : s[i] = s[j] => i = j

\* Enqueueing adds one element, and makes no duplicate if it was not queued.
LEMMA AppendFacts ==
  ASSUME NEW s \in Seq(Bufs), NEW b \in Bufs
  PROVE  /\ Append(s, b) \in Seq(Bufs)
         /\ Elems(Append(s, b)) = Elems(s) \cup {b}
         /\ NoDup(s) /\ b \notin Elems(s) => NoDup(Append(s, b))
<1> DEFINE t == Append(s, b)
<1>1. /\ t \in Seq(Bufs) /\ Len(t) = Len(s) + 1 /\ Len(s) \in Nat
      /\ \A i \in 1..Len(s) : t[i] = s[i]
      /\ t[Len(s) + 1] = b
  OBVIOUS
<1>2. 1..Len(t) = (1..Len(s)) \cup {Len(s) + 1}
  BY <1>1
<1>3. Elems(t) = Elems(s) \cup {b}
  <2> HIDE DEF t
  <2> QED BY <1>1, <1>2 DEF Elems
<1>4. ASSUME NoDup(s), b \notin Elems(s) PROVE NoDup(t)
  <2> HIDE DEF t
  <2> QED BY <1>1, <1>2, <1>4 DEF Elems, NoDup
<1> QED BY <1>1, <1>3, <1>4

\* Dequeueing removes the first element, which occurs nowhere else.
LEMMA TailFacts ==
  ASSUME NEW s \in Seq(Bufs), s # <<>>, NoDup(s)
  PROVE  /\ Tail(s) \in Seq(Bufs)
         /\ Head(s) \in Bufs /\ Head(s) \in Elems(s)
         /\ Elems(Tail(s)) = Elems(s) \ {Head(s)}
         /\ NoDup(Tail(s))
<1> DEFINE t == Tail(s)
<1>1. /\ t \in Seq(Bufs) /\ Len(s) \in Nat \ {0} /\ Len(t) = Len(s) - 1
      /\ \A i \in 1..Len(t) : t[i] = s[i + 1]
      /\ Head(s) = s[1] /\ s[1] \in Bufs
  OBVIOUS
<1>2. Head(s) \in Elems(s)
  BY <1>1 DEF Elems
<1>3. ASSUME NEW x \in Elems(t) PROVE x \in Elems(s) \ {Head(s)}
  <2> HIDE DEF t
  <2>1. PICK i \in 1..Len(t) : x = t[i]
    BY DEF Elems
  <2>2. i + 1 \in 1..Len(s) /\ x = s[i + 1] /\ i + 1 # 1 /\ 1 \in 1..Len(s)
    BY <1>1, <2>1
  <2> QED BY <1>1, <2>2 DEF Elems, NoDup
<1>4. ASSUME NEW x \in Elems(s) \ {Head(s)} PROVE x \in Elems(t)
  <2> HIDE DEF t
  <2>1. PICK i \in 1..Len(s) : x = s[i]
    BY DEF Elems
  <2>2. i - 1 \in 1..Len(t) /\ x = t[i - 1]
    BY <1>1, <2>1
  <2> QED BY <2>2 DEF Elems
<1>5. NoDup(t)
  <2> HIDE DEF t
  <2>1. SUFFICES ASSUME NEW i \in 1..Len(t), NEW j \in 1..Len(t), t[i] = t[j] PROVE i = j
    BY DEF NoDup
  <2>2. i + 1 \in 1..Len(s) /\ j + 1 \in 1..Len(s) /\ s[i + 1] = s[j + 1]
    BY <1>1, <2>1
  <2> QED BY <2>2 DEF NoDup
<1> QED BY <1>1, <1>2, <1>3, <1>4, <1>5

(***************************************************************************)
(* The invariant                                                           *)
(***************************************************************************)
Pooled == Elems(pool)
Received == Elems(recvqueue)
Outgoing == Elems(sendqueue)

NoneTwice == NoDup(pool) /\ NoDup(recvqueue) /\ NoDup(sendqueue)

\* Buffer b is at p, and only there.
Sole(b, p) ==
  /\ b \in Pooled <=> p = "pool"
  /\ b \in Received <=> p = "recvq"
  /\ b \in Outgoing <=> p = "sendq"
  /\ b \in EvloopBuf <=> p = "evloop"
  /\ b \in RecvTaskBuf <=> p = "recvtask"
  /\ b \in SendTaskBuf <=> p = "sendtask"
  /\ b \in lost <=> p = "lost"

\* No buffer is in two places, and none is out of reach without being lost.
Apart == \A b \in Bufs : \E p \in Life!Places : Sole(b, p)

\* What the threads hold are buffers, and those to be handled or sent have the
\* fd of a client.
EvloopHands ==
  /\ evloop.at # "idle" => evloop.fd \in Fds
  /\ evloop.at \notin {"read", "notify"} => evloop.buf = NoBuf
  /\ evloop.at = "read" => evloop.buf \in Bufs /\ conn[evloop.fd] \in Conns

RecvTaskHands ==
  /\ recvtask.at \in {"handle", "copy"} => recvtask.buf \in Bufs /\ m_fd[recvtask.buf] \in Fds
  /\ recvtask.at # "copy" => recvtask.scratch = NoBuf
  /\ recvtask.scratch # recvtask.buf \/ recvtask.buf = NoBuf

SendTaskHands ==
  sendtask.at = "send" =>
    sendtask.buf \in Bufs /\ m_fd[sendtask.buf] \in Fds /\ sendtask.part \in 1..Parts

ReceivedHands == \A b \in Received : m_fd[b] \in Fds

Hands == EvloopHands /\ RecvTaskHands /\ SendTaskHands /\ ReceivedHands

\* TypeOK needs Hands (whatever is sent has a connection to go to), Hands needs
\* Apart (nobody else changes the fd of a buffer in hand), and Apart needs that
\* no queue holds a buffer twice.
IInv == TypeOK /\ Hands /\ NoneTwice /\ Apart

(***************************************************************************)
(* The start                                                               *)
(***************************************************************************)

\* The constructor of PoolT has put every buffer into the pool, once.
LEMMA FullPoolFacts ==
  ASSUME NEW s \in FullPool
  PROVE  s \in Seq(Bufs) /\ NoDup(s) /\ Elems(s) = Bufs
<1> DEFINE n == Cardinality(Bufs)
<1>1. n \in Nat
  BY BufsAssumption, FS_CardinalityType
<1>2. s \in [1..n -> Bufs] /\ \A b \in Bufs : \E i \in 1..n : s[i] = b
  BY DEF FullPool
<1>3. s \in Seq(Bufs) /\ Len(s) = n
  <2> HIDE DEF n
  <2> QED BY <1>1, <1>2
<1>4. s \in Surjection(1..n, Bufs)
  BY <1>2 DEF Surjection
<1>5. IsFiniteSet(1..n) /\ Cardinality(1..n) = n
  BY <1>1, FS_Interval
<1>6. s \in Injection(1..n, Bufs)
  BY <1>4, <1>5, BufsAssumption, FS_SurjSameCardinalityImpliesInj
<1>7. NoDup(s)
  BY <1>3, <1>6 DEF Injection, IsInjective, NoDup
<1>8. Elems(s) = Bufs
  BY <1>2, <1>3 DEF Elems
<1> QED BY <1>3, <1>7, <1>8

\* The server starts with all its buffers in the pool and idle threads.
LEMMA InitInv == Init => IInv /\ Life!LifeInit
<1> SUFFICES ASSUME Init PROVE IInv /\ Life!LifeInit
  OBVIOUS
<1>1. pool \in Seq(Bufs) /\ NoDup(pool) /\ Pooled = Bufs
  BY FullPoolFacts DEF Init, Pooled
<1>2. recvqueue \in Seq(Bufs) /\ sendqueue \in Seq(Bufs) /\ Received = {} /\ Outgoing = {}
  BY DEF Init, Received, Outgoing, Elems
<1>3. TypeOK
  BY <1>1, <1>2, FdsAssumption, BoundsAssumption
  DEF Init, TypeOK, QueuesOK, EvloopOK, RecvTaskOK, SendTaskOK,
      BufsOK, NetOK, StreamOK, EvIdle, RecvIdle, SendIdle, Frames, Blank, Pieces, NoPiece, Conns, Parts
<1>4. Hands
  BY <1>2 DEF Init, Hands, EvloopHands, RecvTaskHands, SendTaskHands, ReceivedHands,
         EvIdle, RecvIdle, SendIdle
<1>5. NoneTwice
  BY <1>1 DEF Init, NoneTwice, NoDup
<1>6. ASSUME NEW b \in Bufs PROVE Sole(b, "pool")
  BY <1>1, <1>2 DEF Init, Sole, EvloopBuf, RecvTaskBuf, SendTaskBuf, EvIdle, RecvIdle, SendIdle
<1>7. Life!LifeInit
  BY <1>6 DEF Life!LifeInit, place, PlaceOf, Sole, Pooled, Received, Outgoing
<1> QED BY <1>3, <1>4, <1>5, <1>6, <1>7 DEF IInv, Apart, Life!Places

(***************************************************************************)
(* Moving a buffer                                                         *)
(***************************************************************************)

\* place reads off where a buffer is, if it is in one place only ...
LEMMA PlaceIs == \A b \in Bufs, p \in Life!Places : Sole(b, p) => place[b] = p
<1> SUFFICES ASSUME NEW b \in Bufs, NEW p \in Life!Places, Sole(b, p) PROVE place[b] = p
  OBVIOUS
<1>1. place[b] = PlaceOf(b)
  BY DEF place
<1>2. /\ b \in Elems(pool) <=> p = "pool"
      /\ b \in Elems(recvqueue) <=> p = "recvq"
      /\ b \in Elems(sendqueue) <=> p = "sendq"
      /\ b \in EvloopBuf <=> p = "evloop"
      /\ b \in RecvTaskBuf <=> p = "recvtask"
      /\ b \in SendTaskBuf <=> p = "sendtask"
      /\ b \in lost <=> p = "lost"
  BY DEF Sole, Pooled, Received, Outgoing
<1>3. p \in {"pool", "evloop", "recvq", "recvtask", "sendq", "sendtask", "lost"}
  BY DEF Life!Places
<1>4. PlaceOf(b) = p
  BY <1>2, <1>3 DEF PlaceOf
<1> QED BY <1>1, <1>4

\* ... and after a step as before it.
LEMMA PlaceWillBe == \A b \in Bufs, p \in Life!Places : Sole(b, p)' => place'[b] = p
<1>1. (\A b \in Bufs, p \in Life!Places : Sole(b, p) => place[b] = p)'
  BY PlaceIs, PTL
<1> QED BY <1>1

\* A step leaves buffer x where it is.
Stays(x) ==
  /\ x \in Pooled' <=> x \in Pooled
  /\ x \in Received' <=> x \in Received
  /\ x \in Outgoing' <=> x \in Outgoing
  /\ x \in EvloopBuf' <=> x \in EvloopBuf
  /\ x \in RecvTaskBuf' <=> x \in RecvTaskBuf
  /\ x \in SendTaskBuf' <=> x \in SendTaskBuf
  /\ x \in lost' <=> x \in lost

\* A step takes buffer b from p to q and leaves all others where they are.
Moves(b, p, q) ==
  /\ b \in Bufs /\ <<p, q>> \in Life!Ways
  /\ Sole(b, p) /\ Sole(b, q)'
  /\ \A x \in Bufs \ {b} : Stays(x)

\* Such a step is a step of BufLife and keeps the buffers apart.
LEMMA MoveIsLife ==
  ASSUME Apart, NEW b, NEW p, NEW q, Moves(b, p, q)
  PROVE  Apart' /\ Life!LifeNext
<1>1. p \in Life!Places /\ q \in Life!Places
  BY DEF Moves, Life!Ways, Life!Places
<1>2. ASSUME NEW x \in Bufs \ {b}, NEW o \in Life!Places, Sole(x, o)
      PROVE  Sole(x, o)' /\ place[x] = o /\ place'[x] = o
  <2>1. Sole(x, o)'
    BY <1>2 DEF Moves, Stays, Sole
  <2> QED BY <1>2, <2>1, PlaceIs, PlaceWillBe
<1>3. place[b] = p /\ place'[b] = q
  BY <1>1, PlaceIs, PlaceWillBe DEF Moves
<1>4. \A x \in Bufs : \E o \in Life!Places : Sole(x, o)' /\ place'[x] = o
  BY <1>1, <1>2, <1>3 DEF Apart, Moves
<1>5. place' \in [Bufs -> Life!Places]
  <2>1. place' = [x \in Bufs |-> place'[x]]
    BY DEF place
  <2> QED BY <1>4, <2>1
<1>6. Life!Move(b)
  BY <1>2, <1>3 DEF Life!Move, Apart, Moves
<1> QED BY <1>4, <1>5, <1>6 DEF Apart, Life!LifeNext, Moves

\* A step that moves no buffer keeps them apart and is none of BufLife.
LEMMA StayIsLife ==
  ASSUME Apart, \A x \in Bufs : Stays(x)
  PROVE  Apart' /\ UNCHANGED place
<1>1. ASSUME NEW x \in Bufs, NEW o \in Life!Places, Sole(x, o)
      PROVE  Sole(x, o)' /\ place[x] = o /\ place'[x] = o
  <2>1. Sole(x, o)'
    BY <1>1 DEF Stays, Sole
  <2> QED BY <1>1, <2>1, PlaceIs, PlaceWillBe
<1>2. Apart' /\ \A x \in Bufs : place'[x] = place[x]
  BY <1>1 DEF Apart
<1>3. place = [x \in Bufs |-> place[x]] /\ place' = [x \in Bufs |-> place'[x]]
  BY DEF place
<1> QED BY <1>2, <1>3

(***************************************************************************)
(* Every step moves one buffer along one of the ways, or none              *)
(***************************************************************************)

\* A buffer found somewhere is nowhere else.
LEMMA SoleAt ==
  ASSUME Apart, NEW b \in Bufs
  PROVE  /\ b \in Pooled => Sole(b, "pool")
         /\ b \in Received => Sole(b, "recvq")
         /\ b \in Outgoing => Sole(b, "sendq")
         /\ b \in EvloopBuf => Sole(b, "evloop")
         /\ b \in RecvTaskBuf => Sole(b, "recvtask")
         /\ b \in SendTaskBuf => Sole(b, "sendtask")
BY DEF Apart, Sole

\* What has to be shown of a step.
Living == NoneTwice' /\ Apart' /\ [Life!LifeNext]_place

\* malloc takes a buffer that is nowhere else.
LEMMA MallocFacts ==
  ASSUME TypeOK, NoneTwice, Apart, pool # <<>>, pool' = Tail(pool)
  PROVE  /\ Head(pool) \in Bufs /\ Sole(Head(pool), "pool")
         /\ Pooled' = Pooled \ {Head(pool)} /\ NoDup(pool)'
<1>1. /\ Head(pool) \in Bufs /\ Head(pool) \in Pooled
      /\ Pooled' = Pooled \ {Head(pool)} /\ NoDup(pool)'
  BY TailFacts DEF TypeOK, QueuesOK, NoneTwice, Pooled
<1> QED BY <1>1, SoleAt

\* free gives back a buffer that is not in the pool.
LEMMA FreeFacts ==
  ASSUME TypeOK, NoneTwice, NEW b \in Bufs, b \notin Pooled, Free(b)
  PROVE  Pooled' = Pooled \cup {b} /\ NoDup(pool)'
BY AppendFacts DEF TypeOK, QueuesOK, NoneTwice, Pooled, Free

\* The same for sendqueue.
LEMMA EnqueueFacts ==
  ASSUME TypeOK, NoneTwice, NEW b \in Bufs, b \notin Outgoing, sendqueue' = Append(sendqueue, b)
  PROVE  Outgoing' = Outgoing \cup {b} /\ NoDup(sendqueue)'
BY AppendFacts DEF TypeOK, QueuesOK, NoneTwice, Outgoing

\* A copy takes one buffer from the pool to sendqueue.
LEMMA CopyIsLife ==
  ASSUME IInv, pool # <<>>, NEW f, NEW to, SendCopy(f, to), recvqueue' = recvqueue,
         lost' = lost, SendTaskBuf' = SendTaskBuf,
         \A x \in Bufs : x \in EvloopBuf' <=> x \in EvloopBuf,
         \A x \in Bufs : x \in RecvTaskBuf' <=> x \in RecvTaskBuf
  PROVE  Living
<1>1. Head(pool) \in Bufs
  BY MallocFacts DEF IInv, SendCopy
<1> PICK b \in Bufs : b = Head(pool)
  BY <1>1
<1>2. Sole(b, "pool") /\ Pooled' = Pooled \ {b} /\ NoDup(pool)'
  BY MallocFacts DEF IInv, SendCopy
<1>3. b \notin Outgoing
  BY <1>2 DEF Sole
<1>4. Outgoing' = Outgoing \cup {b} /\ NoDup(sendqueue)'
  BY <1>3, EnqueueFacts DEF IInv, SendCopy
<1>5. Received' = Received /\ NoDup(recvqueue)'
  BY DEF IInv, NoneTwice, Received
<1>6. Moves(b, "pool", "sendq")
  BY <1>2, <1>4, <1>5 DEF Moves, Sole, Stays, Life!Ways
<1> QED BY <1>2, <1>4, <1>5, <1>6, MoveIsLife DEF IInv, Living, NoneTwice

\* A step that leaves every buffer where it is.
LEMMA NoMoveIsLife ==
  ASSUME IInv, UNCHANGED queues, lost' = lost,
         \A x \in Bufs : x \in EvloopBuf' <=> x \in EvloopBuf,
         \A x \in Bufs : x \in RecvTaskBuf' <=> x \in RecvTaskBuf,
         \A x \in Bufs : x \in SendTaskBuf' <=> x \in SendTaskBuf
  PROVE  Living
<1>1. Pooled' = Pooled /\ Received' = Received /\ Outgoing' = Outgoing /\ NoneTwice'
  BY DEF IInv, queues, NoneTwice, Pooled, Received, Outgoing
<1>2. \A x \in Bufs : Stays(x)
  BY <1>1 DEF Stays
<1> QED BY <1>1, <1>2, StayIsLife DEF IInv, Living

\* Crash changes nothing but up.
LEMMA CrashIsLife ==
  ASSUME IInv, Crash
  PROVE  Living
BY NoMoveIsLife DEF Crash, EvloopBuf, RecvTaskBuf, SendTaskBuf

\* The event loop: a buffer to read into, a message received, a read that
\* failed; the notices after a disconnect.
LEMMA EvloopLife ==
  ASSUME IInv, EvloopStep
  PROVE  Living
<1> USE DEF IInv
<1>1. CASE Accept
  BY <1>1, NoMoveIsLife DEF Accept, RecvTaskBuf, SendTaskBuf, EvloopBuf
<1>2. ASSUME NEW fd \in Fds, RecvMalloc(fd) PROVE Living
  <2>1. CASE pool = <<>>
    BY <1>2, <2>1, CrashIsLife DEF RecvMalloc
  <2>2. CASE pool # <<>>
    <3>1. /\ evloop.at = "idle" /\ evloop'.at = "read" /\ evloop'.buf = Head(pool)
          /\ pool' = Tail(pool)
          /\ UNCHANGED <<recvqueue, sendqueue, recvtask, sendtask, lost>>
      BY <1>2, <2>2 DEF RecvMalloc, EvIdle
    <3>2. PICK b \in Bufs : b = Head(pool)
      BY <2>2, <3>1, MallocFacts
    <3>3. Sole(b, "pool") /\ Pooled' = Pooled \ {b} /\ NoDup(pool)'
      BY <2>2, <3>1, <3>2, MallocFacts
    <3>4. EvloopBuf' = {b} /\ EvloopBuf = {}
      BY <3>1, <3>2 DEF EvloopBuf
    <3>5. Moves(b, "pool", "evloop")
      BY <3>1, <3>3, <3>4
      DEF Moves, Sole, Stays, Life!Ways, Received, Outgoing, RecvTaskBuf, SendTaskBuf
    <3> QED BY <3>1, <3>3, <3>5, MoveIsLife DEF Living, NoneTwice
  <2> QED BY <2>1, <2>2
<1>3. CASE RecvFrame
  <2>1. /\ evloop.at = "read" /\ evloop'.at = "idle"
        /\ recvqueue' = Append(recvqueue, evloop.buf)
        /\ UNCHANGED <<pool, sendqueue, recvtask, sendtask, lost>>
    BY <1>3 DEF RecvFrame, EvIdle
  <2>2. PICK b \in Bufs : b = evloop.buf
    BY <2>1 DEF Hands, EvloopHands
  <2>3. EvloopBuf = {b} /\ EvloopBuf' = {}
    BY <2>1, <2>2 DEF EvloopBuf
  <2>4. Sole(b, "evloop")
    BY <2>3, SoleAt
  <2>5. Received' = Received \cup {b} /\ NoDup(recvqueue)'
    BY <2>1, <2>2, <2>4, AppendFacts DEF TypeOK, QueuesOK, NoneTwice, Received, Sole
  <2>6. Moves(b, "evloop", "recvq")
    BY <2>1, <2>3, <2>4, <2>5
    DEF Moves, Sole, Stays, Life!Ways, Pooled, Outgoing, RecvTaskBuf, SendTaskBuf
  <2> QED BY <2>1, <2>5, <2>6, MoveIsLife DEF Living, NoneTwice
<1>4. CASE (ReadFails \/ NotifyDone) /\ evloop.buf \in Bufs
  <2>1. /\ evloop.at \in {"read", "notify"} /\ evloop'.at \notin {"read", "notify"}
        /\ Free(evloop.buf)
        /\ UNCHANGED <<recvqueue, sendqueue, recvtask, sendtask, lost>>
    <3>1. CASE ReadFails
      BY <3>1 DEF ReadFails, TypeOK, EvloopOK
    <3>2. CASE NotifyDone
      BY <1>4, <3>2, BufsAssumption DEF NotifyDone, EvIdle
    <3> QED BY <1>4, <3>1, <3>2
  <2>2. PICK b \in Bufs : b = evloop.buf
    BY <1>4
  <2>3. EvloopBuf = {b} /\ EvloopBuf' = {}
    BY <2>1, <2>2 DEF EvloopBuf
  <2>4. Sole(b, "evloop")
    BY <2>3, SoleAt
  <2>5. Pooled' = Pooled \cup {b} /\ NoDup(pool)'
    BY <2>1, <2>2, <2>4, FreeFacts DEF Sole
  <2>6. Moves(b, "evloop", "pool")
    BY <2>1, <2>3, <2>4, <2>5
    DEF Moves, Sole, Stays, Life!Ways, Received, Outgoing, RecvTaskBuf, SendTaskBuf
  <2> QED BY <2>1, <2>5, <2>6, MoveIsLife DEF Living, NoneTwice
<1>5. CASE NotifyDone /\ evloop.buf = NoBuf
  BY <1>5, NoMoveIsLife, BufsAssumption
  DEF NotifyDone, EvIdle, queues, RecvTaskBuf, SendTaskBuf, EvloopBuf
<1>6. CASE CloseFd
  BY <1>6, NoMoveIsLife DEF CloseFd, TypeOK, EvloopOK, RecvTaskBuf, SendTaskBuf, EvloopBuf
<1>7. CASE DelChief
  <2>1. /\ evloop.at = "scratch" /\ evloop.buf = NoBuf
        /\ evloop'.at = "notify" /\ evloop'.buf = NoBuf
        /\ UNCHANGED <<queues, recvtask, sendtask, lost>>
    BY <1>7 DEF DelChief, TypeOK, EvloopOK, Hands, EvloopHands
  <2>2. EvloopBuf = {} /\ EvloopBuf' = {NoBuf}
    BY <2>1 DEF EvloopBuf
  <2> QED BY <2>1, <2>2, BufsAssumption, NoMoveIsLife DEF RecvTaskBuf, SendTaskBuf
<1>8. CASE Scratch
  <2>1. CASE pool = <<>>
    BY <1>8, <2>1, CrashIsLife DEF Scratch
  <2>2. CASE pool # <<>>
    <3>1. /\ evloop.at = "scratch" /\ evloop'.at = "notify" /\ evloop'.buf = Head(pool)
          /\ pool' = Tail(pool)
          /\ UNCHANGED <<recvqueue, sendqueue, recvtask, sendtask, lost>>
      BY <1>8, <2>2 DEF Scratch, TypeOK, EvloopOK
    <3>2. PICK b \in Bufs : b = Head(pool)
      BY <2>2, <3>1, MallocFacts
    <3>3. Sole(b, "pool") /\ Pooled' = Pooled \ {b} /\ NoDup(pool)'
      BY <2>2, <3>1, <3>2, MallocFacts
    <3>4. EvloopBuf' = {b} /\ EvloopBuf = {}
      BY <3>1, <3>2 DEF EvloopBuf
    <3>5. Moves(b, "pool", "evloop")
      BY <3>1, <3>3, <3>4
      DEF Moves, Sole, Stays, Life!Ways, Received, Outgoing, RecvTaskBuf, SendTaskBuf
    <3> QED BY <3>1, <3>3, <3>5, MoveIsLife DEF Living, NoneTwice
  <2> QED BY <2>1, <2>2
<1>9. CASE Notify
  <2>1. CASE pool = <<>>
    BY <1>9, <2>1, CrashIsLife DEF Notify
  <2>2. CASE pool # <<>>
    <3>1. PICK to \in evloop.todo :
            /\ SendCopy(Blank, to)
            /\ evloop' = [evloop EXCEPT !.todo = @ \ {to}]
            /\ UNCHANGED <<recvqueue, recvtask, sendtask, lost>>
      BY <1>9, <2>2 DEF Notify
    <3>2. evloop'.at = evloop.at /\ evloop'.buf = evloop.buf
      BY <3>1 DEF TypeOK, EvloopOK
    <3> QED BY <2>2, <3>1, <3>2, CopyIsLife DEF EvloopBuf, RecvTaskBuf, SendTaskBuf
  <2> QED BY <2>1, <2>2
<1>10. QED
  <2>1. ReadFails => evloop.buf \in Bufs
    BY DEF ReadFails, Hands, EvloopHands
  <2>2. NotifyDone => evloop.buf \in Bufs \cup {NoBuf}
    BY DEF TypeOK, EvloopOK
  <2> QED BY <1>1, <1>2, <1>3, <1>4, <1>5, <1>6, <1>7, <1>8, <1>9, <2>1, <2>2
          DEF EvloopStep, EvloopInCallback

\* The handlers: what becomes of the message, the copies made of it and the
\* scratch buffer of update_all_student_status.
LEMMA RecvTaskLife ==
  ASSUME IInv, RecvTaskStep
  PROVE  Living
<1> USE DEF IInv
<1>1. CASE Take
  <2>1. /\ recvtask.at = "idle" /\ recvqueue # <<>>
        /\ recvtask'.at = "handle" /\ recvtask'.buf = Head(recvqueue) /\ recvtask'.scratch = NoBuf
        /\ recvqueue' = Tail(recvqueue)
        /\ UNCHANGED <<pool, sendqueue, evloop, sendtask, lost>>
    BY <1>1 DEF Take, RecvIdle
  <2>2. /\ Head(recvqueue) \in Bufs /\ Head(recvqueue) \in Received
        /\ Received' = Received \ {Head(recvqueue)} /\ NoDup(recvqueue)'
    BY <2>1, TailFacts DEF TypeOK, QueuesOK, NoneTwice, Received
  <2>3. PICK b \in Bufs : b = Head(recvqueue)
    BY <2>2
  <2>4. Sole(b, "recvq") /\ Received' = Received \ {b}
    BY <2>2, <2>3, SoleAt
  <2>5. RecvTaskBuf = {} /\ RecvTaskBuf' = {b, NoBuf}
    BY <2>1, <2>3 DEF RecvTaskBuf
  <2>6. Moves(b, "recvq", "recvtask")
    BY <2>1, <2>4, <2>5, BufsAssumption
    DEF Moves, Sole, Stays, Life!Ways, Pooled, Outgoing, EvloopBuf, SendTaskBuf
  <2> QED BY <2>1, <2>2, <2>6, MoveIsLife DEF Living, NoneTwice
<1>2. ASSUME recvtask.at \in {"handle", "copy"}, recvtask.scratch = NoBuf,
             recvtask'.at \notin {"handle", "copy"}, Free(recvtask.buf),
             UNCHANGED <<recvqueue, sendqueue, evloop, sendtask, lost>>
      PROVE  Living
  <2>1. PICK b \in Bufs : b = recvtask.buf
    BY <1>2 DEF Hands, RecvTaskHands
  <2>2. RecvTaskBuf = {b, NoBuf} /\ RecvTaskBuf' = {}
    BY <1>2, <2>1 DEF RecvTaskBuf
  <2>3. Sole(b, "recvtask")
    BY <2>2, SoleAt
  <2>4. Pooled' = Pooled \cup {b} /\ NoDup(pool)'
    BY <1>2, <2>1, <2>3, FreeFacts DEF Sole
  <2>5. Moves(b, "recvtask", "pool")
    BY <1>2, <2>2, <2>3, <2>4, BufsAssumption
    DEF Moves, Sole, Stays, Life!Ways, Received, Outgoing, EvloopBuf, SendTaskBuf
  <2> QED BY <1>2, <2>4, <2>5, MoveIsLife DEF Living, NoneTwice
<1>3. ASSUME recvtask.at \in {"handle", "copy"}, recvtask.scratch = NoBuf,
             recvtask'.at \notin {"handle", "copy"}, lost' = lost \cup {recvtask.buf},
             UNCHANGED <<queues, evloop, sendtask>>
      PROVE  Living
  <2>1. PICK b \in Bufs : b = recvtask.buf
    BY <1>3 DEF Hands, RecvTaskHands
  <2>2. RecvTaskBuf = {b, NoBuf} /\ RecvTaskBuf' = {}
    BY <1>3, <2>1 DEF RecvTaskBuf
  <2>3. Sole(b, "recvtask")
    BY <2>2, SoleAt
  <2>4. Moves(b, "recvtask", "lost")
    BY <1>3, <2>1, <2>2, <2>3, BufsAssumption
    DEF Moves, Sole, Stays, Life!Ways, queues, Pooled, Received, Outgoing, EvloopBuf, SendTaskBuf
  <2> QED BY <1>3, <2>4, MoveIsLife DEF Living, NoneTwice, queues
<1>4. ASSUME recvtask.at \in {"handle", "copy"}, recvtask.scratch = NoBuf,
             recvtask'.at \notin {"handle", "copy"},
             sendqueue' = Append(sendqueue, recvtask.buf),
             UNCHANGED <<pool, recvqueue, evloop, sendtask, lost>>
      PROVE  Living
  <2>1. PICK b \in Bufs : b = recvtask.buf
    BY <1>4 DEF Hands, RecvTaskHands
  <2>2. RecvTaskBuf = {b, NoBuf} /\ RecvTaskBuf' = {}
    BY <1>4, <2>1 DEF RecvTaskBuf
  <2>3. Sole(b, "recvtask")
    BY <2>2, SoleAt
  <2>4. Outgoing' = Outgoing \cup {b} /\ NoDup(sendqueue)'
    BY <1>4, <2>1, <2>3, EnqueueFacts DEF Sole
  <2>5. Moves(b, "recvtask", "sendq")
    BY <1>4, <2>2, <2>3, <2>4, BufsAssumption
    DEF Moves, Sole, Stays, Life!Ways, Pooled, Received, EvloopBuf, SendTaskBuf
  <2> QED BY <1>4, <2>4, <2>5, MoveIsLife DEF Living, NoneTwice
<1>5. ASSUME Handling PROVE recvtask.at = "handle" /\ recvtask.scratch = NoBuf
  BY <1>5 DEF Handling, Hands, RecvTaskHands
<1>6. CASE Register
  BY <1>2, <1>5, <1>6 DEF Register, RecvIdle
<1>7. CASE Discard
  BY <1>2, <1>5, <1>7 DEF Discard, RecvIdle
<1>8. CASE Forget
  BY <1>3, <1>5, <1>8 DEF Forget, RecvIdle
<1>9. CASE Reply
  BY <1>4, <1>5, <1>9 DEF Reply, RecvIdle
<1>10. CASE Forward
  BY <1>4, <1>5, <1>10 DEF Forward, RecvIdle
<1>11. CASE CopyToRoom \/ TellLogin
  <2>1. /\ recvtask.at = "handle" /\ recvtask'.at = "copy"
        /\ recvtask'.buf = recvtask.buf /\ recvtask'.scratch = recvtask.scratch
        /\ UNCHANGED <<queues, evloop, sendtask, lost>>
    BY <1>5, <1>11 DEF CopyToRoom, TellLogin, CopyTo, TypeOK, RecvTaskOK
  <2> QED BY <2>1, NoMoveIsLife DEF RecvTaskBuf, EvloopBuf, SendTaskBuf
<1>12. CASE TellLeaveEarly
  <2>1. CASE pool = <<>>
    BY <1>12, <2>1, CrashIsLife DEF TellLeaveEarly
  <2>2. CASE pool # <<>>
    <3>1. /\ recvtask.at = "handle" /\ recvtask.scratch = NoBuf
          /\ recvtask'.at = "copy" /\ recvtask'.buf = recvtask.buf
          /\ recvtask'.scratch = Head(pool) /\ pool' = Tail(pool)
          /\ UNCHANGED <<recvqueue, sendqueue, evloop, sendtask, lost>>
      BY <1>5, <1>12, <2>2 DEF TellLeaveEarly, TypeOK, RecvTaskOK
    <3>2. PICK b \in Bufs : b = Head(pool)
      BY <2>2, <3>1, MallocFacts
    <3>3. Sole(b, "pool") /\ Pooled' = Pooled \ {b} /\ NoDup(pool)'
      BY <2>2, <3>1, <3>2, MallocFacts
    <3>4. RecvTaskBuf = {recvtask.buf, NoBuf} /\ RecvTaskBuf' = {recvtask.buf, b}
      BY <3>1, <3>2 DEF RecvTaskBuf
    <3>5. Moves(b, "pool", "recvtask")
      BY <3>1, <3>3, <3>4, BufsAssumption
      DEF Moves, Sole, Stays, Life!Ways, Received, Outgoing, EvloopBuf, SendTaskBuf
    <3> QED BY <3>1, <3>3, <3>5, MoveIsLife DEF Living, NoneTwice
  <2> QED BY <2>1, <2>2
<1>13. CASE SkipCopy
  <2>1. /\ recvtask'.at = recvtask.at
        /\ recvtask'.buf = recvtask.buf /\ recvtask'.scratch = recvtask.scratch
        /\ UNCHANGED <<queues, evloop, sendtask, lost>>
    BY <1>13 DEF SkipCopy, TypeOK, RecvTaskOK
  <2> QED BY <2>1, NoMoveIsLife DEF RecvTaskBuf, EvloopBuf, SendTaskBuf
<1>14. CASE Copy
  <2>1. CASE pool = <<>>
    BY <1>14, <2>1, CrashIsLife DEF Copy
  <2>2. CASE pool # <<>>
    <3>1. PICK to \in recvtask.todo :
            /\ SendCopy(Copied, to)
            /\ recvtask' = [recvtask EXCEPT !.todo = @ \ {to}]
            /\ UNCHANGED <<recvqueue, evloop, sendtask, lost>>
      BY <1>14, <2>2 DEF Copy
    <3>2. PICK f : f = Copied
      OBVIOUS
    <3>3. /\ recvtask'.at = recvtask.at /\ recvtask'.buf = recvtask.buf
          /\ recvtask'.scratch = recvtask.scratch
      BY <3>1 DEF TypeOK, RecvTaskOK
    <3> QED BY <2>2, <3>1, <3>2, <3>3, CopyIsLife DEF EvloopBuf, RecvTaskBuf, SendTaskBuf
  <2> QED BY <2>1, <2>2
<1>15. CASE FreeScratch
  <2>1. /\ recvtask.at = "copy" /\ recvtask.scratch # NoBuf
        /\ recvtask'.at = "copy" /\ recvtask'.buf = recvtask.buf /\ recvtask'.scratch = NoBuf
        /\ Free(recvtask.scratch)
        /\ UNCHANGED <<recvqueue, sendqueue, evloop, sendtask, lost>>
    BY <1>15 DEF FreeScratch, TypeOK, RecvTaskOK
  <2>2. PICK b \in Bufs : b = recvtask.scratch
    BY <2>1 DEF TypeOK, RecvTaskOK
  <2>3. /\ RecvTaskBuf = {recvtask.buf, b} /\ RecvTaskBuf' = {recvtask.buf, NoBuf}
        /\ recvtask.buf # b
    BY <2>1, <2>2 DEF RecvTaskBuf, Hands, RecvTaskHands
  <2>4. Sole(b, "recvtask")
    BY <2>3, SoleAt
  <2>5. Pooled' = Pooled \cup {b} /\ NoDup(pool)'
    BY <2>1, <2>2, <2>4, FreeFacts DEF Sole
  <2>6. Moves(b, "recvtask", "pool")
    BY <2>1, <2>3, <2>4, <2>5, BufsAssumption
    DEF Moves, Sole, Stays, Life!Ways, Received, Outgoing, EvloopBuf, SendTaskBuf
  <2> QED BY <2>1, <2>5, <2>6, MoveIsLife DEF Living, NoneTwice
<1>16. CASE CopiesDone
  <2>1. /\ recvtask.at = "copy" /\ recvtask.scratch = NoBuf
        /\ recvtask'.at \in {"logout", "idle"}
        /\ UNCHANGED <<recvqueue, evloop, sendtask>>
    BY <1>16 DEF CopiesDone, RecvIdle, TypeOK, RecvTaskOK
  <2>2. CASE recvtask.end = "reply"
    BY <1>16, <2>1, <2>2, <1>4 DEF CopiesDone
  <2>3. CASE recvtask.end = "forget"
    <3>1. lost' = lost \cup {recvtask.buf} /\ UNCHANGED <<pool, sendqueue>>
      BY <1>16, <2>3 DEF CopiesDone
    <3> QED BY <2>1, <3>1, <1>3 DEF queues
  <2>4. CASE recvtask.end \notin {"reply", "forget"}
    BY <1>16, <2>1, <2>4, <1>2 DEF CopiesDone
  <2> QED BY <2>2, <2>3, <2>4
<1>17. CASE LogoutNotice
  <2>1. /\ recvtask.at = "logout" /\ recvtask'.at = "idle"
        /\ UNCHANGED <<recvqueue, evloop, sendtask, lost>>
    BY <1>17 DEF LogoutNotice, RecvIdle
  <2>2. RecvTaskBuf = {} /\ RecvTaskBuf' = {}
    BY <2>1 DEF RecvTaskBuf
  <2>3. ASSUME NEW white \in roster \cup {0}, pool # <<>>, SendCopy(Blank, white)
        PROVE  Living
    BY <2>1, <2>2, <2>3, CopyIsLife DEF EvloopBuf, SendTaskBuf
  <2>4. CASE UNCHANGED <<pool, sendqueue>>
    BY <2>1, <2>2, <2>4, NoMoveIsLife DEF EvloopBuf, SendTaskBuf, queues
  <2> QED BY <1>17, <2>3, <2>4 DEF LogoutNotice
<1>18. QED
  BY <1>1, <1>6, <1>7, <1>8, <1>9, <1>10, <1>11, <1>12, <1>13, <1>14, <1>15,
     <1>16, <1>17 DEF RecvTaskStep, HandlerStep

\* SendTask: a buffer to be sent, and back to the pool in the end.
LEMMA SendTaskLife ==
  ASSUME IInv, SendTaskStep
  PROVE  Living
<1> USE DEF IInv
<1>1. CASE SendTake
  <2>1. /\ sendtask.at = "idle" /\ sendqueue # <<>> /\ sendqueue' = Tail(sendqueue)
        /\ UNCHANGED <<recvqueue, evloop, recvtask, lost>>
    BY <1>1 DEF SendTake
  <2>2. /\ Head(sendqueue) \in Bufs /\ Head(sendqueue) \in Outgoing
        /\ Outgoing' = Outgoing \ {Head(sendqueue)} /\ NoDup(sendqueue)'
    BY <2>1, TailFacts DEF TypeOK, QueuesOK, NoneTwice, Outgoing
  <2>3. PICK b \in Bufs : b = Head(sendqueue)
    BY <2>2
  <2>4. Sole(b, "sendq") /\ Outgoing' = Outgoing \ {b} /\ SendTaskBuf = {}
    BY <2>1, <2>2, <2>3, SoleAt DEF SendTaskBuf
  <2>5. CASE m_fd[b] = 0
    <3>1. Free(b) /\ sendtask' = sendtask
      BY <1>1, <2>3, <2>5 DEF SendTake
    <3>2. Pooled' = Pooled \cup {b} /\ NoDup(pool)'
      BY <2>4, <3>1, FreeFacts DEF Sole
    <3>3. Moves(b, "sendq", "pool")
      BY <2>1, <2>4, <3>1, <3>2
      DEF Moves, Sole, Stays, Life!Ways, Received, EvloopBuf, RecvTaskBuf, SendTaskBuf
    <3> QED BY <2>1, <2>2, <3>2, <3>3, MoveIsLife DEF Living, NoneTwice
  <2>6. CASE m_fd[b] # 0
    <3>1. sendtask' = [at |-> "send", buf |-> b, part |-> 1] /\ pool' = pool
      BY <1>1, <2>3, <2>6 DEF SendTake
    <3>2. SendTaskBuf' = {b}
      BY <3>1 DEF SendTaskBuf
    <3>3. Moves(b, "sendq", "sendtask")
      BY <2>1, <2>4, <3>1, <3>2
      DEF Moves, Sole, Stays, Life!Ways, Pooled, Received, EvloopBuf, RecvTaskBuf
    <3> QED BY <2>1, <2>2, <3>1, <3>3, MoveIsLife DEF Living, NoneTwice
  <2> QED BY <2>5, <2>6
<1>2. ASSUME sendtask.at = "send", sendtask' = SendIdle, Free(sendtask.buf),
             UNCHANGED <<recvqueue, sendqueue, evloop, recvtask, lost>>
      PROVE  Living
  <2>1. PICK b \in Bufs : b = sendtask.buf
    BY <1>2 DEF Hands, SendTaskHands
  <2>2. SendTaskBuf = {b} /\ SendTaskBuf' = {}
    BY <1>2, <2>1 DEF SendTaskBuf, SendIdle
  <2>3. Sole(b, "sendtask")
    BY <2>2, SoleAt
  <2>4. Pooled' = Pooled \cup {b} /\ NoDup(pool)'
    BY <1>2, <2>1, <2>3, FreeFacts DEF Sole
  <2>5. Moves(b, "sendtask", "pool")
    BY <1>2, <2>2, <2>3, <2>4
    DEF Moves, Sole, Stays, Life!Ways, Received, Outgoing, EvloopBuf, RecvTaskBuf
  <2> QED BY <1>2, <2>4, <2>5, MoveIsLife DEF Living, NoneTwice
<1>3. CASE SendPart
  <2>1. CASE sendtask.part < Parts
    <3>1. /\ sendtask'.at = sendtask.at /\ sendtask'.buf = sendtask.buf
          /\ UNCHANGED <<queues, evloop, recvtask, lost>>
      BY <1>3, <2>1 DEF SendPart, TypeOK, SendTaskOK, queues
    <3> QED BY <3>1, NoMoveIsLife DEF EvloopBuf, RecvTaskBuf, SendTaskBuf
  <2>2. CASE ~(sendtask.part < Parts)
    BY <1>2, <1>3, <2>2 DEF SendPart
  <2> QED BY <2>1, <2>2
<1>4. CASE SendFails
  BY <1>2, <1>4 DEF SendFails
<1> QED BY <1>1, <1>3, <1>4 DEF SendTaskStep

\* Every step of the server is one step of BufLife, or none.
LEMMA LifeStep ==
  ASSUME IInv, [Next]_vars
  PROVE  Living
<1>1. ASSUME NEW c \in Conns, PeerLeaves(c) PROVE Living
  BY <1>1, NoMoveIsLife DEF PeerLeaves, EvloopBuf, RecvTaskBuf, SendTaskBuf
<1>2. CASE UNCHANGED vars
  BY <1>2, NoMoveIsLife DEF vars, queues, EvloopBuf, RecvTaskBuf, SendTaskBuf
<1> QED BY <1>1, <1>2, EvloopLife, RecvTaskLife, SendTaskLife DEF Next

(***************************************************************************)
(* Every step keeps the types                                              *)
(***************************************************************************)
bufs == <<m_fd, frame, lost>>

\* What a step leaves alone keeps its type.
LEMMA Untouched ==
  ASSUME TypeOK
  PROVE  /\ UNCHANGED up => up' \in BOOLEAN
         /\ UNCHANGED queues => QueuesOK'
         /\ UNCHANGED evloop => EvloopOK'
         /\ UNCHANGED recvtask => RecvTaskOK'
         /\ UNCHANGED sendtask => SendTaskOK'
         /\ UNCHANGED bufs => BufsOK'
         /\ UNCHANGED net => NetOK'
         /\ UNCHANGED roster => roster' \subseteq Fds
         /\ UNCHANGED stream => StreamOK'
<1> USE DEF TypeOK
<1>1. UNCHANGED queues => QueuesOK'
  BY DEF QueuesOK, queues
<1>2. UNCHANGED evloop => EvloopOK'
  BY DEF EvloopOK
<1>3. UNCHANGED recvtask => RecvTaskOK'
  BY DEF RecvTaskOK
<1>4. UNCHANGED sendtask => SendTaskOK'
  BY DEF SendTaskOK
<1>5. UNCHANGED bufs => BufsOK'
  BY DEF BufsOK, bufs
<1>6. UNCHANGED net => NetOK'
  BY DEF NetOK, net
<1>7. UNCHANGED stream => StreamOK'
  BY DEF StreamOK, stream
<1> QED BY <1>1, <1>2, <1>3, <1>4, <1>5, <1>6, <1>7

\* malloc
LEMMA MallocTypes ==
  ASSUME TypeOK, pool # <<>>
  PROVE  /\ Head(pool) \in Bufs
         /\ pool' = Tail(pool) /\ UNCHANGED <<recvqueue, sendqueue>> => QueuesOK'
<1>1. pool \in Seq(Bufs)
  BY DEF TypeOK, QueuesOK
<1>2. Head(pool) \in Bufs /\ Tail(pool) \in Seq(Bufs)
  BY <1>1
<1> QED BY <1>2 DEF TypeOK, QueuesOK

\* What is cleared is typed, and other buffers are not touched.
LEMMA ClearTypes ==
  ASSUME TypeOK, NEW b \in Bufs, Clear(b), lost' \subseteq Bufs
  PROVE  BufsOK' /\ \A x \in Bufs \ {b} : m_fd'[x] = m_fd[x]
<1>1. Blank \in Frames
  BY BoundsAssumption DEF Blank, Frames
<1> QED BY <1>1 DEF TypeOK, BufsOK, Clear

\* free
LEMMA FreeTypes ==
  ASSUME TypeOK, NEW b \in Bufs, Free(b), UNCHANGED <<recvqueue, sendqueue, lost>>
  PROVE  QueuesOK' /\ BufsOK' /\ \A x \in Bufs \ {b} : m_fd'[x] = m_fd[x]
<1>1. QueuesOK'
  BY DEF TypeOK, QueuesOK, Free
<1>2. lost' \subseteq Bufs
  BY DEF TypeOK, BufsOK
<1> QED BY <1>1, <1>2, ClearTypes DEF Free

\* malloc, fill in, enqueue: only a buffer of the pool is written to.
LEMMA CopyTypes ==
  ASSUME IInv, pool # <<>>, NEW f \in Frames, NEW to \in Fds \cup {0}, SendCopy(f, to),
         UNCHANGED <<recvqueue, lost>>
  PROVE  QueuesOK' /\ BufsOK' /\ \A x \in Bufs : x \notin Pooled => m_fd'[x] = m_fd[x]
<1>1. Head(pool) \in Bufs /\ Head(pool) \in Pooled /\ Tail(pool) \in Seq(Bufs)
  BY TailFacts DEF IInv, TypeOK, QueuesOK, NoneTwice, Pooled
<1>2. QueuesOK'
  BY <1>1 DEF IInv, TypeOK, QueuesOK, SendCopy
<1>3. BufsOK' /\ \A x \in Bufs : x # Head(pool) => m_fd'[x] = m_fd[x]
  BY <1>1 DEF IInv, TypeOK, BufsOK, SendCopy
<1> QED BY <1>1, <1>2, <1>3

\* Crash changes nothing but up.
LEMMA CrashTypes ==
  ASSUME TypeOK, Crash
  PROVE  TypeOK'
<1>1. UNCHANGED bufs /\ up' \in BOOLEAN
  BY DEF Crash, bufs
<1> QED BY <1>1, Untouched DEF Crash, TypeOK

\* The event loop.
LEMMA EvloopTypes ==
  ASSUME IInv, EvloopStep
  PROVE  TypeOK'
<1> USE DEF IInv, TypeOK
<1>1. CASE Accept
  <2>1. PICK fd \in Fds : conn' = [conn EXCEPT ![fd] = accepted + 1]
    BY <1>1 DEF Accept
  <2>2. accepted + 1 \in 0..MaxConn /\ accepted' = accepted + 1 /\ UNCHANGED <<gone, got>>
    BY <1>1, BoundsAssumption DEF Accept, NetOK
  <2>3. NetOK'
    BY <2>1, <2>2 DEF NetOK
  <2>4. UNCHANGED bufs
    BY <1>1 DEF Accept, bufs
  <2> QED BY <1>1, <2>3, <2>4, Untouched DEF Accept
<1>2. ASSUME NEW fd \in Fds, RecvMalloc(fd) PROVE TypeOK'
  <2>1. CASE pool = <<>>
    BY <1>2, <2>1, CrashTypes DEF RecvMalloc
  <2>2. CASE pool # <<>>
    <3>1. EvloopOK'
      BY <1>2, <2>2, MallocTypes DEF RecvMalloc, EvIdle, EvloopOK
    <3>2. QueuesOK' /\ UNCHANGED bufs
      BY <1>2, <2>2, MallocTypes DEF RecvMalloc, bufs
    <3> QED BY <1>2, <2>2, <3>1, <3>2, Untouched DEF RecvMalloc
  <2> QED BY <2>1, <2>2
<1>3. CASE RecvFrame
  <2> DEFINE c == conn[evloop.fd]
             f == [src |-> c, n |-> got[c] + 1]
  <2>1. evloop.buf \in Bufs /\ evloop.fd \in Fds /\ c \in Conns
    BY <1>3 DEF RecvFrame, Hands, EvloopHands
  <2>2. got[c] + 1 \in Nat /\ c \in 0..MaxConn
    BY <2>1, BoundsAssumption DEF NetOK, Conns
  <2>3. f \in Frames
    BY <2>2 DEF Frames
  <2>4. QueuesOK'
    BY <1>3, <2>1 DEF RecvFrame, QueuesOK
  <2>5. EvloopOK'
    BY <1>3 DEF RecvFrame, EvIdle, EvloopOK
  <2>6. NetOK'
    BY <1>3, <2>2 DEF RecvFrame, NetOK
  <2>7. /\ m_fd' = [m_fd EXCEPT ![evloop.buf] = evloop.fd]
        /\ frame' = [frame EXCEPT ![evloop.buf] = f]
        /\ lost' = lost
    BY <1>3 DEF RecvFrame
  <2>8. BufsOK'
    <3> HIDE DEF f
    <3> QED BY <2>1, <2>3, <2>7 DEF BufsOK
  <2> QED BY <1>3, <2>4, <2>5, <2>6, <2>8, Untouched DEF RecvFrame
<1>4. CASE ReadFails
  <2>1. PICK b \in Bufs : b = evloop.buf
    BY <1>4 DEF ReadFails, Hands, EvloopHands
  <2>2. QueuesOK' /\ BufsOK'
    BY <1>4, <2>1, FreeTypes DEF ReadFails
  <2>3. EvloopOK'
    BY <1>4 DEF ReadFails, EvloopOK
  <2> QED BY <1>4, <2>2, <2>3, Untouched DEF ReadFails
<1>5. CASE CloseFd
  <2>1. conn' \in [Fds -> 0..MaxConn]
    <3>1. 0 \in 0..MaxConn
      BY BoundsAssumption
    <3>2. conn' = [conn EXCEPT ![evloop.fd] = 0]
      BY <1>5 DEF CloseFd
    <3> QED BY <3>1, <3>2 DEF NetOK
  <2>2. NetOK' /\ UNCHANGED bufs
    BY <1>5, <2>1 DEF CloseFd, NetOK, bufs
  <2>3. EvloopOK'
    BY <1>5 DEF CloseFd, EvloopOK
  <2> QED BY <1>5, <2>2, <2>3, Untouched DEF CloseFd
<1>6. CASE DelChief
  <2>1. roster' \subseteq Fds /\ UNCHANGED bufs
    BY <1>6 DEF DelChief, bufs
  <2>2. EvloopOK'
    <3>1. PICK todo : /\ todo \in {{}, roster' \cup {0}}
                      /\ evloop' = [evloop EXCEPT !.at = "notify", !.todo = todo]
      BY <1>6 DEF DelChief
    <3>2. todo \in SUBSET (Fds \cup {0})
      BY <2>1, <3>1
    <3> QED BY <3>1, <3>2 DEF EvloopOK
  <2> QED BY <1>6, <2>1, <2>2, Untouched DEF DelChief
<1>7. CASE Scratch
  <2>1. CASE pool = <<>>
    BY <1>7, <2>1, CrashTypes DEF Scratch
  <2>2. CASE pool # <<>>
    <3>1. EvloopOK'
      <4>1. evloop' = [evloop EXCEPT !.at = "notify", !.buf = Head(pool),
                                     !.todo = (roster \ {evloop.fd}) \cup {0}]
        BY <1>7, <2>2 DEF Scratch
      <4>2. (roster \ {evloop.fd}) \cup {0} \in SUBSET (Fds \cup {0})
        OBVIOUS
      <4>3. Head(pool) \in Bufs
        BY <2>2, MallocTypes
      <4> QED BY <4>1, <4>2, <4>3 DEF EvloopOK
    <3>2. QueuesOK'
      BY <1>7, <2>2, MallocTypes DEF Scratch
    <3>3. up' \in BOOLEAN /\ roster' \subseteq Fds /\ UNCHANGED bufs
      BY <1>7, <2>2 DEF Scratch, bufs
    <3> QED BY <1>7, <2>2, <3>1, <3>2, <3>3, Untouched DEF Scratch
  <2> QED BY <2>1, <2>2
<1>8. CASE Notify
  <2>1. CASE pool = <<>>
    BY <1>8, <2>1, CrashTypes DEF Notify
  <2>2. CASE pool # <<>>
    <3>1. PICK to \in evloop.todo :
            /\ SendCopy(Blank, to)
            /\ evloop' = [evloop EXCEPT !.todo = @ \ {to}]
            /\ UNCHANGED <<up, recvqueue, recvtask, sendtask, lost, net, roster, stream>>
      BY <1>8, <2>2 DEF Notify
    <3>2. Blank \in Frames
      BY BoundsAssumption DEF Blank, Frames
    <3>3. to \in Fds \cup {0} /\ EvloopOK'
      BY <3>1 DEF EvloopOK
    <3>4. QueuesOK' /\ BufsOK'
      BY <2>2, <3>1, <3>2, <3>3, CopyTypes
    <3> QED BY <3>1, <3>3, <3>4, Untouched
  <2> QED BY <2>1, <2>2
<1>9. CASE NotifyDone
  <2>1. QueuesOK' /\ BufsOK'
    <3>1. CASE evloop.buf = NoBuf
      <4>1. UNCHANGED queues /\ UNCHANGED bufs
        BY <1>9, <3>1 DEF NotifyDone, queues, bufs
      <4> QED BY <4>1, Untouched
    <3>2. CASE evloop.buf # NoBuf
      <4>1. PICK b \in Bufs : b = evloop.buf
        BY <3>2 DEF EvloopOK
      <4> QED BY <1>9, <3>2, <4>1, FreeTypes DEF NotifyDone
    <3> QED BY <3>1, <3>2
  <2>2. EvloopOK'
    BY <1>9 DEF NotifyDone, EvIdle, EvloopOK
  <2> QED BY <1>9, <2>1, <2>2, Untouched DEF NotifyDone
<1> QED BY <1>1, <1>2, <1>3, <1>4, <1>5, <1>6, <1>7, <1>8, <1>9
        DEF EvloopStep, EvloopInCallback

\* The handlers.
LEMMA RecvTaskTypes ==
  ASSUME IInv, RecvTaskStep
  PROVE  TypeOK'
<1> USE DEF IInv, TypeOK
<1>1. recvtask' = RecvIdle => RecvTaskOK'
  BY DEF RecvIdle, RecvTaskOK
<1>2. Handling => recvtask.buf \in Bufs /\ m_fd[recvtask.buf] \in Fds
  BY DEF Handling, Hands, RecvTaskHands
<1>3. CASE Take
  <2>1. Head(recvqueue) \in Bufs /\ QueuesOK'
    BY <1>3 DEF Take, QueuesOK
  <2>2. RecvTaskOK' /\ UNCHANGED bufs
    BY <1>3, <2>1 DEF Take, RecvIdle, RecvTaskOK, bufs
  <2> QED BY <1>3, <2>1, <2>2, Untouched DEF Take
<1>4. ASSUME recvtask.buf \in Bufs, Free(recvtask.buf),
             UNCHANGED <<recvqueue, sendqueue, lost>>
      PROVE  QueuesOK' /\ BufsOK'
  <2>1. PICK b \in Bufs : b = recvtask.buf
    BY <1>4
  <2> QED BY <1>4, <2>1, FreeTypes
<1>5. CASE Register
  <2>1. up' \in BOOLEAN /\ roster' \subseteq Fds
    BY <1>2, <1>5 DEF Register
  <2>2. QueuesOK' /\ BufsOK'
    BY <1>2, <1>4, <1>5 DEF Register
  <2> QED BY <1>1, <1>5, <2>1, <2>2, Untouched DEF Register
<1>6. CASE Discard
  <2>1. QueuesOK' /\ BufsOK'
    BY <1>2, <1>4, <1>6 DEF Discard
  <2> QED BY <1>1, <1>6, <2>1, Untouched DEF Discard
<1>7. ASSUME recvtask.buf \in Bufs, Clear(recvtask.buf), lost' = lost \cup {recvtask.buf}
      PROVE  BufsOK'
  <2>1. PICK b \in Bufs : b = recvtask.buf
    BY <1>7
  <2>2. lost' \subseteq Bufs
    BY <1>7 DEF BufsOK
  <2> QED BY <1>7, <2>1, <2>2, ClearTypes
<1>8. CASE Forget
  <2>1. BufsOK'
    BY <1>2, <1>7, <1>8 DEF Forget
  <2> QED BY <1>1, <1>8, <2>1, Untouched DEF Forget
<1>9. ASSUME recvtask.buf \in Bufs, sendqueue' = Append(sendqueue, recvtask.buf),
             UNCHANGED <<pool, recvqueue>>
      PROVE  QueuesOK'
  BY <1>9 DEF QueuesOK
<1>10. CASE Reply
  <2>1. QueuesOK' /\ UNCHANGED bufs
    BY <1>2, <1>9, <1>10 DEF Reply, bufs
  <2> QED BY <1>1, <1>10, <2>1, Untouched DEF Reply
<1>11. CASE Forward
  <2>1. QueuesOK'
    BY <1>2, <1>9, <1>11 DEF Forward
  <2>2. BufsOK'
    BY <1>11 DEF Forward, BufsOK
  <2> QED BY <1>1, <1>11, <2>1, <2>2, Untouched DEF Forward
<1>12. CASE CopyToRoom \/ TellLogin
  <2>1. PICK todo \in SUBSET (Fds \cup {0}), end \in {"free", "reply", "logout"} :
          CopyTo(todo, end)
    BY <1>12 DEF CopyToRoom, TellLogin
  <2>2. RecvTaskOK' /\ UNCHANGED bufs
    BY <2>1 DEF CopyTo, RecvTaskOK, bufs
  <2> QED BY <2>1, <2>2, Untouched DEF CopyTo
<1>13. CASE TellLeaveEarly
  <2>1. CASE pool = <<>>
    BY <1>13, <2>1, CrashTypes DEF TellLeaveEarly
  <2>2. CASE pool # <<>>
    <3>1. RecvTaskOK'
      <4>1. recvtask' = [recvtask EXCEPT !.at = "copy", !.scratch = Head(pool),
                                         !.todo = roster \cup {0}, !.end = "forget"]
        BY <1>13, <2>2 DEF TellLeaveEarly
      <4>2. Head(pool) \in Bufs /\ roster \cup {0} \subseteq Fds \cup {0}
        BY <2>2, MallocTypes
      <4> QED BY <4>1, <4>2 DEF RecvTaskOK
    <3>2. QueuesOK' /\ UNCHANGED bufs
      BY <1>13, <2>2, MallocTypes DEF TellLeaveEarly, bufs
    <3> QED BY <1>13, <2>2, <3>1, <3>2, Untouched DEF TellLeaveEarly
  <2> QED BY <2>1, <2>2
<1>14. CASE SkipCopy
  <2>1. RecvTaskOK' /\ UNCHANGED bufs
    BY <1>14 DEF SkipCopy, RecvTaskOK, bufs
  <2> QED BY <1>14, <2>1, Untouched DEF SkipCopy
<1>15. CASE Copy
  <2>1. CASE pool = <<>>
    BY <1>15, <2>1, CrashTypes DEF Copy
  <2>2. CASE pool # <<>>
    <3>1. PICK to \in recvtask.todo :
            /\ SendCopy(Copied, to)
            /\ recvtask' = [recvtask EXCEPT !.todo = @ \ {to}]
            /\ UNCHANGED <<up, recvqueue, evloop, sendtask, lost, net, roster, stream>>
      BY <1>15, <2>2 DEF Copy
    <3>2. Blank \in Frames
      BY BoundsAssumption DEF Blank, Frames
    <3>3. PICK f \in Frames : f = Copied
      BY <1>15, <3>2 DEF Copy, Copied, Hands, RecvTaskHands, BufsOK
    <3>4. to \in Fds \cup {0} /\ RecvTaskOK'
      BY <3>1 DEF RecvTaskOK
    <3>5. QueuesOK' /\ BufsOK'
      BY <2>2, <3>1, <3>3, <3>4, CopyTypes
    <3> QED BY <3>1, <3>4, <3>5, Untouched
  <2> QED BY <2>1, <2>2
<1>16. CASE FreeScratch
  <2>1. PICK b \in Bufs : b = recvtask.scratch
    BY <1>16 DEF FreeScratch, RecvTaskOK
  <2>2. QueuesOK' /\ BufsOK'
    BY <1>16, <2>1, FreeTypes DEF FreeScratch
  <2>3. RecvTaskOK'
    BY <1>16 DEF FreeScratch, RecvTaskOK
  <2> QED BY <1>16, <2>2, <2>3, Untouched DEF FreeScratch
<1>17. CASE CopiesDone
  <2>1. recvtask.buf \in Bufs
    BY <1>17 DEF CopiesDone, Hands, RecvTaskHands
  <2>2. RecvTaskOK'
    BY <1>17 DEF CopiesDone, RecvIdle, RecvTaskOK
  <2>3. QueuesOK' /\ BufsOK'
    <3>1. CASE recvtask.end = "reply"
      <4>1. /\ sendqueue' = Append(sendqueue, recvtask.buf)
            /\ UNCHANGED <<pool, recvqueue>> /\ UNCHANGED bufs
        BY <1>17, <3>1 DEF CopiesDone, bufs
      <4> QED BY <1>9, <2>1, <4>1, Untouched
    <3>2. CASE recvtask.end = "forget"
      <4>1. /\ Clear(recvtask.buf) /\ lost' = lost \cup {recvtask.buf}
            /\ UNCHANGED queues
        BY <1>17, <3>2 DEF CopiesDone, queues
      <4> QED BY <1>7, <2>1, <4>1, Untouched
    <3>3. CASE recvtask.end \notin {"reply", "forget"}
      BY <1>4, <1>17, <2>1, <3>3 DEF CopiesDone
    <3> QED BY <3>1, <3>2, <3>3
  <2> QED BY <1>17, <2>2, <2>3, Untouched DEF CopiesDone
<1>18. CASE LogoutNotice
  <2>1. Blank \in Frames
    BY BoundsAssumption DEF Blank, Frames
  <2>2. recvqueue' = recvqueue /\ lost' = lost
    BY <1>18 DEF LogoutNotice
  <2>3. ASSUME NEW white \in roster \cup {0}, pool # <<>>, SendCopy(Blank, white)
        PROVE  QueuesOK' /\ BufsOK'
    BY <2>1, <2>2, <2>3, CopyTypes
  <2>4. ASSUME UNCHANGED <<pool, frame, m_fd, sendqueue>> PROVE QueuesOK' /\ BufsOK'
    BY <2>2, <2>4, Untouched DEF queues, bufs
  <2>5. QueuesOK' /\ BufsOK'
    BY <1>18, <2>3, <2>4 DEF LogoutNotice
  <2> QED BY <1>1, <1>18, <2>5, Untouched DEF LogoutNotice
<1> QED BY <1>3, <1>5, <1>6, <1>8, <1>10, <1>11, <1>12, <1>13, <1>14, <1>15,
           <1>16, <1>17, <1>18 DEF RecvTaskStep, HandlerStep

\* SendTask.
LEMMA SendTaskTypes ==
  ASSUME IInv, SendTaskStep
  PROVE  TypeOK'
<1> USE DEF IInv, TypeOK
<1>1. sendtask' = SendIdle => SendTaskOK'
  BY DEF SendIdle, SendTaskOK, Parts
<1>2. CASE SendTake
  <2>1. sendqueue # <<>> /\ sendqueue' = Tail(sendqueue) /\ UNCHANGED <<recvqueue, lost>>
    BY <1>2 DEF SendTake
  <2>2. PICK b \in Bufs : b = Head(sendqueue)
    BY <2>1 DEF QueuesOK
  <2>3. sendqueue' \in Seq(Bufs)
    BY <2>1 DEF QueuesOK
  <2>4. CASE m_fd[b] = 0
    <3>1. Free(b) /\ sendtask' = sendtask
      BY <1>2, <2>2, <2>4 DEF SendTake
    <3>2. QueuesOK'
      BY <2>1, <2>3, <3>1 DEF QueuesOK, Free
    <3>3. BufsOK'
      BY <2>1, <3>1, ClearTypes DEF Free, BufsOK
    <3> QED BY <1>2, <3>1, <3>2, <3>3, Untouched DEF SendTake
  <2>5. CASE m_fd[b] # 0
    <3>1. sendtask' = [at |-> "send", buf |-> b, part |-> 1] /\ UNCHANGED <<pool, frame, m_fd>>
      BY <1>2, <2>2, <2>5 DEF SendTake
    <3>2. QueuesOK' /\ UNCHANGED bufs
      BY <2>1, <2>3, <3>1 DEF QueuesOK, bufs
    <3>3. SendTaskOK'
      BY <3>1 DEF SendTaskOK, Parts
    <3> QED BY <1>2, <3>2, <3>3, Untouched DEF SendTake
  <2> QED BY <2>4, <2>5
<1>3. CASE SendPart
  <2>1. sendtask.buf \in Bufs /\ m_fd[sendtask.buf] \in Fds /\ sendtask.part \in 1..Parts
    BY <1>3 DEF SendPart, Hands, SendTaskHands
  <2>2. Target \in Conns
    BY <1>3, <2>1 DEF SendPart, Target, NetOK, Conns
  <2>3. Piece \in Pieces /\ (Piece.src # 0 => Piece.src \in Conns)
    <3>1. frame[sendtask.buf] \in Frames
      BY <2>1 DEF BufsOK
    <3> QED BY <2>1, <3>1, BoundsAssumption DEF Piece, Pieces, Frames, Conns, Parts
  <2>4. StreamOK'
    <3>1. CASE Target \in gone
      BY <1>3, <3>1, Untouched DEF SendPart, Write
    <3>2. CASE Target \notin gone
      <4>1. last' = [last EXCEPT ![Target] = Piece]
        BY <1>3, <3>2 DEF SendPart, Write
      <4>2. newest' = IF Piece.src = 0 THEN newest ELSE [newest EXCEPT ![Target][Piece.src] = Piece]
        BY <1>3, <3>2 DEF SendPart, Write
      <4> HIDE DEF Piece
      <4> QED BY <2>2, <2>3, <4>1, <4>2 DEF StreamOK
    <3> QED BY <3>1, <3>2
  <2>5. CASE sendtask.part < Parts
    <3>1. SendTaskOK'
      BY <1>3, <2>1, <2>5 DEF SendPart, SendTaskOK, Parts
    <3>2. UNCHANGED queues /\ UNCHANGED bufs
      BY <1>3, <2>5 DEF SendPart, queues, bufs
    <3> QED BY <1>3, <2>4, <3>1, <3>2, Untouched DEF SendPart
  <2>6. CASE ~(sendtask.part < Parts)
    <3>1. PICK b \in Bufs : b = sendtask.buf
      BY <2>1
    <3>2. Free(b) /\ sendtask' = SendIdle /\ UNCHANGED <<recvqueue, sendqueue, lost>>
      BY <1>3, <2>6, <3>1 DEF SendPart
    <3> QED BY <1>1, <1>3, <2>4, <3>2, FreeTypes, Untouched DEF SendPart
  <2> QED BY <2>5, <2>6
<1>4. CASE SendFails
  <2>1. PICK b \in Bufs : b = sendtask.buf
    BY <1>4 DEF SendFails, Hands, SendTaskHands
  <2>2. QueuesOK' /\ BufsOK'
    BY <1>4, <2>1, FreeTypes DEF SendFails
  <2> QED BY <1>1, <1>4, <2>2, Untouched DEF SendFails
<1> QED BY <1>2, <1>3, <1>4 DEF SendTaskStep

\* Every step of the server keeps the types.
LEMMA TypeStep ==
  ASSUME IInv, [Next]_vars
  PROVE  TypeOK'
<1>1. ASSUME NEW c \in Conns, PeerLeaves(c) PROVE TypeOK'
  <2>1. NetOK' /\ UNCHANGED bufs
    BY <1>1 DEF PeerLeaves, IInv, TypeOK, NetOK, bufs
  <2> QED BY <1>1, <2>1, Untouched DEF PeerLeaves, IInv, TypeOK
<1>2. CASE UNCHANGED vars
  <2>1. /\ UNCHANGED <<up, queues, evloop, recvtask, sendtask, roster>>
        /\ UNCHANGED bufs /\ UNCHANGED net /\ UNCHANGED stream
    BY <1>2 DEF vars, queues, bufs, net, stream
  <2> QED BY <2>1, Untouched DEF IInv, TypeOK
<1> QED BY <1>1, <1>2, EvloopTypes, RecvTaskTypes, SendTaskTypes DEF Next

(***************************************************************************)
(* Every step leaves the threads with buffers they can use                 *)
(***************************************************************************)

\* A buffer in a hand or in recvqueue is in no other place.
LEMMA HandsApart ==
  ASSUME IInv
  PROVE  /\ Received \subseteq Bufs /\ Pooled \cap Received = {}
         /\ recvtask.at \in {"handle", "copy"} =>
              recvtask.buf \notin Pooled \cup Received \cup Outgoing
         /\ sendtask.at = "send" =>
              sendtask.buf \notin Pooled \cup Received \cup Outgoing
         /\ recvtask.at \in {"handle", "copy"} /\ sendtask.at = "send" =>
              recvtask.buf # sendtask.buf
         /\ recvtask.scratch \in Bufs =>
              /\ recvtask.scratch \notin Pooled \cup Received
              /\ sendtask.at = "send" => recvtask.scratch # sendtask.buf
         /\ evloop.at \in {"read", "notify"} /\ evloop.buf \in Bufs =>
              /\ evloop.buf \notin Pooled \cup Received
              /\ sendtask.at = "send" => evloop.buf # sendtask.buf
              /\ recvtask.at \in {"handle", "copy"} => evloop.buf # recvtask.buf
<1>1. Received \subseteq Bufs
  BY DEF IInv, TypeOK, QueuesOK, Received, Elems
<1>2. ASSUME NEW b \in Bufs
      PROVE  /\ b \in Pooled => b \notin Received
             /\ b \in EvloopBuf => b \notin Pooled \cup Received \cup RecvTaskBuf \cup SendTaskBuf
             /\ b \in RecvTaskBuf => b \notin Pooled \cup Received \cup Outgoing \cup SendTaskBuf
             /\ b \in SendTaskBuf => b \notin Pooled \cup Received \cup Outgoing
  BY <1>2, SoleAt DEF IInv, Sole
<1>3. Pooled \subseteq Bufs
  BY DEF IInv, TypeOK, QueuesOK, Pooled, Elems
<1>4. Received \subseteq Bufs /\ Pooled \cap Received = {}
  BY <1>1, <1>2, <1>3
<1>5. ASSUME recvtask.at \in {"handle", "copy"}
      PROVE  recvtask.buf \in Bufs /\ recvtask.buf \in RecvTaskBuf
  BY <1>5 DEF IInv, Hands, RecvTaskHands, RecvTaskBuf
<1>6. ASSUME sendtask.at = "send"
      PROVE  sendtask.buf \in Bufs /\ sendtask.buf \in SendTaskBuf
  BY <1>6 DEF IInv, Hands, SendTaskHands, SendTaskBuf
<1>7. ASSUME recvtask.scratch \in Bufs PROVE recvtask.scratch \in RecvTaskBuf
  BY <1>7, BufsAssumption DEF IInv, Hands, RecvTaskHands, RecvTaskBuf
<1>8. ASSUME evloop.at \in {"read", "notify"} PROVE evloop.buf \in EvloopBuf
  BY <1>8 DEF EvloopBuf
<1> QED BY <1>2, <1>4, <1>5, <1>6, <1>7, <1>8

\* A thread that does nothing, while nobody changes the fd of its buffer, has
\* what it had.
LEMMA HandsKept ==
  ASSUME IInv
  PROVE  /\ UNCHANGED <<evloop, conn>> => EvloopHands'
         /\ /\ recvtask' = recvtask
            /\ recvtask.at \in {"handle", "copy"} => m_fd'[recvtask.buf] = m_fd[recvtask.buf]
            => RecvTaskHands'
         /\ /\ sendtask' = sendtask
            /\ sendtask.at = "send" => m_fd'[sendtask.buf] = m_fd[sendtask.buf]
            => SendTaskHands'
         /\ /\ recvqueue' = recvqueue
            /\ \A x \in Received : m_fd'[x] = m_fd[x]
            => ReceivedHands'
<1> USE DEF IInv, Hands
<1>1. ASSUME UNCHANGED <<evloop, conn>> PROVE EvloopHands'
  BY <1>1 DEF EvloopHands
<1>2. ASSUME recvtask' = recvtask,
             recvtask.at \in {"handle", "copy"} => m_fd'[recvtask.buf] = m_fd[recvtask.buf]
      PROVE  RecvTaskHands'
  BY <1>2 DEF RecvTaskHands
<1>3. ASSUME sendtask' = sendtask,
             sendtask.at = "send" => m_fd'[sendtask.buf] = m_fd[sendtask.buf]
      PROVE  SendTaskHands'
  BY <1>3 DEF SendTaskHands
<1>4. ASSUME recvqueue' = recvqueue, \A x \in Received : m_fd'[x] = m_fd[x]
      PROVE  ReceivedHands'
  BY <1>4 DEF ReceivedHands, Received
<1> QED BY <1>1, <1>2, <1>3, <1>4

\* RecvTask, SendTask and recvqueue are not touched by a step of Evloop that
\* changes no fd but that of its own buffer or of one from the pool.
LEMMA OthersKept ==
  ASSUME IInv, UNCHANGED <<recvtask, sendtask, recvqueue>>,
         \/ UNCHANGED m_fd
         \/ \A x \in Bufs : x \notin Pooled => m_fd'[x] = m_fd[x]
         \/ /\ evloop.at \in {"read", "notify"} /\ evloop.buf \in Bufs
            /\ \A x \in Bufs \ {evloop.buf} : m_fd'[x] = m_fd[x]
  PROVE  RecvTaskHands' /\ SendTaskHands' /\ ReceivedHands'
<1>1. ASSUME NEW x \in Bufs,
             \/ x \in Received
             \/ recvtask.at \in {"handle", "copy"} /\ x = recvtask.buf
             \/ sendtask.at = "send" /\ x = sendtask.buf
      PROVE  m_fd'[x] = m_fd[x]
  BY <1>1, HandsApart
<1>2. /\ recvtask.at \in {"handle", "copy"} => recvtask.buf \in Bufs
      /\ sendtask.at = "send" => sendtask.buf \in Bufs
      /\ Received \subseteq Bufs
  BY HandsApart DEF IInv, Hands, RecvTaskHands, SendTaskHands
<1> QED BY <1>1, <1>2, HandsKept

\* The event loop.
LEMMA EvloopHandsStep ==
  ASSUME IInv, EvloopStep
  PROVE  Hands'
<1> USE DEF IInv, TypeOK, Hands
<1>1. CASE Accept
  <2>1. evloop.at = "idle" /\ UNCHANGED <<evloop, recvtask, sendtask, m_fd, recvqueue>>
    BY <1>1 DEF Accept, queues
  <2>2. EvloopHands'
    BY <2>1 DEF EvloopHands
  <2> QED BY <2>1, <2>2, OthersKept
<1>2. ASSUME Crash PROVE Hands'
  BY <1>2, OthersKept, HandsKept DEF Crash, queues, net
<1>3. ASSUME NEW fd \in Fds, RecvMalloc(fd) PROVE Hands'
  <2>1. CASE pool = <<>>
    BY <1>2, <1>3, <2>1 DEF RecvMalloc
  <2>2. CASE pool # <<>>
    <3>1. /\ evloop' = [EvIdle EXCEPT !.at = "read", !.fd = fd, !.buf = Head(pool)]
          /\ UNCHANGED <<recvtask, sendtask, m_fd, recvqueue, conn>> /\ conn[fd] # 0
      BY <1>3, <2>2 DEF RecvMalloc, Readable, net
    <3>2. conn[fd] \in Conns /\ Head(pool) \in Bufs
      BY <2>2, <3>1, MallocTypes DEF NetOK, Conns
    <3>3. EvloopHands'
      BY <3>1, <3>2 DEF EvloopHands, EvIdle
    <3> QED BY <3>1, <3>3, OthersKept
  <2> QED BY <2>1, <2>2
<1>4. CASE RecvFrame
  <2>1. /\ evloop.at = "read" /\ evloop.buf \in Bufs /\ evloop.fd \in Fds
        /\ m_fd' = [m_fd EXCEPT ![evloop.buf] = evloop.fd]
        /\ recvqueue' = Append(recvqueue, evloop.buf)
        /\ evloop' = EvIdle /\ UNCHANGED <<recvtask, sendtask>>
    BY <1>4 DEF RecvFrame, EvloopHands
  <2>2. EvloopHands'
    BY <2>1 DEF EvloopHands, EvIdle
  <2>3. RecvTaskHands' /\ SendTaskHands'
    <3>1. /\ recvtask.at \in {"handle", "copy"} => recvtask.buf # evloop.buf
          /\ sendtask.at = "send" => sendtask.buf # evloop.buf
      BY <2>1, HandsApart
    <3>2. /\ recvtask.at \in {"handle", "copy"} => m_fd'[recvtask.buf] = m_fd[recvtask.buf]
          /\ sendtask.at = "send" => m_fd'[sendtask.buf] = m_fd[sendtask.buf]
      BY <2>1, <3>1 DEF RecvTaskHands, SendTaskHands, BufsOK
    <3> QED BY <2>1, <3>2, HandsKept
  <2>4. Received' = Received \cup {evloop.buf}
    BY <2>1, AppendFacts DEF QueuesOK, Received
  <2>5. ReceivedHands'
    BY <2>1, <2>4, HandsApart DEF ReceivedHands, BufsOK
  <2> QED BY <2>2, <2>3, <2>5
<1>5. CASE ReadFails
  <2>1. /\ evloop.at = "read" /\ evloop.buf \in Bufs /\ Free(evloop.buf)
        /\ evloop' = [evloop EXCEPT !.at = "close", !.buf = NoBuf]
        /\ UNCHANGED <<recvtask, sendtask, recvqueue, sendqueue, lost>>
    BY <1>5 DEF ReadFails, EvloopHands
  <2>2. EvloopHands'
    BY <2>1 DEF EvloopHands, EvloopOK
  <2>3. PICK b \in Bufs : b = evloop.buf
    BY <2>1
  <2>4. \A x \in Bufs \ {b} : m_fd'[x] = m_fd[x]
    BY <2>1, <2>3, FreeTypes
  <2> QED BY <2>1, <2>2, <2>3, <2>4, OthersKept
<1>6. CASE CloseFd
  <2>1. /\ evloop.at = "close" /\ evloop' = [evloop EXCEPT !.at = "scratch"]
        /\ UNCHANGED <<recvtask, sendtask, m_fd, recvqueue>>
    BY <1>6 DEF CloseFd, queues
  <2>2. EvloopHands'
    BY <2>1 DEF EvloopHands, EvloopOK
  <2> QED BY <2>1, <2>2, OthersKept
<1>7. CASE DelChief
  <2>1. /\ evloop.at = "scratch" /\ evloop'.at = "notify" /\ evloop'.fd = evloop.fd
        /\ UNCHANGED <<recvtask, sendtask, m_fd, recvqueue>>
    BY <1>7 DEF DelChief, queues, EvloopOK
  <2>2. EvloopHands'
    BY <2>1 DEF EvloopHands
  <2> QED BY <2>1, <2>2, OthersKept
<1>8. CASE Scratch
  <2>1. CASE pool = <<>>
    BY <1>2, <1>8, <2>1 DEF Scratch
  <2>2. CASE pool # <<>>
    <3>1. /\ evloop.at = "scratch" /\ evloop'.at = "notify" /\ evloop'.fd = evloop.fd
          /\ UNCHANGED <<recvtask, sendtask, m_fd, recvqueue>>
      BY <1>8, <2>2 DEF Scratch, EvloopOK
    <3>2. EvloopHands'
      BY <3>1 DEF EvloopHands
    <3> QED BY <3>1, <3>2, OthersKept
  <2> QED BY <2>1, <2>2
<1>9. CASE Notify
  <2>1. CASE pool = <<>>
    BY <1>2, <1>9, <2>1 DEF Notify
  <2>2. CASE pool # <<>>
    <3>1. PICK to \in evloop.todo :
            /\ SendCopy(Blank, to)
            /\ evloop' = [evloop EXCEPT !.todo = @ \ {to}]
            /\ UNCHANGED <<recvqueue, recvtask, sendtask, lost>>
      BY <1>9, <2>2 DEF Notify
    <3>2. Blank \in Frames /\ to \in Fds \cup {0}
      BY <3>1, BoundsAssumption DEF Blank, Frames, EvloopOK
    <3>3. \A x \in Bufs : x \notin Pooled => m_fd'[x] = m_fd[x]
      BY <2>2, <3>1, <3>2, CopyTypes
    <3>4. EvloopHands'
      BY <1>9, <3>1 DEF Notify, EvloopHands, EvloopOK
    <3> QED BY <3>1, <3>3, <3>4, OthersKept
  <2> QED BY <2>1, <2>2
<1>10. CASE NotifyDone
  <2>1. /\ evloop.at = "notify" /\ evloop' = EvIdle
        /\ UNCHANGED <<recvtask, sendtask, recvqueue, sendqueue, lost>>
    BY <1>10 DEF NotifyDone
  <2>2. EvloopHands'
    BY <2>1 DEF EvloopHands, EvIdle
  <2>3. CASE evloop.buf = NoBuf
    BY <1>10, <2>1, <2>2, <2>3, OthersKept DEF NotifyDone
  <2>4. CASE evloop.buf # NoBuf
    <3>1. PICK b \in Bufs : b = evloop.buf
      BY <2>4 DEF EvloopOK
    <3>2. \A x \in Bufs \ {b} : m_fd'[x] = m_fd[x]
      BY <1>10, <2>1, <2>4, <3>1, FreeTypes DEF NotifyDone
    <3> QED BY <2>1, <2>2, <3>1, <3>2, OthersKept
  <2> QED BY <2>3, <2>4
<1> QED BY <1>1, <1>3, <1>4, <1>5, <1>6, <1>7, <1>8, <1>9, <1>10
        DEF EvloopStep, EvloopInCallback

\* The handlers.
LEMMA RecvTaskHandsStep ==
  ASSUME IInv, RecvTaskStep
  PROVE  Hands'
<1> USE DEF IInv, TypeOK, Hands
<1>1. EvloopHands'
  <2>1. UNCHANGED <<evloop, conn>>
    BY DEF RecvTaskStep, HandlerStep, Take, Register, Discard, Forget, Reply, Forward,
           CopyToRoom, TellLogin, CopyTo, TellLeaveEarly, SkipCopy, Copy, FreeScratch,
           CopiesDone, LogoutNotice, Crash, net
  <2> QED BY <2>1, HandsKept
<1>2. ASSUME UNCHANGED <<sendtask, recvqueue>>,
             \/ UNCHANGED m_fd
             \/ \A x \in Bufs : x \notin Pooled => m_fd'[x] = m_fd[x]
             \/ /\ recvtask.at \in {"handle", "copy"}
                /\ \A x \in Bufs \ {recvtask.buf} : m_fd'[x] = m_fd[x]
             \/ /\ recvtask.scratch \in Bufs
                /\ \A x \in Bufs \ {recvtask.scratch} : m_fd'[x] = m_fd[x]
      PROVE  SendTaskHands' /\ ReceivedHands'
  <2>1. sendtask.at = "send" => m_fd'[sendtask.buf] = m_fd[sendtask.buf]
    BY <1>2, HandsApart DEF SendTaskHands
  <2>2. \A x \in Received : m_fd'[x] = m_fd[x]
    BY <1>2, HandsApart
  <2> QED BY <1>2, <2>1, <2>2, HandsKept
<1>3. ASSUME Crash PROVE Hands'
  BY <1>1, <1>2, <1>3, HandsKept DEF Crash, queues
<1>4. ASSUME Handling
      PROVE  /\ recvtask.at = "handle" /\ recvtask.buf \in Bufs /\ recvtask.scratch = NoBuf
             /\ m_fd[recvtask.buf] \in Fds
  BY <1>4 DEF Handling, RecvTaskHands
<1>5. ASSUME recvtask' = RecvIdle PROVE RecvTaskHands'
  BY <1>5 DEF RecvIdle, RecvTaskHands
<1>6. CASE Take
  <2>1. /\ recvqueue # <<>> /\ recvqueue' = Tail(recvqueue)
        /\ recvtask' = [RecvIdle EXCEPT !.at = "handle", !.buf = Head(recvqueue)]
        /\ UNCHANGED <<sendtask, m_fd>>
    BY <1>6 DEF Take
  <2>2. /\ Head(recvqueue) \in Bufs /\ Head(recvqueue) \in Received
        /\ Received' = Received \ {Head(recvqueue)}
    BY <2>1, TailFacts DEF QueuesOK, NoneTwice, Received
  <2>3. RecvTaskHands'
    BY <2>1, <2>2, BufsAssumption DEF RecvTaskHands, RecvIdle, ReceivedHands
  <2>4. SendTaskHands' /\ ReceivedHands'
    BY <2>1, <2>2, HandsKept DEF ReceivedHands
  <2> QED BY <1>1, <2>3, <2>4
<1>7. CASE Register \/ Discard
  <2>1. Handling /\ Free(recvtask.buf) /\ recvtask' = RecvIdle
        /\ UNCHANGED <<sendtask, recvqueue, sendqueue, lost>>
    BY <1>7 DEF Register, Discard
  <2>2. PICK b \in Bufs : b = recvtask.buf
    BY <1>4, <2>1
  <2>3. \A x \in Bufs \ {b} : m_fd'[x] = m_fd[x]
    BY <2>1, <2>2, FreeTypes
  <2> QED BY <1>1, <1>2, <1>4, <1>5, <2>1, <2>2, <2>3
<1>8. CASE Forget
  <2>1. Handling /\ Clear(recvtask.buf) /\ recvtask' = RecvIdle
        /\ UNCHANGED <<sendtask, recvqueue>>
    BY <1>8 DEF Forget, queues
  <2>2. \A x \in Bufs \ {recvtask.buf} : m_fd'[x] = m_fd[x]
    BY <1>4, <2>1 DEF Clear, BufsOK
  <2> QED BY <1>1, <1>2, <1>4, <1>5, <2>1, <2>2
<1>9. CASE Reply
  BY <1>1, <1>2, <1>5, <1>9 DEF Reply
<1>10. CASE Forward
  <2>1. \A x \in Bufs \ {recvtask.buf} : m_fd'[x] = m_fd[x]
    BY <1>10 DEF Forward, BufsOK
  <2> QED BY <1>1, <1>2, <1>4, <1>5, <1>10, <2>1 DEF Forward
<1>11. CASE CopyToRoom \/ TellLogin
  <2>1. /\ recvtask'.at = "copy" /\ recvtask'.buf = recvtask.buf
        /\ recvtask'.scratch = recvtask.scratch
        /\ Handling /\ UNCHANGED <<sendtask, recvqueue, m_fd>>
    BY <1>11 DEF CopyToRoom, TellLogin, CopyTo, queues, RecvTaskOK
  <2>2. RecvTaskHands'
    BY <1>4, <2>1 DEF RecvTaskHands
  <2> QED BY <1>1, <1>2, <2>1, <2>2
<1>12. CASE TellLeaveEarly
  <2>1. CASE pool = <<>>
    BY <1>3, <1>12, <2>1 DEF TellLeaveEarly
  <2>2. CASE pool # <<>>
    <3>1. /\ recvtask'.at = "copy" /\ recvtask'.buf = recvtask.buf
          /\ recvtask'.scratch = Head(pool)
          /\ Handling /\ UNCHANGED <<sendtask, recvqueue, m_fd>>
      BY <1>12, <2>2 DEF TellLeaveEarly, RecvTaskOK
    <3>2. Head(pool) # recvtask.buf
      BY <1>4, <2>2, <3>1, HandsApart, TailFacts DEF QueuesOK, NoneTwice, Pooled
    <3>3. RecvTaskHands'
      BY <1>4, <3>1, <3>2 DEF RecvTaskHands
    <3> QED BY <1>1, <1>2, <3>1, <3>3
  <2> QED BY <2>1, <2>2
<1>13. CASE SkipCopy
  <2>1. /\ recvtask'.at = recvtask.at /\ recvtask'.buf = recvtask.buf
        /\ recvtask'.scratch = recvtask.scratch
        /\ UNCHANGED <<sendtask, recvqueue, m_fd>>
    BY <1>13 DEF SkipCopy, queues, RecvTaskOK
  <2>2. RecvTaskHands'
    BY <2>1 DEF RecvTaskHands
  <2> QED BY <1>1, <1>2, <2>1, <2>2
<1>14. CASE Copy
  <2>1. CASE pool = <<>>
    BY <1>3, <1>14, <2>1 DEF Copy
  <2>2. CASE pool # <<>>
    <3>1. PICK to \in recvtask.todo :
            /\ SendCopy(Copied, to)
            /\ recvtask' = [recvtask EXCEPT !.todo = @ \ {to}]
            /\ UNCHANGED <<recvqueue, sendtask, lost>>
      BY <1>14, <2>2 DEF Copy
    <3>2. Blank \in Frames /\ to \in Fds \cup {0}
      BY <3>1, BoundsAssumption DEF Blank, Frames, RecvTaskOK
    <3>3. recvtask.at = "copy" /\ recvtask.buf \in Bufs
      BY <1>14 DEF Copy, RecvTaskHands
    <3>4. PICK f \in Frames : f = Copied
      BY <3>2, <3>3 DEF Copied, BufsOK
    <3>5. \A x \in Bufs : x \notin Pooled => m_fd'[x] = m_fd[x]
      BY <2>2, <3>1, <3>2, <3>4, CopyTypes
    <3>6. m_fd'[recvtask.buf] = m_fd[recvtask.buf]
      BY <3>3, <3>5, HandsApart
    <3>7. RecvTaskHands'
      BY <3>1, <3>3, <3>6 DEF RecvTaskHands, RecvTaskOK
    <3> QED BY <1>1, <1>2, <3>1, <3>5, <3>7
  <2> QED BY <2>1, <2>2
<1>15. CASE FreeScratch
  <2>1. /\ recvtask.at = "copy" /\ recvtask.scratch # NoBuf /\ Free(recvtask.scratch)
        /\ recvtask' = [recvtask EXCEPT !.scratch = NoBuf]
        /\ UNCHANGED <<sendtask, recvqueue, sendqueue, lost>>
    BY <1>15 DEF FreeScratch
  <2>2. PICK b \in Bufs : b = recvtask.scratch
    BY <2>1 DEF RecvTaskOK
  <2>3. \A x \in Bufs \ {b} : m_fd'[x] = m_fd[x]
    BY <2>1, <2>2, FreeTypes
  <2>4. recvtask.buf \in Bufs \ {b}
    BY <2>1, <2>2 DEF RecvTaskHands
  <2>5. RecvTaskHands'
    BY <2>1, <2>3, <2>4, BufsAssumption DEF RecvTaskHands, RecvTaskOK
  <2> QED BY <1>1, <1>2, <2>1, <2>2, <2>3, <2>5
<1>16. CASE CopiesDone
  <2>1. /\ recvtask.at = "copy" /\ recvtask.buf \in Bufs /\ recvtask.scratch = NoBuf
        /\ UNCHANGED <<sendtask, recvqueue>>
    BY <1>16 DEF CopiesDone, RecvTaskHands
  <2>2. RecvTaskHands'
    BY <1>16, <2>1, BufsAssumption DEF CopiesDone, RecvIdle, RecvTaskHands, RecvTaskOK
  <2>3. \A x \in Bufs \ {recvtask.buf} : m_fd'[x] = m_fd[x]
    <3>1. CASE recvtask.end = "reply"
      BY <1>16, <3>1 DEF CopiesDone
    <3>2. CASE recvtask.end = "forget"
      BY <1>16, <2>1, <3>2 DEF CopiesDone, Clear, BufsOK
    <3>3. CASE recvtask.end \notin {"reply", "forget"}
      BY <1>16, <2>1, <3>3 DEF CopiesDone, Free, Clear, BufsOK
    <3> QED BY <3>1, <3>2, <3>3
  <2> QED BY <1>1, <1>2, <2>1, <2>2, <2>3
<1>17. CASE LogoutNotice
  <2>1. recvtask' = RecvIdle /\ UNCHANGED <<sendtask, recvqueue, lost>>
    BY <1>17 DEF LogoutNotice
  <2>2. \/ UNCHANGED m_fd
        \/ \A x \in Bufs : x \notin Pooled => m_fd'[x] = m_fd[x]
    <3>1. Blank \in Frames
      BY BoundsAssumption DEF Blank, Frames
    <3>2. ASSUME NEW white \in roster \cup {0}, pool # <<>>, SendCopy(Blank, white)
          PROVE  \A x \in Bufs : x \notin Pooled => m_fd'[x] = m_fd[x]
      BY <2>1, <3>1, <3>2, CopyTypes
    <3> QED BY <1>17, <3>2 DEF LogoutNotice
  <2> QED BY <1>1, <1>2, <1>5, <2>1, <2>2
<1> QED BY <1>6, <1>7, <1>8, <1>9, <1>10, <1>11, <1>12, <1>13, <1>14, <1>15,
           <1>16, <1>17 DEF RecvTaskStep, HandlerStep

\* SendTask.
LEMMA SendTaskHandsStep ==
  ASSUME IInv, SendTaskStep
  PROVE  Hands'
<1> USE DEF IInv, TypeOK, Hands
<1>1. UNCHANGED <<evloop, conn, recvtask, recvqueue, lost>>
  BY DEF SendTaskStep, SendTake, SendPart, SendFails, net
<1>2. EvloopHands'
  BY <1>1, HandsKept
<1>3. ASSUME NEW b \in Bufs, b \notin Received,
             recvtask.at \in {"handle", "copy"} => b # recvtask.buf,
             \A x \in Bufs \ {b} : m_fd'[x] = m_fd[x]
      PROVE  RecvTaskHands' /\ ReceivedHands'
  <2>1. recvtask.at \in {"handle", "copy"} => m_fd'[recvtask.buf] = m_fd[recvtask.buf]
    BY <1>3 DEF RecvTaskHands
  <2>2. \A x \in Received : m_fd'[x] = m_fd[x]
    BY <1>3, HandsApart
  <2> QED BY <1>1, <2>1, <2>2, HandsKept
<1>4. CASE SendTake
  <2>1. /\ sendtask.at = "idle" /\ sendqueue # <<>>
    BY <1>4 DEF SendTake
  <2>2. Head(sendqueue) \in Bufs /\ Head(sendqueue) \in Outgoing
    BY <2>1, TailFacts DEF QueuesOK, NoneTwice, Outgoing
  <2>3. PICK b \in Bufs : b = Head(sendqueue)
    BY <2>2
  <2>4. b \notin Received /\ (recvtask.at \in {"handle", "copy"} => b # recvtask.buf)
    BY <2>2, <2>3, HandsApart, SoleAt DEF Sole
  <2>5. CASE m_fd[b] = 0
    <3>1. Free(b) /\ sendtask' = sendtask
      BY <1>4, <2>3, <2>5 DEF SendTake
    <3>2. \A x \in Bufs \ {b} : m_fd'[x] = m_fd[x]
      BY <3>1 DEF Free, Clear, BufsOK
    <3>3. SendTaskHands'
      BY <2>1, <3>1, HandsKept
    <3> QED BY <1>2, <1>3, <2>4, <3>2, <3>3
  <2>6. CASE m_fd[b] # 0
    <3>1. sendtask' = [at |-> "send", buf |-> b, part |-> 1] /\ m_fd' = m_fd
      BY <1>4, <2>3, <2>6 DEF SendTake
    <3>2. SendTaskHands'
      BY <2>6, <3>1 DEF SendTaskHands, BufsOK, Parts
    <3> QED BY <1>2, <1>3, <2>4, <3>1, <3>2
  <2> QED BY <2>5, <2>6
<1>5. ASSUME sendtask.at = "send", sendtask' = SendIdle, Free(sendtask.buf)
      PROVE  Hands'
  <2>1. PICK b \in Bufs : b = sendtask.buf
    BY <1>5 DEF SendTaskHands
  <2>2. \A x \in Bufs \ {b} : m_fd'[x] = m_fd[x]
    BY <1>5, <2>1 DEF Free, Clear, BufsOK
  <2>3. b \notin Received /\ (recvtask.at \in {"handle", "copy"} => b # recvtask.buf)
    BY <1>5, <2>1, HandsApart
  <2>4. SendTaskHands'
    BY <1>5 DEF SendIdle, SendTaskHands
  <2> QED BY <1>2, <1>3, <2>2, <2>3, <2>4
<1>6. CASE SendPart
  <2>1. CASE sendtask.part < Parts
    <3>1. /\ sendtask.at = "send" /\ m_fd' = m_fd
          /\ sendtask' = [sendtask EXCEPT !.part = @ + 1]
      BY <1>6, <2>1 DEF SendPart
    <3>2. SendTaskHands'
      BY <2>1, <3>1 DEF SendTaskHands, SendTaskOK, Parts
    <3> QED BY <1>1, <1>2, <3>1, <3>2, HandsKept
  <2>2. CASE ~(sendtask.part < Parts)
    BY <1>5, <1>6, <2>2 DEF SendPart
  <2> QED BY <2>1, <2>2
<1>7. CASE SendFails
  BY <1>5, <1>7 DEF SendFails
<1> QED BY <1>4, <1>6, <1>7 DEF SendTaskStep

\* Every step of the server.
LEMMA HandsStep ==
  ASSUME IInv, [Next]_vars
  PROVE  Hands'
<1>1. ASSUME NEW c \in Conns, PeerLeaves(c) PROVE Hands'
  <2>1. UNCHANGED <<evloop, conn, recvtask, sendtask, recvqueue, m_fd>>
    BY <1>1 DEF PeerLeaves, queues
  <2> QED BY <2>1, HandsKept DEF Hands
<1>2. CASE UNCHANGED vars
  <2>1. UNCHANGED <<evloop, conn, recvtask, sendtask, recvqueue, m_fd>>
    BY <1>2 DEF vars
  <2> QED BY <2>1, HandsKept DEF Hands
<1> QED BY <1>1, <1>2, EvloopHandsStep, RecvTaskHandsStep, SendTaskHandsStep DEF Next

(***************************************************************************)
(* Theorems                                                                *)
(***************************************************************************)

\* The invariant holds of every behaviour.
LEMMA Inductive == Spec => []IInv
<1>1. Init => IInv
  BY InitInv
<1>2. IInv /\ [Next]_vars => IInv'
  BY TypeStep, HandsStep, LifeStep DEF IInv, Living
<1> QED BY <1>1, <1>2, PTL DEF Spec

\* Every variable keeps its type: in particular SendTask only ever writes to a
\* connection, from a buffer of the pool.
THEOREM Typing == Spec => []TypeOK
<1>1. IInv => TypeOK
  BY DEF IInv
<1> QED BY <1>1, Inductive, PTL

\* No buffer is ever in two of the pool, the queues and the threads' hands,
\* nor twice in a queue: free is never called twice for one malloc, and no two
\* threads work on one message (PoolT.h, Evloop.cpp, RecvTask.cpp, SendTask.cpp).
THEOREM OnePlace == Spec => [](NoneTwice /\ Apart)
<1>1. IInv => NoneTwice /\ Apart
  BY DEF IInv
<1> QED BY <1>1, Inductive, PTL

\* The three threads together implement the life of a buffer.
THEOREM Lives == Spec => LifeCycle
<1>1. Init => Life!LifeInit
  BY InitInv
<1>2. IInv /\ [Next]_vars => [Life!LifeNext]_place
  BY LifeStep DEF Living
<1> QED BY <1>1, <1>2, Inductive, PTL DEF Spec, LifeCycle, Life!Spec

==============================================================================
