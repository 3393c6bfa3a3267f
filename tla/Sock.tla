-------------------------------- MODULE Sock ---------------------------------
(***************************************************************************)
(* How Evloop takes messages off the sockets (Evloop::recv_cb in           *)
(* Evloop.cpp, recv_v in Sock.c).  A message is its length, HeadLen bytes, *)
(* and that many bytes more; a client's bytes arrive in pieces, however it *)
(* wrote them.  The sockets do not block: recv_v repeats a recv that found *)
(* nothing for as long as errno is EAGAIN, and errno is the thread's, not  *)
(* the call's.  The length is the client's word: one below that of the     *)
(* head closes the connection, one above that of the buffer is not noticed *)
(* and the bytes go on after the buffer's end.                             *)
(*                                                                         *)
(* A byte stands for one or more of the real ones.  EINTR, which recv_v    *)
(* treats like EAGAIN, is left out.                                        *)
(***************************************************************************)
EXTENDS Integers, Sequences, FiniteSets

CONSTANTS
  Conns,    \* connections
  Sizes,    \* bound: per connection, the lengths its heads name, less HeadLen
  HeadLen,  \* sizeof (int)
  MaxBuf    \* MAX_BUF, the bytes of a buffer

ASSUME SockAssumption ==
  Sizes \in [Conns -> Seq(Int)] /\ HeadLen \in Nat \ {0} /\ MaxBuf \in Nat /\ HeadLen <= MaxBuf

VARIABLES
  peer,     \* the client's end: "off", "open", "closed" or "reset"
  written,  \* bytes the client has written
  taken,    \* bytes recv has returned
  sock,     \* the server's end: "none", "open" or "closed"
  at,       \* Evloop: "idle", in recv_v for the "head" or the "body", "close", or "down"
  cur, from, left,  \* the connection, where its message began, bytes to go
  errno,    \* of the thread of Evloop: "EAGAIN" or "other"
  recvqueue, \* the messages enqueued: connection, and where they begin and end
  overrun   \* history: bytes went past the end of a buffer

clients == <<peer, written>>
reader == <<at, cur, from, left>>
vars == <<clients, taken, sock, reader, errno, recvqueue, overrun>>

\* The bytes of a body.
Body(size) == IF size < 0 THEN 0 ELSE size

\* Where the n-th message of c ends in the bytes of c.
End(c) ==
  LET end[n \in 0 .. Len(Sizes[c])] ==
        IF n = 0 THEN 0 ELSE end[n - 1] + HeadLen + Body(Sizes[c][n])
  IN end
Messages(c) == 1 .. Len(Sizes[c])
Total(c) == End(c)[Len(Sizes[c])]

\* The length in the head that begins at byte b.
LengthAt(c, b) ==
  Sizes[c][CHOOSE n \in Messages(c) : End(c)[n - 1] <= b /\ b < End(c)[n]]

Waiting(c) == written[c] - taken[c]

Init ==
  /\ peer = [c \in Conns |-> "off"]
  /\ written = [c \in Conns |-> 0] /\ taken = [c \in Conns |-> 0]
  /\ sock = [c \in Conns |-> "none"]
  /\ at = "idle" /\ cur \in Conns /\ from = 0 /\ left = 0
  /\ errno = "other"
  /\ recvqueue = <<>> /\ overrun = FALSE

(***************************************************************************)
(* Clients                                                                 *)
(***************************************************************************)
Connect(c) ==
  /\ peer[c] = "off"
  /\ peer' = [peer EXCEPT ![c] = "open"]
  /\ UNCHANGED <<written, taken, sock, reader, errno, recvqueue, overrun>>

\* One byte more arrives.
Write(c) ==
  /\ peer[c] = "open" /\ written[c] < Total(c)
  /\ written' = [written EXCEPT ![c] = @ + 1]
  /\ UNCHANGED <<peer, taken, sock, reader, errno, recvqueue, overrun>>

\* The client closes its end, or breaks off, in the middle of a message or not.
Hangup(c) ==
  /\ peer[c] = "open"
  /\ \E how \in {"closed", "reset"} : peer' = [peer EXCEPT ![c] = how]
  /\ UNCHANGED <<written, taken, sock, reader, errno, recvqueue, overrun>>

(***************************************************************************)
(* Evloop                                                                  *)
(***************************************************************************)
\* Calls besides recv (epoll_ctl, getpeername, writing the log) may fail or not.
OtherCalls == errno' \in {errno, "other"}

\* accept_cb.
Accept(c) ==
  /\ at = "idle" /\ peer[c] # "off" /\ sock[c] = "none"
  /\ sock' = [sock EXCEPT ![c] = "open"]
  /\ OtherCalls
  /\ UNCHANGED <<clients, taken, reader, recvqueue, overrun>>

\* libev calls recv_cb, and recv_cb recv_v for the length.
Ready(c) ==
  /\ at = "idle" /\ sock[c] = "open" /\ (Waiting(c) > 0 \/ peer[c] \in {"closed", "reset"})
  /\ at' = "head" /\ cur' = c /\ from' = taken[c] /\ left' = HeadLen
  /\ OtherCalls
  /\ UNCHANGED <<clients, taken, sock, recvqueue, overrun>>

InRecv == at \in {"head", "body"} /\ left > 0

MutFillsUp ==
  /\ InRecv /\ peer[cur] # "reset" /\ Waiting(cur) > 0
  /\ taken' = [taken EXCEPT ![cur] = @ + left]
  /\ left' = 0
  /\ UNCHANGED <<clients, sock, at, cur, from, errno, recvqueue, overrun>>

\* What is written is another buffer, perhaps of a message in the queue, or
\* memory without which the process ends.
PastTheEnd ==
  /\ overrun' = TRUE
  /\ at' \in {at, "down"}
  /\ recvqueue' \in {recvqueue} \cup
       {[recvqueue EXCEPT ![i].to = recvqueue[i].from] : i \in DOMAIN recvqueue}

\* recv returns bytes.
RecvSome ==
  LET n == IF Waiting(cur) < left THEN Waiting(cur) ELSE left IN
  /\ InRecv /\ peer[cur] # "reset" /\ n > 0
  /\ taken' = [taken EXCEPT ![cur] = @ + n]
  /\ left' = left - n
  /\ IF taken[cur] + n - from <= MaxBuf
     THEN UNCHANGED <<at, recvqueue, overrun>>
     ELSE PastTheEnd
  /\ UNCHANGED <<clients, sock, cur, from, errno>>

MutGiveUp ==
  /\ InRecv /\ peer[cur] = "open" /\ Waiting(cur) = 0
  /\ errno' = "EAGAIN"
  /\ at' = "close"
  /\ UNCHANGED <<clients, taken, sock, cur, from, left, recvqueue, overrun>>

\* recv returns -1 with EAGAIN, and is called again.
RecvNothing ==
  /\ InRecv /\ peer[cur] = "open" /\ Waiting(cur) = 0
  /\ errno' = "EAGAIN"
  /\ UNCHANGED <<clients, taken, sock, reader, recvqueue, overrun>>

MutEnqueuePart ==
  /\ InRecv /\ peer[cur] = "closed" /\ Waiting(cur) = 0 /\ errno # "EAGAIN"
  /\ IF at = "head" \/ left = LengthAt(cur, from)
       THEN at' = "close" /\ UNCHANGED recvqueue
       ELSE /\ at' = "idle"
            /\ recvqueue' = Append(recvqueue, [conn |-> cur, from |-> from, to |-> taken[cur]])
  /\ UNCHANGED <<clients, taken, sock, cur, from, left, errno, overrun>>

\* recv returns 0, the end of the stream.  errno is what it was: if it is EAGAIN
\* from an earlier call, recv is called again, and that is no step.
RecvEnd ==
  /\ InRecv /\ peer[cur] = "closed" /\ Waiting(cur) = 0 /\ errno # "EAGAIN"
  /\ at' = "close"
  /\ UNCHANGED <<clients, taken, sock, cur, from, left, errno, recvqueue, overrun>>

MutResetKept ==
  /\ InRecv /\ peer[cur] = "reset"
  /\ errno' = "other"
  /\ at' = "idle"
  /\ UNCHANGED <<clients, taken, sock, cur, from, left, recvqueue, overrun>>

\* recv returns -1 with another error.
RecvReset ==
  /\ InRecv /\ peer[cur] = "reset"
  /\ errno' = "other"
  /\ at' = "close"
  /\ UNCHANGED <<clients, taken, sock, cur, from, left, recvqueue, overrun>>

\* The length has come: recv_v for the rest.
GotHead ==
  /\ at = "head" /\ left = 0
  /\ at' = "body" /\ left' = LengthAt(cur, from)
  /\ UNCHANGED <<clients, taken, sock, cur, from, errno, recvqueue, overrun>>

\* recv_v reads nothing when less than nothing is left, and returns a number
\* that is not the one hoped for.
BadLength ==
  /\ at = "body" /\ left < 0
  /\ at' = "close"
  /\ UNCHANGED <<clients, taken, sock, cur, from, left, errno, recvqueue, overrun>>

\* The rest has come: the message is enqueued.
GotBody ==
  /\ at = "body" /\ left = 0
  /\ recvqueue' = Append(recvqueue, [conn |-> cur, from |-> from, to |-> taken[cur]])
  /\ at' = "idle"
  /\ UNCHANGED <<clients, taken, sock, cur, from, left, errno, overrun>>

\* closefd.
closefd ==
  /\ at = "close"
  /\ sock' = [sock EXCEPT ![cur] = "closed"]
  /\ at' = "idle"
  /\ OtherCalls
  /\ UNCHANGED <<clients, taken, cur, from, left, recvqueue, overrun>>

(***************************************************************************)
(* Specification                                                           *)
(***************************************************************************)
InCallback ==
  \/ RecvSome \/ RecvNothing \/ RecvEnd \/ RecvReset
  \/ GotHead \/ BadLength \/ GotBody \/ closefd

Next ==
  \/ \E c \in Conns : Connect(c) \/ Write(c) \/ Hangup(c) \/ Accept(c) \/ Ready(c)
  \/ InCallback

Spec == Init /\ [][Next]_vars

MidMessage(c) == written[c] \notin {End(c)[n] : n \in 0 .. Len(Sizes[c])}

\* The thread runs, the event loop takes every event that stays, and a client
\* that has begun a message ends it or hangs up.
Fairness ==
  /\ WF_vars(InCallback)
  /\ \A c \in Conns : SF_vars(Accept(c)) /\ SF_vars(Ready(c))
  /\ \A c \in Conns : WF_vars(MidMessage(c) /\ (Write(c) \/ Hangup(c)))

FairSpec == Spec /\ Fairness

(***************************************************************************)
(* Properties                                                              *)
(***************************************************************************)
\* The variables have their types; no byte is read that was not written, and none
\* of a connection that is not open.
TypeOK ==
  /\ peer \in [Conns -> {"off", "open", "closed", "reset"}]
  /\ sock \in [Conns -> {"none", "open", "closed"}]
  /\ written \in [Conns -> Nat] /\ taken \in [Conns -> Nat]
  /\ \A c \in Conns : taken[c] <= written[c] /\ written[c] <= Total(c)
  /\ at \in {"idle", "head", "body", "close", "down"} /\ cur \in Conns
  /\ from \in Nat /\ left \in Int
  /\ at # "idle" => sock[cur] = "open" /\ from <= taken[cur]
  /\ errno \in {"EAGAIN", "other"}
  /\ recvqueue \in Seq([conn : Conns, from : Nat, to : Nat])
  /\ overrun \in BOOLEAN

\* How many of the first i messages enqueued are c's, and how many of all.
Among(c, i) == Cardinality({j \in 1 .. i : recvqueue[j].conn = c})
Enqueued(c) == Among(c, Len(recvqueue))

\* As long as no message was longer than a buffer, what is enqueued of a
\* connection is what it sent: whole messages, each once and in order, however the
\* bytes arrived, never the part that was there when the client hung up, and
\* nothing from a length on that cannot be one.
WholeMessages ==
  ~overrun => \A i \in 1 .. Len(recvqueue) :
    LET c == recvqueue[i].conn
        n == Among(c, i) IN
    /\ n <= Len(Sizes[c]) /\ \A k \in 1 .. n : Sizes[c][k] >= 0
    /\ recvqueue[i].from = End(c)[n - 1] /\ recvqueue[i].to = End(c)[n]
    /\ recvqueue[i].to - recvqueue[i].from <= MaxBuf

\* recv_v goes round for ever: the stream has ended, recv returns 0, and errno
\* is EAGAIN.
Stuck == InRecv /\ peer[cur] = "closed" /\ Waiting(cur) = 0 /\ errno = "EAGAIN"

\* Every message that has been written is enqueued in the end, unless its
\* connection broke off or named a length that cannot be one, Evloop is stuck or
\* a message too long for its buffer ended the process.
Delivered ==
  \A c \in Conns : \A n \in Messages(c) :
    written[c] >= End(c)[n] ~>
      \/ Enqueued(c) >= n
      \/ peer[c] = "reset" \/ \E k \in 1 .. n : Sizes[c][k] < 0
      \/ Stuck \/ at = "down"

\* A connection whose client has hung up is closed in the end ...
HangupIsSeen ==
  \A c \in Conns : peer[c] \in {"closed", "reset"} ~> sock[c] = "closed"

\* ... but for the one case, or when the process has ended.
HangupIsSeenUnlessStuck ==
  \A c \in Conns :
    peer[c] \in {"closed", "reset"} ~> sock[c] = "closed" \/ Stuck \/ at = "down"

==============================================================================
