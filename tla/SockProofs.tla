------------------------------ MODULE SockProofs ------------------------------
(***************************************************************************)
(* Sock for any connections, messages and lengths: Evloop takes whole      *)
(* messages off the sockets.                                               *)
(*                                                                         *)
(* Between two callbacks, as many bytes of an open connection were taken   *)
(* as its messages in the queue have (OpenTaken); in a callback, the bytes *)
(* taken and those still to come add up to the part recv_v reads           *)
(* (Reading), or the head named a length that cannot be one.  A message    *)
(* longer than a buffer may damage the contents of the queue, but not      *)
(* whose its messages are (QueueDamaged).  Since the ends of the messages grow (EndsGrow), the byte at *)
(* which a head begins tells which message it is (LengthIs).  The ends are *)
(* a recursive function: what holds of all of them is shown with Climb.    *)
(***************************************************************************)
EXTENDS Sock, SequenceTheorems, FiniteSetTheorems, NatLemmas, TLAPS

(***************************************************************************)
(* The ends of the messages                                                *)
(***************************************************************************)

\* The sums of the messages' lengths up to the k-th.
Sums(c, k, f) ==
  f = [n \in 0 .. k |-> IF n = 0 THEN 0 ELSE f[n - 1] + HeadLen + Body(Sizes[c][n])]

LEMMA SumsExist ==
  ASSUME NEW c \in Conns
  PROVE  \E f : Sums(c, Len(Sizes[c]), f)
<1> DEFINE limit == Len(Sizes[c])
           T == {k \in 0 .. limit : \E f : Sums(c, k, f)}
<1>1. limit \in Nat
  BY SockAssumption
<1> HIDE DEF limit
<1>2. 0 \in T
  <2> DEFINE f == [n \in 0 .. 0 |-> 0]
  <2>1. f = [n \in 0 .. 0 |-> IF n = 0 THEN 0 ELSE f[n - 1] + HeadLen + Body(Sizes[c][n])]
    OBVIOUS
  <2>2. Sums(c, 0, f)
    BY <2>1 DEF Sums
  <2> QED BY <1>1, <2>2
<1>3. ASSUME NEW k \in 1 .. limit, k - 1 \in T PROVE k \in T
  <2>1. PICK f : Sums(c, k - 1, f)
    BY <1>3
  <2> DEFINE g == [n \in 0 .. k |-> IF n = 0 THEN 0 ELSE f[n - 1] + HeadLen + Body(Sizes[c][n])]
  <2> DEFINE F(h, n) == IF n = 0 THEN 0 ELSE h[n - 1] + HeadLen + Body(Sizes[c][n])
  <2>2. ASSUME NEW n \in 0 .. k - 1 PROVE g[n] = f[n]
    BY <2>1 DEF Sums
  <2>3. ASSUME NEW n \in 0 .. k PROVE F(f, n) = F(g, n)
    <3>1. CASE n = 0
      BY <3>1
    <3>2. CASE n # 0
      <4>1. n - 1 \in 0 .. k - 1
        BY <1>1, <3>2
      <4>2. g[n - 1] = f[n - 1]
        BY <2>2, <4>1
      <4> QED BY <4>2, Zenon
    <3> QED BY <3>1, <3>2
  <2>4. g = [n \in 0 .. k |-> F(f, n)]
    BY Zenon
  <2>5. g = [n \in 0 .. k |-> F(g, n)]
    <3> HIDE DEF F, g
    <3> QED BY <2>3, <2>4
  <2>6. Sums(c, k, g)
    BY <2>5, Zenon DEF Sums
  <2> QED BY <2>6
<1>4. limit \in T
  <2>1. \A n \in 1 .. limit : n - 1 \in T => n \in T
    BY <1>3, Zenon
  <2>2. 0 .. limit \subseteq T
    <3> HIDE DEF T
    <3> QED BY <1>1, <1>2, <2>1, Climb
  <2> QED BY <1>1, <2>2
<1> QED BY <1>4 DEF limit

\* Every message ends its head and its length after the one before it.
LEMMA EndIs ==
  ASSUME NEW c \in Conns
  PROVE  /\ End(c)[0] = 0
         /\ \A n \in Messages(c) : End(c)[n] = End(c)[n - 1] + HeadLen + Body(Sizes[c][n])
<1> DEFINE limit == Len(Sizes[c])
<1>1. limit \in Nat
  BY SockAssumption
<1>2. Sums(c, limit, End(c))
  BY SumsExist, Zenon DEF Sums, End
<1>3. \A n \in 0 .. limit :
        End(c)[n] = IF n = 0 THEN 0 ELSE End(c)[n - 1] + HeadLen + Body(Sizes[c][n])
  BY <1>2, Zenon DEF Sums
<1> QED BY <1>1, <1>3 DEF Messages

LEMMA EndType ==
  ASSUME NEW c \in Conns
  PROVE  /\ Len(Sizes[c]) \in Nat
         /\ \A n \in Messages(c) : Sizes[c][n] \in Int /\ Body(Sizes[c][n]) \in Nat
         /\ \A n \in 0 .. Len(Sizes[c]) : End(c)[n] \in Nat
<1> DEFINE limit == Len(Sizes[c])
           T == {n \in 0 .. limit : End(c)[n] \in Nat}
<1>1. limit \in Nat /\ \A n \in Messages(c) : Sizes[c][n] \in Int
  BY SockAssumption DEF Messages
<1>5. \A n \in Messages(c) : Body(Sizes[c][n]) \in Nat
  BY <1>1 DEF Body
<1> HIDE DEF limit
<1>2. 0 \in T
  BY <1>1, EndIs
<1>3. ASSUME NEW n \in 1 .. limit, n - 1 \in T PROVE n \in T
  <2>1. n \in Messages(c)
    BY DEF Messages, limit
  <2>2. End(c)[n] = End(c)[n - 1] + HeadLen + Body(Sizes[c][n])
    BY <2>1, EndIs
  <2>3. Body(Sizes[c][n]) \in Nat /\ HeadLen \in Nat /\ End(c)[n - 1] \in Nat
    BY <1>3, <1>5, <2>1, SockAssumption
  <2> QED BY <2>2, <2>3
<1>4. 0 .. limit \subseteq T
  <2>1. \A n \in 1 .. limit : n - 1 \in T => n \in T
    BY <1>3, Zenon
  <2> HIDE DEF T
  <2> QED BY <1>1, <1>2, <2>1, Climb
<1> QED BY <1>1, <1>4, <1>5 DEF limit

\* They grow from message to message.
LEMMA EndsGrow ==
  ASSUME NEW c \in Conns, NEW j \in 0 .. Len(Sizes[c])
  PROVE  \A i \in 0 .. j : End(c)[i] <= End(c)[j] /\ (i # j => End(c)[i] < End(c)[j])
<1> DEFINE Good(n) == \A i \in 0 .. n : End(c)[i] <= End(c)[n] /\ (i # n => End(c)[i] < End(c)[n])
           T == {n \in 0 .. j : Good(n)}
<1>1. Len(Sizes[c]) \in Nat /\ j \in Nat /\ \A n \in 0 .. j : End(c)[n] \in Nat
  BY EndType
<1>2. 0 \in T
  BY <1>1
<1>3. ASSUME NEW n \in 1 .. j, n - 1 \in T PROVE n \in T
  <2>1. n \in Messages(c)
    BY <1>1 DEF Messages
  <2>2. End(c)[n] > End(c)[n - 1]
    <3>1. Body(Sizes[c][n]) \in Nat /\ HeadLen \in Nat \ {0} /\ End(c)[n - 1] \in Nat
      BY <1>1, <2>1, EndType, SockAssumption
    <3>2. End(c)[n] = End(c)[n - 1] + HeadLen + Body(Sizes[c][n])
      BY <2>1, EndIs
    <3> QED BY <3>1, <3>2
  <2>3. \A i \in 0 .. n - 1 : End(c)[i] <= End(c)[n - 1]
    <3>1. Good(n - 1)
      <4> HIDE DEF Good
      <4> QED BY <1>3
    <3> QED BY <3>1
  <2>4. \A i \in 0 .. n : i = n \/ i \in 0 .. n - 1
    OBVIOUS
  <2>5. \A i \in 0 .. n : End(c)[i] \in Nat
    BY <1>1
  <2>6. n - 1 \in 0 .. n
    OBVIOUS
  <2>7. ASSUME NEW i \in 0 .. n
        PROVE  End(c)[i] <= End(c)[n] /\ (i # n => End(c)[i] < End(c)[n])
    <3>1. CASE i = n
      BY <2>5, <3>1
    <3>2. CASE i \in 0 .. n - 1
      <4>1. End(c)[i] <= End(c)[n - 1]
        BY <2>3, <3>2
      <4> HIDE DEF T
      <4> QED BY <2>2, <2>5, <2>6, <4>1
    <3> QED BY <2>4, <3>1, <3>2
  <2> QED BY <2>7
<1>4. 0 .. j \subseteq T
  <2>1. \A n \in 1 .. j : n - 1 \in T => n \in T
    BY <1>3, Zenon
  <2> HIDE DEF T
  <2> QED BY <1>1, <1>2, <2>1, Climb
<1>5. j \in T
  <2> HIDE DEF T
  <2>1. j \in 0 .. j
    BY <1>1
  <2> QED BY <1>4, <2>1
<1>6. Good(j)
  <2> HIDE DEF Good
  <2> QED BY <1>5
<1> QED BY <1>6

\* What is read at the end of the n-th message is the length of the next.
LEMMA LengthIs ==
  ASSUME NEW c \in Conns, NEW n \in 0 .. Len(Sizes[c]) - 1
  PROVE  LengthAt(c, End(c)[n]) = Sizes[c][n + 1]
<1> DEFINE b == End(c)[n]
           Here(k) == End(c)[k - 1] <= b /\ b < End(c)[k]
<1>1. /\ Len(Sizes[c]) \in Nat /\ n + 1 \in Messages(c) /\ n + 1 - 1 = n
      /\ \A k \in 0 .. Len(Sizes[c]) : End(c)[k] \in Nat
  BY EndType DEF Messages
<1>2. Here(n + 1)
  <2>1. n + 1 \in 0 .. Len(Sizes[c]) /\ n \in 0 .. n + 1 /\ n # n + 1
    BY <1>1
  <2>2. End(c)[n] < End(c)[n + 1]
    BY <2>1, EndsGrow
  <2> QED BY <1>1, <2>1, <2>2
<1>3. ASSUME NEW k \in Messages(c), Here(k) PROVE k = n + 1
  <2>1. k \in 1 .. Len(Sizes[c])
    BY DEF Messages
  <2>2. CASE k < n + 1
    <3>1. n \in 0 .. Len(Sizes[c]) /\ k \in 0 .. n
      BY <1>1, <2>1, <2>2
    <3>2. End(c)[k] <= End(c)[n]
      BY <3>1, EndsGrow
    <3>3. End(c)[k] \in Nat /\ End(c)[n] \in Nat
      BY <1>1, <2>1
    <3> QED BY <1>3, <3>2, <3>3
  <2>3. CASE k > n + 1
    <3>1. k - 1 \in 0 .. Len(Sizes[c]) /\ n \in 0 .. k - 1 /\ n # k - 1
      BY <1>1, <2>1, <2>3
    <3>2. End(c)[n] < End(c)[k - 1]
      BY <3>1, EndsGrow
    <3>3. End(c)[k - 1] \in Nat /\ End(c)[n] \in Nat
      BY <1>1, <3>1
    <3> QED BY <1>3, <3>2, <3>3
  <2> QED BY <2>1, <2>2, <2>3
<1>4. (CHOOSE k \in Messages(c) : Here(k)) = n + 1
  <2> HIDE DEF Here
  <2> QED BY <1>1, <1>2, <1>3
<1> QED BY <1>4, Zenon DEF LengthAt

(***************************************************************************)
(* The messages that are enqueued                                          *)
(***************************************************************************)
Entries == [conn : Conns, from : Nat, to : Nat]

Count(q, c, i) == Cardinality({j \in 1 .. i : q[j].conn = c})

\* One more message counts for its connection, and changes no count before it.
LEMMA CountOneMore ==
  ASSUME NEW S, NEW q \in Seq(S), NEW e \in S, NEW c
  PROVE  /\ \A i \in 0 .. Len(q) : /\ Count(q, c, i) \in Nat
                                  /\ Count(Append(q, e), c, i) = Count(q, c, i)
         /\ Count(Append(q, e), c, Len(q) + 1) = Count(q, c, Len(q)) + (IF e.conn = c THEN 1 ELSE 0)
<1> DEFINE longer == Append(q, e)
           Mine(i) == {j \in 1 .. i : q[j].conn = c}
<1>1. /\ Len(q) \in Nat
      /\ \A j \in 1 .. Len(q) : longer[j] = q[j]
      /\ longer[Len(q) + 1] = e
  BY AppendProperties, LenProperties
<1> HIDE DEF longer
<1>2. ASSUME NEW i \in 0 .. Len(q)
      PROVE  /\ IsFiniteSet(Mine(i)) /\ Cardinality(Mine(i)) \in Nat
             /\ {j \in 1 .. i : longer[j].conn = c} = Mine(i)
  <2>1. IsFiniteSet(1 .. i) /\ Mine(i) \in SUBSET (1 .. i)
    BY <1>1, FS_Interval
  <2>2. IsFiniteSet(Mine(i))
    <3> HIDE DEF Mine
    <3> QED BY <2>1, FS_Subset
  <2>3. Cardinality(Mine(i)) \in Nat
    BY <2>2, FS_CardinalityType
  <2>4. {j \in 1 .. i : longer[j].conn = c} = Mine(i)
    BY <1>1
  <2> QED BY <2>2, <2>3, <2>4
<1>3. \A i \in 0 .. Len(q) : Count(q, c, i) \in Nat /\ Count(longer, c, i) = Count(q, c, i)
  BY <1>2, Zenon DEF Count
<1>4. Count(longer, c, Len(q) + 1) = Count(q, c, Len(q)) + (IF e.conn = c THEN 1 ELSE 0)
  <2> DEFINE n == Len(q)
             all == {j \in 1 .. n + 1 : longer[j].conn = c}
  <2>1. n \in 0 .. Len(q)
    BY <1>1
  <2>2. CASE e.conn = c
    <3>1. all = Mine(n) \cup {n + 1} /\ n + 1 \notin Mine(n)
      BY <1>1, <2>2
    <3>2. Cardinality(Mine(n) \cup {n + 1}) = Cardinality(Mine(n)) + 1
      <4>1. IsFiniteSet(Mine(n))
        BY <1>2, <2>1
      <4> HIDE DEF Mine, n
      <4> QED BY <3>1, <4>1, FS_AddElement
    <3> QED BY <2>2, <3>1, <3>2 DEF Count
  <2>3. CASE e.conn # c
    <3>1. all = Mine(n)
      BY <1>1, <2>3
    <3>2. Count(longer, c, Len(q) + 1) = Count(q, c, Len(q))
      BY <3>1, Zenon DEF Count
    <3>3. Count(q, c, Len(q)) \in Nat
      BY <1>3, <2>1
    <3> QED BY <2>3, <3>2, <3>3
  <2> QED BY <2>2, <2>3
<1> QED BY <1>3, <1>4 DEF longer

(***************************************************************************)
(* The invariant                                                           *)
(***************************************************************************)
\* The variables have their types.
Typed ==
  /\ peer \in [Conns -> {"off", "open", "closed", "reset"}]
  /\ sock \in [Conns -> {"none", "open", "closed"}]
  /\ written \in [Conns -> Nat] /\ taken \in [Conns -> Nat]
  /\ at \in {"idle", "head", "body", "close", "down"} /\ cur \in Conns
  /\ from \in Nat /\ left \in Int
  /\ errno \in {"EAGAIN", "other"}
  /\ recvqueue \in Seq(Entries)
  /\ overrun \in BOOLEAN

\* No more is read than was written, and none without a connection; an open
\* connection that no callback is at stands at the end of its last message.  The
\* lengths of the messages enqueued can be lengths.
OpenTaken ==
  \A c \in Conns :
    /\ taken[c] <= written[c] /\ written[c] <= Total(c)
    /\ Enqueued(c) \in 0 .. Len(Sizes[c])
    /\ \A k \in 1 .. Enqueued(c) : Sizes[c][k] >= 0
    /\ sock[c] = "none" => taken[c] = 0 /\ Enqueued(c) = 0
    /\ sock[c] = "open" /\ (at = "idle" \/ cur # c) => taken[c] = End(c)[Enqueued(c)]

\* In a callback the message began where the last one ended, and what is still
\* to come is the rest of its head, or of itself, if the head named a length.  All
\* that was taken of it went into the buffer, or bytes went past the buffer's end.
Reading ==
  at # "idle" =>
    /\ sock[cur] = "open"
    /\ from = End(cur)[Enqueued(cur)] /\ from <= taken[cur]
    /\ ~overrun => taken[cur] - from <= MaxBuf
    /\ at = "head" => left \in Nat /\ taken[cur] + left = from + HeadLen
    /\ at = "body" /\ left >= 0 =>
         /\ Enqueued(cur) < Len(Sizes[cur]) /\ Sizes[cur][Enqueued(cur) + 1] >= 0
         /\ taken[cur] + left = End(cur)[Enqueued(cur) + 1]

\* The i-th message of a queue is a whole one.
WholeAt(q, i) ==
  LET c == q[i].conn
      n == Count(q, c, i) IN
  /\ n <= Len(Sizes[c]) /\ \A k \in 1 .. n : Sizes[c][k] >= 0
  /\ q[i].from = End(c)[n - 1] /\ q[i].to = End(c)[n]
  /\ q[i].to - q[i].from <= MaxBuf

LEMMA WholeIs == WholeMessages <=> (~overrun => \A i \in 1 .. Len(recvqueue) : WholeAt(recvqueue, i))
  BY Zenon DEF WholeMessages, WholeAt, Among, Count

SockInv == Typed /\ OpenTaken /\ Reading /\ WholeMessages

LEMMA InitInv == Init => SockInv
<1> SUFFICES ASSUME Init PROVE SockInv
  OBVIOUS
<1>1. \A c \in Conns : Enqueued(c) = 0
  <2>1. recvqueue = <<>> /\ Len(<<>>) = 0
    BY DEF Init
  <2>2. 1 .. 0 = {}
    OBVIOUS
  <2>3. \A c \in Conns : {j \in 1 .. 0 : recvqueue[j].conn = c} = {}
    BY <2>2
  <2> QED BY <2>1, <2>3, FS_EmptySet, Zenon DEF Enqueued, Among
<1>2. OpenTaken
  <2>1. \A c \in Conns : Len(Sizes[c]) \in Nat /\ Total(c) \in Nat
    BY EndType DEF Total
  <2> QED BY <1>1, <2>1 DEF Init, OpenTaken
<1>3. recvqueue \in Seq(Entries)
  BY EmptySeq DEF Init
<1>4. Typed
  <2>1. overrun \in BOOLEAN
    BY Zenon DEF Init
  <2>2. left \in Int /\ from \in Nat /\ 0 \in Nat
    BY DEF Init
  <2> QED BY <1>3, <2>1, <2>2, Zenon DEF Init, Typed
<1> QED BY <1>2, <1>4 DEF Init, SockInv, Reading, WholeMessages

\* What is enqueued is as it was, where the queue is.
LEMMA QueueStays ==
  ASSUME SockInv, UNCHANGED <<recvqueue, overrun>>
  PROVE  WholeMessages' /\ \A c \in Conns : Enqueued(c)' = Enqueued(c)
<1>1. \A c, i : Among(c, i)' = Among(c, i)
  BY DEF Among
<1>2. \A c \in Conns : Enqueued(c)' = Enqueued(c)
  BY <1>1 DEF Enqueued
<1>3. WholeMessages'
  BY <1>1 DEF SockInv, WholeMessages
<1> QED BY <1>2, <1>3

\* Bytes past the end of a buffer change nobody's number of messages.
LEMMA QueueDamaged ==
  ASSUME SockInv, PastTheEnd
  PROVE  /\ WholeMessages' /\ \A c \in Conns : Enqueued(c)' = Enqueued(c)
         /\ recvqueue' \in Seq(Entries) /\ overrun' = TRUE /\ at' \in {at, "down"}
<1>1. overrun' = TRUE /\ at' \in {at, "down"}
  BY DEF PastTheEnd
<1>2. recvqueue \in Seq(Entries) /\ DOMAIN recvqueue = 1 .. Len(recvqueue) /\ Len(recvqueue) \in Nat
  BY LenProperties DEF SockInv, Typed
<1>3. /\ recvqueue' \in Seq(Entries) /\ Len(recvqueue') = Len(recvqueue)
      /\ \A j \in 1 .. Len(recvqueue) : recvqueue'[j].conn = recvqueue[j].conn
  <2>1. CASE recvqueue' = recvqueue
    BY <1>2, <2>1
  <2>2. ASSUME NEW i \in DOMAIN recvqueue,
               recvqueue' = [recvqueue EXCEPT ![i].to = recvqueue[i].from]
        PROVE  /\ recvqueue' \in Seq(Entries) /\ Len(recvqueue') = Len(recvqueue)
               /\ \A j \in 1 .. Len(recvqueue) : recvqueue'[j].conn = recvqueue[j].conn
    <3> DEFINE e == [recvqueue[i] EXCEPT !.to = recvqueue[i].from]
    <3>1. i \in 1 .. Len(recvqueue) /\ recvqueue[i] \in Entries
      BY <1>2, ElementOfSeq
    <3>2. e \in Entries /\ e.conn = recvqueue[i].conn
      BY <3>1 DEF Entries
    <3>3. recvqueue' = [recvqueue EXCEPT ![i] = e]
      BY <2>2
    <3> HIDE DEF e
    <3>4. recvqueue' \in Seq(Entries) /\ Len(recvqueue') = Len(recvqueue)
      BY <1>2, <3>1, <3>2, <3>3, ExceptSeq
    <3>5. \A j \in 1 .. Len(recvqueue) : recvqueue'[j] = IF j = i THEN e ELSE recvqueue[j]
      BY <1>2, <3>3
    <3> QED BY <3>2, <3>4, <3>5
  <2> QED BY <2>1, <2>2 DEF PastTheEnd
<1>4. ASSUME NEW c \in Conns PROVE Enqueued(c)' = Enqueued(c)
  <2>1. {j \in 1 .. Len(recvqueue') : recvqueue'[j].conn = c}
          = {j \in 1 .. Len(recvqueue) : recvqueue[j].conn = c}
    BY <1>3
  <2> QED BY <2>1, Zenon DEF Enqueued, Among
<1>5. WholeMessages'
  BY <1>1 DEF WholeMessages
<1> QED BY <1>1, <1>3, <1>4, <1>5

\* Clients write and hang up; accept_cb.
LEMMA ClientInv ==
  ASSUME SockInv, NEW c \in Conns, Connect(c) \/ Write(c) \/ Hangup(c) \/ Accept(c)
  PROVE  SockInv'
<1>1. /\ UNCHANGED <<taken, reader, recvqueue, overrun>>
      /\ at # "idle" => UNCHANGED sock
  BY DEF Connect, Write, Hangup, Accept
<1>2. WholeMessages' /\ \A d \in Conns : Enqueued(d)' = Enqueued(d)
  BY <1>1, QueueStays
<1>3. Typed'
  <2>1. Typed
    BY DEF SockInv
  <2>2. CASE Connect(c)
    BY <2>1, <2>2 DEF Connect, Typed, reader
  <2>3. CASE Write(c)
    BY <2>1, <2>3 DEF Write, Typed, reader
  <2>4. CASE Hangup(c)
    BY <2>1, <2>4 DEF Hangup, Typed, reader
  <2>5. CASE Accept(c)
    BY <2>1, <2>5 DEF Accept, OtherCalls, Typed, reader, clients
  <2> QED BY <2>2, <2>3, <2>4, <2>5
<1>4. /\ \A d \in Conns : written[d] <= written'[d] /\ written'[d] <= Total(d)
      /\ \A d \in Conns : sock'[d] = sock[d] \/ (sock[d] = "none" /\ sock'[d] = "open")
  <2>1. \A d \in Conns : Total(d) \in Nat /\ written[d] \in Nat /\ written[d] <= Total(d)
    BY EndType DEF Total, SockInv, Typed, OpenTaken
  <2>2. \/ UNCHANGED written
        \/ written[c] < Total(c) /\ written' = [written EXCEPT ![c] = @ + 1]
    BY DEF Connect, Write, Hangup, Accept, clients
  <2>3. \/ UNCHANGED sock
        \/ sock[c] = "none" /\ sock' = [sock EXCEPT ![c] = "open"]
    BY DEF Connect, Write, Hangup, Accept
  <2>4. written \in [Conns -> Nat] /\ sock \in [Conns -> {"none", "open", "closed"}]
    BY DEF SockInv, Typed
  <2>5. ASSUME NEW d \in Conns
        PROVE  written[d] <= written'[d] /\ written'[d] <= Total(d)
    BY <2>1, <2>2, <2>4
  <2>6. ASSUME NEW d \in Conns
        PROVE  sock'[d] = sock[d] \/ (sock[d] = "none" /\ sock'[d] = "open")
    <3>1. CASE UNCHANGED sock
      BY <3>1
    <3>2. CASE sock[c] = "none" /\ sock' = [sock EXCEPT ![c] = "open"]
      <4>1. sock'[d] = IF d = c THEN "open" ELSE sock[d]
        BY <2>4, <3>2
      <4> QED BY <3>2, <4>1
    <3> QED BY <2>3, <3>1, <3>2
  <2> QED BY <2>5, <2>6
<1>5. OpenTaken'
  <2>1. \A d \in Conns : Total(d) \in Nat /\ End(d)[0] = 0
    BY EndType, EndIs DEF Total
  <2>2. ASSUME NEW d \in Conns
        PROVE  /\ taken'[d] <= written'[d]
               /\ sock'[d] = "none" => taken'[d] = 0 /\ Enqueued(d)' = 0
               /\ sock'[d] = "open" /\ (at' = "idle" \/ cur' # d)
                    => taken'[d] = End(d)[Enqueued(d)']
    <3>1. taken' = taken /\ at' = at /\ cur' = cur /\ Enqueued(d)' = Enqueued(d)
      BY <1>1, <1>2, <2>2 DEF reader
    <3>2. taken'[d] <= written'[d]
      BY <1>3, <1>4, <2>2, <3>1 DEF SockInv, Typed, OpenTaken
    <3>3. sock'[d] = sock[d] \/ (sock[d] = "none" /\ sock'[d] = "open")
      BY <1>4, <2>2
    <3>4. sock'[d] = "none" => taken'[d] = 0 /\ Enqueued(d)' = 0
      BY <2>2, <3>1, <3>3 DEF SockInv, OpenTaken
    <3>5. sock'[d] = "open" /\ (at' = "idle" \/ cur' # d)
            => taken'[d] = End(d)[Enqueued(d)']
      BY <2>1, <2>2, <3>1, <3>3 DEF SockInv, OpenTaken
    <3> QED BY <3>2, <3>4, <3>5
  <2> QED BY <1>2, <1>4, <2>2 DEF SockInv, OpenTaken
<1>6. Reading'
  BY <1>1, <1>2 DEF SockInv, Typed, Reading, reader
<1> QED BY <1>2, <1>3, <1>5, <1>6 DEF SockInv

\* libev calls recv_cb for a connection: the head of the next message is read.
LEMMA ReadyInv ==
  ASSUME SockInv, NEW c \in Conns, Ready(c)
  PROVE  SockInv'
<1>1. /\ at = "idle" /\ sock[c] = "open"
      /\ at' = "head" /\ cur' = c /\ from' = taken[c] /\ left' = HeadLen
      /\ UNCHANGED <<peer, written, taken, sock, recvqueue, overrun>>
      /\ errno' \in {"EAGAIN", "other"}
  BY DEF Ready, OtherCalls, SockInv, Typed, clients
<1>2. WholeMessages' /\ \A d \in Conns : Enqueued(d)' = Enqueued(d)
  BY <1>1, QueueStays
<1>3. Typed'
  BY <1>1, SockAssumption DEF SockInv, Typed
<1>4. OpenTaken'
  BY <1>1, <1>2 DEF SockInv, OpenTaken
<1>5. Reading'
  <2>1. taken[c] = End(c)[Enqueued(c)] /\ taken[c] \in Nat
    BY <1>1 DEF SockInv, Typed, OpenTaken
  <2> QED BY <1>1, <1>2, <2>1, SockAssumption DEF Reading
<1> QED BY <1>2, <1>3, <1>4, <1>5 DEF SockInv

\* recv returns bytes.
LEMMA RecvInv ==
  ASSUME SockInv, RecvSome
  PROVE  SockInv'
<1> DEFINE wait == written[cur] - taken[cur]
           n == IF wait < left THEN wait ELSE left
           fits == taken[cur] + n - from <= MaxBuf
<1>1. /\ at \in {"head", "body"} /\ left > 0 /\ n > 0 /\ left' = left - n
      /\ taken' = [taken EXCEPT ![cur] = @ + n]
      /\ UNCHANGED <<peer, written, sock, cur, from, errno>>
      /\ IF fits THEN UNCHANGED <<at, recvqueue, overrun>> ELSE PastTheEnd
  BY DEF RecvSome, InRecv, Waiting, clients
<1>5. fits => taken[cur] + n - from <= MaxBuf
  OBVIOUS
<1>2. /\ cur \in Conns /\ written[cur] \in Nat /\ taken[cur] \in Nat /\ left \in Nat
      /\ taken[cur] <= written[cur] /\ taken \in [Conns -> Nat] /\ from \in Nat
  BY <1>1 DEF SockInv, Typed, OpenTaken
<1>3. n \in Nat /\ left - n \in Nat /\ taken[cur] + n <= written[cur]
  BY <1>1, <1>2
<1> HIDE DEF n, fits
<1>4. /\ WholeMessages' /\ \A d \in Conns : Enqueued(d)' = Enqueued(d)
      /\ recvqueue' \in Seq(Entries) /\ at' \in {at, "down"}
  <2>1. CASE fits
    BY <1>1, <2>1, QueueStays DEF SockInv, Typed
  <2>2. CASE ~fits
    BY <1>1, <2>2, QueueDamaged
  <2> QED BY <2>1, <2>2
<1>7. /\ overrun' \in BOOLEAN
      /\ ~overrun' => taken[cur] + n - from <= MaxBuf
  <2>1. CASE fits
    <3>1. overrun' = overrun /\ overrun \in BOOLEAN
      BY <1>1, <2>1 DEF SockInv, Typed
    <3> QED BY <1>5, <2>1, <3>1, Zenon
  <2>2. CASE ~fits
    <3>1. overrun' = TRUE
      BY <1>1, <2>2, QueueDamaged
    <3> QED BY <3>1, Zenon
  <2> QED BY <2>1, <2>2
<1>10. at \in {"head", "body"} /\ at' \in {at, "down"}
  BY <1>1, <1>4
<1>11. at' # "idle" /\ (at' = "head" => at = "head") /\ (at' = "body" => at = "body")
  BY <1>10
<1>6. /\ taken' \in [Conns -> Nat] /\ taken'[cur] = taken[cur] + n
      /\ \A d \in Conns : d # cur => taken'[d] = taken[d]
  BY <1>1, <1>2, <1>3
<1>12. /\ left' = left - n /\ UNCHANGED <<peer, written, sock, cur, from, errno>>
       /\ left > 0
  BY <1>1
<1>13. \A d \in Conns : Enqueued(d)' = Enqueued(d)
  BY <1>4
<1>14. Typed'
  <2>1. at' \in {"head", "body", "close", "down"}
    BY <1>10
  <2> QED BY <1>3, <1>4, <1>6, <1>7, <1>12, <2>1 DEF SockInv, Typed
<1>8. OpenTaken'
  <2>1. \A d \in Conns : taken[d] <= written[d]
    BY DEF SockInv, OpenTaken
  <2>2. \A d \in Conns : taken'[d] <= written'[d]
    BY <1>3, <1>6, <1>12, <2>1
  <2>3. sock[cur] = "open"
    BY <1>10 DEF SockInv, Reading
  <2> QED BY <1>2, <1>6, <1>11, <1>12, <1>13, <2>2, <2>3 DEF SockInv, OpenTaken
<1>9. Reading'
  <2>1. taken[cur] + n + (left - n) = taken[cur] + left /\ taken[cur] <= taken[cur] + n
    BY <1>2, <1>3
  <2>2. from <= taken'[cur]
    BY <1>2, <1>3, <1>6, <1>10 DEF SockInv, Reading
  <2>3. ~overrun' => taken'[cur] - from <= MaxBuf
    <3> SUFFICES ASSUME ~overrun' PROVE taken'[cur] - from <= MaxBuf
      OBVIOUS
    <3>1. taken'[cur] = taken[cur] + n
      BY <1>6
    <3>2. taken[cur] + n - from <= MaxBuf
      BY <1>7, Zenon
    <3>3. /\ taken[cur] \in Nat /\ n \in Nat /\ from \in Nat /\ taken'[cur] \in Nat
          /\ MaxBuf \in Nat
      BY <1>2, <1>3, <3>1, SockAssumption
    <3> QED BY <3>1, <3>2, <3>3
  <2>4. at' = "head" => left' \in Nat /\ taken'[cur] + left' = from + HeadLen
    BY <1>3, <1>6, <1>11, <1>12, <2>1 DEF SockInv, Reading
  <2>5. at' = "body" => /\ Enqueued(cur) < Len(Sizes[cur]) /\ Sizes[cur][Enqueued(cur) + 1] >= 0
                        /\ taken'[cur] + left' = End(cur)[Enqueued(cur) + 1]
    BY <1>2, <1>6, <1>11, <1>12, <2>1 DEF SockInv, Reading
  <2>6. sock[cur] = "open" /\ from = End(cur)[Enqueued(cur)]
    BY <1>10 DEF SockInv, Reading
  <2>7. cur' = cur /\ from' = from /\ sock' = sock /\ Enqueued(cur)' = Enqueued(cur)
    BY <1>2, <1>12, <1>13
  <2> QED BY <2>2, <2>3, <2>4, <2>5, <2>6, <2>7, Zenon DEF Reading
<1> QED BY <1>4, <1>14, <1>8, <1>9 DEF SockInv

\* recv returns nothing, or the end, or an error; a length that cannot be one;
\* closefd.
LEMMA EndInv ==
  ASSUME SockInv, RecvNothing \/ RecvEnd \/ RecvReset \/ BadLength \/ closefd
  PROVE  SockInv'
<1>1. /\ UNCHANGED <<peer, written, taken, cur, from, left, recvqueue, overrun>>
      /\ at # "idle" /\ cur \in Conns
      /\ errno' \in {"EAGAIN", "other"}
      /\ \/ at' \in {at, "close"} /\ UNCHANGED sock
         \/ at' = "idle" /\ sock' = [sock EXCEPT ![cur] = "closed"]
  BY DEF RecvNothing, RecvEnd, RecvReset, BadLength, closefd, InRecv, OtherCalls, clients, reader,
         SockInv, Typed
<1>2. WholeMessages' /\ \A d \in Conns : Enqueued(d)' = Enqueued(d)
  BY <1>1, QueueStays
<1>3. CASE at' \in {at, "close"} /\ UNCHANGED sock
  <2>1. Typed'
    BY <1>1, <1>3 DEF SockInv, Typed
  <2>2. OpenTaken'
    BY <1>1, <1>2, <1>3 DEF SockInv, OpenTaken
  <2>3. Reading'
    BY <1>1, <1>2, <1>3 DEF SockInv, Reading
  <2> QED BY <1>2, <2>1, <2>2, <2>3 DEF SockInv
<1>4. CASE at' = "idle" /\ sock' = [sock EXCEPT ![cur] = "closed"]
  <2>1. /\ sock' \in [Conns -> {"none", "open", "closed"}] /\ sock'[cur] = "closed"
        /\ \A d \in Conns : d # cur => sock'[d] = sock[d]
    BY <1>1, <1>4 DEF SockInv, Typed
  <2>2. Typed'
    BY <1>1, <1>4, <2>1 DEF SockInv, Typed
  <2>3. OpenTaken'
    BY <1>1, <1>2, <1>4, <2>1 DEF SockInv, OpenTaken
  <2>4. Reading'
    BY <1>4 DEF Reading
  <2> QED BY <1>2, <2>2, <2>3, <2>4 DEF SockInv
<1> QED BY <1>1, <1>3, <1>4

\* The length has come: it is that of the message after the last one enqueued.
LEMMA HeadInv ==
  ASSUME SockInv, GotHead
  PROVE  SockInv'
<1> DEFINE k == Enqueued(cur)
           limit == Len(Sizes[cur])
<1>1. /\ at = "head" /\ left = 0 /\ at' = "body" /\ left' = LengthAt(cur, from)
      /\ UNCHANGED <<peer, written, taken, sock, cur, from, errno, recvqueue, overrun>>
  BY DEF GotHead, clients
<1>2. WholeMessages' /\ \A d \in Conns : Enqueued(d)' = Enqueued(d)
  BY <1>1, QueueStays
<1>3. /\ cur \in Conns /\ sock[cur] = "open" /\ from = End(cur)[k] /\ k \in 0 .. limit
      /\ taken[cur] + 0 = from + HeadLen /\ taken[cur] \in Nat /\ written[cur] \in Nat
      /\ taken[cur] <= written[cur] /\ written[cur] <= End(cur)[limit]
      /\ from \in Nat /\ HeadLen \in Nat \ {0} /\ from <= taken[cur]
  BY <1>1, SockAssumption DEF SockInv, Typed, OpenTaken, Reading, Total
<1> HIDE DEF k
<1>4. k \in 0 .. limit - 1 /\ limit \in Nat /\ End(cur)[limit] \in Nat
  <2>1. limit \in Nat /\ End(cur)[limit] \in Nat
    BY <1>3, EndType
  <2>2. from # End(cur)[limit]
    BY <1>3, <2>1
  <2> QED BY <1>3, <2>1, <2>2
<1>5. LengthAt(cur, from) = Sizes[cur][k + 1]
  BY <1>3, <1>4, LengthIs
<1>6. /\ Sizes[cur][k + 1] \in Int
      /\ End(cur)[k + 1] = from + HeadLen + Body(Sizes[cur][k + 1])
      /\ Sizes[cur][k + 1] >= 0 => Body(Sizes[cur][k + 1]) = Sizes[cur][k + 1]
  <2>1. k + 1 \in Messages(cur) /\ k + 1 - 1 = k
    BY <1>4 DEF Messages
  <2>2. Sizes[cur][k + 1] \in Int
    BY <1>3, <2>1, EndType
  <2> QED BY <1>3, <2>1, <2>2, EndIs DEF Body
<1>7. Typed'
  BY <1>1, <1>5, <1>6 DEF SockInv, Typed
<1>8. OpenTaken'
  BY <1>1, <1>2, <1>3 DEF SockInv, OpenTaken
<1>9. Reading'
  <2>1. left' >= 0 =>
          k < limit /\ Sizes[cur][k + 1] >= 0 /\ taken[cur] + left' = End(cur)[k + 1]
    BY <1>1, <1>3, <1>4, <1>5, <1>6
  <2>2. ~overrun => taken[cur] - from <= MaxBuf
    BY <1>1 DEF SockInv, Reading
  <2> QED BY <1>1, <1>2, <1>3, <2>1, <2>2 DEF Reading, k
<1> QED BY <1>2, <1>7, <1>8, <1>9 DEF SockInv

\* The rest has come: the message is enqueued as the next of its connection.
LEMMA BodyInv ==
  ASSUME SockInv, GotBody
  PROVE  SockInv'
<1> DEFINE k == Enqueued(cur)
           len == Len(recvqueue)
           e == [conn |-> cur, from |-> from, to |-> taken[cur]]
<1>1. /\ at = "body" /\ left = 0 /\ at' = "idle"
      /\ recvqueue' = Append(recvqueue, e)
      /\ UNCHANGED <<peer, written, taken, sock, cur, from, left, errno, overrun>>
  BY DEF GotBody, clients
<1>2. /\ cur \in Conns /\ e \in Entries /\ recvqueue \in Seq(Entries)
      /\ sock[cur] = "open" /\ from = End(cur)[k] /\ k \in Nat /\ k < Len(Sizes[cur])
      /\ taken[cur] + 0 = End(cur)[k + 1] /\ taken[cur] \in Nat
      /\ Len(Sizes[cur]) \in Nat
      /\ \A m \in 1 .. k + 1 : Sizes[cur][m] >= 0
      /\ ~overrun => taken[cur] - from <= MaxBuf
  BY <1>1, EndType DEF SockInv, Typed, OpenTaken, Reading, Entries
<1>3. /\ Len(recvqueue') = len + 1 /\ len \in Nat /\ recvqueue' \in Seq(Entries)
      /\ \A i \in 1 .. len : recvqueue'[i] = recvqueue[i]
      /\ recvqueue'[len + 1] = e
  BY <1>1, <1>2, AppendProperties, LenProperties
<1>4. ASSUME NEW c
      PROVE  /\ \A i \in 0 .. len : Count(recvqueue', c, i) = Count(recvqueue, c, i)
             /\ Count(recvqueue', c, len + 1)
                  = Count(recvqueue, c, len) + (IF e.conn = c THEN 1 ELSE 0)
             /\ Count(recvqueue, c, len) \in Nat
  <2> HIDE DEF e
  <2>1. /\ \A i \in 0 .. len : /\ Count(recvqueue, c, i) \in Nat
                              /\ Count(Append(recvqueue, e), c, i) = Count(recvqueue, c, i)
        /\ Count(Append(recvqueue, e), c, len + 1)
             = Count(recvqueue, c, len) + (IF e.conn = c THEN 1 ELSE 0)
    BY <1>2, CountOneMore, Zenon
  <2>2. len \in 0 .. len
    BY <1>3
  <2> HIDE DEF len
  <2> QED BY <1>1, <2>1, <2>2
<1>5. ASSUME NEW c \in Conns
      PROVE  /\ Enqueued(c)' = IF c = cur THEN k + 1 ELSE Enqueued(c)
             /\ Count(recvqueue', c, len + 1) = IF c = cur THEN k + 1 ELSE Enqueued(c)
  <2>1. Enqueued(c)' = Count(recvqueue', c, len + 1) /\ Enqueued(c) = Count(recvqueue, c, len)
    <3>1. Enqueued(c)' = Count(recvqueue', c, Len(recvqueue'))
      BY Zenon DEF Enqueued, Among, Count
    <3>2. Enqueued(c) = Count(recvqueue, c, len)
      BY Zenon DEF Enqueued, Among, Count
    <3> QED BY <1>3, <3>1, <3>2
  <2>2. k = Enqueued(cur) /\ e.conn = cur
    OBVIOUS
  <2>3. /\ Count(recvqueue', c, len + 1) = Count(recvqueue, c, len) + (IF e.conn = c THEN 1 ELSE 0)
        /\ Count(recvqueue, c, len) \in Nat
    BY <1>4
  <2> HIDE DEF e, len, k
  <2> QED BY <2>1, <2>2, <2>3
<1>6. WholeMessages'
  <2> SUFFICES ASSUME ~overrun PROVE \A i \in 1 .. Len(recvqueue') : WholeAt(recvqueue', i)
    <3>1. WholeMessages' <=> (~overrun' => \A i \in 1 .. Len(recvqueue') : WholeAt(recvqueue', i))
      BY Zenon DEF WholeMessages, WholeAt, Among, Count
    <3> QED BY <1>1, <3>1
  <2>1. \A i \in 1 .. len : WholeAt(recvqueue, i)
    BY WholeIs DEF SockInv
  <2>2. ASSUME NEW i \in 1 .. len PROVE WholeAt(recvqueue', i)
    <3>1. recvqueue'[i] = recvqueue[i]
      BY <1>3
    <3>2. i \in 0 .. len
      OBVIOUS
    <3>3. Count(recvqueue', recvqueue[i].conn, i) = Count(recvqueue, recvqueue[i].conn, i)
      <4> HIDE DEF len
      <4> QED BY <1>4, <3>2
    <3>4. WholeAt(recvqueue, i)
      BY <2>1
    <3> QED BY <3>1, <3>3, <3>4, Zenon DEF WholeAt
  <2>3. WholeAt(recvqueue', len + 1)
    <3>1. /\ recvqueue'[len + 1].conn = cur
          /\ recvqueue'[len + 1].from = from /\ recvqueue'[len + 1].to = taken[cur]
      BY <1>3
    <3>2. Count(recvqueue', cur, len + 1) = k + 1
      BY <1>2, <1>5
    <3>3. k + 1 <= Len(Sizes[cur]) /\ k + 1 - 1 = k /\ taken[cur] = End(cur)[k + 1]
      BY <1>2
    <3> HIDE DEF k, len, e
    <3> QED BY <1>2, <3>1, <3>2, <3>3 DEF WholeAt
  <2>4. ASSUME NEW i \in 1 .. len + 1, i \notin 1 .. len PROVE i = len + 1
    BY <1>3, <2>4
  <2> HIDE DEF len
  <2> QED BY <1>3, <2>2, <2>3, <2>4, Zenon
<1>7. Typed'
  BY <1>1, <1>3 DEF SockInv, Typed
<1>8. OpenTaken'
  <2>1. /\ k + 1 \in 0 .. Len(Sizes[cur]) /\ taken[cur] = End(cur)[k + 1]
        /\ \A m \in 1 .. k + 1 : Sizes[cur][m] >= 0
    BY <1>2
  <2> HIDE DEF k, e
  <2> QED BY <1>1, <1>2, <1>5, <2>1 DEF SockInv, OpenTaken
<1>9. Reading'
  BY <1>1 DEF Reading
<1> QED BY <1>6, <1>7, <1>8, <1>9 DEF SockInv

\* Every step.
LEMMA NextInv == SockInv /\ [Next]_vars => SockInv'
<1> SUFFICES ASSUME SockInv, [Next]_vars PROVE SockInv'
  OBVIOUS
<1>1. CASE Next
  BY <1>1, ClientInv, ReadyInv, RecvInv, EndInv, HeadInv, BodyInv, Zenon DEF Next, InCallback
<1>2. CASE UNCHANGED vars
  <2>1. UNCHANGED <<peer, written, taken, sock, at, cur, from, left, errno, recvqueue, overrun>>
    BY <1>2 DEF vars, clients, reader
  <2>2. WholeMessages' /\ \A c \in Conns : Enqueued(c)' = Enqueued(c)
    BY <2>1, QueueStays
  <2> QED BY <2>1, <2>2 DEF SockInv, Typed, OpenTaken, Reading
<1> QED BY <1>1, <1>2

(***************************************************************************)
(* Theorems                                                                *)
(***************************************************************************)
\* In every state Evloop stands where a message begins, or in it.
THEOREM SockInvariant == Spec => []SockInv
BY InitInv, NextInv, PTL DEF Spec

\* The variables keep their types, and no byte is read that was not written.
THEOREM Typing == Spec => []TypeOK
<1>1. SockInv => TypeOK
  BY DEF SockInv, Typed, OpenTaken, Reading, TypeOK, Entries
<1> QED BY <1>1, SockInvariant, PTL

\* Whole messages are enqueued, each once and in order, for any connections and
\* pieces and whatever lengths the heads name, until one of them is longer than
\* the buffer, which recv_cb does not ask.
THEOREM Whole == Spec => []WholeMessages
<1>1. SockInv => WholeMessages
  BY DEF SockInv
<1> QED BY <1>1, SockInvariant, PTL

=============================================================================
