----------------------------- MODULE RecordsProofs -----------------------------
(***************************************************************************)
(* Records for any clients, buffers, requests and tables: no two rows of   *)
(* different tables have the same type; answers arrive in the order of the *)
(* questions; the buffers lost are those of certain requests without an    *)
(* answer; the variables keep their types; and tables arrive whole.        *)
(*                                                                         *)
(* Requests are numbered as they are read, so the numbers that wait only   *)
(* grow, and every answer sent, every request left without an answer and   *)
(* the one RecvTask works on are behind all that wait.  A number is thus   *)
(* taken once, which is why no buffer is counted twice, and why the rows   *)
(* sent with the number RecvTask works on are those it has sent by now.    *)
(* (The last part, from Typed on.)                                         *)
(***************************************************************************)
EXTENDS Records, SequenceTheorems, FiniteSetTheorems, NatLemmas, TLAPS

(***************************************************************************)
(* Types of rows                                                           *)
(***************************************************************************)

\* While no table has more than a thousand rows, the type of a row tells its
\* table and its index: postDBRecord never gives two rows the same one.
THEOREM RowsApart ==
  \A k, l \in Kinds : \A i, j \in 0 .. 999 :
    RowType(k, i) = RowType(l, j) => k = l /\ i = j
<1>1. Kinds = {"course", "grade", "class", "classroom", "student", "items"}
  BY DEF Kinds, Base
<1>2. /\ Base["course"] = 5000 /\ Base["grade"] = 3000 /\ Base["class"] = 4000
      /\ Base["classroom"] = 6000 /\ Base["student"] = 10000 /\ Base["items"] = 7000
  BY DEF Base
<1> QED BY <1>1, <1>2 DEF RowType

(***************************************************************************)
(* Sequences                                                               *)
(***************************************************************************)

\* A sequence of anything.
IsSeq(s) == \E S : s \in Seq(S)

LEMMA EmptyIs == IsSeq(<<>>) /\ Len(<<>>) = 0
BY DEF IsSeq

LEMMA AppendIs ==
  ASSUME NEW s, IsSeq(s), NEW e
  PROVE  /\ IsSeq(Append(s, e))
         /\ Len(s) \in Nat /\ Len(Append(s, e)) = Len(s) + 1
         /\ \A i \in 1 .. Len(s) : Append(s, e)[i] = s[i]
         /\ Append(s, e)[Len(s) + 1] = e
<1>1. PICK S : s \in Seq(S)
  BY DEF IsSeq
<1> DEFINE T == S \cup {e}
<1>2. s \in Seq(T)
  BY <1>1, SeqMonotonic
<1>3. e \in T
  OBVIOUS
<1>4. Append(s, e) \in Seq(T)
  BY <1>2, <1>3, AppendProperties
<1>5. IsSeq(Append(s, e))
  BY <1>4 DEF IsSeq
<1> QED BY <1>2, <1>3, <1>5, AppendProperties, LenProperties

LEMMA TailIs ==
  ASSUME NEW s, IsSeq(s), s # <<>>
  PROVE  /\ IsSeq(Tail(s)) /\ Head(s) = s[1]
         /\ Len(s) \in Nat \ {0} /\ Len(Tail(s)) = Len(s) - 1
         /\ \A i \in 1 .. Len(Tail(s)) : Tail(s)[i] = s[i + 1]
<1>1. PICK S : s \in Seq(S)
  BY DEF IsSeq
<1>2. Tail(s) \in Seq(S) /\ Len(s) \in Nat /\ Len(s) # 0 /\ Head(s) = s[1]
  BY <1>1, HeadTailProperties, LenProperties, EmptySeq
<1>3. IsSeq(Tail(s))
  BY <1>2 DEF IsSeq
<1> QED BY <1>1, <1>2, <1>3, HeadTailProperties

(***************************************************************************)
(* The invariant                                                           *)
(***************************************************************************)

\* The numbers of the requests that wait only grow.
Numbers ==
  /\ IsSeq(asked) /\ recvqueue \in Seq(Nat)
  /\ \A i \in 1 .. Len(recvqueue) :
       /\ recvqueue[i] \in 1 .. Len(asked)
       /\ \A j \in 1 .. Len(recvqueue) : i < j => recvqueue[i] < recvqueue[j]

\* What RecvTask works on is a request it has taken, for rows or of a choice.
AtWork ==
  /\ recvtask = [at |-> recvtask.at, req |-> recvtask.req, rows |-> recvtask.rows,
                 next |-> recvtask.next, todo |-> recvtask.todo]
  /\ recvtask.at \in {"idle", "rows", "tell", "copy", "white"}
  /\ recvtask.at # "idle" =>
       /\ recvtask.req \in 1 .. Len(asked)
       /\ \A i \in 1 .. Len(recvqueue) : recvtask.req < recvqueue[i]
       /\ asked[recvtask.req].op = IF recvtask.at = "rows" THEN "rows" ELSE "set"

\* The numbers of the requests that were taken, at the latest the one RecvTask
\* works on.
Past == {n \in 1 .. Len(asked) :
          /\ \A i \in 1 .. Len(recvqueue) : n < recvqueue[i]
          /\ recvtask.at # "idle" => n <= recvtask.req}

Silence ==
  /\ IsFiniteSet(silent)
  /\ \A n \in silent : n \in Past /\ (recvtask.at # "idle" => n # recvtask.req)

\* Answers on their way and answers received, each in order and the latter first.
Order ==
  /\ IsSeq(sendqueue)
  /\ got = [c \in Clients |-> got[c]] /\ \A c \in Clients : IsSeq(got[c])
  /\ \A i \in 1 .. Len(sendqueue) : IsAnswer(sendqueue[i]) =>
       /\ sendqueue[i].req \in Past
       /\ \A j \in 1 .. Len(sendqueue) :
            i < j /\ IsAnswer(sendqueue[j]) => sendqueue[i].req <= sendqueue[j].req
  /\ \A c \in Clients : \A i \in 1 .. Len(got[c]) : IsAnswer(got[c][i]) =>
       /\ got[c][i].req \in Past
       /\ \A j \in 1 .. Len(sendqueue) :
            IsAnswer(sendqueue[j]) => got[c][i].req <= sendqueue[j].req
       /\ \A j \in 1 .. Len(got[c]) :
            i < j /\ IsAnswer(got[c][j]) => got[c][i].req <= got[c][j].req

Buffers == pool \in Nat /\ LostWithoutAnswer

IInv == Numbers /\ AtWork /\ Silence /\ Order /\ Buffers

\* At the start nothing has been read.
LEMMA InitIInv == Init => IInv
<1> SUFFICES ASSUME Init PROVE IInv
  OBVIOUS
<1>1. Numbers
  BY EmptyIs DEF Init, Numbers
<1>2. AtWork /\ Silence
  BY FS_EmptySet DEF Init, AtWork, Silence, Idle
<1>3. Order
  BY EmptyIs DEF Init, Order
<1>4. Buffers
  <2>1. Lost = {} /\ Cardinality(Lost) = 0
    BY FS_EmptySet DEF Init, Lost
  <2>2. recvtask.at = "idle" /\ Len(recvqueue) = 0 /\ Len(sendqueue) = 0 /\ pool = Bufs
    BY EmptyIs DEF Init, Idle
  <2> QED BY <2>1, <2>2, NumbersAssumption DEF Buffers, LostWithoutAnswer, Held
<1> QED BY <1>1, <1>2, <1>3, <1>4 DEF IInv

(***************************************************************************)
(* What each part of a step keeps                                          *)
(***************************************************************************)

\* Nothing that is behind the requests that wait comes to wait again, and the
\* types say nothing more: a request is taken, one is worked on, or one is done.
LEMMA TakeNumbers ==
  ASSUME Numbers, recvqueue # <<>>, recvqueue' = Tail(recvqueue), UNCHANGED asked
  PROVE  /\ Numbers'
         /\ Req \in 1 .. Len(asked)
         /\ Len(recvqueue) \in Nat \ {0} /\ Len(recvqueue') = Len(recvqueue) - 1
         /\ \A i \in 1 .. Len(recvqueue') : Req < recvqueue'[i]
         /\ \A n \in Past : n < Req
         /\ \A n \in Past : \A i \in 1 .. Len(recvqueue') : n < recvqueue'[i]
<1>1. IsSeq(recvqueue) /\ recvqueue' \in Seq(Nat)
  BY HeadTailProperties DEF Numbers, IsSeq
<1>2. /\ Req = recvqueue[1] /\ Len(recvqueue) \in Nat \ {0}
      /\ Len(recvqueue') = Len(recvqueue) - 1
      /\ \A i \in 1 .. Len(recvqueue') : recvqueue'[i] = recvqueue[i + 1]
  BY <1>1, TailIs DEF Req
<1>3. /\ \A i \in 1 .. Len(recvqueue') : i + 1 \in 1 .. Len(recvqueue) /\ 1 < i + 1
      /\ 1 \in 1 .. Len(recvqueue)
  BY <1>2
<1>4. Numbers'
  BY <1>1, <1>2, <1>3 DEF Numbers
<1>5. Req \in 1 .. Len(asked) /\ \A i \in 1 .. Len(recvqueue') : Req < recvqueue'[i]
  BY <1>2, <1>3 DEF Numbers
<1>6. \A n \in Past : n < Req
  BY <1>2, <1>3 DEF Past
<1>7. \A n \in Past : \A i \in 1 .. Len(recvqueue') : n < recvqueue'[i]
  BY <1>2, <1>3 DEF Past
<1> QED BY <1>2, <1>4, <1>5, <1>6, <1>7

\* As long as what is past stays past, messages in order stay in order ...
LEMMA OrderSame ==
  ASSUME Order, UNCHANGED <<sendqueue, got>>, Past \subseteq Past'
  PROVE  Order'
BY DEF Order

\* ... and so they do with a message more that is no answer, or one to a request
\* that no other has gone beyond.
LEMMA OrderPost ==
  ASSUME Order, UNCHANGED got, Past \subseteq Past',
         NEW m, sendqueue' = Append(sendqueue, m),
         IsAnswer(m) => m.req \in Past' /\ \A n \in Past : n <= m.req
  PROVE  Order'
<1> DEFINE k == Len(sendqueue)
<1>1. /\ IsSeq(sendqueue') /\ k \in Nat /\ Len(sendqueue') = k + 1
      /\ \A i \in 1 .. k : sendqueue'[i] = sendqueue[i]
      /\ sendqueue'[k + 1] = m
  BY AppendIs DEF Order
<1>2. \A i \in 1 .. k + 1 : i \in 1 .. k \/ i = k + 1
  BY <1>1
<1>3. ASSUME NEW i \in 1 .. k + 1, IsAnswer(sendqueue'[i])
      PROVE  /\ sendqueue'[i].req \in Past'
             /\ \A j \in 1 .. k + 1 :
                  i < j /\ IsAnswer(sendqueue'[j]) => sendqueue'[i].req <= sendqueue'[j].req
  <2>1. CASE i = k + 1
    BY <1>1, <1>3, <2>1
  <2>2. CASE i \in 1 .. k
    <3>1. /\ sendqueue'[i] = sendqueue[i] /\ sendqueue[i].req \in Past
          /\ \A j \in 1 .. k : i < j /\ IsAnswer(sendqueue[j]) =>
                                 sendqueue[i].req <= sendqueue[j].req
      BY <1>1, <1>3, <2>2 DEF Order
    <3> QED BY <1>1, <1>2, <3>1
  <2> QED BY <1>2, <2>1, <2>2
<1>4. ASSUME NEW c \in Clients, NEW i \in 1 .. Len(got[c]), IsAnswer(got[c][i])
      PROVE  /\ got[c][i].req \in Past'
             /\ \A j \in 1 .. k + 1 :
                  IsAnswer(sendqueue'[j]) => got[c][i].req <= sendqueue'[j].req
             /\ \A j \in 1 .. Len(got[c]) :
                  i < j /\ IsAnswer(got[c][j]) => got[c][i].req <= got[c][j].req
  <2>1. /\ got[c][i].req \in Past
        /\ \A j \in 1 .. k : IsAnswer(sendqueue[j]) => got[c][i].req <= sendqueue[j].req
        /\ \A j \in 1 .. Len(got[c]) :
             i < j /\ IsAnswer(got[c][j]) => got[c][i].req <= got[c][j].req
    BY <1>4 DEF Order
  <2> QED BY <1>1, <1>2, <2>1
<1> QED BY <1>1, <1>3, <1>4 DEF Order

\* A place of a list with one more member is the last, or one before it.
LEMMA LastOrBefore ==
  ASSUME NEW n \in Nat, NEW len, len = n + 1, NEW i \in 1 .. len
  PROVE  i = n + 1 \/ i \in 1 .. n
OBVIOUS

\* A message that SendTask writes goes behind those its client has.
LEMMA OrderSend ==
  ASSUME Order, sendqueue # <<>>, sendqueue' = Tail(sendqueue),
         got' = [got EXCEPT ![Head(sendqueue).to] = Append(@, Head(sendqueue))],
         Past \subseteq Past'
  PROVE  Order' /\ Len(sendqueue) \in Nat /\ Len(sendqueue') = Len(sendqueue) - 1
<1> DEFINE m == Head(sendqueue)
           k == Len(sendqueue)
<1>1. /\ IsSeq(sendqueue') /\ k \in Nat \ {0} /\ Len(sendqueue') = k - 1 /\ m = sendqueue[1]
      /\ \A i \in 1 .. k - 1 : sendqueue'[i] = sendqueue[i + 1]
  BY TailIs DEF Order
<1>2. /\ \A i \in 1 .. k - 1 : i + 1 \in 1 .. k /\ 1 < i + 1
      /\ 1 \in 1 .. k
      /\ \A i, j \in 1 .. k - 1 : i < j => i + 1 < j + 1
  BY <1>1
<1>3. \A c \in Clients : got'[c] = IF c = m.to THEN Append(got[c], m) ELSE got[c]
  BY DEF Order
<1>4. got' = [c \in Clients |-> got'[c]] /\ \A c \in Clients : IsSeq(got'[c])
  <2>1. \A c \in Clients : IsSeq(got[c]) /\ IsSeq(Append(got[c], m))
    BY AppendIs DEF Order
  <2>2. got' = [c \in Clients |-> got'[c]]
    BY DEF Order
  <2> QED BY <1>3, <2>1, <2>2
<1>5. ASSUME NEW i \in 1 .. k - 1, IsAnswer(sendqueue'[i])
      PROVE  /\ sendqueue'[i].req \in Past'
             /\ \A j \in 1 .. k - 1 :
                  i < j /\ IsAnswer(sendqueue'[j]) => sendqueue'[i].req <= sendqueue'[j].req
  BY <1>1, <1>2, <1>5 DEF Order
<1>6. ASSUME NEW c \in Clients, NEW i \in 1 .. Len(got'[c]), IsAnswer(got'[c][i])
      PROVE  /\ got'[c][i].req \in Past'
             /\ \A j \in 1 .. k - 1 :
                  IsAnswer(sendqueue'[j]) => got'[c][i].req <= sendqueue'[j].req
             /\ \A j \in 1 .. Len(got'[c]) :
                  i < j /\ IsAnswer(got'[c][j]) => got'[c][i].req <= got'[c][j].req
  <2> DEFINE l == Len(got[c])
  <2>1. CASE c # m.to
    BY <1>1, <1>2, <1>3, <1>6, <2>1 DEF Order
  <2>2. CASE c = m.to
    <3>1. /\ l \in Nat /\ Len(got'[c]) = l + 1 /\ got'[c][l + 1] = m
          /\ \A j \in 1 .. l : got'[c][j] = got[c][j]
      BY <1>3, <2>2, AppendIs DEF Order
    <3>2. CASE i = l + 1
      <4>1. /\ IsAnswer(sendqueue[1]) /\ got'[c][i] = sendqueue[1]
            /\ sendqueue[1].req \in Past
            /\ \A j \in 1 .. k : 1 < j /\ IsAnswer(sendqueue[j]) =>
                                   sendqueue[1].req <= sendqueue[j].req
        BY <1>1, <1>2, <1>6, <3>1, <3>2 DEF Order
      <4> QED BY <1>1, <1>2, <3>1, <3>2, <4>1
    <3>3. CASE i \in 1 .. l
      <4>1. /\ IsAnswer(got[c][i]) /\ got'[c][i] = got[c][i] /\ got[c][i].req \in Past
            /\ \A j \in 1 .. k : IsAnswer(sendqueue[j]) => got[c][i].req <= sendqueue[j].req
            /\ \A j \in 1 .. l : i < j /\ IsAnswer(got[c][j]) => got[c][i].req <= got[c][j].req
        <5>1. got'[c][i] = got[c][i]
          BY <3>1, <3>3, Zenon
        <5>2. IsAnswer(got[c][i])
          BY <1>6, <5>1
        <5>3. i \in 1 .. Len(got[c]) /\ c \in Clients
          BY <3>3
        <5> QED BY <5>1, <5>2, <5>3 DEF Order
      <4>2. \A j \in 1 .. l + 1 : j \in 1 .. l \/ j = l + 1
        BY <3>1, LastOrBefore, Zenon
      <4> QED BY <1>1, <1>2, <3>1, <4>1, <4>2
    <3>4. i = l + 1 \/ i \in 1 .. l
      BY <1>6, <3>1, LastOrBefore
    <3> QED BY <3>2, <3>3, <3>4
  <2> QED BY <2>1, <2>2
<1>7. Order'
  <2>1. \A c \in Clients : \A i \in 1 .. Len(got'[c]) : IsAnswer(got'[c][i]) =>
          /\ got'[c][i].req \in Past'
          /\ \A j \in 1 .. Len(sendqueue') :
               IsAnswer(sendqueue'[j]) => got'[c][i].req <= sendqueue'[j].req
          /\ \A j \in 1 .. Len(got'[c]) :
               i < j /\ IsAnswer(got'[c][j]) => got'[c][i].req <= got'[c][j].req
    BY <1>1, <1>6
  <2>2. \A i \in 1 .. Len(sendqueue') : IsAnswer(sendqueue'[i]) =>
          /\ sendqueue'[i].req \in Past'
          /\ \A j \in 1 .. Len(sendqueue') :
               i < j /\ IsAnswer(sendqueue'[j]) => sendqueue'[i].req <= sendqueue'[j].req
    BY <1>1, <1>5
  <2>3. IsSeq(sendqueue')
    BY <1>1
  <2> HIDE DEF k, m
  <2> QED BY <1>4, <2>1, <2>2, <2>3 DEF Order
<1> QED BY <1>1, <1>7

\* A request more without an answer.
LEMMA LostMore ==
  ASSUME IsFiniteSet(silent), NEW n, n \notin silent,
         silent' = silent \cup {n}, UNCHANGED asked
  PROVE  /\ IsFiniteSet(silent')
         /\ Cardinality(Lost) \in Nat
         /\ Cardinality(Lost') =
              Cardinality(Lost) + IF asked[n].op \in Forgetful THEN 1 ELSE 0
<1>1. IsFiniteSet(silent')
  BY FS_AddElement
<1>2. IsFiniteSet(Lost) /\ Cardinality(Lost) \in Nat
  BY FS_Subset, FS_CardinalityType DEF Lost
<1>3. Lost' = IF asked[n].op \in Forgetful THEN Lost \cup {n} ELSE Lost
  BY DEF Lost, Forgetful
<1>4. n \notin Lost
  BY DEF Lost
<1>5. Cardinality(Lost \cup {n}) = Cardinality(Lost) + 1
  BY <1>2, <1>4, FS_AddElement
<1> QED BY <1>1, <1>2, <1>3, <1>5

\* What RecvTask holds while it works on something.
Holds(w) == CASE w = "idle" -> 0 [] w = "copy" -> 2 [] OTHER -> 1

LEMMA BuffersIs ==
  /\ Buffers <=> pool \in Nat /\ pool + Len(recvqueue) + Len(sendqueue) + Holds(recvtask.at)
                                   + Cardinality(Lost) = Bufs
  /\ Buffers' <=> pool' \in Nat /\ pool' + Len(recvqueue') + Len(sendqueue')
                                     + Holds(recvtask'.at) + Cardinality(Lost') = Bufs
BY DEF Buffers, LostWithoutAnswer, Held, Holds

LEMMA HoldsIs ==
  Holds("idle") = 0 /\ Holds("rows") = 1 /\ Holds("tell") = 1 /\ Holds("copy") = 2
  /\ Holds("white") = 1
BY DEF Holds

LEMMA Counts ==
  ASSUME IInv
  PROVE  /\ Len(asked) \in Nat /\ Len(recvqueue) \in Nat /\ Len(sendqueue) \in Nat
         /\ Cardinality(Lost) \in Nat /\ pool \in Nat /\ Holds(recvtask.at) \in Nat
         /\ silent \subseteq 1 .. Len(asked)
<1>1. Len(asked) \in Nat /\ Len(recvqueue) \in Nat
  BY AppendIs, LenProperties DEF IInv, Numbers
<1>2. Len(sendqueue) \in Nat
  BY AppendIs DEF IInv, Order
<1>3. Cardinality(Lost) \in Nat
  BY FS_Subset, FS_CardinalityType DEF IInv, Silence, Lost
<1>4. silent \subseteq 1 .. Len(asked)
  BY DEF IInv, Silence, Past
<1> QED BY <1>1, <1>2, <1>3, <1>4 DEF IInv, Buffers, Holds

\* The sum of the buffers, before a step and after it.
LEMMA BuffersKept ==
  ASSUME IInv, pool' \in Nat, Len(recvqueue') \in Nat, Len(sendqueue') \in Nat,
         Holds(recvtask'.at) \in Nat, Cardinality(Lost') \in Nat,
         pool' + Len(recvqueue') + Len(sendqueue') + Holds(recvtask'.at) + Cardinality(Lost')
           = pool + Len(recvqueue) + Len(sendqueue) + Holds(recvtask.at) + Cardinality(Lost)
  PROVE  Buffers'
<1>1. pool + Len(recvqueue) + Len(sendqueue) + Holds(recvtask.at) + Cardinality(Lost) = Bufs
  BY BuffersIs DEF IInv
<1> QED BY <1>1, BuffersIs

\* What the handler and the pool hand each other leaves the sum as it is.
LEMMA HandOver ==
  ASSUME IInv, pool' \in Nat, Holds(recvtask'.at) \in Nat, Len(recvqueue') = Len(recvqueue),
         Len(sendqueue') = Len(sendqueue), Cardinality(Lost') = Cardinality(Lost),
         pool' + Holds(recvtask'.at) = pool + Holds(recvtask.at)
  PROVE  Buffers'
<1> DEFINE p == pool
           s == Len(sendqueue)
           l == Cardinality(Lost)
           h == Holds(recvtask.at)
           r == Len(recvqueue)
           p1 == pool'
           h1 == Holds(recvtask'.at)
<1>1. /\ p \in Nat /\ s \in Nat /\ l \in Nat /\ h \in Nat /\ r \in Nat
      /\ p1 \in Nat /\ h1 \in Nat /\ p1 + h1 = p + h
  BY Counts
<1>2. p1 + r + s + h1 + l = p + r + s + h + l
  <2> HIDE DEF p, s, l, h, r, p1, h1
  <2> QED BY <1>1
<1> QED BY <1>1, <1>2, BuffersKept

\* Nothing changes that the invariant speaks of.
LEMMA SameKept ==
  ASSUME IInv, UNCHANGED <<pool, asked, recvqueue, recvtask, sendqueue, got, silent>>
  PROVE  IInv'
<1>1. Numbers' /\ AtWork' /\ Silence' /\ Past' = Past
  BY DEF IInv, Numbers, AtWork, Silence, Past
<1>2. Order'
  BY <1>1, OrderSame DEF IInv
<1>3. Buffers'
  BY DEF IInv, Buffers, LostWithoutAnswer, Held, Lost
<1> QED BY <1>1, <1>2, <1>3 DEF IInv

\* RecvTask takes a request and is done with it at once: the answer is in its
\* buffer, or there is none and the buffer is freed or forgotten.
LEMMA AnswerKept ==
  ASSUME IInv, recvtask.at = "idle", recvqueue # <<>>, recvqueue' = Tail(recvqueue),
         UNCHANGED <<asked, recvtask, got>>,
         \/ /\ \E m : sendqueue' = Append(sendqueue, m) /\ m.req = Req
            /\ UNCHANGED <<pool, silent>>
         \/ /\ sendqueue' = sendqueue /\ silent' = silent \cup {Req}
            /\ pool' = IF asked[Req].op \in Forgetful THEN pool ELSE pool + 1
  PROVE  IInv'
<1>1. /\ Numbers' /\ Req \in 1 .. Len(asked)
      /\ Len(recvqueue) \in Nat \ {0} /\ Len(recvqueue') = Len(recvqueue) - 1
      /\ \A i \in 1 .. Len(recvqueue') : Req < recvqueue'[i]
      /\ \A n \in Past : n < Req
      /\ \A n \in Past : \A i \in 1 .. Len(recvqueue') : n < recvqueue'[i]
  BY TakeNumbers DEF IInv
<1>2. AtWork'
  BY DEF IInv, AtWork
<1>3. Past \subseteq Past' /\ Req \in Past'
  BY <1>1 DEF Past
<1>4. Req \notin silent
  BY <1>1 DEF IInv, Silence, Past
<1>5. CASE sendqueue' = sendqueue /\ silent' = silent \cup {Req}
             /\ pool' = IF asked[Req].op \in Forgetful THEN pool ELSE pool + 1
  <2>1. /\ IsFiniteSet(silent')
        /\ Cardinality(Lost') = Cardinality(Lost) + IF asked[Req].op \in Forgetful THEN 1 ELSE 0
    BY <1>4, <1>5, LostMore DEF IInv, Silence
  <2>2. Silence'
    BY <1>3, <1>5, <2>1 DEF IInv, Silence
  <2>3. Order'
    BY <1>3, <1>5, OrderSame DEF IInv
  <2>4. Buffers'
    <3>1. /\ pool \in Nat /\ Len(recvqueue) \in Nat /\ Len(sendqueue) \in Nat
        /\ Holds(recvtask.at) \in Nat /\ Cardinality(Lost) \in Nat
      BY Counts
    <3>2. CASE asked[Req].op \in Forgetful
      <4>1. /\ pool' = pool /\ Cardinality(Lost') = Cardinality(Lost) + 1
            /\ Len(sendqueue') = Len(sendqueue) /\ Holds(recvtask'.at) = Holds(recvtask.at)
        BY <1>5, <2>1, <3>2
      <4>2. /\ Len(recvqueue) \in Nat \ {0} /\ Len(recvqueue') = Len(recvqueue) - 1
        BY <1>1
      <4>3. pool' + Len(recvqueue') + Len(sendqueue') + Holds(recvtask'.at) + Cardinality(Lost')
              = pool + Len(recvqueue) + Len(sendqueue) + Holds(recvtask.at) + Cardinality(Lost)
        BY <3>1, <4>1, <4>2
      <4>4. /\ pool' \in Nat /\ Len(recvqueue') \in Nat /\ Len(sendqueue') \in Nat
            /\ Holds(recvtask'.at) \in Nat /\ Cardinality(Lost') \in Nat
        BY <3>1, <4>1, <4>2
      <4> QED BY <4>3, <4>4, BuffersKept
    <3>3. CASE asked[Req].op \notin Forgetful
      <4>1. /\ pool' = pool + 1 /\ Cardinality(Lost') = Cardinality(Lost)
            /\ Len(sendqueue') = Len(sendqueue) /\ Holds(recvtask'.at) = Holds(recvtask.at)
        BY <1>5, <2>1, <3>1, <3>3
      <4> QED BY <1>1, <3>1, <4>1, BuffersKept
    <3> QED BY <3>2, <3>3
  <2> QED BY <1>1, <1>2, <2>2, <2>3, <2>4 DEF IInv
<1>6. ASSUME NEW a, sendqueue' = Append(sendqueue, a), a.req = Req, UNCHANGED <<pool, silent>>
      PROVE  IInv'
  <2>1. Silence'
    BY <1>3, <1>6 DEF IInv, Silence
  <2>2. Order'
    BY <1>1, <1>3, <1>6, OrderPost DEF IInv
  <2>3. Lost' = Lost /\ Len(sendqueue') = Len(sendqueue) + 1
    BY <1>6, AppendIs DEF IInv, Order, Lost
  <2>4. Buffers'
    <3>1. /\ pool \in Nat /\ Len(recvqueue) \in Nat /\ Len(sendqueue) \in Nat
        /\ Holds(recvtask.at) \in Nat /\ Cardinality(Lost) \in Nat
      BY Counts
    <3> QED BY <1>1, <1>6, <2>3, <3>1, BuffersKept
  <2> QED BY <1>1, <1>2, <2>1, <2>2, <2>4 DEF IInv
<1> QED BY <1>5, <1>6

\* RecvTask takes a request and begins to work on it.
LEMMA BeginKept ==
  ASSUME IInv, recvtask.at = "idle", recvqueue # <<>>, recvqueue' = Tail(recvqueue),
         UNCHANGED <<pool, asked, sendqueue, got, silent>>,
         NEW w \in {"rows", "tell"}, NEW result,
         asked[Req].op = IF w = "rows" THEN "rows" ELSE "set",
         recvtask' = [at |-> w, req |-> Req, rows |-> result, next |-> 1, todo |-> {}]
  PROVE  IInv'
<1>1. /\ Numbers' /\ Req \in 1 .. Len(asked)
      /\ Len(recvqueue) \in Nat \ {0} /\ Len(recvqueue') = Len(recvqueue) - 1
      /\ \A i \in 1 .. Len(recvqueue') : Req < recvqueue'[i]
      /\ \A n \in Past : n < Req
      /\ \A n \in Past : \A i \in 1 .. Len(recvqueue') : n < recvqueue'[i]
  BY TakeNumbers DEF IInv
<1>2. recvtask'.at = w /\ recvtask'.req = Req
  OBVIOUS
<1>3. AtWork'
  BY <1>1, <1>2 DEF IInv, AtWork
<1>4. \A n \in Past : n \in Past' /\ n # recvtask'.req
  BY <1>1, <1>2 DEF Past
<1>5. Silence'
  BY <1>4 DEF IInv, Silence
<1>6. Order'
  BY <1>4, OrderSame DEF IInv
<1>7. Buffers'
  <2>1. Lost' = Lost /\ Holds(w) = 1
    BY HoldsIs DEF Lost
  <2> QED BY <1>1, <1>2, <2>1, HoldsIs, Counts, BuffersIs DEF IInv
<1> QED BY <1>1, <1>3, <1>5, <1>6, <1>7 DEF IInv

\* RecvTask goes on with its request, or Evloop tells a client something: a
\* message is posted or none, and no buffer is lost.
LEMMA GoOnKept ==
  ASSUME IInv, UNCHANGED <<asked, recvqueue, got, silent>>,
         recvtask' = [at |-> recvtask'.at, req |-> recvtask'.req, rows |-> recvtask'.rows,
                      next |-> recvtask'.next, todo |-> recvtask'.todo],
         recvtask'.req = recvtask.req,
         \/ recvtask'.at = recvtask.at
         \/ recvtask'.at \in {"tell", "copy", "white"} /\ recvtask.at \in {"tell", "copy", "white"},
         \/ sendqueue' = sendqueue /\ pool' + Holds(recvtask'.at) = pool + Holds(recvtask.at)
         \/ /\ \E m : /\ sendqueue' = Append(sendqueue, m)
                      /\ IsAnswer(m) => recvtask.at # "idle" /\ m.req = recvtask.req
            /\ pool' + 1 = pool /\ recvtask'.at = recvtask.at,
         pool' \in Nat
  PROVE  IInv'
<1>1. Numbers' /\ AtWork'
  BY DEF IInv, Numbers, AtWork
<1>2. Past' = Past
  BY DEF IInv, AtWork, Past
<1>3. Silence'
  BY <1>2 DEF IInv, AtWork, Silence
<1>4. Lost' = Lost /\ Holds(recvtask'.at) \in Nat
  BY DEF Lost, Holds
<1>5. CASE sendqueue' = sendqueue /\ pool' + Holds(recvtask'.at) = pool + Holds(recvtask.at)
  <2>1. Order'
    BY <1>2, <1>5, OrderSame DEF IInv
  <2>2. Buffers'
    <3>1. Len(recvqueue') = Len(recvqueue) /\ Len(sendqueue') = Len(sendqueue)
          /\ Cardinality(Lost') = Cardinality(Lost)
      BY <1>4, <1>5
    <3> QED BY <1>4, <1>5, <3>1, HandOver, Zenon
  <2> QED BY <1>1, <1>3, <2>1, <2>2 DEF IInv
<1>6. ASSUME NEW a, sendqueue' = Append(sendqueue, a),
             IsAnswer(a) => recvtask.at # "idle" /\ a.req = recvtask.req,
             pool' + 1 = pool, recvtask'.at = recvtask.at
      PROVE  IInv'
  <2>1. IsAnswer(a) => a.req \in Past' /\ \A n \in Past : n <= a.req
    BY <1>2, <1>6, Counts DEF IInv, AtWork, Past
  <2>2. Order'
    BY <1>2, <1>6, <2>1, OrderPost DEF IInv
  <2>3. Len(sendqueue') = Len(sendqueue) + 1
    BY <1>6, AppendIs DEF IInv, Order
  <2>4. Buffers'
    BY <1>4, <1>6, <2>3, Counts, BuffersIs DEF IInv
  <2> QED BY <1>1, <1>3, <2>2, <2>4 DEF IInv
<1> QED BY <1>5, <1>6

\* What RecvTask held is free, holds its last message, or is lost.
LEMMA EndBuffers ==
  ASSUME IInv, recvtask'.at = "idle", UNCHANGED recvqueue,
         pool' \in Nat, Len(sendqueue') \in Nat, Cardinality(Lost') \in Nat,
         pool' + Len(sendqueue') + Cardinality(Lost')
           = pool + Holds(recvtask.at) + Len(sendqueue) + Cardinality(Lost)
  PROVE  Buffers'
<1>1. /\ pool \in Nat /\ Len(recvqueue) \in Nat /\ Len(sendqueue) \in Nat
      /\ Holds(recvtask.at) \in Nat /\ Cardinality(Lost) \in Nat
  BY Counts
<1>2. Holds(recvtask'.at) = 0 /\ Len(recvqueue') = Len(recvqueue)
  BY HoldsIs
<1>3. Len(recvqueue') \in Nat /\ Holds(recvtask'.at) \in Nat
  BY <1>1, <1>2
<1>4. pool' + Len(recvqueue') + Len(sendqueue') + Holds(recvtask'.at) + Cardinality(Lost')
        = pool + Len(recvqueue) + Len(sendqueue) + Holds(recvtask.at) + Cardinality(Lost)
  <2> DEFINE p == pool
             s == Len(sendqueue)
             l == Cardinality(Lost)
             h == Holds(recvtask.at)
             r == Len(recvqueue)
             p1 == pool'
             s1 == Len(sendqueue')
             l1 == Cardinality(Lost')
  <2>1. p1 + r + s1 + 0 + l1 = p + r + s + h + l
    <3>1. /\ p \in Nat /\ s \in Nat /\ l \in Nat /\ h \in Nat /\ r \in Nat
          /\ p1 \in Nat /\ s1 \in Nat /\ l1 \in Nat /\ p1 + s1 + l1 = p + h + s + l
      BY <1>1
    <3> HIDE DEF p, s, l, h, r, p1, s1, l1
    <3> QED BY <3>1
  <2> QED BY <1>2, <2>1
<1> QED BY <1>3, <1>4, BuffersKept

\* RecvTask is done with its request: with a last message or without.
LEMMA EndKept ==
  ASSUME IInv, recvtask.at # "idle", recvtask' = Idle, UNCHANGED <<asked, recvqueue, got>>,
         NEW posted \in {0, 1}, NEW lost \in {0, 1},
         posted = 0 => sendqueue' = sendqueue,
         posted = 1 => \E m : /\ sendqueue' = Append(sendqueue, m)
                              /\ IsAnswer(m) => m.req = recvtask.req,
         \/ lost = 0 /\ silent' = silent
         \/ /\ lost = IF asked[recvtask.req].op \in Forgetful THEN 1 ELSE 0
            /\ silent' = silent \cup {recvtask.req},
         pool' \in Nat,
         pool' + posted + lost = pool + Holds(recvtask.at)
  PROVE  IInv'
<1>1. recvtask'.at = "idle" /\ Numbers' /\ AtWork'
  BY DEF IInv, Numbers, AtWork, Idle
<1>2. Past \subseteq Past' /\ recvtask.req \in Past /\ recvtask.req \in Past'
  BY <1>1, Counts DEF IInv, AtWork, Past
<1>3. recvtask.req \notin silent
  BY DEF IInv, Silence
<1>4. Silence' /\ Cardinality(Lost') = Cardinality(Lost) + lost
  <2>1. CASE lost = 0 /\ silent' = silent
    <3>1. Lost' = Lost
      BY <2>1 DEF Lost
    <3> QED BY <1>1, <1>2, <2>1, <3>1, Counts DEF IInv, Silence
  <2>2. CASE /\ lost = IF asked[recvtask.req].op \in Forgetful THEN 1 ELSE 0
             /\ silent' = silent \cup {recvtask.req}
    <3>1. /\ IsFiniteSet(silent')
          /\ Cardinality(Lost') = Cardinality(Lost) + lost
      BY <1>3, <2>2, LostMore DEF IInv, Silence
    <3> QED BY <1>1, <1>2, <2>2, <3>1 DEF IInv, Silence
  <2> QED BY <2>1, <2>2
<1>5. Order' /\ Len(sendqueue') = Len(sendqueue) + posted
  <2>1. CASE posted = 0
    BY <1>2, <2>1, Counts, OrderSame DEF IInv
  <2>2. CASE posted = 1
    <3>1. PICK a : /\ sendqueue' = Append(sendqueue, a)
                   /\ IsAnswer(a) => a.req = recvtask.req
      BY <2>2
    <3>2. IsAnswer(a) => a.req \in Past' /\ \A n \in Past : n <= a.req
      BY <1>2, <3>1 DEF Past
    <3> QED BY <1>2, <2>2, <3>1, <3>2, OrderPost, AppendIs DEF IInv, Order
  <2> QED BY <2>1, <2>2
<1>6. Buffers'
  <2>1. /\ pool \in Nat /\ Len(sendqueue) \in Nat
        /\ Holds(recvtask.at) \in Nat /\ Cardinality(Lost) \in Nat
    BY Counts
  <2>2. /\ Len(sendqueue') = Len(sendqueue) + posted
        /\ Cardinality(Lost') = Cardinality(Lost) + lost
        /\ posted \in Nat /\ lost \in Nat /\ pool' \in Nat
        /\ pool' + posted + lost = pool + Holds(recvtask.at)
    BY <1>4, <1>5
  <2>3. /\ Len(sendqueue') \in Nat /\ Cardinality(Lost') \in Nat
        /\ pool' + Len(sendqueue') + Cardinality(Lost')
              = pool + Holds(recvtask.at) + Len(sendqueue) + Cardinality(Lost)
    <3>1. Len(sendqueue') \in Nat /\ Cardinality(Lost') \in Nat
      BY <2>1, <2>2
    <3>2. pool' + Len(sendqueue') + Cardinality(Lost')
            = (pool' + posted + lost) + Len(sendqueue) + Cardinality(Lost)
      BY <2>1, <2>2
    <3> QED BY <2>1, <2>2, <3>1, <3>2
  <2> QED BY <1>1, <2>2, <2>3, EndBuffers
<1> QED BY <1>1, <1>4, <1>5, <1>6 DEF IInv

\* SendTask writes a message and frees its buffer.
LEMMA SendKept ==
  ASSUME IInv, Send
  PROVE  IInv'
<1>1. /\ UNCHANGED <<asked, recvqueue, recvtask, silent>> /\ pool' = pool + 1
      /\ sendqueue # <<>> /\ sendqueue' = Tail(sendqueue)
      /\ got' = [got EXCEPT ![Head(sendqueue).to] = Append(@, Head(sendqueue))]
  BY DEF Send
<1>2. Numbers' /\ AtWork' /\ Silence' /\ Past' = Past /\ Lost' = Lost
  BY <1>1 DEF IInv, Numbers, AtWork, Silence, Past, Lost
<1>3. Order' /\ Len(sendqueue') = Len(sendqueue) - 1
  BY <1>1, <1>2, OrderSend DEF IInv
<1>4. Buffers'
  <2>1. /\ pool \in Nat /\ Len(recvqueue) \in Nat /\ Len(sendqueue) \in Nat
        /\ Holds(recvtask.at) \in Nat /\ Cardinality(Lost) \in Nat
    BY Counts
  <2> QED BY <1>1, <1>2, <1>3, <2>1, BuffersKept
<1> QED BY <1>2, <1>3, <1>4 DEF IInv

\* Evloop reads a request: it gets the next number.
LEMMA AskKept ==
  ASSUME IInv, pool \in Nat \ {0}, pool' = pool - 1,
         UNCHANGED <<recvtask, sendqueue, got, silent>>,
         NEW request, asked' = Append(asked, request),
         recvqueue' = Append(recvqueue, Len(asked'))
  PROVE  IInv'
<1>1. /\ Len(asked) \in Nat /\ IsSeq(asked') /\ Len(asked') = Len(asked) + 1
      /\ \A n \in 1 .. Len(asked) : asked'[n] = asked[n]
  BY AppendIs DEF IInv, Numbers
<1> DEFINE k == Len(recvqueue)
           last == Len(asked')
<1>2. last \in Nat /\ recvqueue \in Seq(Nat) /\ recvqueue' = Append(recvqueue, last)
  BY <1>1 DEF IInv, Numbers
<1>3. /\ recvqueue' \in Seq(Nat) /\ k \in Nat /\ Len(recvqueue') = k + 1
      /\ \A i \in 1 .. k : recvqueue'[i] = recvqueue[i]
      /\ recvqueue'[k + 1] = last
  <2> HIDE DEF last
  <2> QED BY <1>2, AppendProperties, LenProperties
<1>4. \A i \in 1 .. k + 1 : i \in 1 .. k \/ i = k + 1
  BY <1>3
<1>5. \A i \in 1 .. k : recvqueue[i] \in 1 .. Len(asked)
                          /\ \A j \in 1 .. k : i < j => recvqueue[i] < recvqueue[j]
  BY DEF IInv, Numbers
<1>6. Numbers'
  BY <1>1, <1>3, <1>4, <1>5 DEF Numbers
<1>7. AtWork'
  <2>1. recvtask.at # "idle" =>
          /\ recvtask.req \in 1 .. Len(asked)
          /\ \A i \in 1 .. k : recvtask.req < recvqueue[i]
    BY DEF IInv, AtWork
  <2>2. recvtask.at # "idle" => \A i \in 1 .. k + 1 : recvtask.req < recvqueue'[i]
    BY <1>1, <1>3, <1>4, <2>1
  <2> QED BY <1>1, <1>3, <2>1, <2>2 DEF IInv, AtWork
<1>8. Past \subseteq Past'
  <2>1. ASSUME NEW n \in Past PROVE n \in Past'
    <3>1. n \in 1 .. Len(asked) /\ \A i \in 1 .. k : n < recvqueue[i]
      BY <2>1 DEF Past
    <3>2. \A i \in 1 .. k + 1 : n < recvqueue'[i]
      BY <1>1, <1>3, <1>4, <3>1
    <3> QED BY <1>1, <1>3, <2>1, <3>1, <3>2 DEF Past
  <2> QED BY <2>1
<1>9. Silence'
  BY <1>8 DEF IInv, Silence
<1>10. Order'
  BY <1>8, OrderSame DEF IInv
<1>11. Buffers'
  <2>1. Lost' = Lost
    BY <1>1, Counts DEF Lost
  <2> HIDE DEF k
  <2>2. Len(recvqueue') = Len(recvqueue) + 1
    BY <1>3 DEF k
  <2> QED BY <2>1, <2>2, Counts, BuffersIs DEF IInv
<1> QED BY <1>6, <1>7, <1>9, <1>10, <1>11 DEF IInv

(***************************************************************************)
(* The steps                                                               *)
(***************************************************************************)

\* RecvTask is idle and takes the first request that waits.
LEMMA Taken ==
  ASSUME NEW op, Take(op)
  PROVE  recvtask.at = "idle" /\ recvqueue # <<>> /\ asked[Req].op = op
BY DEF Take

\* The handlers that are done at once.
LEMMA AtOnceKept ==
  ASSUME IInv, Count \/ GetCourseGroup \/ GetStudentDetailInfo \/ GetTeacherInfo
                 \/ GetCourseItemKeyInfo
  PROVE  IInv'
<1>n. pool \in Nat
  BY Counts
<1>1. CASE Count
  <2> DEFINE m == [Message(From, Req, "count") EXCEPT
               !.type = Len(IF asked[Req].kind = "student" THEN table[asked[Req].kind]
                             ELSE Selected(asked[Req].kind))]
  <2>1. /\ recvtask.at = "idle" /\ recvqueue # <<>> /\ asked[Req].op = "count"
        /\ recvqueue' = Tail(recvqueue) /\ UNCHANGED <<asked, recvtask, got>>
    BY <1>1, Taken DEF Count
  <2>2. \/ Silently(Req) /\ UNCHANGED <<pool, sendqueue>>
        \/ AnswerInPlace(m)
    BY <1>1 DEF Count
  <2>3. m.req = Req
    BY DEF Message
  <2>4. "count" \in Forgetful
    BY DEF Forgetful
  <2> HIDE DEF m
  <2>5. CASE Silently(Req) /\ UNCHANGED <<pool, sendqueue>>
    BY <2>1, <2>4, <2>5, AnswerKept DEF Silently
  <2>6. CASE AnswerInPlace(m)
    BY <2>1, <2>3, <2>6, AnswerKept DEF AnswerInPlace, Post
  <2> QED BY <2>2, <2>5, <2>6
<1>2. ASSUME NEW op, One(op) \/ (GetCourseGroup /\ op = "list"),
             \/ \E tag \in {"list", "answer"} : AnswerInPlace(Message(From, Req, tag))
             \/ NotTold /\ pool' = IF op \in Forgetful THEN pool ELSE pool + 1
      PROVE  IInv'
  <2>1. /\ recvtask.at = "idle" /\ recvqueue # <<>> /\ asked[Req].op = op
        /\ recvqueue' = Tail(recvqueue) /\ UNCHANGED <<asked, recvtask, got>>
    BY <1>2, Taken DEF One, GetCourseGroup
  <2>2. CASE NotTold /\ pool' = IF op \in Forgetful THEN pool ELSE pool + 1
    BY <2>1, <2>2, AnswerKept DEF NotTold, Silently
  <2>3. ASSUME NEW tag \in {"list", "answer"}, AnswerInPlace(Message(From, Req, tag)) PROVE IInv'
    <3> DEFINE m == Message(From, Req, tag)
    <3>1. m.req = Req
      BY DEF Message
    <3>2. AnswerInPlace(m)
      BY <2>3
    <3> HIDE DEF m
    <3> QED BY <2>1, <3>1, <3>2, AnswerKept DEF AnswerInPlace, Post
  <2> QED BY <1>2, <2>2, <2>3
<1>3. CASE GetCourseGroup
  <2>1. AnswerInPlace(Message(From, Req, "list"))
    BY <1>3 DEF GetCourseGroup
  <2> QED BY <1>2, <1>3, <2>1
<1>4. CASE GetStudentDetailInfo
  <2>1. /\ One("detail") /\ "detail" \in Forgetful
        /\ \/ AnswerInPlace(Message(From, Req, "answer"))
           \/ NotTold /\ pool' = pool
    BY <1>4 DEF GetStudentDetailInfo, Tell, Forgetful
  <2> QED BY <1>2, <2>1
<1>5. CASE GetTeacherInfo
  <2>1. /\ One("teacher") /\ "teacher" \in Forgetful
        /\ \/ AnswerInPlace(Message(From, Req, "answer"))
           \/ NotTold /\ pool' = pool
    BY <1>5 DEF GetTeacherInfo, Tell, Forgetful
  <2> QED BY <1>2, <2>1
<1>6. CASE GetCourseItemKeyInfo
  <2>1. /\ One("keys") /\ "keys" \notin Forgetful
        /\ \/ AnswerInPlace(Message(From, Req, "answer"))
           \/ NotTold /\ pool' = pool + 1
    BY <1>6 DEF GetCourseItemKeyInfo, Tell, Forgetful
  <2> QED BY <1>2, <2>1
<1> QED BY <1>1, <1>3, <1>4, <1>5, <1>6

\* The query for rows, and the choice of a course group.
LEMMA FirstKept ==
  ASSUME IInv, Query \/ SetCourseGroup
  PROVE  IInv'
<1>1. CASE Query
  <2>1. /\ recvtask.at = "idle" /\ recvqueue # <<>> /\ asked[Req].op = "rows"
        /\ recvqueue' = Tail(recvqueue) /\ UNCHANGED <<asked, sendqueue, got>>
    BY <1>1, Taken DEF Query
  <2>2. CASE pool' = pool + 1 /\ Silently(Req) /\ UNCHANGED recvtask
    <3>1. "rows" \notin Forgetful
      BY DEF Forgetful
    <3> QED BY <2>1, <2>2, <3>1, AnswerKept DEF Silently
  <2>3. ASSUME NEW result, recvtask' = [Idle EXCEPT !.at = "rows", !.req = Req, !.rows = result],
               UNCHANGED <<pool, silent>>
        PROVE  IInv'
    <3>1. recvtask' = [at |-> "rows", req |-> Req, rows |-> result, next |-> 1, todo |-> {}]
      BY <2>3 DEF Idle
    <3> QED BY <2>1, <2>3, <3>1, BeginKept
  <2> QED BY <1>1, <2>2, <2>3 DEF Query
<1>2. CASE SetCourseGroup
  <2>1. /\ recvtask.at = "idle" /\ recvqueue # <<>> /\ asked[Req].op = "set"
        /\ recvqueue' = Tail(recvqueue) /\ UNCHANGED <<pool, asked, sendqueue, got, silent>>
    BY <1>2, Taken DEF SetCourseGroup
  <2>2. recvtask' = [at |-> "tell", req |-> Req, rows |-> <<>>, next |-> 1, todo |-> {}]
    BY <1>2 DEF SetCourseGroup, Idle
  <2> QED BY <2>1, <2>2, BeginKept
<1> QED BY <1>1, <1>2

\* Rows, copies for students, and notices of Evloop.
LEMMA OnTheWayKept ==
  ASSUME IInv, up',
         NextRow \/ TellStudent \/ TellStudentsDone \/ (\E c \in Clients : Notice(c))
           \/ (TellMalloc /\ recvtask' # Idle)
  PROVE  IInv'
<1>n. pool \in Nat
  BY Counts
<1>s. recvtask = [at |-> recvtask.at, req |-> recvtask.req, rows |-> recvtask.rows,
                  next |-> recvtask.next, todo |-> recvtask.todo]
  BY DEF IInv, AtWork
<1>1. ASSUME pool # 0, pool' = pool - 1, UNCHANGED <<asked, recvqueue, got, silent>>,
             NEW m, Post(m), IsAnswer(m) => recvtask.at # "idle" /\ m.req = recvtask.req,
             NEW next, NEW todo,
             recvtask' = [at |-> recvtask.at, req |-> recvtask.req, rows |-> recvtask.rows,
                          next |-> next, todo |-> todo]
      PROVE  IInv'
  <2>1. /\ recvtask'.at = recvtask.at /\ recvtask'.req = recvtask.req
        /\ recvtask' = [at |-> recvtask'.at, req |-> recvtask'.req, rows |-> recvtask'.rows,
                        next |-> recvtask'.next, todo |-> recvtask'.todo]
    BY <1>1
  <2>2. pool' \in Nat /\ pool' + 1 = pool /\ sendqueue' = Append(sendqueue, m)
    BY <1>n, <1>1 DEF Post
  <2> QED BY <1>1, <2>1, <2>2, GoOnKept
<1>2. CASE NextRow
  <2> DEFINE m == [Message(asked[recvtask.req].from, recvtask.req, "row") EXCEPT
               !.type = RowType(asked[recvtask.req].kind, recvtask.next - 1),
               !.rows = <<recvtask.rows[recvtask.next]>>]
             next == recvtask.next + 1
             todo == recvtask.todo
  <2>1. /\ pool # 0 /\ pool' = pool - 1 /\ Post(m) /\ recvtask' = [recvtask EXCEPT !.next = next]
        /\ UNCHANGED <<asked, recvqueue, got, silent>>
    BY <1>2 DEF NextRow, Crash
  <2>2. recvtask.at # "idle" /\ m.req = recvtask.req
    BY <1>2 DEF NextRow, InLoop, Message
  <2> HIDE DEF m, next, todo
  <2>3. recvtask' = [at |-> recvtask.at, req |-> recvtask.req, rows |-> recvtask.rows,
                     next |-> next, todo |-> todo]
    BY <1>s, <2>1 DEF todo
  <2> QED BY <1>1, <2>1, <2>2, <2>3
<1>3. CASE TellStudent
  <2>1. PICK s : /\ pool # 0 /\ pool' = pool - 1 /\ Post(Message(s, recvtask.req, "class"))
                 /\ recvtask' = [recvtask EXCEPT !.todo = @ \ {s}]
                 /\ UNCHANGED <<asked, recvqueue, got, silent>>
    BY <1>3 DEF TellStudent, Crash
  <2> DEFINE m == Message(s, recvtask.req, "class")
             next == recvtask.next
             todo == recvtask.todo \ {s}
  <2>2. Post(m) /\ ~IsAnswer(m)
    BY <2>1 DEF Message, IsAnswer
  <2>3. recvtask' = [recvtask EXCEPT !.todo = todo]
    BY <2>1
  <2> HIDE DEF m, next, todo
  <2>4. recvtask' = [at |-> recvtask.at, req |-> recvtask.req, rows |-> recvtask.rows,
                     next |-> next, todo |-> todo]
    BY <1>s, <2>3 DEF next
  <2> QED BY <1>1, <2>1, <2>2, <2>4
<1>4. ASSUME NEW c \in Clients, Notice(c) PROVE IInv'
  <2> DEFINE m == Message(c, 0, "notice")
             next == recvtask.next
             todo == recvtask.todo
  <2>1. /\ pool # 0 /\ pool' = pool - 1 /\ Post(m)
        /\ UNCHANGED <<asked, recvqueue, recvtask, got, silent>>
    BY <1>4 DEF Notice
  <2>2. ~IsAnswer(m)
    BY DEF Message, IsAnswer
  <2> HIDE DEF m
  <2> QED BY <1>1, <1>s, <2>1, <2>2
<1>5. ASSUME NEW w \in {"copy", "white"}, recvtask.at \in {"tell", "copy"}, NEW todo,
             recvtask' = [at |-> w, req |-> recvtask.req, rows |-> recvtask.rows,
                          next |-> recvtask.next, todo |-> todo],
             pool' \in Nat, pool' + Holds(w) = pool + Holds(recvtask.at),
             UNCHANGED <<asked, recvqueue, sendqueue, got, silent>>
      PROVE  IInv'
  <2>1. /\ recvtask'.at = w /\ recvtask'.req = recvtask.req
        /\ recvtask' = [at |-> recvtask'.at, req |-> recvtask'.req, rows |-> recvtask'.rows,
                        next |-> recvtask'.next, todo |-> recvtask'.todo]
    BY <1>5
  <2> QED BY <1>5, <2>1, GoOnKept
<1>6. CASE TellStudentsDone
  <2>1. /\ recvtask.at = "copy" /\ pool' = pool + 1 /\ recvtask' = [recvtask EXCEPT !.at = "white"]
        /\ UNCHANGED <<asked, recvqueue, sendqueue, got, silent>>
    BY <1>6 DEF TellStudentsDone
  <2>2. recvtask' = [at |-> "white", req |-> recvtask.req, rows |-> recvtask.rows,
                     next |-> recvtask.next, todo |-> recvtask.todo]
    BY <1>s, <2>1
  <2>3. pool' \in Nat /\ pool' + Holds("white") = pool + Holds(recvtask.at)
    BY <1>n, <2>1, HoldsIs
  <2> QED BY <1>5, <2>1, <2>2, <2>3
<1>7. CASE TellMalloc /\ recvtask' # Idle
  <2> DEFINE todo == IF asked[recvtask.req].from \in Room THEN Students ELSE {}
  <2>1. /\ recvtask.at = "tell" /\ pool # 0 /\ pool' = pool - 1
        /\ recvtask' = [recvtask EXCEPT !.at = "copy", !.todo = todo]
        /\ UNCHANGED <<asked, recvqueue, sendqueue, got, silent>>
    BY <1>7 DEF TellMalloc
  <2> HIDE DEF todo
  <2>2. recvtask' = [at |-> "copy", req |-> recvtask.req, rows |-> recvtask.rows,
                     next |-> recvtask.next, todo |-> todo]
    BY <1>s, <2>1
  <2>3. pool' \in Nat /\ pool' + Holds("copy") = pool + Holds(recvtask.at)
    BY <1>n, <2>1, HoldsIs
  <2> QED BY <1>5, <2>1, <2>2, <2>3
<1> QED BY <1>2, <1>3, <1>4, <1>6, <1>7

\* The last row or an exception before it, and the last notice of a choice.
LEMMA LastKept ==
  ASSUME IInv, up',
         RowThrows \/ Finish \/ TellWhite \/ (TellMalloc /\ recvtask' = Idle)
  PROVE  IInv'
<1>n. pool \in Nat
  BY Counts
<1>o. /\ recvtask.at = "rows" => asked[recvtask.req].op \notin Forgetful
      /\ recvtask.at \in {"tell", "white"} => asked[recvtask.req].op \in Forgetful
  BY DEF IInv, AtWork, Forgetful
<1>1. CASE RowThrows
  <2>1. /\ recvtask.at = "rows" /\ pool' = pool + 1 /\ silent' = silent \cup {recvtask.req}
        /\ recvtask' = Idle /\ UNCHANGED <<asked, recvqueue, sendqueue, got>>
    BY <1>1 DEF RowThrows, InLoop, Silently
  <2>2. pool' \in Nat /\ pool' + 0 + 0 = pool + Holds(recvtask.at)
    BY <1>n, <2>1, HoldsIs
  <2> QED BY <1>o, <2>1, <2>2, EndKept
<1>2. CASE Finish
  <2> DEFINE m == [Message(asked[recvtask.req].from, recvtask.req, "finished") EXCEPT
               !.rows = recvtask.rows]
  <2>1. /\ recvtask.at = "rows" /\ Post(m) /\ recvtask' = Idle
        /\ UNCHANGED <<pool, asked, recvqueue, got, silent>>
    BY <1>2 DEF Finish, InLoop, Crash
  <2>2. m.req = recvtask.req
    BY DEF Message
  <2> HIDE DEF m
  <2>3. pool' \in Nat /\ pool' + 1 + 0 = pool + Holds(recvtask.at)
    BY <1>n, <2>1, HoldsIs
  <2>4. \E a : sendqueue' = Append(sendqueue, a) /\ (IsAnswer(a) => a.req = recvtask.req)
    BY <2>1, <2>2 DEF Post
  <2> QED BY <2>1, <2>3, <2>4, EndKept
<1>3. CASE TellWhite
  <2>1. /\ recvtask.at = "white" /\ recvtask' = Idle /\ silent' = silent \cup {recvtask.req}
        /\ UNCHANGED <<asked, recvqueue, got>>
    BY <1>3 DEF TellWhite, Silently
  <2>2. CASE pool > 0 /\ pool' = pool - 1 /\ Post(Message(White, recvtask.req, "class"))
    <3>1. ~IsAnswer(Message(White, recvtask.req, "class"))
      BY DEF Message, IsAnswer
    <3>2. \E a : sendqueue' = Append(sendqueue, a) /\ (IsAnswer(a) => a.req = recvtask.req)
      BY <2>2, <3>1 DEF Post
    <3>3. pool' \in Nat /\ pool' + 1 + 1 = pool + Holds(recvtask.at)
      BY <1>n, <2>1, <2>2, HoldsIs
    <3> QED BY <1>o, <2>1, <3>2, <3>3, EndKept
  <2>3. CASE UNCHANGED <<pool, sendqueue>>
    <3>1. pool' \in Nat /\ pool' + 0 + 1 = pool + Holds(recvtask.at)
      BY <1>n, <2>1, <2>3, HoldsIs
    <3> QED BY <1>o, <2>1, <2>3, <3>1, EndKept
  <2> QED BY <1>3, <2>2, <2>3 DEF TellWhite
<1>4. CASE TellMalloc /\ recvtask' = Idle
  <2>1. /\ recvtask.at = "tell" /\ pool = 0 /\ pool' = pool /\ silent' = silent \cup {recvtask.req}
        /\ UNCHANGED <<asked, recvqueue, sendqueue, got>>
    <3>1. recvtask.at = "tell" /\ UNCHANGED <<asked, recvqueue, sendqueue, got>>
      BY <1>4 DEF TellMalloc
    <3>2. CASE pool # 0
      <4>1. recvtask' = [recvtask EXCEPT !.at = "copy",
               !.todo = IF asked[recvtask.req].from \in Room THEN Students ELSE {}]
        BY <1>4, <3>2 DEF TellMalloc
      <4>2. recvtask = [at |-> recvtask.at, req |-> recvtask.req, rows |-> recvtask.rows,
                        next |-> recvtask.next, todo |-> recvtask.todo]
        BY DEF IInv, AtWork
      <4>3. recvtask'.at = "copy"
        BY <4>1, <4>2
      <4> QED BY <1>4, <4>3 DEF Idle
    <3>3. CASE pool = 0
      BY <1>4, <3>1, <3>3 DEF TellMalloc, Silently
    <3> QED BY <3>2, <3>3
  <2>2. pool' \in Nat /\ pool' + 0 + 1 = pool + Holds(recvtask.at)
    BY <1>n, <2>1, HoldsIs
  <2> QED BY <1>4, <1>o, <2>1, <2>2, EndKept
<1> QED BY <1>1, <1>2, <1>3, <1>4

LEMMA NextIInv == IInv /\ [Next]_vars => IInv'
<1> SUFFICES ASSUME IInv, [Next]_vars PROVE IInv'
  OBVIOUS
<1>n. pool \in Nat
  BY Counts
<1>1. CASE UNCHANGED vars \/ Crash \/ (\E kind \in Edited : Edit(kind))
  <2>1. UNCHANGED <<pool, asked, recvqueue, recvtask, sendqueue, got, silent>>
    BY <1>1 DEF vars, Crash, Edit
  <2> QED BY <2>1, SameKept
<1>2. CASE Send
  BY <1>2, SendKept
<1>3. ASSUME NEW c \in Clients, NEW r \in Requests[c], Ask(c, r), ~Crash PROVE IInv'
  <2> DEFINE request == [from |-> c, op |-> r.op, kind |-> r.kind]
  <2>1. /\ pool # 0 /\ pool' = pool - 1 /\ asked' = Append(asked, request)
        /\ recvqueue' = Append(recvqueue, Len(asked'))
        /\ UNCHANGED <<recvtask, sendqueue, got, silent>>
    BY <1>3 DEF Ask
  <2> HIDE DEF request
  <2> QED BY <1>n, <2>1, AskKept
<1>4. ASSUME RecvTask, ~Crash PROVE IInv'
  <2>1. CASE Count \/ GetCourseGroup \/ GetStudentDetailInfo \/ GetTeacherInfo
               \/ GetCourseItemKeyInfo
    BY <2>1, AtOnceKept
  <2>2. CASE Query \/ SetCourseGroup
    BY <2>2, FirstKept
  <2>3. CASE NextRow \/ TellStudent \/ TellStudentsDone \/ (TellMalloc /\ recvtask' # Idle)
    <3>1. up'
      BY <1>4, <2>3 DEF NextRow, InLoop, TellStudent, TellStudentsDone, TellMalloc
    <3> QED BY <2>3, <3>1, OnTheWayKept
  <2>4. CASE RowThrows \/ Finish \/ TellWhite \/ (TellMalloc /\ recvtask' = Idle)
    <3>1. up'
      BY <1>4, <2>4 DEF RowThrows, Finish, InLoop, TellWhite, TellMalloc
    <3> QED BY <2>4, <3>1, LastKept
  <2> QED BY <1>4, <2>1, <2>2, <2>3, <2>4 DEF RecvTask
<1>5. ASSUME NEW c \in Clients, Notice(c) PROVE IInv'
  <2>1. up'
    BY <1>5 DEF Notice
  <2> QED BY <1>5, <2>1, OnTheWayKept
<1> QED BY <1>1, <1>2, <1>3, <1>4, <1>5 DEF Next

(***************************************************************************)
(* The theorems                                                            *)
(***************************************************************************)

\* For any clients and requests, and whatever the database and Evloop do between
\* two messages, each client receives the answers in the order of its questions.
THEOREM Answers == Spec => []AnswersInOrder
<1>1. IInv => AnswersInOrder
  <2> SUFFICES ASSUME IInv, NEW c \in Clients, NEW i \in DOMAIN got[c], NEW j \in DOMAIN got[c],
                      i < j, IsAnswer(got[c][i]), IsAnswer(got[c][j])
               PROVE  got[c][i].req <= got[c][j].req
    BY DEF AnswersInOrder
  <2>1. DOMAIN got[c] = 1 .. Len(got[c])
    BY LenProperties DEF IInv, Order, IsSeq
  <2> QED BY <2>1 DEF IInv, Order
<1> QED BY InitIInv, NextIInv, <1>1, PTL DEF Spec

\* For a pool of any size and tables of any length, the buffers lost are those of
\* counts and single facts without an answer and of choices of a course group.
THEOREM LostBuffers == Spec => []LostWithoutAnswer
<1>1. IInv => LostWithoutAnswer
  BY DEF IInv, Buffers
<1> QED BY InitIInv, NextIInv, <1>1, PTL DEF Spec

(***************************************************************************)
(* Types, and what is sent of a table                                      *)
(***************************************************************************)

\* The types of what IInv does not speak of.
TypedAsked ==
  /\ asked \in Seq([from : Clients, op : Ops, kind : Kinds \cup {"none"}])
  /\ \A n \in 1 .. Len(asked) : asked[n].op \in {"count", "rows"} => asked[n].kind \in Kinds

TypedTask ==
  /\ recvtask.rows \in Seq(Row) /\ recvtask.next \in 1 .. Len(recvtask.rows) + 1
  /\ recvtask.todo \subseteq Students

TypedQueue == \A i \in 1 .. Len(sendqueue) : sendqueue[i].to \in Clients

TypedTables ==
  /\ table \in [Kinds -> Seq(Row)] /\ m_course_list \in CourseLists /\ edits \in Nat

Typed == up \in BOOLEAN /\ TypedAsked /\ TypedTask /\ TypedQueue /\ TypedTables

\* A message of the answer to a request for rows.
Table(m) == m.tag \in {"row", "finished"}

\* The rows of a request come in the order of their types, then the last message.
Before(m, n) ==
  \/ m.req < n.req
  \/ m.req = n.req /\ m.tag = "row" /\ (n.tag = "row" => m.type < n.type)

\* Every client's messages are in that order: first those it has, then the others.
InLine(q, g) ==
  /\ \A i, j \in 1 .. Len(q) : i < j /\ Table(q[i]) /\ Table(q[j]) => Before(q[i], q[j])
  /\ \A c \in Clients : \A i \in 1 .. Len(g[c]) :
       /\ g[c][i].to = c
       /\ \A j \in 1 .. Len(q) : Table(g[c][i]) /\ Table(q[j]) => Before(g[c][i], q[j])
       /\ \A j \in 1 .. Len(g[c]) :
            i < j /\ Table(g[c][i]) /\ Table(g[c][j]) => Before(g[c][i], g[c][j])

\* All messages, on their way and received.
SentIn(q, g) ==
  {q[i] : i \in 1 .. Len(q)} \cup UNION {{g[c][i] : i \in 1 .. Len(g[c])} : c \in Clients}

\* The message of the i-th row of a request, and those of the first k rows.
RowMessage(ask, n, i, row) ==
  [to |-> ask[n].from, req |-> n, tag |-> "row",
   type |-> RowType(ask[n].kind, i - 1), rows |-> <<row>>]

FirstRows(ask, n, rows, k) == {RowMessage(ask, n, i, rows[i]) : i \in 1 .. k}

RowsOf(sent, n) == {m \in sent : m.tag = "row" /\ m.req = n}

\* Of the request RecvTask works on the rows before the next were sent; of one
\* that was finished, all.  Messages of tables go to who asked.
Content(ask, task, sent) ==
  /\ \A m \in sent : Table(m) =>
       /\ m.req \in 1 .. Len(ask) /\ ask[m.req].op = "rows" /\ m.to = ask[m.req].from
       /\ m.tag = "row" => m.type \in Nat
  /\ task.at = "rows" =>
       /\ RowsOf(sent, task.req) = FirstRows(ask, task.req, task.rows, task.next - 1)
       /\ \A m \in sent : m.tag = "finished" => m.req # task.req
  /\ \A m \in sent : m.tag = "finished" =>
       /\ IsSeq(m.rows)
       /\ RowsOf(sent, m.req) = FirstRows(ask, m.req, m.rows, Len(m.rows))

SentWell == InLine(sendqueue, got) /\ Content(asked, recvtask, SentIn(sendqueue, got))

\* The messages, one by one.
LEMMA SentIs ==
  ASSUME NEW q, NEW g, NEW x
  PROVE  x \in SentIn(q, g) <=> \/ \E i \in 1 .. Len(q) : x = q[i]
                               \/ \E c \in Clients : \E i \in 1 .. Len(g[c]) : x = g[c][i]
<1> DEFINE Of(c) == {g[c][i] : i \in 1 .. Len(g[c])}
<1>1. \A c : x \in Of(c) <=> \E i \in 1 .. Len(g[c]) : x = g[c][i]
  OBVIOUS
<1>2. SentIn(q, g) = {q[i] : i \in 1 .. Len(q)} \cup UNION {Of(c) : c \in Clients}
  BY Zenon DEF SentIn
<1> HIDE DEF Of
<1> QED BY <1>1, <1>2

\* A message more, sent after all before it.
LEMMA PostInLine ==
  ASSUME NEW q, NEW g, IsSeq(q), \A c \in Clients : IsSeq(g[c]), InLine(q, g),
         NEW m, Table(m) => \A o \in SentIn(q, g) : Table(o) => Before(o, m)
  PROVE  /\ InLine(Append(q, m), g)
         /\ SentIn(Append(q, m), g) = SentIn(q, g) \cup {m}
<1> DEFINE k == Len(q)
           longer == Append(q, m)
<1>1. /\ k \in Nat /\ Len(longer) = k + 1
      /\ \A i \in 1 .. k : longer[i] = q[i]
      /\ longer[k + 1] = m
  BY AppendIs
<1>2. \A i \in 1 .. k + 1 : i \in 1 .. k \/ i = k + 1
  BY <1>1
<1>3. 1 .. k \subseteq 1 .. k + 1 /\ k + 1 \in 1 .. k + 1
  BY <1>1
<1> HIDE DEF longer, k
<1>4. SentIn(longer, g) = SentIn(q, g) \cup {m}
  <2>1. \A x : (\E i \in 1 .. k + 1 : x = longer[i]) <=> x = m \/ \E i \in 1 .. k : x = q[i]
    BY <1>1, <1>2, <1>3
  <2>2. \A x : x \in SentIn(q, g) <=> \/ \E i \in 1 .. k : x = q[i]
                                     \/ \E c \in Clients : \E i \in 1 .. Len(g[c]) : x = g[c][i]
    BY SentIs DEF k
  <2>3. \A x : x \in SentIn(longer, g) <=>
               \/ \E i \in 1 .. k + 1 : x = longer[i]
               \/ \E c \in Clients : \E i \in 1 .. Len(g[c]) : x = g[c][i]
    <3>1. \A x : x \in SentIn(longer, g) <=>
                 \/ \E i \in 1 .. Len(longer) : x = longer[i]
                 \/ \E c \in Clients : \E i \in 1 .. Len(g[c]) : x = g[c][i]
      BY SentIs
    <3> QED BY <1>1, <3>1
  <2>4. \A x : x \in SentIn(longer, g) <=> x = m \/ x \in SentIn(q, g)
    BY <2>1, <2>2, <2>3
  <2> QED BY <2>4
<1>5. ASSUME NEW i \in 1 .. k + 1, NEW j \in 1 .. k + 1, i < j,
             Table(longer[i]), Table(longer[j])
      PROVE  Before(longer[i], longer[j])
  <2>1. i \in 1 .. k
    BY <1>1, <1>5
  <2>2. CASE j \in 1 .. k
    BY <1>1, <1>5, <2>1, <2>2 DEF InLine, k
  <2>3. CASE j = k + 1
    <3>1. longer[i] = q[i] /\ q[i] \in SentIn(q, g)
      BY <1>1, <2>1, SentIs, Zenon DEF k
    <3> QED BY <1>1, <1>5, <2>3, <3>1
  <2> QED BY <1>2, <2>2, <2>3
<1>6. ASSUME NEW c \in Clients, NEW i \in 1 .. Len(g[c]), NEW j \in 1 .. k + 1,
             Table(g[c][i]), Table(longer[j])
      PROVE  Before(g[c][i], longer[j])
  <2>1. CASE j \in 1 .. k
    BY <1>1, <1>6, <2>1 DEF InLine, k
  <2>2. CASE j = k + 1
    <3>1. g[c][i] \in SentIn(q, g)
      BY SentIs, Zenon
    <3> QED BY <1>1, <1>6, <2>2, <3>1
  <2> QED BY <1>2, <2>1, <2>2
<1>7. InLine(longer, g)
  BY <1>1, <1>5, <1>6, Zenon DEF InLine
<1> QED BY <1>4, <1>7 DEF longer

\* SendTask takes the first message to where it belongs.
LEMMA SendInLine ==
  ASSUME NEW q, IsSeq(q), q # <<>>, NEW g,
         \A c \in Clients : IsSeq(g[c]), Head(q).to \in Clients, InLine(q, g),
         NEW h, \A c \in Clients :
                  h[c] = IF c = Head(q).to THEN Append(g[c], Head(q)) ELSE g[c]
  PROVE  InLine(Tail(q), h) /\ SentIn(Tail(q), h) = SentIn(q, g)
<1> DEFINE m == Head(q)
           k == Len(q)
           rest == Tail(q)
<1>1. /\ k \in Nat \ {0} /\ Len(rest) = k - 1 /\ m = q[1]
      /\ \A i \in 1 .. k - 1 : rest[i] = q[i + 1]
  BY TailIs
<1>2. /\ \A i \in 1 .. k - 1 : i + 1 \in 1 .. k /\ 1 < i + 1
      /\ 1 \in 1 .. k
      /\ \A i \in 1 .. k : i = 1 \/ (i - 1 \in 1 .. k - 1 /\ i - 1 + 1 = i)
      /\ \A i, j \in 1 .. k - 1 : i < j => i + 1 < j + 1
  BY <1>1
<1>3. \A c \in Clients : h[c] = IF c = m.to THEN Append(g[c], m) ELSE g[c]
  OBVIOUS
<1>4. m.to \in Clients
  OBVIOUS
<1> HIDE DEF m, k, rest
<1>5. ASSUME NEW c \in Clients
      PROVE  /\ c # m.to => h[c] = g[c]
             /\ c = m.to => /\ Len(g[c]) \in Nat /\ Len(h[c]) = Len(g[c]) + 1
                            /\ h[c][Len(g[c]) + 1] = m
                            /\ \A i \in 1 .. Len(g[c]) : h[c][i] = g[c][i]
  <2>1. IsSeq(g[c])
    OBVIOUS
  <2>2. h[c] = IF c = m.to THEN Append(g[c], m) ELSE g[c]
    BY <1>3
  <2>3. /\ Len(g[c]) \in Nat /\ Len(Append(g[c], m)) = Len(g[c]) + 1
        /\ Append(g[c], m)[Len(g[c]) + 1] = m
        /\ \A i \in 1 .. Len(g[c]) : Append(g[c], m)[i] = g[c][i]
    BY <2>1, AppendIs
  <2>4. CASE c = m.to
    BY <2>2, <2>3, <2>4
  <2>5. CASE c # m.to
    BY <2>2, <2>5
  <2> QED BY <2>4, <2>5
<1>6. ASSUME NEW c \in Clients, NEW i \in 1 .. Len(h[c])
      PROVE  \/ i \in 1 .. Len(g[c]) /\ h[c][i] = g[c][i]
             \/ c = m.to /\ h[c][i] = m /\ i = Len(g[c]) + 1 /\ Len(g[c]) \in Nat
  BY <1>5
<1>7. SentIn(rest, h) = SentIn(q, g)
  <2>1. \A x : (\E i \in 1 .. k : x = q[i]) <=> x = m \/ \E i \in 1 .. k - 1 : x = rest[i]
    <3>1. ASSUME NEW i \in 1 .. k
          PROVE  q[i] = m \/ \E j \in 1 .. k - 1 : q[i] = rest[j]
      <4>1. i = 1 \/ (i - 1 \in 1 .. k - 1 /\ i - 1 + 1 = i)
        BY <1>2
      <4>2. CASE i = 1
        BY <1>1, <4>2
      <4>3. CASE i - 1 \in 1 .. k - 1 /\ i - 1 + 1 = i
        <5>1. rest[i - 1] = q[i]
          BY <1>1, <4>3
        <5> QED BY <4>3, <5>1
      <4> QED BY <4>1, <4>2, <4>3
    <3>2. ASSUME NEW i \in 1 .. k - 1 PROVE i + 1 \in 1 .. k /\ rest[i] = q[i + 1]
      BY <1>1, <1>2
    <3>3. 1 \in 1 .. k /\ m = q[1]
      BY <1>1, <1>2
    <3>4. ASSUME NEW x
          PROVE  (\E i \in 1 .. k : x = q[i]) <=> x = m \/ \E i \in 1 .. k - 1 : x = rest[i]
      <4>1. ASSUME NEW i \in 1 .. k, x = q[i]
            PROVE  x = m \/ \E j \in 1 .. k - 1 : x = rest[j]
        BY <3>1, <4>1, Zenon
      <4>2. x = m => \E i \in 1 .. k : x = q[i]
        BY <3>3, Zenon
      <4>3. ASSUME NEW i \in 1 .. k - 1, x = rest[i] PROVE \E j \in 1 .. k : x = q[j]
        BY <3>2, <4>3, Zenon
      <4> QED BY <4>1, <4>2, <4>3, Zenon
    <3> QED BY <3>4, Zenon
  <2>2. \A x : (\E c \in Clients : \E i \in 1 .. Len(h[c]) : x = h[c][i])
                 <=> x = m \/ \E c \in Clients : \E i \in 1 .. Len(g[c]) : x = g[c][i]
    <3>1. ASSUME NEW c \in Clients, NEW i \in 1 .. Len(h[c])
          PROVE  h[c][i] = m \/ \E j \in 1 .. Len(g[c]) : h[c][i] = g[c][j]
      BY <1>6
    <3>2. ASSUME NEW c \in Clients, NEW i \in 1 .. Len(g[c])
          PROVE  i \in 1 .. Len(h[c]) /\ h[c][i] = g[c][i]
      BY <1>5
    <3>3. Len(g[m.to]) + 1 \in 1 .. Len(h[m.to]) /\ h[m.to][Len(g[m.to]) + 1] = m
      BY <1>4, <1>5
    <3>4. ASSUME NEW x, NEW c \in Clients, NEW i \in 1 .. Len(h[c]), x = h[c][i]
          PROVE  x = m \/ \E d \in Clients : \E j \in 1 .. Len(g[d]) : x = g[d][j]
      BY <3>1, <3>4, Zenon
    <3>5. ASSUME NEW x, x = m PROVE \E c \in Clients : \E i \in 1 .. Len(h[c]) : x = h[c][i]
      BY <1>4, <3>3, <3>5, Zenon
    <3>6. ASSUME NEW x, NEW c \in Clients, NEW i \in 1 .. Len(g[c]), x = g[c][i]
          PROVE  \E d \in Clients : \E j \in 1 .. Len(h[d]) : x = h[d][j]
      BY <3>2, <3>6, Zenon
    <3>7. ASSUME NEW x
          PROVE  (\E c \in Clients : \E i \in 1 .. Len(h[c]) : x = h[c][i])
                   <=> x = m \/ \E c \in Clients : \E i \in 1 .. Len(g[c]) : x = g[c][i]
      <4> DEFINE InH == \E c \in Clients : \E i \in 1 .. Len(h[c]) : x = h[c][i]
                 InG == \E c \in Clients : \E i \in 1 .. Len(g[c]) : x = g[c][i]
      <4>1. InH => x = m \/ InG
        BY <3>4, Zenon
      <4>2. x = m => InH
        BY <3>5, Zenon
      <4>3. InG => InH
        BY <3>6, Zenon
      <4> QED BY <4>1, <4>2, <4>3, Zenon
    <3> QED BY <3>7, Zenon
  <2>3. \A x : x \in SentIn(rest, h) <=> x \in SentIn(q, g)
    <3> DEFINE InQ(x) == \E i \in 1 .. k : x = q[i]
               InRest(x) == \E i \in 1 .. k - 1 : x = rest[i]
               InG(x) == \E c \in Clients : \E i \in 1 .. Len(g[c]) : x = g[c][i]
               InH(x) == \E c \in Clients : \E i \in 1 .. Len(h[c]) : x = h[c][i]
    <3>1. \A x : x \in SentIn(q, g) <=> InQ(x) \/ InG(x)
      BY SentIs DEF k
    <3>2. \A x : x \in SentIn(rest, h) <=> InRest(x) \/ InH(x)
      <4>1. \A x : x \in SentIn(rest, h) <=> (\E i \in 1 .. Len(rest) : x = rest[i]) \/ InH(x)
        BY SentIs
      <4> QED BY <1>1, <4>1
    <3>3. \A x : InQ(x) <=> x = m \/ InRest(x)
      BY <2>1
    <3>4. \A x : InH(x) <=> x = m \/ InG(x)
      BY <2>2
    <3> HIDE DEF InQ, InRest, InG, InH
    <3> QED BY <3>1, <3>2, <3>3, <3>4
  <2> QED BY <2>3
<1>8. ASSUME NEW i \in 1 .. k - 1, NEW j \in 1 .. k - 1, i < j, Table(rest[i]), Table(rest[j])
      PROVE  Before(rest[i], rest[j])
  <2>1. /\ rest[i] = q[i + 1] /\ i + 1 \in 1 .. k /\ rest[j] = q[j + 1] /\ j + 1 \in 1 .. k
        /\ i + 1 < j + 1
    BY <1>1, <1>2, <1>8
  <2> QED BY <1>8, <2>1 DEF InLine, k
<1>9. ASSUME NEW c \in Clients, NEW i \in 1 .. Len(h[c]) PROVE h[c][i].to = c
  BY <1>6 DEF InLine
<1>10. ASSUME NEW c \in Clients, NEW i \in 1 .. Len(h[c]), NEW j \in 1 .. k - 1,
              Table(h[c][i]), Table(rest[j])
       PROVE  Before(h[c][i], rest[j])
  <2>1. rest[j] = q[j + 1] /\ j + 1 \in 1 .. k /\ 1 \in 1 .. k /\ 1 < j + 1 /\ m = q[1]
    BY <1>1, <1>2
  <2>2. CASE h[c][i] = m
    BY <1>10, <2>1, <2>2 DEF InLine, k
  <2>3. CASE i \in 1 .. Len(g[c]) /\ h[c][i] = g[c][i]
    BY <1>10, <2>1, <2>3 DEF InLine, k
  <2> QED BY <1>6, <2>2, <2>3
<1>11. ASSUME NEW c \in Clients, NEW i \in 1 .. Len(h[c]), NEW j \in 1 .. Len(h[c]), i < j,
              Table(h[c][i]), Table(h[c][j])
       PROVE  Before(h[c][i], h[c][j])
  <2>1. i \in 1 .. Len(g[c]) /\ h[c][i] = g[c][i]
    <3>1. CASE c = m.to /\ i = Len(g[c]) + 1 /\ Len(g[c]) \in Nat
      <4>1. j \in 1 .. Len(g[c]) + 1 /\ Len(g[c]) \in Nat
        BY <1>5, <3>1
      <4>2. i < j
        BY <1>11
      <4> QED BY <3>1, <4>1, <4>2
    <3> QED BY <1>6, <3>1
  <2>2. CASE j \in 1 .. Len(g[c]) /\ h[c][j] = g[c][j]
    BY <1>11, <2>1, <2>2 DEF InLine
  <2>3. CASE h[c][j] = m
    <3>1. 1 \in 1 .. k /\ m = q[1]
      BY <1>1, <1>2
    <3> QED BY <1>11, <2>1, <2>3, <3>1 DEF InLine, k
  <2> QED BY <1>6, <2>2, <2>3
<1>12. InLine(rest, h)
  BY <1>1, <1>8, <1>9, <1>10, <1>11, Zenon DEF InLine
<1> QED BY <1>7, <1>12 DEF rest

\* A message more that is of no table.
LEMMA ContentOther ==
  ASSUME NEW ask, NEW task, NEW sent, Content(ask, task, sent),
         NEW m, ~Table(m), NEW next, next.at # "rows" \/ next = task
  PROVE  Content(ask, next, sent) /\ Content(ask, next, sent \cup {m})
<1>1. \A n : RowsOf(sent \cup {m}, n) = RowsOf(sent, n)
  BY DEF RowsOf, Table
<1>2. m.tag # "finished"
  BY DEF Table
<1> QED BY <1>1, <1>2 DEF Content

\* Another request.
LEMMA ContentAsk ==
  ASSUME NEW ask, IsSeq(ask), NEW task, NEW sent, Content(ask, task, sent),
         task.at = "rows" => task.req \in 1 .. Len(ask),
         NEW request
  PROVE  Content(Append(ask, request), task, sent)
<1> DEFINE more == Append(ask, request)
<1>1. /\ Len(ask) \in Nat /\ Len(more) = Len(ask) + 1
      /\ \A n \in 1 .. Len(ask) : n \in 1 .. Len(more) /\ more[n] = ask[n]
  BY AppendIs
<1> HIDE DEF more
<1>2. \A n \in 1 .. Len(ask) : \A rows, k : FirstRows(more, n, rows, k) = FirstRows(ask, n, rows, k)
  BY <1>1 DEF FirstRows, RowMessage
<1>3. \A m \in sent : m.tag = "finished" => m.req \in 1 .. Len(ask)
  BY DEF Content, Table
<1>4. \A m \in sent : Table(m) =>
        /\ m.req \in 1 .. Len(more) /\ more[m.req].op = "rows" /\ m.to = more[m.req].from
        /\ m.tag = "row" => m.type \in Nat
  BY <1>1 DEF Content
<1>5. task.at = "rows" =>
        /\ RowsOf(sent, task.req) = FirstRows(more, task.req, task.rows, task.next - 1)
        /\ \A m \in sent : m.tag = "finished" => m.req # task.req
  BY <1>2 DEF Content
<1>6. \A m \in sent : m.tag = "finished" =>
        /\ IsSeq(m.rows)
        /\ RowsOf(sent, m.req) = FirstRows(more, m.req, m.rows, Len(m.rows))
  BY <1>2, <1>3 DEF Content
<1>7. Content(more, task, sent)
  BY <1>4, <1>5, <1>6, Zenon DEF Content
<1> QED BY <1>7 DEF more

\* RecvTask begins with a request that no message is of.
LEMMA ContentBegin ==
  ASSUME NEW ask, NEW task, NEW sent, Content(ask, task, sent),
         NEW n, \A m \in sent : Table(m) => m.req # n,
         NEW next, next.req = n, next.next = 1
  PROVE  Content(ask, next, sent)
<1>1. RowsOf(sent, n) = {}
  BY DEF RowsOf, Table
<1>2. FirstRows(ask, n, next.rows, next.next - 1) = {}
  BY DEF FirstRows
<1>3. \A m \in sent : m.tag = "finished" => m.req # n
  BY DEF Table
<1> QED BY <1>1, <1>2, <1>3 DEF Content

\* It sends the next row.
LEMMA ContentRow ==
  ASSUME NEW ask, NEW task, NEW sent, Content(ask, task, sent), task.at = "rows",
         task.req \in 1 .. Len(ask), ask[task.req].op = "rows", ask[task.req].kind \in Kinds,
         task.next \in Nat \ {0},
         NEW next, next.at = "rows", next.req = task.req, next.rows = task.rows,
         next.next = task.next + 1,
         NEW m, m = RowMessage(ask, task.req, task.next, task.rows[task.next])
  PROVE  /\ Content(ask, next, sent \cup {m})
         /\ \A o \in sent : Table(o) /\ o.req <= m.req => Before(o, m)
<1> DEFINE r == ask[task.req]
           all == sent \cup {m}
           n == task.req
           k == task.next
<1>1. \A i \in Nat : RowType(r.kind, i) \in Nat /\ \A j \in Nat : j < i => RowType(r.kind, j) < RowType(r.kind, i)
  <2>1. Base[r.kind] \in Nat
    BY DEF Kinds, Base
  <2> QED BY <2>1 DEF RowType
<1>2. /\ m.tag = "row" /\ m.req = n /\ m.to = r.from /\ m.type = RowType(r.kind, k - 1)
      /\ m.type \in Nat
  <2>1. m.tag = "row" /\ m.req = n /\ m.to = r.from /\ m.type = RowType(r.kind, k - 1)
    BY DEF RowMessage
  <2>2. k - 1 \in Nat
    OBVIOUS
  <2> QED BY <1>1, <2>1, <2>2
<1>3. /\ RowsOf(all, n) = RowsOf(sent, n) \cup {m}
      /\ \A p : p # n => RowsOf(all, p) = RowsOf(sent, p)
  BY <1>2 DEF RowsOf
<1>4. FirstRows(ask, n, task.rows, k) = FirstRows(ask, n, task.rows, k - 1) \cup {m}
  <2>1. 1 .. k = (1 .. k - 1) \cup {k}
    OBVIOUS
  <2> QED BY <2>1 DEF FirstRows
<1>5. RowsOf(all, n) = FirstRows(ask, n, next.rows, next.next - 1)
  <2>1. next.next - 1 = k
    OBVIOUS
  <2> QED BY <1>3, <1>4, <2>1 DEF Content
<1>6. \A o \in all : o.tag = "finished" => o \in sent /\ o.req # n
  BY <1>2 DEF Content
<1>7. Content(ask, next, all)
  <2>1. \A o \in all : Table(o) =>
          /\ o.req \in 1 .. Len(ask) /\ ask[o.req].op = "rows" /\ o.to = ask[o.req].from
          /\ o.tag = "row" => o.type \in Nat
    BY <1>2 DEF Content
  <2>2. \A o \in all : o.tag = "finished" =>
          /\ IsSeq(o.rows)
          /\ RowsOf(all, o.req) = FirstRows(ask, o.req, o.rows, Len(o.rows))
    BY <1>3, <1>6 DEF Content
  <2> QED BY <1>5, <1>6, <2>1, <2>2 DEF Content
<1>8. ASSUME NEW o \in sent, Table(o), o.req <= m.req PROVE Before(o, m)
  <2>1. CASE o.req < m.req
    BY <2>1 DEF Before
  <2>2. CASE o.req = m.req
    <3>1. o.tag = "row"
      BY <1>2, <1>8, <2>2 DEF Content, Table
    <3>2. o \in FirstRows(ask, n, task.rows, k - 1)
      BY <1>2, <2>2, <3>1 DEF Content, RowsOf
    <3>3. PICK i \in 1 .. k - 1 : o = RowMessage(ask, n, i, task.rows[i])
      BY <3>2 DEF FirstRows
    <3>4. o.type = RowType(r.kind, i - 1)
      BY <3>3 DEF RowMessage
    <3>5. i - 1 \in Nat /\ k - 1 \in Nat /\ i - 1 < k - 1
      OBVIOUS
    <3>6. o.type < m.type
      BY <1>1, <1>2, <3>4, <3>5
    <3> QED BY <2>2, <3>1, <3>6 DEF Before
  <2>3. o.req \in Int /\ m.req \in Int
    BY <1>2, <1>8 DEF Content
  <2> QED BY <1>8, <2>1, <2>2, <2>3
<1> QED BY <1>7, <1>8

\* It sends the last message, after all rows.
LEMMA ContentEnd ==
  ASSUME NEW ask, NEW task, NEW sent, Content(ask, task, sent), task.at = "rows",
         task.req \in 1 .. Len(ask), ask[task.req].op = "rows",
         IsSeq(task.rows), task.next = Len(task.rows) + 1,
         NEW next, next.at # "rows",
         NEW m, m.tag = "finished", m.req = task.req, m.to = ask[task.req].from,
         m.rows = task.rows
  PROVE  /\ Content(ask, next, sent \cup {m})
         /\ \A o \in sent : Table(o) /\ o.req <= m.req => Before(o, m)
<1> DEFINE all == sent \cup {m}
<1>1. \A p : RowsOf(all, p) = RowsOf(sent, p)
  BY DEF RowsOf
<1>2. RowsOf(all, m.req) = FirstRows(ask, m.req, m.rows, Len(m.rows))
  <2>1. Len(task.rows) \in Nat /\ task.next - 1 = Len(task.rows)
    BY AppendIs
  <2> QED BY <1>1, <2>1 DEF Content
<1>3. \A o \in all : Table(o) =>
        /\ o.req \in 1 .. Len(ask) /\ ask[o.req].op = "rows" /\ o.to = ask[o.req].from
        /\ o.tag = "row" => o.type \in Nat
  BY DEF Content
<1>4. \A o \in all : o.tag = "finished" =>
        /\ IsSeq(o.rows)
        /\ RowsOf(all, o.req) = FirstRows(ask, o.req, o.rows, Len(o.rows))
  BY <1>1, <1>2 DEF Content
<1>5. Content(ask, next, all)
  BY <1>3, <1>4 DEF Content
<1>6. ASSUME NEW o \in sent, Table(o), o.req <= m.req PROVE Before(o, m)
  <2>1. o.req \in Int /\ m.req \in Int
    BY <1>6 DEF Content
  <2>2. o.req = m.req => o.tag = "row"
    BY <1>6 DEF Content, Table
  <2> QED BY <1>6, <2>1, <2>2 DEF Before
<1> QED BY <1>5, <1>6

(***************************************************************************)
(* Types                                                                   *)
(***************************************************************************)

\* What is kept of the first n rows.
Kept(rows, these, k, f) ==
  f = [n \in 0 .. k |->
        IF n = 0 THEN <<>>
        ELSE IF rows[n].of \in these THEN Append(f[n - 1], rows[n]) ELSE f[n - 1]]

LEMMA KeptExists ==
  ASSUME NEW rows, NEW these, NEW limit \in Nat
  PROVE  \E f : Kept(rows, these, limit, f)
<1> DEFINE T == {k \in 0 .. limit : \E f : Kept(rows, these, k, f)}
           G(f, n) == IF n = 0 THEN <<>>
                      ELSE IF rows[n].of \in these THEN Append(f[n - 1], rows[n]) ELSE f[n - 1]
<1>1. \A f, k : Kept(rows, these, k, f) <=> f = [n \in 0 .. k |-> G(f, n)]
  BY Zenon DEF Kept
<1>2. \A f, h, n : n = 0 \/ f[n - 1] = h[n - 1] => G(f, n) = G(h, n)
  OBVIOUS
<1> HIDE DEF G
<1>3. 0 \in T
  <2> DEFINE f == [n \in 0 .. 0 |-> G(<<>>, n)]
  <2>1. ASSUME NEW n \in 0 .. 0 PROVE G(<<>>, n) = G(f, n)
    BY <1>2, <2>1
  <2>2. f = [n \in 0 .. 0 |-> G(f, n)]
    <3> DEFINE e == f
    <3>1. e = [n \in 0 .. 0 |-> G(<<>>, n)]
      OBVIOUS
    <3>2. \A n \in 0 .. 0 : G(<<>>, n) = G(e, n)
      BY <2>1
    <3> HIDE DEF f, e
    <3>3. e = [n \in 0 .. 0 |-> G(e, n)]
      BY <3>1, <3>2
    <3> QED BY <3>3 DEF e
  <2>3. Kept(rows, these, 0, f)
    BY <1>1, <2>2, Zenon
  <2> QED BY <2>3
<1>4. ASSUME NEW k \in 1 .. limit, k - 1 \in T PROVE k \in T
  <2>1. PICK f : f = [n \in 0 .. k - 1 |-> G(f, n)]
    BY <1>1, <1>4, Zenon
  <2> DEFINE h == [n \in 0 .. k |-> G(f, n)]
  <2>2. ASSUME NEW n \in 0 .. k - 1 PROVE h[n] = f[n]
    BY <2>1
  <2>3. ASSUME NEW n \in 0 .. k PROVE G(f, n) = G(h, n)
    <3>1. CASE n = 0
      BY <1>2, <3>1
    <3>2. CASE n # 0
      <4>1. n - 1 \in 0 .. k - 1
        BY <3>2
      <4>2. f[n - 1] = h[n - 1]
        BY <2>2, <4>1
      <4> HIDE DEF h
      <4> QED BY <1>2, <4>2, Zenon
    <3> QED BY <3>1, <3>2
  <2>4. h = [n \in 0 .. k |-> G(f, n)]
    OBVIOUS
  <2>5. h = [n \in 0 .. k |-> G(h, n)]
    <3> HIDE DEF h
    <3> QED BY <2>3, <2>4
  <2>6. Kept(rows, these, k, h)
    BY <1>1, <2>5, Zenon
  <2> QED BY <2>6
<1>5. limit \in T
  <2>1. \A n \in 1 .. limit : n - 1 \in T => n \in T
    BY <1>4, Zenon
  <2>2. 0 .. limit \subseteq T
    <3> HIDE DEF T
    <3> QED BY <1>3, <2>1, Climb
  <2> QED BY <2>2
<1> QED BY <1>5

\* The rows a statement selects are rows.
LEMMA WhereType ==
  ASSUME NEW S, NEW rows \in Seq(S), NEW these
  PROVE  Where(rows, these) \in Seq(S)
<1> DEFINE limit == Len(rows)
           kept == CHOOSE f : Kept(rows, these, limit, f)
           T == {n \in 0 .. limit : kept[n] \in Seq(S)}
<1>1. limit \in Nat /\ \A n \in 1 .. limit : rows[n] \in S
  BY LenProperties, ElementOfSeq
<1>2. Kept(rows, these, limit, kept)
  BY <1>1, KeptExists, Zenon
<1>3. Where(rows, these) = kept[limit]
  BY Zenon DEF Where, Kept
<1>4. \A n \in 0 .. limit :
        kept[n] = IF n = 0 THEN <<>>
                  ELSE IF rows[n].of \in these THEN Append(kept[n - 1], rows[n]) ELSE kept[n - 1]
  BY <1>2, Zenon DEF Kept
<1> HIDE DEF limit, kept
<1>5. 0 \in T
  <2>1. 0 \in 0 .. limit
    BY <1>1
  <2>2. kept[0] = <<>>
    BY <1>4, <2>1
  <2>3. <<>> \in Seq(S)
    BY EmptySeq
  <2> QED BY <2>1, <2>2, <2>3
<1>6. ASSUME NEW n \in 1 .. limit, n - 1 \in T PROVE n \in T
  <2>1. kept[n - 1] \in Seq(S) /\ rows[n] \in S
    BY <1>1, <1>6
  <2>2. n \in 0 .. limit /\ n # 0
    BY <1>1
  <2>3. Append(kept[n - 1], rows[n]) \in Seq(S)
    BY <2>1, AppendProperties
  <2>4. kept[n] \in Seq(S)
    BY <1>4, <2>1, <2>2, <2>3
  <2> QED BY <2>2, <2>4
<1>7. limit \in T
  <2>1. \A n \in 1 .. limit : n - 1 \in T => n \in T
    BY <1>6, Zenon
  <2>2. 0 .. limit \subseteq T
    <3> HIDE DEF T
    <3> QED BY <1>1, <1>5, <2>1, Climb
  <2> QED BY <1>1, <2>2
<1> QED BY <1>3, <1>7

LEMMA SelectedType ==
  ASSUME table \in [Kinds -> Seq(Row)], NEW kind \in Kinds
  PROVE  Selected(kind) \in Seq(Row)
<1>1. table[kind] \in Seq(Row)
  OBVIOUS
<1> QED BY <1>1, WhereType DEF Selected

LEMMA InitTyped == Init => Typed
<1> SUFFICES ASSUME Init PROVE Typed
  OBVIOUS
<1>1. TypedAsked /\ TypedQueue
  BY EmptyIs, EmptySeq DEF Init, TypedAsked, TypedQueue
<1>2. TypedTask
  BY EmptyIs, EmptySeq DEF Init, TypedTask, Idle
<1>3. TypedTables
  <2>1. Groups \cup {<<>>} \subseteq CourseLists
    BY Zenon DEF CourseLists
  <2>2. table = Tables /\ m_course_list \in Groups \cup {<<>>} /\ edits = 0
    BY DEF Init
  <2> QED BY <2>1, <2>2, TablesAssumption DEF TypedTables
<1> QED BY <1>1, <1>2, <1>3 DEF Init, Typed

\* Who sent the request that is taken, and the one RecvTask works on.
LEMMA Asker ==
  ASSUME IInv, Typed
  PROVE  /\ recvqueue # <<>> => /\ Req \in 1 .. Len(asked) /\ From \in Clients
                                /\ asked[Req].op \in {"count", "rows"} => asked[Req].kind \in Kinds
         /\ recvtask.at # "idle" =>
              /\ recvtask.req \in 1 .. Len(asked) /\ asked[recvtask.req].from \in Clients
              /\ recvtask.at = "rows" => /\ asked[recvtask.req].op = "rows"
                                         /\ asked[recvtask.req].kind \in Kinds
<1>1. \A n \in 1 .. Len(asked) :
        /\ asked[n].from \in Clients
        /\ asked[n].op \in {"count", "rows"} => asked[n].kind \in Kinds
  <2> DEFINE R == [from : Clients, op : Ops, kind : Kinds \cup {"none"}]
  <2>1. asked \in Seq(R) /\ \A r \in R : r.from \in Clients
    BY DEF Typed, TypedAsked
  <2> HIDE DEF R
  <2>2. \A n \in 1 .. Len(asked) : asked[n] \in R
    BY <2>1, ElementOfSeq
  <2> QED BY <2>1, <2>2 DEF Typed, TypedAsked
<1>2. recvqueue # <<>> => Req \in 1 .. Len(asked)
  <2>1. recvqueue # <<>> => 1 \in 1 .. Len(recvqueue) /\ Req = recvqueue[1]
    BY EmptySeq, LenProperties DEF IInv, Numbers, Req
  <2> QED BY <2>1 DEF IInv, Numbers
<1>3. recvtask.at # "idle" =>
        /\ recvtask.req \in 1 .. Len(asked)
        /\ recvtask.at = "rows" => asked[recvtask.req].op = "rows"
  BY DEF IInv, AtWork
<1> QED BY <1>1, <1>2, <1>3 DEF From

\* Every message goes to a client.
LEMMA PostTyped ==
  ASSUME IInv, Typed, NEW m, Post(m), m.to \in Clients
  PROVE  TypedQueue'
<1>1. /\ Len(sendqueue) \in Nat /\ Len(sendqueue') = Len(sendqueue) + 1
      /\ \A i \in 1 .. Len(sendqueue) : sendqueue'[i] = sendqueue[i]
      /\ sendqueue'[Len(sendqueue) + 1] = m
  BY AppendIs DEF IInv, Order, Post
<1>2. \A i \in 1 .. Len(sendqueue') : i \in 1 .. Len(sendqueue) \/ i = Len(sendqueue) + 1
  BY <1>1
<1> QED BY <1>1, <1>2 DEF Typed, TypedQueue

LEMMA IdleTyped ==
  ASSUME NEW n
  PROVE  /\ Idle = [at |-> "idle", req |-> 0, rows |-> <<>>, next |-> 1, todo |-> {}]
         /\ recvtask' \in {Idle, [Idle EXCEPT !.at = "tell", !.req = n]} => TypedTask'
<1>1. Idle.rows = <<>> /\ Idle.next = 1 /\ Idle.todo = {}
  BY DEF Idle
<1> DEFINE tell == [Idle EXCEPT !.at = "tell", !.req = n]
<1>2. tell.rows = <<>> /\ tell.next = 1 /\ tell.todo = {}
  BY DEF Idle
<1>3. <<>> \in Seq(Row) /\ 1 \in 1 .. Len(<<>>) + 1
  BY EmptySeq
<1> HIDE DEF tell
<1>4. recvtask' \in {Idle, tell} => TypedTask'
  BY <1>1, <1>2, <1>3 DEF TypedTask
<1> QED BY <1>4 DEF Idle, tell

\* The least of the students still to be told is one of them.
LEMMA NextStudent ==
  ASSUME IInv, Typed, recvtask.todo # {}
  PROVE  (CHOOSE s \in recvtask.todo : \A o \in recvtask.todo : s <= o) \in recvtask.todo
<1>1. recvtask.todo \subseteq Nat
  BY ClientsAssumption DEF Typed, TypedTask
<1>2. \E s \in recvtask.todo : \A o \in recvtask.todo : s <= o
  BY <1>1, Least
<1> QED BY <1>2

\* What Evloop, SendTask and others do.
LEMMA OthersTyped ==
  ASSUME IInv, Typed,
         \/ Send \/ Crash
         \/ \E c \in Clients : Notice(c) \/ \E r \in Requests[c] : Ask(c, r)
         \/ \E kind \in Edited : Edit(kind)
  PROVE  Typed'
<1>1. CASE Crash
  BY <1>1 DEF Crash, bounds, Typed, TypedAsked, TypedTask, TypedQueue, TypedTables
<1>2. CASE Send
  <2>1. UNCHANGED <<up, asked, recvtask, table, m_course_list, edits>>
    BY <1>2 DEF Send, bounds
  <2>2. TypedQueue'
    <3>1. sendqueue # <<>> /\ sendqueue' = Tail(sendqueue) /\ IsSeq(sendqueue)
      BY <1>2 DEF Send, IInv, Order
    <3>2. /\ Len(sendqueue) \in Nat \ {0} /\ Len(sendqueue') = Len(sendqueue) - 1
          /\ \A i \in 1 .. Len(sendqueue') : sendqueue'[i] = sendqueue[i + 1]
      BY <3>1, TailIs
    <3>3. \A i \in 1 .. Len(sendqueue') : i + 1 \in 1 .. Len(sendqueue)
      BY <3>2
    <3> QED BY <3>2, <3>3 DEF Typed, TypedQueue
  <2> QED BY <2>1, <2>2 DEF Typed, TypedAsked, TypedTask, TypedTables
<1>3. ASSUME NEW c \in Clients, Notice(c) PROVE Typed'
  <2>1. /\ UNCHANGED <<up, asked, recvtask, table, m_course_list, edits>>
        /\ Post(Message(c, 0, "notice")) /\ Message(c, 0, "notice").to = c
    BY <1>3 DEF Notice, Message
  <2>2. TypedQueue'
    BY <2>1, PostTyped
  <2> QED BY <2>1, <2>2 DEF Typed, TypedAsked, TypedTask, TypedTables
<1>4. ASSUME NEW c \in Clients, NEW r \in Requests[c], Ask(c, r), ~Crash PROVE Typed'
  <2> DEFINE request == [from |-> c, op |-> r.op, kind |-> r.kind]
             R == [from : Clients, op : Ops, kind : Kinds \cup {"none"}]
  <2>1. /\ UNCHANGED <<up, recvtask, sendqueue, table, m_course_list, edits>>
        /\ asked' = Append(asked, request)
    BY <1>4 DEF Ask, bounds
  <2>2. request \in R /\ (request.op \in {"count", "rows"} => request.kind \in Kinds)
    BY RequestsAssumption
  <2>3. asked \in Seq(R)
    BY DEF Typed, TypedAsked
  <2> HIDE DEF request, R
  <2>4. /\ asked' \in Seq(R) /\ Len(asked) \in Nat /\ Len(asked') = Len(asked) + 1
        /\ \A n \in 1 .. Len(asked) : asked'[n] = asked[n]
        /\ asked'[Len(asked) + 1] = request
    BY <2>1, <2>2, <2>3, AppendProperties, LenProperties
  <2>5. \A n \in 1 .. Len(asked') : n \in 1 .. Len(asked) \/ n = Len(asked) + 1
    BY <2>4
  <2>6. TypedAsked'
    BY <2>2, <2>4, <2>5 DEF R, Typed, TypedAsked
  <2> QED BY <2>1, <2>6 DEF Typed, TypedTask, TypedQueue, TypedTables
<1>5. ASSUME NEW kind \in Edited, Edit(kind) PROVE Typed'
  <2>1. /\ UNCHANGED <<up, asked, recvtask, sendqueue, m_course_list>> /\ edits' = edits + 1
    BY <1>5 DEF Edit
  <2>2. kind \in Kinds /\ table[kind] \in Seq(Row) /\ edits \in Nat
    BY EditedAssumption, TablesAssumption DEF Typed, TypedTables
  <2>3. ASSUME NEW rows \in Seq(Row), table' = [table EXCEPT ![kind] = rows]
        PROVE  table' \in [Kinds -> Seq(Row)]
    BY <2>3 DEF Typed, TypedTables
  <2>4. ASSUME table[kind] # <<>>, table' = [table EXCEPT ![kind] = Tail(@)]
        PROVE  table' \in [Kinds -> Seq(Row)]
    <3>1. Tail(table[kind]) \in Seq(Row)
      BY <2>2, <2>4, HeadTailProperties
    <3> QED BY <2>3, <2>4, <3>1
  <2>5. ASSUME NEW of \in {0, 1},
               table' = [table EXCEPT ![kind] = Append(@, [id |-> 100 + edits, of |-> of])]
        PROVE  table' \in [Kinds -> Seq(Row)]
    <3>1. [id |-> 100 + edits, of |-> of] \in Row
      BY <2>2 DEF Row
    <3>2. Append(table[kind], [id |-> 100 + edits, of |-> of]) \in Seq(Row)
      BY <2>2, <3>1, AppendProperties
    <3> QED BY <2>3, <2>5, <3>2
  <2>6. TypedTables'
    BY <1>5, <2>1, <2>2, <2>4, <2>5 DEF Edit, Typed, TypedTables
  <2> QED BY <2>1, <2>6 DEF Typed, TypedAsked, TypedTask, TypedQueue
<1> QED BY <1>1, <1>2, <1>3, <1>4, <1>5

\* What RecvTask does.
LEMMA TaskTyped ==
  ASSUME IInv, Typed, RecvTask, ~Crash
  PROVE  Typed'
<1>1. UNCHANGED <<up, asked, table, edits>>
  BY DEF RecvTask, Count, Query, NextRow, RowThrows, Finish, GetCourseGroup, GetStudentDetailInfo,
         GetTeacherInfo, GetCourseItemKeyInfo, SetCourseGroup, TellMalloc, TellStudent,
         TellStudentsDone, TellWhite, One, bounds
<1>2. ASSUME TypedTask', TypedQueue', m_course_list' \in CourseLists PROVE Typed'
  BY <1>1, <1>2 DEF Typed, TypedAsked, TypedTables
<1>3. /\ UNCHANGED recvtask => TypedTask'
      /\ UNCHANGED sendqueue => TypedQueue'
      /\ UNCHANGED m_course_list => m_course_list' \in CourseLists
  BY DEF Typed, TypedTask, TypedQueue, TypedTables
<1>4. ASSUME UNCHANGED m_course_list, UNCHANGED recvtask, recvqueue # <<>>,
             UNCHANGED sendqueue \/ \E m : Post(m) /\ m.to = From
      PROVE  Typed'
  BY <1>2, <1>3, <1>4, Asker, PostTyped
<1>5. CASE Count
  <2>1. UNCHANGED <<recvtask, m_course_list>> /\ recvqueue # <<>>
    BY <1>5 DEF Count, Take
  <2>2. UNCHANGED sendqueue \/ \E m : Post(m) /\ m.to = From
    <3> DEFINE m == [Message(From, Req, "count") EXCEPT
               !.type = Len(IF asked[Req].kind = "student" THEN table[asked[Req].kind]
                             ELSE Selected(asked[Req].kind))]
    <3>1. UNCHANGED sendqueue \/ Post(m)
      BY <1>5 DEF Count, AnswerInPlace
    <3>2. m.to = From
      BY DEF Message
    <3> HIDE DEF m
    <3> QED BY <3>1, <3>2
  <2> QED BY <1>4, <2>1, <2>2
<1>6. CASE GetCourseGroup \/ GetStudentDetailInfo \/ GetTeacherInfo \/ GetCourseItemKeyInfo
  <2>1. UNCHANGED <<recvtask, m_course_list>> /\ recvqueue # <<>>
    BY <1>6 DEF GetCourseGroup, GetStudentDetailInfo, GetTeacherInfo, GetCourseItemKeyInfo,
                One, Take
  <2>2. UNCHANGED sendqueue \/ \E tag : Post(Message(From, Req, tag))
    BY <1>6 DEF GetCourseGroup, GetStudentDetailInfo, GetTeacherInfo, GetCourseItemKeyInfo,
                Tell, NotTold, AnswerInPlace
  <2>3. \A tag : Message(From, Req, tag).to = From
    BY DEF Message
  <2> QED BY <1>4, <2>1, <2>2, <2>3
<1>7. CASE Query
  <2>1. recvqueue # <<>> /\ asked[Req].op = "rows" /\ UNCHANGED <<sendqueue, m_course_list>>
    BY <1>7 DEF Query, Take
  <2> DEFINE kind == asked[Req].kind
             begun == [Idle EXCEPT !.at = "rows", !.req = Req, !.rows = Selected(kind)]
  <2>2. UNCHANGED recvtask \/ recvtask' = begun
    BY <1>7 DEF Query
  <2>3. Selected(kind) \in Seq(Row)
    BY <2>1, Asker, SelectedType DEF Typed, TypedTables
  <2>4. begun.rows = Selected(kind) /\ begun.next = 1 /\ begun.todo = {}
    BY DEF Idle
  <2> HIDE DEF begun
  <2>5. Len(Selected(kind)) \in Nat
    BY <2>3, LenProperties
  <2>6. TypedTask'
    BY <1>3, <2>2, <2>3, <2>4, <2>5 DEF TypedTask
  <2> QED BY <1>2, <1>3, <2>1, <2>6
<1>8. CASE SetCourseGroup
  <2>1. recvtask' = [Idle EXCEPT !.at = "tell", !.req = Req] /\ UNCHANGED sendqueue
    BY <1>8 DEF SetCourseGroup
  <2>2. m_course_list' \in CourseLists
    <3>1. \/ UNCHANGED m_course_list
          \/ \E g \in Groups : \E n \in 0 .. Len(g) : m_course_list' = SubSeq(g, 1, n)
          \/ \E g \in Groups : m_course_list' = g
      BY <1>8 DEF SetCourseGroup
    <3>2. ASSUME NEW g \in Groups PROVE g \in CourseLists
      BY <3>2, Zenon DEF CourseLists
    <3>3. ASSUME NEW g \in Groups, NEW n \in 0 .. Len(g) PROVE SubSeq(g, 1, n) \in CourseLists
      <4>1. SubSeq(g, 1, n) \in {SubSeq(g, 1, k) : k \in 0 .. Len(g)}
        OBVIOUS
      <4> QED BY <4>1, Zenon DEF CourseLists
    <3> QED BY <1>3, <3>1, <3>2, <3>3, Zenon
  <2>3. TypedTask'
    BY <2>1, IdleTyped
  <2> QED BY <1>2, <1>3, <2>1, <2>2, <2>3
<1>9. CASE RowThrows
  <2>1. recvtask' = Idle /\ UNCHANGED <<sendqueue, m_course_list>>
    BY <1>9 DEF RowThrows
  <2> QED BY <1>2, <1>3, <2>1, IdleTyped
<1>s. recvtask = [at |-> recvtask.at, req |-> recvtask.req, rows |-> recvtask.rows,
                  next |-> recvtask.next, todo |-> recvtask.todo]
  BY DEF IInv, AtWork
<1>10. CASE NextRow
  <2> DEFINE m == [Message(asked[recvtask.req].from, recvtask.req, "row") EXCEPT
               !.type = RowType(asked[recvtask.req].kind, recvtask.next - 1),
               !.rows = <<recvtask.rows[recvtask.next]>>]
  <2>1. /\ recvtask.at = "rows" /\ recvtask.next <= Len(recvtask.rows) /\ Post(m)
        /\ recvtask' = [recvtask EXCEPT !.next = @ + 1] /\ UNCHANGED m_course_list
    BY <1>10 DEF NextRow, InLoop
  <2>2. m.to = asked[recvtask.req].from
    BY DEF Message
  <2> HIDE DEF m
  <2>3. TypedQueue'
    BY <2>1, <2>2, Asker, PostTyped
  <2>4. /\ recvtask'.rows = recvtask.rows /\ recvtask'.next = recvtask.next + 1
        /\ recvtask'.todo = recvtask.todo
    BY <1>s, <2>1
  <2>5. TypedTask'
    <3>1. recvtask.next \in 1 .. Len(recvtask.rows) + 1 /\ Len(recvtask.rows) \in Nat
      BY LenProperties DEF Typed, TypedTask
    <3>2. recvtask.next + 1 \in 1 .. Len(recvtask.rows) + 1
      BY <2>1, <3>1
    <3> QED BY <2>4, <3>2 DEF Typed, TypedTask
  <2> QED BY <1>2, <1>3, <2>1, <2>3, <2>5
<1>11. CASE Finish
  <2> DEFINE m == [Message(asked[recvtask.req].from, recvtask.req, "finished") EXCEPT
               !.rows = recvtask.rows]
  <2>1. recvtask.at = "rows" /\ Post(m) /\ recvtask' = Idle /\ UNCHANGED m_course_list
    BY <1>11 DEF Finish, InLoop
  <2>2. m.to = asked[recvtask.req].from
    BY DEF Message
  <2> HIDE DEF m
  <2>3. TypedQueue'
    BY <2>1, <2>2, Asker, PostTyped
  <2> QED BY <1>2, <1>3, <2>1, <2>3, IdleTyped
<1>12. CASE TellMalloc
  <2>1. UNCHANGED <<sendqueue, m_course_list>>
    BY <1>12 DEF TellMalloc
  <2> DEFINE todo == IF asked[recvtask.req].from \in Room THEN Students ELSE {}
  <2>2. recvtask' = Idle \/ recvtask' = [recvtask EXCEPT !.at = "copy", !.todo = todo]
    BY <1>12 DEF TellMalloc
  <2>3. todo \subseteq Students
    OBVIOUS
  <2> HIDE DEF todo
  <2>4. CASE recvtask' = [recvtask EXCEPT !.at = "copy", !.todo = todo]
    <3>1. recvtask'.rows = recvtask.rows /\ recvtask'.next = recvtask.next /\ recvtask'.todo = todo
      BY <1>s, <2>4
    <3>2. TypedTask'
      BY <2>3, <3>1 DEF Typed, TypedTask
    <3> QED BY <1>2, <1>3, <2>1, <3>2
  <2> QED BY <1>2, <1>3, <2>1, <2>2, <2>4, IdleTyped
<1>13. CASE TellStudent
  <2> DEFINE s == CHOOSE s \in recvtask.todo : \A o \in recvtask.todo : s <= o
             m == Message(s, recvtask.req, "class")
  <2>1. /\ recvtask.todo # {} /\ Post(m) /\ UNCHANGED m_course_list
        /\ recvtask' = [recvtask EXCEPT !.todo = @ \ {s}]
    BY <1>13 DEF TellStudent
  <2>2. s \in Clients
    BY <2>1, NextStudent, ClientsAssumption DEF Typed, TypedTask
  <2>3. m.to = s
    BY DEF Message
  <2> HIDE DEF m, s
  <2>4. /\ recvtask'.rows = recvtask.rows /\ recvtask'.next = recvtask.next
        /\ recvtask'.todo \subseteq recvtask.todo
    BY <1>s, <2>1
  <2>5. TypedTask'
    BY <2>4 DEF Typed, TypedTask
  <2>6. TypedQueue'
    BY <2>1, <2>2, <2>3, PostTyped
  <2> QED BY <1>2, <1>3, <2>1, <2>5, <2>6
<1>14. CASE TellStudentsDone
  <2>1. recvtask' = [recvtask EXCEPT !.at = "white"] /\ UNCHANGED <<sendqueue, m_course_list>>
    BY <1>14 DEF TellStudentsDone
  <2>2. /\ recvtask'.rows = recvtask.rows /\ recvtask'.next = recvtask.next
        /\ recvtask'.todo = recvtask.todo
    BY <1>s, <2>1
  <2>3. TypedTask'
    BY <2>2 DEF Typed, TypedTask
  <2> QED BY <1>2, <1>3, <2>1, <2>3
<1>15. CASE TellWhite
  <2>1. /\ recvtask' = Idle /\ UNCHANGED m_course_list
        /\ Post(Message(White, recvtask.req, "class")) \/ UNCHANGED sendqueue
    BY <1>15 DEF TellWhite
  <2>2. Message(White, recvtask.req, "class").to \in Clients
    BY ClientsAssumption DEF Message
  <2> QED BY <1>2, <1>3, <2>1, <2>2, IdleTyped, PostTyped
<1> QED BY <1>5, <1>6, <1>7, <1>8, <1>9, <1>10, <1>11, <1>12, <1>13, <1>14, <1>15 DEF RecvTask

LEMMA NextTyped == IInv /\ Typed /\ [Next]_vars => Typed'
<1> SUFFICES ASSUME IInv, Typed, [Next]_vars PROVE Typed'
  OBVIOUS
<1>1. CASE UNCHANGED vars
  BY <1>1 DEF vars, Typed, TypedAsked, TypedTask, TypedQueue, TypedTables
<1>2. CASE Next
  BY <1>2, OthersTyped, TaskTyped DEF Next
<1> QED BY <1>1, <1>2

(***************************************************************************)
(* What is sent of a table, step by step                                   *)
(***************************************************************************)

LEMMA InitSent == Init => SentWell
<1> SUFFICES ASSUME Init PROVE SentWell
  OBVIOUS
<1>1. /\ Len(sendqueue) = 0 /\ recvtask.at = "idle"
      /\ \A c \in Clients : got[c] = <<>> /\ Len(got[c]) = 0
  BY EmptyIs DEF Init, Idle
<1>2. InLine(sendqueue, got)
  BY <1>1 DEF InLine
<1>3. \A m : m \notin SentIn(sendqueue, got)
  BY <1>1, SentIs
<1> QED BY <1>1, <1>2, <1>3 DEF SentWell, Content

\* Nothing of a table is sent.
LEMMA SentOther ==
  ASSUME IInv, SentWell, UNCHANGED <<asked, got>>,
         recvtask'.at # "rows" \/ recvtask' = recvtask,
         UNCHANGED sendqueue \/ \E m : Post(m) /\ ~Table(m)
  PROVE  SentWell'
<1>1. CASE UNCHANGED sendqueue
  <2> DEFINE m == [tag |-> "none"]
  <2>1. ~Table(m)
    BY DEF Table
  <2>2. Content(asked, recvtask, SentIn(sendqueue, got))
    BY DEF SentWell
  <2> HIDE DEF m
  <2>3. Content(asked, recvtask', SentIn(sendqueue, got))
    BY <2>1, <2>2, ContentOther
  <2> QED BY <1>1, <2>3 DEF SentWell
<1>2. ASSUME NEW m, Post(m), ~Table(m) PROVE SentWell'
  <2> DEFINE sent == SentIn(sendqueue, got)
  <2>1. InLine(sendqueue', got) /\ SentIn(sendqueue', got) = sent \cup {m}
    BY <1>2, PostInLine DEF IInv, Order, SentWell, Post
  <2>2. Content(asked, recvtask, sent)
    BY DEF SentWell
  <2> HIDE DEF sent
  <2>3. Content(asked, recvtask', sent \cup {m})
    BY <1>2, <2>2, ContentOther
  <2> QED BY <2>1, <2>3 DEF SentWell
<1> QED BY <1>1, <1>2

\* Every message of a table is of a request that was taken.
LEMMA SentPast ==
  ASSUME IInv, SentWell, NEW m \in SentIn(sendqueue, got), Table(m)
  PROVE  m.req \in Past
<1>1. m.req \in 1 .. Len(asked) /\ IsAnswer(m)
  BY Counts DEF SentWell, Content, Table, IsAnswer
<1>2. CASE \E i \in 1 .. Len(sendqueue) : m = sendqueue[i]
  BY <1>1, <1>2 DEF IInv, Order
<1>3. CASE \E c \in Clients : \E i \in 1 .. Len(got[c]) : m = got[c][i]
  BY <1>1, <1>3 DEF IInv, Order
<1> QED BY <1>2, <1>3, SentIs

LEMMA SentAsk ==
  ASSUME IInv, SentWell, NEW request, asked' = Append(asked, request),
         UNCHANGED <<recvtask, sendqueue, got>>
  PROVE  SentWell'
<1>1. IsSeq(asked) /\ (recvtask.at = "rows" => recvtask.req \in 1 .. Len(asked))
  BY DEF IInv, Numbers, AtWork
<1>2. Content(asked, recvtask, SentIn(sendqueue, got))
  BY DEF SentWell
<1>3. Content(asked', recvtask, SentIn(sendqueue, got))
  BY <1>1, <1>2, ContentAsk
<1> QED BY <1>3 DEF SentWell

LEMMA SentSend ==
  ASSUME IInv, Typed, SentWell, Send
  PROVE  SentWell'
<1>1. /\ sendqueue # <<>> /\ sendqueue' = Tail(sendqueue) /\ UNCHANGED <<asked, recvtask>>
      /\ got' = [got EXCEPT ![Head(sendqueue).to] = Append(@, Head(sendqueue))]
  BY DEF Send
<1>2. \A c \in Clients :
        got'[c] = IF c = Head(sendqueue).to THEN Append(got[c], Head(sendqueue)) ELSE got[c]
  BY <1>1 DEF IInv, Order
<1>3. Head(sendqueue).to \in Clients
  BY <1>1, TailIs DEF IInv, Order, Typed, TypedQueue
<1>4. InLine(sendqueue', got') /\ SentIn(sendqueue', got') = SentIn(sendqueue, got)
  BY <1>1, <1>2, <1>3, SendInLine DEF IInv, Order, SentWell
<1> QED BY <1>1, <1>4 DEF SentWell

\* A query whose result is complete.
LEMMA SentQuery ==
  ASSUME IInv, SentWell, Query
  PROVE  SentWell'
<1>1. recvqueue # <<>> /\ UNCHANGED <<asked, sendqueue, got>>
  BY DEF Query, Take
<1>2. CASE UNCHANGED recvtask
  BY <1>1, <1>2, SentOther
<1>3. CASE recvtask' = [Idle EXCEPT !.at = "rows", !.req = Req, !.rows = Selected(asked[Req].kind)]
  <2> DEFINE sent == SentIn(sendqueue, got)
  <2>1. recvtask'.req = Req /\ recvtask'.next = 1
    BY <1>3 DEF Idle
  <2>2. \A m \in sent : Table(m) => m.req # Req
    <3>1. recvqueue' = Tail(recvqueue)
      BY DEF Query
    <3>2. \A n \in Past : n < Req
      BY <1>1, <3>1, TakeNumbers DEF IInv
    <3>3. Req \in Nat
      BY <1>1, <3>1, TakeNumbers DEF IInv
    <3>4. \A n \in Past : n # Req
      BY <3>2, <3>3
    <3> QED BY <3>4, SentPast
  <2>3. Content(asked, recvtask, sent)
    BY DEF SentWell
  <2> HIDE DEF sent
  <2>4. Content(asked, recvtask', sent)
    BY <2>1, <2>2, <2>3, ContentBegin
  <2> QED BY <1>1, <2>4 DEF SentWell, sent
<1> QED BY <1>2, <1>3 DEF Query

LEMMA SentRow ==
  ASSUME IInv, Typed, SentWell, NextRow, ~Crash
  PROVE  SentWell'
<1> DEFINE r == asked[recvtask.req]
           n == recvtask.req
           p == [Message(r.from, n, "row") EXCEPT
                  !.type = RowType(r.kind, recvtask.next - 1),
                  !.rows = <<recvtask.rows[recvtask.next]>>]
           m == RowMessage(asked, n, recvtask.next, recvtask.rows[recvtask.next])
           sent == SentIn(sendqueue, got)
<1>1. /\ recvtask.at = "rows" /\ recvtask.next <= Len(recvtask.rows) /\ Post(p)
      /\ recvtask' = [recvtask EXCEPT !.next = @ + 1] /\ UNCHANGED <<asked, got>>
  BY DEF NextRow, InLoop
<1>2. p = m
  <2> DEFINE type == RowType(r.kind, recvtask.next - 1)
             rows == <<recvtask.rows[recvtask.next]>>
  <2>1. p = [Message(r.from, n, "row") EXCEPT !.type = type, !.rows = rows]
    OBVIOUS
  <2>2. m = [to |-> r.from, req |-> n, tag |-> "row", type |-> type, rows |-> rows]
    BY Zenon DEF RowMessage
  <2> HIDE DEF p, m, type, rows, r, n
  <2>3. p = [to |-> r.from, req |-> n, tag |-> "row", type |-> type, rows |-> rows]
    BY <2>1 DEF Message
  <2> QED BY <2>2, <2>3
<1>3. /\ n \in 1 .. Len(asked) /\ asked[n].op = "rows" /\ asked[n].kind \in Kinds
      /\ recvtask.next \in Nat \ {0}
  BY <1>1, Asker DEF Typed, TypedTask
<1>4. /\ recvtask'.at = "rows" /\ recvtask'.req = n /\ recvtask'.rows = recvtask.rows
      /\ recvtask'.next = recvtask.next + 1
  BY <1>1 DEF IInv, AtWork
<1>5. Content(asked, recvtask, sent)
  BY DEF SentWell
<1>6. /\ Content(asked, recvtask', sent \cup {m})
      /\ m.tag = "row" /\ m.req = n
      /\ \A o \in sent : Table(o) /\ o.req <= m.req => Before(o, m)
  <2> HIDE DEF sent, m
  <2>1. m = RowMessage(asked, recvtask.req, recvtask.next, recvtask.rows[recvtask.next])
    BY DEF m
  <2> DEFINE t == recvtask
             t2 == recvtask'
  <2>2. /\ Content(asked, t, sent) /\ t.at = "rows"
        /\ t.req \in 1 .. Len(asked) /\ asked[t.req].op = "rows" /\ asked[t.req].kind \in Kinds
        /\ t.next \in Nat \ {0}
    BY <1>1, <1>3, <1>5
  <2>3. t2.at = "rows" /\ t2.req = t.req /\ t2.rows = t.rows /\ t2.next = t.next + 1
    BY <1>4
  <2>4. m = RowMessage(asked, t.req, t.next, t.rows[t.next])
    BY <2>1
  <2> HIDE DEF t, t2
  <2>5. Content(asked, t2, sent \cup {m})
    BY <2>2, <2>3, <2>4, ContentRow
  <2>6. \A o \in sent : Table(o) /\ o.req <= m.req => Before(o, m)
    BY <2>2, <2>3, <2>4, ContentRow
  <2>7. m.tag = "row" /\ m.req = t.req
    BY <2>4 DEF RowMessage
  <2> QED BY <2>5, <2>6, <2>7 DEF t, t2
<1>7. \A o \in sent : Table(o) => o.req <= m.req
  <2>1. \A k \in Past : k <= n
    BY <1>1 DEF Past
  <2> QED BY <1>6, <2>1, SentPast
<1>8. InLine(sendqueue', got) /\ SentIn(sendqueue', got) = sent \cup {m}
  <2>1. sendqueue' = Append(sendqueue, m) /\ \A o \in sent : Table(o) => Before(o, m)
    BY <1>1, <1>2, <1>6, <1>7 DEF Post
  <2> HIDE DEF m
  <2> QED BY <2>1, PostInLine DEF IInv, Order, SentWell
<1> QED BY <1>1, <1>6, <1>8 DEF SentWell

LEMMA SentLast ==
  ASSUME IInv, Typed, SentWell, Finish, ~Crash
  PROVE  SentWell'
<1> DEFINE m == [Message(asked[recvtask.req].from, recvtask.req, "finished") EXCEPT
               !.rows = recvtask.rows]
           sent == SentIn(sendqueue, got)
<1>1. /\ recvtask.at = "rows" /\ recvtask.next > Len(recvtask.rows) /\ Post(m)
      /\ recvtask' = Idle /\ UNCHANGED <<asked, got>>
  BY DEF Finish, InLoop
<1>2. /\ m.tag = "finished" /\ m.req = recvtask.req /\ m.to = asked[recvtask.req].from
      /\ m.rows = recvtask.rows
  BY DEF Message
<1> HIDE DEF m
<1>3. /\ recvtask.req \in 1 .. Len(asked) /\ asked[recvtask.req].op = "rows"
      /\ IsSeq(recvtask.rows) /\ recvtask.next = Len(recvtask.rows) + 1
  <2>1. recvtask.rows \in Seq(Row) /\ recvtask.next \in 1 .. Len(recvtask.rows) + 1
    BY DEF Typed, TypedTask
  <2>2. recvtask.next = Len(recvtask.rows) + 1
    BY <1>1, <2>1, LenProperties
  <2> QED BY <1>1, <2>1, <2>2, Asker DEF IsSeq
<1>4. recvtask'.at # "rows"
  BY <1>1 DEF Idle
<1>5. Content(asked, recvtask, sent)
  BY DEF SentWell
<1>6. /\ Content(asked, recvtask', sent \cup {m})
      /\ \A o \in sent : Table(o) /\ o.req <= m.req => Before(o, m)
  <2> HIDE DEF sent
  <2> QED BY <1>1, <1>2, <1>3, <1>4, <1>5, ContentEnd
<1>7. \A o \in sent : Table(o) => o.req <= m.req
  <2>1. \A k \in Past : k <= recvtask.req
    BY <1>1 DEF Past
  <2> QED BY <1>2, <2>1, SentPast
<1>8. InLine(sendqueue', got) /\ SentIn(sendqueue', got) = sent \cup {m}
  <2>1. sendqueue' = Append(sendqueue, m) /\ \A o \in sent : Table(o) => Before(o, m)
    BY <1>1, <1>6, <1>7 DEF Post
  <2> QED BY <2>1, PostInLine DEF IInv, Order, SentWell
<1> QED BY <1>1, <1>6, <1>8 DEF SentWell

LEMMA NextSent == IInv /\ Typed /\ SentWell /\ [Next]_vars => SentWell'
<1> SUFFICES ASSUME IInv, Typed, SentWell, [Next]_vars PROVE SentWell'
  OBVIOUS
<1>1. CASE UNCHANGED vars \/ Crash \/ \E kind \in Edited : Edit(kind)
  <2>1. UNCHANGED <<asked, recvtask, sendqueue, got>>
    BY <1>1 DEF vars, Crash, Edit
  <2> QED BY <2>1, SentOther
<1>2. CASE Send
  BY <1>2, SentSend
<1>3. ASSUME NEW c \in Clients, NEW r \in Requests[c], Ask(c, r), ~Crash PROVE SentWell'
  <2> DEFINE request == [from |-> c, op |-> r.op, kind |-> r.kind]
  <2>1. asked' = Append(asked, request) /\ UNCHANGED <<recvtask, sendqueue, got>>
    BY <1>3 DEF Ask
  <2> HIDE DEF request
  <2> QED BY <2>1, SentAsk
<1>t. \A to, n : \A tag \in {"notice", "count", "list", "answer", "class"} :
        ~Table(Message(to, n, tag))
  BY DEF Table, Message
<1>4. ASSUME NEW c \in Clients, Notice(c) PROVE SentWell'
  <2>1. Post(Message(c, 0, "notice")) /\ UNCHANGED <<asked, recvtask, got>>
    BY <1>4 DEF Notice
  <2> QED BY <1>t, <2>1, SentOther
<1>s. recvtask = [at |-> recvtask.at, req |-> recvtask.req, rows |-> recvtask.rows,
                  next |-> recvtask.next, todo |-> recvtask.todo]
  BY DEF IInv, AtWork
<1>5. ASSUME RecvTask, ~Crash PROVE SentWell'
  <2>1. CASE Count
    <3> DEFINE m == [Message(From, Req, "count") EXCEPT
               !.type = Len(IF asked[Req].kind = "student" THEN table[asked[Req].kind]
                             ELSE Selected(asked[Req].kind))]
    <3>1. UNCHANGED <<asked, recvtask, got>> /\ (UNCHANGED sendqueue \/ Post(m))
      BY <2>1 DEF Count, AnswerInPlace
    <3>2. ~Table(m)
      BY DEF Table, Message
    <3> HIDE DEF m
    <3> QED BY <3>1, <3>2, SentOther
  <2>2. CASE GetCourseGroup \/ GetStudentDetailInfo \/ GetTeacherInfo \/ GetCourseItemKeyInfo
    <3>1. UNCHANGED <<asked, recvtask, got>>
      BY <2>2 DEF GetCourseGroup, GetStudentDetailInfo, GetTeacherInfo, GetCourseItemKeyInfo, One
    <3>2. UNCHANGED sendqueue \/ \E tag \in {"list", "answer"} : Post(Message(From, Req, tag))
      BY <2>2 DEF GetCourseGroup, GetStudentDetailInfo, GetTeacherInfo, GetCourseItemKeyInfo,
                  Tell, NotTold, AnswerInPlace
    <3> QED BY <1>t, <3>1, <3>2, SentOther
  <2>3. CASE Query
    BY <2>3, SentQuery
  <2>4. CASE NextRow
    BY <1>5, <2>4, SentRow
  <2>5. CASE Finish
    BY <1>5, <2>5, SentLast
  <2>6. CASE RowThrows \/ SetCourseGroup
    <3>1. UNCHANGED <<asked, got, sendqueue>>
      BY <2>6 DEF RowThrows, SetCourseGroup
    <3>2. recvtask'.at # "rows"
      <4>1. Idle.at = "idle" /\ [Idle EXCEPT !.at = "tell", !.req = Req].at = "tell"
        BY DEF Idle
      <4>2. recvtask' = Idle \/ recvtask' = [Idle EXCEPT !.at = "tell", !.req = Req]
        BY <2>6 DEF RowThrows, SetCourseGroup
      <4> QED BY <4>1, <4>2
    <3> QED BY <3>1, <3>2, SentOther
  <2>7. CASE TellMalloc \/ TellStudentsDone
    <3>1. UNCHANGED <<asked, got, sendqueue>>
      BY <2>7 DEF TellMalloc, TellStudentsDone
    <3>2. recvtask'.at # "rows"
      <4>1. Idle.at = "idle"
        BY DEF Idle
      <4>2. PICK todo : \/ recvtask' = Idle
                        \/ recvtask' = [recvtask EXCEPT !.at = "copy", !.todo = todo]
                        \/ recvtask' = [recvtask EXCEPT !.at = "white"]
        BY <2>7 DEF TellMalloc, TellStudentsDone
      <4> QED BY <1>s, <4>1, <4>2
    <3> QED BY <3>1, <3>2, SentOther
  <2>8. CASE TellStudent
    <3>1. PICK s : /\ recvtask.at = "copy" /\ Post(Message(s, recvtask.req, "class"))
                   /\ recvtask' = [recvtask EXCEPT !.todo = @ \ {s}] /\ UNCHANGED <<asked, got>>
      BY <1>5, <2>8 DEF TellStudent
    <3>2. recvtask'.at # "rows"
      BY <1>s, <3>1
    <3> QED BY <1>t, <3>1, <3>2, SentOther
  <2>9. CASE TellWhite
    <3>1. /\ recvtask' = Idle /\ UNCHANGED <<asked, got>>
          /\ Post(Message(White, recvtask.req, "class")) \/ UNCHANGED sendqueue
      BY <2>9 DEF TellWhite
    <3>2. recvtask'.at # "rows"
      BY <3>1 DEF Idle
    <3> QED BY <1>t, <3>1, <3>2, SentOther
  <2> QED BY <1>5, <2>1, <2>2, <2>3, <2>4, <2>5, <2>6, <2>7, <2>8, <2>9 DEF RecvTask
<1> QED BY <1>1, <1>2, <1>3, <1>4, <1>5 DEF Next

\* Types and messages as they should be, with all the invariant above says.
LEMMA Always == Spec => [](IInv /\ Typed /\ SentWell)
<1>1. Init => IInv /\ Typed /\ SentWell
  BY InitIInv, InitTyped, InitSent
<1>2. (IInv /\ Typed /\ SentWell) /\ [Next]_vars => (IInv /\ Typed /\ SentWell)'
  BY NextIInv, NextTyped, NextSent
<1> QED BY <1>1, <1>2, PTL DEF Spec

\* For tables of any length and pools of any size, the variables keep their types
\* through every mix of requests, notices and changes of the tables.
THEOREM Typing == Spec => []TypeOK
<1>1. IInv /\ Typed => TypeOK
  <2> SUFFICES ASSUME IInv, Typed PROVE TypeOK
    OBVIOUS
  <2>1. pool \in 0 .. Bufs
    <3>1. /\ pool \in Nat /\ Len(recvqueue) \in Nat /\ Len(sendqueue) \in Nat
          /\ Holds(recvtask.at) \in Nat /\ Cardinality(Lost) \in Nat
      BY Counts
    <3>2. /\ Bufs \in Nat
          /\ pool + Len(recvqueue) + Len(sendqueue) + Holds(recvtask.at) + Cardinality(Lost) = Bufs
      BY BuffersIs, NumbersAssumption DEF IInv
    <3> QED BY <3>1, <3>2
  <2>2. DOMAIN asked = 1 .. Len(asked) /\ Len(asked) \in Nat
    BY LenProperties DEF Typed, TypedAsked
  <2>3. recvqueue \in Seq(DOMAIN asked)
    <3>1. recvqueue \in Seq(Nat) /\ \A i \in 1 .. Len(recvqueue) : recvqueue[i] \in DOMAIN asked
      BY <2>2 DEF IInv, Numbers
    <3> DEFINE D == DOMAIN asked
    <3>2. recvqueue = [i \in 1 .. Len(recvqueue) |-> recvqueue[i]] /\ Len(recvqueue) \in Nat
      BY <3>1, LenProperties
    <3> HIDE DEF D
    <3>3. recvqueue \in [1 .. Len(recvqueue) -> D]
      BY <3>1, <3>2 DEF D
    <3> QED BY <3>2, <3>3, SeqDef DEF D
  <2>4. DOMAIN sendqueue = 1 .. Len(sendqueue)
    BY LenProperties DEF IInv, Order, IsSeq
  <2>5. silent \subseteq DOMAIN asked
    BY <2>2, Counts
  <2>6. /\ recvtask.at \in {"idle", "rows", "tell", "copy", "white"}
        /\ recvtask.at # "idle" => recvtask.req \in DOMAIN asked
    BY <2>2 DEF IInv, AtWork
  <2>7. DOMAIN got = Clients
    BY DEF IInv, Order
  <2> QED BY <2>1, <2>3, <2>4, <2>5, <2>6, <2>7
          DEF TypeOK, Typed, TypedAsked, TypedTask, TypedQueue, TypedTables
<1> QED BY <1>1, Always, PTL

\* Of a request that a client knows to be finished, it has every row.
LEMMA HasRows ==
  ASSUME IInv, Typed, SentWell, NEW c \in Clients, NEW k \in 1 .. Len(got[c]),
         got[c][k].tag = "finished", NEW i \in 1 .. Len(got[c][k].rows)
  PROVE  \E p \in 1 .. k - 1 :
           got[c][p] = RowMessage(asked, got[c][k].req, i, got[c][k].rows[i])
<1> DEFINE f == got[c][k]
           n == f.req
           m == RowMessage(asked, n, i, f.rows[i])
           sent == SentIn(sendqueue, got)
<1>1. f \in sent /\ f.to = c
  BY SentIs DEF SentWell, InLine
<1>2. Content(asked, recvtask, sent)
  BY DEF SentWell
<1>3. /\ n \in 1 .. Len(asked) /\ asked[n].from = c
      /\ RowsOf(sent, n) = FirstRows(asked, n, f.rows, Len(f.rows))
  <2>1. f.tag = "finished"
    OBVIOUS
  <2> HIDE DEF f, sent
  <2> QED BY <1>1, <1>2, <2>1 DEF Content, Table
<1>4. m \in sent /\ m.tag = "row" /\ m.req = n /\ m.to = c
  <2>1. m \in FirstRows(asked, n, f.rows, Len(f.rows))
    BY DEF FirstRows
  <2> HIDE DEF f, sent
  <2> QED BY <1>3, <2>1 DEF RowsOf, RowMessage
<1>5. ~Before(f, m)
  <2>1. n \in Int
    BY <1>3
  <2> QED BY <1>4, <2>1 DEF Before
<1>6. f.tag = "finished" /\ Table(f) /\ Table(m)
  BY <1>4 DEF Table
<1> HIDE DEF f, m, n
<1>7. ASSUME NEW j \in 1 .. Len(sendqueue), m = sendqueue[j] PROVE FALSE
  <2>1. Table(got[c][k]) /\ Table(sendqueue[j]) => Before(got[c][k], sendqueue[j])
    BY DEF SentWell, InLine
  <2> QED BY <1>5, <1>6, <1>7, <2>1 DEF f
<1>8. ASSUME NEW d \in Clients, NEW p \in 1 .. Len(got[d]), m = got[d][p]
      PROVE  d = c /\ p \in 1 .. k - 1
  <2>1. d = c
    BY <1>4, <1>8 DEF SentWell, InLine
  <2>2. p # k
    BY <1>4, <1>6, <1>8, <2>1 DEF f
  <2>3. ~(k < p)
    <3>1. k < p /\ Table(got[c][k]) /\ Table(got[c][p]) => Before(got[c][k], got[c][p])
      BY <2>1 DEF SentWell, InLine
    <3> QED BY <1>5, <1>6, <1>8, <2>1, <3>1 DEF f
  <2>4. p \in 1 .. Len(got[c]) /\ k \in 1 .. Len(got[c])
    BY <2>1
  <2> QED BY <2>1, <2>2, <2>3, <2>4
<1>9. \E p \in 1 .. k - 1 : got[c][p] = m
  BY <1>4, <1>7, <1>8, SentIs
<1> QED BY <1>9 DEF f, m, n

\* Of two rows of a request that a client has, the one of the lower type is first.
LEMMA RowsInOrder ==
  ASSUME SentWell, NEW c \in Clients,
         NEW p \in 1 .. Len(got[c]), NEW q \in 1 .. Len(got[c]), p < q,
         Table(got[c][p]), Table(got[c][q])
  PROVE  Before(got[c][p], got[c][q])
BY DEF SentWell, InLine

LEMMA Whole ==
  ASSUME IInv, Typed, SentWell, NEW c \in Clients, NEW k \in 1 .. Len(got[c]),
         got[c][k].tag = "finished"
  PROVE  LET result == got[c][k].rows
             first  == RowType(asked[got[c][k].req].kind, 0)
         IN  \E at \in [DOMAIN result -> 1 .. k - 1] :
               /\ \A i, j \in DOMAIN result : i < j => at[i] < at[j]
               /\ \A i \in DOMAIN result : LET m == got[c][at[i]] IN
                    m.tag = "row" /\ m.rows = <<result[i]>> /\ m.type = first + i - 1
               /\ \A j \in 1 .. k - 1 : got[c][j].tag = "row" =>
                    \/ \E i \in DOMAIN result : at[i] = j
                    \/ \A i \in DOMAIN result : j < at[i]
<1> DEFINE f == got[c][k]
           n == f.req
           result == f.rows
           first == RowType(asked[n].kind, 0)
           M(i) == RowMessage(asked, n, i, result[i])
           sent == SentIn(sendqueue, got)
           at == [i \in DOMAIN result |-> CHOOSE p \in 1 .. k - 1 : got[c][p] = M(i)]
<1>1. f \in sent /\ f.tag = "finished"
  BY SentIs
<1>2. /\ n \in 1 .. Len(asked) /\ asked[n].op = "rows" /\ IsSeq(result)
      /\ RowsOf(sent, n) = FirstRows(asked, n, result, Len(result))
      /\ \A m \in sent : Table(m) => m.req \in Nat
  <2>1. Content(asked, recvtask, sent)
    BY DEF SentWell
  <2> HIDE DEF f, sent
  <2> QED BY <1>1, <2>1 DEF Content, Table
<1>3. DOMAIN result = 1 .. Len(result) /\ Len(result) \in Nat
  BY <1>2, LenProperties DEF IsSeq
<1>4. \A i \in DOMAIN result :
        /\ M(i).tag = "row" /\ M(i).req = n /\ M(i).rows = <<result[i]>>
        /\ M(i).type = first + i - 1 /\ M(i).type \in Int
  <2>1. asked[n].kind \in Kinds
    BY <1>2 DEF Typed, TypedAsked
  <2>2. Base[asked[n].kind] \in Nat
    BY <2>1 DEF Kinds, Base
  <2> HIDE DEF n, result
  <2>3. \A i \in Nat : RowType(asked[n].kind, i - 1) = first + i - 1
                         /\ RowType(asked[n].kind, i - 1) \in Int
    BY <2>2 DEF RowType
  <2> QED BY <1>3, <2>3 DEF RowMessage
<1>5. ASSUME NEW i \in DOMAIN result
      PROVE  /\ at[i] \in 1 .. k - 1 /\ at[i] \in 1 .. Len(got[c]) /\ got[c][at[i]] = M(i)
             /\ Table(M(i))
  <2>1. \E p \in 1 .. k - 1 : got[c][p] = M(i)
    BY <1>3, HasRows
  <2>2. at[i] = CHOOSE p \in 1 .. k - 1 : got[c][p] = M(i)
    OBVIOUS
  <2>3. Table(M(i))
    BY <1>4 DEF Table
  <2> HIDE DEF M, at
  <2>4. at[i] \in 1 .. k - 1 /\ got[c][at[i]] = M(i)
    BY <2>1, <2>2
  <2> QED BY <2>3, <2>4
<1>6. at \in [DOMAIN result -> 1 .. k - 1]
  BY <1>5
<1> HIDE DEF at, M, first
<1>7. ASSUME NEW i \in DOMAIN result, NEW j \in DOMAIN result, i < j PROVE at[i] < at[j]
  <2>1. ~Before(M(j), M(i)) /\ M(i) # M(j)
    <3>1. /\ M(i).tag = "row" /\ M(i).req = n /\ M(j).tag = "row" /\ M(j).req = n
          /\ M(i).type < M(j).type /\ M(i).type \in Int /\ M(j).type \in Int
      <4>1. M(i).type = first + i - 1 /\ M(j).type = first + j - 1
            /\ M(i).type \in Int /\ M(j).type \in Int
        BY <1>4
      <4>2. i \in Nat /\ j \in Nat /\ first \in Int
        <5>1. first = Base[asked[n].kind] + 0 /\ asked[n].kind \in Kinds
          BY <1>2 DEF first, RowType, Typed, TypedAsked
        <5>2. \A kind \in Kinds : Base[kind] \in Nat
          BY DEF Kinds, Base
        <5> HIDE DEF n
        <5> QED BY <1>3, <5>1, <5>2
      <4> QED BY <1>4, <1>7, <4>1, <4>2
    <3>2. n \in Int
      BY <1>2
    <3> HIDE DEF n
    <3> QED BY <3>1, <3>2 DEF Before
  <2>2. /\ at[i] \in 1 .. Len(got[c]) /\ at[j] \in 1 .. Len(got[c])
        /\ got[c][at[i]] = M(i) /\ got[c][at[j]] = M(j) /\ Table(M(i)) /\ Table(M(j))
    BY <1>5
  <2>3. ~(at[j] < at[i]) /\ at[i] # at[j]
    BY <2>1, <2>2, RowsInOrder
  <2> QED BY <2>2, <2>3
<1>8. ASSUME NEW j \in 1 .. k - 1, got[c][j].tag = "row"
      PROVE  (\E i \in DOMAIN result : at[i] = j) \/ \A i \in DOMAIN result : j < at[i]
  <2> DEFINE m == got[c][j]
  <2>1. j \in 1 .. Len(got[c]) /\ j < k /\ Table(m) /\ m \in sent /\ Table(f)
    BY <1>1, <1>8, SentIs DEF Table
  <2>2. Before(m, f)
    BY <2>1, RowsInOrder
  <2>3. CASE m.req = n
    <3>1. m \in FirstRows(asked, n, result, Len(result))
      BY <1>2, <1>8, <2>1, <2>3 DEF RowsOf
    <3>2. PICK i \in 1 .. Len(result) : m = M(i)
      BY <3>1 DEF FirstRows, M
    <3>3. i \in DOMAIN result /\ ~Before(m, m)
      <4>1. i \in DOMAIN result
        BY <1>3
      <4>2. m.tag = "row" /\ m.type \in Int /\ m.req \in Nat
        BY <1>2, <1>4, <2>3, <3>2, <4>1
      <4> HIDE DEF m
      <4> QED BY <4>1, <4>2 DEF Before
    <3>4. at[i] \in 1 .. Len(got[c]) /\ got[c][at[i]] = m
      BY <1>5, <3>2, <3>3
    <3>5. ~(at[i] < j) /\ ~(j < at[i])
      BY <2>1, <3>3, <3>4, RowsInOrder
    <3>6. at[i] = j
      BY <2>1, <3>4, <3>5
    <3> QED BY <3>3, <3>6
  <2>4. CASE m.req # n
    <3>1. ASSUME NEW i \in DOMAIN result PROVE j < at[i]
      <4>1. /\ at[i] \in 1 .. Len(got[c]) /\ got[c][at[i]] = M(i) /\ Table(M(i)) /\ M(i).req = n
        BY <1>4, <1>5
      <4>2. m.req \in Nat /\ n \in Nat /\ m.req < n
        BY <1>2, <2>1, <2>2, <2>4 DEF Before
      <4>3. ~Before(M(i), m)
        BY <4>1, <4>2 DEF Before
      <4>4. at[i] # j
        BY <2>4, <4>1
      <4>5. ~(at[i] < j)
        BY <2>1, <4>1, <4>3, RowsInOrder
      <4> QED BY <2>1, <4>1, <4>4, <4>5
    <3> QED BY <3>1
  <2> QED BY <2>3, <2>4
<1>9. \A i \in DOMAIN result : LET m == got[c][at[i]] IN
        m.tag = "row" /\ m.rows = <<result[i]>> /\ m.type = first + i - 1
  BY <1>4, <1>5
<1>10. \E a \in [DOMAIN result -> 1 .. k - 1] :
         /\ \A i, j \in DOMAIN result : i < j => a[i] < a[j]
         /\ \A i \in DOMAIN result : LET m == got[c][a[i]] IN
              m.tag = "row" /\ m.rows = <<result[i]>> /\ m.type = first + i - 1
         /\ \A j \in 1 .. k - 1 : got[c][j].tag = "row" =>
              \/ \E i \in DOMAIN result : a[i] = j
              \/ \A i \in DOMAIN result : j < a[i]
  <2> HIDE DEF result
  <2> QED BY <1>6, <1>7, <1>8, <1>9, Zenon
<1> QED BY <1>10, Zenon DEF first

\* For tables of any length, whatever Evloop sends in between, however the tables
\* change and whichever requests break off: a client that reads the last message of
\* a request has all rows the query returned, in order, each of its type.
THEOREM Arrival == Spec => []TablesArriveWhole
<1>1. IInv /\ Typed /\ SentWell => TablesArriveWhole
  <2> SUFFICES ASSUME IInv, Typed, SentWell PROVE TablesArriveWhole
    OBVIOUS
  <2>1. \A c \in Clients : DOMAIN got[c] = 1 .. Len(got[c])
    BY LenProperties DEF IInv, Order, IsSeq
  <2> QED BY <2>1, Whole, Zenon DEF TablesArriveWhole
<1> QED BY <1>1, Always, PTL

==============================================================================
