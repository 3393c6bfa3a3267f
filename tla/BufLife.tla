------------------------------- MODULE BufLife -------------------------------
(***************************************************************************)
(* The life of the message buffers (Buf.h) of Single::bufpool, seen from   *)
(* outside: every buffer is in one place, and a step of the server moves   *)
(* at most one of them, along one of a few ways.  A buffer is received     *)
(* into, queued for the handlers, handled, queued for sending, sent and    *)
(* given back.  It is never sent without having been queued, never handled *)
(* again once it is on its way out, and never freed twice.                 *)
(***************************************************************************)
EXTENDS FiniteSets

CONSTANT Bufs

VARIABLE place

Places == {"pool", "evloop", "recvq", "recvtask", "sendq", "sendtask", "lost"}

Ways == {
  <<"pool", "evloop">>,      \* recv_cb and del_client: malloc
  <<"evloop", "pool">>,      \* a failed read; the scratch buffer of del_client
  <<"evloop", "recvq">>,     \* a whole message arrived
  <<"pool", "sendq">>,       \* a copy: malloc, fill in, enqueue
  <<"recvq", "recvtask">>,   \* RecvTask::work
  <<"pool", "recvtask">>,    \* the scratch buffer of a handler
  <<"recvtask", "pool">>,    \* handled, nothing more to send with it
  <<"recvtask", "sendq">>,   \* forwarded or sent back as the reply
  <<"recvtask", "lost">>,    \* the handler returned and forgot it
  <<"sendq", "sendtask">>,   \* SendTask::work
  <<"sendq", "pool">>,       \* addressed to fd 0
  <<"sendtask", "pool">> }   \* sent, or its socket failed

LifeInit == place = [b \in Bufs |-> "pool"]

\* Buffer b goes one way, and the others stay where they are.
Move(b) ==
  /\ <<place[b], place'[b]>> \in Ways
  /\ \A other \in Bufs \ {b} : place'[other] = place[other]

LifeNext == place' \in [Bufs -> Places] /\ \E b \in Bufs : Move(b)

Spec == LifeInit /\ [][LifeNext]_place

==============================================================================
