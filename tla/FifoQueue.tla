------------------------------ MODULE FifoQueue ------------------------------
(***************************************************************************)
(* What QueueT<TYPE> (QueueT.h) promises its callers, with no mutex and no *)
(* condition variable: enqueue adds an element at the end, a successful    *)
(* dequeue hands the oldest element not handed out yet to exactly one      *)
(* consumer.  A dequeue that gives up (returns -1) changes nothing and is  *)
(* a stuttering step here.                                                 *)
(*                                                                         *)
(* `log' is every element ever enqueued, in order; the first `taken' of    *)
(* them have been handed out.                                              *)
(***************************************************************************)
EXTENDS Naturals, Sequences

CONSTANTS
  Consumers,   \* the threads that call dequeue
  Items,       \* the elements
  NoItem       \* what a consumer's out parameter holds before its first success

VARIABLES log, taken, out

fifoVars == <<log, taken, out>>

FifoInit ==
  /\ log = <<>>
  /\ taken = 0
  /\ out = [c \in Consumers |-> NoItem]

\* enqueue (t): t becomes the youngest element.
Enqueue(item) ==
  /\ log' = Append(log, item)
  /\ UNCHANGED <<taken, out>>

\* dequeue (out, timeout) returning 0 to consumer c.
Dequeue(c) ==
  /\ taken < Len(log)
  /\ taken' = taken + 1
  /\ out' = [out EXCEPT ![c] = log[taken + 1]]
  /\ UNCHANGED log

FifoNext ==
  \/ \E item \in Items : Enqueue(item)
  \/ \E c \in Consumers : Dequeue(c)

Spec == FifoInit /\ [][FifoNext]_fifoVars

==============================================================================
