------------------------------- MODULE QueueT --------------------------------
(***************************************************************************)
(* The blocking queue of QueueT.h: one mutex (m_mutex), one condition      *)
(* variable (m_con) and a std::queue (m_queue), shared by the threads that *)
(* enqueue and the threads that dequeue.  The server has three of them:    *)
(* Single::recvqueue, Single::sendqueue and ThreadPool::TaskQueue_.        *)
(*                                                                         *)
(* One action is one stretch of code between two points where another      *)
(* thread can get in.  enqueue signals only when it found the queue empty, *)
(* and does so after it has released the mutex; dequeue re-tests the queue *)
(* after every wake-up and gives up on ETIMEDOUT without looking again.    *)
(***************************************************************************)
EXTENDS Naturals, Sequences

CONSTANTS
  Producers,   \* threads that call enqueue
  Consumers,   \* threads that call dequeue in a loop
  MaxPush,     \* bound: elements each producer enqueues
  NoThread,    \* value of `mutex' while it is free
  NoItem       \* out parameter before the first successful dequeue

ASSUME ThreadsAssumption ==
  /\ Consumers # {}
  /\ Producers \cap Consumers = {}
  /\ NoThread \notin Producers \cup Consumers

ASSUME MaxPushAssumption == MaxPush \in Nat

Threads == Producers \cup Consumers

\* The k-th element producer p enqueues.
Items == Producers \X (1..MaxPush)

ASSUME NoItemAssumption == NoItem \notin Items

VARIABLES
  mutex,       \* the thread holding m_mutex
  m_queue,     \* the std::queue
  pc,          \* where each thread is in enqueue or dequeue
  out,         \* dequeue's out parameter, per consumer
  sent,        \* elements each producer has enqueued
  log, taken   \* history: everything enqueued, and how much was handed out

vars == <<mutex, m_queue, pc, out, sent, log, taken>>

ProducerPC == {"idle", "push", "signal"}
ConsumerPC == {"idle", "check", "pop", "wait", "woken", "expired", "busy"}

Init ==
  /\ mutex = NoThread
  /\ m_queue = <<>>
  /\ pc = [t \in Threads |-> "idle"]
  /\ out = [c \in Consumers |-> NoItem]
  /\ sent = [p \in Producers |-> 0]
  /\ log = <<>>
  /\ taken = 0

Goto(t, label) == pc' = [pc EXCEPT ![t] = label]

\* pthread_mutex_lock by a thread at `from', which goes on to `to'.
Lock(t, from, to) ==
  /\ pc[t] = from
  /\ mutex = NoThread
  /\ mutex' = t
  /\ Goto(t, to)
  /\ UNCHANGED <<m_queue, out, sent, log, taken>>

(***************************************************************************)
(* enqueue                                                                 *)
(***************************************************************************)
EnqueueLock(p) == sent[p] < MaxPush /\ Lock(p, "idle", "push")

MutSignalWhenNonempty(p) ==
  LET item == <<p, sent[p] + 1>> IN
  /\ pc[p] = "push"
  /\ m_queue' = Append(m_queue, item)
  /\ log' = Append(log, item)
  /\ sent' = [sent EXCEPT ![p] = @ + 1]
  /\ mutex' = NoThread
  /\ Goto(p, IF m_queue = <<>> THEN "idle" ELSE "signal")
  /\ UNCHANGED <<out, taken>>

\* The test of m_queue.empty, the push and the unlock, all under the mutex.
Push(p) ==
  LET item == <<p, sent[p] + 1>> IN
  /\ pc[p] = "push"
  /\ m_queue' = Append(m_queue, item)
  /\ log' = Append(log, item)
  /\ sent' = [sent EXCEPT ![p] = @ + 1]
  /\ mutex' = NoThread
  /\ Goto(p, IF m_queue = <<>> THEN "signal" ELSE "idle")
  /\ UNCHANGED <<out, taken>>

Waiting == {c \in Consumers : pc[c] = "wait"}

MutSignalNobody(p) ==
  /\ pc[p] = "signal"
  /\ Goto(p, "idle")
  /\ UNCHANGED <<mutex, m_queue, out, sent, log, taken>>

\* pthread_cond_signal, outside the mutex: one of the threads waiting now, if
\* any, will return from pthread_cond_timedwait with 0.
Signal(p) ==
  /\ pc[p] = "signal"
  /\ IF Waiting = {}
       THEN Goto(p, "idle")
       ELSE \E c \in Waiting : pc' = [pc EXCEPT ![p] = "idle", ![c] = "woken"]
  /\ UNCHANGED <<mutex, m_queue, out, sent, log, taken>>

(***************************************************************************)
(* dequeue                                                                 *)
(***************************************************************************)
DequeueLock(c) == Lock(c, "idle", "check")

\* The loop test.  pthread_cond_timedwait releases the mutex and joins the
\* waiters in one step.
Check(c) ==
  /\ pc[c] = "check"
  /\ IF m_queue = <<>>
       THEN mutex' = NoThread /\ Goto(c, "wait")
       ELSE mutex' = mutex /\ Goto(c, "pop")
  /\ UNCHANGED <<m_queue, out, sent, log, taken>>

MutPopKeepsFront(c) ==
  /\ pc[c] = "pop"
  /\ m_queue' = m_queue
  /\ out' = [out EXCEPT ![c] = Head(m_queue)]
  /\ taken' = taken + 1
  /\ mutex' = NoThread
  /\ Goto(c, "busy")
  /\ UNCHANGED <<sent, log>>

\* front, pop, unlock and return 0: the caller goes off to use the element.
Pop(c) ==
  /\ pc[c] = "pop"
  /\ m_queue' = Tail(m_queue)
  /\ out' = [out EXCEPT ![c] = Head(m_queue)]
  /\ taken' = taken + 1
  /\ mutex' = NoThread
  /\ Goto(c, "busy")
  /\ UNCHANGED <<sent, log>>

\* The caller is done with the element and calls dequeue again.
CallAgain(c) ==
  /\ pc[c] = "busy"
  /\ Goto(c, "idle")
  /\ UNCHANGED <<mutex, m_queue, out, sent, log, taken>>

MutWaitForever(c) ==
  /\ pc[c] = "wait"
  /\ UNCHANGED vars

\* The deadline passes while c waits.
TimeOut(c) ==
  /\ pc[c] = "wait"
  /\ Goto(c, "expired")
  /\ UNCHANGED <<mutex, m_queue, out, sent, log, taken>>

\* pthread_cond_timedwait may return 0 with no signal.
SpuriousWakeup(c) ==
  /\ pc[c] = "wait"
  /\ Goto(c, "woken")
  /\ UNCHANGED <<mutex, m_queue, out, sent, log, taken>>

MutIfInsteadOfWhile(c) == Lock(c, "woken", "pop")

\* Woken by a signal (or spuriously): take the mutex back and test again.
Relock(c) == Lock(c, "woken", "check")

MutPassSignalOn(c) ==
  /\ pc[c] = "expired"
  /\ mutex = NoThread
  /\ Goto(c, "signal")
  /\ UNCHANGED <<mutex, m_queue, out, sent, log, taken>>

\* ETIMEDOUT: the mutex is taken back, released, and dequeue returns -1 even
\* if an element arrived in between; every caller then calls it again.
GiveUp(c) ==
  /\ pc[c] = "expired"
  /\ mutex = NoThread
  /\ Goto(c, "idle")
  /\ UNCHANGED <<mutex, m_queue, out, sent, log, taken>>

(***************************************************************************)
(* Specification                                                           *)
(***************************************************************************)
ProducerStep(p) == EnqueueLock(p) \/ Push(p) \/ Signal(p)

ConsumerStep(c) ==
  \/ DequeueLock(c) \/ Check(c) \/ Pop(c) \/ CallAgain(c)
  \/ TimeOut(c) \/ SpuriousWakeup(c) \/ Relock(c) \/ GiveUp(c)

Next ==
  \/ \E p \in Producers : ProducerStep(p)
  \/ \E c \in Consumers : ConsumerStep(c)

Spec == Init /\ [][Next]_vars

\* Threads keep running, and a thread that keeps finding the mutex free in
\* between gets it in the end (strong fairness of the lock operations): it is
\* held for a few instructions, and waiting threads sleep.
ThreadFairness ==
  /\ \A p \in Producers : WF_vars(Push(p)) /\ WF_vars(Signal(p))
  /\ \A c \in Consumers :
       /\ WF_vars(Check(c)) /\ WF_vars(Pop(c))
       /\ SF_vars(DequeueLock(c)) /\ SF_vars(Relock(c)) /\ SF_vars(GiveUp(c))

FairSpec == Spec /\ ThreadFairness

\* The thread pool: deadlines pass, and a thread that got a task may run it for
\* ever, but not all threads do.
DeadlinesPass ==
  /\ \A c \in Consumers : WF_vars(TimeOut(c))
  /\ []<>(\E c \in Consumers : pc[c] # "busy")

\* RecvTask and SendTask: the consumer always comes back, and nothing is said
\* about deadlines, so that progress must come from the signals.
ConsumersReturn == \A c \in Consumers : WF_vars(CallAgain(c))

(***************************************************************************)
(* Properties                                                              *)
(***************************************************************************)
\* Every variable has its type, and every thread is at a point of the function
\* it is in: producers in enqueue, consumers in dequeue.
TypeOK ==
  /\ mutex \in Threads \cup {NoThread}
  /\ m_queue \in Seq(Items)
  /\ pc \in [Threads -> ProducerPC \cup ConsumerPC]
  /\ \A p \in Producers : pc[p] \in ProducerPC
  /\ \A c \in Consumers : pc[c] \in ConsumerPC
  /\ out \in [Consumers -> Items \cup {NoItem}]
  /\ sent \in [Producers -> 0..MaxPush]
  /\ log \in Seq(Items)
  /\ taken \in Nat

\* The points at which a thread holds m_mutex.
Holding(t) == pc[t] \in {"push", "check", "pop"}

\* m_mutex is held by exactly the thread that is between its lock and its
\* unlock or wait (QueueT.h, dequeue and enqueue).
MutexHeld == \A t \in Threads : Holding(t) <=> mutex = t

\* front and pop are only ever called on a queue that has an element, even
\* with spurious wake-ups and other consumers taking the element first.
PopSafe == \A c \in Consumers : pc[c] = "pop" => m_queue # <<>>

\* No lost wake-up for the queue as a whole: when every consumer sleeps in
\* pthread_cond_timedwait and the queue is not empty, some enqueue has still
\* to issue its signal.  (One consumer may sleep beside a queued element; all
\* of them may not.)
NoCommonSleep ==
  (m_queue # <<>> /\ \A c \in Consumers : pc[c] = "wait")
     => \E p \in Producers : pc[p] = "signal"

\* What is queued is what was enqueued and not handed out, in order.
QueueIsLogTail ==
  /\ Len(log) = taken + Len(m_queue)
  /\ \A i \in 1..Len(m_queue) : m_queue[i] = log[taken + i]

\* QueueT implements the first-in first-out queue: every successful dequeue
\* hands the oldest element to one consumer, each element once.
FIFO == INSTANCE FifoQueue WITH Consumers <- Consumers, Items <- Items, NoItem <- NoItem,
                                log <- log, taken <- taken, out <- out
FifoRefinement == FIFO!Spec

Drained ==
  \A item \in Items :
    (\E i \in 1..Len(log) : log[i] = item) ~> (\E i \in 1..taken : log[i] = item)

\* Every element enqueued is handed to some consumer in the end: in the thread
\* pool, where the deadline of a waiting thread makes up for the signal that one
\* at work did not get, and a thread may be at work for ever ...
DrainedByDeadlines == DeadlinesPass => Drained

\* ... and in RecvTask and SendTask by the signals alone.
DrainedBySignals == ConsumersReturn => Drained

==============================================================================
