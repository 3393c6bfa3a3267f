---------------------------- MODULE QueueTProofs -----------------------------
(***************************************************************************)
(* What TLAPS proves of QueueT for every set of producers and consumers    *)
(* and every bound: typing, mutual exclusion on m_mutex, that no dequeue   *)
(* pops an empty queue, that the consumers never all sleep beside a queued *)
(* element with no signal on its way, and that QueueT implements FifoQueue.*)
(***************************************************************************)
EXTENDS QueueT, TLAPS

\* A producer about to push has not used its bound up.
PushBound == \A p \in Producers : pc[p] = "push" => sent[p] < MaxPush

\* The inductive invariant.  TypeOK is not inductive alone: Head(m_queue) is
\* an element only where PopSafe holds, and PopSafe needs the mutual
\* exclusion stated by MutexHeld.
IInv == TypeOK /\ PushBound /\ MutexHeld /\ PopSafe

\* Every step keeps the types; only Pop needs to know that the queue it pops
\* has an element.
LEMMA TypeStep ==
  ASSUME TypeOK, PushBound, PopSafe, [Next]_vars
  PROVE  TypeOK' /\ PushBound'
<1> USE ThreadsAssumption, MaxPushAssumption
    DEF TypeOK, PushBound, PopSafe, ProducerPC, ConsumerPC
<1>1. ASSUME NEW p \in Producers, EnqueueLock(p) PROVE TypeOK' /\ PushBound'
  BY <1>1 DEF EnqueueLock, Lock, Goto, Threads
<1>2. ASSUME NEW p \in Producers, Push(p) PROVE TypeOK' /\ PushBound'
  <2>1. <<p, sent[p] + 1>> \in Items /\ sent[p] + 1 \in 0..MaxPush
    BY <1>2 DEF Push, Items
  <2> QED BY <1>2, <2>1 DEF Push, Goto, Threads
<1>3. ASSUME NEW p \in Producers, Signal(p) PROVE TypeOK' /\ PushBound'
  BY <1>3 DEF Signal, Waiting, Goto, Threads
<1>4. ASSUME NEW c \in Consumers, DequeueLock(c) \/ Relock(c) PROVE TypeOK' /\ PushBound'
  BY <1>4 DEF DequeueLock, Relock, Lock, Goto, Threads
<1>5. ASSUME NEW c \in Consumers, Check(c) PROVE TypeOK' /\ PushBound'
  BY <1>5 DEF Check, Goto, Threads
<1>6. ASSUME NEW c \in Consumers, Pop(c) PROVE TypeOK' /\ PushBound'
  <2>1. m_queue # <<>> /\ Head(m_queue) \in Items /\ Tail(m_queue) \in Seq(Items)
    BY <1>6 DEF Pop
  <2> QED BY <1>6, <2>1 DEF Pop, Goto, Threads
<1>7. ASSUME NEW c \in Consumers,
             CallAgain(c) \/ TimeOut(c) \/ SpuriousWakeup(c) \/ GiveUp(c)
      PROVE TypeOK' /\ PushBound'
  BY <1>7 DEF CallAgain, TimeOut, SpuriousWakeup, GiveUp, Goto, Threads
<1>8. ASSUME UNCHANGED vars PROVE TypeOK' /\ PushBound'
  BY <1>8 DEF vars
<1> QED BY <1>1, <1>2, <1>3, <1>4, <1>5, <1>6, <1>7, <1>8
        DEF Next, ProducerStep, ConsumerStep

\* m_mutex is taken only where it is free and released only by its holder.
LEMMA MutexStep ==
  ASSUME TypeOK, MutexHeld, [Next]_vars
  PROVE  MutexHeld'
<1> USE ThreadsAssumption DEF TypeOK, MutexHeld, Holding, ProducerPC, ConsumerPC
<1>1. ASSUME NEW p \in Producers, EnqueueLock(p) PROVE MutexHeld'
  BY <1>1 DEF EnqueueLock, Lock, Goto, Threads
<1>2. ASSUME NEW p \in Producers, Push(p) PROVE MutexHeld'
  BY <1>2 DEF Push, Goto, Threads
<1>3. ASSUME NEW p \in Producers, Signal(p) PROVE MutexHeld'
  BY <1>3 DEF Signal, Waiting, Goto, Threads
<1>4. ASSUME NEW c \in Consumers, DequeueLock(c) \/ Relock(c) PROVE MutexHeld'
  BY <1>4 DEF DequeueLock, Relock, Lock, Goto, Threads
<1>5. ASSUME NEW c \in Consumers, Check(c) PROVE MutexHeld'
  BY <1>5 DEF Check, Goto, Threads
<1>6. ASSUME NEW c \in Consumers, Pop(c) PROVE MutexHeld'
  BY <1>6 DEF Pop, Goto, Threads
<1>7. ASSUME NEW c \in Consumers,
             CallAgain(c) \/ TimeOut(c) \/ SpuriousWakeup(c) \/ GiveUp(c)
      PROVE MutexHeld'
  BY <1>7 DEF CallAgain, TimeOut, SpuriousWakeup, GiveUp, Goto, Threads
<1>8. ASSUME UNCHANGED vars PROVE MutexHeld'
  BY <1>8 DEF vars
<1> QED BY <1>1, <1>2, <1>3, <1>4, <1>5, <1>6, <1>7, <1>8
        DEF Next, ProducerStep, ConsumerStep

\* While a consumer is between the loop test and its pop nobody else holds
\* the mutex, so nobody else shortens the queue.
LEMMA PopSafeStep ==
  ASSUME TypeOK, MutexHeld, PopSafe, [Next]_vars
  PROVE  PopSafe'
<1> USE ThreadsAssumption
    DEF TypeOK, MutexHeld, Holding, PopSafe, ProducerPC, ConsumerPC
<1>1. ASSUME NEW p \in Producers, EnqueueLock(p) PROVE PopSafe'
  BY <1>1 DEF EnqueueLock, Lock, Goto, Threads
<1>2. ASSUME NEW p \in Producers, Push(p) PROVE PopSafe'
  <2>1. \A c \in Consumers : pc'[c] # "pop"
    BY <1>2 DEF Push, Goto, Threads
  <2> QED BY <1>2, <2>1 DEF Push, Goto, Threads
<1>3. ASSUME NEW p \in Producers, Signal(p) PROVE PopSafe'
  BY <1>3 DEF Signal, Waiting, Goto, Threads
<1>4. ASSUME NEW c \in Consumers, DequeueLock(c) \/ Relock(c) PROVE PopSafe'
  BY <1>4 DEF DequeueLock, Relock, Lock, Goto, Threads
<1>5. ASSUME NEW c \in Consumers, Check(c) PROVE PopSafe'
  BY <1>5 DEF Check, Goto, Threads
<1>6. ASSUME NEW c \in Consumers, Pop(c) PROVE PopSafe'
  BY <1>6 DEF Pop, Goto, Threads
<1>7. ASSUME NEW c \in Consumers,
             CallAgain(c) \/ TimeOut(c) \/ SpuriousWakeup(c) \/ GiveUp(c)
      PROVE PopSafe'
  BY <1>7 DEF CallAgain, TimeOut, SpuriousWakeup, GiveUp, Goto, Threads
<1>8. ASSUME UNCHANGED vars PROVE PopSafe'
  BY <1>8 DEF vars
<1> QED BY <1>1, <1>2, <1>3, <1>4, <1>5, <1>6, <1>7, <1>8
        DEF Next, ProducerStep, ConsumerStep

\* The queue can become non-empty beside sleeping consumers only by a push
\* on an empty queue, which leaves its producer about to signal.
LEMMA SleepStep ==
  ASSUME TypeOK, NoCommonSleep, [Next]_vars
  PROVE  NoCommonSleep'
<1> USE ThreadsAssumption
    DEF TypeOK, NoCommonSleep, ProducerPC, ConsumerPC
<1>1. ASSUME NEW p \in Producers, EnqueueLock(p) PROVE NoCommonSleep'
  BY <1>1 DEF EnqueueLock, Lock, Goto, Threads
<1>2. ASSUME NEW p \in Producers, Push(p) PROVE NoCommonSleep'
  BY <1>2 DEF Push, Goto, Threads
<1>3. ASSUME NEW p \in Producers, Signal(p) PROVE NoCommonSleep'
  BY <1>3 DEF Signal, Waiting, Goto, Threads
<1>4. ASSUME NEW c \in Consumers, DequeueLock(c) \/ Relock(c) PROVE NoCommonSleep'
  BY <1>4 DEF DequeueLock, Relock, Lock, Goto, Threads
<1>5. ASSUME NEW c \in Consumers, Check(c) PROVE NoCommonSleep'
  BY <1>5 DEF Check, Goto, Threads
<1>6. ASSUME NEW c \in Consumers, Pop(c) PROVE NoCommonSleep'
  BY <1>6 DEF Pop, Goto, Threads
<1>7. ASSUME NEW c \in Consumers,
             CallAgain(c) \/ TimeOut(c) \/ SpuriousWakeup(c) \/ GiveUp(c)
      PROVE NoCommonSleep'
  BY <1>7 DEF CallAgain, TimeOut, SpuriousWakeup, GiveUp, Goto, Threads
<1>8. ASSUME UNCHANGED vars PROVE NoCommonSleep'
  BY <1>8 DEF vars
<1> QED BY <1>1, <1>2, <1>3, <1>4, <1>5, <1>6, <1>7, <1>8
        DEF Next, ProducerStep, ConsumerStep

\* IInv holds in every reachable state.
LEMMA Inductive == Spec => []IInv
<1>1. Init => IInv
  BY ThreadsAssumption, MaxPushAssumption
  DEF Init, IInv, TypeOK, PushBound, MutexHeld, Holding, PopSafe,
      ProducerPC, ConsumerPC, Threads
<1>2. IInv /\ [Next]_vars => IInv'
  BY TypeStep, MutexStep, PopSafeStep DEF IInv
<1> QED BY <1>1, <1>2, PTL DEF Spec

\* Every variable of the queue stays in its type: where the threads are in
\* enqueue and dequeue, the holder of m_mutex, the contents of m_queue and of
\* dequeue's out parameters.
THEOREM Typing == Spec => []TypeOK
<1>1. IInv => TypeOK
  BY DEF IInv
<1> QED BY <1>1, Inductive, PTL

\* The body of dequeue after its loop and the body of enqueue exclude each
\* other: m_mutex is held by exactly the thread that is inside one of them.
THEOREM MutualExclusion == Spec => []MutexHeld
<1>1. IInv => MutexHeld
  BY DEF IInv
<1> QED BY <1>1, Inductive, PTL

\* front and pop are never called on an empty std::queue, whatever spurious
\* wake-ups, time-outs and competing consumers do.
THEOREM PopsAreSafe == Spec => []PopSafe
<1>1. IInv => PopSafe
  BY DEF IInv
<1> QED BY <1>1, Inductive, PTL

\* Signalling only on the empty queue is enough to keep the consumers from
\* all sleeping beside a queued element.
THEOREM NoLostWakeup == Spec => []NoCommonSleep
<1>1. Init => NoCommonSleep
  BY DEF Init, NoCommonSleep
<1>2. TypeOK /\ NoCommonSleep /\ [Next]_vars => NoCommonSleep'
  BY SleepStep
<1> QED BY <1>1, <1>2, Typing, PTL DEF Spec

(***************************************************************************)
(* Implementation of the abstract queue                                    *)
(***************************************************************************)

\* Only the body of enqueue and the end of dequeue touch the queue, its history
\* and the out parameters; the two functions do the rest unseen.
LEMMA QueueMoves ==
  ASSUME [Next]_vars
  PROVE  \/ \E p \in Producers : Push(p)
         \/ \E c \in Consumers : Pop(c)
         \/ UNCHANGED <<m_queue, log, taken, out>>
<1>1. ASSUME NEW p \in Producers, ProducerStep(p), ~Push(p)
      PROVE  UNCHANGED <<m_queue, log, taken, out>>
  BY <1>1 DEF ProducerStep, EnqueueLock, Lock, Signal
<1>2. ASSUME NEW c \in Consumers, ConsumerStep(c), ~Pop(c)
      PROVE  UNCHANGED <<m_queue, log, taken, out>>
  BY <1>2 DEF ConsumerStep, DequeueLock, Check, CallAgain, TimeOut, SpuriousWakeup,
              Relock, GiveUp, Lock
<1>3. UNCHANGED vars => UNCHANGED <<m_queue, log, taken, out>>
  BY DEF vars
<1> QED BY <1>1, <1>2, <1>3 DEF Next

\* m_queue is always the part of the history not handed out yet: Push extends
\* both at the end, Pop drops the element it hands out.
LEMMA LogStep ==
  ASSUME TypeOK, PushBound, PopSafe, QueueIsLogTail, [Next]_vars
  PROVE  QueueIsLogTail'
<1> USE DEF TypeOK, QueueIsLogTail
<1>1. ASSUME NEW p \in Producers, Push(p) PROVE QueueIsLogTail'
  <2> DEFINE item == <<p, sent[p] + 1>>
  <2>1. item \in Items
    BY <1>1, MaxPushAssumption DEF Push, PushBound, Items
  <2>2. m_queue' = Append(m_queue, item) /\ log' = Append(log, item) /\ taken' = taken
    BY <1>1 DEF Push
  <2>3. Len(m_queue') = Len(m_queue) + 1 /\ Len(log') = Len(log) + 1
    BY <2>1, <2>2
  <2>4. ASSUME NEW i \in 1..Len(m_queue') PROVE m_queue'[i] = log'[taken' + i]
    <3>1. CASE i \in 1..Len(m_queue)
      BY <2>1, <2>2, <2>3, <3>1
    <3>2. CASE i = Len(m_queue) + 1
      BY <2>1, <2>2, <2>3, <3>2
    <3> QED BY <2>3, <2>4, <3>1, <3>2
  <2> QED BY <2>2, <2>3, <2>4
<1>2. ASSUME NEW c \in Consumers, Pop(c) PROVE QueueIsLogTail'
  <2>1. m_queue # <<>> /\ Len(m_queue) >= 1
    BY <1>2 DEF Pop, PopSafe
  <2>2. m_queue' = Tail(m_queue) /\ log' = log /\ taken' = taken + 1
    BY <1>2 DEF Pop
  <2>3. Len(m_queue') = Len(m_queue) - 1
    BY <2>1, <2>2
  <2>4. ASSUME NEW i \in 1..Len(m_queue') PROVE m_queue'[i] = log'[taken' + i]
    <3>1. m_queue'[i] = m_queue[i + 1] /\ i + 1 \in 1..Len(m_queue)
      BY <2>1, <2>2, <2>3
    <3> QED BY <2>2, <3>1
  <2> QED BY <2>1, <2>2, <2>3, <2>4
<1>3. UNCHANGED <<m_queue, log, taken, out>> => QueueIsLogTail'
  OBVIOUS
<1> QED BY <1>1, <1>2, <1>3, QueueMoves

\* What each visible step is in FifoQueue: a push enqueues the producer's next
\* element, a pop hands the oldest element to its consumer.
LEMMA PushEnqueues ==
  ASSUME IInv, NEW p \in Producers, Push(p)
  PROVE  FIFO!FifoNext
<1>1. <<p, sent[p] + 1>> \in Items
  BY MaxPushAssumption DEF Push, IInv, TypeOK, PushBound, Items
<1>2. FIFO!Enqueue(<<p, sent[p] + 1>>)
  BY DEF Push, FIFO!Enqueue
<1> QED BY <1>1, <1>2 DEF FIFO!FifoNext

LEMMA PopDequeues ==
  ASSUME IInv, QueueIsLogTail, NEW c \in Consumers, Pop(c)
  PROVE  FIFO!FifoNext
<1>1. m_queue # <<>> /\ Len(m_queue) >= 1
  BY DEF Pop, IInv, TypeOK, PopSafe
<1>2. Head(m_queue) = log[taken + 1] /\ taken < Len(log)
  BY <1>1 DEF IInv, TypeOK, QueueIsLogTail
<1>3. FIFO!Dequeue(c)
  BY <1>2 DEF Pop, FIFO!Dequeue
<1> QED BY <1>3 DEF FIFO!FifoNext

\* QueueT implements FifoQueue with log, taken and out as they are: a push is
\* an Enqueue, a pop hands the oldest element to its consumer, and every
\* other step of the two functions is invisible.
THEOREM Refinement == Spec => FifoRefinement
<1>1. Init => FIFO!FifoInit /\ QueueIsLogTail
  BY DEF Init, FIFO!FifoInit, QueueIsLogTail
<1>2. IInv /\ QueueIsLogTail /\ [Next]_vars => QueueIsLogTail'
  BY LogStep DEF IInv
<1>3. IInv /\ QueueIsLogTail /\ [Next]_vars => [FIFO!FifoNext]_FIFO!fifoVars
  <2>1. UNCHANGED <<m_queue, log, taken, out>> => UNCHANGED FIFO!fifoVars
    BY DEF FIFO!fifoVars
  <2> QED BY <2>1, QueueMoves, PushEnqueues, PopDequeues
<1> QED BY <1>1, <1>2, <1>3, Inductive, PTL DEF Spec, FifoRefinement, FIFO!Spec

==============================================================================
