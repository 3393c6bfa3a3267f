\* Two producers, as Evloop and RecvTask on Single::sendqueue, and two consumers, as
\* the threads of the pool on TaskQueue_.
SPECIFICATION FairSpec
CONSTANTS
  Producers = {p1, p2}
  Consumers = {t1, t2}
  MaxPush = 2
  NoThread = NoThread
  NoItem = NoItem
INVARIANTS
  TypeOK
  PopSafe
  NoCommonSleep
PROPERTIES
  FifoRefinement
  DrainedByDeadlines
  DrainedBySignals
