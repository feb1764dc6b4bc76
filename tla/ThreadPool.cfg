\* Three workers, a ring of two that four tasks wrap, two clients that may shut
\* the pool down, either way, one after the other or at once.
SPECIFICATION FairSpec
CONSTANTS
  Workers = {w1, w2, w3}
  Clients = {a, b}
  Tasks = {t1, t2, t3, t4}
  NoTask = NoTask
  QueueSize = 2
INVARIANTS TypeOK NoSleepOnWork GracefulRunsAll
PROPERTIES ImplementsTaskQueue DestroyReturns
CHECK_DEADLOCK FALSE
