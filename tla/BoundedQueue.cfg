\* Three threads and one async task; the queue overflows.
CONSTANTS
  Threads = {t1, t2, t3}
  Tasks = {a1}
  Capacity = 2
  MaxPush = 6
SPECIFICATION FairQueueSpec
INVARIANTS KeepsMostRecent SleepersCovered
PROPERTIES AsyncServed
CHECK_DEADLOCK FALSE
