\* Two waiters and two producers on one notifier.
CONSTANTS
  w1 = w1
  w2 = w2
  g1 = g1
  g2 = g2
  s1 = s1
  Waiters = {w1, w2}
  Guards = {g1, g2}
  Sources = {s1}
  Watches <- MCWatches
  Producers = {p1, p2}
  MaxCount = 1
SPECIFICATION FairSpec
INVARIANTS NoLostWakeup NoLostTrigger OkReportsFound
PROPERTIES ReadyWakes
CHECK_DEADLOCK FALSE
