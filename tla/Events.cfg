\* Two publishers of four samples, four deliveries, three callbacks set, and a
\* counter that wraps at three.
CONSTANTS
  Publishers = {"p1", "p2"}
  MaxSn = 4
  MaxArrivals = 4
  MaxSets = 3
  Depth = 1
  MaxInt = 2
SPECIFICATION Spec
INVARIANTS LossIsExact NothingUnheard MessagesAnnounced
CHECK_DEADLOCK FALSE
