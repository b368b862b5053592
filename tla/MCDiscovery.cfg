\* A local publisher and subscription, one remote endpoint, and a waiter for a
\* subscription that runs while the local one is created.
CONSTANTS
  Local = {"p", "s"}
  Remote = {"r"}
  Kind <- MCKind
  WaitKind = "sub"
  Waiting = {"s"}
  Mortal = {"s"}
  MaxArc = 3
SPECIFICATION DiscoverySpec
INVARIANTS GraphConverges MatchesCounted NobodySleepsOnIt
CHECK_DEADLOCK FALSE
