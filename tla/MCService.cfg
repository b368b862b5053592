\* One call and one rmw request to two servers.
CONSTANTS
  Requests = {"call", "rmw"}
  Calls = {"call"}
  Servers = {"s1", "s2"}
  RmwServers = {"s1"}
  Depth = 1
  ResponseDepth = 1
  None = None
SPECIFICATION FairSpec
INVARIANTS Correlated AnnouncedOnce
PROPERTIES CallEnds
CHECK_DEADLOCK FALSE
