\* Publishers of a node that a remote caller moves; nothing panics.
CONSTANTS
  Callers = {c1}
  Pubs = {p1}
  Panics = {}
SPECIFICATION Spec
INVARIANTS PublisherFollowsNode
CHECK_DEADLOCK FALSE
