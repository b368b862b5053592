\* The owner, one remote caller and one publisher; both callbacks may panic.
CONSTANTS
  Callers = {c1}
  Pubs = {p1}
  Panics = {"callback", "on_error"}
SPECIFICATION FairSpec
INVARIANTS TypeOK GateMatchesState EventMatchesState
PROPERTIES FollowsGraph BusySettles
CHECK_DEADLOCK FALSE
