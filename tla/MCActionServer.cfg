\* Two goals whose handles drain each other's cancels; no goal timeout.
CONSTANTS
  g1 = g1
  g2 = g2
  c1 = c1
  c2 = c2
  r1 = r1
  r2 = r2
  ZeroGoal = zero
  Target <- MCTarget
  Goals = {g1, g2}
  Cancels = {c1, c2}
  Results = {r1}
  GoalTimeout = FALSE
  Outcomes = {"succeeded"}
  Depth = 1
  ChanCap = 1
SPECIFICATION Spec
VIEW WithoutStatusContent
INVARIANTS TypeOK NoStrandedWaiter AcceptedIsKnown CancelAckSetsFlag
PROPERTIES CancelNotLost GoalProgress
CHECK_DEADLOCK FALSE
