\* One goal that may end in two ways, two result queries, with a goal timeout; fair.
CONSTANTS
  g1 = g1
  g2 = g2
  c1 = c1
  c2 = c2
  r1 = r1
  r2 = r2
  ZeroGoal = zero
  Target <- MCTarget
  Goals = {g1}
  Cancels = {}
  Results = {r1, r2}
  GoalTimeout = TRUE
  Outcomes = {"succeeded", "aborted"}
  Depth = 1
  ChanCap = 1
SPECIFICATION FairSpec
INVARIANTS ResultIsOutcome
PROPERTIES WaiterAnswered StoppingEnds
CHECK_DEADLOCK FALSE
