\* Two threads, two names, two set requests, two declarations of each name.
CONSTANTS
  gain = gain
  mode = mode
  t1 = t1
  t2 = t2
  Names = {gain, mode}
  Threads = {t1, t2}
  NoValue = NoValue
  Values <- MCValues
  Declarations <- MCDeclarations
  Requests <- MCRequests
  Overrides <- MCOverrides
  IntMax = 7
  MaxDeclares = 2
  MaxSets = 2
SPECIFICATION Spec
SYMMETRY ThreadSymmetry
INVARIANTS StoreIsValid AnswersAreTrue MirrorFollows
CHECK_DEADLOCK FALSE
