\* One goal, two publishing threads, three status messages, two of feedback.
CONSTANTS
  Goals = {"g1"}
  Publishers = {"t1", "t2"}
  MaxPublished = 3
  MaxFeedback = 2
SPECIFICATION FairSpec
INVARIANTS BoardIsLive
PROPERTIES NoStepBack 
CHECK_DEADLOCK FALSE
