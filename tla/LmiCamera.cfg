SPECIFICATION FairSpec
CONSTANTS
  MaxGeneration = 4
  Faults = {"backend", "killed", "timeout", "refused"}
  MaxFaults = 1
INVARIANT BackgroundSound
INVARIANT LastAnswerCounts
PROPERTY Stops
PROPERTY ControlSettles
CHECK_DEADLOCK FALSE
