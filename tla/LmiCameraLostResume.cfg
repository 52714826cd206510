SPECIFICATION Spec
CONSTANTS
  MaxGeneration = 3
  Faults = {}
  MaxFaults = 0
INVARIANT ResumeNotLost
CHECK_DEADLOCK FALSE
