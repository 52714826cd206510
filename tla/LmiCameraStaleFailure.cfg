SPECIFICATION Spec
CONSTANTS
  MaxGeneration = 3
  Faults = {}
  MaxFaults = 0
INVARIANT ReadyIsShown
CHECK_DEADLOCK FALSE
