SPECIFICATION Spec
CONSTANTS
    MaxEvents = 1
    MaxUsbEvents = 2
    MaxEndpoints = 1
    Threshold = 2
    MaxSeconds = 4
    LongestSuspend = 2
INVARIANT LengthsReported
CHECK_DEADLOCK FALSE
