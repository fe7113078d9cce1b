SPECIFICATION Spec
CONSTANTS
  FiveMin = 1
  Fifteen = 2
  Hour = 4
  Day = 8
  Keep <- MCKeep
  Zoom <- MCZoom
  MaxLate = 2
  MaxNow = 19
  Starts = {3}
  FaultTimes <- MCFaultTimes
  MaxFaults = 0
CHECK_DEADLOCK FALSE
INVARIANTS
  FifteenComplete
