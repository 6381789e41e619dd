SPECIFICATION RunSpec
CONSTANTS
  Chunks = 3
  Capacity = 1
  Pods = {p1, p2}
INVARIANTS
  RunTypeOK
  AppliedIsComplete
  PartialOnlyAfterError
  JamNeedsEarlyExit
  PartialLogsAreExcused
  PanicNeedsNoPods
PROPERTIES
  EndsOrJams
  RunEnds
CHECK_DEADLOCK FALSE
