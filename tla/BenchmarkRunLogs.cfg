SPECIFICATION RunSpec
CONSTANTS
  Chunks = 1
  Capacity = 1
  Pods = {p1, p2}
INVARIANT
  LogsAreOfCompletedPods
CHECK_DEADLOCK FALSE
