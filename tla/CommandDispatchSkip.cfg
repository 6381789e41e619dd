SPECIFICATION Spec
CONSTANTS
  Namespaces = {Default}
  Default = Default
  NotGiven = NotGiven
  ArgCounts = {1}
INVARIANT
  ClusterWideSkipsValidation
CHECK_DEADLOCK FALSE
