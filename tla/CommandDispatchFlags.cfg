SPECIFICATION Spec
CONSTANTS
  Namespaces = {Default, other}
  Default = Default
  NotGiven = NotGiven
  ArgCounts = {0}
INVARIANT
  RootArgsApply
CHECK_DEADLOCK FALSE
