SPECIFICATION Spec
CONSTANTS
  Namespaces = {Default, other}
  Default = Default
  NotGiven = NotGiven
  ArgCounts = {0, 1, 2}
INVARIANTS
  TypeOK
  WorksWhereChecked
CHECK_DEADLOCK FALSE
