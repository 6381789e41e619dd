SPECIFICATION Spec
CONSTANTS
  Sessions = {s1}
  Requests <- HelpLine
  Kinds <- TroubledKinds
  Served <- ServedKinds
  CrName = "cr"
  NoName = ""
  NoRequest = NoRequest
  NoCopy = NoCopy
  Inner = "rook-ceph-operator"
  MaxRev = 2
  MaxLives = 3
INVARIANT
  HelpOnlyPrints
CHECK_DEADLOCK FALSE
