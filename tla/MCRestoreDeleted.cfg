SPECIFICATION FairSpec
CONSTANTS
  Sessions = {s1, s2}
  Requests <- CommandLines
  Kinds <- TroubledKinds
  Served <- ServedKinds
  CrName = "cr"
  NoName = ""
  NoRequest = NoRequest
  NoCopy = NoCopy
  Inner = "rook-ceph-operator"
  MaxRev = 2
  MaxLives = 3
INVARIANTS
  TypeOK
  OperatorDownIsOwned
  OcsDownDuringRepair
  SpecKept
  EditsSurvive
PROPERTIES
  ChildrenSurvive
  OcsComesBack
CHECK_DEADLOCK FALSE
