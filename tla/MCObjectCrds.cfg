SPECIFICATION FairSpec
CONSTANTS
  Sessions = {s1, s2}
  NumCrds = 2
  Foreign = Foreign
  Absent = Absent
  Nobody = Nobody
  MaxForeign = 2
INVARIANTS
  TypeOK
  FootprintIsPrefix
  SoloEnableInstalls
PROPERTIES
  NoLostUpdate
  ImplementsRegistry
  DisableConverges
CHECK_DEADLOCK FALSE
