SPECIFICATION Spec
CONSTANTS
  Sessions = {s1, s2}
  Osds = {osd0, osd1}
INVARIANTS
  TypeOK
  LossIsExcused
  NobodyElseDecides
  AskedForAReason
PROPERTIES
  ImplementsRemoval
