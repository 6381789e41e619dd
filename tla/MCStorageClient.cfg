SPECIFICATION Spec
CONSTANTS
  Sessions = {s1}
  Lines <- CommandLines
  Default = Default
  Flag = Flag
  Argument = Argument
  MaxUid = 3
INVARIANTS
  TypeOK
  OwnGroupsOnly
  QuietVerdict
