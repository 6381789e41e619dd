SPECIFICATION Spec
CONSTANTS
  Sessions = {s1, s2}
  NumCrds = 2
  Foreign = Foreign
  Absent = Absent
  Nobody = Nobody
  MaxForeign = 0
INVARIANT
  EnableLeavesCrdsInstalled
CHECK_DEADLOCK FALSE
