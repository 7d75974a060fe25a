CONSTANTS
  MaxInt = 63
  MaxPageSize = 4
  Absent = Absent
  Lines <- MCLines
  MaxLines = 2
SPECIFICATION Spec
INVARIANT FarPagesAreEmpty
CHECK_DEADLOCK FALSE
