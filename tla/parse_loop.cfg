\* The loop ends, so a state without a successor is a finished parse.
CONSTANTS
  MaxInt = 63
  MaxPageSize = 4
  Absent = Absent
  Lines <- MCLines
  MaxLines = 3
SPECIFICATION Spec
INVARIANTS ParsedIsEvaluated PagesCoverIssues
CHECK_DEADLOCK FALSE
