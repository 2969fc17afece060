SPECIFICATION Spec
CONSTANTS
  Columns = {1, 2, 3, 4, 5, 6}
  Jobs <- SeveralJobs
INVARIANTS
  SameRows
  SameGroups
  Normal
CHECK_DEADLOCK FALSE
