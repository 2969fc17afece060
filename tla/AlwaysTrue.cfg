SPECIFICATION Spec
CONSTANTS
  Columns = {1, 2, 3, 4, 5, 6}
  Jobs <- AlwaysTrue
INVARIANTS
  SameSemantics
CHECK_DEADLOCK FALSE
