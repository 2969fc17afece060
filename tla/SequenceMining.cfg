SPECIFICATION Spec
CONSTANTS
  Groups = {1, 2}
  Items = {1, 2}
  Unbounded = 99
  Jobs <- SeveralJobs
INVARIANTS
  EndsExact
  Exact
  Complete
  NoneTwice
  NothingLeft
  FailsTwice
PROPERTIES
  Ends
CHECK_DEADLOCK FALSE
