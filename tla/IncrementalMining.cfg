SPECIFICATION Spec
CONSTANTS
  Groups = {1, 2, 3}
  Items = {1, 2, 3}
  Jobs <- SeveralJobs
INVARIANTS
  Counted
  Sound
  Complete
PROPERTIES
  Ends
CHECK_DEADLOCK FALSE
