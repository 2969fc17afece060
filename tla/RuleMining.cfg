SPECIFICATION MatchSpec
CONSTANTS
  Groups = {1, 2, 3}
  Items = {1, 2, 3}
  Algorithms <- Names
  Jobs <- SeveralJobs
  OtherTables <- GapTable
INVARIANTS
  Aligned
  Exact
  Matched
  NothingLost
PROPERTIES
  MatchEnds
CHECK_DEADLOCK FALSE
