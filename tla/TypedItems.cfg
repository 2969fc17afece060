SPECIFICATION Spec
CONSTANTS
  Jobs <- JobsOf
  Texts <- TextsOf
  Half = 16
  Null = Null
  Empty = Empty
  NotSet <- NotSetOf
  Collated <- CollatedOf
  CopyReads <- CopyReadsOf
  Failure = Failure
INVARIANTS
  ItemsExact
  GroupsAscend
  ReadBack
CHECK_DEADLOCK FALSE
