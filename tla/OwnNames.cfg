SPECIFICATION Spec
CONSTANTS
  p1 = p1
  p2 = p2
  n1 = n1
  n2 = n2
  n3 = n3
  ta = ta
  tb = tb
  tc = tc
  td = td
  te = te
  Absent = Absent
  Empty = Empty
  Junk = Junk
  Procs = {p1, p2}
  Names = {n1, n2, n3}
  Texts = {ta}
  Itemsets = {}
  Clustered = {}
  Equivalents <- None
  Dominates <- Same
  Combines <- Combines_ac
  ItemDependent = {}
  TreeMined = {}
  Unconditional = {}
  Overwrite = TRUE
  Cascade = FALSE
  TryOptimizations = TRUE
  CacheWrites = TRUE
  Commands = {"query", "delete"}
  Allowed <- OwnNames
  Serial = FALSE
  Crashes = FALSE
  MaxQueries = 3
  MaxLists = 3
INVARIANTS
  TypeOK
  Intact
  ListsStored
CHECK_DEADLOCK FALSE
