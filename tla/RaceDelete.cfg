SPECIFICATION Spec
CONSTANTS
  p1 = p1
  p2 = p2
  n1 = n1
  n2 = n2
  n3 = n3
  ta = ta
  tb = tb
  tc = tc
  td = td
  te = te
  Absent = Absent
  Empty = Empty
  Junk = Junk
  Procs = {p1, p2}
  Names = {n1, n2}
  Texts = {ta}
  Itemsets = {}
  Clustered = {}
  Equivalents <- Equivalence_ab
  Dominates <- Dominates_a
  Combines <- Combines_ac
  ItemDependent = {}
  TreeMined = {}
  Unconditional = {}
  Overwrite = FALSE
  Cascade = FALSE
  TryOptimizations = TRUE
  CacheWrites = FALSE
  Commands = {"query", "delete"}
  Allowed <- OwnNames
  Serial = FALSE
  Crashes = FALSE
  MaxQueries = 3
  MaxLists = 6
PROPERTIES
  RefusesShared
CHECK_DEADLOCK FALSE
