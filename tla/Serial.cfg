SPECIFICATION FairSpec
CONSTANTS
  p1 = p1
  p2 = p2
  n1 = n1
  n2 = n2
  n3 = n3
  ta = ta
  tb = tb
  tc = tc
  td = td
  te = te
  Absent = Absent
  Empty = Empty
  Junk = Junk
  Procs = {p1}
  Names = {n1, n2, n3}
  Texts = {ta, tb, tc, td, te}
  Itemsets = {tb}
  Clustered = {ta}
  Equivalents <- Same
  Dominates <- Dominates_a
  Combines <- Combines_ac
  ItemDependent = {tc, te}
  TreeMined = {td}
  Unconditional = {}
  Overwrite = TRUE
  Cascade = TRUE
  TryOptimizations = TRUE
  CacheWrites = FALSE
  Commands = {"query", "delete", "derive"}
  Allowed <- AllNames
  Serial = TRUE
  Crashes = FALSE
  MaxQueries = 3
  MaxLists = 6
INVARIANTS
  Owned
PROPERTIES
  ResultsStable
  ImplementsStore
  Completes
CHECK_DEADLOCK FALSE
