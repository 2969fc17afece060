SPECIFICATION Spec
CONSTANTS
  p1 = p1
  p2 = p2
  n1 = n1
  n2 = n2
  n3 = n3
  ta = ta
  tb = tb
  tc = tc
  td = td
  te = te
  Absent = Absent
  Empty = Empty
  Junk = Junk
  Procs = {p1}
  Names = {n1, n2}
  Texts = {ta, tc, td}
  Itemsets = {}
  Clustered = {}
  Equivalents <- Equivalence_ab
  Dominates <- Dominates_a
  Combines <- Combines_ac
  ItemDependent = {tc, td}
  TreeMined = {}
  Unconditional = {td}
  Overwrite = TRUE
  Cascade = FALSE
  TryOptimizations = TRUE
  CacheWrites = FALSE
  Commands = {"query", "delete", "derive"}
  Allowed <- AllNames
  Serial = TRUE
  Crashes = TRUE
  MaxQueries = 3
  MaxLists = 4
INVARIANTS
  Intact
  ListsPrivate
  IInv
PROPERTIES
  RefusesShared
CHECK_DEADLOCK FALSE
