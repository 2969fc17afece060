SPECIFICATION Spec
CONSTANTS
  Attributes = {"BODY.price", "HEAD.price", "day"}
  Literals = {"1", "2"}
  NumberOf <- Fractions
  Unit = 2
  Pool <- EightAtoms
  MaxVars = 4
  NegInfty = NegInfty
  PosInfty = PosInfty
  Numbers = {1, 2, 3, 4, 5}
  Minerules <- AllMinerules
  Requests <- AllRequests
  ItemAttributes = {"BODY.price", "HEAD.price"}
  AvoidDominanceDetection = FALSE
  AvoidEquivalenceDetection = FALSE
  AvoidCombinationDetection = FALSE
  MaxQueries = 3
  MaxDisjuncts = 2
  MaxEvaluations = 2
INVARIANTS
  Sound
CHECK_DEADLOCK FALSE
