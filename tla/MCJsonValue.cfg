CONSTANTS
  Vars = {a, b}
  Keys = {"s", "t"}
  Leaves <- MCLeaves
  NoData = NoData
  Wild = Wild
  Types <- MCTypes
  Reads <- MCReads
  Writes <- MCWrites
  Lower <- MCLower
  MaxSize = 2
  MaxDepth = 2
  MaxSteps = 4
SYMMETRY MCSymmetry
SPECIFICATION Spec
INVARIANTS
  WholeUnlessSpoiled
  DumpParses
  ConversionsAgree
  RoundTrips
PROPERTIES
  FailureLosesNothing
CHECK_DEADLOCK FALSE
