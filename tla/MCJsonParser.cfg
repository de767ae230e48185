CONSTANTS
  Keys = {"s", "t"}
  Words = {"v"}
  Starts <- MCStarts
  step = 3
  MaxMore = 5
SPECIFICATION Spec
INVARIANTS
  DocumentsParsed
  StringsDecoded
  SurrogatesMatched
  NumbersParsed
CHECK_DEADLOCK FALSE
