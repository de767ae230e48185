CONSTANTS
  Keys = {"s", "t"}
  Words = {"v"}
  Starts <- MCStarts
  step = 3
  MaxMore = 3
SPECIFICATION Spec
INVARIANTS
  NothingBehind
CHECK_DEADLOCK FALSE
