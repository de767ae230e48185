CONSTANTS
  Dispatchers = {d, e}
  MaxId = 3
  MaxFrames = 2
  Buffers = {a, b}
  Mats = {m1, m2}
  Pictures = {"p", "x"}
  Raw = {"x"}
  Sizes = {1, 2}
  Contents = {"c", "d", "u"}
  Digested = {"c", "d"}
  Torn = Torn
  MaxChanges = 2
  Cap = 3
  Answer = 2
  MaxData = 8
  Gib2 = 2
  DirectML <- MCDirectML
  None = None
SPECIFICATION Spec
INVARIANTS
  CacheFresh
  TrustedMeansInstalled
  EncodingsInverse
  ArgumentsSurvive
  PicksBestGpu
PROPERTIES
  EachOnce
  FinishedMeansInstalled
  WriteReturns
CHECK_DEADLOCK FALSE
