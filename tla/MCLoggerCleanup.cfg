CONSTANTS
  Threads = {main, worker}
  Main = main
  MaxLogSize = 2
  kMaxCount = 5
  MaxRecords = 1
  MaxFlushes = 0
  MaxRaces = 0
  MaxStarts = 1
SPECIFICATION Spec
INVARIANTS
  OnlyOldRemoved
CHECK_DEADLOCK FALSE
