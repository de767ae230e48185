CONSTANTS
  Threads = {main, worker}
  Main = main
  MaxLogSize = 2
  kMaxCount = 5
  MaxRecords = 1
  MaxFlushes = 1
  MaxRaces = 1
  MaxStarts = 1
SPECIFICATION Spec
INVARIANTS
  RecordsKept
  FlushesComplete
CHECK_DEADLOCK FALSE
