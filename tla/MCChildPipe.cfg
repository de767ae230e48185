CONSTANTS
  Bytes <- MCBytes
  Child = "child"
  Descendants <- MCDescendants
  PipeCap = 2
  MaxWritten = 4
  BufSize = 2
  SizeMax <- MCSizeMax
  IntMax = 2
  DurationMax <- MCDurationMax
  TicksPerMs = 2
  MaxDelay = 1
  Counts <- MCCounts
  Delimiters <- MCDelimiters
  Timeouts <- MCTimeouts
SPECIFICATION Spec
INVARIANTS
  BytesConserved
  EofMeansComplete
  DeadlineKept
  NeverOverreads
PROPERTIES
  ReadsReturn
  ImplementsByteChannel
