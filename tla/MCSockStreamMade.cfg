CONSTANTS
  Delimiters <- MCDelimiters
  Counts = {1}
  kBufferSize = 2
  MaxBytes = 2
SPECIFICATION Spec
INVARIANTS
  ReturnedConnected
