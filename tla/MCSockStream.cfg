CONSTANTS
  Delimiters <- MCDelimiters
  Counts = {0, 1, 3, 9}
  kBufferSize = 2
  MaxBytes = 4
SPECIFICATION Spec
INVARIANTS
  BytesConserved
  OneFalseClaim
  AcceptThreadJoined
PROPERTIES
  ReadsReturn
  ImplementsSocketChannel
