CONSTANTS
  Statuses = {0, 11, 42}
  SigKill = 9
  StillActive = 383
  Grace = 2
  MaxTime = 3
SPECIFICATION Spec
INVARIANTS
  SuccessIsReal
  ReleaseReaps
  CleanExitKept
PROPERTIES
  KillsOnlyTheChild
  AnswerStable
  ReleaseReturns
CHECK_DEADLOCK FALSE
