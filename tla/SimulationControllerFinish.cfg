SPECIFICATION Spec
CONSTANTS
  WallClock = 1
  MaxTime = 1
  StreamLimit = 1
  DiagnosticLimit = 2
  DiagnosticSizes = {1}
  FailureFacts = 4
INVARIANT FinishAlwaysPublishes
CHECK_DEADLOCK FALSE
