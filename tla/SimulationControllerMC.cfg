SPECIFICATION Spec
CONSTANTS
  WallClock = 1
  MaxTime = 1
  StreamLimit = 1
  DiagnosticLimit = 2
  DiagnosticSizes = {1}
  FailureFacts = 2
INVARIANTS
  FailureHasEvidence
  ResponseMeansWholeProtocol
  OnlyOverflowIsUnpublishable
  FactBudget
PROPERTIES
  NoForwardIntentAfterFailure
  ImplementsAttempt
CONSTRAINT FewFaults
ACTION_CONSTRAINT SilentStderr
CHECK_DEADLOCK FALSE
