SPECIFICATION HostSpec
CONSTANTS
  WallClock = 1
  MaxTime = 1
  StreamLimit = 1
  DiagnosticLimit = 2
  DiagnosticSizes = {1}
  FailureFacts = 1
INVARIANTS
  TypeOK
  IntentsAreOneShot
  WaitIsBackedByIntent
  DeadlineEndsForwardProtocol
  ConfirmedCleanupIsAnswered
PROPERTIES
  AttemptSettles
CHECK_DEADLOCK FALSE
