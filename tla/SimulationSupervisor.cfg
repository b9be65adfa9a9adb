SPECIFICATION Spec
CONSTANTS
  Window = 2
  ClockError = 0
  MaxTime = 2
  None = None
INVARIANTS
  TypeOK
  ClonedChildIsStopped
  ActionsAreOneShot
  CompletionMeansWholeAttempt
  DeadlineIsTheOffer
  CleanupOnTime
PROPERTY ImplementsAttempt
CHECK_DEADLOCK FALSE
