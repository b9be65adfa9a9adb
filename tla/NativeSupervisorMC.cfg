SPECIFICATION Spec
CONSTANTS
  Query = 1
  Limits <- MCLimits
  None = None
INVARIANTS
  TypeOK
  FinalIsEarned
  FailureKillsChild
PROPERTIES
  NoSpuriousFailure
  ImplementsAttempt
CHECK_DEADLOCK FALSE
