SPECIFICATION Spec
CONSTANTS
  Window = 3
  ClockError = 1
  MaxClock = 4
  None = None
  Strays <- MCStrays
INVARIANTS
  TypeOK
  ArmedInsideHostWindow
  ArmAgreement
PROPERTIES
  DeadlineOnlyTightens
CHECK_DEADLOCK FALSE
