SPECIFICATION Spec
CONSTANTS
  Publishers = {p1, p2}
  Contents = {c1, c2}
  MaxAttempts = 3
  Families = {"attempt", "qualification"}
  Interruptions = 1
  PowerLosses = 0
  None = None
INVARIANT SuccessMeansSynced
