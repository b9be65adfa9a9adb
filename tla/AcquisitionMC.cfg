SPECIFICATION Spec
CONSTANTS
  Body <- MCBody
  Limit = 4
  Prefix = 1
  Hops = 1
  Idle = 2
  Seconds = 3
  Batch = 5
  ClockBound = 6
  Interrupts = 2
  None = None
INVARIANTS CountedFilesAreWhole MatchedInTime RequestsAreJournaledOnce FirstFailureIsTold
CHECK_DEADLOCK FALSE
