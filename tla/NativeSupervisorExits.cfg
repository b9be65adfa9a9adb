SPECIFICATION FairSpec
CONSTANTS
  Query = 1
  Limits <- MCQuiet
  None = None
PROPERTIES
  SupervisorExits
CHECK_DEADLOCK FALSE
