SPECIFICATION FairSpec
CONSTANTS
  Commands <- MCCommands
  Helpers = {h1, h2}
  Units = {u1, u2}
  Probe = probe
  ArgvRecords = 3
  None = None
INVARIANTS
  SignalsArePinned
  ManifestStandsForRecords
PROPERTY BuildEnds
CHECK_DEADLOCK FALSE
