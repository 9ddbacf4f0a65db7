SPECIFICATION Spec
CONSTANTS
  MAX_FILES = 3
  NumModules = 2
  Failures = {}
  MaxPackets = 2
  MaxStored = 2
  MaxDeaths = 0
  WrapsAtOnce = TRUE
INVARIANT ParsedBeforeDeleted
CHECK_DEADLOCK FALSE
