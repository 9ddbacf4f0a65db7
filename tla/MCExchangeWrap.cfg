SPECIFICATION Spec
CONSTANTS
  MAX_FILES = 3
  NumModules = 1
  Failures = {}
  MaxPackets = 3
  MaxStored = 2
  MaxDeaths = 0
  WrapsAtOnce = FALSE
INVARIANT AnnouncedEndInRange
CHECK_DEADLOCK FALSE
