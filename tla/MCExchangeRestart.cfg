SPECIFICATION SupervisedSpec
CONSTANTS
  MAX_FILES = 3
  NumModules = 2
  Failures = {"crash", "hang"}
  MaxPackets = 1
  MaxStored = 1
  MaxDeaths = 2
  WrapsAtOnce = TRUE
PROPERTY CrashedIsRestarted
CHECK_DEADLOCK FALSE
