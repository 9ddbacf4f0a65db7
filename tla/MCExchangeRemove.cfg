SPECIFICATION SupervisedSpec
CONSTANTS
  MAX_FILES = 3
  NumModules = 2
  Failures = {"crash", "exit", "hang"}
  MaxPackets = 2
  MaxStored = 2
  MaxDeaths = 1
  WrapsAtOnce = TRUE
PROPERTY RemoveIsFinal
CHECK_DEADLOCK FALSE
