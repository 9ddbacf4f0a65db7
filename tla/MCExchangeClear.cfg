SPECIFICATION SupervisedSpec
CONSTANTS
  MAX_FILES = 3
  NumModules = 1
  Failures = {"crash", "exit", "hang"}
  MaxPackets = 3
  MaxStored = 2
  MaxDeaths = 1
  WrapsAtOnce = TRUE
INVARIANT PopsWhatIsStored
CHECK_DEADLOCK FALSE
