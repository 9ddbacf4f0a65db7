SPECIFICATION Spec
CONSTANTS
  MAX_FILES = 3
  NumModules = 1
  Failures = {"write", "crash", "exit", "hang"}
  MaxPackets = 5
  MaxStored = 2
  MaxDeaths = 1
  WrapsAtOnce = FALSE
INVARIANTS TypeOK NoLostWakeup NotBusyMeansIdle
CHECK_DEADLOCK FALSE
