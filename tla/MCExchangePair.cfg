SPECIFICATION FairSpec
CONSTANTS
  MAX_FILES = 3
  NumModules = 2
  Failures = {"write"}
  MaxPackets = 4
  MaxStored = 2
  MaxDeaths = 0
  WrapsAtOnce = TRUE
INVARIANT NoMissingFile
PROPERTIES ParsedInOrder EveryPacketLeaves
CHECK_DEADLOCK FALSE
