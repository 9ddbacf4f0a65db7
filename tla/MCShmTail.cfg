SPECIFICATION Spec
CONSTANTS
  MAX_FILES = 5
  NumModules = 1
  Size = 14
  Lengths = {1, 5}
  MaxPackets = 7
  MaxStored = 4
INVARIANT UnreadSurvives
CHECK_DEADLOCK FALSE
