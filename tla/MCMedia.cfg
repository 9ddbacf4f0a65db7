SPECIFICATION MediaSpec
CONSTANTS
  MAX_FILES = 4
  NumModules = 1
  Size = 13
  Lengths = {1, 3, 14}
  MaxPackets = 6
  MaxStored = 3
INVARIANTS TypeOK IdleBlockAccepts
PROPERTIES ImplementsDelivery FilesImplementDelivery
CHECK_DEADLOCK FALSE
