SPECIFICATION Spec
CONSTANTS
  MaxRecords = 1
  maxBuffers = 1
PROPERTY StopStops
