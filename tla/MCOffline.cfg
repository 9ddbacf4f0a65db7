SPECIFICATION Spec
CONSTANTS
  MaxRecords = 2
  maxBuffers = 1
INVARIANT EachObjectIsTested
