SPECIFICATION Spec
CONSTANTS
  TotalLengths = {8, 20, 40}
  SectionSizes = {8, 20}
  PaddingBuffer = 32
  MaxJunk = 1
  MaxPackets = 1
INVARIANT InclLenIsSaved
