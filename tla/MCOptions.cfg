SPECIFICATION ParserSpec
CONSTANTS
  MaxRecords = 3
  maxBuffers = 2
  Sources = {s1, s2}
  SetRecords = 2
  Paddings = {0, 2}
  MaxSets = 3
  filter_size = 2
  max_size = 3
  Thresholds = {2}
  MaxInterval = 3
  AddressBits = 2
  endPointListMaxSize = 2
  MaxSeen = 2
  MaxIntervals = 2
  MaxCount = 1
  noise_threshold_packets = 1
  noise_threshold_bytes = 1
  Factor = 1
  sample_old_size = 2
  sample_new_size = 2
  cusum_learning_phase = 2
  pca_learning_phase = 1
  MaxTests = 7
  IntWidth = 3
  Expected = 1
  Instances = {i1, i2}
  Nobody = Nobody
  MaxWritten = 2
  TotalLengths = {8, 20, 28, 39, 40, 100}
  SectionSizes = {8, 20, 60}
  PaddingBuffer = 32
  MaxJunk = 1
  MaxPackets = 2
PROPERTIES
  FixedLengthsStay
