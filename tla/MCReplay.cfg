SPECIFICATION Spec
CONSTANTS
  ClockWidth = 3
  MaxPackets = 2
  MaxTime = 4
  MaxLateness = 1
INVARIANT ReplayedInTime
CHECK_DEADLOCK FALSE
