SPECIFICATION Spec
CONSTANTS
  Modules = {m1, m2}
  MaxPackets = 1
  MaxSignals = 1
  MaxEnds = 1
INVARIANT AllModulesKilled
CHECK_DEADLOCK FALSE
