SPECIFICATION SideSpec
CONSTANTS
  Modules = {m1, m2}
  MaxPackets = 1
  MaxSignals = 2
  MaxEnds = 1
  Collectors = {c1, c2}
  FirstCollector = c1
  MaxProcesses = 2
  MaxEndings = 1
  MaxKills = 1
  ClockWidth = 2
  MaxRecorded = 2
  MaxTime = 3
  MaxLateness = 1
INVARIANTS
  CallbackOnlyWhileStarted
  NoModuleSurvives
  ConfiguredAsWritten
  AttachedToOwn
  OrderlyEndFrees
  EarlyOnlyIfCut
PROPERTIES
  SignalEndsRun
  StartsEnd
