SPECIFICATION FairSpec
CONSTANTS
  Actors = {a1}
  MaxFailures = 2
  MaxLosses = 2
  UnhaltCycles = 2
  DrawdownLimit = 15
  BreakerLimit = 25
  UnhaltLimit = 5
  InitialValue = 28
  Values = {22, 24, 26, 28}
  Marks <- DownwardMarks
  MaxRestarts = 1
  MaxRefusals = 2
INVARIANTS
  HaltIsDurable
PROPERTIES
  ImplementsEmergencyHalt
  WarmHaltIsLifted
  DrawdownHalts
  HaltIsSaved
