SPECIFICATION Spec
CONSTANTS
  Actors = {a1, a2}
  MaxFailures = 1
  MaxLosses = 1
  UnhaltCycles = 2
  DrawdownLimit = 15
  BreakerLimit = 16
  UnhaltLimit = 5
  InitialValue = 10
  Values = {10, 12}
  Marks <- TwoWayMarks
  MaxRestarts = 1
  MaxRefusals = 0
SYMMETRY Symmetry
INVARIANTS
  TypeOK
  RecoveryIsEarned
  BreakerIsShadowed
PROPERTIES
  HaltFreezesTheBook
