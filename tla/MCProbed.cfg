SPECIFICATION FairSpec
CONSTANTS
  Actors = {a1, a2, a3}
  MaxFailures = 1
  MaxLosses = 1
  UnhaltCycles = 1
  DrawdownLimit = 15
  BreakerLimit = 25
  UnhaltLimit = 5
  InitialValue = 10
  Values = {10}
  Marks <- NoMarks
  MaxRestarts = 0
  MaxRefusals = 0
PROPERTIES
  HaltedActorsAreProbed
