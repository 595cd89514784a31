SPECIFICATION Spec
CONSTANTS
  Actors = {a1}
  MaxFailures = 2
  MaxLosses = 2
  UnhaltCycles = 2
  DrawdownLimit = 15
  BreakerLimit = 25
  UnhaltLimit = 5
  InitialValue = 10
  Values = {8, 10}
  Marks <- TwoWayMarks
  MaxRestarts = 1
  MaxRefusals = 2
PROPERTIES
  EveryCycleIsChecked
