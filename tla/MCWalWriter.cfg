SPECIFICATION Spec
CONSTANTS
  Writers = {w1, w2}
  Main = main
  BatchSize = 2
  MaxEvents = 4
  MaxFaults = 1
  MaxCrashes = 1
SYMMETRY Symmetry
CHECK_DEADLOCK FALSE
INVARIANTS
  TypeOK
  NothingDropped
  SoloNumbersNameOneEvent
PROPERTIES
  ImplementsEventLog
