SPECIFICATION Spec
CONSTANTS
  Gains <- MCGains
  Targets = {3, 5}
  Risk = 2
  None = None
INVARIANTS
  TypeOK
  FractionsAddUp
  BrokerIsNotLooser
PROPERTIES
  StopNeverLoosens
  LockedWinnersKeep
