SPECIFICATION FairSpec
CONSTANTS
  Drought = 0
  LockPeriods = 2
  Drifts = {"ok", "moderate", "worst"}
  Instabilities = {0, 25}
INVARIANT TypeOK
PROPERTIES
  HaltsLatch
  CleanAssetsGoGreen
