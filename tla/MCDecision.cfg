SPECIFICATION FairSpec
CONSTANTS
  MaxBars = 1
  MinFlip = 2
  CrossCooldown = 1
  Cooldown = 2
  Observe = 2
INVARIANT TypeOK
PROPERTIES
  OnlyRefusedFlipsReplace
  SameSideWaits
  SellOnlyNeverBuys
  DeferralsEnd
