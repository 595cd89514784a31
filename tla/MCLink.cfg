SPECIFICATION FairSpec
CONSTANTS
  Threads = {t1, t2}
  NoThread = none
  PoolSize = 2
  MaxAttempts = 2
  MaxDepth = 1
  MaxOrders = 1
  MaxFaults = 1
INVARIANTS
  TypeOK
PROPERTIES
  ImplementsOrderFate
  SocketsAreNotTornAway
  TheLineIsFreed
  LinkRecovers
