SPECIFICATION Spec
CONSTANTS
  Threads = {t1}
  NoThread = none
  PoolSize = 2
  MaxAttempts = 2
  MaxDepth = 1
  MaxOrders = 1
  MaxFaults = 1
INVARIANT OrdersAreExecutedOnce
