SPECIFICATION BridgeSpec
CONSTANTS
  MaxThreads = 10
  TopPriority = 0
  WaitSlots = 1
  JoinCalls <- NoJoin
  TExiters = {}
  EpilogueTicks = FALSE
  Locks <- TheLock
  Conds <- TheCond
  NoLock = "NULL"
  Programs <- Three
INVARIANTS AloneInside
