SPECIFICATION FairBurgersSpec
CONSTANTS
  MaxThreads = 4
  TopPriority = 1
  WaitSlots = 1
  JoinCalls <- NoJoin
  TExiters = {}
  EpilogueTicks = FALSE
  MaxSems = 2
  Locks <- TheLock
  Conds <- NoCond
  NoLock = "NULL"
  N = 1
  M = 2
  X = 2
  LastId = 2
INVARIANTS BurgersTypeOK MutualExclusion StackHolds EatenOnce
PROPERTIES EveryoneEats
