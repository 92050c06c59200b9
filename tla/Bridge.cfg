SPECIFICATION BridgeSpec
CONSTANTS
  MaxThreads = 38
  TopPriority = 0
  WaitSlots = 1
  JoinCalls <- NoJoin
  TExiters = {}
  EpilogueTicks = FALSE
  Locks <- TheLock
  Conds <- TheCond
  NoLock = "NULL"
  Programs <- Tests
INVARIANTS BridgeTypeOK OneDirection BridgeKnown WaitersKept
PROPERTIES TurnsTaken EveryoneCrosses
