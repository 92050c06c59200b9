SPECIFICATION CallsSpec
CONSTANTS
  MaxThreads = 3
  TopPriority = 1
  WaitSlots = 1
  JoinCalls <- NoJoin
  TExiters = {}
  EpilogueTicks = FALSE
  MaxSems = 1
  InitValues = {0}
  MaxVs = 1
PROPERTIES DispatchesHighest
