SPECIFICATION KernelSpec
CONSTANTS
  MaxThreads = 3
  TopPriority = 0
  WaitSlots = 1
  JoinCalls <- NoJoin
  TExiters = {}
  EpilogueTicks = FALSE
PROPERTIES OwnFunction
