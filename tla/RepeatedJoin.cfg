SPECIFICATION KernelSpec
CONSTANTS
  MaxThreads = 4
  TopPriority = 0
  WaitSlots = 3
  JoinCalls <- Repeated
  TExiters = {}
  EpilogueTicks = FALSE
INVARIANTS JoinMeansOver
