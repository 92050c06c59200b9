SPECIFICATION FairKernelSpec
CONSTANTS
  MaxThreads = 3
  TopPriority = 1
  WaitSlots = 2
  JoinCalls <- Chain
  TExiters = {3}
  EpilogueTicks = FALSE
INVARIANTS TypeOK CountsMatchQueues OnePlace RunningIsHighest PriorityInv JoinMeansOver NoOrphanJoiner AllGoneAtReturn
PROPERTIES LateJoinReturns KeepsPromise RoundRobin
