SPECIFICATION FairCallsSpec
CONSTANTS
  MaxThreads = 3
  TopPriority = 1
  WaitSlots = 1
  JoinCalls <- NoJoin
  TExiters = {}
  EpilogueTicks = TRUE
  MaxSems = 1
  InitValues = {0, 1}
  MaxVs = 2
INVARIANTS SemTypeOK PermitsConserved NoIdlePermit BlockedOnce
PROPERTIES HandoverArrives
