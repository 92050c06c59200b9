SPECIFICATION ElevatorSpec
CONSTANTS
  MaxThreads = 17
  TopPriority = 3
  WaitSlots = 1
  JoinCalls <- NoJoin
  TExiters <- Everybody
  EpilogueTicks = FALSE
  Locks <- NoLocks
  Conds <- TheConds
  NoLock = "NULL"
  MAX_FLOORS = 11
  MAX_RIDERS = 5
  Programs <- Tests
INVARIANTS ElevatorTypeOK RidersCounted Capacity RightFloor RankRespected
PROPERTIES EveryoneArrives
