----------------------------- MODULE CallProofs -----------------------------
(***************************************************************************)
(* Theorems about semaphores in the hands of arbitrary threads, for every  *)
(* number of threads, priorities and semaphores and every count they are   *)
(* created with, where no thread joins twice.                              *)
(***************************************************************************)
EXTENDS SemaphoreCalls, SemaphoreProofs

HistoryTyped ==
  /\ initial \in [SemIDs -> InitValues \cup {0}]
  /\ givenVs \in [SemIDs -> 0 .. MaxVs]
  /\ passedPs \in [SemIDs -> Nat]
  /\ owed \in [Threads -> SemIDs \cup {0}]

\* A thread that was handed a permit has been in Semaphore_P and is on its way
\* back to it, through the ready queues.
OwedUnderWay ==
  \A t \in Threads : owed[t] # 0 =>
    /\ context[t] # "none"
    /\ Queued(t) \/ (t = currentRunningThread /\ cpu = "resume")

\* Nothing was counted for a semaphore that has not been created.
FreshHistory ==
  \A s \in SemIDs : s > semaphoreID =>
    /\ initial[s] = 0 /\ givenVs[s] = 0 /\ passedPs[s] = 0
    /\ \A t \in Threads : owed[t] # s

\* Whoever is blocked in Semaphore_P is in the queue of a semaphore.
AllListed == \A t \in Threads : Blocked(t) => \E s \in SemIDs : InSemQueue(s, t)

\* The inductive invariant.
CallInv ==
  /\ JoinInv /\ SemInv
  /\ HistoryTyped /\ OwedUnderWay /\ FreshHistory
  /\ PermitsConserved
  /\ AllListed

-----------------------------------------------------------------------------
(* A ready thread that has been dispatched before. *)

LEMMA ReadyGoesOn ==
  ASSUME JoinInv, [KernelNext]_kernelVars, NEW t \in Threads,
         context[t] # "none", Queued(t)
  PROVE  /\ context'[t] # "none"
         /\ Queued(t)' \/ (t = currentRunningThread' /\ cpu' = "resume")
  <1> DEFINE me == currentRunningThread
  <1>t. /\ TypeOK /\ PlaceInv /\ pQueue \in Queues /\ priority \in [Threads -> Levels]
        /\ Queued(t) <=> InQueues(pQueue, t)
        /\ Queued(t)' <=> InQueues(pQueue', t)
        /\ ~OnProcessor(t) /\ flag[t] = 0
        /\ cpu = "thread" => me \in Threads /\ t # me
    <2>1. TypeOK /\ PlaceInv
      BY DEF JoinInv
    <2>2. /\ Queued(t) <=> InQueues(pQueue, t)
          /\ Queued(t)' <=> InQueues(pQueue', t)
      BY DEF Queued, InQueues
    <2> QED
      BY <2>1, <2>2, PlaceTypes DEF PlaceInv, ReadyOnly, StartedOnce
  <1>1. ASSUME NEW p \in Levels, t_start(p) \/ t_fork(p)
        PROVE  Queued(t)' /\ context'[t] # "none"
    <2> DEFINE new == gThreadID + 1
               q   == Insert(pQueue, new, p)
               n   == CountUp(threadLevelCount, p)
    <2>1. NewTcb(p) /\ UNCHANGED currentRunningThread
      BY <1>1 DEF t_start, t_fork
    <2>2. q \in Queues /\ InQueues(q, t)
      BY <1>t, <2>1, NewPlace
    <2>3. \/ pQueue' = q /\ UNCHANGED context
          \/ cpu = "thread" /\ Requeue(q, n, "t_yield")
      BY <1>1 DEF t_start, t_fork, InBody
    <2> HIDE DEF q, n, new
    <2> QED
      BY <1>t, <2>1, <2>2, <2>3, RequeueLeaves
  <1>2. CASE t_yield \/ timerHandler
    <2>1. /\ cpu = "thread"
          /\ \E where \in Contexts : Requeue(pQueue, threadLevelCount, where)
          /\ UNCHANGED currentRunningThread
      BY <1>2 DEF t_yield, timerHandler, InBody, Contexts, ResumeByEnabling
    <2> QED
      BY <1>t, <2>1, RequeueLeaves
  <1>3. ASSUME NEW u \in Threads, t_join(u)
        PROVE  Queued(t)' /\ context'[t] # "none"
    <2>1. /\ UNCHANGED pQueue /\ cpu = "thread"
          /\ UNCHANGED context \/ context' = [context EXCEPT ![me] = "t_join"]
      BY <1>3 DEF t_join, readyVars, Park, InBody
    <2> QED
      BY <1>t, <2>1 DEF TypeOK
  <1>4. CASE wakeSlot
    <2> DEFINE w == tcbWaiting[scan[me]]
    <2>1. /\ UNCHANGED context /\ InWake /\ scan[me] < WaitSlots
          /\ \/ UNCHANGED pQueue
             \/ /\ WaitsFor(w, me)
                /\ pQueue' = Insert(pQueue, w, priority[w])
      BY <1>4 DEF wakeSlot, readyVars
    <2>2. CASE WaitsFor(w, me) /\ pQueue' = Insert(pQueue, w, priority[w])
      <3>1. w \in Threads
        <4>1. scan[me] \in Slots
          BY <1>t, <2>1, KernelAssumption DEF TypeOK, InWake, Slots
        <4> QED
          BY <1>t, <2>2, <4>1 DEF TypeOK, WaitsFor
      <3> QED
        BY <1>t, <2>1, <2>2, <3>1, InsertPlaces
    <2> QED
      BY <1>t, <2>1, <2>2
  <1>5. ASSUME NEW y \in Levels, dispatch(y)
        PROVE  /\ context'[t] # "none"
               /\ Queued(t)' \/ (t = currentRunningThread' /\ cpu' = "resume")
    <2>1. /\ UNCHANGED context
          /\ pQueue[y] # <<>> /\ pQueue' = Removed(pQueue, y)
          /\ currentRunningThread' = Head(pQueue[y])
          /\ flag[Head(pQueue[y])] = 1 \/ cpu' = "resume"
      BY <1>5 DEF dispatch
    <2>2. Queued(t)' <=> Queued(t) /\ t # Head(pQueue[y])
      BY <1>t, <2>1, RemovedPlaces DEF PlaceInv
    <2> QED
      BY <1>t, <2>1, <2>2
  <1>6. CASE \/ t_exit \/ retire \/ userFunctionReturns
             \/ schedulerReturns \/ resume \/ callUserFunction \/ halted
             \/ UNCHANGED kernelVars
    <2>1. UNCHANGED <<pQueue, context>>
      BY <1>6 DEF t_exit, retire, userFunctionReturns, schedulerReturns, resume,
                  callUserFunction, halted, kernelVars, readyVars
    <2> QED
      BY <1>t, <2>1
  <1> QED
    BY <1>1, <1>2, <1>3, <1>4, <1>5, <1>6
    DEF KernelNext, schedulerStep, epilogueStep

-----------------------------------------------------------------------------
(* The calls. *)

LEMMA HandedFinite ==
  \A s \in SemIDs : IsFiniteSet(Handed(s)) /\ Cardinality(Handed(s)) \in Nat
  <1>1. IsFiniteSet(Threads)
    BY KernelAssumption, FS_Interval DEF Threads
  <1>2. \A s \in SemIDs : Handed(s) \subseteq Threads
    BY DEF Handed
  <1> QED
    BY <1>1, <1>2, FS_Subset, FS_CardinalityType

\* A thread is owed nothing while it is blocked or calls the library.
LEMMA OwedNothing ==
  ASSUME CallInv, NEW t \in Threads,
         Parked(t) \/ (t = currentRunningThread /\ InBody)
  PROVE  owed[t] = 0
  <1>1. CASE Parked(t)
    <2>1. ~Queued(t) /\ ~OnProcessor(t)
      BY <1>1 DEF Parked
    <2> QED
      BY <2>1 DEF CallInv, OwedUnderWay, OnProcessor
  <1>2. CASE t = currentRunningThread /\ InBody
    <2>1. ~Queued(t) /\ cpu # "resume"
      BY <1>2, Caller DEF CallInv, InBody
    <2> QED
      BY <2>1 DEF CallInv, OwedUnderWay
  <1> QED
    BY <1>1, <1>2

\* The account of one semaphore.
LEMMA Account ==
  ASSUME CallInv, NEW s \in SemIDs
  PROVE  /\ semValue[s] \in Int /\ passedPs[s] \in Int
         /\ initial[s] \in Int /\ givenVs[s] \in Int
         /\ Cardinality(Handed(s)) \in Int
         /\ semValue[s] = initial[s] + givenVs[s] - passedPs[s]
                            - Cardinality(Handed(s))
  <1>1. semValue[s] \in Int /\ passedPs[s] \in Int /\ givenVs[s] \in Int
    BY CallsAssumption DEF CallInv, SemInv, SemsTyped, HistoryTyped
  <1>2. initial[s] \in Int
    <2>1. initial[s] \in InitValues \cup {0}
      BY DEF CallInv, HistoryTyped
    <2>2. \A v \in InitValues : v \in Nat
      BY CallsAssumption
    <2> QED
      BY <2>1, <2>2
  <1>3. Cardinality(Handed(s)) \in Nat
    BY HandedFinite
  <1>4. Cardinality(Handed(s)) \in Int
    BY <1>3
  <1> QED
    BY <1>1, <1>2, <1>4 DEF CallInv, PermitsConserved

LEMMA CallInit == CallsInit => CallInv
  <1> SUFFICES ASSUME CallsInit PROVE CallInv
    OBVIOUS
  <1>1. JoinInv /\ SemInv
    BY JoinInit, SemInvInit DEF CallsInit
  <1>2. /\ \A s \in SemIDs : /\ semValue[s] = 0 /\ initial[s] = 0
                             /\ givenVs[s] = 0 /\ passedPs[s] = 0
        /\ \A t \in Threads : owed[t] = 0 /\ context[t] = "none"
    BY DEF CallsInit, SemInit, KernelInit
  <1>3. HistoryTyped
    BY CallsAssumption DEF CallsInit, HistoryTyped
  <1>4. OwedUnderWay /\ FreshHistory /\ AllListed
    BY <1>2 DEF OwedUnderWay, FreshHistory, AllListed, Blocked, SemIDs
  <1>5. PermitsConserved
    <2>1. \A s \in SemIDs : Handed(s) = {}
      BY <1>2 DEF Handed, SemIDs
    <2> QED
      BY <1>2, <2>1, FS_EmptySet DEF PermitsConserved
  <1> QED
    BY <1>1, <1>3, <1>4, <1>5 DEF CallInv

LEMMA CreatesKeeps ==
  ASSUME CallInv, NEW v \in InitValues, Creates(v)
  PROVE  CallInv'
  <1> DEFINE new == semaphoreID + 1
  <1>1. v \in Nat /\ semaphore_create(v)
    BY CallsAssumption DEF Creates
  <1>2. /\ SemInv'
        /\ \A t \in Threads : /\ Parked(t)' <=> Parked(t)
                              /\ Queued(t)' <=> Queued(t)
        /\ UNCHANGED <<semQueue, context>>
    BY <1>1, CreateKeeps DEF CallInv
  <1>3. /\ UNCHANGED <<joinVars, exitVars, currentRunningThread, cpu>>
        /\ semaphoreID' = new /\ new \in SemIDs /\ semaphoreID \in Nat
        /\ semValue' = [semValue EXCEPT ![new] = v]
        /\ initial' = [initial EXCEPT ![new] = v]
        /\ UNCHANGED <<givenVs, passedPs, owed>>
    BY SemsAssumption
    DEF Creates, semaphore_create, CallInv, SemInv, SemsTyped, SemIDs
  <1>4. JoinInv'
    <2>1. TypeOK' /\ PlaceInv'
      BY <1>2 DEF SemInv
    <2>2. \A t \in Threads : Joining(t) => Joining(t)'
      BY <1>2 DEF Joining
    <2> QED
      BY <1>3, <2>1, <2>2, TableQuiet DEF CallInv
  <1>5. HistoryTyped'
    BY <1>3 DEF CallInv, HistoryTyped
  <1>6. OwedUnderWay'
    BY <1>2, <1>3 DEF CallInv, OwedUnderWay
  <1>7. FreshHistory'
    BY <1>3 DEF CallInv, FreshHistory, HistoryTyped, SemIDs
  <1>8. PermitsConserved'
    <2>1. \A s \in SemIDs : Handed(s)' = Handed(s)
      BY <1>3 DEF Handed
    <2>2. Handed(new) = {} /\ givenVs[new] = 0 /\ passedPs[new] = 0
      BY <1>3 DEF Handed, CallInv, FreshHistory, SemIDs
    <2>3. Cardinality(Handed(new)) = 0
      BY <2>2, FS_EmptySet
    <2>4. \A s \in SemIDs : s = new => s > semaphoreID
      BY <1>3
    <2>5. semValue'[new] = v /\ initial'[new] = v
      BY <1>3 DEF CallInv, SemInv, SemsTyped, HistoryTyped
    <2> QED
      BY <1>1, <1>3, <2>1, <2>2, <2>3, <2>5
      DEF CallInv, PermitsConserved, SemInv, SemsTyped, HistoryTyped
  <1>9. AllListed'
    BY <1>2 DEF CallInv, AllListed, Blocked, InSemQueue
  <1> QED
    BY <1>2, <1>4, <1>5, <1>6, <1>7, <1>8, <1>9 DEF CallInv

LEMMA DestroysKeeps ==
  ASSUME CallInv, NEW s \in SemIDs, Destroys(s)
  PROVE  CallInv'
  <1>1. /\ SemInv'
        /\ \A t \in Threads : /\ Parked(t)' <=> Parked(t)
                              /\ Queued(t)' <=> Queued(t)
        /\ UNCHANGED <<semQueue, context>>
    BY DestroyKeeps DEF CallInv, Destroys
  <1>2. UNCHANGED <<joinVars, exitVars, currentRunningThread, cpu, semaphoreID,
                    semValue, initial, givenVs, passedPs, owed>>
    BY DEF Destroys, Semaphore_destroy, historyVars
  <1>3. JoinInv'
    <2>1. TypeOK' /\ PlaceInv'
      BY <1>1 DEF SemInv
    <2>2. \A t \in Threads : Joining(t) => Joining(t)'
      BY <1>1 DEF Joining
    <2> QED
      BY <1>2, <2>1, <2>2, TableQuiet DEF CallInv
  <1>4. HistoryTyped' /\ OwedUnderWay' /\ FreshHistory'
    BY <1>1, <1>2 DEF CallInv, HistoryTyped, OwedUnderWay, FreshHistory
  <1>5. PermitsConserved'
    <2>1. \A s_1 \in SemIDs : Handed(s_1)' = Handed(s_1)
      BY <1>2 DEF Handed
    <2> QED
      BY <1>2, <2>1 DEF CallInv, PermitsConserved
  <1>6. AllListed'
    BY <1>1 DEF CallInv, AllListed, Blocked, InSemQueue
  <1> QED
    BY <1>1, <1>3, <1>4, <1>5, <1>6 DEF CallInv

LEMMA TakesKeeps ==
  ASSUME CallInv, NEW s \in SemIDs, Takes(s)
  PROVE  CallInv'
  <1>1. /\ Semaphore_P(s) /\ InBody /\ s <= semaphoreID
        /\ passedPs' = [passedPs EXCEPT ![s] = IF cpu' = "thread" THEN @ + 1 ELSE @]
        /\ UNCHANGED <<initial, givenVs, owed, joinVars, exitVars, semaphoreID,
                       currentRunningThread>>
    BY DEF Takes, Semaphore_P, Usable
  <1>2. \A t \in Threads : owed[t] # 0 => Queued(t)
    BY <1>1 DEF CallInv, OwedUnderWay, InBody
  <1>3. \A r \in SemIDs : Handed(r)' = Handed(r)
    BY <1>1 DEF Handed
  <1>4. s \in Int /\ semaphoreID \in Int
    BY SemsAssumption DEF SemIDs, CallInv, SemInv, SemsTyped
  <1>5. CASE MayPass(s)
    <2>1. /\ SemInv'
          /\ \A t \in Threads : /\ Parked(t)' <=> Parked(t)
                                /\ Queued(t)' <=> Queued(t)
          /\ semValue' = [semValue EXCEPT ![s] = @ - 1]
          /\ cpu' = "thread"
          /\ UNCHANGED <<semQueue, context>>
      BY <1>1, <1>5, PassKeeps DEF CallInv
    <2>2. passedPs' = [passedPs EXCEPT ![s] = @ + 1]
      BY <1>1, <2>1
    <2>3. JoinInv'
      <3>1. TypeOK' /\ PlaceInv'
        BY <2>1 DEF SemInv
      <3>2. \A t \in Threads : Joining(t) => Joining(t)'
        BY <2>1 DEF Joining
      <3> QED
        BY <1>1, <3>1, <3>2, TableQuiet DEF CallInv
    <2>4. HistoryTyped'
      BY <1>1, <2>2 DEF CallInv, HistoryTyped
    <2>5. FreshHistory'
      BY <1>1, <1>4, <2>2 DEF CallInv, HistoryTyped, FreshHistory
    <2>6. OwedUnderWay'
      BY <1>1, <1>2, <2>1 DEF CallInv, OwedUnderWay
    <2>7. PermitsConserved'
      <3> SUFFICES ASSUME NEW r \in SemIDs
                   PROVE  semValue'[r] = initial'[r] + givenVs'[r] - passedPs'[r]
                                           - Cardinality(Handed(r)')
        BY DEF PermitsConserved
      <3>1. /\ semValue'[r] = IF r = s THEN semValue[r] - 1 ELSE semValue[r]
            /\ passedPs'[r] = IF r = s THEN passedPs[r] + 1 ELSE passedPs[r]
        BY <2>1, <2>2 DEF CallInv, SemInv, SemsTyped, HistoryTyped
      <3>2. /\ semValue[r] = initial[r] + givenVs[r] - passedPs[r]
                              - Cardinality(Handed(r))
            /\ semValue[r] \in Int /\ passedPs[r] \in Int
            /\ initial[r] \in Int /\ givenVs[r] \in Int
            /\ Cardinality(Handed(r)) \in Int
        BY Account
      <3>3. /\ initial'[r] = initial[r] /\ givenVs'[r] = givenVs[r]
            /\ Handed(r)' = Handed(r)
        BY <1>1, <1>3
      <3>4. CASE r # s
        BY <3>1, <3>2, <3>3, <3>4
      <3>5. CASE r = s
        <4>1. semValue[r] - 1 = initial[r] + givenVs[r] - (passedPs[r] + 1)
                                  - Cardinality(Handed(r))
          BY <3>2
        <4> QED
          BY <3>1, <3>3, <3>5, <4>1
      <3> QED
        BY <3>4, <3>5
    <2>8. AllListed'
      BY <2>1 DEF CallInv, AllListed, Blocked, InSemQueue
    <2> QED
      BY <2>1, <2>3, <2>4, <2>5, <2>6, <2>7, <2>8 DEF CallInv
  <1>6. CASE ~MayPass(s)
    <2>1. /\ SemInv'
          /\ \A t \in Threads :
               /\ t = currentRunningThread => Blocked(t)'
               /\ t # currentRunningThread => /\ Parked(t)' <=> Parked(t)
                                              /\ context'[t] = context[t]
               /\ Queued(t)' <=> Queued(t)
               /\ \A r \in SemIDs :
                    InSemQueue(r, t)' <=>
                      InSemQueue(r, t) \/ (r = s /\ t = currentRunningThread)
          /\ cpu' = "scheduler"
          /\ UNCHANGED semValue
      BY <1>1, <1>6, BlockKeeps DEF CallInv
    <2>2. passedPs' = passedPs
      BY <1>1, <2>1 DEF CallInv, HistoryTyped
    <2>3. JoinInv'
      <3>1. TypeOK' /\ PlaceInv'
        BY <2>1 DEF SemInv
      <3>2. \A t \in Threads : Joining(t) => Joining(t)'
        BY <1>1, <2>1, Caller DEF Joining, CallInv
      <3> QED
        BY <1>1, <3>1, <3>2, TableQuiet DEF CallInv
    <2>4. HistoryTyped' /\ FreshHistory'
      BY <1>1, <2>2 DEF CallInv, HistoryTyped, FreshHistory
    <2>5. OwedUnderWay'
      <3>1. \A t \in Threads : Queued(t) => t # currentRunningThread
        BY <1>1, Caller DEF CallInv
      <3> QED
        BY <1>1, <1>2, <2>1, <3>1 DEF CallInv, OwedUnderWay
    <2>6. PermitsConserved'
      BY <1>1, <1>3, <2>1, <2>2 DEF CallInv, PermitsConserved
    <2>7. AllListed'
      <3> SUFFICES ASSUME NEW t \in Threads, Blocked(t)'
                   PROVE  \E r \in SemIDs : InSemQueue(r, t)'
        BY DEF AllListed
      <3>1. t # currentRunningThread => Blocked(t)
        BY <2>1 DEF Blocked
      <3> QED
        BY <2>1, <3>1 DEF CallInv, AllListed
    <2> QED
      BY <2>1, <2>3, <2>4, <2>5, <2>6, <2>7 DEF CallInv
  <1> QED
    BY <1>5, <1>6

LEMMA GivesKeeps ==
  ASSUME CallInv, NEW s \in SemIDs, Gives(s)
  PROVE  CallInv'
  <1>1. /\ Semaphore_V(s) /\ InBody /\ s <= semaphoreID
        /\ givenVs[s] < MaxVs
        /\ givenVs' = [givenVs EXCEPT ![s] = @ + 1]
        /\ owed' = [t \in Threads |->
                      IF semQueue[s] # <<>> /\ t = Head(semQueue[s]) THEN s ELSE owed[t]]
        /\ UNCHANGED <<initial, passedPs, joinVars, exitVars, semaphoreID,
                       currentRunningThread, cpu>>
    BY DEF Gives, Semaphore_V, Usable
  <1>2. \A t \in Threads : owed[t] # 0 => Queued(t)
    BY <1>1 DEF CallInv, OwedUnderWay, InBody
  <1>3. /\ s \in Int /\ s # 0 /\ semaphoreID \in Int /\ MaxVs \in Nat
        /\ givenVs[s] + 1 \in 0 .. MaxVs
    BY <1>1, SemsAssumption, CallsAssumption
    DEF SemIDs, CallInv, SemInv, SemsTyped, HistoryTyped
  <1>4. HistoryTyped'
    BY <1>1, <1>3 DEF CallInv, HistoryTyped
  <1>5. FreshHistory'
    BY <1>1, <1>3 DEF CallInv, HistoryTyped, FreshHistory
  <1>6. ASSUME NEW r \in SemIDs
        PROVE  /\ initial'[r] = initial[r] /\ passedPs'[r] = passedPs[r]
               /\ givenVs'[r] = IF r = s THEN givenVs[r] + 1 ELSE givenVs[r]
    BY <1>1 DEF CallInv, HistoryTyped
  <1>7. CASE semQueue[s] # <<>>
    <2> DEFINE w == Head(semQueue[s])
    <2>1. /\ SemInv'
          /\ w \in Threads /\ Blocked(w)
          /\ \A t \in Threads :
               /\ Parked(t)' <=> Parked(t) /\ t # w
               /\ Queued(t)' <=> Queued(t) \/ t = w
               /\ \A r \in SemIDs :
                    InSemQueue(r, t)' <=> InSemQueue(r, t) /\ t # w
          /\ UNCHANGED <<semValue, context>>
      BY <1>1, <1>7, HandKeeps DEF CallInv
    <2>2. /\ \A t \in Threads : owed'[t] = IF t = w THEN s ELSE owed[t]
          /\ owed[w] = 0
          /\ context[w] = "Semaphore_P"
      BY <1>1, <1>7, <2>1, OwedNothing DEF Blocked
    <2> HIDE DEF w
    <2>3. JoinInv'
      <3>1. TypeOK' /\ PlaceInv'
        BY <2>1 DEF SemInv
      <3>2. \A t \in Threads : Joining(t) => Joining(t)'
        BY <2>1, <2>2 DEF Joining
      <3> QED
        BY <1>1, <3>1, <3>2, TableQuiet DEF CallInv
    <2>4. OwedUnderWay'
      BY <1>1, <1>2, <2>1, <2>2 DEF CallInv, OwedUnderWay
    <2>5. PermitsConserved'
      <3> SUFFICES ASSUME NEW r \in SemIDs
                   PROVE  semValue'[r] = initial'[r] + givenVs'[r] - passedPs'[r]
                                           - Cardinality(Handed(r)')
        BY DEF PermitsConserved
      <3>1. CASE r = s
        <4>1. Handed(r)' = Handed(r) \cup {w} /\ w \notin Handed(r)
          BY <1>3, <2>1, <2>2, <3>1 DEF Handed
        <4>2. Cardinality(Handed(r)') = Cardinality(Handed(r)) + 1
          BY <4>1, HandedFinite, FS_AddElement
        <4> QED
          BY <1>6, <2>1, <3>1, <4>2, Account
      <3>2. CASE r # s
        <4>1. Handed(r)' = Handed(r)
          BY <2>1, <2>2, <3>2 DEF Handed, SemIDs
        <4> QED
          BY <1>6, <2>1, <3>2, <4>1, Account
      <3> QED
        BY <3>1, <3>2
    <2>6. AllListed'
      BY <2>1 DEF CallInv, AllListed, Blocked
    <2> QED
      BY <1>4, <1>5, <2>1, <2>3, <2>4, <2>5, <2>6 DEF CallInv
  <1>8. CASE semQueue[s] = <<>>
    <2>1. /\ SemInv'
          /\ \A t \in Threads : /\ Parked(t)' <=> Parked(t)
                                /\ Queued(t)' <=> Queued(t)
          /\ semValue' = [semValue EXCEPT ![s] = @ + 1]
          /\ UNCHANGED <<semQueue, context>>
      BY <1>1, <1>8, RaiseKeeps DEF CallInv
    <2>2. \A t \in Threads : owed'[t] = owed[t]
      BY <1>1, <1>8
    <2>3. JoinInv'
      <3>1. TypeOK' /\ PlaceInv'
        BY <2>1 DEF SemInv
      <3>2. \A t \in Threads : Joining(t) => Joining(t)'
        BY <2>1 DEF Joining
      <3> QED
        BY <1>1, <3>1, <3>2, TableQuiet DEF CallInv
    <2>4. OwedUnderWay'
      BY <1>1, <1>2, <2>1, <2>2 DEF CallInv, OwedUnderWay
    <2>5. PermitsConserved'
      <3> SUFFICES ASSUME NEW r \in SemIDs
                   PROVE  semValue'[r] = initial'[r] + givenVs'[r] - passedPs'[r]
                                           - Cardinality(Handed(r)')
        BY DEF PermitsConserved
      <3>1. Handed(r)' = Handed(r)
        BY <2>2 DEF Handed
      <3>2. semValue'[r] = IF r = s THEN semValue[r] + 1 ELSE semValue[r]
        BY <2>1 DEF CallInv, SemInv, SemsTyped
      <3> QED
        BY <1>6, <3>1, <3>2, Account
    <2>6. AllListed'
      BY <2>1 DEF CallInv, AllListed, Blocked, InSemQueue
    <2> QED
      BY <1>4, <1>5, <2>1, <2>3, <2>4, <2>5, <2>6 DEF CallInv
  <1> QED
    BY <1>7, <1>8

-----------------------------------------------------------------------------
(* The thread system. *)

\* In the middle of a resumption nothing else happens.
LEMMA OnlyResume ==
  ASSUME KernelNext, cpu = "resume"
  PROVE  /\ cpu' = "thread"
         /\ UNCHANGED <<pQueue, currentRunningThread, context>>
  BY DEF KernelNext, schedulerStep, epilogueStep, t_start, t_fork, t_join, t_yield,
         timerHandler, t_exit, userFunctionReturns, wakeSlot, retire, dispatch,
         schedulerReturns, resume, callUserFunction, halted, InBody, InWake, readyVars

\* Who is blocked after a step of the thread system was blocked before.
LEMMA BlockedBefore ==
  ASSUME JoinInv, [KernelNext]_kernelVars, NEW t \in Threads, Blocked(t)'
  PROVE  Blocked(t)
  BY ParkStep DEF Blocked, JoinInv

LEMMA KernelKeeps ==
  ASSUME SingleJoins, CallInv,
         Kernel(KernelNext) \/ UNCHANGED callVars
  PROVE  CallInv'
  <1> DEFINE me == currentRunningThread
  <1>1. /\ [KernelNext]_kernelVars
        /\ UNCHANGED semVars /\ UNCHANGED <<initial, givenVs>>
        /\ UNCHANGED <<semaphoreID, semValue, semQueue>>
    BY DEF Kernel, callVars, historyVars, semVars
  <1>2. JoinInv' /\ SemInv'
    <2>1. JoinInv'
      BY <1>1, JoinStep DEF CallInv
    <2>2. WokenWaits
      BY ScanFinds DEF CallInv
    <2> QED
      BY <1>1, <2>1, <2>2, SystemKeeps DEF CallInv
  <1>3. AllListed'
    <2>1. \A t \in Threads : Blocked(t)' => Blocked(t)
      BY <1>1, BlockedBefore DEF CallInv
    <2> QED
      BY <1>1, <2>1 DEF CallInv, AllListed, InSemQueue
  <1>4. CASE /\ KernelNext
             /\ cpu = "resume" /\ owed[me] # 0
             /\ passedPs' = [passedPs EXCEPT ![owed[me]] = @ + 1]
             /\ owed' = [owed EXCEPT ![me] = 0]
    <2>1. me \in Threads /\ owed[me] \in SemIDs
      BY <1>4 DEF CallInv, SemInv, TypeOK, HistoryTyped
    <2>2. /\ cpu' = "thread"
          /\ UNCHANGED <<pQueue, currentRunningThread, context>>
          /\ \A t \in Threads : Queued(t)' <=> Queued(t)
      BY <1>4, OnlyResume DEF Queued
    <2>3. \A t \in Threads : owed'[t] = IF t = me THEN 0 ELSE owed[t]
      BY <1>4, <2>1 DEF CallInv, HistoryTyped
    <2>4. HistoryTyped'
      BY <1>1, <1>4, <2>1 DEF CallInv, HistoryTyped
    <2>5. OwedUnderWay'
      BY <2>2, <2>3 DEF CallInv, OwedUnderWay
    <2>6. FreshHistory'
      <3>1. ~(owed[me] > semaphoreID)
        BY <2>1 DEF CallInv, FreshHistory
      <3> QED
        BY <1>1, <1>4, <2>1, <2>3, <3>1 DEF CallInv, FreshHistory, HistoryTyped, SemIDs
    <2>7. PermitsConserved'
      <3> SUFFICES ASSUME NEW r \in SemIDs
                   PROVE  semValue'[r] = initial'[r] + givenVs'[r] - passedPs'[r]
                                           - Cardinality(Handed(r)')
        BY DEF PermitsConserved
      <3>1. passedPs'[r] = IF r = owed[me] THEN passedPs[r] + 1 ELSE passedPs[r]
        BY <1>4, <2>1 DEF CallInv, HistoryTyped
      <3>2. CASE r = owed[me]
        <4>1. Handed(r)' = Handed(r) \ {me} /\ me \in Handed(r)
          BY <2>1, <2>3, <3>2 DEF Handed, SemIDs
        <4>2. Cardinality(Handed(r)') = Cardinality(Handed(r)) - 1
          BY <4>1, HandedFinite, FS_RemoveElement
        <4> QED
          BY <1>1, <3>1, <3>2, <4>2, Account
      <3>3. CASE r # owed[me]
        <4>1. Handed(r)' = Handed(r)
          BY <2>1, <2>3, <3>3 DEF Handed, SemIDs
        <4> QED
          BY <1>1, <3>1, <3>3, <4>1, Account
      <3> QED
        BY <3>2, <3>3
    <2> QED
      BY <1>2, <1>3, <2>4, <2>5, <2>6, <2>7 DEF CallInv
  <1>5. CASE /\ KernelNext
             /\ ~(cpu = "resume" /\ owed[me] # 0)
             /\ UNCHANGED <<passedPs, owed>>
    <2>1. HistoryTyped' /\ FreshHistory'
      BY <1>1, <1>5 DEF CallInv, HistoryTyped, FreshHistory
    <2>2. PermitsConserved'
      <3>1. \A r \in SemIDs : Handed(r)' = Handed(r)
        BY <1>5 DEF Handed
      <3> QED
        BY <1>1, <1>5, <3>1 DEF CallInv, PermitsConserved
    <2>3. OwedUnderWay'
      <3>1. \A t \in Threads : owed[t] # 0 => context[t] # "none" /\ Queued(t)
        BY <1>5 DEF CallInv, OwedUnderWay
      <3> QED
        BY <1>1, <1>5, <3>1, ReadyGoesOn DEF CallInv, OwedUnderWay
    <2> QED
      BY <1>2, <1>3, <2>1, <2>2, <2>3 DEF CallInv
  <1>6. CASE Kernel(KernelNext)
    BY <1>4, <1>5, <1>6 DEF Kernel
  <1>7. CASE UNCHANGED callVars
    <2>1. UNCHANGED <<passedPs, owed>> /\ UNCHANGED kernelVars
      BY <1>7 DEF callVars, historyVars
    <2>2. /\ UNCHANGED <<pQueue, context, currentRunningThread, cpu>>
          /\ \A t \in Threads : Queued(t)' <=> Queued(t)
      BY <2>1 DEF kernelVars, Queued
    <2>3. HistoryTyped' /\ FreshHistory' /\ OwedUnderWay'
      BY <1>1, <2>1, <2>2 DEF CallInv, HistoryTyped, FreshHistory, OwedUnderWay
    <2>4. PermitsConserved'
      <3>1. \A r \in SemIDs : Handed(r)' = Handed(r)
        BY <2>1 DEF Handed
      <3> QED
        BY <1>1, <2>1, <3>1 DEF CallInv, PermitsConserved
    <2> QED
      BY <1>2, <1>3, <2>3, <2>4 DEF CallInv
  <1> QED
    BY <1>6, <1>7

LEMMA CallStep ==
  ASSUME SingleJoins, CallInv, [CallsNext]_callVars
  PROVE  CallInv'
  BY KernelKeeps, CreatesKeeps, TakesKeeps, GivesKeeps, DestroysKeeps DEF CallsNext

LEMMA CallAlways == ASSUME SingleJoins PROVE CallsSpec => []CallInv
  <1>1. CallInv /\ [CallsNext]_callVars => CallInv'
    BY CallStep
  <1> QED
    BY <1>1, CallInit, PTL DEF CallsSpec

-----------------------------------------------------------------------------
(* Theorems. *)

\* Every variable of the semaphores keeps its type: no count becomes negative.
THEOREM SemTypes == ASSUME SingleJoins PROVE CallsSpec => []SemTypeOK
  <1>1. CallInv => SemTypeOK
    BY DEF CallInv, SemInv, HistoryTyped, SemTypeOK
  <1> QED
    BY <1>1, CallAlways, PTL

\* Semaphore_V, which looks at semaphoreWaiters, finds a waiter exactly when
\* there is one, and nobody waits while a permit is free.
THEOREM SemNoIdlePermit == ASSUME SingleJoins PROVE CallsSpec => []NoIdlePermit
  <1>1. CallInv => NoIdlePermit
    BY DEF CallInv, SemInv
  <1> QED
    BY <1>1, CallAlways, PTL

\* No permit is lost or invented, whatever threads create, take, give, join,
\* exit or are interrupted in between: Semaphore_V hands its permit to one
\* waiter, who returns with it once.
THEOREM SemPermits == ASSUME SingleJoins PROVE CallsSpec => []PermitsConserved
  <1>1. CallInv => PermitsConserved
    BY DEF CallInv
  <1> QED
    BY <1>1, CallAlways, PTL

-----------------------------------------------------------------------------
(* Where threads wait, when they do not join. *)

\* No queue is longer than there are threads.
LEMMA QueueBound ==
  ASSUME SemInv, NEW s \in SemIDs
  PROVE  Len(semQueue[s]) <= MaxThreads
  <1> DEFINE n == Len(semQueue[s])
             f == [i \in 1 .. n |-> semQueue[s][i]]
  <1>1. /\ n \in Nat /\ MaxThreads \in Nat
        /\ f \in [1 .. n -> Threads]
    BY SemQueueShape, KernelAssumption DEF SemInv
  <1>2. /\ IsFiniteSet(1 .. n) /\ Cardinality(1 .. n) = n
        /\ IsFiniteSet(Threads) /\ Cardinality(Threads) = MaxThreads
    <2>1. ASSUME NEW m \in Nat
          PROVE  IsFiniteSet(1 .. m) /\ Cardinality(1 .. m) = m
      <3>1. IsFiniteSet(1 .. m) /\ Cardinality(1 .. m) = IF 1 > m THEN 0 ELSE m - 1 + 1
        BY FS_Interval
      <3> QED
        BY <3>1
    <2> QED
      BY <1>1, <2>1 DEF Threads
  <1>3. \A i, k \in 1 .. n : f[i] = f[k] => i = k
    BY DEF SemInv, WaitOnce
  <1> HIDE DEF n, f
  <1>4. ~(Cardinality(Threads) < Cardinality(1 .. n))
    BY <1>1, <1>2, <1>3, FS_PigeonHole
  <1> QED
    BY <1>1, <1>2, <1>4 DEF n

\* A thread off the processor and outside the ready queues is in Semaphore_P.
ParkedBlocked == \A t \in Threads : Parked(t) => Blocked(t)

LEMMA ParkedStep ==
  ASSUME JoinCalls = {}, CallInv, ParkedBlocked, [CallsNext]_callVars
  PROVE  ParkedBlocked'
  <1> SUFFICES ASSUME NEW t \in Threads, Parked(t)'
               PROVE  Blocked(t)'
    BY DEF ParkedBlocked
  <1>1. CASE Kernel(KernelNext) \/ UNCHANGED callVars
    <2>1. [KernelNext]_kernelVars /\ JoinInv
      BY <1>1 DEF Kernel, callVars, CallInv
    <2>2. \A u \in Threads : ~t_join(u)
      BY DEF t_join
    <2>3. Parked(t) /\ context'[t] = context[t]
      BY <2>1, <2>2, ParkStep DEF JoinInv
    <2> QED
      BY <2>3 DEF ParkedBlocked, Blocked
  <1>2. CASE \E v \in InitValues : Creates(v)
    BY <1>2, CallsAssumption, CreateKeeps DEF Creates, CallInv, ParkedBlocked, Blocked
  <1>3. ASSUME NEW s \in SemIDs, Destroys(s)
        PROVE  Blocked(t)'
    BY <1>3, DestroyKeeps DEF Destroys, CallInv, ParkedBlocked, Blocked
  <1>4. ASSUME NEW s \in SemIDs, Takes(s)
        PROVE  Blocked(t)'
    BY <1>4, PassKeeps, BlockKeeps DEF Takes, CallInv, ParkedBlocked, Blocked
  <1>5. ASSUME NEW s \in SemIDs, Gives(s)
        PROVE  Blocked(t)'
    BY <1>5, HandKeeps, RaiseKeeps DEF Gives, CallInv, ParkedBlocked, Blocked
  <1> QED
    BY <1>1, <1>2, <1>3, <1>4, <1>5 DEF CallsNext

\* Where no thread joins, one that is off the processor and outside the ready
\* queues waits in the queue of exactly one semaphore, once, and nobody has
\* handed it a permit yet; no other thread is in the queue of a semaphore.
THEOREM SemBlockedOnce ==
  ASSUME JoinCalls = {}
  PROVE  CallsSpec => []BlockedOnce
  <1>1. SingleJoins
    BY DEF SingleJoins
  <1>2. CallsInit => ParkedBlocked
    <2>1. CallsInit => \A t \in Threads : ~Born(t)
      BY DEF CallsInit, KernelInit, Born, Threads
    <2> QED
      BY <2>1 DEF ParkedBlocked, Parked
  <1>3. CallInv /\ ParkedBlocked /\ [CallsNext]_callVars => ParkedBlocked'
    BY ParkedStep
  <1>4. CallInv /\ ParkedBlocked => BlockedOnce
    <2> SUFFICES ASSUME CallInv, ParkedBlocked, NEW t \in Threads
                 PROVE  LET places == {p \in SemIDs \X (1 .. MaxThreads) :
                                         /\ p[2] <= Len(semQueue[p[1]])
                                         /\ semQueue[p[1]][p[2]] = t}
                        IN  /\ Parked(t) => Cardinality(places) = 1 /\ owed[t] = 0
                            /\ ~Parked(t) => places = {}
      BY DEF BlockedOnce
    <2> DEFINE places == {p \in SemIDs \X (1 .. MaxThreads) :
                            /\ p[2] <= Len(semQueue[p[1]])
                            /\ semQueue[p[1]][p[2]] = t}
    <2>1. \A s \in SemIDs : /\ Len(semQueue[s]) \in Nat
                            /\ Len(semQueue[s]) <= MaxThreads
      BY SemQueueShape, QueueBound DEF CallInv, SemInv
    <2>2. ASSUME NEW p \in places
          PROVE  /\ p[1] \in SemIDs /\ p[2] \in 1 .. Len(semQueue[p[1]])
                 /\ semQueue[p[1]][p[2]] = t /\ p = <<p[1], p[2]>>
      BY <2>1
    <2>3. CASE Parked(t)
      <3>1. PICK s \in SemIDs : InSemQueue(s, t)
        BY <2>3 DEF CallInv, AllListed, ParkedBlocked
      <3>2. PICK i \in 1 .. Len(semQueue[s]) : semQueue[s][i] = t
        BY <3>1 DEF InSemQueue
      <3>3. <<s, i>> \in places
        <4>1. i \in 1 .. MaxThreads /\ i <= Len(semQueue[s])
          BY <2>1, <3>2, KernelAssumption
        <4> QED
          BY <3>2, <4>1
      <3>4. \A p \in places : p = <<s, i>>
        <4>1. \A p \in places : p[1] = s /\ p[2] = i
          BY <2>2, <3>2 DEF CallInv, SemInv, WaitOnce
        <4> QED
          BY <2>2, <4>1
      <3> HIDE DEF places
      <3>5. places = {<<s, i>>}
        BY <3>3, <3>4
      <3>6. Cardinality(places) = 1
        BY <3>5, FS_Singleton
      <3> QED
        BY <2>3, <3>6, OwedNothing DEF places
    <2>4. CASE ~Parked(t)
      <3>1. \A p \in places : FALSE
        BY <2>2, <2>4 DEF CallInv, SemInv, WaitersWait, Blocked
      <3> QED
        BY <2>4, <3>1
    <2> QED
      BY <2>3, <2>4
  <1> QED
    BY <1>1, <1>2, <1>3, <1>4, CallAlways, PTL DEF CallsSpec
=============================================================================
