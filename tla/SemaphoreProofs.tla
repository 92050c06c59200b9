--------------------------- MODULE SemaphoreProofs ---------------------------
(***************************************************************************)
(* What the calls of Semaphores keep whatever the client does: a thread    *)
(* that is in the queue of a semaphore waits there and nowhere else.  The  *)
(* theorems are in the modules of the clients, CallProofs and              *)
(* BurgersProofs.                                                          *)
(***************************************************************************)
EXTENDS Semaphores, ThreadKernelProofs

InSemQueue(s, t) == \E i \in 1 .. Len(semQueue[s]) : semQueue[s][i] = t

\* t waits in Semaphore_P.
Blocked(t) == Parked(t) /\ context[t] = "Semaphore_P"

\* Whoever is in the queue of a semaphore is blocked there ...
WaitersWait ==
  \A s \in SemIDs : \A i \in 1 .. Len(semQueue[s]) : Blocked(semQueue[s][i])

\* ... once.
WaitOnce ==
  \A s, r \in SemIDs :
    \A i \in 1 .. Len(semQueue[s]), k \in 1 .. Len(semQueue[r]) :
      semQueue[s][i] = semQueue[r][k] => s = r /\ i = k

\* Nobody waits on a semaphore that has not been created.
UnusedEmpty == \A s \in SemIDs : s > semaphoreID => semQueue[s] = <<>>

\* What every step of every client keeps.
SemInv ==
  /\ TypeOK /\ PlaceInv
  /\ SemsTyped /\ NoIdlePermit /\ UnusedEmpty
  /\ WaitersWait /\ WaitOnce

-----------------------------------------------------------------------------
(* The queues of semaphores. *)

LEMMA SemQueueShape ==
  ASSUME SemsTyped, NEW s \in SemIDs
  PROVE  /\ semQueue[s] \in Seq(Threads) /\ Len(semQueue[s]) \in Nat
         /\ \A i \in 1 .. Len(semQueue[s]) : semQueue[s][i] \in Threads
         /\ semQueue[s] # <<>> =>
              /\ Len(semQueue[s]) \in Nat \ {0}
              /\ Head(semQueue[s]) = semQueue[s][1]
              /\ SemRemoved(s) \in Seq(Threads)
              /\ Len(SemRemoved(s)) = Len(semQueue[s]) - 1
              /\ \A i \in 1 .. Len(semQueue[s]) - 1 :
                   SemRemoved(s)[i] = semQueue[s][i + 1]
  <1>1. semQueue[s] \in Seq(Threads)
    BY DEF SemsTyped
  <1> QED
    BY <1>1 DEF SemRemoved

\* Queues that only change for a thread that is not in them.
LEMMA QueueJoined ==
  ASSUME SemsTyped, WaitOnce, NEW s \in SemIDs, NEW w \in Threads,
         \A r \in SemIDs : ~InSemQueue(r, w),
         semQueue' = [semQueue EXCEPT ![s] = Append(@, w)]
  PROVE  /\ WaitOnce'
         /\ semQueue' \in [SemIDs -> Seq(Threads)]
         /\ Len(semQueue'[s]) = Len(semQueue[s]) + 1
         /\ \A r \in SemIDs : r # s => semQueue'[r] = semQueue[r]
         /\ \A r \in SemIDs : \A t \in Threads :
              InSemQueue(r, t)' <=> InSemQueue(r, t) \/ (r = s /\ t = w)
  <1>1. /\ semQueue' \in [SemIDs -> Seq(Threads)]
        /\ \A r \in SemIDs :
             /\ Len(semQueue[r]) \in Nat
             /\ r # s => semQueue'[r] = semQueue[r]
        /\ Len(semQueue'[s]) = Len(semQueue[s]) + 1
        /\ semQueue'[s][Len(semQueue[s]) + 1] = w
        /\ \A i \in 1 .. Len(semQueue[s]) : semQueue'[s][i] = semQueue[s][i]
    BY SemQueueShape DEF SemsTyped
  <1>2. \A r \in SemIDs : \A i \in 1 .. Len(semQueue'[r]) :
          \/ i \in 1 .. Len(semQueue[r]) /\ semQueue'[r][i] = semQueue[r][i]
          \/ r = s /\ i = Len(semQueue[s]) + 1 /\ semQueue'[r][i] = w
    BY <1>1
  <1>3. \A r \in SemIDs : \A i \in 1 .. Len(semQueue[r]) :
          i \in 1 .. Len(semQueue'[r]) /\ semQueue'[r][i] = semQueue[r][i]
    BY <1>1
  <1>4. \A r \in SemIDs : \A i \in 1 .. Len(semQueue[r]) : semQueue[r][i] # w
    BY DEF InSemQueue
  <1>5. WaitOnce'
    <2> SUFFICES ASSUME NEW q \in SemIDs, NEW r \in SemIDs,
                        NEW i \in 1 .. Len(semQueue'[q]),
                        NEW k \in 1 .. Len(semQueue'[r]),
                        semQueue'[q][i] = semQueue'[r][k]
                 PROVE  q = r /\ i = k
      BY DEF WaitOnce
    <2>1. CASE /\ i \in 1 .. Len(semQueue[q]) /\ semQueue'[q][i] = semQueue[q][i]
               /\ k \in 1 .. Len(semQueue[r]) /\ semQueue'[r][k] = semQueue[r][k]
      BY <2>1 DEF WaitOnce
    <2>2. CASE \/ semQueue'[q][i] = w /\ q = s /\ i = Len(semQueue[s]) + 1
               \/ semQueue'[r][k] = w /\ r = s /\ k = Len(semQueue[s]) + 1
      BY <1>2, <1>4, <2>2
    <2> QED
      BY <1>2, <2>1, <2>2
  <1>6. Len(semQueue[s]) + 1 \in 1 .. Len(semQueue'[s])
    BY <1>1
  <1>7. \A r \in SemIDs : \A t \in Threads :
          InSemQueue(r, t)' <=> InSemQueue(r, t) \/ (r = s /\ t = w)
    BY <1>1, <1>2, <1>3, <1>6 DEF InSemQueue
  <1> QED
    BY <1>1, <1>5, <1>7

LEMMA QueueLeft ==
  ASSUME SemsTyped, WaitOnce, NEW s \in SemIDs, semQueue[s] # <<>>,
         semQueue' = [semQueue EXCEPT ![s] = SemRemoved(s)]
  PROVE  LET w == Head(semQueue[s])
         IN  /\ WaitOnce'
             /\ semQueue' \in [SemIDs -> Seq(Threads)]
             /\ Len(semQueue'[s]) = Len(semQueue[s]) - 1
             /\ \A r \in SemIDs : r # s => semQueue'[r] = semQueue[r]
             /\ w \in Threads /\ InSemQueue(s, w)
             /\ \A r \in SemIDs : \A t \in Threads :
                  InSemQueue(r, t)' <=> InSemQueue(r, t) /\ t # w
  <1> DEFINE w == Head(semQueue[s])
  <1>1. /\ semQueue' \in [SemIDs -> Seq(Threads)]
        /\ \A r \in SemIDs :
             /\ Len(semQueue[r]) \in Nat
             /\ r # s => semQueue'[r] = semQueue[r]
        /\ Len(semQueue[s]) \in Nat \ {0}
        /\ Len(semQueue'[s]) = Len(semQueue[s]) - 1
        /\ w = semQueue[s][1] /\ w \in Threads
        /\ \A i \in 1 .. Len(semQueue[s]) - 1 :
             semQueue'[s][i] = semQueue[s][i + 1]
    BY SemQueueShape DEF SemsTyped
  <1> HIDE DEF w
  <1>2. \A r \in SemIDs : \A i \in 1 .. Len(semQueue'[r]) :
          \/ r # s /\ i \in 1 .. Len(semQueue[r])
               /\ semQueue'[r][i] = semQueue[r][i]
          \/ r = s /\ i + 1 \in 1 .. Len(semQueue[r]) /\ i + 1 # 1
               /\ semQueue'[r][i] = semQueue[r][i + 1]
    BY <1>1
  <1>3. InSemQueue(s, w)
    BY <1>1 DEF InSemQueue
  <1>4. 1 \in 1 .. Len(semQueue[s])
    BY <1>1
  <1>5. WaitOnce'
    <2> SUFFICES ASSUME NEW q \in SemIDs, NEW r \in SemIDs,
                        NEW i \in 1 .. Len(semQueue'[q]),
                        NEW k \in 1 .. Len(semQueue'[r]),
                        semQueue'[q][i] = semQueue'[r][k]
                 PROVE  q = r /\ i = k
      BY DEF WaitOnce
    <2> QED
      BY <1>2 DEF WaitOnce
  <1>6. ASSUME NEW r \in SemIDs, NEW t \in Threads
        PROVE  InSemQueue(r, t)' <=> InSemQueue(r, t) /\ t # w
    <2>1. ASSUME NEW i \in 1 .. Len(semQueue'[r])
          PROVE  /\ \E k \in 1 .. Len(semQueue[r]) : semQueue[r][k] = semQueue'[r][i]
                 /\ semQueue'[r][i] # w
      <3>1. PICK k \in 1 .. Len(semQueue[r]) : /\ semQueue[r][k] = semQueue'[r][i]
                                               /\ r = s => k # 1
        BY <1>2
      <3>2. semQueue[r][k] # semQueue[s][1]
        BY <1>4, <3>1 DEF WaitOnce
      <3> QED
        BY <1>1, <3>1, <3>2
    <2>2. ASSUME NEW i \in 1 .. Len(semQueue[r]), semQueue[r][i] # w
          PROVE  \E k \in 1 .. Len(semQueue'[r]) : semQueue'[r][k] = semQueue[r][i]
      <3>1. CASE r # s
        BY <1>1, <3>1
      <3>2. CASE r = s
        <4>1. i # 1 /\ i - 1 \in 1 .. Len(semQueue[s]) - 1
          BY <1>1, <2>2, <3>2
        <4>2. semQueue'[s][i - 1] = semQueue[s][i]
          BY <1>1, <4>1
        <4> QED
          BY <1>1, <3>2, <4>1, <4>2
      <3> QED
        BY <3>1, <3>2
    <2>3. ASSUME InSemQueue(r, t)' PROVE InSemQueue(r, t) /\ t # w
      <3>1. PICK i \in 1 .. Len(semQueue'[r]) : semQueue'[r][i] = t
        BY <2>3 DEF InSemQueue
      <3> QED
        BY <2>1, <3>1 DEF InSemQueue
    <2>4. ASSUME InSemQueue(r, t), t # w PROVE InSemQueue(r, t)'
      <3>1. PICK i \in 1 .. Len(semQueue[r]) : semQueue[r][i] = t
        BY <2>4 DEF InSemQueue
      <3> QED
        BY <2>2, <2>4, <3>1 DEF InSemQueue
    <2> QED
      BY <2>3, <2>4
  <1> QED
    BY <1>1, <1>3, <1>5, <1>6 DEF w

-----------------------------------------------------------------------------
(* The calls. *)

LEMMA SemInvInit == KernelInit /\ SemInit => SemInv
  <1> SUFFICES ASSUME KernelInit, SemInit PROVE SemInv
    OBVIOUS
  <1>1. TypeOK /\ PlaceInv
    BY TypeInit, PlaceInit
  <1>2. /\ \A s \in SemIDs : /\ semQueue[s] = <<>> /\ Len(semQueue[s]) = 0
                             /\ semaphoreWaiters[s] = 0
        /\ SemsTyped
    BY SemsAssumption DEF SemInit, SemsTyped
  <1> QED
    BY <1>1, <1>2 DEF SemInv, NoIdlePermit, UnusedEmpty, WaitersWait, WaitOnce

\* A thread that stays blocked keeps its place in the queues.
LEMMA WaitersStay ==
  ASSUME WaitersWait, SemsTyped, UNCHANGED semQueue,
         \A t \in Threads : Blocked(t) => Blocked(t)'
  PROVE  WaitersWait'
  <1> SUFFICES ASSUME NEW s \in SemIDs, NEW i \in 1 .. Len(semQueue[s])
               PROVE  Blocked(semQueue[s][i])'
    BY DEF WaitersWait
  <1>1. PICK t \in Threads : t = semQueue[s][i]
    BY SemQueueShape
  <1>2. Blocked(t)'
    BY <1>1 DEF WaitersWait
  <1>3. t = semQueue[s][i]'
    BY <1>1
  <1> QED
    BY <1>2, <1>3

LEMMA CreateKeeps ==
  ASSUME SemInv, NEW v \in Nat, semaphore_create(v)
  PROVE  /\ SemInv'
         /\ \A t \in Threads : /\ Parked(t)' <=> Parked(t)
                               /\ Queued(t)' <=> Queued(t)
         /\ UNCHANGED <<semQueue, context>>
  <1>1. TypeOK'
    BY DEF SemInv, TypeOK, semaphore_create, enableTimer, readyVars, tcbVars,
           joinVars, exitVars, startVars
  <1>2. UNCHANGED <<pQueue, currentRunningThread, gThreadID, flag, context, pc, cpu,
                    semQueue, semaphoreWaiters, freed>>
    BY DEF semaphore_create, readyVars, tcbVars, exitVars
  <1>3. /\ PlaceInv'
        /\ \A t \in Threads : /\ Parked(t)' <=> Parked(t)
                              /\ Queued(t)' <=> Queued(t)
    BY <1>2, StillPlaces DEF SemInv
  <1>4. /\ semaphoreID + 1 \in SemIDs /\ semaphoreID \in Nat
        /\ semaphoreID' = semaphoreID + 1
        /\ semValue' = [semValue EXCEPT ![semaphoreID + 1] = v]
    BY SemsAssumption DEF SemInv, SemsTyped, semaphore_create, SemIDs
  <1>5. SemsTyped'
    BY <1>2, <1>4, SemsAssumption DEF SemInv, SemsTyped, SemIDs
  <1>6. NoIdlePermit'
    <2>1. semQueue[semaphoreID + 1] = <<>>
      BY <1>4 DEF SemInv, UnusedEmpty
    <2> QED
      BY <1>2, <1>4, <2>1 DEF SemInv, SemsTyped, NoIdlePermit
  <1>7. UnusedEmpty'
    BY <1>2, <1>4 DEF SemInv, UnusedEmpty, SemIDs
  <1>8. WaitersWait' /\ WaitOnce'
    BY <1>2, <1>3, WaitersStay DEF SemInv, WaitOnce, Blocked
  <1> QED
    BY <1>1, <1>2, <1>3, <1>5, <1>6, <1>7, <1>8 DEF SemInv

LEMMA DestroyKeeps ==
  ASSUME SemInv, NEW s \in SemIDs, Semaphore_destroy(s)
  PROVE  /\ SemInv'
         /\ \A t \in Threads : /\ Parked(t)' <=> Parked(t)
                               /\ Queued(t)' <=> Queued(t)
         /\ UNCHANGED <<semQueue, context>>
  <1>1. TypeOK'
    BY DEF SemInv, TypeOK, Semaphore_destroy, enableTimer, readyVars, tcbVars,
           joinVars, exitVars, startVars
  <1>2. UNCHANGED <<pQueue, currentRunningThread, gThreadID, flag, context, pc, cpu,
                    semaphoreID, semValue, semQueue, semaphoreWaiters>>
    BY DEF Semaphore_destroy, readyVars, tcbVars, exitVars
  <1>3. /\ PlaceInv'
        /\ \A t \in Threads : /\ Parked(t)' <=> Parked(t)
                              /\ Queued(t)' <=> Queued(t)
    BY <1>2, StillPlaces DEF SemInv
  <1>4. SemsTyped' /\ NoIdlePermit' /\ UnusedEmpty'
    BY <1>2 DEF SemInv, SemsTyped, NoIdlePermit, UnusedEmpty, Semaphore_destroy
  <1>5. WaitersWait' /\ WaitOnce'
    BY <1>2, <1>3, WaitersStay DEF SemInv, WaitOnce, Blocked
  <1> QED
    BY <1>1, <1>2, <1>3, <1>4, <1>5 DEF SemInv

\* Steps that only block or unblock the signal.
LEMMA MaskKeeps ==
  ASSUME SemInv, masked' \in BOOLEAN,
         UNCHANGED <<readyVars, currentRunningThread, tcbVars, context, joinVars,
                     exitVars, startVars, cpu, semVars>>
  PROVE  /\ SemInv'
         /\ \A t \in Threads : Parked(t)' <=> Parked(t)
  <1>1. TypeOK'
    BY DEF SemInv, TypeOK, readyVars, tcbVars, joinVars, exitVars, startVars
  <1>2. UNCHANGED <<pQueue, currentRunningThread, gThreadID, flag, context, pc, cpu,
                    semaphoreID, semValue, semQueue, semaphoreWaiters, freed>>
    BY DEF readyVars, tcbVars, exitVars, semVars
  <1>3. PlaceInv' /\ \A t \in Threads : Parked(t)' <=> Parked(t)
    BY <1>2, StillPlaces DEF SemInv
  <1>4. SemsTyped' /\ NoIdlePermit' /\ UnusedEmpty'
    BY <1>2 DEF SemInv, SemsTyped, NoIdlePermit, UnusedEmpty
  <1>5. WaitersWait' /\ WaitOnce'
    BY <1>2, <1>3, WaitersStay DEF SemInv, WaitOnce, Blocked
  <1> QED
    BY <1>1, <1>3, <1>4, <1>5 DEF SemInv

\* What the caller of a library function is.
LEMMA Caller ==
  ASSUME SemInv, InBody
  PROVE  LET me == currentRunningThread
         IN  /\ me \in Threads /\ OnProcessor(me) /\ ~Parked(me) /\ ~Queued(me)
             /\ \A s \in SemIDs : ~InSemQueue(s, me)
  <1> DEFINE me == currentRunningThread
  <1>1. me \in Threads /\ OnProcessor(me)
    BY PlaceTypes DEF InBody, SemInv
  <1>2. ~Parked(me) /\ ~Queued(me)
    BY <1>1 DEF Parked, SemInv, PlaceInv, ReadyOnly
  <1> QED
    BY <1>1, <1>2 DEF SemInv, WaitersWait, InSemQueue, Blocked

\* Semaphore_P takes a permit ...
LEMMA PassKeeps ==
  ASSUME SemInv, NEW s \in SemIDs, Semaphore_P(s), MayPass(s)
  PROVE  /\ SemInv'
         /\ \A t \in Threads : /\ Parked(t)' <=> Parked(t)
                               /\ Queued(t)' <=> Queued(t)
         /\ semValue' = [semValue EXCEPT ![s] = @ - 1]
         /\ cpu' = "thread"
         /\ UNCHANGED <<semaphoreID, semQueue, context, currentRunningThread, pc>>
  <1>1. /\ semValue' = [semValue EXCEPT ![s] = @ - 1]
        /\ enableTimer
        /\ UNCHANGED <<readyVars, context, cpu, semQueue, semaphoreWaiters>>
        /\ UNCHANGED <<currentRunningThread, tcbVars, joinVars, exitVars,
                       startVars, semaphoreID, freed>>
        /\ cpu = "thread"
    BY DEF Semaphore_P, InBody
  <1>2. TypeOK'
    BY <1>1 DEF SemInv, TypeOK, enableTimer, readyVars, tcbVars, joinVars, exitVars,
                startVars
  <1>3. UNCHANGED <<pQueue, currentRunningThread, gThreadID, flag, context, pc, cpu>>
    BY <1>1 DEF readyVars, tcbVars, exitVars
  <1>4. /\ PlaceInv'
        /\ \A t \in Threads : /\ Parked(t)' <=> Parked(t)
                              /\ Queued(t)' <=> Queued(t)
    BY <1>3, StillPlaces DEF SemInv
  <1>5. semValue[s] \in Nat /\ semValue[s] > 0 /\ semValue[s] - 1 \in Nat
    BY DEF SemInv, SemsTyped, MayPass
  <1>6. SemsTyped' /\ NoIdlePermit' /\ UnusedEmpty'
    BY <1>1, <1>5 DEF SemInv, SemsTyped, NoIdlePermit, UnusedEmpty
  <1>7. WaitersWait' /\ WaitOnce'
    BY <1>1, <1>4, WaitersStay DEF SemInv, WaitOnce, Blocked
  <1> QED
    BY <1>1, <1>2, <1>3, <1>4, <1>6, <1>7 DEF SemInv

\* ... or blocks its caller.
LEMMA BlockKeeps ==
  ASSUME SemInv, NEW s \in SemIDs, Semaphore_P(s), ~MayPass(s)
  PROVE  /\ SemInv'
         /\ \A t \in Threads :
              /\ t = currentRunningThread => Blocked(t)'
              /\ t # currentRunningThread => /\ Parked(t)' <=> Parked(t)
                                             /\ context'[t] = context[t]
              /\ Queued(t)' <=> Queued(t)
              /\ \A r \in SemIDs :
                   InSemQueue(r, t)' <=>
                     InSemQueue(r, t) \/ (r = s /\ t = currentRunningThread)
         /\ cpu' = "scheduler"
         /\ UNCHANGED <<semaphoreID, semValue, currentRunningThread, pc>>
  <1> DEFINE me == currentRunningThread
  <1>1. /\ InBody
        /\ semQueue' = [semQueue EXCEPT ![s] = Append(@, me)]
        /\ semaphoreWaiters' = [semaphoreWaiters EXCEPT ![s] = @ + 1]
        /\ Park(pQueue, threadLevelCount, "Semaphore_P")
        /\ UNCHANGED <<semValue, currentRunningThread, tcbVars, joinVars, exitVars,
                       startVars, semaphoreID, freed>>
        /\ UNCHANGED <<gThreadID, flag, pc>>
        /\ s <= semaphoreID
    BY DEF Semaphore_P, tcbVars, exitVars, Usable
  <1>2. /\ "Semaphore_P" \in Contexts \ {"none"}
        /\ me \in Threads /\ \A r \in SemIDs : ~InSemQueue(r, me)
    BY <1>1, Caller DEF Contexts, ResumeByEnabling
  <1>3. TypeOK'
    <2>1. context' \in [Threads -> Contexts]
      BY <1>1, <1>2 DEF SemInv, TypeOK, Park
    <2> QED
      BY <1>1, <2>1 DEF SemInv, TypeOK, Park, disableTimer, tcbVars, joinVars,
                           exitVars, startVars
  <1>4. /\ PlaceInv'
        /\ \A t \in Threads :
             /\ t = me => Parked(t)' /\ context'[t] = "Semaphore_P"
             /\ t # me => /\ Parked(t)' <=> Parked(t)
                          /\ context'[t] = context[t]
             /\ Queued(t)' <=> Queued(t)
    BY <1>1, <1>2, LeavePlaces DEF SemInv
  <1>5. /\ WaitOnce'
        /\ semQueue' \in [SemIDs -> Seq(Threads)]
        /\ Len(semQueue'[s]) = Len(semQueue[s]) + 1
        /\ \A r \in SemIDs : r # s => semQueue'[r] = semQueue[r]
        /\ \A r \in SemIDs : \A t \in Threads :
             InSemQueue(r, t)' <=> InSemQueue(r, t) \/ (r = s /\ t = me)
    BY <1>1, <1>2, QueueJoined DEF SemInv
  <1>6. SemsTyped' /\ UnusedEmpty'
    <2>1. SemsTyped'
      BY <1>1, <1>5 DEF SemInv, SemsTyped
    <2>2. ~(s > semaphoreID)
      BY <1>1 DEF SemInv, SemsTyped, SemIDs
    <2>3. UnusedEmpty'
      BY <1>1, <1>5, <2>2 DEF SemInv, UnusedEmpty
    <2> QED
      BY <2>1, <2>3
  <1>7. NoIdlePermit'
    <2>1. semValue[s] = 0
      BY DEF SemInv, SemsTyped, MayPass
    <2>2. /\ semaphoreWaiters'[s] = Len(semQueue'[s])
          /\ \A r \in SemIDs : r # s => semaphoreWaiters'[r] = semaphoreWaiters[r]
      BY <1>1, <1>5 DEF SemInv, SemsTyped, NoIdlePermit
    <2> QED
      BY <1>1, <1>5, <2>1, <2>2 DEF SemInv, NoIdlePermit
  <1>8. WaitersWait'
    <2> SUFFICES ASSUME NEW r \in SemIDs, NEW i \in 1 .. Len(semQueue'[r])
                 PROVE  Blocked(semQueue[r][i])'
      BY DEF WaitersWait
    <2>1. PICK t \in Threads : t = semQueue'[r][i]
      BY <1>5
    <2>2. InSemQueue(r, t)'
      BY <2>1 DEF InSemQueue
    <2>3. InSemQueue(r, t) => Blocked(t)
      BY DEF SemInv, WaitersWait, InSemQueue
    <2>4. Blocked(t)'
      BY <1>2, <1>4, <1>5, <2>2, <2>3 DEF Blocked
    <2>5. t = semQueue[r][i]'
      BY <2>1
    <2> QED
      BY <2>4, <2>5
  <1> QED
    BY <1>1, <1>3, <1>4, <1>5, <1>6, <1>7, <1>8 DEF SemInv, Park, Blocked

\* Semaphore_V finds a waiter ...
LEMMA HandKeeps ==
  ASSUME SemInv, NEW s \in SemIDs, Semaphore_V(s), semQueue[s] # <<>>
  PROVE  LET w == Head(semQueue[s])
         IN  /\ SemInv'
             /\ w \in Threads /\ Blocked(w)
             /\ \A t \in Threads :
                  /\ Parked(t)' <=> Parked(t) /\ t # w
                  /\ Queued(t)' <=> Queued(t) \/ t = w
                  /\ \A r \in SemIDs :
                       InSemQueue(r, t)' <=> InSemQueue(r, t) /\ t # w
             /\ UNCHANGED <<semaphoreID, semValue, context, currentRunningThread,
                            cpu, pc>>
  <1> DEFINE w == Head(semQueue[s])
  <1>1. /\ InBody
        /\ masked' = FALSE
        /\ semaphoreWaiters[s] > 0
        /\ semQueue' = [semQueue EXCEPT ![s] = SemRemoved(s)]
        /\ semaphoreWaiters' = [semaphoreWaiters EXCEPT ![s] = @ - 1]
        /\ semValue' = [semValue EXCEPT ![s] = semValue[s]]
        /\ pQueue' = Insert(pQueue, w, WakeLevel)
        /\ threadLevelCount' = CountUp(threadLevelCount, WakeLevel)
        /\ UNCHANGED <<currentRunningThread, tcbVars, context, joinVars, exitVars,
                       startVars, cpu, semaphoreID, freed>>
        /\ UNCHANGED <<gThreadID, flag, pc>>
    <2>1. semaphoreWaiters[s] = Len(semQueue[s]) /\ Len(semQueue[s]) \in Nat \ {0}
      BY SemQueueShape DEF SemInv, NoIdlePermit
    <2>2. semaphoreWaiters[s] > 0
      BY <2>1
    <2> QED
      BY <2>1, <2>2 DEF Semaphore_V, ValueAfterHandover, enableTimer, tcbVars, exitVars
  <1>2. /\ WaitOnce'
        /\ semQueue' \in [SemIDs -> Seq(Threads)]
        /\ Len(semQueue'[s]) = Len(semQueue[s]) - 1
        /\ \A r \in SemIDs : r # s => semQueue'[r] = semQueue[r]
        /\ w \in Threads /\ InSemQueue(s, w)
        /\ \A r \in SemIDs : \A t \in Threads :
             InSemQueue(r, t)' <=> InSemQueue(r, t) /\ t # w
    BY <1>1, QueueLeft DEF SemInv
  <1> HIDE DEF w
  <1>3. Blocked(w) /\ Parked(w)
    BY <1>2 DEF SemInv, WaitersWait, InSemQueue, Blocked
  <1>4. WakeLevel \in Levels
    BY <1>1, Caller DEF WakeLevel, SemInv, TypeOK
  <1>5. /\ PlaceInv'
        /\ \A t \in Threads : /\ Queued(t)' <=> Queued(t) \/ t = w
                              /\ Parked(t)' <=> Parked(t) /\ t # w
    BY <1>1, <1>2, <1>3, <1>4, WokenPlaces DEF SemInv
  <1>6. TypeOK'
    <2>1. pQueue \in Queues /\ threadLevelCount \in Counts
      BY DEF SemInv, TypeOK, Queues, Counts
    <2>2. pQueue' \in Queues /\ threadLevelCount' \in Counts
      BY <1>1, <1>2, <1>4, <2>1, InsertLemma, CountUpLemma
    <2> QED
      BY <1>1, <2>2 DEF SemInv, TypeOK, Queues, Counts, tcbVars, joinVars,
                           exitVars, startVars
  <1>7. semValue' = semValue
    BY <1>1 DEF SemInv, SemsTyped
  <1>8. SemsTyped' /\ UnusedEmpty'
    <2>1. SemsTyped'
      BY <1>1, <1>2, <1>7 DEF SemInv, SemsTyped
    <2>2. s <= semaphoreID /\ s \in Int /\ semaphoreID \in Int
      BY SemsAssumption DEF Semaphore_V, Usable, SemInv, SemsTyped, SemIDs
    <2>3. UnusedEmpty'
      BY <1>1, <1>2, <2>2 DEF SemInv, UnusedEmpty, SemIDs
    <2> QED
      BY <2>1, <2>3
  <1>9. NoIdlePermit'
    <2>1. /\ semaphoreWaiters'[s] = Len(semQueue'[s])
          /\ \A r \in SemIDs : r # s => semaphoreWaiters'[r] = semaphoreWaiters[r]
      BY <1>1, <1>2 DEF SemInv, SemsTyped, NoIdlePermit
    <2>2. semValue[s] = 0
      BY DEF SemInv, NoIdlePermit
    <2> QED
      BY <1>2, <1>7, <2>1, <2>2 DEF SemInv, NoIdlePermit
  <1>10. WaitersWait'
    <2> SUFFICES ASSUME NEW r \in SemIDs, NEW i \in 1 .. Len(semQueue'[r])
                 PROVE  Blocked(semQueue[r][i])'
      BY DEF WaitersWait
    <2>1. PICK t \in Threads : t = semQueue'[r][i]
      BY <1>2
    <2>2. InSemQueue(r, t) /\ t # w
      BY <1>2, <2>1 DEF InSemQueue
    <2>3. Blocked(t)
      BY <2>2 DEF SemInv, WaitersWait, InSemQueue
    <2>4. Blocked(t)'
      BY <1>1, <1>5, <2>2, <2>3 DEF Blocked
    <2>5. t = semQueue[r][i]'
      BY <2>1
    <2> QED
      BY <2>4, <2>5
  <1> QED
    BY <1>1, <1>2, <1>3, <1>5, <1>6, <1>7, <1>8, <1>9, <1>10 DEF SemInv, w

\* ... or raises the value.
LEMMA RaiseKeeps ==
  ASSUME SemInv, NEW s \in SemIDs, Semaphore_V(s), semQueue[s] = <<>>
  PROVE  /\ SemInv'
         /\ \A t \in Threads : /\ Parked(t)' <=> Parked(t)
                               /\ Queued(t)' <=> Queued(t)
         /\ semValue' = [semValue EXCEPT ![s] = @ + 1]
         /\ UNCHANGED <<semaphoreID, semQueue, context, currentRunningThread, cpu,
                        pc>>
  <1>1. /\ masked' = FALSE
        /\ semValue' = [semValue EXCEPT ![s] = @ + 1]
        /\ UNCHANGED <<readyVars, semQueue, semaphoreWaiters>>
        /\ UNCHANGED <<currentRunningThread, tcbVars, context, joinVars, exitVars,
                       startVars, cpu, semaphoreID, freed>>
    BY DEF Semaphore_V, enableTimer
  <1>2. TypeOK'
    BY <1>1 DEF SemInv, TypeOK, readyVars, tcbVars, joinVars, exitVars, startVars
  <1>3. UNCHANGED <<pQueue, currentRunningThread, gThreadID, flag, context, pc, cpu>>
    BY <1>1 DEF readyVars, tcbVars, exitVars
  <1>4. /\ PlaceInv'
        /\ \A t \in Threads : /\ Parked(t)' <=> Parked(t)
                              /\ Queued(t)' <=> Queued(t)
    BY <1>3, StillPlaces DEF SemInv
  <1>5. SemsTyped' /\ NoIdlePermit' /\ UnusedEmpty'
    BY <1>1 DEF SemInv, SemsTyped, NoIdlePermit, UnusedEmpty
  <1>6. WaitersWait' /\ WaitOnce'
    BY <1>1, <1>4, WaitersStay DEF SemInv, WaitOnce, Blocked
  <1> QED
    BY <1>1, <1>2, <1>3, <1>4, <1>5, <1>6 DEF SemInv

\* The thread system leaves the waiters alone, when the joiners it wakes wait.
LEMMA SystemKeeps ==
  ASSUME SemInv, WokenWaits, [KernelNext]_kernelVars, UNCHANGED semVars
  PROVE  /\ SemInv'
         /\ \A t \in Threads : Blocked(t) => Blocked(t)'
  <1>1. TypeOK'
    BY TypeStep DEF SemInv
  <1>2. /\ PlaceInv'
        /\ \A t \in Threads : Blocked(t) => Blocked(t)'
    <2>1. /\ PlaceInv'
          /\ \A t \in Threads :
               Parked(t) =>
                 \/ StaysParked(t)
                 \/ /\ wakeSlot /\ t = tcbWaiting[scan[currentRunningThread]]
                    /\ WaitsFor(t, currentRunningThread)
      BY PlaceStep DEF SemInv
    <2>2. ASSUME NEW t \in Threads, Blocked(t), wakeSlot,
                 t = tcbWaiting[scan[currentRunningThread]],
                 WaitsFor(t, currentRunningThread)
          PROVE  FALSE
      BY <2>2 DEF WokenWaits, Joining, Blocked, wakeSlot
    <2> QED
      BY <2>1, <2>2 DEF Blocked, StaysParked
  <1>3. UNCHANGED <<semaphoreID, semValue, semQueue, semaphoreWaiters, freed>>
    BY DEF semVars
  <1>4. SemsTyped' /\ NoIdlePermit' /\ UnusedEmpty'
    BY <1>3 DEF SemInv, SemsTyped, NoIdlePermit, UnusedEmpty
  <1>5. WaitersWait' /\ WaitOnce'
    BY <1>2, <1>3, WaitersStay DEF SemInv, WaitOnce
  <1> QED
    BY <1>1, <1>2, <1>4, <1>5 DEF SemInv
=============================================================================
