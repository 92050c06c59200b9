---------------------------- MODULE MonitorProofs ----------------------------
(***************************************************************************)
(* What the calls of Monitors keep whatever the client does, when nobody   *)
(* calls t_join or Semaphore_P: the counters that t_sig scans are right,   *)
(* and a blocked thread is in the queue of one condition, at the level of  *)
(* its priority, and nowhere else.  The theorems are in the modules of the *)
(* clients.                                                                *)
(***************************************************************************)
EXTENDS Monitors, ThreadKernelProofs

\* Nobody has joined.
EmptyTable == \A i \in Slots : tcbWaiting[i] = NoThread

CountersKept ==
  \A c \in Conds : \A p \in Levels : conditionWaiters[c][p] = Len(waiters[c][p])

\* Whoever is in the queue of a condition is blocked in t_wait ...
WaitersParked ==
  \A t \in Threads : \A c \in Conds : Waits(t, c) => Parked(t) /\ context[t] = "t_wait"

\* ... at the level of its priority ...
WaitersRanked ==
  \A c \in Conds : \A p \in Levels : \A i \in 1 .. Len(waiters[c][p]) :
    priority[waiters[c][p][i]] = p

\* ... once.
WaitersApart ==
  /\ \A c \in Conds : NoRepeats(waiters[c])
  /\ \A t \in Threads : \A c, d \in Conds : Waits(t, c) /\ Waits(t, d) => c = d

\* Whoever is blocked is in such a queue.
ParkedListed == \A t \in Threads : Parked(t) => \E c \in Conds : Waits(t, c)

\* What every step of every client keeps.
MonInv ==
  /\ TypeOK /\ PlaceInv /\ EmptyTable
  /\ MonitorsTyped /\ CountersKept
  /\ WaitersParked /\ WaitersRanked /\ WaitersApart /\ ParkedListed

\* t has left the wait it last called, or has ended.
Awake(t) == \/ t = currentRunningThread /\ cpu = "thread"
            \/ pc[t] = "done"

-----------------------------------------------------------------------------
(* The queues of conditions are arrays of queues, as the ready queues are.  *)

LEMMA CondQueues ==
  ASSUME MonitorsTyped, NEW c \in Conds
  PROVE  /\ waiters[c] \in Queues
         /\ conditionWaiters[c] \in Counts
         /\ \A t \in Threads : Waits(t, c) <=> InQueues(waiters[c], t)
  BY DEF MonitorsTyped, Queues, Counts, Waits, InQueues

LEMMA MonWaiters == MonInv => WaitersKept
  <1> SUFFICES ASSUME MonInv PROVE WaitersKept
    OBVIOUS
  <1>1. ASSUME NEW c \in Conds, NEW p \in Levels
        PROVE  /\ conditionWaiters[c][p] = Len(waiters[c][p])
               /\ \A i, j \in 1 .. Len(waiters[c][p]) :
                    waiters[c][p][i] = waiters[c][p][j] => i = j
               /\ \A i \in 1 .. Len(waiters[c][p]) : priority[waiters[c][p][i]] = p
    BY DEF MonInv, CountersKept, WaitersApart, WaitersRanked, NoRepeats
  <1>2. \A t \in Threads : /\ Parked(t) <=> \E c \in Conds : Waits(t, c)
                           /\ \A c, d \in Conds : Waits(t, c) /\ Waits(t, d) => c = d
    BY DEF MonInv, WaitersParked, ParkedListed, WaitersApart
  <1> QED
    BY <1>1, <1>2 DEF WaitersKept

LEMMA MonInit == KernelInit /\ MonitorsInit => MonInv
  <1> SUFFICES ASSUME KernelInit, MonitorsInit PROVE MonInv
    OBVIOUS
  <1>1. TypeOK /\ PlaceInv /\ EmptyTable
    BY TypeInit, PlaceInit DEF KernelInit, EmptyTable
  <1>2. MonitorsTyped /\ CountersKept
    BY DEF MonitorsInit, MonitorsTyped, CountersKept
  <1>3. \A c \in Conds : \A p \in Levels : Len(waiters[c][p]) = 0
    BY DEF MonitorsInit
  <1>4. \A t \in Threads : ~Parked(t)
    BY KernelAssumption DEF KernelInit, Parked, Born, Threads
  <1> QED
    BY <1>1, <1>2, <1>3, <1>4
    DEF MonInv, WaitersParked, WaitersRanked, WaitersApart, ParkedListed, NoRepeats,
        Waits

-----------------------------------------------------------------------------
(* Steps that leave the conditions alone. *)

LEMMA WaitersStay ==
  ASSUME MonInv, TypeOK', PlaceInv', EmptyTable',
         UNCHANGED <<waiters, conditionWaiters>>, MonitorsTyped',
         \A t \in Threads : /\ Parked(t)' <=> Parked(t)
                            /\ Parked(t) => /\ context'[t] = context[t]
                                            /\ priority'[t] = priority[t]
  PROVE  MonInv'
  <1>1. \A t \in Threads : \A c \in Conds : Waits(t, c)' <=> Waits(t, c)
    BY DEF Waits
  <1>2. CountersKept' /\ WaitersApart' /\ ParkedListed' /\ WaitersParked'
    BY <1>1 DEF MonInv, CountersKept, WaitersApart, ParkedListed, WaitersParked
  <1>3. WaitersRanked'
    <2> SUFFICES ASSUME NEW c \in Conds, NEW p \in Levels,
                        NEW i \in 1 .. Len(waiters[c][p])
                 PROVE  priority'[waiters[c][p][i]] = p
      BY DEF WaitersRanked
    <2>1. PICK t \in Threads : t = waiters[c][p][i]
      BY CondQueues DEF MonInv, Queues
    <2>2. Waits(t, c) /\ priority[t] = p
      BY <2>1 DEF Waits, MonInv, WaitersRanked
    <2>3. Parked(t)
      BY <2>2 DEF MonInv, WaitersParked
    <2> QED
      BY <2>1, <2>2, <2>3
  <1> QED
    BY <1>2, <1>3 DEF MonInv

\* A born thread keeps its priority.
LEMMA PriorityStays ==
  ASSUME TypeOK, PlaceInv, [KernelNext]_kernelVars, NEW t \in Threads, Born(t)
  PROVE  priority'[t] = priority[t]
  <1>1. ASSUME NEW p \in Levels, t_start(p) \/ t_fork(p)
        PROVE  priority'[t] = priority[t]
    <2>1. NewTcb(p)
      BY <1>1 DEF t_start, t_fork
    <2> QED
      BY <2>1, NewPlace
  <1>2. CASE ~\E p \in Levels : t_start(p) \/ t_fork(p)
    BY <1>2 DEF KernelNext, schedulerStep, epilogueStep, t_join, t_yield, timerHandler,
                t_exit, userFunctionReturns, wakeSlot, retire, dispatch,
                schedulerReturns, resume, callUserFunction, halted, kernelVars, tcbVars
  <1> QED
    BY <1>1, <1>2

LEMMA MonKernel ==
  ASSUME MonInv, [KernelNext]_kernelVars, UNCHANGED <<joinVars, monitorVars>>
  PROVE  /\ MonInv'
         /\ \A t \in Threads : Parked(t)' <=> Parked(t)
  <1> DEFINE me == currentRunningThread
  <1>1. TypeOK' /\ EmptyTable' /\ MonitorsTyped'
    BY TypeStep DEF MonInv, EmptyTable, MonitorsTyped, joinVars, monitorVars
  <1>2. ASSUME wakeSlot PROVE ~WaitsFor(tcbWaiting[scan[me]], me)
    <2>1. scan[me] \in Slots
      BY <1>2, KernelAssumption DEF MonInv, TypeOK, wakeSlot, InWake, Slots
    <2> QED
      BY <2>1 DEF MonInv, EmptyTable, WaitsFor
  <1>3. WokenWaits
    <2>1. InWake /\ scan[me] < WaitSlots => scan[me] \in Slots
      BY KernelAssumption DEF MonInv, TypeOK, InWake, Slots
    <2> QED
      BY <2>1 DEF MonInv, EmptyTable, WokenWaits, WaitsFor
  <1>4. \A u \in Threads : ~t_join(u)
    BY DEF t_join, joinVars
  <1>5. PlaceInv' /\ \A t \in Threads : Parked(t) => StaysParked(t)
    BY <1>2, <1>3, PlaceStep DEF MonInv
  <1>6. \A t \in Threads : Parked(t)' => Parked(t)
    BY <1>4, ParkStep DEF MonInv
  <1>7. \A t \in Threads : Parked(t) => priority'[t] = priority[t]
    BY PriorityStays DEF MonInv, Parked
  <1>8. UNCHANGED <<waiters, conditionWaiters>>
    BY DEF monitorVars
  <1> QED
    BY <1>1, <1>5, <1>6, <1>7, <1>8, WaitersStay DEF StaysParked

\* The thread system calls no t_wait, and puts nobody back into one.
LEMMA WaitContext ==
  ASSUME TypeOK, PlaceInv, [KernelNext]_kernelVars, NEW t \in Threads,
         context'[t] = "t_wait"
  PROVE  context[t] = "t_wait" /\ (Awake(t) => Awake(t)')
  <1> DEFINE me == currentRunningThread
  <1>1. ASSUME NEW q, NEW n, NEW where \in {"t_yield", "timerHandler", "t_join"},
               Park(q, n, where) \/ Requeue(q, n, where), cpu = "thread",
               UNCHANGED pc
        PROVE  context[t] = "t_wait" /\ (Awake(t) => Awake(t)')
    <2>1. context' = [context EXCEPT ![me] = where] /\ me \in Threads
      BY <1>1 DEF Requeue, Park, TypeOK
    <2>2. t # me /\ context[t] = "t_wait"
      BY <2>1 DEF TypeOK
    <2> QED
      BY <1>1, <2>2 DEF Awake
  <1>2. ASSUME NEW p \in Levels, t_start(p) \/ t_fork(p)
        PROVE  context[t] = "t_wait" /\ (Awake(t) => Awake(t)')
    <2>1. UNCHANGED pc
      BY <1>2 DEF t_start, t_fork, exitVars
    <2>2. \/ /\ UNCHANGED <<context, currentRunningThread>>
             /\ cpu = "thread" => cpu' = "thread"
          \/ cpu = "thread" /\ \E q, n : Requeue(q, n, "t_yield")
      BY <1>2 DEF t_start, t_fork, InBody
    <2> QED
      BY <1>1, <2>1, <2>2 DEF Awake
  <1>3. CASE t_yield \/ timerHandler
    <2>1. /\ UNCHANGED pc /\ cpu = "thread"
          /\ \E q, n : \E where \in {"t_yield", "timerHandler"} : Requeue(q, n, where)
      BY <1>3 DEF t_yield, timerHandler, InBody, exitVars
    <2> QED
      BY <1>1, <2>1
  <1>4. ASSUME NEW u \in Threads, t_join(u)
        PROVE  context[t] = "t_wait" /\ (Awake(t) => Awake(t)')
    <2>1. /\ UNCHANGED <<pc, currentRunningThread>> /\ cpu = "thread"
          /\ \/ UNCHANGED <<context, cpu>>
             \/ \E q, n : Park(q, n, "t_join")
      BY <1>4 DEF t_join, InBody, exitVars
    <2> QED
      BY <1>1, <2>1 DEF Awake
  <1>5. CASE t_exit \/ retire \/ userFunctionReturns \/ wakeSlot
    <2>1. /\ UNCHANGED <<context, currentRunningThread>>
          /\ cpu = "thread" /\ me \in Threads
          /\ \/ pc' = [pc EXCEPT ![me] = "done"]
             \/ /\ cpu' = cpu
                /\ UNCHANGED pc \/ pc' = [pc EXCEPT ![me] = "wake"]
      BY <1>5 DEF t_exit, retire, userFunctionReturns, wakeSlot, InBody, InWake, TypeOK
    <2>2. t # me => pc'[t] = pc[t]
      BY <2>1 DEF TypeOK
    <2> QED
      BY <2>1, <2>2 DEF Awake, TypeOK
  <1>6. CASE \/ (\E y \in Levels : dispatch(y)) \/ schedulerReturns \/ resume
             \/ callUserFunction \/ halted \/ UNCHANGED kernelVars
    <2>1. /\ UNCHANGED <<context, pc>>
          /\ cpu = "thread" => UNCHANGED <<cpu, currentRunningThread>>
      BY <1>6 DEF dispatch, schedulerReturns, resume, callUserFunction, halted,
                  kernelVars, exitVars
    <2> QED
      BY <2>1 DEF Awake
  <1> QED
    BY <1>2, <1>3, <1>4, <1>5, <1>6 DEF KernelNext, schedulerStep, epilogueStep

-----------------------------------------------------------------------------
(* The calls. *)

\* The caller of a library function is in no queue.
LEMMA MonCaller ==
  ASSUME MonInv, InBody
  PROVE  LET me == currentRunningThread
         IN  /\ me \in Threads /\ OnProcessor(me) /\ Born(me)
             /\ ~Parked(me) /\ ~Queued(me)
             /\ \A c \in Conds : ~Waits(me, c)
             /\ priority[me] \in Levels
  <1> DEFINE me == currentRunningThread
  <1>1. me \in Threads /\ OnProcessor(me) /\ priority[me] \in Levels
    BY PlaceTypes DEF InBody, MonInv
  <1>2. Born(me) /\ ~Parked(me) /\ ~Queued(me)
    BY <1>1 DEF Parked, MonInv, PlaceInv, ReadyOnly, RunningLives
  <1> QED
    BY <1>1, <1>2 DEF MonInv, WaitersParked

\* lock_acquire after its loop, and lock_release.
LEMMA MonLock ==
  ASSUME MonInv, NEW l \in Locks, TakesLock(l) \/ lock_release(l)
  PROVE  /\ MonInv'
         /\ UNCHANGED <<currentRunningThread, gThreadID, context, cpu, pc>>
  <1>1. /\ masked' \in BOOLEAN
        /\ \/ shared' = [shared EXCEPT ![l] = 1]
           \/ shared' = [shared EXCEPT ![l] = 0]
        /\ UNCHANGED <<readyVars, currentRunningThread, tcbVars, context, joinVars,
                       exitVars, startVars, cpu, waiters, conditionWaiters, arg>>
    BY DEF TakesLock, lock_release, MasksForSection, enableTimer, disableTimer
  <1>2. TypeOK' /\ EmptyTable' /\ MonitorsTyped'
    <2>1. TypeOK'
      BY <1>1 DEF MonInv, TypeOK, readyVars, tcbVars, joinVars, exitVars, startVars
    <2>2. EmptyTable' /\ MonitorsTyped'
      BY <1>1 DEF MonInv, EmptyTable, MonitorsTyped, joinVars
    <2> QED
      BY <2>1, <2>2
  <1>3. /\ UNCHANGED <<pQueue, currentRunningThread, gThreadID, flag, context, pc, cpu>>
        /\ UNCHANGED <<waiters, conditionWaiters, priority>>
    BY <1>1 DEF readyVars, tcbVars, exitVars
  <1>4. PlaceInv' /\ \A t \in Threads : Parked(t)' <=> Parked(t)
    BY <1>3, StillPlaces DEF MonInv
  <1> QED
    BY <1>2, <1>3, <1>4, WaitersStay

\* A woken thread goes on in t_wait.
LEMMA MonWakes ==
  ASSUME MonInv, wakesInWait
  PROVE  /\ MonInv'
         /\ currentRunningThread \in Threads /\ pc[currentRunningThread] # "done"
         /\ UNCHANGED <<currentRunningThread, gThreadID, context, pc>>
         /\ cpu = "resume" /\ cpu' = "thread"
  <1> DEFINE me == currentRunningThread
  <1>1. /\ cpu = "resume" /\ cpu' = "thread" /\ masked' = masked
        /\ UNCHANGED <<pQueue, threadLevelCount, currentRunningThread, gThreadID,
                       priority, flag, context, waitingForTid, tcbWaiting, waitingIndex,
                       joined, exitedThreadIDs, pc, scan, waked, threadCount,
                       userFunction, called, shared, waiters, conditionWaiters, arg>>
    BY DEF wakesInWait, readyVars, tcbVars, joinVars, exitVars, startVars, monitorVars
  <1>2. me \in Threads /\ pc[me] # "done"
    <2>1. me \in Threads /\ OnProcessor(me)
      BY <1>1, PlaceTypes DEF MonInv
    <2> QED
      BY <2>1 DEF MonInv, PlaceInv, RunningLives
  <1>3. TypeOK' /\ EmptyTable' /\ MonitorsTyped'
    <2>1. TypeOK'
      BY <1>1, <1>2 DEF MonInv, TypeOK
    <2>2. EmptyTable' /\ MonitorsTyped'
      BY <1>1 DEF MonInv, EmptyTable, MonitorsTyped
    <2> QED
      BY <2>1, <2>2
  <1>4. PlaceInv' /\ \A t \in Threads : Parked(t)' <=> Parked(t)
    <2>1. \A t \in Threads : /\ Queued(t)' <=> Queued(t)
                             /\ OnProcessor(t)' <=> OnProcessor(t)
                             /\ Born(t)' <=> Born(t)
      BY <1>1 DEF Queued, OnProcessor, Born
    <2> QED
      BY <1>1, <2>1 DEF MonInv, PlaceInv, ReadyOnly, RunningLives, StartedOnce, Parked
  <1> QED
    BY <1>1, <1>2, <1>3, <1>4, WaitersStay

\* t_wait puts the running thread into the queue of one condition.
LEMMA MonWait ==
  ASSUME MonInv, NEW c \in Conds, t_wait(c)
  PROVE  /\ MonInv'
         /\ cpu = "thread" /\ cpu' = "scheduler"
         /\ context' = [context EXCEPT ![currentRunningThread] = "t_wait"]
         /\ UNCHANGED <<currentRunningThread, gThreadID, pc>>
         /\ \A t \in Threads : \A d \in Conds :
              Waits(t, d)' <=> Waits(t, d) \/ (d = c /\ t = currentRunningThread)
  <1> DEFINE me == currentRunningThread
             p  == priority[me]
             q  == waiters[c]
             h  == Insert(q, me, p)
  <1>1. /\ InBody
        /\ waiters' = [waiters EXCEPT ![c] = h]
        /\ conditionWaiters' = [conditionWaiters EXCEPT ![c] = CountUp(@, p)]
        /\ Park(pQueue, threadLevelCount, "t_wait")
        /\ UNCHANGED <<currentRunningThread, tcbVars, joinVars, exitVars,
                       startVars, shared, arg>>
        /\ UNCHANGED <<gThreadID, flag, pc, priority, tcbWaiting>>
    BY DEF t_wait, tcbVars, exitVars, joinVars
  <1>2. /\ me \in Threads /\ p \in Levels /\ ~Parked(me)
        /\ \A d \in Conds : ~Waits(me, d)
        /\ \A d \in Conds : ~InQueues(waiters[d], me)
    BY <1>1, MonCaller, CondQueues DEF MonInv
  <1>3. /\ cpu = "thread" /\ cpu' = "scheduler"
        /\ context' = [context EXCEPT ![me] = "t_wait"]
        /\ "t_wait" \in Contexts \ {"none"}
    BY <1>1 DEF Park, InBody, Contexts, ResumeByEnabling
  <1>4. /\ q \in Queues /\ conditionWaiters[c] \in Counts /\ NoRepeats(q)
    BY CondQueues DEF MonInv, WaitersApart
  <1>5. /\ h \in Queues /\ CountUp(conditionWaiters[c], p) \in Counts
        /\ NoRepeats(h)
        /\ \A x \in Threads : InQueues(h, x) <=> InQueues(q, x) \/ x = me
        /\ \A r \in Levels : h[r] = IF r = p THEN Append(q[r], me) ELSE q[r]
        /\ \A r \in Levels : CountUp(conditionWaiters[c], p)[r]
             = IF r = p THEN conditionWaiters[c][r] + 1 ELSE conditionWaiters[c][r]
    BY <1>2, <1>4, InsertPlaces, InsertNoRepeats, InsertLemma, CountUpLemma
  <1>6. /\ \A d \in Conds : waiters'[d] = IF d = c THEN h ELSE waiters[d]
        /\ \A d \in Conds : conditionWaiters'[d]
             = IF d = c THEN CountUp(conditionWaiters[c], p) ELSE conditionWaiters[d]
    BY <1>1 DEF MonInv, MonitorsTyped
  <1>7. MonitorsTyped'
    <2>1. waiters' \in [Conds -> Queues] /\ conditionWaiters' \in [Conds -> Counts]
      BY <1>1, <1>5 DEF MonInv, MonitorsTyped, Queues, Counts
    <2> QED
      BY <1>1, <2>1 DEF MonInv, MonitorsTyped, Queues, Counts
  <1> HIDE DEF h
  <1>8. \A t \in Threads : \A d \in Conds :
          Waits(t, d)' <=> Waits(t, d) \/ (d = c /\ t = me)
    <2>1. \A t \in Threads : \A d \in Conds : Waits(t, d)' <=> InQueues(waiters'[d], t)
      BY DEF Waits, InQueues
    <2>2. \A t \in Threads : \A d \in Conds : Waits(t, d) <=> InQueues(waiters[d], t)
      BY DEF Waits, InQueues
    <2> QED
      BY <1>5, <1>6, <2>1, <2>2
  <1>9. TypeOK' /\ EmptyTable'
    <2>1. context' \in [Threads -> Contexts]
      BY <1>2, <1>3 DEF MonInv, TypeOK
    <2>2. TypeOK'
      BY <1>1, <2>1 DEF MonInv, TypeOK, Park, disableTimer, tcbVars, joinVars,
                           exitVars, startVars
    <2> QED
      BY <1>1, <2>2 DEF MonInv, EmptyTable
  <1>10. /\ PlaceInv'
         /\ \A t \in Threads :
              /\ t = me => Parked(t)' /\ context'[t] = "t_wait"
              /\ t # me => /\ Parked(t)' <=> Parked(t)
                           /\ context'[t] = context[t]
    BY <1>1, <1>3, LeavePlaces DEF MonInv
  <1>11. CountersKept'
    <2> SUFFICES ASSUME NEW d \in Conds, NEW r \in Levels
                 PROVE  conditionWaiters'[d][r] = Len(waiters'[d][r])
      BY DEF CountersKept
    <2>1. /\ conditionWaiters[d][r] = Len(waiters[d][r])
          /\ conditionWaiters[c][r] = Len(q[r])
      BY DEF MonInv, CountersKept
    <2>2. Len(Append(q[r], me)) = Len(q[r]) + 1
      <3>1. q[r] \in Seq(Threads)
        BY <1>4 DEF Queues
      <3> QED
        BY <3>1
    <2>3. CASE d = c
      <3>1. /\ waiters'[d][r] = h[r]
            /\ conditionWaiters'[d][r] = CountUp(conditionWaiters[c], p)[r]
        BY <1>6, <2>3
      <3>2. CASE r = p
        BY <1>5, <2>1, <2>2, <3>1, <3>2
      <3>3. CASE r # p
        BY <1>5, <2>1, <3>1, <3>3
      <3> QED
        BY <3>2, <3>3
    <2>4. CASE d # c
      BY <1>6, <2>1, <2>4
    <2> QED
      BY <2>3, <2>4
  <1>12. WaitersRanked'
    <2> SUFFICES ASSUME NEW d \in Conds, NEW r \in Levels, NEW i \in 1 .. Len(waiters'[d][r])
                 PROVE  priority[waiters'[d][r][i]] = r
      BY <1>1 DEF WaitersRanked
    <2>1. CASE d = c
      <3>1. \/ r = p /\ h[r][i] = me
            \/ i \in 1 .. Len(q[r]) /\ h[r][i] = q[r][i]
        BY <1>2, <1>4, <1>6, <2>1, InsertEntry DEF h
      <3> QED
        BY <1>6, <2>1, <3>1 DEF MonInv, WaitersRanked
    <2>2. CASE d # c
      BY <1>6, <2>2 DEF MonInv, WaitersRanked
    <2> QED
      BY <2>1, <2>2
  <1>13. WaitersApart'
    <2>1. \A d \in Conds : NoRepeats(waiters'[d])
      BY <1>5, <1>6 DEF MonInv, WaitersApart
    <2>2. \A t \in Threads : \A d, e \in Conds : Waits(t, d)' /\ Waits(t, e)' => d = e
      BY <1>2, <1>8 DEF MonInv, WaitersApart
    <2> QED
      BY <2>1, <2>2 DEF WaitersApart
  <1>14. WaitersParked'
    <2> SUFFICES ASSUME NEW t \in Threads, NEW d \in Conds, Waits(t, d)'
                 PROVE  Parked(t)' /\ context'[t] = "t_wait"
      BY DEF WaitersParked
    <2>1. t = me \/ Waits(t, d)
      BY <1>8
    <2> QED
      BY <1>10, <2>1 DEF MonInv, WaitersParked
  <1>15. ParkedListed'
    <2> SUFFICES ASSUME NEW t \in Threads, Parked(t)'
                 PROVE  \E d \in Conds : Waits(t, d)'
      BY DEF ParkedListed
    <2>1. t = me \/ Parked(t)
      BY <1>10
    <2>2. t = me \/ \E d \in Conds : Waits(t, d)
      BY <2>1 DEF MonInv, ParkedListed
    <2> QED
      BY <1>8, <2>2
  <1> QED
    BY <1>1, <1>3, <1>7, <1>8, <1>9, <1>10, <1>11, <1>12, <1>13, <1>14,
       <1>15 DEF MonInv

\* The scan of t_sig ends at a level when one of the counters is not zero.
LEMMA HighestLevel ==
  ASSUME NEW n \in Counts, ~AllZero(n)
  PROVE  \E y \in Levels : FirstNonEmpty(n, y)
  <1> DEFINE used == {y \in Levels : n[y] # 0}
             from(y) == {z \in used : z >= y}
             T == {from(y) : y \in used}
             R == StrictSubsetOrdering(used)
  <1>1. IsFiniteSet(used)
    <2>1. IsFiniteSet(Levels)
      BY KernelAssumption, FS_Interval DEF Levels
    <2> QED
      BY <2>1, FS_Subset
  <1>2. T \subseteq FiniteSubsetsOf(used)
    <2>1. \A y \in used : from(y) \subseteq used /\ IsFiniteSet(from(y))
      BY <1>1, FS_Subset
    <2> QED
      BY <2>1 DEF FiniteSubsetsOf
  <1>3. T # {}
    BY DEF AllZero
  <1>4. IsWellFoundedOn(R, FiniteSubsetsOf(used))
    BY FS_StrictSubsetOrderingWellFounded
  <1>5. PICK X \in T : \A Y \in T : <<Y, X>> \notin R
    <2> HIDE DEF T, R, used
    <2> QED
      BY <1>2, <1>3, <1>4, WFMin
  <1>6. PICK y \in used : X = from(y)
    BY <1>5
  <1>7. ASSUME NEW z \in Levels, z > y
        PROVE  n[z] = 0
    <2> SUFFICES ASSUME z \in used PROVE FALSE
      BY <1>7
    <2>0. y \in Int /\ \A x \in used : x \in Int
      BY KernelAssumption DEF Levels
    <2>1. y \in from(y) /\ y \notin from(z) /\ from(z) \subseteq from(y)
      <3> HIDE DEF used
      <3>1. y \in from(y) /\ y \notin from(z)
        BY <1>7, <2>0
      <3>2. ASSUME NEW x \in from(z) PROVE x \in from(y)
        BY <1>7, <2>0
      <3> QED
        BY <3>1, <3>2
    <2>2. from(z) \in T /\ from(z) \in SUBSET used /\ from(y) \in SUBSET used
      OBVIOUS
    <2>3. <<from(z), X>> \in R
      <3> HIDE DEF from
      <3> QED
        BY <1>6, <2>1, <2>2 DEF StrictSubsetOrdering
    <2> QED
      BY <1>5, <2>2, <2>3
  <1> QED
    BY <1>6, <1>7 DEF FirstNonEmpty

LEMMA SigFinds ==
  ASSUME MonInv, NEW c \in Conds, FindsWaiter(c)
  PROVE  LET p == SigLevel(c)
             w == Head(waiters[c][p])
         IN  /\ p \in Levels /\ waiters[c][p] # <<>>
             /\ w \in Threads /\ Waits(w, c) /\ Parked(w)
             /\ context[w] = "t_wait" /\ priority[w] = p
  <1> DEFINE p == SigLevel(c)
             w == Head(waiters[c][p])
  <1>1. p \in Levels
    <2>1. \E y \in Levels : FirstNonEmpty(conditionWaiters[c], y)
      BY HighestLevel, CondQueues DEF FindsWaiter, MonInv
    <2> QED
      BY <2>1 DEF SigLevel
  <1> HIDE DEF p
  <1>2. waiters[c][p] # <<>> /\ waiters[c] \in Queues
    BY CondQueues DEF FindsWaiter, MonInv, p
  <1>3. Len(waiters[c][p]) \in Nat \ {0} /\ w = waiters[c][p][1] /\ w \in Threads
    BY <1>1, <1>2, RemovedShape
  <1>4. Waits(w, c) /\ priority[w] = p
    <2>1. 1 \in 1 .. Len(waiters[c][p])
      BY <1>3
    <2> QED
      BY <1>1, <1>3, <2>1 DEF Waits, MonInv, WaitersRanked
  <1>5. Parked(w) /\ context[w] = "t_wait"
    BY <1>3, <1>4 DEF MonInv, WaitersParked
  <1> QED
    BY <1>1, <1>2, <1>3, <1>4, <1>5 DEF p

\* t_sig takes the most important waiter out, if there is one.
LEMMA MonSig ==
  ASSUME MonInv, NEW c \in Conds, NEW l \in Locks \cup {NoLock}, t_sig(c, l)
  PROVE  /\ MonInv'
         /\ UNCHANGED <<currentRunningThread, gThreadID, context, cpu, pc>>
         /\ \/ /\ ~FindsWaiter(c)
               /\ \A t \in Threads : \A d \in Conds : Waits(t, d)' <=> Waits(t, d)
            \/ /\ FindsWaiter(c)
               /\ \A t \in Threads : \A d \in Conds :
                    Waits(t, d)' <=> Waits(t, d) /\ t # Head(waiters[c][SigLevel(c)])
  <1> DEFINE p == SigLevel(c)
             q == waiters[c]
             w == Head(q[p])
             h == Removed(q, p)
             n == conditionWaiters[c]
  <1>1. /\ masked' \in BOOLEAN
        /\ UNCHANGED <<currentRunningThread, tcbVars, context, joinVars, exitVars,
                       startVars, cpu, shared>>
        /\ UNCHANGED <<gThreadID, flag, pc, priority, tcbWaiting>>
    BY DEF t_sig, enableTimer, tcbVars, exitVars, joinVars
  <1>2. CASE ~FindsWaiter(c)
    <2>1. /\ UNCHANGED <<readyVars, waiters, conditionWaiters, arg>>
          /\ UNCHANGED pQueue
      BY <1>2 DEF t_sig, readyVars
    <2>2. TypeOK' /\ EmptyTable' /\ MonitorsTyped'
      <3>1. TypeOK'
        BY <1>1, <2>1 DEF MonInv, TypeOK, readyVars, tcbVars, joinVars, exitVars, startVars
      <3> QED
        BY <1>1, <2>1, <3>1 DEF MonInv, EmptyTable, MonitorsTyped
    <2>3. PlaceInv' /\ \A t \in Threads : Parked(t)' <=> Parked(t)
      BY <1>1, <2>1, StillPlaces DEF MonInv
    <2>4. \A t \in Threads : \A d \in Conds : Waits(t, d)' <=> Waits(t, d)
      BY <2>1 DEF Waits
    <2> QED
      BY <1>1, <1>2, <2>1, <2>2, <2>3, <2>4, WaitersStay
  <1>3. CASE FindsWaiter(c)
    <2>1. /\ p \in Levels /\ q[p] # <<>>
          /\ w \in Threads /\ Waits(w, c) /\ Parked(w)
          /\ context[w] = "t_wait" /\ priority[w] = p
      BY <1>3, SigFinds
    <2>2. /\ waiters' = [waiters EXCEPT ![c] = h]
          /\ conditionWaiters' = [conditionWaiters EXCEPT ![c] = [n EXCEPT ![p] = @ - 1]]
          /\ arg' = [arg EXCEPT ![w] = l]
          /\ pQueue' = Insert(pQueue, w, p)
          /\ threadLevelCount' = CountUp(threadLevelCount, p)
      BY <1>3, <2>1 DEF t_sig, SigCounts, MonInv, MonitorsTyped
    <2> HIDE DEF p
    <2>3. q \in Queues /\ n \in Counts /\ NoRepeats(q)
      BY CondQueues DEF MonInv, WaitersApart
    <2>4. /\ h \in Queues /\ NoRepeats(h)
          /\ \A x \in Threads : InQueues(h, x) <=> InQueues(q, x) /\ x # w
      BY <2>1, <2>3, RemovedPlaces, RemovedLemma
    <2>5. /\ \A r \in Levels : r # p => h[r] = q[r]
          /\ Len(q[p]) \in Nat /\ Len(h[p]) = Len(q[p]) - 1
      BY <2>1, <2>3, RemovedShape
    <2>6. /\ \A d \in Conds : waiters'[d] = IF d = c THEN h ELSE waiters[d]
          /\ \A d \in Conds : d # c => conditionWaiters'[d] = conditionWaiters[d]
          /\ \A r \in Levels : conditionWaiters'[c][r] = IF r = p THEN n[r] - 1 ELSE n[r]
      BY <2>1, <2>2 DEF MonInv, MonitorsTyped
    <2>7. MonitorsTyped'
      <3>1. waiters' \in [Conds -> Queues]
        BY <2>2, <2>4 DEF MonInv, MonitorsTyped, Queues
      <3>2. [n EXCEPT ![p] = @ - 1] \in Counts
        BY <2>1, <2>3 DEF Counts
      <3>3. conditionWaiters' \in [Conds -> Counts]
        BY <2>2, <3>2 DEF MonInv, MonitorsTyped, Counts
      <3>4. arg' \in [Threads -> Locks \cup {NoLock}]
        BY <2>2 DEF MonInv, MonitorsTyped
      <3> QED
        BY <1>1, <3>1, <3>3, <3>4 DEF MonInv, MonitorsTyped, Queues, Counts
    <2>8. TypeOK' /\ EmptyTable'
      <3>1. pQueue \in Queues /\ threadLevelCount \in Counts
        BY DEF MonInv, TypeOK, Queues, Counts
      <3>2. pQueue' \in Queues /\ threadLevelCount' \in Counts
        BY <2>1, <2>2, <3>1, InsertLemma, CountUpLemma
      <3>3. TypeOK'
        BY <1>1, <3>2 DEF MonInv, TypeOK, Queues, Counts, tcbVars, joinVars,
                             exitVars, startVars
      <3> QED
        BY <1>1, <3>3 DEF MonInv, EmptyTable
    <2> HIDE DEF h, w
    <2>9. /\ PlaceInv'
          /\ \A t \in Threads : Parked(t)' <=> Parked(t) /\ t # w
      BY <1>1, <2>1, <2>2, WokenPlaces DEF MonInv
    <2>10. \A t \in Threads : \A d \in Conds : Waits(t, d)' <=> Waits(t, d) /\ t # w
      <3>1. \A t \in Threads : \A d \in Conds : Waits(t, d)' <=> InQueues(waiters'[d], t)
        BY DEF Waits, InQueues
      <3>2. \A t \in Threads : \A d \in Conds : Waits(t, d) <=> InQueues(waiters[d], t)
        BY DEF Waits, InQueues
      <3>3. \A d \in Conds : d # c => ~Waits(w, d)
        BY <2>1 DEF MonInv, WaitersApart
      <3>4. \A t \in Threads : Waits(t, c)' <=> Waits(t, c) /\ t # w
        BY <2>4, <2>6, <3>1, <3>2
      <3>5. \A t \in Threads : \A d \in Conds : d # c => (Waits(t, d)' <=> Waits(t, d))
        BY <2>6, <3>1, <3>2
      <3> QED
        BY <3>3, <3>4, <3>5
    <2>11. CountersKept'
      <3> SUFFICES ASSUME NEW d \in Conds, NEW r \in Levels
                   PROVE  conditionWaiters'[d][r] = Len(waiters'[d][r])
        BY DEF CountersKept
      <3>1. conditionWaiters[d][r] = Len(waiters[d][r]) /\ n[r] = Len(q[r])
        BY DEF MonInv, CountersKept
      <3>2. CASE d # c
        BY <2>6, <3>1, <3>2
      <3>3. CASE d = c
        <4>1. waiters'[d][r] = h[r]
          BY <2>6, <3>3
        <4>2. CASE r = p
          BY <2>5, <2>6, <3>1, <3>3, <4>1, <4>2
        <4>3. CASE r # p
          BY <2>5, <2>6, <3>1, <3>3, <4>1, <4>3
        <4> QED
          BY <4>2, <4>3
      <3> QED
        BY <3>2, <3>3
    <2>12. WaitersRanked'
      <3> SUFFICES ASSUME NEW d \in Conds, NEW r \in Levels,
                          NEW i \in 1 .. Len(waiters'[d][r])
                   PROVE  priority[waiters'[d][r][i]] = r
        BY <1>1 DEF WaitersRanked
      <3>1. CASE d # c
        BY <2>6, <3>1 DEF MonInv, WaitersRanked
      <3>2. CASE d = c
        <4>1. \E j \in 1 .. Len(q[r]) : h[r][i] = q[r][j]
          BY <2>1, <2>3, <2>6, <3>2, RemovedEntry DEF h
        <4> QED
          BY <2>6, <3>2, <4>1 DEF MonInv, WaitersRanked
      <3> QED
        BY <3>1, <3>2
    <2>13. WaitersApart'
      <3>1. \A d \in Conds : NoRepeats(waiters'[d])
        BY <2>4, <2>6 DEF MonInv, WaitersApart
      <3>2. \A t \in Threads : \A d, e \in Conds : Waits(t, d)' /\ Waits(t, e)' => d = e
        BY <2>10 DEF MonInv, WaitersApart
      <3> QED
        BY <3>1, <3>2 DEF WaitersApart
    <2>14. WaitersParked' /\ ParkedListed'
      <3>1. WaitersParked'
        BY <1>1, <2>9, <2>10 DEF MonInv, WaitersParked
      <3>2. ParkedListed'
        BY <2>9, <2>10 DEF MonInv, ParkedListed
      <3> QED
        BY <3>1, <3>2
    <2>15. \A t \in Threads : \A d \in Conds :
             Waits(t, d)' <=> Waits(t, d) /\ t # Head(waiters[c][SigLevel(c)])
      BY <2>10 DEF w, p
    <2> QED
      BY <1>1, <1>3, <2>7, <2>8, <2>9, <2>11, <2>12, <2>13, <2>14, <2>15 DEF MonInv
  <1> QED
    BY <1>1, <1>2, <1>3

-----------------------------------------------------------------------------
(* The ready queues.                                                        *)

\* Nobody whom the scheduler cannot trust gets into them by a signal, a wait or
\* a return from one.
LEMMA ReadyMon ==
  ASSUME MonInv, ReadyInv, MonInv',
         \/ \E c \in Conds : \/ t_wait(c)
                             \/ \E l \in Locks \cup {NoLock} : t_sig(c, l)
         \/ wakesInWait
  PROVE  ReadyInv'
  <1>1. TypeOK' /\ pQueue \in Queues /\ threadLevelCount \in Counts
    BY DEF MonInv, TypeOK, Queues, Counts
  <1>2. ASSUME UNCHANGED <<pQueue, threadLevelCount, gThreadID, priority,
                           currentRunningThread, tcbWaiting>>
        PROVE  ReadyInv'
    BY <1>1, <1>2 DEF ReadyInv, CountsMatchQueues, KnownIds, QueuedAtOwnPriority
  <1>3. ASSUME NEW c \in Conds, t_wait(c)
        PROVE  ReadyInv'
    BY <1>2, <1>3 DEF t_wait, Park, tcbVars, joinVars
  <1>4. CASE wakesInWait
    BY <1>2, <1>4 DEF wakesInWait, readyVars, tcbVars, joinVars
  <1>5. ASSUME NEW c \in Conds, NEW l \in Locks \cup {NoLock}, t_sig(c, l)
        PROVE  ReadyInv'
    <2>1. UNCHANGED <<gThreadID, priority, currentRunningThread, tcbWaiting>>
      BY <1>5 DEF t_sig, tcbVars, joinVars
    <2>2. CASE ~FindsWaiter(c)
      BY <1>2, <1>5, <2>1, <2>2 DEF t_sig, readyVars
    <2>3. CASE FindsWaiter(c)
      <3>1. PICK w \in Threads : /\ w = Head(waiters[c][SigLevel(c)])
                                 /\ Parked(w)
        BY <2>3, SigFinds
      <3>2. /\ pQueue' = Insert(pQueue, w, priority[w])
            /\ threadLevelCount' = CountUp(threadLevelCount, priority[w])
        BY <1>5, <2>3, <3>1 DEF t_sig
      <3>3. w <= gThreadID /\ priority[w] \in Levels
        BY <3>1 DEF Parked, Born, MonInv, TypeOK
      <3>4. EntriesOK(pQueue, gThreadID, priority) /\ gThreadID \in Int
            /\ priority \in [Threads -> Levels]
        BY EntriesOKEquiv DEF ReadyInv, KnownIds
      <3>5. EntriesOK(pQueue', gThreadID, priority)
        BY <1>1, <3>2, <3>3, <3>4, InsertOK
      <3>6. CountsMatchQueues'
        BY <1>1, <3>2, <3>3, CountInsert DEF ReadyInv, CountsMatchQueues
      <3> QED
        BY <1>1, <2>1, <3>5, <3>6
        DEF ReadyInv, KnownIds, QueuedAtOwnPriority, EntriesOK
    <2> QED
      BY <2>2, <2>3
  <1> QED
    BY <1>3, <1>4, <1>5

\* When the scheduler turns to the lowest level, nobody of a higher one is ready.
LEMMA NobodyHigher ==
  ASSUME ReadyInv, dispatch(0), NEW t \in Threads, Queued(t)
  PROVE  priority[t] = 0
  <1>1. PICK p \in Levels : \E i \in 1 .. Len(pQueue[p]) : pQueue[p][i] = t
    BY DEF Queued
  <1>2. priority[t] = p /\ pQueue[p] \in Seq(Threads) /\ Len(pQueue[p]) # 0
    BY <1>1 DEF ReadyInv, QueuedAtOwnPriority, TypeOK
  <1>3. threadLevelCount[p] # 0
    BY <1>2 DEF ReadyInv, CountsMatchQueues
  <1>4. p \in Nat
    BY KernelAssumption DEF Levels
  <1> QED
    BY <1>2, <1>3, <1>4 DEF dispatch, FirstNonEmpty
=============================================================================
