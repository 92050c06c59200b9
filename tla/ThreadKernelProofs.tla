------------------------- MODULE ThreadKernelProofs -------------------------
(***************************************************************************)
(* Theorems about ThreadKernel, for every number of threads, priorities    *)
(* and slots and every pattern of joins and exits.  KernelAssumption has   *)
(* the insertion of a joiner into its ready queue happen in one step: with *)
(* joins no slice ends in the epilogue of a thread (WholeInserts).         *)
(***************************************************************************)
EXTENDS ThreadKernel, FiniteSetTheorems, TLAPS

Queues == [Levels -> Seq(Threads)]
Counts == [Levels -> Int]

-----------------------------------------------------------------------------
(* The operations on the array of ready queues. *)

\* q_insert changes one queue, by appending.
LEMMA InsertLemma ==
  ASSUME NEW q \in Queues, NEW t \in Threads, NEW p \in Levels
  PROVE  /\ Insert(q, t, p) \in Queues
         /\ \A r \in Levels : Insert(q, t, p)[r] = IF r = p THEN Append(q[p], t)
                                                         ELSE q[r]
BY DEF Insert, Queues

\* q_remove changes one queue, by dropping its head.
LEMMA RemovedLemma ==
  ASSUME NEW q \in Queues, NEW p \in Levels, q[p] # <<>>
  PROVE  /\ Removed(q, p) \in Queues
         /\ \A r \in Levels : Removed(q, p)[r] = IF r = p THEN Tail(q[p]) ELSE q[r]
         /\ Head(q[p]) \in Threads
BY DEF Removed, Queues

\* threadLevelCount[p]++ changes one count.
LEMMA CountUpLemma ==
  ASSUME NEW n \in Counts, NEW p \in Levels
  PROVE  /\ CountUp(n, p) \in Counts
         /\ \A r \in Levels : CountUp(n, p)[r] = IF r = p THEN n[p] + 1 ELSE n[r]
BY DEF CountUp, Counts

-----------------------------------------------------------------------------
(* Types. *)

LEMMA TypeInit == KernelInit => TypeOK
<1> SUFFICES ASSUME KernelInit PROVE TypeOK
    OBVIOUS
<1>1. 0 \in Levels /\ 0 \in 0 .. WaitSlots /\ 0 \in 0 .. MaxThreads
  BY KernelAssumption DEF Levels
<1>2. pQueue \in [Levels -> Seq(Threads)] /\ threadLevelCount \in [Levels -> Int]
  BY DEF KernelInit
<1>3. /\ priority \in [Threads -> Levels]
      /\ flag \in [Threads -> {0, 1}]
      /\ context \in [Threads -> Contexts]
      /\ waitingForTid \in [Threads -> Threads \cup {NoThread}]
      /\ tcbWaiting \in [Slots -> Threads \cup {NoThread}]
  BY <1>1 DEF KernelInit, Contexts
<1>4. /\ pc \in [Threads -> {"body", "wake", "done"}]
      /\ scan \in [Threads -> 0 .. WaitSlots]
      /\ waked \in [Threads -> BOOLEAN]
  BY <1>1 DEF KernelInit
<1>5. exitedThreadIDs \in Seq(Threads)
  <2>1. exitedThreadIDs = <<>>
    BY DEF KernelInit
  <2> QED
    BY <2>1
<1>6. /\ threadCount \in Nat
      /\ userFunction \in Threads \cup {NoThread} /\ called \subseteq Threads
      /\ joined \subseteq Threads \X Threads
      /\ gThreadID \in 0 .. MaxThreads
      /\ waitingIndex \in 0 .. WaitSlots
      /\ masked \in BOOLEAN
  BY <1>1 DEF KernelInit
<1> QED
  BY <1>2, <1>3, <1>4, <1>5, <1>6 DEF KernelInit, TypeOK

\* A fork and a requeueing keep the types of what they change.
LEMMA NewTcbType ==
  ASSUME TypeOK, NEW p \in Levels, NewTcb(p)
  PROVE  /\ gThreadID + 1 \in Threads
         /\ gThreadID' \in 0 .. MaxThreads
         /\ priority' \in [Threads -> Levels]
         /\ flag' \in [Threads -> {0, 1}]
BY KernelAssumption DEF TypeOK, NewTcb, Threads

LEMMA RequeueType ==
  ASSUME TypeOK, cpu = "thread", NEW q \in Queues, NEW n \in Counts,
         NEW where \in Contexts, Requeue(q, n, where)
  PROVE  /\ pQueue' \in [Levels -> Seq(Threads)]
         /\ threadLevelCount' \in [Levels -> Int]
         /\ context' \in [Threads -> Contexts]
         /\ masked' = TRUE
         /\ cpu' = "scheduler"
<1> DEFINE me == currentRunningThread
<1>1. me \in Threads /\ priority[me] \in Levels
  BY DEF TypeOK
<1>2. /\ pQueue' = Insert(q, me, priority[me])
      /\ threadLevelCount' = CountUp(n, priority[me])
      /\ context' = [context EXCEPT ![me] = where]
      /\ masked' = TRUE
      /\ cpu' = "scheduler"
  BY DEF Requeue, Park, disableTimer
<1>3. pQueue' \in Queues /\ threadLevelCount' \in Counts
  BY <1>1, <1>2, InsertLemma, CountUpLemma
<1>4. context' \in [Threads -> Contexts]
  BY <1>2 DEF TypeOK
<1> QED
  BY <1>2, <1>3, <1>4 DEF Queues, Counts

LEMMA TypeStep == TypeOK /\ [KernelNext]_kernelVars => TypeOK'
<1> SUFFICES ASSUME TypeOK, [KernelNext]_kernelVars PROVE TypeOK'
    OBVIOUS
<1> USE KernelAssumption
<1>q. pQueue \in Queues /\ threadLevelCount \in Counts
  BY DEF TypeOK, Queues, Counts
<1>1. ASSUME NEW p \in Levels, t_start(p) PROVE TypeOK'
  <2>1. /\ gThreadID + 1 \in Threads
        /\ gThreadID' \in 0 .. MaxThreads
        /\ priority' \in [Threads -> Levels]
        /\ flag' \in [Threads -> {0, 1}]
    BY <1>1, NewTcbType DEF t_start
  <2>2. pQueue' \in Queues /\ threadLevelCount' \in Counts
    BY <1>1, <1>q, <2>1, InsertLemma, CountUpLemma DEF t_start
  <2> QED
    BY <1>1, <2>1, <2>2
    DEF TypeOK, t_start, disableTimer, joinVars, exitVars, startVars, Queues, Counts
<1>2. ASSUME NEW p \in Levels, t_fork(p) PROVE TypeOK'
  <2> DEFINE q == Insert(pQueue, gThreadID + 1, p)
             n == CountUp(threadLevelCount, p)
  <2>1. /\ gThreadID + 1 \in Threads
        /\ gThreadID' \in 0 .. MaxThreads
        /\ priority' \in [Threads -> Levels]
        /\ flag' \in [Threads -> {0, 1}]
    BY <1>2, NewTcbType DEF t_fork
  <2>2. q \in Queues /\ n \in Counts
    BY <1>q, <2>1, InsertLemma, CountUpLemma
  <2> HIDE DEF q, n
  <2>3. CASE Requeue(q, n, "t_yield")
    <3>1. cpu = "thread" /\ "t_yield" \in Contexts
      BY <1>2 DEF t_fork, InBody, Contexts, ResumeByEnabling
    <3>2. /\ pQueue' \in [Levels -> Seq(Threads)]
          /\ threadLevelCount' \in [Levels -> Int]
          /\ context' \in [Threads -> Contexts]
          /\ masked' = TRUE
          /\ cpu' = "scheduler"
      BY <2>2, <2>3, <3>1, RequeueType
    <3> QED
      BY <1>2, <2>1, <3>2 DEF TypeOK, t_fork, joinVars, exitVars, startVars
  <2>4. CASE pQueue' = q /\ threadLevelCount' = n /\ enableTimer
             /\ UNCHANGED <<context, cpu>>
    BY <1>2, <2>1, <2>2, <2>4
    DEF TypeOK, t_fork, enableTimer, joinVars, exitVars, startVars, Queues, Counts
  <2> QED
    BY <1>2, <2>3, <2>4 DEF t_fork, q, n
<1>3. CASE t_yield \/ timerHandler
  <2>1. /\ cpu = "thread"
        /\ \E where \in Contexts : Requeue(pQueue, threadLevelCount, where)
    BY <1>3 DEF t_yield, timerHandler, InBody, Contexts, ResumeByEnabling
  <2>2. /\ pQueue' \in [Levels -> Seq(Threads)]
        /\ threadLevelCount' \in [Levels -> Int]
        /\ context' \in [Threads -> Contexts]
        /\ masked' = TRUE
        /\ cpu' = "scheduler"
    BY <1>q, <2>1, RequeueType
  <2>3. UNCHANGED <<currentRunningThread, tcbVars, joinVars, exitVars, startVars>>
    BY <1>3 DEF t_yield, timerHandler
  <2> QED
    BY <2>2, <2>3 DEF TypeOK, tcbVars, joinVars, exitVars, startVars
<1>5. ASSUME NEW u \in Threads, t_join(u) PROVE TypeOK'
  <2> DEFINE me == currentRunningThread
  <2>1. /\ me \in Threads
        /\ joined' \subseteq Threads \X Threads
    BY <1>5 DEF TypeOK, t_join, InBody
  <2>2. CASE enableTimer /\ UNCHANGED <<readyVars, context, cpu, flag,
                              waitingForTid, tcbWaiting, waitingIndex>>
    BY <1>5, <2>1, <2>2 DEF TypeOK, t_join, enableTimer, readyVars, exitVars,
                                     startVars
  <2>3. CASE /\ flag' = [flag EXCEPT ![me] = 0]
             /\ waitingForTid' = [waitingForTid EXCEPT ![me] = u]
             /\ tcbWaiting' = [tcbWaiting EXCEPT ![JoinSlot] = me]
             /\ waitingIndex' = JoinSlot + 1
             /\ Park(pQueue, threadLevelCount, "t_join")
    <3>1. JoinSlot \in Slots /\ JoinSlot + 1 \in 0 .. WaitSlots
      BY DEF TypeOK, JoinSlot, Slots
    <3>2. /\ flag' \in [Threads -> {0, 1}]
          /\ waitingForTid' \in [Threads -> Threads \cup {NoThread}]
          /\ tcbWaiting' \in [Slots -> Threads \cup {NoThread}]
          /\ waitingIndex' \in 0 .. WaitSlots
          /\ context' \in [Threads -> Contexts]
      BY <2>1, <2>3, <3>1 DEF TypeOK, Park, Contexts, ResumeByEnabling
    <3> QED
      BY <1>5, <2>1, <2>3, <3>2 DEF TypeOK, t_join, Park, disableTimer, exitVars,
                                           startVars
  <2> QED
    BY <1>5, <2>2, <2>3 DEF t_join
<1>6. CASE t_exit
  BY <1>6 DEF TypeOK, t_exit, InBody, disableTimer, readyVars, tcbVars, joinVars,
              startVars
<1>7. CASE userFunctionReturns
  BY <1>7 DEF TypeOK, userFunctionReturns, InBody, readyVars, tcbVars, joinVars,
              startVars
<1>8. CASE wakeSlot
  <2> DEFINE me == currentRunningThread
             w  == tcbWaiting[scan[me]]
  <2>1. /\ me \in Threads
        /\ scan[me] \in Slots
        /\ scan' \in [Threads -> 0 .. WaitSlots]
    BY <1>8 DEF TypeOK, wakeSlot, InWake, Slots
  <2>2. CASE WaitsFor(w, me)
    <3>1. w \in Threads /\ priority[w] \in Levels
      BY <2>1, <2>2 DEF TypeOK, WaitsFor
    <3>2. pQueue' \in Queues /\ threadLevelCount' \in Counts
      BY <1>8, <1>q, <2>2, <3>1, InsertLemma, CountUpLemma DEF wakeSlot
    <3> QED
      BY <1>8, <2>1, <3>2, <2>2
      DEF TypeOK, wakeSlot, readyVars, tcbVars, joinVars, startVars, Queues, Counts
  <2>3. CASE ~WaitsFor(w, me)
    BY <1>8, <2>1, <2>3 DEF TypeOK, wakeSlot, readyVars, tcbVars, joinVars, startVars
  <2> QED
    BY <2>2, <2>3
<1>9. CASE retire
  <2> DEFINE me == currentRunningThread
  <2>1. me \in Threads
    BY <1>9 DEF TypeOK, retire, InWake
  <2>2. exitedThreadIDs' \in Seq(Threads)
    <3>1. exitedThreadIDs \in Seq(Threads)
      BY DEF TypeOK
    <3>2. exitedThreadIDs' = exitedThreadIDs \/ exitedThreadIDs' = Append(exitedThreadIDs, me)
      BY <1>9 DEF retire
    <3> QED
      BY <2>1, <3>1, <3>2
  <2>3. pc' \in [Threads -> {"body", "wake", "done"}]
    BY <1>9, <2>1 DEF TypeOK, retire
  <2> QED
    BY <1>9, <2>2, <2>3
    DEF TypeOK, retire, disableTimer, readyVars, tcbVars, joinVars, startVars
<1>10. ASSUME NEW y \in Levels, dispatch(y) PROVE TypeOK'
  <2> DEFINE t == Head(pQueue[y])
  <2>1. /\ pQueue' \in Queues
        /\ threadLevelCount' \in Counts
        /\ currentRunningThread' \in Threads
    BY <1>10, <1>q, RemovedLemma DEF dispatch, Counts
  <2>2. CASE flag[t] = 1 /\ flag' = [flag EXCEPT ![t] = 0]
             /\ threadCount' = threadCount + 1 /\ userFunction' = t
             /\ enableTimer /\ cpu' = "thread"
    <3>1. flag' \in [Threads -> {0, 1}] /\ threadCount' \in Nat /\ masked' = FALSE
      <4>1. flag' \in [Threads -> {0, 1}]
        BY <2>2 DEF TypeOK
      <4>2. threadCount' \in Nat
        BY <2>2 DEF TypeOK
      <4> QED
        BY <2>2, <4>1, <4>2 DEF enableTimer
    <3> QED
      BY <1>10, <2>1, <2>2, <3>1
      DEF TypeOK, dispatch, joinVars, exitVars, Queues, Counts
  <2>3. CASE cpu' = "resume" /\ UNCHANGED <<flag, threadCount, userFunction, masked>>
    BY <1>10, <2>1, <2>3 DEF TypeOK, dispatch, joinVars, exitVars, Queues, Counts
  <2> QED
    BY <1>10, <2>2, <2>3 DEF dispatch
<1>11. CASE schedulerReturns
  BY <1>11 DEF TypeOK, schedulerReturns, readyVars, tcbVars, joinVars, exitVars,
               startVars
<1>12. CASE resume
  BY <1>12 DEF TypeOK, resume, enableTimer, readyVars, tcbVars, joinVars, exitVars,
               startVars
<1>14. CASE callUserFunction
  BY <1>14 DEF TypeOK, callUserFunction, readyVars, tcbVars, joinVars, exitVars
<1>13. CASE halted \/ UNCHANGED kernelVars
  BY <1>13 DEF TypeOK, halted, kernelVars
<1> QED
  BY <1>1, <1>2, <1>3, <1>5, <1>6, <1>7, <1>8, <1>9, <1>10, <1>11,
     <1>12, <1>13, <1>14
  DEF KernelNext, schedulerStep, epilogueStep

\* Every variable of the kernel keeps its type, in every step.
THEOREM KernelTypes == KernelSpec => []TypeOK
  BY TypeInit, TypeStep, PTL DEF KernelSpec

-----------------------------------------------------------------------------
(* The counts are the lengths of the queues.                               *)

\* The counts stay right when an entry is appended, or a head removed.
LEMMA CountInsert ==
  ASSUME NEW q \in Queues, NEW n \in Counts, NEW t \in Threads, NEW p \in Levels,
         \A r \in Levels : n[r] = Len(q[r])
  PROVE  \A r \in Levels : CountUp(n, p)[r] = Len(Insert(q, t, p)[r])
<1> SUFFICES ASSUME NEW r \in Levels
             PROVE  CountUp(n, p)[r] = Len(Insert(q, t, p)[r])
    OBVIOUS
<1>1. q[r] \in Seq(Threads)
  BY DEF Queues
<1>2. Len(Append(q[r], t)) = Len(q[r]) + 1
  BY <1>1
<1>3. Insert(q, t, p)[r] = IF r = p THEN Append(q[p], t) ELSE q[r]
  BY InsertLemma
<1>4. CountUp(n, p)[r] = IF r = p THEN n[p] + 1 ELSE n[r]
  BY CountUpLemma
<1> QED
  BY <1>2, <1>3, <1>4

LEMMA CountsInit == KernelInit => CountsMatchQueues
BY DEF KernelInit, CountsMatchQueues

LEMMA CountsStep ==
  TypeOK /\ CountsMatchQueues /\ [KernelNext]_kernelVars => CountsMatchQueues'
<1> SUFFICES ASSUME TypeOK, CountsMatchQueues, [KernelNext]_kernelVars
             PROVE  CountsMatchQueues'
    OBVIOUS
<1>q. pQueue \in Queues /\ threadLevelCount \in Counts
  BY DEF TypeOK, Queues, Counts
<1>m. \A r \in Levels : threadLevelCount[r] = Len(pQueue[r])
  BY DEF CountsMatchQueues
\* a thread that queues itself
<1>r. ASSUME NEW q \in Queues, NEW n \in Counts, NEW where,
             \A r \in Levels : n[r] = Len(q[r]),
             cpu = "thread", Requeue(q, n, where)
      PROVE  CountsMatchQueues'
  <2>1. /\ currentRunningThread \in Threads
        /\ priority[currentRunningThread] \in Levels
    BY <1>r DEF TypeOK
  <2> QED
    BY <1>r, <2>1, CountInsert DEF CountsMatchQueues, Requeue, Park
<1>1. ASSUME NEW p \in Levels, t_start(p) PROVE CountsMatchQueues'
  <2>1. gThreadID + 1 \in Threads
    BY <1>1, NewTcbType DEF t_start
  <2> QED
    BY <1>1, <1>q, <1>m, <2>1, CountInsert DEF CountsMatchQueues, t_start
<1>2. ASSUME NEW p \in Levels, t_fork(p) PROVE CountsMatchQueues'
  <2> DEFINE q == Insert(pQueue, gThreadID + 1, p)
             n == CountUp(threadLevelCount, p)
  <2>1. gThreadID + 1 \in Threads /\ cpu = "thread"
    BY <1>2, NewTcbType DEF t_fork, InBody
  <2>2. q \in Queues /\ n \in Counts /\ \A r \in Levels : n[r] = Len(q[r])
    <3>1. q \in Queues
      BY <1>q, <2>1, InsertLemma
    <3>2. n \in Counts
      BY <1>q, CountUpLemma
    <3> QED
      BY <1>q, <1>m, <2>1, <3>1, <3>2, CountInsert
  <2> HIDE DEF q, n
  <2>3. CASE Requeue(q, n, "t_yield")
    BY <2>1, <2>2, <2>3, <1>r
  <2>4. CASE pQueue' = q /\ threadLevelCount' = n
    BY <2>2, <2>4 DEF CountsMatchQueues
  <2> QED
    BY <1>2, <2>3, <2>4 DEF t_fork, q, n
<1>3. CASE t_yield
  BY <1>3, <1>q, <1>m, <1>r DEF t_yield, InBody
<1>4. CASE timerHandler
  BY <1>4, <1>q, <1>m, <1>r DEF timerHandler
<1>5. ASSUME NEW u \in Threads, t_join(u) PROVE CountsMatchQueues'
  BY <1>5 DEF CountsMatchQueues, t_join, Park, readyVars
<1>6. CASE wakeSlot
  <2> DEFINE w == tcbWaiting[scan[currentRunningThread]]
  <2>1. CASE WaitsFor(w, currentRunningThread)
    <3>0. scan[currentRunningThread] \in Slots
      BY <1>6, KernelAssumption DEF TypeOK, wakeSlot, InWake, Slots
    <3>1. w \in Threads /\ priority[w] \in Levels
      BY <2>1, <3>0 DEF TypeOK, WaitsFor
    <3> QED
      BY <1>6, <1>q, <1>m, <2>1, <3>1, CountInsert DEF wakeSlot, CountsMatchQueues
  <2>2. CASE ~WaitsFor(w, currentRunningThread)
    BY <1>6, <2>2 DEF wakeSlot, CountsMatchQueues, readyVars
  <2> QED
    BY <2>1, <2>2
<1>7. ASSUME NEW y \in Levels, dispatch(y) PROVE CountsMatchQueues'
  <2> SUFFICES ASSUME NEW r \in Levels
               PROVE  threadLevelCount'[r] = Len(pQueue'[r])
      BY DEF CountsMatchQueues
  <2>1. pQueue[y] \in Seq(Threads) /\ pQueue[y] # <<>>
    BY <1>7, <1>q DEF dispatch, Queues
  <2>2. Len(Tail(pQueue[y])) = Len(pQueue[y]) - 1
    BY <2>1
  <2>3. pQueue'[r] = IF r = y THEN Tail(pQueue[y]) ELSE pQueue[r]
    BY <1>7, <1>q, <2>1, RemovedLemma DEF dispatch
  <2>4. threadLevelCount'[r] = IF r = y THEN threadLevelCount[y] - 1
                                        ELSE threadLevelCount[r]
    BY <1>7, <1>q DEF dispatch, Counts
  <2> QED
    BY <1>m, <2>2, <2>3, <2>4
<1>8. CASE \/ t_exit \/ userFunctionReturns \/ retire \/ schedulerReturns
           \/ resume \/ callUserFunction \/ halted \/ UNCHANGED kernelVars
  BY <1>8 DEF CountsMatchQueues, t_exit, userFunctionReturns, retire,
              schedulerReturns, resume, callUserFunction, halted, readyVars, kernelVars
<1> QED
  BY <1>1, <1>2, <1>3, <1>4, <1>5, <1>6, <1>7, <1>8
  DEF KernelNext, schedulerStep, epilogueStep

\* Scheduler never removes from an empty queue, whatever the threads do, as long
\* as no slice ends while incrementStack puts a joiner into its queue: that is
\* WholeInserts, which KernelAssumption has of the constants.
THEOREM KernelCounts == KernelSpec => []CountsMatchQueues
<1>1. KernelInit => TypeOK /\ CountsMatchQueues
  BY TypeInit, CountsInit
<1>2. TypeOK /\ CountsMatchQueues /\ [KernelNext]_kernelVars
        => (TypeOK /\ CountsMatchQueues)'
  BY TypeStep, CountsStep
<1> QED
  BY <1>1, <1>2, PTL DEF KernelSpec

-----------------------------------------------------------------------------
(* The thread on the processor is the most important one.                  *)

\* What an entry of a queue is after an insertion and after a removal.
LEMMA InsertEntry ==
  ASSUME NEW q \in Queues, NEW t \in Threads, NEW p \in Levels,
         NEW r \in Levels, NEW i \in 1 .. Len(Insert(q, t, p)[r])
  PROVE  \/ r = p /\ Insert(q, t, p)[r][i] = t
         \/ i \in 1 .. Len(q[r]) /\ Insert(q, t, p)[r][i] = q[r][i]
<1>1. q[r] \in Seq(Threads)
  BY DEF Queues
<1>2. Insert(q, t, p)[r] = IF r = p THEN Append(q[r], t) ELSE q[r]
  BY InsertLemma
<1> QED
  BY <1>1, <1>2

LEMMA RemovedEntry ==
  ASSUME NEW q \in Queues, NEW p \in Levels, q[p] # <<>>,
         NEW r \in Levels, NEW i \in 1 .. Len(Removed(q, p)[r])
  PROVE  /\ q[r] # <<>>
         /\ LET j == IF r = p THEN i + 1 ELSE i
            IN  j \in 1 .. Len(q[r]) /\ Removed(q, p)[r][i] = q[r][j]
<1>1. q[r] \in Seq(Threads)
  BY DEF Queues
<1>2. Removed(q, p)[r] = IF r = p THEN Tail(q[r]) ELSE q[r]
  BY RemovedLemma
<1>3. q[r] # <<>>
  BY <1>1, <1>2
<1>4. CASE r = p
  BY <1>1, <1>2, <1>3, <1>4
<1>5. CASE r # p
  BY <1>1, <1>2, <1>3, <1>5
<1> QED
  BY <1>3, <1>4, <1>5

\* An insertion keeps every entry below a bound on the ids, and at the level of
\* its own priority.
EntriesOK(q, g, pr) ==
  \A p \in Levels : \A i \in 1 .. Len(q[p]) : q[p][i] <= g /\ pr[q[p][i]] = p

LEMMA InsertOK ==
  ASSUME NEW q \in Queues, NEW t \in Threads, NEW g \in Int,
         NEW pr \in [Threads -> Levels], EntriesOK(q, g, pr), t <= g
  PROVE  EntriesOK(Insert(q, t, pr[t]), g, pr)
<1> SUFFICES ASSUME NEW r \in Levels, NEW i \in 1 .. Len(Insert(q, t, pr[t])[r])
             PROVE  LET e == Insert(q, t, pr[t])[r][i] IN e <= g /\ pr[e] = r
    BY DEF EntriesOK
<1>1. \/ r = pr[t] /\ Insert(q, t, pr[t])[r][i] = t
      \/ i \in 1 .. Len(q[r]) /\ Insert(q, t, pr[t])[r][i] = q[r][i]
  BY InsertEntry
<1> QED
  BY <1>1 DEF EntriesOK

\* A new control block disturbs no entry.
LEMMA NewTcbOK ==
  ASSUME TypeOK, KnownIds, QueuedAtOwnPriority, NEW p \in Levels, NewTcb(p)
  PROVE  /\ EntriesOK(Insert(pQueue, gThreadID + 1, p), gThreadID', priority')
         /\ \A t \in Threads : t <= gThreadID => priority'[t] = priority[t]
         /\ gThreadID' = gThreadID + 1
<1> DEFINE new == gThreadID + 1
<1>1. /\ new \in Threads
      /\ priority' \in [Threads -> Levels]
      /\ gThreadID' \in Int
      /\ pQueue \in Queues
  <2>1. new \in Threads /\ gThreadID' \in 0 .. MaxThreads
        /\ priority' \in [Threads -> Levels]
    BY NewTcbType
  <2>2. pQueue \in Queues
    BY DEF TypeOK, Queues
  <2> QED
    BY <2>1, <2>2, KernelAssumption
<1>2. gThreadID' = new /\ priority' = [priority EXCEPT ![new] = p]
  BY DEF NewTcb
<1>3. priority'[new] = p /\ \A t \in Threads : t <= gThreadID => priority'[t] = priority[t]
  BY <1>1, <1>2 DEF TypeOK, Threads
<1>4. EntriesOK(pQueue, gThreadID', priority')
  <2> SUFFICES ASSUME NEW r \in Levels, NEW i \in 1 .. Len(pQueue[r])
               PROVE  pQueue[r][i] <= gThreadID' /\ priority'[pQueue[r][i]] = r
      BY DEF EntriesOK
  <2>1. pQueue[r][i] \in Threads
    BY <1>1 DEF Queues
  <2>2. pQueue[r][i] <= gThreadID /\ priority[pQueue[r][i]] = r
    BY DEF KnownIds, QueuedAtOwnPriority
  <2> QED
    BY <1>1, <1>2, <1>3, <2>1, <2>2 DEF TypeOK, Threads
<1>5. new <= gThreadID'
  BY <1>1, <1>2
<1>6. EntriesOK(Insert(pQueue, new, priority'[new]), gThreadID', priority')
  <2> HIDE DEF new
  <2> QED
    BY <1>1, <1>4, <1>5, InsertOK
<1> QED
  BY <1>2, <1>3, <1>6

\* Nor does a thread that queues itself at its own priority.
LEMMA RequeueOK ==
  ASSUME TypeOK, cpu = "thread", NEW q \in Queues, NEW n, NEW where,
         Requeue(q, n, where),
         NEW g \in Int, NEW pr \in [Threads -> Levels], EntriesOK(q, g, pr),
         currentRunningThread <= g,
         pr[currentRunningThread] = priority[currentRunningThread]
  PROVE  EntriesOK(pQueue', g, pr) /\ cpu' = "scheduler"
<1> DEFINE me == currentRunningThread
<1>1. me \in Threads
  BY DEF TypeOK
<1>2. pQueue' = Insert(q, me, pr[me]) /\ cpu' = "scheduler"
  BY DEF Requeue, Park
<1> QED
  BY <1>1, <1>2, InsertOK

LEMMA EntriesOKEquiv ==
  TypeOK => /\ EntriesOK(pQueue, gThreadID, priority)
              <=> /\ QueuedAtOwnPriority
                  /\ \A p \in Levels : \A i \in 1 .. Len(pQueue[p]) :
                       pQueue[p][i] <= gThreadID
            /\ pQueue \in Queues /\ gThreadID \in Int
            /\ priority \in [Threads -> Levels]
BY KernelAssumption DEF EntriesOK, QueuedAtOwnPriority, TypeOK, Queues

\* The head of a queue has the priority of its level.
LEMMA HeadOK ==
  ASSUME NEW q \in Queues, NEW g, NEW pr, EntriesOK(q, g, pr), NEW y \in Levels,
         q[y] # <<>>
  PROVE  Head(q[y]) \in Threads /\ Head(q[y]) <= g /\ pr[Head(q[y])] = y
<1>1. q[y] \in Seq(Threads)
  BY DEF Queues
<1>2. 1 \in 1 .. Len(q[y]) /\ Head(q[y]) = q[y][1] /\ Head(q[y]) \in Threads
  BY <1>1
<1> QED
  BY <1>2 DEF EntriesOK

LEMMA PriorityInit == KernelInit => PriorityInv
<1> SUFFICES ASSUME KernelInit PROVE PriorityInv
    OBVIOUS
<1>1. TypeOK /\ CountsMatchQueues
  BY TypeInit, CountsInit
<1>2. \A p \in Levels : Len(pQueue[p]) = 0
  BY DEF KernelInit
<1>3. QueuedAtOwnPriority
  BY <1>2 DEF QueuedAtOwnPriority
<1>4. KnownIds
  BY <1>2 DEF KernelInit, KnownIds, NoThread
<1> QED
  BY <1>1, <1>3, <1>4 DEF PriorityInv, NothingHigherQueued, KernelInit

\* PriorityInv without what it says of the thread on the processor
ReadyInv == TypeOK /\ CountsMatchQueues /\ KnownIds /\ QueuedAtOwnPriority

LEMMA ReadyStep == ReadyInv /\ [KernelNext]_kernelVars => ReadyInv'
<1> SUFFICES ASSUME ReadyInv, [KernelNext]_kernelVars PROVE ReadyInv'
    OBVIOUS
<1>i. TypeOK /\ CountsMatchQueues /\ KnownIds /\ QueuedAtOwnPriority
  BY DEF ReadyInv
<1>t. TypeOK' /\ CountsMatchQueues'
  BY <1>i, TypeStep, CountsStep
<1>e. /\ EntriesOK(pQueue, gThreadID, priority)
      /\ pQueue \in Queues /\ gThreadID \in Int /\ priority \in [Threads -> Levels]
      /\ currentRunningThread <= gThreadID
      /\ \A i \in Slots : tcbWaiting[i] <= gThreadID
  BY <1>i, EntriesOKEquiv DEF KnownIds
\* what remains to be shown
<1>s. ASSUME EntriesOK(pQueue', gThreadID', priority'),
             currentRunningThread' <= gThreadID',
             \A i \in Slots : tcbWaiting'[i] <= gThreadID'
      PROVE  ReadyInv'
  BY <1>s, <1>t DEF EntriesOK, KnownIds, QueuedAtOwnPriority, ReadyInv
<1>1. ASSUME NEW p \in Levels, t_start(p) PROVE ReadyInv'
  <2>1. /\ EntriesOK(pQueue', gThreadID', priority')
        /\ gThreadID' = gThreadID + 1
    BY <1>1, <1>i, NewTcbOK DEF t_start
  <2>2. currentRunningThread' <= gThreadID' /\ \A i \in Slots : tcbWaiting'[i] <= gThreadID'
    <3>1. UNCHANGED <<currentRunningThread, tcbWaiting>>
      BY <1>1 DEF t_start, joinVars
    <3>2. currentRunningThread \in Int /\ \A i \in Slots : tcbWaiting[i] \in Int
      BY <1>i DEF TypeOK, Threads, NoThread
    <3> QED
      BY <1>e, <2>1, <3>1, <3>2
  <2> QED
    BY <1>s, <2>1, <2>2
<1>2. ASSUME NEW p \in Levels, t_fork(p) PROVE ReadyInv'
  <2> DEFINE me == currentRunningThread
             q  == Insert(pQueue, gThreadID + 1, p)
             n  == CountUp(threadLevelCount, p)
  <2>1. /\ EntriesOK(q, gThreadID', priority')
        /\ \A t \in Threads : t <= gThreadID => priority'[t] = priority[t]
        /\ gThreadID' = gThreadID + 1
    BY <1>2, <1>i, NewTcbOK DEF t_fork
  <2>2. /\ me \in Threads /\ cpu = "thread"
        /\ gThreadID + 1 \in Threads
        /\ gThreadID' \in Int /\ priority' \in [Threads -> Levels]
    <3>1. /\ gThreadID + 1 \in Threads
          /\ gThreadID' \in 0 .. MaxThreads
          /\ priority' \in [Threads -> Levels]
      BY <1>2, <1>i, NewTcbType DEF t_fork
    <3>2. me \in Threads /\ cpu = "thread"
      BY <1>2, <1>i DEF t_fork, InBody, TypeOK
    <3> QED
      BY <1>e, <2>1, <3>1, <3>2
  <2>3. /\ me <= gThreadID' /\ currentRunningThread' <= gThreadID'
        /\ \A i \in Slots : tcbWaiting'[i] <= gThreadID'
    <3>1. UNCHANGED <<currentRunningThread, tcbWaiting>>
      BY <1>2 DEF t_fork, joinVars
    <3>2. me \in Int /\ \A i \in Slots : tcbWaiting[i] \in Int
      BY <1>i, <2>2 DEF TypeOK, Threads, NoThread
    <3> QED
      BY <1>e, <2>1, <3>1, <3>2
  <2>4. priority'[me] = priority[me]
    BY <1>e, <2>1, <2>2
  <2>5. q \in Queues
    BY <1>e, <2>2, InsertLemma
  <2>6. CASE Requeue(q, n, "t_yield")
    <3>1. EntriesOK(pQueue', gThreadID', priority')
      <4> HIDE DEF q, n
      <4> QED
        BY <1>i, <2>1, <2>2, <2>3, <2>4, <2>5, <2>6, RequeueOK
    <3> QED
      BY <1>s, <2>3, <3>1
  <2>7. CASE pQueue' = q
    BY <1>s, <2>1, <2>3, <2>7
  <2> QED
    BY <1>2, <2>6, <2>7 DEF t_fork
<1>3. CASE t_yield \/ timerHandler
  <2>1. /\ cpu = "thread" /\ UNCHANGED <<currentRunningThread, gThreadID, priority, tcbWaiting>>
        /\ \E where : Requeue(pQueue, threadLevelCount, where)
    BY <1>3 DEF t_yield, timerHandler, InBody, tcbVars, joinVars
  <2>2. EntriesOK(pQueue', gThreadID, priority)
    BY <1>i, <1>e, <2>1, RequeueOK
  <2> QED
    BY <1>s, <1>e, <2>1, <2>2
<1>4. ASSUME NEW u \in Threads, t_join(u) PROVE ReadyInv'
  <2>1. UNCHANGED <<pQueue, currentRunningThread, gThreadID, priority>>
    BY <1>4 DEF t_join, Park, readyVars
  <2>2. \A i \in Slots : tcbWaiting'[i] <= gThreadID'
    BY <1>4, <1>e, <1>i DEF t_join, TypeOK
  <2> QED
    BY <1>s, <1>e, <2>1, <2>2
<1>5. CASE t_exit \/ userFunctionReturns \/ retire \/ schedulerReturns \/ resume
           \/ callUserFunction \/ halted \/ UNCHANGED kernelVars
  <2>1. UNCHANGED <<pQueue, currentRunningThread, gThreadID, priority, tcbWaiting>>
    BY <1>5 DEF t_exit, userFunctionReturns, retire, schedulerReturns, resume, halted,
                callUserFunction, kernelVars, readyVars, tcbVars, joinVars
  <2> QED
    BY <1>s, <1>e, <2>1
<1>6. CASE wakeSlot
  <2> DEFINE w == tcbWaiting[scan[currentRunningThread]]
  <2>1. UNCHANGED <<currentRunningThread, gThreadID, priority, tcbWaiting>>
    BY <1>6 DEF wakeSlot, tcbVars, joinVars
  <2>2. CASE WaitsFor(w, currentRunningThread)
    <3>1. scan[currentRunningThread] \in Slots
      BY <1>6, <1>i, KernelAssumption DEF TypeOK, wakeSlot, InWake, Slots
    <3>2. w \in Threads /\ w <= gThreadID
      BY <1>i, <1>e, <2>2, <3>1 DEF TypeOK, WaitsFor
    <3>3. EntriesOK(pQueue', gThreadID, priority)
      BY <1>6, <1>e, <2>2, <3>2, InsertOK DEF wakeSlot
    <3> QED
      BY <1>s, <1>e, <2>1, <3>3
  <2>3. CASE ~WaitsFor(w, currentRunningThread)
    <3>1. UNCHANGED pQueue
      BY <1>6, <2>3 DEF wakeSlot, readyVars
    <3> QED
      BY <1>s, <1>e, <2>1, <3>1
  <2> QED
    BY <2>2, <2>3
<1>7. ASSUME NEW y \in Levels, dispatch(y) PROVE ReadyInv'
  <2>1. /\ pQueue[y] # <<>>
        /\ pQueue' = Removed(pQueue, y)
        /\ currentRunningThread' = Head(pQueue[y])
        /\ UNCHANGED <<gThreadID, priority, tcbWaiting>>
    BY <1>7 DEF dispatch, joinVars
  <2>2. EntriesOK(pQueue', gThreadID, priority)
    BY <1>e, <2>1, RemovedEntry DEF EntriesOK
  <2>3. Head(pQueue[y]) <= gThreadID
    BY <1>e, <2>1, HeadOK
  <2> QED
    BY <1>s, <1>e, <2>1, <2>2, <2>3
<1> QED
  BY <1>1, <1>2, <1>3, <1>4, <1>5, <1>6, <1>7
  DEF KernelNext, schedulerStep, epilogueStep

LEMMA PriorityStep == PriorityInv /\ [KernelNext]_kernelVars => PriorityInv'
<1> SUFFICES ASSUME PriorityInv, [KernelNext]_kernelVars PROVE PriorityInv'
    OBVIOUS
<1>i. /\ TypeOK /\ CountsMatchQueues /\ KnownIds /\ QueuedAtOwnPriority
      /\ NothingHigherQueued
      /\ pQueue \in Queues
      /\ EntriesOK(pQueue, gThreadID, priority)
  BY EntriesOKEquiv DEF PriorityInv, KnownIds
<1>r. ReadyInv'
  BY <1>i, ReadyStep DEF ReadyInv
<1>s. ASSUME NothingHigherQueued' PROVE PriorityInv'
  BY <1>s, <1>r DEF ReadyInv, PriorityInv
<1>1. ASSUME NEW p \in Levels, t_start(p) PROVE PriorityInv'
  BY <1>1, <1>s DEF t_start, NothingHigherQueued
<1>2. ASSUME NEW p \in Levels, t_fork(p) PROVE PriorityInv'
  <2> DEFINE me == currentRunningThread
             q  == Insert(pQueue, gThreadID + 1, p)
             n  == CountUp(threadLevelCount, p)
  <2>1. /\ me \in Threads /\ gThreadID + 1 \in Threads
        /\ priority'[me] = priority[me]
    BY <1>2, <1>i, NewTcbType, NewTcbOK DEF t_fork, InBody, TypeOK, KnownIds
  <2>2. CASE Requeue(q, n, "t_yield")
    BY <1>s, <2>2 DEF NothingHigherQueued, Requeue, Park
  <2>3. CASE /\ p <= priority[me] /\ pQueue' = q /\ UNCHANGED cpu
    <3> SUFFICES ASSUME NEW r \in Levels, pQueue'[r] # <<>>
                 PROVE  r <= priority'[currentRunningThread']
        BY <1>s DEF NothingHigherQueued
    <3>1. r = p \/ pQueue[r] # <<>>
      BY <1>i, <2>1, <2>3, InsertLemma
    <3>2. r <= priority[me]
      BY <1>2, <1>i, <2>3, <3>1 DEF NothingHigherQueued, t_fork, InBody
    <3> QED
      BY <1>2, <2>1, <3>2 DEF t_fork
  <2> QED
    BY <1>2, <2>2, <2>3 DEF t_fork
<1>3. CASE t_yield \/ timerHandler
  BY <1>3, <1>s DEF t_yield, timerHandler, Requeue, Park, NothingHigherQueued
<1>4. ASSUME NEW u \in Threads, t_join(u) PROVE PriorityInv'
  <2>1. /\ UNCHANGED <<pQueue, currentRunningThread, priority, pc>>
        /\ cpu' = "scheduler" \/ UNCHANGED cpu
    BY <1>4 DEF t_join, Park, readyVars, exitVars
  <2> QED
    BY <1>s, <1>i, <2>1 DEF NothingHigherQueued
<1>5. CASE t_exit \/ userFunctionReturns \/ retire \/ schedulerReturns \/ resume
           \/ callUserFunction \/ halted \/ UNCHANGED kernelVars
  <2>1. UNCHANGED <<pQueue, currentRunningThread, priority>>
    BY <1>5 DEF t_exit, userFunctionReturns, retire, schedulerReturns, resume, halted,
                callUserFunction, kernelVars, readyVars, tcbVars
  <2>2. NothingHigherQueued'
    BY <1>5, <1>i, <2>1
    DEF NothingHigherQueued, t_exit, userFunctionReturns, retire, schedulerReturns,
        resume, callUserFunction, halted, kernelVars, InBody, exitVars, TypeOK
  <2> QED
    BY <1>s, <2>2
<1>6. CASE wakeSlot
  BY <1>6, <1>s DEF wakeSlot, InWake, NothingHigherQueued
<1>7. ASSUME NEW y \in Levels, dispatch(y) PROVE PriorityInv'
  <2> SUFFICES ASSUME NEW r \in Levels, pQueue'[r] # <<>>
               PROVE  r <= priority'[currentRunningThread']
      BY <1>s DEF NothingHigherQueued
  <2>1. /\ pQueue[y] # <<>>
        /\ pQueue' = Removed(pQueue, y)
        /\ priority'[currentRunningThread'] = y
    BY <1>7, <1>i, HeadOK DEF dispatch
  <2>2. pQueue[r] # <<>> /\ pQueue[r] \in Seq(Threads)
    <3>1. pQueue'[r] = IF r = y THEN Tail(pQueue[y]) ELSE pQueue[r]
      BY <1>i, <2>1, RemovedLemma
    <3> QED
      BY <1>i, <2>1, <3>1 DEF Queues
  <2>3. threadLevelCount[r] # 0
    BY <1>i, <2>2 DEF CountsMatchQueues
  <2> QED
    BY <1>7, <2>1, <2>3 DEF dispatch, FirstNonEmpty, Levels
<1> QED
  BY <1>1, <1>2, <1>3, <1>4, <1>5, <1>6, <1>7
  DEF KernelNext, schedulerStep, epilogueStep

\* What runs and what is queued agree with the priorities: every entry is at its
\* own level, and no queue above the priority of the thread on the processor has
\* one, from the forks on through every waking and rescheduling.  As above, the
\* insertion of a joiner is not interrupted (WholeInserts).
THEOREM KernelPriority == KernelSpec => []PriorityInv
BY PriorityInit, PriorityStep, PTL DEF KernelSpec

\* User code never runs while a more important thread is ready: forks preempt,
\* joins and slices end in a scan from the top, and wakers are past their body.
\* As above, the insertion of a joiner is not interrupted (WholeInserts).
THEOREM KernelPreempts == KernelSpec => []RunningIsHighest
<1>1. PriorityInv => RunningIsHighest
  <2> SUFFICES ASSUME PriorityInv, InBody, NEW t \in Threads, Queued(t)
               PROVE  priority[t] <= priority[currentRunningThread]
      BY DEF RunningIsHighest
  <2>1. PICK p \in Levels : \E i \in 1 .. Len(pQueue[p]) : pQueue[p][i] = t
    BY DEF Queued
  <2>2. pQueue[p] # <<>> /\ priority[t] = p
    BY <2>1 DEF PriorityInv, QueuedAtOwnPriority
  <2> QED
    BY <2>2 DEF PriorityInv, NothingHigherQueued, InBody
<1> QED
  BY <1>1, PriorityInit, PriorityStep, PTL DEF KernelSpec

-----------------------------------------------------------------------------
(***************************************************************************)
(* Joins and the places a thread can be in.                                *)
(*                                                                         *)
(* That a thread is in one place, and that t_join does not return early,   *)
(* holds where no thread joins twice.  (Run repeated_join shows what a     *)
(* second join does.)  Who wakes a joiner needs more of the client: the    *)
(* epilogue of a thread records its id only when it woke nobody, scans the *)
(* table with the timer enabled, and t_exit does neither.  Under the same  *)
(* conditions the kernel keeps the promise of ThreadLife.                  *)
(***************************************************************************)

\* Every thread calls t_join at most once.
SingleJoins == \A j, k \in JoinCalls : j[1] = k[1] => j = k

InQueues(q, t) == \E p \in Levels : \E i \in 1 .. Len(q[p]) : q[p][i] = t

NoRepeats(q) ==
  \A p, r \in Levels : \A i \in 1 .. Len(q[p]), k \in 1 .. Len(q[r]) :
    q[p][i] = q[r][k] => p = r /\ i = k

\* A ready thread has been forked, has not ended and is not running.
ReadyOnly ==
  \A t \in Threads : Queued(t) => Born(t) /\ pc[t] # "done" /\ ~OnProcessor(t)

\* So has the thread on the processor, which has left its first dispatch.
RunningLives ==
  \A t \in Threads : OnProcessor(t) => Born(t) /\ pc[t] # "done" /\ flag[t] = 0

\* A thread that has a saved context is not started a second time, and one that
\* has not been forked has done nothing.
StartedOnce ==
  \A t \in Threads : /\ context[t] # "none" => Born(t) /\ flag[t] = 0
                     /\ ~Born(t) => pc[t] = "body"

\* t waits in t_join.
Joining(t) == Parked(t) /\ context[t] = "t_join"

\* t waits in the same call after a step.
StaysParked(t) == Parked(t)' /\ context'[t] = context[t]

\* waitingForTid and the slots of the join table come from calls of t_join, and
\* no thread has two slots.
TableFilled ==
  /\ joined \subseteq JoinCalls
  /\ \A t \in Threads : waitingForTid[t] # NoThread => <<t, waitingForTid[t]>> \in joined
  /\ \A i \in Slots : tcbWaiting[i] # NoThread => waitingForTid[tcbWaiting[i]] # NoThread
  /\ \A i, k \in Slots : tcbWaiting[i] = tcbWaiting[k] /\ tcbWaiting[i] # NoThread => i = k

\* u has not yet looked at slot i of the join table.
Later(u, i) == \/ pc[u] = "body"
               \/ pc[u] = "wake" /\ scan[u] <= i

\* A thread in a slot that its target has still to scan waits in t_join.
SlotsWait ==
  \A i \in Slots :
    LET w == tcbWaiting[i]
    IN  w # NoThread /\ Later(waitingForTid[w], i) => Joining(w)

\* Only ended threads are recorded.
RecordedEnded ==
  \A i \in 1 .. Len(exitedThreadIDs) : pc[exitedThreadIDs[i]] = "done"

\* A joiner that goes on finds that its target is past its user function.
JoinersWait == \A j \in joined : Joining(j[1]) \/ pc[j[2]] # "body"

PlaceInv ==
  NoRepeats(pQueue) /\ ReadyOnly /\ RunningLives /\ StartedOnce

\* The inductive invariant.
JoinInv ==
  TypeOK /\ PlaceInv /\ TableFilled /\ SlotsWait /\ RecordedEnded /\ JoinersWait

-----------------------------------------------------------------------------
(* The ready queues as a place to be in. *)

\* the arrays after an insertion at level p and after a removal from it
LEMMA InsertShape ==
  ASSUME NEW q \in Queues, NEW t \in Threads, NEW p \in Levels
  PROVE  LET h == Insert(q, t, p)
         IN  /\ \A r \in Levels :
                  /\ Len(q[r]) \in Nat
                  /\ Len(h[r]) = IF r = p THEN Len(q[r]) + 1 ELSE Len(q[r])
                  /\ \A i \in 1 .. Len(q[r]) : h[r][i] = q[r][i]
             /\ h[p][Len(q[p]) + 1] = t
  <1>1. ASSUME NEW r \in Levels
        PROVE  /\ q[r] \in Seq(Threads) /\ Len(q[r]) \in Nat
               /\ Len(Append(q[r], t)) = Len(q[r]) + 1
               /\ \A i \in 1 .. Len(q[r]) : Append(q[r], t)[i] = q[r][i]
               /\ Append(q[r], t)[Len(q[r]) + 1] = t
    <2>1. q[r] \in Seq(Threads)
      BY DEF Queues
    <2> QED
      BY <2>1
  <1>2. \A r \in Levels \ {p} : Insert(q, t, p)[r] = q[r]
    BY InsertLemma
  <1>3. Insert(q, t, p)[p] = Append(q[p], t)
    BY InsertLemma
  <1>4. \A r \in Levels \ {p} :
           /\ Len(q[r]) \in Nat
           /\ Len(Insert(q, t, p)[r]) = Len(q[r])
           /\ \A i \in 1 .. Len(q[r]) : Insert(q, t, p)[r][i] = q[r][i]
    BY <1>1, <1>2
  <1>5. /\ Len(q[p]) \in Nat
        /\ Len(Insert(q, t, p)[p]) = Len(q[p]) + 1
        /\ \A i \in 1 .. Len(q[p]) : Insert(q, t, p)[p][i] = q[p][i]
        /\ Insert(q, t, p)[p][Len(q[p]) + 1] = t
    BY <1>1, <1>3
  <1> QED
    BY <1>4, <1>5, Zenon

LEMMA RemovedShape ==
  ASSUME NEW q \in Queues, NEW p \in Levels, q[p] # <<>>
  PROVE  LET h == Removed(q, p)
         IN  /\ \A r \in Levels \ {p} : h[r] = q[r]
             /\ Len(q[p]) \in Nat \ {0}
             /\ Len(h[p]) = Len(q[p]) - 1
             /\ \A i \in 1 .. Len(q[p]) - 1 : h[p][i] = q[p][i + 1]
             /\ Head(q[p]) = q[p][1] /\ Head(q[p]) \in Threads
  <1>1. q[p] \in Seq(Threads)
    BY DEF Queues
  <1>2. /\ Len(q[p]) \in Nat \ {0}
        /\ Len(Tail(q[p])) = Len(q[p]) - 1
        /\ \A i \in 1 .. Len(q[p]) - 1 : Tail(q[p])[i] = q[p][i + 1]
        /\ Head(q[p]) = q[p][1] /\ Head(q[p]) \in Threads
    BY <1>1
  <1>3. \A r \in Levels : Removed(q, p)[r] = IF r = p THEN Tail(q[p]) ELSE q[r]
    BY RemovedLemma
  <1> QED
    BY <1>2, <1>3

LEMMA InsertPlaces ==
  ASSUME NEW q \in Queues, NEW t \in Threads, NEW p \in Levels
  PROVE  \A x \in Threads :
           InQueues(Insert(q, t, p), x) <=> InQueues(q, x) \/ x = t
  <1> DEFINE h == Insert(q, t, p)
  <1>1. /\ \A r \in Levels :
             /\ Len(q[r]) \in Nat
             /\ Len(h[r]) = IF r = p THEN Len(q[r]) + 1 ELSE Len(q[r])
             /\ \A i \in 1 .. Len(q[r]) : h[r][i] = q[r][i]
        /\ h[p][Len(q[p]) + 1] = t
    BY InsertShape
  <1> HIDE DEF h
  <1> SUFFICES ASSUME NEW x \in Threads
               PROVE  InQueues(h, x) <=> InQueues(q, x) \/ x = t
    BY DEF h
  <1>2. InQueues(h, x) => InQueues(q, x) \/ x = t
    BY <1>1 DEF InQueues
  <1>3. InQueues(q, x) => InQueues(h, x)
    BY <1>1 DEF InQueues
  <1>4. InQueues(h, t)
    <2>1. Len(q[p]) + 1 \in 1 .. Len(h[p])
      BY <1>1
    <2> QED
      BY <1>1, <2>1 DEF InQueues
  <1> QED
    BY <1>2, <1>3, <1>4

LEMMA InsertNoRepeats ==
  ASSUME NEW q \in Queues, NEW t \in Threads, NEW p \in Levels,
         NoRepeats(q), ~InQueues(q, t)
  PROVE  NoRepeats(Insert(q, t, p))
  <1> DEFINE h == Insert(q, t, p)
  <1>1. /\ \A r \in Levels :
             /\ Len(q[r]) \in Nat
             /\ Len(h[r]) = IF r = p THEN Len(q[r]) + 1 ELSE Len(q[r])
             /\ \A i \in 1 .. Len(q[r]) : h[r][i] = q[r][i]
        /\ h[p][Len(q[p]) + 1] = t
    BY InsertShape
  <1> HIDE DEF h
  <1> SUFFICES ASSUME NEW r \in Levels, NEW s \in Levels,
                      NEW i \in 1 .. Len(h[r]), NEW k \in 1 .. Len(h[s]),
                      h[r][i] = h[s][k]
               PROVE  r = s /\ i = k
    BY DEF NoRepeats, h
  <1>2. \/ r = p /\ i = Len(q[p]) + 1 /\ h[r][i] = t
        \/ i \in 1 .. Len(q[r]) /\ h[r][i] = q[r][i]
    BY <1>1
  <1>3. \/ s = p /\ k = Len(q[p]) + 1 /\ h[s][k] = t
        \/ k \in 1 .. Len(q[s]) /\ h[s][k] = q[s][k]
    BY <1>1
  <1> QED
    BY <1>2, <1>3 DEF NoRepeats, InQueues

LEMMA RemovedPlaces ==
  ASSUME NEW q \in Queues, NEW p \in Levels, q[p] # <<>>, NoRepeats(q)
  PROVE  /\ NoRepeats(Removed(q, p))
         /\ Head(q[p]) \in Threads /\ InQueues(q, Head(q[p]))
         /\ \A x \in Threads :
              InQueues(Removed(q, p), x) <=> InQueues(q, x) /\ x # Head(q[p])
  <1> DEFINE h == Removed(q, p)
             t == Head(q[p])
             at(r, i) == IF r = p THEN i + 1 ELSE i
  <1>1. /\ \A r \in Levels \ {p} : h[r] = q[r]
        /\ Len(q[p]) \in Nat \ {0}
        /\ Len(h[p]) = Len(q[p]) - 1
        /\ \A i \in 1 .. Len(q[p]) - 1 : h[p][i] = q[p][i + 1]
        /\ t = q[p][1] /\ t \in Threads
    BY RemovedShape
  <1> HIDE DEF h, t
  <1>2. \A r \in Levels : \A i \in 1 .. Len(h[r]) :
          /\ i \in Int /\ at(r, i) \in 1 .. Len(q[r]) /\ h[r][i] = q[r][at(r, i)]
          /\ r = p => at(r, i) # 1
    BY <1>1
  <1>3. NoRepeats(h)
    <2> SUFFICES ASSUME NEW r \in Levels, NEW s \in Levels,
                        NEW i \in 1 .. Len(h[r]), NEW k \in 1 .. Len(h[s]),
                        h[r][i] = h[s][k]
                 PROVE  r = s /\ i = k
      BY DEF NoRepeats
    <2>1. /\ i \in Int /\ at(r, i) \in 1 .. Len(q[r])
          /\ k \in Int /\ at(s, k) \in 1 .. Len(q[s])
          /\ q[r][at(r, i)] = q[s][at(s, k)]
      BY <1>2
    <2>2. r = s /\ at(r, i) = at(s, k)
      <3> HIDE DEF at
      <3> QED
        BY <2>1 DEF NoRepeats
    <2> QED
      BY <2>1, <2>2
  <1>4. 1 \in 1 .. Len(q[p])
    BY <1>1
  <1>5. InQueues(q, t)
    BY <1>1, <1>4 DEF InQueues
  <1>6. ASSUME NEW x \in Threads, InQueues(h, x)
        PROVE  InQueues(q, x) /\ x # t
    <2>1. PICK r \in Levels : \E i \in 1 .. Len(h[r]) : h[r][i] = x
      BY <1>6 DEF InQueues
    <2>2. PICK k \in 1 .. Len(q[r]) : q[r][k] = x /\ (r = p => k # 1)
      BY <1>2, <2>1
    <2>3. x # t
      BY <1>1, <1>4, <2>2 DEF NoRepeats
    <2> QED
      BY <2>2, <2>3 DEF InQueues
  <1>7. ASSUME NEW x \in Threads, InQueues(q, x), x # t
        PROVE  InQueues(h, x)
    <2>1. PICK r \in Levels : \E i \in 1 .. Len(q[r]) : q[r][i] = x
      BY <1>7 DEF InQueues
    <2>2. PICK i \in 1 .. Len(q[r]) : q[r][i] = x
      BY <2>1
    <2>3. CASE r = p
      <3>1. i - 1 \in 1 .. Len(h[r]) /\ i - 1 \in 1 .. Len(q[p]) - 1
            /\ (i - 1) + 1 = i
        BY <1>1, <1>7, <2>2, <2>3
      <3>2. h[r][i - 1] = x
        BY <1>1, <2>2, <2>3, <3>1
      <3> QED
        BY <3>1, <3>2 DEF InQueues
    <2>4. CASE r # p
      BY <1>1, <2>2, <2>4 DEF InQueues
    <2> QED
      BY <2>3, <2>4
  <1> QED
    BY <1>1, <1>3, <1>5, <1>6, <1>7 DEF h, t

-----------------------------------------------------------------------------
(* The places of the threads in every step of the kernel.                   *)

\* The thread that the running one would wake waits.
WokenWaits ==
  LET me == currentRunningThread
      w  == tcbWaiting[scan[me]]
  IN  InWake /\ scan[me] < WaitSlots /\ WaitsFor(w, me) => Joining(w)

\* what TypeOK says of the queues and the running thread
LEMMA PlaceTypes ==
  ASSUME TypeOK
  PROVE  /\ pQueue \in Queues
         /\ priority \in [Threads -> Levels]
         /\ \A t \in Threads : Queued(t) <=> InQueues(pQueue, t)
         /\ cpu \in {"thread", "resume"} =>
              currentRunningThread \in Threads /\ OnProcessor(currentRunningThread)
  BY DEF TypeOK, Queues, Queued, InQueues, OnProcessor

\* A thread in no queue is put into one.
LEMMA QueuePlace ==
  ASSUME TypeOK, PlaceInv, NEW t \in Threads, NEW p \in Levels, ~Queued(t)
  PROVE  /\ Insert(pQueue, t, p) \in Queues
         /\ NoRepeats(Insert(pQueue, t, p))
         /\ \A x \in Threads :
              InQueues(Insert(pQueue, t, p), x) <=> Queued(x) \/ x = t
  BY PlaceTypes, InsertPlaces, InsertNoRepeats, InsertLemma DEF PlaceInv

\* A new thread is in no place yet, and is put into a queue.
LEMMA NewPlace ==
  ASSUME TypeOK, PlaceInv, NEW p \in Levels, NewTcb(p)
  PROVE  LET new == gThreadID + 1
         IN  /\ new \in Threads /\ ~Born(new) /\ ~OnProcessor(new)
             /\ context[new] = "none" /\ pc[new] = "body"
             /\ \A t \in Threads : Born(t)' <=> Born(t) \/ t = new
             /\ \A t \in Threads : Born(t) => /\ t # new
                                              /\ flag'[t] = flag[t]
                                              /\ priority'[t] = priority[t]
             /\ Insert(pQueue, new, p) \in Queues
             /\ NoRepeats(Insert(pQueue, new, p))
             /\ \A x \in Threads :
                  InQueues(Insert(pQueue, new, p), x) <=> Queued(x) \/ x = new
  <1> DEFINE new == gThreadID + 1
  <1>1. new \in Threads
    BY NewTcbType
  <1>2. /\ gThreadID' = new /\ gThreadID \in Int
        /\ flag' = [flag EXCEPT ![new] = 1]
        /\ priority' = [priority EXCEPT ![new] = p]
    BY KernelAssumption DEF NewTcb, TypeOK
  <1>3. \A t \in Threads : t \in Int
    BY DEF Threads
  <1>4. ~Born(new)
    BY <1>2 DEF Born
  <1>5. ~Queued(new) /\ ~OnProcessor(new) /\ context[new] = "none" /\ pc[new] = "body"
    BY <1>1, <1>4 DEF PlaceInv, ReadyOnly, RunningLives, StartedOnce
  <1>6. \A t \in Threads : Born(t) => /\ t # new
                                      /\ flag'[t] = flag[t]
                                      /\ priority'[t] = priority[t]
    <2>1. \A t \in Threads : Born(t) => t # new
      BY <1>4
    <2>2. \A t \in Threads : t # new =>
            flag'[t] = flag[t] /\ priority'[t] = priority[t]
      BY <1>1, <1>2 DEF TypeOK
    <2> QED
      BY <2>1, <2>2
  <1>7. \A t \in Threads : Born(t)' <=> Born(t) \/ t = new
    <2>1. \A t \in Threads : t <= new <=> t <= gThreadID \/ t = new
      BY <1>2, <1>3
    <2> QED
      BY <1>2, <2>1 DEF Born
  <1> HIDE DEF new
  <1>8. /\ Insert(pQueue, new, p) \in Queues
        /\ NoRepeats(Insert(pQueue, new, p))
        /\ \A x \in Threads :
             InQueues(Insert(pQueue, new, p), x) <=> Queued(x) \/ x = new
    BY <1>1, <1>5, QueuePlace
  <1> QED
    BY <1>1, <1>4, <1>5, <1>6, <1>7, <1>8 DEF new

\* The running thread puts itself into a queue and leaves the processor.
LEMMA RequeuePlace ==
  ASSUME TypeOK, PlaceInv, cpu = "thread",
         NEW n, NEW where \in Contexts \ {"none", "t_join"},
         Requeue(pQueue, n, where),
         UNCHANGED <<currentRunningThread, gThreadID, flag, pc>>
  PROVE  /\ PlaceInv'
         /\ \A t \in Threads : Parked(t) => StaysParked(t)
  <1> DEFINE me == currentRunningThread
  <1>1. /\ me \in Threads /\ OnProcessor(me) /\ priority[me] \in Levels
        /\ pQueue \in Queues
    BY PlaceTypes
  <1>2. Born(me) /\ pc[me] # "done" /\ flag[me] = 0 /\ ~Queued(me)
    BY <1>1 DEF PlaceInv, RunningLives, ReadyOnly
  <1>3. /\ pQueue' = Insert(pQueue, me, priority[me])
        /\ context' = [context EXCEPT ![me] = where]
        /\ cpu' = "scheduler"
    BY DEF Requeue, Park
  <1>4. /\ NoRepeats(pQueue')
        /\ \A t \in Threads : Queued(t)' <=> Queued(t) \/ t = me
    <2>1. \A t \in Threads : Queued(t)' <=> InQueues(pQueue', t)
      BY DEF Queued, InQueues
    <2> QED
      BY <1>1, <1>2, <1>3, <2>1, QueuePlace
  <1>5. \A t \in Threads : ~OnProcessor(t)' /\ (Born(t)' <=> Born(t))
    BY <1>3 DEF OnProcessor, Born
  <1>6. ReadyOnly' /\ RunningLives'
    BY <1>2, <1>4, <1>5 DEF PlaceInv, ReadyOnly, RunningLives
  <1>7. StartedOnce'
    BY <1>1, <1>2, <1>3, <1>5 DEF PlaceInv, StartedOnce, TypeOK
  <1>8. \A t \in Threads : Parked(t) => StaysParked(t)
    BY <1>1, <1>3, <1>4, <1>5 DEF StaysParked, Parked, TypeOK
  <1> QED
    BY <1>4, <1>6, <1>7, <1>8 DEF PlaceInv

\* A thread is forked by the running one, which may yield to it.
LEMMA ForkPlace ==
  ASSUME TypeOK, PlaceInv, NEW p \in Levels, t_fork(p)
  PROVE  /\ PlaceInv'
         /\ \A t \in Threads : Parked(t) => StaysParked(t)
  <1> DEFINE me  == currentRunningThread
             new == gThreadID + 1
             q   == Insert(pQueue, new, p)
             n   == CountUp(threadLevelCount, p)
  <1>1. NewTcb(p) /\ cpu = "thread" /\ UNCHANGED <<currentRunningThread, pc>>
    BY DEF t_fork, InBody, exitVars
  <1>2. /\ new \in Threads /\ ~Born(new) /\ ~OnProcessor(new)
        /\ context[new] = "none" /\ pc[new] = "body"
        /\ \A t \in Threads : Born(t)' <=> Born(t) \/ t = new
        /\ \A t \in Threads : Born(t) => /\ t # new
                                         /\ flag'[t] = flag[t]
                                         /\ priority'[t] = priority[t]
        /\ q \in Queues /\ NoRepeats(q)
        /\ \A x \in Threads : InQueues(q, x) <=> Queued(x) \/ x = new
    BY <1>1, NewPlace
  <1>3. /\ me \in Threads /\ OnProcessor(me) /\ priority[me] \in Levels
    BY <1>1, PlaceTypes
  <1>4. Born(me) /\ me # new /\ pc[me] # "done" /\ flag[me] = 0 /\ ~Queued(me)
    BY <1>2, <1>3 DEF PlaceInv, RunningLives, ReadyOnly
  <1>5. \A t \in Threads : Queued(t)' <=> InQueues(pQueue', t)
    BY DEF Queued, InQueues
  <1> HIDE DEF q, n, new, me
  <1>6. CASE Requeue(q, n, "t_yield")
    <2>1. /\ pQueue' = Insert(q, me, priority[me])
          /\ context' = [context EXCEPT ![me] = "t_yield"]
          /\ cpu' = "scheduler"
      BY <1>6 DEF Requeue, Park, me
    <2>2. /\ NoRepeats(pQueue')
          /\ \A t \in Threads : Queued(t)' <=> Queued(t) \/ t = new \/ t = me
      BY <1>2, <1>3, <1>4, <1>5, <2>1, InsertNoRepeats, InsertPlaces
    <2>3. \A t \in Threads : ~OnProcessor(t)'
      BY <2>1 DEF OnProcessor
    <2>4. ReadyOnly' /\ RunningLives'
      BY <1>1, <1>2, <1>4, <2>2, <2>3 DEF PlaceInv, ReadyOnly, RunningLives
    <2>5. StartedOnce'
      BY <1>1, <1>2, <1>3, <1>4, <2>1 DEF PlaceInv, StartedOnce, TypeOK
    <2>6. \A t \in Threads : Parked(t) => StaysParked(t)
      BY <1>1, <1>2, <1>3, <2>1, <2>2, <2>3 DEF StaysParked, Parked, TypeOK
    <2> QED
      BY <2>2, <2>4, <2>5, <2>6 DEF PlaceInv
  <1>7. CASE pQueue' = q /\ UNCHANGED <<context, cpu>>
    <2>1. /\ NoRepeats(pQueue')
          /\ \A t \in Threads : Queued(t)' <=> Queued(t) \/ t = new
      BY <1>2, <1>5, <1>7
    <2>2. \A t \in Threads : OnProcessor(t)' <=> OnProcessor(t)
      BY <1>1, <1>7 DEF OnProcessor
    <2>3. ReadyOnly' /\ RunningLives'
      BY <1>1, <1>2, <2>1, <2>2 DEF PlaceInv, ReadyOnly, RunningLives
    <2>4. StartedOnce'
      BY <1>1, <1>2, <1>7 DEF PlaceInv, StartedOnce
    <2>5. \A t \in Threads : Parked(t) => StaysParked(t)
      BY <1>1, <1>2, <1>7, <2>1, <2>2 DEF StaysParked, Parked
    <2> QED
      BY <2>1, <2>3, <2>4, <2>5 DEF PlaceInv
  <1> QED
    BY <1>6, <1>7 DEF t_fork, q, n, new, me

\* Scheduler gives the processor to the head of a queue.
LEMMA DispatchPlace ==
  ASSUME TypeOK, PlaceInv, NEW y \in Levels, dispatch(y)
  PROVE  /\ PlaceInv'
         /\ \A t \in Threads : Parked(t) => StaysParked(t)
  <1> DEFINE h == Head(pQueue[y])
  <1>1. /\ cpu = "scheduler" /\ pQueue[y] # <<>>
        /\ pQueue' = Removed(pQueue, y)
        /\ currentRunningThread' = h
        /\ cpu' \in {"thread", "resume"}
        /\ UNCHANGED <<gThreadID, context, pc>>
        /\ \/ flag' = [flag EXCEPT ![h] = 0]
           \/ flag[h] = 0 /\ flag' = flag
    BY DEF dispatch, exitVars
  <1>2. /\ NoRepeats(pQueue') /\ h \in Threads /\ Queued(h)
        /\ \A t \in Threads : Queued(t)' <=> Queued(t) /\ t # h
    <2>1. \A t \in Threads : Queued(t)' <=> InQueues(pQueue', t)
      BY DEF Queued, InQueues
    <2>2. pQueue \in Queues /\ \A t \in Threads : Queued(t) <=> InQueues(pQueue, t)
      BY PlaceTypes
    <2> QED
      BY <1>1, <2>1, <2>2, RemovedPlaces DEF PlaceInv
  <1> HIDE DEF h
  <1>3. \A t \in Threads : /\ OnProcessor(t)' <=> t = h
                           /\ ~OnProcessor(t)
                           /\ Born(t)' <=> Born(t)
    BY <1>1 DEF OnProcessor, Born
  <1>4. \A t \in Threads : flag'[t] = IF t = h THEN 0 ELSE flag[t]
    BY <1>1, <1>2 DEF TypeOK
  <1>5. ReadyOnly' /\ RunningLives'
    BY <1>1, <1>2, <1>3, <1>4 DEF PlaceInv, ReadyOnly, RunningLives
  <1>6. StartedOnce'
    BY <1>1, <1>3, <1>4 DEF PlaceInv, StartedOnce
  <1>7. \A t \in Threads : Parked(t) => StaysParked(t)
    BY <1>1, <1>2, <1>3 DEF StaysParked, Parked
  <1> QED
    BY <1>2, <1>5, <1>6, <1>7 DEF PlaceInv

\* The running thread wakes the one it found in a slot.
LEMMA WakePlace ==
  ASSUME TypeOK, PlaceInv, WokenWaits, wakeSlot
  PROVE  LET me == currentRunningThread
             w  == tcbWaiting[scan[me]]
         IN  /\ PlaceInv'
             /\ \A t \in Threads :
                  Parked(t) => StaysParked(t) \/ (t = w /\ WaitsFor(w, me))
  <1> DEFINE me == currentRunningThread
             w  == tcbWaiting[scan[me]]
  <1>1. /\ InWake /\ scan[me] < WaitSlots
        /\ UNCHANGED <<currentRunningThread, gThreadID, flag, context, pc, cpu>>
    BY DEF wakeSlot, tcbVars
  <1>2. /\ me \in Threads /\ OnProcessor(me) /\ scan[me] \in Slots
        /\ pQueue \in Queues
    <2>1. me \in Threads /\ OnProcessor(me) /\ pQueue \in Queues
      BY <1>1, PlaceTypes DEF InWake
    <2>2. scan[me] \in 0 .. WaitSlots
      BY <2>1 DEF TypeOK
    <2> QED
      BY <1>1, <2>1, <2>2, KernelAssumption DEF Slots
  <1>3. w \in Threads \cup {NoThread}
    BY <1>2 DEF TypeOK
  <1>4. \A t \in Threads : /\ Queued(t)' <=> InQueues(pQueue', t)
                           /\ OnProcessor(t)' <=> OnProcessor(t)
                           /\ Born(t)' <=> Born(t)
    BY <1>1 DEF Queued, InQueues, OnProcessor, Born
  <1>5. CASE WaitsFor(w, me)
    <2>1. w \in Threads /\ Joining(w)
      BY <1>1, <1>3, <1>5 DEF WokenWaits, WaitsFor
    <2>2. priority[w] \in Levels /\ pQueue' = Insert(pQueue, w, priority[w])
      BY <1>5, <2>1, PlaceTypes DEF wakeSlot
    <2>3. /\ ~Queued(w) /\ ~OnProcessor(w) /\ Born(w) /\ pc[w] = "body"
      BY <2>1 DEF Joining, Parked
    <2> HIDE DEF w, me
    <2>4. /\ NoRepeats(pQueue')
          /\ \A t \in Threads : Queued(t)' <=> Queued(t) \/ t = w
      BY <1>4, <2>1, <2>2, <2>3, QueuePlace
    <2>5. ReadyOnly' /\ RunningLives' /\ StartedOnce'
      BY <1>1, <1>4, <2>3, <2>4
      DEF PlaceInv, ReadyOnly, RunningLives, StartedOnce
    <2>6. \A t \in Threads : Parked(t) => StaysParked(t) \/ t = w
      BY <1>1, <1>4, <2>4 DEF StaysParked, Parked
    <2> QED
      BY <1>5, <2>4, <2>5, <2>6 DEF PlaceInv, w, me
  <1>6. CASE ~WaitsFor(w, me)
    <2>1. pQueue' = pQueue
      BY <1>6 DEF wakeSlot, readyVars
    <2>2. \A t \in Threads : Queued(t)' <=> Queued(t)
      BY <2>1 DEF Queued
    <2>3. PlaceInv'
      BY <1>1, <1>4, <2>1, <2>2
      DEF PlaceInv, ReadyOnly, RunningLives, StartedOnce
    <2> QED
      BY <1>1, <1>4, <2>2, <2>3 DEF StaysParked, Parked
  <1> QED
    BY <1>5, <1>6

LEMMA PlaceStep ==
  ASSUME TypeOK, PlaceInv, WokenWaits, [KernelNext]_kernelVars
  PROVE  LET me == currentRunningThread
             w  == tcbWaiting[scan[me]]
         IN  /\ PlaceInv'
             /\ \A t \in Threads :
                  Parked(t) => \/ StaysParked(t)
                               \/ wakeSlot /\ t = w /\ WaitsFor(w, me)
  <1> DEFINE me == currentRunningThread
             w  == tcbWaiting[scan[me]]
  \* a step that leaves the queues alone
  <1>0. ASSUME UNCHANGED pQueue
        PROVE  /\ NoRepeats(pQueue')
               /\ \A t \in Threads : Queued(t)' <=> Queued(t)
    BY <1>0 DEF PlaceInv, Queued
  <1>1. ASSUME NEW p \in Levels, t_start(p)
        PROVE  PlaceInv' /\ \A t \in Threads : Parked(t) => StaysParked(t)
    <2> DEFINE new == gThreadID + 1
               q   == Insert(pQueue, new, p)
    <2>1. /\ cpu = "t_start" /\ cpu' = "scheduler" /\ NewTcb(p)
          /\ pQueue' = q
          /\ UNCHANGED <<currentRunningThread, context, pc>>
      BY <1>1 DEF t_start, exitVars
    <2>2. /\ new \in Threads /\ pc[new] = "body"
          /\ context[new] = "none"
          /\ \A t \in Threads : Born(t)' <=> Born(t) \/ t = new
          /\ \A t \in Threads : Born(t) => t # new /\ flag'[t] = flag[t]
          /\ NoRepeats(q)
          /\ \A x \in Threads : InQueues(q, x) <=> Queued(x) \/ x = new
      BY <2>1, NewPlace
    <2> HIDE DEF q, new
    <2>3. \A t \in Threads : /\ Queued(t)' <=> Queued(t) \/ t = new
                             /\ ~OnProcessor(t)' /\ ~OnProcessor(t)
      BY <2>1, <2>2 DEF Queued, InQueues, OnProcessor
    <2>4. ReadyOnly' /\ RunningLives' /\ StartedOnce'
      BY <2>1, <2>2, <2>3 DEF PlaceInv, ReadyOnly, RunningLives, StartedOnce
    <2> QED
      BY <2>1, <2>2, <2>3, <2>4 DEF PlaceInv, StaysParked, Parked
  <1>2. ASSUME NEW p \in Levels, t_fork(p)
        PROVE  PlaceInv' /\ \A t \in Threads : Parked(t) => StaysParked(t)
    BY <1>2, ForkPlace
  <1>3. CASE t_yield \/ timerHandler
    <2>1. /\ cpu = "thread"
          /\ \E where \in Contexts \ {"none", "t_join"} :
               Requeue(pQueue, threadLevelCount, where)
          /\ UNCHANGED <<currentRunningThread, gThreadID, flag, pc>>
      BY <1>3 DEF t_yield, timerHandler, InBody, Contexts, ResumeByEnabling,
                  tcbVars, exitVars
    <2> QED
      BY <2>1, RequeuePlace
  <1>4. ASSUME NEW u \in Threads, t_join(u)
        PROVE  PlaceInv' /\ \A t \in Threads : Parked(t) => StaysParked(t)
    <2>1. /\ cpu = "thread" /\ me \in Threads /\ OnProcessor(me)
          /\ UNCHANGED <<currentRunningThread, gThreadID, pc, pQueue>>
      BY <1>4, PlaceTypes DEF t_join, InBody, Park, exitVars, readyVars
    <2>2. Born(me) /\ flag[me] = 0
      BY <2>1 DEF PlaceInv, RunningLives
    <2>3. CASE UNCHANGED <<context, cpu, flag>>
      <3>1. \A t \in Threads : /\ OnProcessor(t)' <=> OnProcessor(t)
                               /\ Born(t)' <=> Born(t)
        BY <2>1, <2>3 DEF OnProcessor, Born
      <3>2. ReadyOnly' /\ RunningLives' /\ StartedOnce'
        BY <1>0, <2>1, <2>3, <3>1
        DEF PlaceInv, ReadyOnly, RunningLives, StartedOnce
      <3> QED
        BY <1>0, <2>1, <2>3, <3>1, <3>2 DEF PlaceInv, StaysParked, Parked
    <2>4. CASE /\ flag' = [flag EXCEPT ![me] = 0]
               /\ context' = [context EXCEPT ![me] = "t_join"]
               /\ cpu' = "scheduler"
      <3>1. \A t \in Threads : ~OnProcessor(t)' /\ (Born(t)' <=> Born(t))
        BY <2>1, <2>4 DEF OnProcessor, Born
      <3>2. /\ ReadyOnly' /\ RunningLives'
        BY <1>0, <2>1, <3>1 DEF PlaceInv, ReadyOnly, RunningLives
      <3>3. StartedOnce'
        BY <2>1, <2>2, <2>4, <3>1 DEF PlaceInv, StartedOnce, TypeOK
      <3>4. \A t \in Threads : Parked(t) => StaysParked(t)
        BY <1>0, <2>1, <2>4, <3>1 DEF StaysParked, Parked, TypeOK
      <3> QED
        BY <1>0, <2>1, <3>2, <3>3, <3>4 DEF PlaceInv
    <2> QED
      BY <1>4, <2>3, <2>4 DEF t_join, Park
  <1>5. CASE t_exit \/ retire
    <2>1. /\ me \in Threads /\ OnProcessor(me) /\ cpu' = "scheduler"
          /\ pc' = [pc EXCEPT ![me] = "done"]
          /\ UNCHANGED <<currentRunningThread, gThreadID, pQueue, flag, context>>
      BY <1>5, PlaceTypes
      DEF t_exit, retire, InBody, InWake, readyVars, tcbVars
    <2>2. Born(me) /\ ~Queued(me)
      BY <2>1 DEF PlaceInv, RunningLives, ReadyOnly
    <2>3. \A t \in Threads : /\ ~OnProcessor(t)' /\ (Born(t)' <=> Born(t))
                             /\ t # me => pc'[t] = pc[t]
      BY <2>1 DEF OnProcessor, Born, TypeOK
    <2>4. ReadyOnly' /\ RunningLives' /\ StartedOnce'
      BY <1>0, <2>1, <2>2, <2>3
      DEF PlaceInv, ReadyOnly, RunningLives, StartedOnce
    <2>5. \A t \in Threads : Parked(t) => StaysParked(t)
      BY <1>0, <2>1, <2>3 DEF StaysParked, Parked
    <2> QED
      BY <1>0, <2>1, <2>4, <2>5 DEF PlaceInv
  <1>6. CASE userFunctionReturns
    <2>1. /\ me \in Threads /\ OnProcessor(me)
          /\ pc' = [pc EXCEPT ![me] = "wake"]
          /\ UNCHANGED <<currentRunningThread, gThreadID, pQueue, flag, context,
                         cpu>>
      BY <1>6, PlaceTypes DEF userFunctionReturns, InBody, readyVars, tcbVars
    <2>2. Born(me)
      BY <2>1 DEF PlaceInv, RunningLives
    <2>3. \A t \in Threads : /\ OnProcessor(t)' <=> OnProcessor(t)
                             /\ Born(t)' <=> Born(t)
                             /\ pc'[t] = IF t = me THEN "wake" ELSE pc[t]
      BY <2>1 DEF OnProcessor, Born, TypeOK
    <2>4. ReadyOnly' /\ RunningLives' /\ StartedOnce'
      BY <1>0, <2>1, <2>2, <2>3
      DEF PlaceInv, ReadyOnly, RunningLives, StartedOnce
    <2>5. \A t \in Threads : Parked(t) => StaysParked(t)
      BY <1>0, <2>1, <2>3 DEF StaysParked, Parked
    <2> QED
      BY <1>0, <2>1, <2>4, <2>5 DEF PlaceInv
  <1>7. CASE wakeSlot
    BY <1>7, WakePlace
  <1>8. ASSUME NEW y \in Levels, dispatch(y)
        PROVE  PlaceInv' /\ \A t \in Threads : Parked(t) => StaysParked(t)
    BY <1>8, DispatchPlace
  <1>9. CASE \/ schedulerReturns \/ resume \/ callUserFunction \/ halted
             \/ UNCHANGED kernelVars
    <2>1. /\ UNCHANGED <<pQueue, currentRunningThread, gThreadID, flag, context,
                         pc>>
          /\ \/ cpu \in {"resume", "thread"} /\ cpu' \in {"resume", "thread"}
             \/ cpu \notin {"resume", "thread"} /\ cpu' \notin {"resume", "thread"}
      BY <1>9 DEF schedulerReturns, resume, callUserFunction, halted, kernelVars,
                  readyVars, tcbVars, exitVars
    <2>2. \A t \in Threads : /\ OnProcessor(t)' <=> OnProcessor(t)
                             /\ Born(t)' <=> Born(t)
      BY <2>1 DEF OnProcessor, Born
    <2>3. ReadyOnly' /\ RunningLives' /\ StartedOnce'
      BY <1>0, <2>1, <2>2 DEF PlaceInv, ReadyOnly, RunningLives, StartedOnce
    <2> QED
      BY <1>0, <2>1, <2>2, <2>3 DEF PlaceInv, StaysParked, Parked
  <1> QED
    BY <1>1, <1>2, <1>3, <1>4, <1>5, <1>6, <1>7, <1>8, <1>9
    DEF KernelNext, schedulerStep, epilogueStep

-----------------------------------------------------------------------------
(* The global userFunction holds a function from the first start on.        *)

UserInv ==
  \/ userFunction \in Threads
  \/ /\ cpu \in {"t_start", "scheduler", "returned"}
     /\ \A t \in Threads : Born(t) => flag[t] = 1

LEMMA UserInit == KernelInit => UserInv
  BY DEF KernelInit, UserInv, Born, Threads

LEMMA UserStep ==
  ASSUME TypeOK, PlaceInv, UserInv, [KernelNext]_kernelVars
  PROVE  UserInv'
  <1>i. gThreadID \in Int /\ flag \in [Threads -> {0, 1}]
    BY KernelAssumption DEF TypeOK
  <1>1. CASE UNCHANGED <<userFunction, cpu, gThreadID, flag>>
    BY <1>1 DEF UserInv, Born
  <1>2. CASE userFunction \in Threads /\ UNCHANGED userFunction
    BY <1>2 DEF UserInv
  <1>3. ASSUME NEW p \in Levels, t_start(p) PROVE UserInv'
    <2>1. /\ gThreadID + 1 \in Threads /\ gThreadID' = gThreadID + 1
          /\ flag' = [flag EXCEPT ![gThreadID + 1] = 1]
          /\ cpu' = "scheduler" /\ cpu = "t_start" /\ UNCHANGED userFunction
      BY <1>3, <1>i, NewTcbType DEF t_start, NewTcb, startVars
    <2>2. \A t \in Threads : t <= gThreadID + 1 => t <= gThreadID \/ t = gThreadID + 1
      BY <1>i DEF Threads
    <2> QED
      BY <1>i, <2>1, <2>2 DEF UserInv, Born
  <1>4. ASSUME NEW y \in Levels, dispatch(y) PROVE UserInv'
    <2> DEFINE t == Head(pQueue[y])
    <2>1. t \in Threads /\ t <= gThreadID
      <3>1. /\ pQueue[y] \in Seq(Threads) /\ pQueue[y] # <<>>
            /\ t = pQueue[y][1] /\ 1 \in 1 .. Len(pQueue[y])
        BY <1>4 DEF dispatch, TypeOK
      <3>2. t \in Threads /\ Queued(t)
        BY <3>1 DEF Queued
      <3> QED
        BY <3>2 DEF PlaceInv, ReadyOnly, Born
    <2>2. CASE flag[t] = 1
      BY <1>4, <2>1, <2>2 DEF dispatch, UserInv
    <2>3. CASE flag[t] # 1
      <3>1. userFunction \in Threads /\ UNCHANGED userFunction
        BY <1>4, <2>1, <2>3 DEF dispatch, UserInv, Born
      <3> QED
        BY <1>2, <3>1
    <2> QED
      BY <2>2, <2>3
  <1>5. CASE schedulerReturns
    BY <1>5 DEF schedulerReturns, UserInv, Born, tcbVars, startVars
  <1>6. CASE halted \/ UNCHANGED kernelVars
    BY <1>1, <1>6 DEF halted, kernelVars
  <1>7. CASE cpu \in {"thread", "resume"} /\ UNCHANGED userFunction
    BY <1>2, <1>7 DEF UserInv
  <1>8. ASSUME NEW p \in Levels, t_fork(p) PROVE UserInv'
    BY <1>7, <1>8 DEF t_fork, InBody, startVars
  <1>9. ASSUME NEW u \in Threads, t_join(u) PROVE UserInv'
    BY <1>7, <1>9 DEF t_join, InBody, startVars
  <1>10. CASE \/ t_yield \/ timerHandler \/ t_exit \/ callUserFunction
              \/ userFunctionReturns \/ wakeSlot \/ retire \/ resume
    BY <1>7, <1>10
    DEF t_yield, timerHandler, t_exit, callUserFunction, userFunctionReturns, wakeSlot,
        retire, resume, InBody, InWake, startVars
  <1> QED
    BY <1>3, <1>4, <1>5, <1>6, <1>8, <1>9, <1>10
    DEF KernelNext, schedulerStep, epilogueStep

\* What runs in a thread leaves the global alone.
LEMMA UserStays ==
  ASSUME UserInv, cpu \in {"thread", "resume"}, UNCHANGED startVars
  PROVE  UserInv'
  BY DEF UserInv, startVars

-----------------------------------------------------------------------------
(* How a thread comes to be parked. *)

\* The running thread goes to the queues, which are q otherwise.
LEMMA RequeueLeaves ==
  ASSUME TypeOK, cpu = "thread", NEW q \in Queues, NEW n, NEW where,
         Requeue(q, n, where), UNCHANGED currentRunningThread
  PROVE  /\ \A t \in Threads :
              /\ Queued(t)' <=> InQueues(q, t) \/ OnProcessor(t)
              /\ ~OnProcessor(t) => context'[t] = context[t]
              /\ ~OnProcessor(t)'
         /\ cpu' = "scheduler"
  <1> DEFINE me == currentRunningThread
  <1>1. /\ me \in Threads /\ priority[me] \in Levels
        /\ \A t \in Threads : OnProcessor(t) <=> t = me
    BY PlaceTypes DEF OnProcessor
  <1>2. /\ pQueue' = Insert(q, me, priority[me])
        /\ context' = [context EXCEPT ![me] = where]
        /\ cpu' = "scheduler"
    BY DEF Requeue, Park
  <1>3. \A t \in Threads : Queued(t)' <=> InQueues(pQueue', t)
    BY DEF Queued, InQueues
  <1>4. \A t \in Threads : InQueues(pQueue', t) <=> InQueues(q, t) \/ t = me
    BY <1>1, <1>2, InsertPlaces
  <1>5. \A t \in Threads : t # me => context'[t] = context[t]
    BY <1>2 DEF TypeOK
  <1>6. \A t \in Threads : ~OnProcessor(t)'
    BY <1>2 DEF OnProcessor
  <1> QED
    BY <1>1, <1>2, <1>3, <1>4, <1>5, <1>6

\* A thread is parked after a step if it was, in the same call, and is not
\* woken, or if it is the running one and t_join did not find its target.
LEMMA ParkStep ==
  ASSUME TypeOK, PlaceInv, [KernelNext]_kernelVars, NEW t \in Threads, Parked(t)'
  PROVE  LET me == currentRunningThread
             w  == tcbWaiting[scan[me]]
         IN  \/ /\ Parked(t) /\ context'[t] = context[t]
                /\ ~(wakeSlot /\ t = w /\ WaitsFor(w, me))
             \/ /\ t = me /\ context'[t] = "t_join"
                /\ \E u \in Threads : t_join(u) /\ ~Exited(u)
  <1> DEFINE me == currentRunningThread
             w  == tcbWaiting[scan[me]]
             Stays == Parked(t) /\ context'[t] = context[t]
  <1>t. /\ TypeOK /\ PlaceInv /\ pQueue \in Queues
        /\ Queued(t) <=> InQueues(pQueue, t)
        /\ Queued(t)' <=> InQueues(pQueue', t)
    BY PlaceTypes DEF Queued, InQueues
  <1>p. Born(t)' /\ pc'[t] = "body" /\ ~Queued(t)' /\ ~OnProcessor(t)'
    BY DEF Parked
  <1>w. ~(wakeSlot /\ t = w /\ WaitsFor(w, me))
    <2> SUFFICES ASSUME wakeSlot, t = w, WaitsFor(w, me) PROVE FALSE
      OBVIOUS
    <2>1. pQueue' = Insert(pQueue, t, priority[t]) /\ priority[t] \in Levels
      BY <1>t, PlaceTypes DEF wakeSlot
    <2> QED
      BY <1>t, <1>p, <2>1, InsertPlaces
  <1>1. ASSUME NEW p \in Levels, t_start(p) \/ t_fork(p)
        PROVE  Stays
    <2> DEFINE new == gThreadID + 1
               q   == Insert(pQueue, new, p)
               n   == CountUp(threadLevelCount, p)
    <2>1. NewTcb(p) /\ UNCHANGED <<currentRunningThread, pc>>
      BY <1>1 DEF t_start, t_fork, exitVars
    <2>2. /\ new \in Threads
          /\ Born(t)' <=> Born(t) \/ t = new
          /\ q \in Queues
          /\ \A x \in Threads : InQueues(q, x) <=> Queued(x) \/ x = new
      BY <1>t, <2>1, NewPlace
    <2>3. \/ /\ pQueue' = q /\ UNCHANGED context
             /\ OnProcessor(t) => OnProcessor(t)'
          \/ cpu = "thread" /\ Requeue(q, n, "t_yield")
      BY <1>1 DEF t_start, t_fork, OnProcessor, InBody
    <2> HIDE DEF q, new, n
    <2>4. CASE pQueue' = q /\ UNCHANGED context
               /\ (OnProcessor(t) => OnProcessor(t)')
      BY <1>t, <1>p, <2>1, <2>2, <2>4 DEF Parked
    <2>5. CASE cpu = "thread" /\ Requeue(q, n, "t_yield")
      <3>1. /\ InQueues(q, t) => Queued(t)'
            /\ OnProcessor(t) => Queued(t)'
            /\ ~OnProcessor(t) => context'[t] = context[t]
        BY <1>t, <2>1, <2>2, <2>5, RequeueLeaves
      <3> QED
        BY <1>p, <2>1, <2>2, <3>1 DEF Parked
    <2> QED
      BY <2>3, <2>4, <2>5
  <1>2. CASE t_yield \/ timerHandler
    <2>1. /\ cpu = "thread"
          /\ \E where \in Contexts : Requeue(pQueue, threadLevelCount, where)
          /\ UNCHANGED <<currentRunningThread, gThreadID, pc>>
      BY <1>2 DEF t_yield, timerHandler, InBody, Contexts, ResumeByEnabling,
                  tcbVars, exitVars
    <2>2. /\ Queued(t) => Queued(t)'
          /\ OnProcessor(t) => Queued(t)'
          /\ ~OnProcessor(t) => context'[t] = context[t]
      BY <1>t, <2>1, PlaceTypes, RequeueLeaves
    <2>3. Born(t)' <=> Born(t)
      BY <2>1 DEF Born
    <2> QED
      BY <1>p, <1>w, <2>1, <2>2, <2>3 DEF Parked
  <1>3. ASSUME NEW u \in Threads, t_join(u)
        PROVE  \/ Stays
               \/ t = me /\ context'[t] = "t_join" /\ ~Exited(u)
    <2>1. /\ UNCHANGED <<currentRunningThread, gThreadID, pc, pQueue>>
          /\ cpu = "thread"
          /\ \/ UNCHANGED <<context, cpu>>
             \/ ~Exited(u) /\ context' = [context EXCEPT ![me] = "t_join"]
      BY <1>3 DEF t_join, exitVars, readyVars, Park, InBody
    <2>2. (Queued(t)' <=> Queued(t)) /\ (Born(t)' <=> Born(t))
      BY <2>1 DEF Queued, Born
    <2>3. CASE UNCHANGED <<context, cpu>>
      BY <1>p, <2>1, <2>2, <2>3 DEF Parked, OnProcessor
    <2>4. CASE ~Exited(u) /\ context' = [context EXCEPT ![me] = "t_join"]
      BY <1>t, <1>p, <2>1, <2>2, <2>4 DEF Parked, OnProcessor, TypeOK
    <2> QED
      BY <2>1, <2>3, <2>4
  <1>4. CASE t_exit \/ retire \/ userFunctionReturns
    <2>1. /\ UNCHANGED <<currentRunningThread, gThreadID, context, pQueue>>
          /\ cpu = "thread" /\ me \in Threads
          /\ pc' = [pc EXCEPT ![me] = "done"] \/ pc' = [pc EXCEPT ![me] = "wake"]
      BY <1>4, <1>t, PlaceTypes
      DEF t_exit, retire, userFunctionReturns, readyVars, tcbVars, InBody, InWake
    <2>2. (Queued(t)' <=> Queued(t)) /\ (Born(t)' <=> Born(t))
      BY <2>1 DEF Queued, Born
    <2>3. t # me /\ pc'[t] = pc[t]
      BY <1>t, <1>p, <2>1 DEF TypeOK
    <2> QED
      BY <1>p, <1>w, <2>1, <2>2, <2>3 DEF Parked, OnProcessor
  <1>5. CASE wakeSlot
    <2>1. /\ UNCHANGED <<currentRunningThread, gThreadID, context, pc, cpu>>
          /\ \/ UNCHANGED pQueue
             \/ /\ WaitsFor(w, me)
                /\ pQueue' = Insert(pQueue, w, priority[w])
      BY <1>5 DEF wakeSlot, readyVars, tcbVars
    <2>2. Queued(t) => Queued(t)'
      <3>1. CASE UNCHANGED pQueue
        BY <1>t, <3>1
      <3>2. CASE WaitsFor(w, me) /\ pQueue' = Insert(pQueue, w, priority[w])
        <4>1. w \in Threads /\ priority[w] \in Levels
          <5>1. me \in Threads
            BY <1>5, <1>t, PlaceTypes DEF wakeSlot, InWake
          <5>2. scan[me] \in 0 .. WaitSlots /\ scan[me] < WaitSlots
            BY <1>5, <1>t, <5>1 DEF wakeSlot, TypeOK
          <5>3. tcbWaiting[scan[me]] \in Threads \cup {NoThread}
            BY <1>t, <5>2, KernelAssumption DEF TypeOK, Slots
          <5> QED
            BY <1>t, <3>2, <5>3, PlaceTypes DEF WaitsFor
        <4> QED
          BY <1>t, <3>2, <4>1, InsertPlaces
      <3> QED
        BY <2>1, <3>1, <3>2
    <2> QED
      BY <1>p, <1>w, <2>1, <2>2 DEF Parked, OnProcessor, Born
  <1>6. ASSUME NEW y \in Levels, dispatch(y)
        PROVE  Stays
    <2>1. /\ UNCHANGED <<gThreadID, context, pc>>
          /\ pQueue[y] # <<>> /\ pQueue' = Removed(pQueue, y)
          /\ currentRunningThread' = Head(pQueue[y])
          /\ cpu = "scheduler" /\ cpu' \in {"thread", "resume"}
      BY <1>6 DEF dispatch, exitVars
    <2>2. Queued(t)' <=> Queued(t) /\ t # Head(pQueue[y])
      BY <1>t, <2>1, RemovedPlaces DEF PlaceInv
    <2>3. t # Head(pQueue[y]) /\ ~OnProcessor(t) /\ (Born(t)' <=> Born(t))
      BY <1>p, <2>1 DEF OnProcessor, Born
    <2> QED
      BY <1>p, <2>1, <2>2, <2>3 DEF Parked
  <1>7. CASE \/ schedulerReturns \/ resume \/ callUserFunction \/ halted
             \/ UNCHANGED kernelVars
    <2>1. /\ UNCHANGED <<currentRunningThread, gThreadID, context, pc, pQueue>>
          /\ cpu \in {"thread", "resume"} => cpu' \in {"thread", "resume"}
      BY <1>7 DEF schedulerReturns, resume, callUserFunction, halted, kernelVars,
                  readyVars, tcbVars, exitVars
    <2>2. (Queued(t)' <=> Queued(t)) /\ (Born(t)' <=> Born(t))
      BY <2>1 DEF Queued, Born
    <2> QED
      BY <1>p, <1>w, <2>1, <2>2 DEF Parked, OnProcessor
  <1> QED
    BY <1>w, <1>1, <1>2, <1>3, <1>4, <1>5, <1>6, <1>7
    DEF KernelNext, schedulerStep, epilogueStep

-----------------------------------------------------------------------------
(* The places of threads, when the running one calls the library.           *)

\* a call that moves nobody
LEMMA StillPlaces ==
  ASSUME PlaceInv,
         UNCHANGED <<pQueue, currentRunningThread, gThreadID, flag, context, pc, cpu>>
  PROVE  /\ PlaceInv'
         /\ \A t \in Threads : /\ Queued(t)' <=> Queued(t)
                               /\ OnProcessor(t)' <=> OnProcessor(t)
                               /\ Parked(t)' <=> Parked(t)
  <1>1. \A t \in Threads : /\ Queued(t)' <=> Queued(t)
                           /\ OnProcessor(t)' <=> OnProcessor(t)
                           /\ Born(t)' <=> Born(t)
    BY DEF Queued, OnProcessor, Born
  <1> QED
    BY <1>1 DEF PlaceInv, ReadyOnly, RunningLives, StartedOnce, Parked

\* The running thread leaves the processor and goes to no ready queue.
LEMMA LeavePlaces ==
  ASSUME TypeOK, PlaceInv, InBody, NEW n, NEW where \in Contexts \ {"none"},
         Park(pQueue, n, where),
         UNCHANGED <<currentRunningThread, gThreadID, flag, pc>>
  PROVE  /\ PlaceInv'
         /\ \A t \in Threads :
              /\ t = currentRunningThread => Parked(t)' /\ context'[t] = where
              /\ t # currentRunningThread => /\ Parked(t)' <=> Parked(t)
                                             /\ context'[t] = context[t]
              /\ Queued(t)' <=> Queued(t)
              /\ ~OnProcessor(t)'
  <1> DEFINE me == currentRunningThread
  <1>1. /\ me \in Threads /\ OnProcessor(me) /\ pc[me] = "body"
        /\ \A t \in Threads : OnProcessor(t) <=> t = me
    BY PlaceTypes DEF InBody, OnProcessor
  <1>2. Born(me) /\ flag[me] = 0 /\ ~Queued(me)
    BY <1>1 DEF PlaceInv, RunningLives, ReadyOnly
  <1>3. /\ pQueue' = pQueue /\ cpu' = "scheduler"
        /\ context' = [context EXCEPT ![me] = where]
    BY DEF Park
  <1>4. \A t \in Threads : /\ Queued(t)' <=> Queued(t)
                           /\ ~OnProcessor(t)'
                           /\ Born(t)' <=> Born(t)
                           /\ context'[t] = IF t = me THEN where ELSE context[t]
    BY <1>3 DEF Queued, OnProcessor, Born, TypeOK
  <1>5. NoRepeats(pQueue') /\ ReadyOnly' /\ RunningLives' /\ StartedOnce'
    BY <1>1, <1>2, <1>3, <1>4
    DEF PlaceInv, ReadyOnly, RunningLives, StartedOnce
  <1>6. \A t \in Threads :
          /\ t = me => Parked(t)'
          /\ t # me => (Parked(t)' <=> Parked(t))
    BY <1>1, <1>2, <1>4 DEF Parked
  <1> QED
    BY <1>4, <1>5, <1>6 DEF PlaceInv

\* The running thread puts a parked one into a ready queue.
LEMMA WokenPlaces ==
  ASSUME TypeOK, PlaceInv, NEW w \in Threads, NEW p \in Levels,
         Parked(w), pQueue' = Insert(pQueue, w, p),
         UNCHANGED <<currentRunningThread, gThreadID, flag, context, pc, cpu>>
  PROVE  /\ PlaceInv'
         /\ \A t \in Threads : /\ Queued(t)' <=> Queued(t) \/ t = w
                               /\ OnProcessor(t)' <=> OnProcessor(t)
                               /\ Parked(t)' <=> Parked(t) /\ t # w
  <1>1. Born(w) /\ pc[w] = "body" /\ ~Queued(w) /\ ~OnProcessor(w)
    BY DEF Parked
  <1>2. /\ NoRepeats(pQueue')
        /\ \A t \in Threads : /\ Queued(t)' <=> Queued(t) \/ t = w
                              /\ OnProcessor(t)' <=> OnProcessor(t)
                              /\ Born(t)' <=> Born(t)
    <2>1. \A t \in Threads : Queued(t)' <=> InQueues(pQueue', t)
      BY DEF Queued, InQueues
    <2>2. \A t \in Threads : /\ OnProcessor(t)' <=> OnProcessor(t)
                             /\ Born(t)' <=> Born(t)
      BY DEF OnProcessor, Born
    <2> QED
      BY <1>1, <2>1, <2>2, QueuePlace
  <1>3. ReadyOnly' /\ RunningLives' /\ StartedOnce'
    BY <1>1, <1>2 DEF PlaceInv, ReadyOnly, RunningLives, StartedOnce
  <1> QED
    BY <1>2, <1>3 DEF PlaceInv, Parked

-----------------------------------------------------------------------------
(* The join table.                                                           *)

LEMMA PlaceInit == KernelInit => PlaceInv
  <1> SUFFICES ASSUME KernelInit PROVE PlaceInv
    OBVIOUS
  <1>1. \A p \in Levels : Len(pQueue[p]) = 0
    BY DEF KernelInit
  <1>2. \A t \in Threads : ~Queued(t) /\ ~OnProcessor(t)
    BY <1>1 DEF Queued, OnProcessor, KernelInit
  <1>3. NoRepeats(pQueue)
    BY <1>1 DEF NoRepeats
  <1>4. \A t \in Threads : context[t] = "none" /\ pc[t] = "body"
    BY DEF KernelInit
  <1> QED
    BY <1>2, <1>3, <1>4 DEF PlaceInv, ReadyOnly, RunningLives, StartedOnce

LEMMA JoinInit == KernelInit => JoinInv
  <1> SUFFICES ASSUME KernelInit PROVE JoinInv
    OBVIOUS
  <1>1. TypeOK /\ PlaceInv
    BY TypeInit, PlaceInit
  <1>2. /\ \A t \in Threads : waitingForTid[t] = NoThread
        /\ \A i \in Slots : tcbWaiting[i] = NoThread
        /\ Len(exitedThreadIDs) = 0
        /\ joined = {}
    BY DEF KernelInit
  <1> QED
    BY <1>1, <1>2
    DEF JoinInv, TableFilled, SlotsWait, RecordedEnded, JoinersWait

\* A slot holds the thread of an entry of the table, and its target.
LEMMA SlotTypes ==
  ASSUME TypeOK, TableFilled, NEW i \in Slots, tcbWaiting[i] # NoThread
  PROVE  /\ tcbWaiting[i] \in Threads
         /\ waitingForTid[tcbWaiting[i]] \in Threads
         /\ <<tcbWaiting[i], waitingForTid[tcbWaiting[i]]>> \in joined
  BY DEF TypeOK, TableFilled

\* Steps that neither fill the table, nor call t_join, nor end a user function,
\* nor scan, only have to keep the waiting threads where they are.
LEMMA TableQuiet ==
  ASSUME JoinInv, TypeOK', PlaceInv',
         UNCHANGED <<joinVars, exitVars>>,
         \A t \in Threads : Joining(t) => Joining(t)'
  PROVE  JoinInv'
  <1>1. UNCHANGED <<waitingForTid, tcbWaiting, joined, exitedThreadIDs, pc, scan>>
    BY DEF joinVars, exitVars
  <1>2. TableFilled' /\ RecordedEnded'
    BY <1>1 DEF JoinInv, TableFilled, RecordedEnded
  <1>3. SlotsWait'
    BY <1>1, SlotTypes DEF JoinInv, SlotsWait, Later
  <1>4. JoinersWait'
    BY <1>1 DEF JoinInv, JoinersWait, TypeOK
  <1> QED
    BY <1>2, <1>3, <1>4 DEF JoinInv

\* The running thread is not waiting, and the scan wakes waiting threads only.
LEMMA ScanFinds ==
  ASSUME JoinInv
  PROVE  /\ WokenWaits
         /\ cpu = "thread" => ~Joining(currentRunningThread)
  <1>1. WokenWaits
    <2> DEFINE me == currentRunningThread
               w  == tcbWaiting[scan[me]]
    <2> SUFFICES ASSUME InWake, scan[me] < WaitSlots, WaitsFor(w, me)
                 PROVE  Joining(w)
      BY DEF WokenWaits
    <2>1. me \in Threads /\ scan[me] \in Slots
      BY KernelAssumption DEF JoinInv, InWake, TypeOK, Slots
    <2>2. Later(me, scan[me])
      BY <2>1 DEF InWake, Later, Slots
    <2> QED
      BY <2>1, <2>2 DEF JoinInv, SlotsWait, WaitsFor
  <1>2. cpu = "thread" => ~Joining(currentRunningThread)
    BY DEF Joining, Parked, OnProcessor
  <1> QED
    BY <1>1, <1>2

LEMMA JoinCallKeeps ==
  ASSUME SingleJoins, JoinInv, TypeOK', PlaceInv',
         \A t \in Threads : Joining(t) => Joining(t)',
         NEW u \in Threads, t_join(u)
  PROVE  JoinInv'
  <1> DEFINE me == currentRunningThread
  <1>1. /\ me \in Threads /\ InBody /\ <<me, u>> \in JoinCalls \ joined
        /\ joined' = joined \cup {<<me, u>>}
        /\ UNCHANGED <<exitedThreadIDs, pc, scan>>
    BY DEF t_join, InBody, JoinInv, TypeOK, exitVars
  <1>2. \A v \in Threads : <<me, v>> \notin joined
    <2>1. ASSUME NEW v \in Threads, <<me, v>> \in joined PROVE FALSE
      <3>1. <<me, v>> \in JoinCalls /\ <<me, u>> \in JoinCalls
        BY <1>1, <2>1 DEF JoinInv, TableFilled
      <3>2. <<me, v>>[1] = <<me, u>>[1]
        OBVIOUS
      <3>3. <<me, v>> = <<me, u>>
        BY <3>1, <3>2 DEF SingleJoins
      <3> QED
        BY <1>1, <2>1, <3>3
    <2> QED
      BY <2>1
  <1>3. waitingForTid[me] = NoThread
    BY <1>1, <1>2 DEF JoinInv, TypeOK, TableFilled
  <1>4. \A i \in Slots : tcbWaiting[i] # me
    BY <1>1, <1>3 DEF JoinInv, TableFilled, NoThread, Threads
  <1>5. RecordedEnded'
    BY <1>1 DEF JoinInv, RecordedEnded
  <1>6. CASE /\ Exited(u)
             /\ UNCHANGED <<waitingForTid, tcbWaiting>>
    <2>1. TableFilled'
      BY <1>1, <1>6 DEF JoinInv, TableFilled
    <2>2. SlotsWait'
      BY <1>1, <1>6, SlotTypes DEF JoinInv, SlotsWait, Later
    <2>3. pc[u] = "done"
      BY <1>6 DEF Exited, JoinInv, RecordedEnded
    <2>4. JoinersWait'
      <3> SUFFICES ASSUME NEW j \in joined'
                   PROVE  Joining(j[1])' \/ pc'[j[2]] # "body"
        BY DEF JoinersWait
      <3>1. CASE j \in joined
        <4>1. j[1] \in Threads
          BY <3>1 DEF JoinInv, TypeOK
        <4> QED
          BY <1>1, <3>1, <4>1 DEF JoinInv, JoinersWait
      <3>2. CASE j = <<me, u>>
        BY <1>1, <2>3, <3>2
      <3> QED
        BY <1>1, <3>1, <3>2
    <2> QED
      BY <1>5, <2>1, <2>2, <2>4 DEF JoinInv
  <1>7. CASE /\ waitingForTid' = [waitingForTid EXCEPT ![me] = u]
             /\ tcbWaiting' = [tcbWaiting EXCEPT ![JoinSlot] = me]
             /\ Park(pQueue, threadLevelCount, "t_join")
    <2>1. /\ JoinSlot \in Slots
          /\ \A t \in Threads :
               waitingForTid'[t] = IF t = me THEN u ELSE waitingForTid[t]
          /\ \A i \in Slots :
               tcbWaiting'[i] = IF i = JoinSlot THEN me ELSE tcbWaiting[i]
      <3>1. JoinSlot \in Slots
        BY KernelAssumption DEF JoinInv, TypeOK, JoinSlot, Slots
      <3> QED
        BY <1>1, <1>7, <3>1 DEF JoinInv, TypeOK
    <2>2. TableFilled'
      <3>1. joined' \subseteq JoinCalls
        BY <1>1 DEF JoinInv, TableFilled
      <3>2. \A t \in Threads : waitingForTid'[t] # NoThread
                                 => <<t, waitingForTid'[t]>> \in joined'
        BY <1>1, <2>1 DEF JoinInv, TableFilled
      <3>3. \A i \in Slots : tcbWaiting'[i] # NoThread
                               => waitingForTid'[tcbWaiting'[i]] # NoThread
        <4>1. u # NoThread
          BY DEF Threads, NoThread
        <4> QED
          BY <1>1, <2>1, <4>1, SlotTypes DEF JoinInv, TableFilled
      <3>4. \A i, k \in Slots : tcbWaiting'[i] = tcbWaiting'[k]
                                  /\ tcbWaiting'[i] # NoThread => i = k
        BY <1>4, <2>1 DEF JoinInv, TableFilled
      <3> QED
        BY <3>1, <3>2, <3>3, <3>4 DEF TableFilled
    <2>3. Joining(me)'
      <3>1. /\ pQueue' = pQueue /\ cpu' = "scheduler"
            /\ context' = [context EXCEPT ![me] = "t_join"]
            /\ gThreadID' = gThreadID
        BY <1>7 DEF Park, t_join
      <3>2. OnProcessor(me) /\ Born(me) /\ ~Queued(me)
        BY <1>1
        DEF InBody, OnProcessor, JoinInv, PlaceInv, RunningLives, ReadyOnly
      <3>3. Born(me)' <=> Born(me)
        <4>1. UNCHANGED currentRunningThread
          BY DEF t_join
        <4> QED
          BY <3>1, <4>1 DEF Born
      <3>4. /\ ~Queued(me)' /\ ~OnProcessor(me)' /\ context'[me] = "t_join"
            /\ me' = me /\ pc'[me] = "body"
        <4>1. UNCHANGED currentRunningThread
          BY DEF t_join
        <4>2. Queued(me)' <=> Queued(me)
          BY <3>1, <4>1 DEF Queued
        <4> QED
          BY <1>1, <3>1, <3>2, <4>1, <4>2 DEF OnProcessor, JoinInv, TypeOK, InBody
      <3> QED
        BY <3>2, <3>3, <3>4 DEF Joining, Parked
    <2>4. UNCHANGED currentRunningThread
      BY DEF t_join
    <2>5. SlotsWait'
      <3> SUFFICES ASSUME NEW i \in Slots,
                          tcbWaiting'[i] # NoThread,
                          Later(waitingForTid[tcbWaiting[i]], i)'
                   PROVE  Joining(tcbWaiting[i])'
        BY DEF SlotsWait
      <3>1. CASE i = JoinSlot
        <4>1. tcbWaiting'[i] = me
          BY <2>1, <3>1
        <4>2. tcbWaiting'[i] = me'
          BY <2>4, <4>1
        <4> QED
          BY <2>3, <4>2 DEF Joining, Parked, Queued, OnProcessor, Born
      <3>2. CASE i # JoinSlot
        <4>1. tcbWaiting'[i] = tcbWaiting[i] /\ tcbWaiting[i] \in Threads
          BY <2>1, <3>2, SlotTypes DEF JoinInv
        <4>2. waitingForTid'[tcbWaiting'[i]] = waitingForTid[tcbWaiting[i]]
          BY <1>4, <2>1, <4>1
        <4>3. Later(waitingForTid[tcbWaiting[i]], i)
          BY <1>1, <4>2 DEF Later
        <4>4. Joining(tcbWaiting[i])
          BY <4>1, <4>3 DEF JoinInv, SlotsWait, NoThread, Threads
        <4> QED
          BY <4>1, <4>4 DEF Joining, Parked, Queued, OnProcessor, Born
      <3> QED
        BY <3>1, <3>2
    <2>6. JoinersWait'
      <3> SUFFICES ASSUME NEW j \in joined'
                   PROVE  Joining(j[1])' \/ pc'[j[2]] # "body"
        BY DEF JoinersWait
      <3>1. CASE j \in joined
        <4>1. j[1] \in Threads
          BY <3>1 DEF JoinInv, TypeOK
        <4> QED
          BY <1>1, <3>1, <4>1 DEF JoinInv, JoinersWait
      <3>2. CASE j = <<me, u>>
        <4>1. j[1] = me
          BY <3>2
        <4> QED
          BY <2>3, <2>4, <4>1 DEF Joining, Parked, Queued, OnProcessor, Born
      <3> QED
        BY <1>1, <3>1, <3>2
    <2> QED
      BY <1>5, <2>2, <2>5, <2>6 DEF JoinInv
  <1> QED
    BY <1>6, <1>7 DEF t_join

LEMMA WakeKeeps ==
  ASSUME SingleJoins, JoinInv, TypeOK', PlaceInv', wakeSlot,
         LET me == currentRunningThread
             w  == tcbWaiting[scan[me]]
         IN  \A t \in Threads :
               Joining(t) => Joining(t)' \/ (t = w /\ WaitsFor(w, me))
  PROVE  JoinInv'
  <1> DEFINE me == currentRunningThread
             s  == scan[me]
             w  == tcbWaiting[s]
  <1>1. /\ InWake /\ me \in Threads /\ s \in Slots /\ s \in Int
        /\ scan' = [scan EXCEPT ![me] = s + 1]
        /\ UNCHANGED <<waitingForTid, tcbWaiting, joined, exitedThreadIDs, pc>>
    BY KernelAssumption
    DEF wakeSlot, InWake, JoinInv, TypeOK, Slots, joinVars
  <1>2. TableFilled' /\ RecordedEnded'
    BY <1>1 DEF JoinInv, TableFilled, RecordedEnded
  <1>3. SlotsWait'
    <2> SUFFICES ASSUME NEW i \in Slots, tcbWaiting[i] # NoThread,
                        Later(waitingForTid[tcbWaiting[i]], i)'
                 PROVE  Joining(tcbWaiting[i])'
      BY <1>1 DEF SlotsWait
    <2>1. /\ tcbWaiting[i] \in Threads
          /\ waitingForTid[tcbWaiting[i]] \in Threads
          /\ UNCHANGED <<tcbWaiting, waitingForTid>>
      BY <1>1, SlotTypes DEF JoinInv
    <2>2. i \in Int /\ \A v \in Threads : scan[v] \in Int
      BY DEF JoinInv, TypeOK, Slots
    <2>3. /\ Later(waitingForTid[tcbWaiting[i]], i)
          /\ waitingForTid[tcbWaiting[i]] = me => i # s
      <3> DEFINE v == waitingForTid[tcbWaiting[i]]
      <3>1. v' = v /\ scan'[v] = IF v = me THEN s + 1 ELSE scan[v]
        BY <1>1, <2>1 DEF JoinInv, TypeOK
      <3>2. pc[me] = "wake"
        BY <1>1 DEF InWake
      <3>3. \/ pc[v] = "body"
            \/ pc[v] = "wake" /\ scan'[v] <= i
        BY <1>1, <3>1 DEF Later
      <3>4. CASE v = me
        <4>1. s + 1 <= i
          BY <3>1, <3>2, <3>3, <3>4
        <4>2. s <= i /\ i # s
          BY <1>1, <2>2, <4>1
        <4> QED
          BY <3>2, <3>4, <4>2 DEF Later
      <3>5. CASE v # me
        BY <3>1, <3>3, <3>5 DEF Later
      <3> QED
        BY <3>4, <3>5
    <2>4. Joining(tcbWaiting[i])
      BY <2>3 DEF JoinInv, SlotsWait
    <2>5. ~(tcbWaiting[i] = w /\ WaitsFor(w, me))
      <3> SUFFICES ASSUME tcbWaiting[i] = w, WaitsFor(w, me) PROVE FALSE
        OBVIOUS
      <3>1. i = s
        BY <1>1, <2>1 DEF JoinInv, TableFilled
      <3> QED
        BY <2>3, <3>1 DEF WaitsFor
    <2>6. \A t \in Threads : Joining(t) => Joining(t)' \/ (t = w /\ WaitsFor(w, me))
      OBVIOUS
    <2>7. tcbWaiting'[i] = tcbWaiting[i]
      BY <2>1
    <2>8. \A t \in Threads : t = tcbWaiting[i] => Joining(t)'
      BY <2>1, <2>4, <2>5, <2>6
    <2> QED
      BY <2>1, <2>7, <2>8 DEF Joining, Parked, Queued, OnProcessor, Born
  <1>4. JoinersWait'
    <2> SUFFICES ASSUME NEW j \in joined
                 PROVE  Joining(j[1])' \/ pc'[j[2]] # "body"
      BY <1>1 DEF JoinersWait
    <2>1. j[1] \in Threads
      BY DEF JoinInv, TypeOK
    <2>2. CASE pc[j[2]] # "body"
      BY <1>1, <2>2
    <2>3. CASE Joining(j[1])
      <3>1. CASE j[1] = w /\ WaitsFor(w, me)
        <4>1. <<w, me>> \in joined /\ w \in Threads
          BY <1>1, <2>1, <3>1 DEF JoinInv, TableFilled, WaitsFor
        <4>2. j = <<w, me>>
          BY <3>1, <4>1 DEF SingleJoins, JoinInv, TableFilled
        <4>3. pc[me] = "wake"
          BY <1>1 DEF InWake
        <4> QED
          BY <1>1, <4>2, <4>3
      <3> QED
        BY <2>1, <2>3, <3>1
    <2> QED
      BY <2>2, <2>3 DEF JoinInv, JoinersWait
  <1> QED
    BY <1>2, <1>3, <1>4 DEF JoinInv

\* The running thread moves on in its epilogue or ends.
LEMMA EndKeeps ==
  ASSUME JoinInv, TypeOK', PlaceInv',
         \A t \in Threads : Joining(t) => Joining(t)',
         t_exit \/ retire \/ userFunctionReturns
  PROVE  JoinInv'
  <1> DEFINE me == currentRunningThread
  <1>1. /\ me \in Threads /\ OnProcessor(me)
        /\ pc[me] = "wake" \/ pc[me] = "body"
        /\ UNCHANGED <<waitingForTid, tcbWaiting, joined>>
        /\ \/ /\ pc' = [pc EXCEPT ![me] = "done"]
              /\ scan' = scan
           \/ /\ pc[me] = "body"
              /\ pc' = [pc EXCEPT ![me] = "wake"]
              /\ scan' = [scan EXCEPT ![me] = 0]
        /\ \/ exitedThreadIDs' = exitedThreadIDs
           \/ /\ exitedThreadIDs' = Append(exitedThreadIDs, me)
              /\ pc' = [pc EXCEPT ![me] = "done"]
    BY DEF t_exit, retire, userFunctionReturns, InBody, InWake, JoinInv,
           TypeOK, OnProcessor, joinVars
  <1>2. /\ pc'[me] # "body"
        /\ \A v \in Threads : v # me => pc'[v] = pc[v] /\ scan'[v] = scan[v]
    BY <1>1 DEF JoinInv, TypeOK
  <1>3. TableFilled'
    BY <1>1 DEF JoinInv, TableFilled
  <1>4. RecordedEnded'
    <2> SUFFICES ASSUME NEW i \in 1 .. Len(exitedThreadIDs')
                 PROVE  pc'[exitedThreadIDs'[i]] = "done"
      BY DEF RecordedEnded
    <2>1. exitedThreadIDs \in Seq(Threads)
      BY DEF JoinInv, TypeOK
    <2>2. CASE exitedThreadIDs'[i] = me /\ pc' = [pc EXCEPT ![me] = "done"]
      BY <1>1, <2>2 DEF JoinInv, TypeOK
    <2>3. CASE i \in 1 .. Len(exitedThreadIDs)
               /\ exitedThreadIDs'[i] = exitedThreadIDs[i]
      <3>1. exitedThreadIDs[i] \in Threads /\ pc[exitedThreadIDs[i]] = "done"
        BY <2>1, <2>3 DEF JoinInv, RecordedEnded
      <3>2. exitedThreadIDs[i] # me
        BY <1>1, <3>1
      <3> QED
        BY <1>2, <2>3, <3>1, <3>2
    <2> QED
      BY <1>1, <2>1, <2>2, <2>3
  <1>5. SlotsWait'
    <2> SUFFICES ASSUME NEW i \in Slots, tcbWaiting[i] # NoThread,
                        Later(waitingForTid[tcbWaiting[i]], i)'
                 PROVE  Joining(tcbWaiting[i])'
      BY <1>1 DEF SlotsWait
    <2>1. /\ tcbWaiting[i] \in Threads
          /\ waitingForTid[tcbWaiting[i]] \in Threads
      BY SlotTypes DEF JoinInv
    <2>2. Later(waitingForTid[tcbWaiting[i]], i)
      <3> DEFINE v == waitingForTid[tcbWaiting[i]]
      <3>1. v' = v
        BY <1>1
      <3>2. \/ pc'[v] = "body"
            \/ pc'[v] = "wake" /\ scan'[v] <= i
        BY <3>1 DEF Later
      <3>3. v = me => pc'[me] = "done" \/ pc[me] = "body"
        BY <1>1 DEF JoinInv, TypeOK
      <3> QED
        BY <1>2, <2>1, <3>2, <3>3 DEF Later
    <2>3. Joining(tcbWaiting[i])
      BY <2>2 DEF JoinInv, SlotsWait
    <2>4. tcbWaiting'[i] = tcbWaiting[i]
      BY <1>1
    <2> QED
      BY <2>1, <2>3, <2>4 DEF Joining, Parked, Queued, OnProcessor, Born
  <1>6. JoinersWait'
    <2> SUFFICES ASSUME NEW j \in joined
                 PROVE  Joining(j[1])' \/ pc'[j[2]] # "body"
      BY <1>1 DEF JoinersWait
    <2>1. j[1] \in Threads /\ j[2] \in Threads
      BY DEF JoinInv, TypeOK
    <2> QED
      BY <1>2, <2>1 DEF JoinInv, JoinersWait
  <1> QED
    BY <1>3, <1>4, <1>5, <1>6 DEF JoinInv

\* The steps by what they do to the join table and to the ends of threads.
LEMMA JoinSteps ==
  ASSUME [KernelNext]_kernelVars
  PROVE  \/ UNCHANGED <<joinVars, exitVars>>
         \/ \E u \in Threads : t_join(u)
         \/ t_exit \/ retire \/ userFunctionReturns \/ wakeSlot
  <1>1. ASSUME NEW p \in Levels, t_start(p) \/ t_fork(p)
        PROVE  UNCHANGED <<joinVars, exitVars>>
    BY <1>1 DEF t_start, t_fork
  <1>2. ASSUME NEW y \in Levels, dispatch(y)
        PROVE  UNCHANGED <<joinVars, exitVars>>
    BY <1>2 DEF dispatch
  <1>3. CASE \/ t_yield \/ timerHandler \/ schedulerReturns \/ resume
             \/ callUserFunction
    BY <1>3 DEF t_yield, timerHandler, schedulerReturns, resume, callUserFunction
  <1>4. CASE halted \/ UNCHANGED kernelVars
    BY <1>4 DEF halted, kernelVars, joinVars, exitVars
  <1> QED
    BY <1>1, <1>2, <1>3, <1>4 DEF KernelNext, schedulerStep, epilogueStep

LEMMA JoinStep ==
  ASSUME SingleJoins, JoinInv, [KernelNext]_kernelVars
  PROVE  JoinInv'
  <1> DEFINE me == currentRunningThread
             w  == tcbWaiting[scan[me]]
  <1>1. TypeOK' /\ PlaceInv'
        /\ \A t \in Threads :
             Joining(t) => \/ Joining(t)'
                           \/ wakeSlot /\ t = w /\ WaitsFor(w, me)
    BY ScanFinds, TypeStep, PlaceStep DEF JoinInv, Joining, StaysParked
  <1>2. CASE wakeSlot
    BY <1>1, <1>2, WakeKeeps
  <1>3. CASE ~wakeSlot
    <2>1. \A t \in Threads : Joining(t) => Joining(t)'
      BY <1>1, <1>3
    <2>2. CASE UNCHANGED <<joinVars, exitVars>>
      BY <1>1, <2>1, <2>2, TableQuiet
    <2>3. CASE \E u \in Threads : t_join(u)
      BY <1>1, <2>1, <2>3, JoinCallKeeps
    <2>4. CASE t_exit \/ retire \/ userFunctionReturns
      BY <1>1, <2>1, <2>4, EndKeeps
    <2>5. \/ UNCHANGED <<joinVars, exitVars>>
          \/ \E u \in Threads : t_join(u)
          \/ t_exit \/ retire \/ userFunctionReturns
      BY <1>3, JoinSteps
    <2> QED
      BY <2>2, <2>3, <2>4, <2>5
  <1> QED
    BY <1>2, <1>3

LEMMA JoinAlways == ASSUME SingleJoins PROVE KernelSpec => []JoinInv
  <1>1. JoinInv /\ [KernelNext]_kernelVars => JoinInv'
    BY JoinStep
  <1> QED
    BY <1>1, JoinInit, PTL DEF KernelSpec

\* Where nobody joins twice, no thread is in the ready queues twice, or in them
\* while it runs or after it ended, whatever threads fork, exit, are joined by
\* or are interrupted, but not while they put a joiner into its queue
\* (WholeInserts).
THEOREM KernelOnePlace == ASSUME SingleJoins PROVE KernelSpec => []OnePlace
  <1>1. JoinInv => OnePlace
    BY DEF JoinInv, PlaceInv, NoRepeats, ReadyOnly, OnePlace
  <1> QED
    BY <1>1, JoinAlways, PTL

\* Where nobody joins twice, t_join returns only after the user function of its
\* target returned or its target exited.
THEOREM KernelJoins == ASSUME SingleJoins PROVE KernelSpec => []JoinMeansOver
  <1>1. JoinInv => JoinMeansOver
    BY DEF JoinInv, JoinersWait, JoinMeansOver, Joining
  <1> QED
    BY <1>1, JoinAlways, PTL

-----------------------------------------------------------------------------
(* Who wakes a joiner. *)

\* Every thread joins at most one other and is joined by at most one, which
\* does not end by t_exit; the join table is not filled twice; and no slice
\* ends in the epilogue of a thread.
OrderlyJoins ==
  /\ SingleJoins
  /\ \A j, k \in JoinCalls : j[2] = k[2] => j = k
  /\ \A j \in JoinCalls : j[2] \notin TExiters
  /\ Cardinality(JoinCalls) <= WaitSlots
  /\ ~EpilogueTicks

\* Nobody waits for himself in the end: in every set of threads there is one
\* that joins none of them.
NoCircle ==
  \A S \in SUBSET Threads :
    S # {} => \E t \in S : \A u \in S : <<t, u>> \notin JoinCalls

\* The slots from waitingIndex on have never been used.
FreshSlots ==
  /\ waitingIndex <= Cardinality(joined)
  /\ \A i \in Slots : i >= waitingIndex => tcbWaiting[i] = NoThread

\* A thread keeps the processor in its epilogue.
EpilogueRuns ==
  \A t \in Threads : pc[t] = "wake" => t = currentRunningThread /\ cpu = "thread"

\* A joiner is in a slot that its target, which has been forked, has yet to scan.
FoundLater ==
  /\ \A t \in Threads : Parked(t) => context[t] = "t_join"
  /\ \A t \in Threads : Joining(t) =>
       /\ waitingForTid[t] # NoThread
       /\ \E i \in Slots : tcbWaiting[i] = t /\ Later(waitingForTid[t], i)
  /\ \A j \in joined : Born(j[2])

\* A thread that is still to be joined wakes nobody, and is recorded when it
\* has ended.
YetToJoin ==
  \A j \in JoinCalls \ joined : ~waked[j[2]] /\ (pc[j[2]] = "done" => Exited(j[2]))

\* t_start returns when every count is zero.
ReturnedEmpty == cpu = "returned" => AllZero(threadLevelCount)

\* The inductive invariant.
OrderInv ==
  /\ JoinInv
  /\ CountsMatchQueues
  /\ FreshSlots
  /\ EpilogueRuns
  /\ FoundLater
  /\ YetToJoin
  /\ ReturnedEmpty

-----------------------------------------------------------------------------
(* The join table is filled once, from its first slot on.                   *)

LEMMA JoinsFinite ==
  ASSUME JoinInv
  PROVE  /\ IsFiniteSet(JoinCalls) /\ IsFiniteSet(joined)
         /\ Cardinality(JoinCalls) \in Nat /\ Cardinality(joined) \in Nat
  <1>1. IsFiniteSet(Threads)
    BY KernelAssumption, FS_Interval DEF Threads
  <1>2. IsFiniteSet(Threads \X Threads)
    BY <1>1, FS_Product
  <1>3. IsFiniteSet(JoinCalls)
    BY <1>2, KernelAssumption, FS_Subset
  <1>4. IsFiniteSet(joined)
    BY <1>3, FS_Subset DEF JoinInv, TableFilled
  <1> QED
    BY <1>3, <1>4, FS_CardinalityType

\* There is a fresh slot for every call of t_join.
LEMMA JoinRoom ==
  ASSUME OrderlyJoins, JoinInv, FreshSlots, NEW u \in Threads, t_join(u)
  PROVE  /\ JoinSlot = waitingIndex
         /\ waitingIndex \in Slots
         /\ Cardinality(joined') = Cardinality(joined) + 1
  <1> DEFINE j == <<currentRunningThread, u>>
  <1>1. j \in JoinCalls /\ j \notin joined /\ joined' = joined \cup {j}
    BY DEF t_join
  <1>2. joined \cup {j} \subseteq JoinCalls
    BY <1>1 DEF JoinInv, TableFilled
  <1>3. Cardinality(joined \cup {j}) = Cardinality(joined) + 1
    BY <1>1, JoinsFinite, FS_AddElement
  <1>4. Cardinality(joined \cup {j}) <= Cardinality(JoinCalls)
    BY <1>2, JoinsFinite, FS_Subset
  <1>5. waitingIndex \in Nat /\ WaitSlots \in Nat
    BY KernelAssumption DEF JoinInv, TypeOK
  <1>6. waitingIndex < WaitSlots
    BY <1>3, <1>4, <1>5, JoinsFinite DEF OrderlyJoins, FreshSlots
  <1> QED
    BY <1>1, <1>3, <1>5, <1>6 DEF JoinSlot, Slots

LEMMA FreshKeeps ==
  ASSUME OrderlyJoins, JoinInv, FreshSlots, [KernelNext]_kernelVars
  PROVE  FreshSlots'
  <1>1. ASSUME NEW u \in Threads, t_join(u)
        PROVE  FreshSlots'
    <2>1. /\ JoinSlot = waitingIndex /\ waitingIndex \in Slots
          /\ Cardinality(joined') = Cardinality(joined) + 1
          /\ Cardinality(joined) \in Nat
      BY <1>1, JoinRoom, JoinsFinite
    <2>t. waitingIndex \in Nat
      BY DEF JoinInv, TypeOK
    <2>2. CASE UNCHANGED <<tcbWaiting, waitingIndex>>
      BY <2>1, <2>t, <2>2 DEF FreshSlots
    <2>3. CASE /\ tcbWaiting' = [tcbWaiting EXCEPT
                                   ![JoinSlot] = currentRunningThread]
               /\ waitingIndex' = JoinSlot + 1
      <3>1. \A i \in Slots : i >= waitingIndex + 1 =>
              i >= waitingIndex /\ i # waitingIndex
        BY <2>1, <2>t DEF Slots
      <3> QED
        BY <2>1, <2>t, <2>3, <3>1 DEF FreshSlots, JoinInv, TypeOK
    <2> QED
      BY <1>1, <2>2, <2>3 DEF t_join
  <1>2. CASE UNCHANGED joinVars
    BY <1>2 DEF joinVars, FreshSlots
  <1> QED
    BY <1>1, <1>2, JoinSteps
    DEF t_exit, retire, userFunctionReturns, wakeSlot

\* Thread ids are only given out.
LEMMA GThreadGrows ==
  ASSUME TypeOK, [KernelNext]_kernelVars
  PROVE  gThreadID \in Int /\ gThreadID' \in Int /\ gThreadID' >= gThreadID
  <1>t. gThreadID \in Int
    BY KernelAssumption DEF TypeOK
  <1>1. gThreadID' = gThreadID \/ gThreadID' = gThreadID + 1
    BY DEF KernelNext, schedulerStep, epilogueStep, t_start, t_fork, NewTcb,
       t_join, t_yield, timerHandler, t_exit, userFunctionReturns, wakeSlot,
       retire, dispatch, schedulerReturns, resume, callUserFunction, halted,
       kernelVars, tcbVars
  <1> QED
    BY <1>t, <1>1

-----------------------------------------------------------------------------
(* The epilogue runs to its end.                                            *)

LEMMA EpilogueKeeps ==
  ASSUME OrderlyJoins, JoinInv, EpilogueRuns, [KernelNext]_kernelVars
  PROVE  EpilogueRuns'
  <1> SUFFICES ASSUME NEW t \in Threads, pc'[t] = "wake"
               PROVE  t = currentRunningThread' /\ cpu' = "thread"
    BY DEF EpilogueRuns
  <1> DEFINE me == currentRunningThread
  <1>t. pc \in [Threads -> {"body", "wake", "done"}]
    BY DEF JoinInv, TypeOK
  <1>1. CASE pc[t] # "wake"
    <2>1. userFunctionReturns
      <3>1. ~(t_exit \/ retire)
        BY <1>t, <1>1 DEF t_exit, retire
      <3>2. ~(UNCHANGED pc)
        BY <1>1
      <3> QED
        BY <3>1, <3>2, JoinSteps DEF exitVars, t_join, wakeSlot
    <2> QED
      BY <1>t, <1>1, <2>1 DEF userFunctionReturns, InBody
  <1>2. CASE pc[t] = "wake"
    <2>1. t = me /\ cpu = "thread" /\ ~InBody /\ ~(timerHandler)
      BY <1>2 DEF EpilogueRuns, OrderlyJoins, InBody, timerHandler
    <2>2. ~retire
      BY <1>t, <2>1 DEF retire
    <2>3. wakeSlot \/ callUserFunction \/ halted \/ UNCHANGED kernelVars
      BY <2>1, <2>2 DEF KernelNext, schedulerStep, epilogueStep, t_start, t_fork,
         t_join, t_yield, t_exit, userFunctionReturns, dispatch, schedulerReturns,
         resume
    <2> QED
      BY <2>1, <2>3 DEF wakeSlot, callUserFunction, halted, kernelVars
  <1> QED
    BY <1>1, <1>2

-----------------------------------------------------------------------------
(* Joiners are found, and joins that come late find their target.           *)

\* A thread yet to be joined leaves its id when it ends.
LEMMA YetKeeps ==
  ASSUME OrderlyJoins, JoinInv, YetToJoin, [KernelNext]_kernelVars
  PROVE  YetToJoin'
  <1> SUFFICES ASSUME NEW j \in JoinCalls \ joined'
               PROVE  ~waked'[j[2]] /\ (pc'[j[2]] = "done" => Exited(j[2])')
    BY DEF YetToJoin
  <1> DEFINE me == currentRunningThread
             u  == j[2]
  <1>1. j \in JoinCalls \ joined /\ u \in Threads
    <2>1. joined \subseteq joined'
      BY JoinSteps DEF joinVars, t_join, t_exit, retire, userFunctionReturns, wakeSlot
    <2> QED
      BY <2>1, KernelAssumption
  <1>2. ~waked[u] /\ (pc[u] = "done" => Exited(u))
    BY <1>1 DEF YetToJoin
  <1>t. /\ pc \in [Threads -> {"body", "wake", "done"}]
        /\ waked \in [Threads -> BOOLEAN]
        /\ exitedThreadIDs \in Seq(Threads)
    BY DEF JoinInv, TypeOK
  <1>3. CASE UNCHANGED <<pc, waked, exitedThreadIDs>>
    BY <1>2, <1>3 DEF Exited
  <1>4. CASE t_exit
    <2>1. me # u /\ UNCHANGED <<waked, exitedThreadIDs>>
      BY <1>1, <1>4 DEF OrderlyJoins, t_exit
    <2>2. pc'[u] = pc[u]
      BY <1>1, <1>4, <1>t, <2>1 DEF t_exit
    <2> QED
      BY <1>2, <2>1, <2>2 DEF Exited
  <1>5. CASE retire
    <2>1. /\ pc' = [pc EXCEPT ![me] = "done"] /\ UNCHANGED waked
          /\ exitedThreadIDs' = IF waked[me] THEN exitedThreadIDs
                                             ELSE Append(exitedThreadIDs, me)
      BY <1>5 DEF retire
    <2>2. Exited(u) => Exited(u)'
      BY <1>t, <1>5, <2>1 DEF Exited, JoinInv, TypeOK, retire, InWake
    <2>3. CASE me = u
      <3>1. exitedThreadIDs' = Append(exitedThreadIDs, u)
        BY <1>2, <2>1, <2>3
      <3>2. Exited(u)'
        BY <1>1, <1>t, <3>1 DEF Exited
      <3> QED
        BY <1>2, <2>1, <3>2
    <2>4. CASE me # u
      <3>1. pc'[u] = pc[u]
        BY <1>1, <1>t, <2>1, <2>4
      <3> QED
        BY <1>2, <2>1, <2>2, <3>1
    <2> QED
      BY <2>3, <2>4
  <1>6. CASE userFunctionReturns
    <2>1. /\ pc' = [pc EXCEPT ![me] = "wake"] /\ UNCHANGED exitedThreadIDs
          /\ waked' = [waked EXCEPT ![me] = FALSE]
      BY <1>6 DEF userFunctionReturns
    <2>2. ~waked'[u]
      BY <1>1, <1>2, <1>t, <2>1, Zenon
    <2>3. pc'[u] = "done" => pc[u] = "done"
      BY <1>1, <1>t, <2>1
    <2> QED
      BY <1>2, <2>1, <2>2, <2>3 DEF Exited
  <1>7. CASE wakeSlot
    <2> DEFINE w == tcbWaiting[scan[me]]
    <2>1. UNCHANGED <<pc, exitedThreadIDs>>
      BY <1>7 DEF wakeSlot
    <2>2. CASE WaitsFor(w, me)
      <3>1. w \in Threads /\ <<w, me>> \in joined
        <4>1. me \in Threads /\ scan[me] \in 0 .. WaitSlots /\ scan[me] < WaitSlots
          BY <1>7 DEF JoinInv, wakeSlot, InWake, TypeOK
        <4>2. scan[me] \in Slots
          BY <4>1, KernelAssumption DEF Slots
        <4> QED
          BY <2>2, <4>2, SlotTypes DEF JoinInv, WaitsFor
      <3>2. <<w, me>> \in JoinCalls /\ <<w, me>>[2] = me
        BY <3>1 DEF JoinInv, TableFilled
      <3>3. me # u
        BY <1>1, <3>1, <3>2 DEF OrderlyJoins
      <3>4. waked' = [waked EXCEPT ![me] = TRUE]
        BY <1>7, <2>2 DEF wakeSlot
      <3>5. waked'[u] = waked[u]
        BY <1>1, <1>t, <3>3, <3>4, Zenon
      <3> QED
        BY <1>2, <2>1, <3>5 DEF Exited
    <2>3. CASE ~WaitsFor(w, me)
      BY <1>2, <1>7, <2>1, <2>3 DEF wakeSlot, Exited
    <2> QED
      BY <2>2, <2>3
  <1> QED
    BY <1>3, <1>4, <1>5, <1>6, <1>7, JoinSteps DEF exitVars, t_join

\* A thread that waited in a slot its target had yet to scan, and still does,
\* was not passed by.
LEMMA AheadKeeps ==
  ASSUME OrderlyJoins, JoinInv, FreshSlots, [KernelNext]_kernelVars,
         NEW t \in Threads, Joining(t)',
         ~(/\ wakeSlot /\ t = tcbWaiting[scan[currentRunningThread]]
           /\ WaitsFor(t, currentRunningThread)),
         NEW i \in Slots, tcbWaiting[i] = t, waitingForTid[t] # NoThread,
         Later(waitingForTid[t], i),
         \A u \in Threads : t_join(u) => t # currentRunningThread \/ Exited(u)
  PROVE  /\ waitingForTid'[t] = waitingForTid[t]
         /\ tcbWaiting'[i] = t
         /\ Later(waitingForTid[t], i)'
  <1> DEFINE me == currentRunningThread
             u  == waitingForTid[t]
  <1>t. /\ pc \in [Threads -> {"body", "wake", "done"}]
        /\ scan \in [Threads -> 0 .. WaitSlots]
        /\ tcbWaiting \in [Slots -> Threads \cup {NoThread}]
        /\ waitingForTid \in [Threads -> Threads \cup {NoThread}]
    BY DEF JoinInv, TypeOK
  <1>n. /\ u \in Threads /\ t # NoThread
        /\ i \in Int /\ 0 <= i /\ i <= WaitSlots - 1 /\ WaitSlots \in Nat
        /\ \A v \in Threads : scan[v] \in Int
    BY <1>t, KernelAssumption DEF Slots, Threads, NoThread
  <1>a. pc[u] = "body" \/ (pc[u] = "wake" /\ scan[u] <= i)
    BY DEF Later
  <1>b. ASSUME pc'[u] = "body" \/ (pc'[u] = "wake" /\ scan'[u] <= i),
               waitingForTid'[t] = u
        PROVE  Later(waitingForTid[t], i)'
    BY <1>b DEF Later
  <1>1. CASE UNCHANGED <<joinVars, exitVars>>
    BY <1>1, <1>a, <1>b DEF joinVars, exitVars
  <1>2. ASSUME NEW v \in Threads, t_join(v)
        PROVE  /\ waitingForTid'[t] = waitingForTid[t] /\ tcbWaiting'[i] = t
               /\ UNCHANGED <<pc, scan>>
    <2>1. JoinSlot = waitingIndex /\ UNCHANGED <<pc, scan>>
      BY <1>2, JoinRoom DEF t_join, exitVars
    <2>2. CASE Exited(v) /\ UNCHANGED <<waitingForTid, tcbWaiting>>
      BY <2>1, <2>2
    <2>3. CASE /\ ~Exited(v)
               /\ waitingForTid' = [waitingForTid EXCEPT ![me] = v]
               /\ tcbWaiting' = [tcbWaiting EXCEPT ![JoinSlot] = me]
      <3>1. t # me
        BY <1>2, <2>3
      <3>2. ~(i >= waitingIndex)
        BY <1>t, <1>n DEF FreshSlots
      <3>3. i # JoinSlot
        BY <1>t, <1>n, <2>1, <3>2 DEF JoinInv, TypeOK
      <3> QED
        BY <1>t, <1>n, <2>1, <2>3, <3>1, <3>3
    <2> QED
      BY <1>2, <2>2, <2>3 DEF t_join
  <1>3. CASE t_exit
    <2>1. <<t, u>> \in JoinCalls /\ <<t, u>>[2] = u
      BY <1>t, <1>n DEF JoinInv, TableFilled
    <2>2. u # me
      BY <1>3, <2>1 DEF OrderlyJoins, t_exit
    <2>3. UNCHANGED <<joinVars, scan>> /\ pc' = [pc EXCEPT ![me] = "done"]
      BY <1>3 DEF t_exit
    <2>4. pc'[u] = pc[u]
      BY <1>t, <1>n, <2>2, <2>3
    <2> QED
      BY <1>a, <1>b, <2>3, <2>4 DEF joinVars
  <1>4. CASE retire
    <2>1. /\ UNCHANGED <<joinVars, scan>> /\ pc' = [pc EXCEPT ![me] = "done"]
          /\ pc[me] = "wake" /\ scan[me] = WaitSlots
      BY <1>4 DEF retire, InWake
    <2>2. u # me
      <3> SUFFICES ASSUME u = me PROVE FALSE
        OBVIOUS
      <3>1. WaitSlots <= i
        BY <1>a, <2>1
      <3> QED
        BY <1>t, <1>n, <3>1
    <2>3. pc'[u] = pc[u]
      BY <1>t, <1>n, <2>1, <2>2
    <2> QED
      BY <1>a, <1>b, <2>1, <2>3 DEF joinVars
  <1>5. CASE userFunctionReturns
    <2>1. /\ UNCHANGED joinVars
          /\ pc' = [pc EXCEPT ![me] = "wake"] /\ scan' = [scan EXCEPT ![me] = 0]
      BY <1>5 DEF userFunctionReturns
    <2>2. pc'[u] = "body" \/ (pc'[u] = "wake" /\ scan'[u] <= i)
      BY <1>t, <1>n, <1>a, <2>1
    <2> QED
      BY <1>b, <2>1, <2>2 DEF joinVars
  <1>6. CASE wakeSlot
    <2>1. /\ UNCHANGED <<joinVars, pc>> /\ pc[me] = "wake"
          /\ scan' = [scan EXCEPT ![me] = scan[me] + 1]
      BY <1>6 DEF wakeSlot, InWake
    <2>2. u = me => i # scan[me]
      BY <1>t, <1>n, <1>6 DEF WaitsFor
    <2>3. CASE u = me
      <3>1. scan[u] <= i /\ i # scan[u] /\ scan'[u] = scan[u] + 1
        BY <1>t, <1>n, <1>a, <2>1, <2>2, <2>3
      <3>2. scan'[u] <= i
        BY <1>t, <1>n, <3>1
      <3> QED
        BY <1>b, <2>1, <2>3, <3>2 DEF joinVars
    <2>4. CASE u # me
      <3>1. scan'[u] = scan[u]
        BY <1>t, <1>n, <2>1, <2>4
      <3> QED
        BY <1>a, <1>b, <2>1, <3>1 DEF joinVars
    <2> QED
      BY <2>3, <2>4
  <1> QED
    BY <1>1, <1>2, <1>a, <1>b, <1>3, <1>4, <1>5, <1>6, JoinSteps

\* A joiner that has just parked is in a slot ahead of its target.
LEMMA NewJoiner ==
  ASSUME OrderlyJoins, OrderInv, NEW u \in Threads, t_join(u), ~Exited(u)
  PROVE  LET me == currentRunningThread
         IN  /\ me \in Threads
             /\ waitingForTid'[me] = u
             /\ JoinSlot \in Slots /\ tcbWaiting'[JoinSlot] = me
             /\ Later(u, waitingIndex)
             /\ JoinSlot = waitingIndex
             /\ UNCHANGED <<pc, scan>>
  <1> DEFINE me == currentRunningThread
  <1>1. /\ me \in Threads /\ InBody /\ <<me, u>> \in JoinCalls \ joined
        /\ waitingForTid' = [waitingForTid EXCEPT ![me] = u]
        /\ tcbWaiting' = [tcbWaiting EXCEPT ![JoinSlot] = me]
        /\ UNCHANGED <<pc, scan>>
    BY DEF t_join, InBody, OrderInv, JoinInv, TypeOK, exitVars
  <1>2. JoinSlot = waitingIndex /\ waitingIndex \in Slots
    BY JoinRoom DEF OrderInv
  <1>3. pc[u] # "done"
    <2>1. pc[<<me, u>>[2]] = "done" => Exited(<<me, u>>[2])
      BY <1>1 DEF OrderInv, YetToJoin
    <2> QED
      BY <2>1
  <1>4. pc[u] # "wake"
    BY <1>1 DEF OrderInv, EpilogueRuns, InBody
  <1>5. pc[u] = "body"
    BY <1>3, <1>4 DEF OrderInv, JoinInv, TypeOK
  <1>6. waitingForTid'[me] = u /\ tcbWaiting'[JoinSlot] = me
    BY <1>1, <1>2 DEF OrderInv, JoinInv, TypeOK
  <1> QED
    BY <1>1, <1>2, <1>5, <1>6 DEF Later

LEMMA FoundKeeps ==
  ASSUME OrderlyJoins, OrderInv, [KernelNext]_kernelVars
  PROVE  FoundLater'
  <1> DEFINE me == currentRunningThread
  <1>i. JoinInv /\ FreshSlots /\ FoundLater
    BY DEF OrderInv
  <1>1. ASSUME NEW t \in Threads, Parked(t)'
        PROVE  context'[t] = "t_join"
    BY <1>1, <1>i, ParkStep DEF FoundLater, JoinInv
  <1>2. ASSUME NEW t \in Threads, Joining(t)'
        PROVE  /\ waitingForTid'[t] # NoThread
               /\ \E i \in Slots : tcbWaiting'[i] = t /\ Later(waitingForTid[t], i)'
    <2>1. Parked(t)'
      BY <1>2 DEF Joining
    <2>2. CASE \E u \in Threads : t_join(u) /\ ~Exited(u) /\ t = me
      <3>1. PICK u \in Threads : t_join(u) /\ ~Exited(u) /\ t = me
        BY <2>2
      <3>2. PICK i \in Slots : i = JoinSlot
        BY <3>1, NewJoiner
      <3>3. /\ waitingForTid'[t] = u /\ tcbWaiting'[i] = t
            /\ Later(u, i) /\ UNCHANGED <<pc, scan>>
        BY <3>1, <3>2, NewJoiner
      <3>4. Later(waitingForTid[t], i)'
        BY <3>3 DEF Later
      <3>5. u # NoThread
        BY DEF Threads, NoThread
      <3> QED
        BY <3>3, <3>4, <3>5
    <2>3. CASE /\ Parked(t)
               /\ ~(wakeSlot /\ t = tcbWaiting[scan[me]] /\ WaitsFor(t, me))
               /\ ~(\E u \in Threads : t_join(u) /\ ~Exited(u) /\ t = me)
      <3>1. context[t] = "t_join" /\ Joining(t)
        BY <1>i, <2>3 DEF FoundLater, Joining
      <3>2. waitingForTid[t] # NoThread
        BY <1>i, <3>1 DEF FoundLater
      <3>3. PICK i \in Slots : tcbWaiting[i] = t /\ Later(waitingForTid[t], i)
        BY <1>i, <3>1 DEF FoundLater
      <3> QED
        BY <1>2, <1>i, <2>3, <3>2, <3>3, AheadKeeps
    <2> QED
      BY <1>i, <2>1, <2>2, <2>3, ParkStep DEF JoinInv
  <1>3. ASSUME NEW j \in joined'
        PROVE  Born(j[2])'
    <2>1. gThreadID' >= gThreadID /\ gThreadID \in Int /\ gThreadID' \in Int
      BY <1>i, GThreadGrows DEF JoinInv
    <2>2. Born(j[2]) /\ j[2] \in Int
      <3>1. CASE j \in joined
        <4>1. j \in Threads \X Threads
          BY <1>i, <3>1 DEF JoinInv, TypeOK
        <4>2. j[2] \in Int
          BY <4>1 DEF Threads
        <4> QED
          BY <1>i, <3>1, <4>2 DEF FoundLater
      <3>2. CASE j \notin joined
        <4>1. PICK v \in Threads : t_join(v)
          BY <1>3, <3>2, JoinSteps
          DEF joinVars, t_exit, retire, userFunctionReturns, wakeSlot
        <4>2. j = <<me, v>> /\ v <= gThreadID
          BY <1>3, <3>2, <4>1 DEF t_join
        <4> QED
          BY <4>2 DEF Born, Threads
      <3> QED
        BY <3>1, <3>2
    <2> QED
      BY <2>1, <2>2 DEF Born
  <1> QED
    BY <1>1, <1>2, <1>3 DEF FoundLater

\* t_start returns from a scan that found every count zero.
LEMMA ReturnedKeeps ==
  ASSUME ReturnedEmpty, [KernelNext]_kernelVars
  PROVE  ReturnedEmpty'
  <1>1. CASE schedulerReturns
    BY <1>1 DEF schedulerReturns, ReturnedEmpty, AllZero, readyVars
  <1>2. CASE halted \/ UNCHANGED kernelVars
    BY <1>2 DEF halted, kernelVars, ReturnedEmpty, AllZero
  <1>3. CASE ~schedulerReturns /\ ~halted /\ ~UNCHANGED kernelVars
    <2>1. cpu' # "returned"
      BY <1>3
      DEF KernelNext, schedulerStep, epilogueStep, t_start, t_fork, t_join,
          t_yield, timerHandler, t_exit, userFunctionReturns, wakeSlot, retire,
          dispatch, resume, callUserFunction, InBody, InWake, Requeue, Park
    <2> QED
      BY <2>1 DEF ReturnedEmpty
  <1> QED
    BY <1>1, <1>2, <1>3

LEMMA OrderInit == KernelInit => OrderInv
  <1> SUFFICES ASSUME KernelInit PROVE OrderInv
    OBVIOUS
  <1>1. JoinInv /\ CountsMatchQueues
    BY JoinInit, CountsInit
  <1>2. FreshSlots
    BY FS_EmptySet DEF KernelInit, FreshSlots
  <1>3. \A t \in Threads : pc[t] = "body" /\ ~waked[t] /\ ~Born(t)
    BY KernelAssumption DEF KernelInit, Born, Threads
  <1>4. EpilogueRuns /\ FoundLater /\ YetToJoin
    <2>1. \A j \in JoinCalls : j[2] \in Threads
      BY KernelAssumption
    <2>2. joined = {}
      BY DEF KernelInit
    <2> QED
      BY <1>3, <2>1, <2>2 DEF EpilogueRuns, FoundLater, YetToJoin, Joining, Parked
  <1>5. ReturnedEmpty
    BY DEF KernelInit, ReturnedEmpty
  <1> QED
    BY <1>1, <1>2, <1>4, <1>5 DEF OrderInv

LEMMA OrderStep ==
  ASSUME OrderlyJoins, OrderInv, [KernelNext]_kernelVars
  PROVE  OrderInv'
  <1>1. /\ TypeOK /\ JoinInv /\ CountsMatchQueues /\ FreshSlots /\ EpilogueRuns
        /\ YetToJoin /\ ReturnedEmpty
    BY DEF OrderInv, JoinInv
  <1>2. JoinInv' /\ CountsMatchQueues'
    BY <1>1, JoinStep, CountsStep DEF OrderlyJoins
  <1>3. FreshSlots' /\ EpilogueRuns' /\ FoundLater' /\ YetToJoin' /\ ReturnedEmpty'
    BY <1>1, FreshKeeps, EpilogueKeeps, FoundKeeps, YetKeeps, ReturnedKeeps
  <1> QED
    BY <1>2, <1>3 DEF OrderInv

LEMMA OrderAlways == ASSUME OrderlyJoins PROVE KernelSpec => []OrderInv
  <1>1. OrderInv /\ [KernelNext]_kernelVars => OrderInv'
    BY OrderStep
  <1> QED
    BY <1>1, OrderInit, PTL DEF KernelSpec

-----------------------------------------------------------------------------
(* Theorems. *)

\* A thread that left the processor without queueing itself is in a slot of the
\* join table that its target has yet to scan: no wakeup of t_join is lost
\* between the search of the recorded ids and the scan of incrementStack.
THEOREM KernelNoOrphan ==
  ASSUME OrderlyJoins PROVE KernelSpec => []NoOrphanJoiner
  <1>1. OrderInv => NoOrphanJoiner
    <2> SUFFICES ASSUME OrderInv, NEW t \in Threads, Parked(t)
                 PROVE  /\ waitingForTid[t] # NoThread
                        /\ \E i \in Slots : /\ tcbWaiting[i] = t
                                            /\ Later(waitingForTid[t], i)
      BY DEF NoOrphanJoiner, Later
    <2> QED
      BY DEF OrderInv, FoundLater, Joining
  <1> QED
    BY <1>1, OrderAlways, PTL

\* A t_join of a thread that has ended returns without waiting.
THEOREM KernelLateJoin ==
  ASSUME OrderlyJoins PROVE KernelSpec => LateJoinReturns
  <1> DEFINE Late == \A j \in joined' \ joined :
                       pc[j[2]] = "done" => ~Parked(j[1])'
  <1>1. OrderInv /\ [KernelNext]_kernelVars => Late
    <2> SUFFICES ASSUME OrderInv, [KernelNext]_kernelVars,
                        NEW j \in joined' \ joined, pc[j[2]] = "done"
                 PROVE  ~Parked(j[1])'
      OBVIOUS
    <2>1. PICK u \in Threads : t_join(u)
      BY JoinSteps DEF joinVars, t_exit, retire, userFunctionReturns, wakeSlot
    <2>2. j = <<currentRunningThread, u>> /\ j \in JoinCalls \ joined
      BY <2>1 DEF t_join
    <2>3. Exited(u)
      BY <2>2 DEF OrderInv, YetToJoin
    <2>4. UNCHANGED <<cpu, currentRunningThread>> /\ cpu = "thread"
      BY <2>1, <2>3 DEF t_join, InBody
    <2> QED
      BY <2>2, <2>4 DEF Parked, OnProcessor
  <1>2. OrderInv /\ [KernelNext]_kernelVars => [Late]_kernelVars
    BY <1>1
  <1> QED
    BY <1>2, OrderAlways, PTL DEF KernelSpec, LateJoinReturns

\* Where no threads wait for one another in a circle, t_start returns only when
\* every thread has ended.
THEOREM KernelAllGone ==
  ASSUME OrderlyJoins, NoCircle PROVE KernelSpec => []AllGoneAtReturn
  <1>1. OrderInv => AllGoneAtReturn
    <2> SUFFICES ASSUME OrderInv, cpu = "returned",
                        NEW t \in Threads, Born(t), pc[t] # "done"
                 PROVE  FALSE
      BY DEF AllGoneAtReturn
    <2> DEFINE Left == {x \in Threads : Parked(x)}
    <2>1. \A x \in Threads : ~Queued(x) /\ ~OnProcessor(x)
      BY DEF OrderInv, ReturnedEmpty, AllZero, CountsMatchQueues, Queued, OnProcessor
    <2>2. \A x \in Threads : Born(x) /\ pc[x] = "body" => x \in Left
      BY <2>1 DEF Parked
    <2>3. t \in Left
      BY <2>2 DEF OrderInv, EpilogueRuns, JoinInv, TypeOK
    <2>4. PICK x \in Left : \A u \in Left : <<x, u>> \notin JoinCalls
      BY <2>3 DEF NoCircle
    <2> DEFINE u == waitingForTid[x]
    <2>5. u # NoThread /\ \E i \in Slots : Later(u, i)
      BY DEF OrderInv, FoundLater, Joining
    <2>6. u \in Threads /\ <<x, u>> \in joined /\ <<x, u>> \in JoinCalls
      BY <2>5 DEF OrderInv, JoinInv, TypeOK, TableFilled
    <2>7. Born(u)
      <3>1. Born(<<x, u>>[2])
        BY <2>6 DEF OrderInv, FoundLater
      <3> QED
        BY <3>1
    <2>8. pc[u] = "body"
      BY <2>5, <2>6 DEF Later, OrderInv, EpilogueRuns
    <2> QED
      BY <2>2, <2>4, <2>6, <2>7, <2>8
  <1> QED
    BY <1>1, OrderAlways, PTL

-----------------------------------------------------------------------------
(* The kernel keeps the promise of ThreadLife: every step of it is a step  *)
(* of that module, or does not show.  The stages of a thread are read off  *)
(* the queues, the processor and pc.                                       *)

Lives == [t \in Threads |-> Stage(t)]
Over  == {t \in Threads : pc[t] # "body"}

\* No thread exists before the first.
NobodyYet == cpu = "t_start" => gThreadID = 0

\* The inductive invariant.
LifeInv == OrderInv /\ PriorityInv /\ NobodyYet

\* What each stage stands for.
StageFacts ==
  \A t \in Threads :
    /\ Stage(t) \in {"unborn", "gone", "ready", "running", "joining"}
    /\ Stage(t) = "unborn" <=> ~Born(t)
    /\ Stage(t) = "gone" <=> pc[t] = "done"
    /\ Stage(t) = "ready" <=> Queued(t)
    /\ Stage(t) = "running" <=> OnProcessor(t)
    /\ Stage(t) = "joining" <=> Parked(t)

LEMMA StageIs == LifeInv => StageFacts
  <1> SUFFICES ASSUME LifeInv, NEW t \in Threads
               PROVE  /\ Stage(t) \in {"unborn", "gone", "ready", "running", "joining"}
                      /\ Stage(t) = "unborn" <=> ~Born(t)
                      /\ Stage(t) = "gone" <=> pc[t] = "done"
                      /\ Stage(t) = "ready" <=> Queued(t)
                      /\ Stage(t) = "running" <=> OnProcessor(t)
                      /\ Stage(t) = "joining" <=> Parked(t)
    BY DEF StageFacts
  <1>1. /\ Queued(t) => Born(t) /\ pc[t] # "done" /\ ~OnProcessor(t)
        /\ OnProcessor(t) => Born(t) /\ pc[t] # "done"
        /\ ~Born(t) => pc[t] = "body"
    BY DEF LifeInv, OrderInv, JoinInv, PlaceInv, ReadyOnly, RunningLives, StartedOnce
  <1>2. pc[t] \in {"body", "wake", "done"} /\ (pc[t] = "wake" => OnProcessor(t))
    BY DEF LifeInv, OrderInv, JoinInv, TypeOK, EpilogueRuns, OnProcessor
  <1>3. CASE ~Born(t)
    <2>1. pc[t] = "body" /\ ~Queued(t) /\ ~OnProcessor(t)
      BY <1>1, <1>3
    <2>2. pc[t] # "done"
      BY <2>1
    <2>3. Stage(t) = "unborn"
      BY <1>3, <2>1, <2>2, Zenon DEF Stage
    <2> QED
      BY <1>3, <2>1, <2>3 DEF Parked
  <1>4. CASE Born(t) /\ pc[t] = "done"
    <2>1. Stage(t) = "gone"
      BY <1>1, <1>4, Zenon DEF Stage
    <2> QED
      BY <1>1, <1>4, <2>1 DEF Parked
  <1>5. CASE Queued(t)
    <2>1. Stage(t) = "ready"
      BY <1>1, <1>5, Zenon DEF Stage
    <2> QED
      BY <1>1, <1>5, <2>1 DEF Parked
  <1>6. CASE OnProcessor(t)
    <2>1. Stage(t) = "running"
      BY <1>1, <1>6, Zenon DEF Stage
    <2> QED
      BY <1>1, <1>6, <2>1 DEF Parked
  <1>7. CASE Born(t) /\ pc[t] # "done" /\ ~Queued(t) /\ ~OnProcessor(t)
    <2>1. Stage(t) = "joining"
      BY <1>7, Zenon DEF Stage
    <2> QED
      BY <1>2, <1>7, <2>1 DEF Parked
  <1> QED
    BY <1>3, <1>4, <1>5, <1>6, <1>7

\* A thread of which nothing shown has changed keeps its stage.
LEMMA StageKept ==
  ASSUME StageFacts, StageFacts', NEW t \in Threads,
         Born(t)' <=> Born(t), pc'[t] = "done" <=> pc[t] = "done",
         Queued(t)' <=> Queued(t), OnProcessor(t)' <=> OnProcessor(t)
  PROVE  Stage(t)' = Stage(t)
  BY DEF StageFacts

LEMMA LivesChange ==
  ASSUME NEW f, f = [t \in Threads |-> f[t]], \A t \in Threads : Stage(t)' = f[t]
  PROVE  Lives' = f
  BY DEF Lives

\* A step in which one thread changes stage.
LEMMA OneChanges ==
  ASSUME StageFacts, StageFacts', NEW x \in Threads, NEW s, Stage(x)' = s,
         \A t \in Threads \ {x} :
           /\ Born(t)' <=> Born(t)
           /\ pc'[t] = "done" <=> pc[t] = "done"
           /\ Queued(t)' <=> Queued(t)
           /\ OnProcessor(t)' <=> OnProcessor(t)
  PROVE  Lives' = [Lives EXCEPT ![x] = s]
  <1>1. \A t \in Threads \ {x} : Stage(t)' = Stage(t)
    BY StageKept
  <1> QED
    BY <1>1 DEF Lives

LEMMA NoneChanges ==
  ASSUME StageFacts, StageFacts',
         \A t \in Threads :
           /\ Born(t)' <=> Born(t)
           /\ pc'[t] = "done" <=> pc[t] = "done"
           /\ Queued(t)' <=> Queued(t)
           /\ OnProcessor(t)' <=> OnProcessor(t)
  PROVE  Lives' = Lives
  <1>1. \A t \in Threads : Stage(t)' = Stage(t)
    BY StageKept
  <1> QED
    BY <1>1 DEF Lives

-----------------------------------------------------------------------------
(* The steps, one by one. *)

\* what every step below needs
LEMMA StepFacts ==
  ASSUME LifeInv
  PROVE  /\ TypeOK /\ PlaceInv /\ JoinInv /\ pQueue \in Queues
         /\ pc \in [Threads -> {"body", "wake", "done"}]
         /\ priority \in [Threads -> Levels]
         /\ waitingForTid \in [Threads -> Threads \cup {NoThread}]
         /\ cpu = "thread" => currentRunningThread \in Threads
         /\ \A t \in Threads : Queued(t) <=> InQueues(pQueue, t)
  BY PlaceTypes DEF LifeInv, OrderInv, JoinInv, TypeOK

LEMMA StartIsStart ==
  ASSUME LifeInv, StageFacts, StageFacts', NEW p \in Levels, t_start(p)
  PROVE  \E t \in Threads : Life!Start(t, p)
  <1>1. /\ NewTcb(p) /\ cpu = "t_start" /\ cpu' = "scheduler"
        /\ pQueue' = Insert(pQueue, gThreadID + 1, p)
        /\ UNCHANGED <<currentRunningThread, pc, waitingForTid>>
    BY DEF t_start, exitVars, joinVars
  <1>2. PICK new \in Threads :
          /\ new = gThreadID + 1
          /\ \A t \in Threads : Born(t)' <=> Born(t) \/ t = new
          /\ \A x \in Threads : InQueues(Insert(pQueue, gThreadID + 1, p), x)
                                  <=> Queued(x) \/ x = new
    BY <1>1, StepFacts, NewPlace
  <1>3. \A t \in Threads : Stage(t) = "unborn"
    <2>1. \A t \in Threads : ~Born(t)
      BY <1>1 DEF LifeInv, NobodyYet, Born, Threads
    <2> QED
      BY <2>1 DEF StageFacts
  <1>4. priority' = [priority EXCEPT ![new] = p]
    BY <1>1, <1>2 DEF NewTcb
  <1>5. \A t \in Threads : /\ Queued(t)' <=> Queued(t) \/ t = new
                           /\ OnProcessor(t)' <=> OnProcessor(t)
    BY <1>1, <1>2 DEF Queued, InQueues, OnProcessor
  <1>6. Lives' = [Lives EXCEPT ![new] = "ready"]
    <2>1. Stage(new)' = "ready"
      BY <1>2, <1>5 DEF StageFacts
    <2> QED
      BY <1>1, <1>2, <1>5, <2>1, OneChanges
  <1>7. Over' = Over
    BY <1>1 DEF Over
  <1>8. Life!Start(new, p)
    BY <1>1, <1>2, <1>3, <1>4, <1>6, <1>7 DEF Life!Start, Lives, Over
  <1> QED
    BY <1>2, <1>8

\* t_yield and the timer.
LEMMA RequeueIsPreempt ==
  ASSUME LifeInv, StageFacts, StageFacts', t_yield \/ timerHandler
  PROVE  \E t \in Threads : Life!Preempt(t)
  <1>1. /\ cpu = "thread"
        /\ \E where \in Contexts : Requeue(pQueue, threadLevelCount, where)
        /\ UNCHANGED <<currentRunningThread, gThreadID, pc, priority, waitingForTid>>
    BY DEF t_yield, timerHandler, InBody, Contexts, ResumeByEnabling, tcbVars,
           exitVars, joinVars
  <1>2. PICK me \in Threads : me = currentRunningThread
    BY <1>1, StepFacts
  <1>3. \A t \in Threads : /\ Queued(t)' <=> Queued(t) \/ OnProcessor(t)
                           /\ ~OnProcessor(t)'
                           /\ OnProcessor(t) <=> t = me
                           /\ Born(t)' <=> Born(t)
    <2>1. \A t \in Threads : /\ Queued(t)' <=> Queued(t) \/ OnProcessor(t)
                             /\ ~OnProcessor(t)'
      BY <1>1, StepFacts, RequeueLeaves
    <2> QED
      BY <1>1, <1>2, <2>1 DEF OnProcessor, Born
  <1>4. Stage(me) = "running" /\ Stage(me)' = "ready"
    BY <1>3 DEF StageFacts
  <1>5. Lives' = [Lives EXCEPT ![me] = "ready"]
    BY <1>1, <1>3, <1>4, OneChanges
  <1>6. Over' = Over
    BY <1>1 DEF Over
  <1>7. Life!Preempt(me)
    BY <1>1, <1>4, <1>5, <1>6 DEF Life!Preempt, Life!Running, Lives, Over
  <1> QED
    BY <1>7

LEMMA ForkIsFork ==
  ASSUME LifeInv, StageFacts, StageFacts', NEW p \in Levels, t_fork(p)
  PROVE  \E c, t \in Threads : Life!Fork(c, t, p)
  <1> DEFINE q == Insert(pQueue, gThreadID + 1, p)
             n == CountUp(threadLevelCount, p)
  <1>1. /\ NewTcb(p) /\ cpu = "thread" /\ UNCHANGED <<currentRunningThread, pc>>
        /\ UNCHANGED waitingForTid
        /\ \/ p > priority[currentRunningThread] /\ Requeue(q, n, "t_yield")
           \/ /\ ~(p > priority[currentRunningThread])
              /\ pQueue' = q /\ UNCHANGED cpu
    <2>1. priority[currentRunningThread] \in Int /\ p \in Int
      BY StepFacts DEF Levels, t_fork, InBody
    <2> QED
      BY <2>1 DEF t_fork, InBody, exitVars, joinVars
  <1>2. PICK me \in Threads : me = currentRunningThread
    BY <1>1, StepFacts
  <1>3. PICK new \in Threads :
          /\ new = gThreadID + 1 /\ ~Born(new)
          /\ \A t \in Threads : Born(t)' <=> Born(t) \/ t = new
          /\ q \in Queues
          /\ \A x \in Threads : InQueues(q, x) <=> Queued(x) \/ x = new
    BY <1>1, StepFacts, NewPlace
  <1>4. priority' = [priority EXCEPT ![new] = p]
    BY <1>1, <1>3 DEF NewTcb
  <1> HIDE DEF q, n
  <1>5. \A t \in Threads : OnProcessor(t) <=> t = me
    BY <1>1, <1>2 DEF OnProcessor
  <1>6. Stage(me) = "running" /\ Stage(new) = "unborn" /\ me # new
    BY <1>3, <1>5 DEF StageFacts
  <1> DEFINE up == IF p > priority[me] THEN "ready" ELSE "running"
  <1>7. Stage(new)' = "ready" /\ Stage(me)' = up
        /\ \A t \in Threads \ {me, new} : Stage(t)' = Stage(t)
    <2>1. CASE p > priority[me] /\ Requeue(q, n, "t_yield")
      <3>1. \A t \in Threads : /\ Queued(t)' <=> Queued(t) \/ t = new \/ t = me
                               /\ ~OnProcessor(t)'
        BY <1>1, <1>3, <1>5, <2>1, StepFacts, RequeueLeaves
      <3> QED
        BY <1>1, <1>3, <1>5, <2>1, <3>1, StageKept DEF StageFacts
    <2>2. CASE ~(p > priority[me]) /\ pQueue' = q /\ UNCHANGED cpu
      <3>1. \A t \in Threads : /\ Queued(t)' <=> Queued(t) \/ t = new
                               /\ OnProcessor(t)' <=> OnProcessor(t)
        BY <1>1, <1>3, <2>2 DEF Queued, InQueues, OnProcessor
      <3> QED
        BY <1>1, <1>3, <1>5, <2>2, <3>1, StageKept DEF StageFacts
    <2> QED
      BY <1>1, <1>2, <2>1, <2>2
  <1>8. Lives' = [Lives EXCEPT ![new] = "ready", ![me] = up]
    <2> HIDE DEF up
    <2> QED
      BY <1>6, <1>7 DEF Lives
  <1>9. Over' = Over
    BY <1>1 DEF Over
  <1>10. Lives[me] = "running"
    BY <1>6 DEF Lives
  <1>11. Lives' = [Lives EXCEPT ![new] = "ready",
                                ![me] = IF p > priority[me] THEN "ready" ELSE @]
    BY <1>6, <1>8, <1>10 DEF Lives
  <1>12. Life!Fork(me, new, p)
    BY <1>1, <1>4, <1>6, <1>9, <1>11 DEF Life!Fork, Life!Running, Lives, Over
  <1> QED
    BY <1>12

\* A call of t_join that waits; one that does not shows nothing.
LEMMA JoinIsAwait ==
  ASSUME OrderlyJoins, LifeInv, StageFacts, StageFacts', NEW u \in Threads, t_join(u)
  PROVE  \/ \E t \in Threads : Life!Await(t, u)
         \/ UNCHANGED <<Lives, priority, waitingForTid, Over>>
  <1>1. /\ cpu = "thread" /\ u <= gThreadID
        /\ UNCHANGED <<currentRunningThread, gThreadID, pc, priority, pQueue>>
    BY DEF t_join, InBody, readyVars, exitVars, Park
  <1>2. PICK me \in Threads : me = currentRunningThread
    BY <1>1, StepFacts
  <1>3. \A t \in Threads : /\ Queued(t)' <=> Queued(t)
                           /\ Born(t)' <=> Born(t)
                           /\ OnProcessor(t) <=> t = me
    BY <1>1, <1>2 DEF Queued, Born, OnProcessor
  <1>4. Over' = Over
    BY <1>1 DEF Over
  <1>5. CASE Exited(u)
    <2>1. UNCHANGED <<cpu, waitingForTid>>
      BY <1>5 DEF t_join
    <2>2. \A t \in Threads : OnProcessor(t)' <=> OnProcessor(t)
      BY <1>1, <2>1 DEF OnProcessor
    <2> QED
      BY <1>1, <1>3, <1>4, <2>1, <2>2, NoneChanges
  <1>6. CASE ~Exited(u)
    <2>1. /\ waitingForTid' = [waitingForTid EXCEPT ![me] = u]
          /\ cpu' = "scheduler"
      BY <1>2, <1>6 DEF t_join, Park
    <2>2. \A t \in Threads : ~OnProcessor(t)'
      BY <2>1 DEF OnProcessor
    <2>3. pc[u] # "done" /\ Born(u)
      BY <1>1, <1>6, NewJoiner DEF LifeInv, Later, Born
    <2>4. Stage(u) \notin {"unborn", "gone"} /\ Stage(me) = "running"
      BY <1>3, <2>3 DEF StageFacts
    <2>5. Stage(me)' = "joining"
      <3>1. Born(me) /\ pc[me] # "done" /\ ~Queued(me)
        BY <2>4 DEF StageFacts
      <3> QED
        BY <1>1, <1>3, <2>2, <3>1 DEF StageFacts
    <2>6. Lives' = [Lives EXCEPT ![me] = "joining"]
      BY <1>1, <1>3, <2>2, <2>5, OneChanges
    <2>7. Life!Await(me, u)
      BY <1>1, <1>4, <2>1, <2>4, <2>6 DEF Life!Await, Life!Running, Lives, Over
    <2> QED
      BY <2>7
  <1> QED
    BY <1>5, <1>6

LEMMA ReturnIsFinish ==
  ASSUME LifeInv, StageFacts, StageFacts', userFunctionReturns
  PROVE  \E t \in Threads : Life!Finish(t)
  <1>1. /\ cpu = "thread"
        /\ pc' = [pc EXCEPT ![currentRunningThread] = "wake"]
        /\ pc[currentRunningThread] = "body"
        /\ UNCHANGED <<currentRunningThread, gThreadID, pQueue, priority,
                       waitingForTid, cpu>>
    BY DEF userFunctionReturns, InBody, readyVars, tcbVars, joinVars
  <1>2. PICK me \in Threads : me = currentRunningThread
    BY <1>1, StepFacts
  <1>3. \A t \in Threads : /\ Queued(t)' <=> Queued(t)
                           /\ Born(t)' <=> Born(t)
                           /\ OnProcessor(t)' <=> OnProcessor(t)
                           /\ pc'[t] = "done" <=> pc[t] = "done"
    BY <1>1, <1>2, StepFacts DEF Queued, Born, OnProcessor
  <1>4. Lives' = Lives
    BY <1>3, NoneChanges
  <1>5. Over' = Over \cup {me}
    BY <1>1, <1>2, StepFacts DEF Over
  <1>6. Stage(me) = "running"
    <2>1. OnProcessor(me)
      BY <1>1, <1>2 DEF OnProcessor
    <2> QED
      BY <2>1 DEF StageFacts
  <1>7. Life!Finish(me)
    BY <1>1, <1>4, <1>5, <1>6 DEF Life!Finish, Life!Running, Lives, Over
  <1> QED
    BY <1>7

\* Nobody waits for a thread that goes: t_exit is for threads that nobody
\* joins, and the scan has passed every slot when a thread retires.
LEMMA NobodyWaits ==
  ASSUME OrderlyJoins, LifeInv, t_exit \/ retire, NEW w \in Threads, Parked(w)
  PROVE  waitingForTid[w] # currentRunningThread
  <1> DEFINE me == currentRunningThread
  <1> SUFFICES ASSUME waitingForTid[w] = me PROVE FALSE
    OBVIOUS
  <1>1. waitingForTid[w] # NoThread /\ \E i \in Slots : Later(me, i)
    BY DEF LifeInv, OrderInv, FoundLater, Joining
  <1>2. <<w, me>> \in JoinCalls /\ <<w, me>>[2] = me
    BY <1>1 DEF LifeInv, OrderInv, JoinInv, TableFilled
  <1>3. CASE t_exit
    BY <1>2, <1>3 DEF t_exit, OrderlyJoins
  <1>4. CASE retire
    <2>1. PICK i \in Slots : scan[me] <= i
      BY <1>1, <1>4 DEF Later, retire, InWake
    <2>2. scan[me] = WaitSlots
      BY <1>4 DEF retire
    <2> QED
      BY <2>1, <2>2, KernelAssumption DEF Slots
  <1> QED
    BY <1>3, <1>4

LEMMA EndIsLeave ==
  ASSUME OrderlyJoins, LifeInv, StageFacts, StageFacts', t_exit \/ retire
  PROVE  \E t \in Threads : Life!Leave(t)
  <1>1. /\ cpu = "thread" /\ cpu' = "scheduler"
        /\ pc' = [pc EXCEPT ![currentRunningThread] = "done"]
        /\ UNCHANGED <<currentRunningThread, gThreadID, pQueue, priority,
                       waitingForTid>>
    BY DEF t_exit, retire, InBody, InWake, readyVars, tcbVars, joinVars
  <1>2. PICK me \in Threads : me = currentRunningThread
    BY <1>1, StepFacts
  <1>3. \A t \in Threads : /\ Queued(t)' <=> Queued(t)
                           /\ Born(t)' <=> Born(t)
                           /\ ~OnProcessor(t)'
                           /\ OnProcessor(t) <=> t = me
                           /\ t # me => pc'[t] = pc[t]
    BY <1>1, <1>2, StepFacts DEF Queued, Born, OnProcessor
  <1>4. Stage(me) = "running" /\ Stage(me)' = "gone"
    BY <1>1, <1>2, <1>3, StepFacts DEF StageFacts
  <1>5. Lives' = [Lives EXCEPT ![me] = "gone"]
    BY <1>3, <1>4, OneChanges
  <1>6. Over' = Over \cup {me}
    BY <1>1, <1>2, StepFacts DEF Over
  <1>7. \A w \in Threads : Stage(w) = "joining" => waitingForTid[w] # me
    BY <1>2, NobodyWaits DEF StageFacts
  <1>8. Life!Leave(me)
    BY <1>1, <1>4, <1>5, <1>6, <1>7
    DEF Life!Leave, Life!Running, Life!Waiting, Lives, Over
  <1> QED
    BY <1>8

\* The scan of a slot releases the thread in it or shows nothing.
LEMMA WakeIsRelease ==
  ASSUME LifeInv, StageFacts, StageFacts', wakeSlot
  PROVE  \/ \E t \in Threads : Life!Release(t)
         \/ UNCHANGED <<Lives, priority, waitingForTid, Over>>
  <1> DEFINE found == tcbWaiting[scan[currentRunningThread]]
  <1>1. /\ cpu = "thread" /\ pc[currentRunningThread] = "wake"
        /\ UNCHANGED <<currentRunningThread, gThreadID, priority, waitingForTid,
                       pc, cpu>>
    BY DEF wakeSlot, InWake, tcbVars, joinVars
  <1>2. PICK me \in Threads : me = currentRunningThread
    BY <1>1, StepFacts
  <1>3. \A t \in Threads : /\ Born(t)' <=> Born(t)
                           /\ OnProcessor(t)' <=> OnProcessor(t)
                           /\ Queued(t)' <=> InQueues(pQueue', t)
    BY <1>1 DEF Born, OnProcessor, Queued, InQueues
  <1>4. Over' = Over
    BY <1>1 DEF Over
  <1>5. CASE WaitsFor(found, me)
    <2>1. scan[me] \in 0 .. WaitSlots /\ scan[me] < WaitSlots
      BY <1>2 DEF LifeInv, PriorityInv, TypeOK, wakeSlot
    <2>2. found \in Threads \cup {NoThread}
      BY <1>2, <2>1, KernelAssumption DEF LifeInv, PriorityInv, TypeOK, Slots
    <2>3. PICK w \in Threads : w = found
      BY <1>5, <2>2 DEF WaitsFor
    <2>4. Joining(w) /\ waitingForTid[w] = me
      BY <1>2, <1>5, <2>3, ScanFinds, StepFacts DEF wakeSlot, WokenWaits, WaitsFor
    <2>5. pQueue' = Insert(pQueue, w, priority[w])
      BY <1>2, <1>5, <2>3 DEF wakeSlot
    <2>6. \A t \in Threads : Queued(t)' <=> Queued(t) \/ t = w
      BY <1>3, <2>5, StepFacts, InsertPlaces
    <2>7. Stage(w) = "joining" /\ Stage(w)' = "ready"
      BY <2>4, <2>6 DEF StageFacts, Joining
    <2>8. Lives' = [Lives EXCEPT ![w] = "ready"]
      BY <1>1, <1>3, <2>6, <2>7, OneChanges
    <2>9. Stage(me) = "running"
      <3>1. OnProcessor(me)
        BY <1>1, <1>2 DEF OnProcessor
      <3> QED
        BY <3>1 DEF StageFacts
    <2>10. Life!Release(w)
      BY <1>1, <1>2, <1>4, <2>4, <2>7, <2>8, <2>9
      DEF Life!Release, Life!Running, Lives, Over
    <2> QED
      BY <2>10
  <1>6. CASE ~WaitsFor(found, me)
    <2>1. UNCHANGED pQueue
      BY <1>2, <1>6 DEF wakeSlot, readyVars
    <2>2. \A t \in Threads : Queued(t)' <=> Queued(t)
      BY <2>1 DEF Queued
    <2> QED
      BY <1>1, <1>3, <1>4, <2>2, NoneChanges
  <1> QED
    BY <1>5, <1>6

LEMMA DispatchIsDispatch ==
  ASSUME LifeInv, StageFacts, StageFacts', NEW y \in Levels, dispatch(y)
  PROVE  \E t \in Threads : Life!Dispatch(t)
  <1>1. /\ cpu = "scheduler" /\ cpu' \in {"thread", "resume"}
        /\ FirstNonEmpty(threadLevelCount, y) /\ pQueue[y] # <<>>
        /\ pQueue' = Removed(pQueue, y)
        /\ currentRunningThread' = Head(pQueue[y])
        /\ UNCHANGED <<gThreadID, priority, waitingForTid, pc>>
    BY DEF dispatch, joinVars, exitVars
  <1>2. PICK h \in Threads :
          /\ h = Head(pQueue[y]) /\ Queued(h)
          /\ \A x \in Threads : Queued(x)' <=> Queued(x) /\ x # h
    <2>1. \A t \in Threads : Queued(t)' <=> InQueues(pQueue', t)
      BY DEF Queued, InQueues
    <2> QED
      BY <1>1, <2>1, StepFacts, RemovedPlaces DEF PlaceInv
  <1>3. \A t \in Threads : /\ ~OnProcessor(t)
                           /\ OnProcessor(t)' <=> t = h
                           /\ Born(t)' <=> Born(t)
    BY <1>1, <1>2 DEF OnProcessor, Born
  <1>4. Stage(h) = "ready" /\ Stage(h)' = "running"
    BY <1>2, <1>3 DEF StageFacts
  <1>5. Lives' = [Lives EXCEPT ![h] = "running"]
    BY <1>1, <1>2, <1>3, <1>4, OneChanges
  <1>6. \A t \in Threads : Stage(t) # "running"
    BY <1>3 DEF StageFacts
  <1>7. priority[h] = y
    <2>1. pQueue[y] \in Seq(Threads)
      BY StepFacts DEF Queues
    <2>2. 1 \in 1 .. Len(pQueue[y]) /\ Head(pQueue[y]) = pQueue[y][1]
      BY <1>1, <2>1
    <2> QED
      BY <1>2, <2>2 DEF LifeInv, PriorityInv, QueuedAtOwnPriority
  <1>8. ASSUME NEW t \in Threads, Stage(t) = "ready"
        PROVE  priority[t] <= priority[h]
    <2>1. PICK r \in Levels : \E i \in 1 .. Len(pQueue[r]) : pQueue[r][i] = t
      BY <1>8 DEF StageFacts, Queued
    <2>2. priority[t] = r
      BY <2>1 DEF LifeInv, PriorityInv, QueuedAtOwnPriority
    <2>3. threadLevelCount[r] # 0
      <3>1. pQueue[r] \in Seq(Threads) /\ threadLevelCount[r] = Len(pQueue[r])
        BY StepFacts DEF Queues, LifeInv, PriorityInv, CountsMatchQueues
      <3> QED
        BY <2>1, <3>1
    <2>4. ~(r > y)
      BY <1>1, <2>3 DEF FirstNonEmpty
    <2> QED
      BY <1>7, <2>2, <2>4 DEF Levels
  <1>9. Over' = Over
    BY <1>1 DEF Over
  <1>10. Life!Dispatch(h)
    BY <1>1, <1>4, <1>5, <1>6, <1>8, <1>9
    DEF Life!Dispatch, Life!Running, Life!Ready, Lives, Over
  <1> QED
    BY <1>10

\* Steps that show nothing.
LEMMA QuietIsQuiet ==
  ASSUME LifeInv, StageFacts, StageFacts',
         \/ schedulerReturns \/ resume \/ callUserFunction \/ halted
         \/ UNCHANGED kernelVars
  PROVE  UNCHANGED <<Lives, priority, waitingForTid, Over>>
  <1>1. /\ UNCHANGED <<currentRunningThread, gThreadID, pQueue, pc, priority,
                       waitingForTid>>
        /\ cpu \in {"thread", "resume"} <=> cpu' \in {"thread", "resume"}
    BY DEF schedulerReturns, resume, callUserFunction, halted, kernelVars, readyVars,
           tcbVars, exitVars, joinVars
  <1>2. \A t \in Threads : /\ Queued(t)' <=> Queued(t)
                           /\ Born(t)' <=> Born(t)
                           /\ OnProcessor(t)' <=> OnProcessor(t)
    BY <1>1 DEF Queued, Born, OnProcessor
  <1> QED
    BY <1>1, <1>2, NoneChanges DEF Over

-----------------------------------------------------------------------------
(* The refinement. *)

LEMMA LifeStep ==
  ASSUME OrderlyJoins, LifeInv, StageFacts, StageFacts', [KernelNext]_kernelVars
  PROVE  [Life!LifeNext]_(Life!lifeVars)
  <1>q. ASSUME UNCHANGED <<Lives, priority, waitingForTid, Over>>
        PROVE  UNCHANGED Life!lifeVars
    BY <1>q DEF Life!lifeVars, Lives, Over
  <1>l. Life!Levels = Levels
    BY DEF Life!Levels, Levels
  <1>1. ASSUME NEW p \in Levels, t_start(p)
        PROVE  Life!LifeNext
    BY <1>1, <1>l, StartIsStart DEF Life!LifeNext
  <1>2. ASSUME NEW p \in Levels, t_fork(p)
        PROVE  Life!LifeNext
    BY <1>2, <1>l, ForkIsFork DEF Life!LifeNext
  <1>3. CASE t_yield \/ timerHandler
    BY <1>3, RequeueIsPreempt DEF Life!LifeNext
  <1>4. ASSUME NEW u \in Threads, t_join(u)
        PROVE  Life!LifeNext \/ UNCHANGED Life!lifeVars
    <2>1. CASE \E t \in Threads : Life!Await(t, u)
      BY <2>1 DEF Life!LifeNext
    <2>2. CASE UNCHANGED <<Lives, priority, waitingForTid, Over>>
      BY <1>q, <2>2
    <2> QED
      BY <1>4, <2>1, <2>2, JoinIsAwait
  <1>5. CASE t_exit \/ retire
    BY <1>5, EndIsLeave DEF Life!LifeNext
  <1>6. CASE userFunctionReturns
    BY <1>6, ReturnIsFinish DEF Life!LifeNext
  <1>7. CASE wakeSlot
    <2>1. CASE \E t \in Threads : Life!Release(t)
      BY <2>1 DEF Life!LifeNext
    <2>2. CASE UNCHANGED <<Lives, priority, waitingForTid, Over>>
      BY <1>q, <2>2
    <2> QED
      BY <1>7, <2>1, <2>2, WakeIsRelease
  <1>8. ASSUME NEW y \in Levels, dispatch(y)
        PROVE  Life!LifeNext
    BY <1>8, DispatchIsDispatch DEF Life!LifeNext
  <1>9. CASE \/ schedulerReturns \/ resume \/ callUserFunction \/ halted
             \/ UNCHANGED kernelVars
    BY <1>9, <1>q, QuietIsQuiet
  <1> QED
    BY <1>1, <1>2, <1>3, <1>4, <1>5, <1>6, <1>7, <1>8, <1>9
    DEF KernelNext, schedulerStep, epilogueStep

LEMMA LifeAlways == ASSUME OrderlyJoins PROVE KernelSpec => []LifeInv
  <1>1. KernelInit => NobodyYet
    BY DEF KernelInit, NobodyYet
  <1>2. NobodyYet /\ [KernelNext]_kernelVars => NobodyYet'
    <2> SUFFICES ASSUME NobodyYet, [KernelNext]_kernelVars, cpu' = "t_start"
                 PROVE  gThreadID' = 0
      BY DEF NobodyYet
    <2>1. UNCHANGED <<cpu, gThreadID>>
      BY DEF KernelNext, schedulerStep, epilogueStep, t_start, t_fork, t_join,
         t_yield, timerHandler, t_exit, userFunctionReturns, wakeSlot, retire,
         dispatch, schedulerReturns, resume, callUserFunction, halted, InBody,
         InWake, Requeue, Park, kernelVars, tcbVars
    <2> QED
      BY <2>1 DEF NobodyYet
  <1>3. NobodyYet /\ KernelSpec => []NobodyYet
    BY <1>2, PTL DEF KernelSpec
  <1>4. KernelSpec => []PriorityInv
    BY KernelPriority
  <1> QED
    BY <1>1, <1>3, <1>4, OrderAlways, PTL DEF KernelSpec, LifeInv

\* Every run of the kernel is one of ThreadLife.
THEOREM KernelPromise ==
  ASSUME OrderlyJoins PROVE KernelSpec => KeepsPromise
  <1>1. KernelInit => Life!LifeInit
    <2> SUFFICES ASSUME KernelInit PROVE Life!LifeInit
      OBVIOUS
    <2>1. StageFacts
      <3>1. LifeInv
        BY OrderInit, PriorityInit DEF KernelInit, LifeInv, NobodyYet
      <3> QED
        BY <3>1, StageIs
    <2>2. \A t \in Threads : Stage(t) = "unborn"
      <3>1. \A t \in Threads : ~Born(t)
        BY DEF KernelInit, Born, Threads
      <3> QED
        BY <2>1, <3>1 DEF StageFacts
    <2>3. /\ priority = [t \in Threads |-> 0]
          /\ waitingForTid = [t \in Threads |-> NoThread]
          /\ \A t \in Threads : pc[t] = "body"
      BY DEF KernelInit
    <2> QED
      BY <2>2, <2>3 DEF Life!LifeInit, Life!NoThread, NoThread
  <1>2. LifeInv /\ LifeInv' /\ [KernelNext]_kernelVars
          => [Life!LifeNext]_(Life!lifeVars)
    <2>1. LifeInv => StageFacts
      BY StageIs
    <2>2. LifeInv' => StageFacts'
      BY StageIs, PTL
    <2> QED
      BY <2>1, <2>2, LifeStep
  <1> QED
    BY <1>1, <1>2, LifeAlways, PTL DEF KernelSpec, KeepsPromise, Life!LifeSpec
=============================================================================
