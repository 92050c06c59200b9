---------------------------- MODULE ThreadKernel ----------------------------
(***************************************************************************)
(* The thread system of THREAD.C: thread control blocks, the multilevel    *)
(* ready queue, the scheduler, the SIGVTALRM handler, and the life of a    *)
(* thread from t_fork through t_yield and t_join to its end.               *)
(*                                                                         *)
(* There is one processor, so what can interleave is decided by the signal *)
(* mask.  Code that runs with SIGVTALRM blocked is one step; the timer may *)
(* fire between any two steps that run with it unblocked.  Every longjmp   *)
(* ends a step, and cpu says where the processor went:                     *)
(*   "t_start"    before the first thread exists                           *)
(*   "scheduler"  in Scheduler(), reached through schedContext             *)
(*   "resume"     in the else branch of the setjmp whose context Scheduler *)
(*                jumped to, with the signal still blocked                 *)
(*   "thread"     in the user function of currentRunningThread (pc "body") *)
(*                or in incrementStack, just before that function (pc      *)
(*                "body", not called yet) or after it (pc "wake")          *)
(*   "returned"   t_start has returned to main                             *)
(***************************************************************************)
EXTENDS Integers, Sequences, FiniteSets

CONSTANTS
  MaxThreads,     \* bound: number of t_fork calls, the one of t_start included
  TopPriority,    \* highest priority level (127 in the code)
  WaitSlots,      \* size of tcbWaiting (50 in the code)
  JoinCalls,      \* client: <<t, u>> when thread t calls t_join(u), once
  TExiters,       \* client: the threads that may end by calling t_exit
  EpilogueTicks   \* environment: may the timer fire after a user function
                  \* returned and before its thread is gone?

\* No slice ends while a joiner is put into its ready queue.  What happens when
\* one does is the subject of module EpilogueRace.
WholeInserts == EpilogueTicks => JoinCalls = {}

Threads  == 1 .. MaxThreads
NoThread == 0
Levels   == 0 .. TopPriority
Slots    == 0 .. WaitSlots - 1

ASSUME KernelAssumption ==
  /\ MaxThreads \in Nat \ {0}
  /\ TopPriority \in Nat
  /\ WaitSlots \in Nat \ {0}
  /\ JoinCalls \subseteq Threads \X Threads
  /\ TExiters \subseteq Threads
  /\ EpilogueTicks \in BOOLEAN
  /\ WholeInserts

VARIABLES
  pQueue,                \* ready queue of each level
  threadLevelCount,      \* what Scheduler scans instead of the queues
  currentRunningThread,
  gThreadID,             \* the last thread id given out
  priority,              \* tcb->priority
  flag,                  \* tcb->flag: 1 until the thread first runs
  context,               \* tcb->context: the function whose setjmp filled it
  waitingForTid,         \* tcb->waitingForTid
  tcbWaiting,            \* the join table
  waitingIndex,          \* its next slot
  exitedThreadIDs,       \* ids recorded by incrementStack
  threadCount,           \* threads started: the stack offset of the next
  userFunction,          \* the global of that name holds the function of this
                         \* thread
  called,                \* the threads that have called a user function
  masked,                \* SIGVTALRM is blocked
  cpu,                   \* where the processor is
  pc,                    \* per thread: "body", "wake" or "done"
  scan,                  \* local i of incrementStack, per thread
  waked,                 \* local waked of incrementStack, per thread
  joined                 \* history: the t_join calls made so far

readyVars  == <<pQueue, threadLevelCount>>
tcbVars    == <<gThreadID, priority, flag>>
joinVars   == <<waitingForTid, tcbWaiting, waitingIndex, joined>>
exitVars   == <<exitedThreadIDs, pc, scan, waked>>
startVars  == <<threadCount, userFunction, called>>
kernelVars == <<pQueue, threadLevelCount, currentRunningThread, gThreadID,
                priority, flag, context, waitingForTid, tcbWaiting,
                waitingIndex, exitedThreadIDs, threadCount, userFunction, called,
                masked, cpu, pc, scan, waked, joined>>

-----------------------------------------------------------------------------
(* Helpers, each preceded by the faulty variants of it ("Bad...") that the  *)
(* properties are tested with; nothing else uses those.                    *)

BadInsertPriority(q, t, p) == [q EXCEPT ![p] = Append(@, p)]

BadInsertAtHead(q, t, p) == [q EXCEPT ![p] = <<t>> \o @]

\* q_insert(pQueue[p], t) on the array q of queues
Insert(q, t, p) == [q EXCEPT ![p] = Append(@, t)]

BadPeek(q, p) == q

\* q_remove(pQueue[p]) without its result
Removed(q, p) == [q EXCEPT ![p] = Tail(@)]

\* threadLevelCount[p]++ on the array n of counts
CountUp(n, p) == [n EXCEPT ![p] = @ + 1]

BadLowestNonEmpty(n, y) ==
  y \in Levels /\ n[y] # 0 /\ \A z \in Levels : z < y => n[z] = 0

\* the first level with a non-zero count, scanning from the top down to 0
FirstNonEmpty(n, y) ==
  y \in Levels /\ n[y] # 0 /\ \A z \in Levels : z > y => n[z] = 0

BadAllZeroButLast(n) == \A y \in Levels \ {0} : n[y] = 0

\* the scan finds no level
AllZero(n) == \A y \in Levels : n[y] = 0

BadWaitsForAny(w, u) == w # NoThread

\* The control block w of the join table waits for thread u.
WaitsFor(w, u) == w # NoThread /\ waitingForTid[w] = u

BadJoinSlot == 0

\* the slot t_join fills: the index wraps when the table is full
JoinSlot == IF waitingIndex < WaitSlots THEN waitingIndex ELSE 0

BadExited(u) == \E i \in 2 .. Len(exitedThreadIDs) : exitedThreadIDs[i] = u

\* t_join finds u among the recorded ids.
Exited(u) == \E i \in 1 .. Len(exitedThreadIDs) : exitedThreadIDs[i] = u

disableTimer == masked' = TRUE

BadEnableTimer == masked' = masked

enableTimer == masked' = FALSE

\* The running thread saves its context in function where, the array of
\* queues is q and the counts are n, and jumps to the scheduler.
Park(q, n, where) ==
  /\ context' = [context EXCEPT ![currentRunningThread] = where]
  /\ pQueue' = q
  /\ threadLevelCount' = n
  /\ disableTimer
  /\ cpu' = "scheduler"

BadRequeue(q, n, where) ==
  LET me == currentRunningThread
  IN  Park(Insert(q, me, priority[me]), n, where)

\* ... having put itself at the tail of the ready queue of its own priority
Requeue(q, n, where) ==
  LET me == currentRunningThread
  IN  Park(Insert(q, me, priority[me]), CountUp(n, priority[me]), where)

InBody == /\ cpu = "thread"
          /\ pc[currentRunningThread] = "body"
          /\ currentRunningThread \in called
InWake == cpu = "thread" /\ pc[currentRunningThread] = "wake"

-----------------------------------------------------------------------------
(* t_start created the queues and allocateMemory cleared the tables.  The  *)
(* dummy control block of priority -1 that currentRunningThread points to  *)
(* and the fifty cleared ones of tcbWaiting are NoThread.                  *)

KernelInit ==
  /\ pQueue = [p \in Levels |-> <<>>]
  /\ threadLevelCount = [p \in Levels |-> 0]
  /\ currentRunningThread = NoThread
  /\ gThreadID = 0
  /\ priority = [t \in Threads |-> 0]
  /\ flag = [t \in Threads |-> 0]
  /\ context = [t \in Threads |-> "none"]
  /\ waitingForTid = [t \in Threads |-> NoThread]
  /\ tcbWaiting = [i \in Slots |-> NoThread]
  /\ waitingIndex = 0
  /\ exitedThreadIDs = <<>>
  /\ threadCount = 0
  /\ userFunction = NoThread
  /\ called = {}
  /\ masked = FALSE
  /\ cpu = "t_start"
  /\ pc = [t \in Threads |-> "body"]
  /\ scan = [t \in Threads |-> 0]
  /\ waked = [t \in Threads |-> FALSE]
  /\ joined = {}

\* A new control block of priority p, with the next id.
NewTcb(p) ==
  /\ gThreadID < MaxThreads
  /\ gThreadID' = gThreadID + 1
  /\ priority' = [priority EXCEPT ![gThreadID + 1] = p]
  /\ flag' = [flag EXCEPT ![gThreadID + 1] = 1]

\* t_start forks the first thread, arms the timer, blocks the signal and
\* enters Scheduler, which saves schedContext and returns to it by way of
\* sitBottom.  No time slice ends while this runs.
t_start(p) ==
  /\ cpu = "t_start"
  /\ NewTcb(p)
  /\ pQueue' = Insert(pQueue, gThreadID + 1, p)
  /\ threadLevelCount' = CountUp(threadLevelCount, p)
  /\ disableTimer
  /\ cpu' = "scheduler"
  /\ UNCHANGED <<currentRunningThread, context, joinVars, exitVars, startVars>>

\* The running thread forks one of priority p, and yields to it when it is
\* more important than itself.
t_fork(p) ==
  /\ InBody
  /\ NewTcb(p)
  /\ LET q == Insert(pQueue, gThreadID + 1, p)
         n == CountUp(threadLevelCount, p)
     IN  \/ /\ p > priority[currentRunningThread]
            /\ Requeue(q, n, "t_yield")
         \/ /\ p <= priority[currentRunningThread]
            /\ pQueue' = q
            /\ threadLevelCount' = n
            /\ enableTimer
            /\ UNCHANGED <<context, cpu>>
  /\ UNCHANGED <<currentRunningThread, joinVars, exitVars, startVars>>

t_yield ==
  /\ InBody
  /\ Requeue(pQueue, threadLevelCount, "t_yield")
  /\ UNCHANGED <<currentRunningThread, tcbVars, joinVars, exitVars, startVars>>

\* SIGVTALRM: the time slice of the running thread ends.
timerHandler ==
  /\ cpu = "thread"
  /\ ~masked
  /\ pc[currentRunningThread] = "wake" => EpilogueTicks
  /\ Requeue(pQueue, threadLevelCount, "timerHandler")
  /\ UNCHANGED <<currentRunningThread, tcbVars, joinVars, exitVars, startVars>>

\* The running thread waits in the join table for thread u to end, unless u
\* is among the recorded ids.
t_join(u) ==
  LET me == currentRunningThread
  IN  /\ InBody
      /\ <<me, u>> \in JoinCalls \ joined
      /\ u <= gThreadID
      /\ joined' = joined \cup {<<me, u>>}
      /\ \/ /\ Exited(u)
            /\ enableTimer
            /\ UNCHANGED <<readyVars, context, cpu, flag, waitingForTid,
                           tcbWaiting, waitingIndex>>
         \/ /\ ~Exited(u)
            /\ flag' = [flag EXCEPT ![me] = 0]
            /\ waitingForTid' = [waitingForTid EXCEPT ![me] = u]
            /\ tcbWaiting' = [tcbWaiting EXCEPT ![JoinSlot] = me]
            /\ waitingIndex' = JoinSlot + 1
            /\ Park(pQueue, threadLevelCount, "t_join")
      /\ UNCHANGED <<currentRunningThread, gThreadID, priority, exitVars,
                     startVars>>

\* t_exit abandons the thread: nobody is woken and nothing is recorded.
t_exit ==
  /\ InBody
  /\ currentRunningThread \in TExiters
  /\ pc' = [pc EXCEPT ![currentRunningThread] = "done"]
  /\ disableTimer
  /\ cpu' = "scheduler"
  /\ UNCHANGED <<readyVars, currentRunningThread, tcbVars, context, joinVars,
                 exitedThreadIDs, scan, waked, startVars>>

\* The user function returns into incrementStack.
userFunctionReturns ==
  /\ InBody
  /\ pc' = [pc EXCEPT ![currentRunningThread] = "wake"]
  /\ scan' = [scan EXCEPT ![currentRunningThread] = 0]
  /\ waked' = [waked EXCEPT ![currentRunningThread] = FALSE]
  /\ UNCHANGED <<readyVars, currentRunningThread, tcbVars, context, joinVars,
                 exitedThreadIDs, startVars, masked, cpu>>

\* One iteration of the loop over the join table: the waiter found in the slot
\* goes to its ready queue.  The slot keeps it.  This is one step of the code
\* only while no slice ends between the statements of the insertion, which run
\* with the timer enabled: see WholeInserts.
wakeSlot ==
  LET me == currentRunningThread
      w  == tcbWaiting[scan[me]]
  IN  /\ InWake
      /\ scan[me] < WaitSlots
      /\ scan' = [scan EXCEPT ![me] = @ + 1]
      /\ \/ /\ WaitsFor(w, me)
            /\ pQueue' = Insert(pQueue, w, priority[w])
            /\ threadLevelCount' = CountUp(threadLevelCount, priority[w])
            /\ waked' = [waked EXCEPT ![me] = TRUE]
         \/ /\ ~WaitsFor(w, me)
            /\ UNCHANGED <<readyVars, waked>>
      /\ UNCHANGED <<currentRunningThread, tcbVars, context, joinVars,
                     exitedThreadIDs, pc, startVars, masked, cpu>>

\* After the loop the id is recorded, but only if nobody was woken, and the
\* thread jumps to the scheduler by way of sitBottom.
retire ==
  LET me == currentRunningThread
  IN  /\ InWake
      /\ scan[me] = WaitSlots
      /\ exitedThreadIDs' = IF waked[me] THEN exitedThreadIDs
                                         ELSE Append(exitedThreadIDs, me)
      /\ pc' = [pc EXCEPT ![me] = "done"]
      /\ disableTimer
      /\ cpu' = "scheduler"
      /\ UNCHANGED <<readyVars, currentRunningThread, tcbVars, context,
                     joinVars, scan, waked, startVars>>

\* Scheduler takes the head of the highest level whose count is not zero.  A
\* thread with flag 1 is started by incrementStack, which copies its function
\* to a global and enables the timer; any other is resumed by a longjmp to its
\* context.
dispatch(y) ==
  LET t == Head(pQueue[y])
  IN  /\ cpu = "scheduler"
      /\ FirstNonEmpty(threadLevelCount, y)
      /\ pQueue[y] # <<>>     \* q_remove of an empty queue crashes
      /\ currentRunningThread' = t
      /\ pQueue' = Removed(pQueue, y)
      /\ threadLevelCount' = [threadLevelCount EXCEPT ![y] = @ - 1]
      /\ \/ /\ flag[t] = 1
            /\ flag' = [flag EXCEPT ![t] = 0]
            /\ threadCount' = threadCount + 1
            /\ userFunction' = t
            /\ enableTimer
            /\ cpu' = "thread"
         \/ /\ flag[t] = 0
            /\ cpu' = "resume"
            /\ UNCHANGED <<flag, threadCount, userFunction, masked>>
      /\ UNCHANGED <<gThreadID, priority, context, joinVars, exitVars, called>>

\* incrementStack calls the function that the global holds now: the timer is
\* enabled already, and threads that were started meanwhile have left theirs.
callUserFunction ==
  /\ cpu = "thread"
  /\ currentRunningThread \notin called
  /\ called' = called \cup {currentRunningThread}
  /\ UNCHANGED <<readyVars, currentRunningThread, tcbVars, context, joinVars,
                 exitVars, threadCount, userFunction, masked, cpu>>

\* With every count zero Scheduler returns, and t_start with it.
schedulerReturns ==
  /\ cpu = "scheduler"
  /\ AllZero(threadLevelCount)
  /\ cpu' = "returned"
  /\ UNCHANGED <<readyVars, currentRunningThread, tcbVars, context, joinVars,
                 exitVars, startVars, masked>>

\* The functions that go on from their setjmp by enabling the timer.  (A
\* thread parks in Semaphore_P in module Semaphores only.)
ResumeByEnabling == {"t_yield", "timerHandler", "t_join", "Semaphore_P"}

\* t_wait does not: how it goes on is in module Monitors.
Contexts == ResumeByEnabling \cup {"t_wait", "none"}

\* A thread that has ended has no frame to go on in.
resume ==
  /\ cpu = "resume"
  /\ context[currentRunningThread] \in ResumeByEnabling
  /\ pc[currentRunningThread] # "done"
  /\ enableTimer
  /\ cpu' = "thread"
  /\ UNCHANGED <<readyVars, currentRunningThread, tcbVars, context, joinVars,
                 exitVars, startVars>>

\* main goes on without the thread system.
halted == cpu = "returned" /\ UNCHANGED kernelVars

schedulerStep == (\E y \in Levels : dispatch(y)) \/ schedulerReturns

epilogueStep == wakeSlot \/ retire

KernelNext ==
  \/ \E p \in Levels : t_start(p) \/ t_fork(p)
  \/ \E u \in Threads : t_join(u)
  \/ t_yield \/ timerHandler \/ t_exit \/ callUserFunction \/ userFunctionReturns
  \/ epilogueStep \/ schedulerStep \/ resume
  \/ halted

KernelSpec == KernelInit /\ [][KernelNext]_kernelVars

\* The processor runs library code to its next jump or return, and the
\* virtual timer keeps firing while a thread runs.  What a user function does
\* is not fair: it may loop for ever.
KernelFairness ==
  /\ WF_kernelVars(schedulerStep)
  /\ WF_kernelVars(resume)
  /\ WF_kernelVars(callUserFunction)
  /\ WF_kernelVars(epilogueStep)
  /\ WF_kernelVars(timerHandler)

FairKernelSpec == KernelSpec /\ KernelFairness
-----------------------------------------------------------------------------
(* The state of a thread, seen from outside. *)

Count(s, t) == Cardinality({i \in 1 .. Len(s) : s[i] = t})

Queued(t) == \E p \in Levels : \E i \in 1 .. Len(pQueue[p]) : pQueue[p][i] = t

OnProcessor(t) == t = currentRunningThread /\ cpu \in {"thread", "resume"}

Born(t) == t <= gThreadID

Parked(t) == Born(t) /\ pc[t] = "body" /\ ~Queued(t) /\ ~OnProcessor(t)

-----------------------------------------------------------------------------
(* Properties. *)

\* Every variable holds a value of the type it has in the C code.
TypeOK ==
  /\ pQueue \in [Levels -> Seq(Threads)]
  /\ threadLevelCount \in [Levels -> Int]
  /\ currentRunningThread \in Threads \cup {NoThread}
  /\ gThreadID \in 0 .. MaxThreads
  /\ priority \in [Threads -> Levels]
  /\ flag \in [Threads -> {0, 1}]
  /\ context \in [Threads -> Contexts]
  /\ waitingForTid \in [Threads -> Threads \cup {NoThread}]
  /\ tcbWaiting \in [Slots -> Threads \cup {NoThread}]
  /\ waitingIndex \in 0 .. WaitSlots
  /\ exitedThreadIDs \in Seq(Threads)
  /\ threadCount \in Nat
  /\ userFunction \in Threads \cup {NoThread}
  /\ called \subseteq Threads
  /\ masked \in BOOLEAN
  /\ cpu \in {"t_start", "scheduler", "resume", "thread", "returned"}
  /\ cpu \in {"resume", "thread"} => currentRunningThread \in Threads
  /\ pc \in [Threads -> {"body", "wake", "done"}]
  /\ scan \in [Threads -> 0 .. WaitSlots]
  /\ waked \in [Threads -> BOOLEAN]
  /\ joined \subseteq Threads \X Threads

\* Scheduler decides from threadLevelCount alone which queue to remove from,
\* and q_remove dereferences the null head of an empty queue: the counts, kept
\* by hand at six places, are the lengths of the queues.
CountsMatchQueues == \A p \in Levels : threadLevelCount[p] = Len(pQueue[p])

\* No thread is in the ready queues twice, or in them while it has the
\* processor or after it ended: a second entry would resume a context that
\* is in use or dead.
OnePlace ==
  /\ \A t \in Threads : \A p, q \in Levels :
       \A i \in 1 .. Len(pQueue[p]), j \in 1 .. Len(pQueue[q]) :
         pQueue[p][i] = t /\ pQueue[q][j] = t => p = q /\ i = j
  /\ \A t \in Threads : Queued(t) => /\ Born(t)
                                     /\ pc[t] # "done"
                                     /\ ~OnProcessor(t)

\* Every entry of a ready queue has the priority of its level.
QueuedAtOwnPriority ==
  \A p \in Levels : \A i \in 1 .. Len(pQueue[p]) : priority[pQueue[p][i]] = p

\* The preemption README.md describes under "Important Points": user code runs
\* only while no ready thread is more important.
RunningIsHighest ==
  InBody => \A t \in Threads :
              Queued(t) => priority[t] <= priority[currentRunningThread]

\* "It call the thread function provided by the user" (above incrementStack): a
\* thread begins with the function it was forked with.
OwnFunction == [][\A t \in called' \ called : userFunction = t]_kernelVars

\* What makes RunningIsHighest inductive: ids in use have been given out, and
\* no queue above the priority of the thread on the processor has an entry.
KnownIds ==
  /\ currentRunningThread <= gThreadID
  /\ \A p \in Levels : \A i \in 1 .. Len(pQueue[p]) : pQueue[p][i] <= gThreadID
  /\ \A i \in Slots : tcbWaiting[i] <= gThreadID

NothingHigherQueued ==
  /\ cpu \in {"resume", "thread"}
  /\ pc[currentRunningThread] = "body"
  => \A p \in Levels : pQueue[p] # <<>> => p <= priority[currentRunningThread]

\* The inductive invariant behind CountsMatchQueues and RunningIsHighest.
PriorityInv ==
  TypeOK /\ CountsMatchQueues /\ KnownIds /\ QueuedAtOwnPriority /\ NothingHigherQueued

\* A thread that called t_join goes on only after the user function of its
\* target returned or the target exited.
JoinMeansOver ==
  \A j \in joined : Parked(j[1]) \/ pc[j[2]] # "body"

\* A thread that left the processor without queueing itself can still be found
\* by the one that will wake it: it is in a slot of the join table that its
\* target has not scanned yet.
NoOrphanJoiner ==
  \A t \in Threads : Parked(t) =>
    \E i \in Slots :
      LET u == waitingForTid[t]
      IN  /\ tcbWaiting[i] = t
          /\ u # NoThread
          /\ \/ pc[u] = "body"
             \/ pc[u] = "wake" /\ scan[u] <= i

\* "If the thread has already exited the current call of the tjoin simply return
\* with out waiting" (README.md, item 13).
LateJoinReturns ==
  [][\A j \in joined' \ joined : pc[j[2]] = "done" => ~Parked(j[1])']_kernelVars

\* t_start returns only after every thread has ended ("this function will not
\* return untill the last thread exits", above the call of Scheduler).
AllGoneAtReturn ==
  cpu = "returned" => \A t \in Threads : Born(t) => pc[t] = "done"

\* Round robin: a ready thread gets the processor, unless more important ones
\* keep it.
RoundRobin ==
  \A t \in Threads :
    []<>(\/ ~Queued(t)
         \/ \E u \in Threads : /\ priority[u] > priority[t]
                               /\ Queued(u) \/ OnProcessor(u))

\* The promise to the client.
Stage(t) ==
  CASE ~Born(t)       -> "unborn"
    [] pc[t] = "done" -> "gone"
    [] Queued(t)      -> "ready"
    [] OnProcessor(t) -> "running"
    [] OTHER          -> "joining"

Life == INSTANCE ThreadLife WITH
          life <- [t \in Threads |-> Stage(t)],
          level <- priority,
          target <- waitingForTid,
          over <- {t \in Threads : pc[t] # "body"}

\* Every run of the kernel is one of ThreadLife: the highest ready thread gets
\* the processor, joiners are released while their target is on its way out,
\* and nobody goes while another waits for it.
KeepsPromise == Life!LifeSpec
=============================================================================
