------------------------------ MODULE Monitors ------------------------------
(***************************************************************************)
(* Locks and condition variables on top of the thread system.  A lock is a *)
(* flag that lock_acquire tests with the timer enabled and sets with the   *)
(* timer blocked; what keeps other threads out of a critical section is    *)
(* the blocked timer, as long as nothing in the section enables it.        *)
(*                                                                         *)
(* A call that can be interrupted half-way is two actions here: the client *)
(* modules, Bridge, Burgers and Elevator, put the steps of their threads   *)
(* in order with a program counter.                                        *)
(*                                                                         *)
(* Definitions named "Bad..." are faulty variants of the one below them.   *)
(***************************************************************************)
EXTENDS ThreadKernel

CONSTANTS
  Locks,      \* the locks the client created, before it started threads
  Conds,      \* the condition variables it created
  NoLock      \* NULL as a lock

ASSUME MonitorsAssumption == NoLock \notin Locks

VARIABLES
  shared,            \* lock->shared
  waiters,           \* cond->waiters, one queue per level
  conditionWaiters,  \* what t_sig scans instead of the queues
  arg                \* tcb->arg once t_sig wrote the lock to it

monitorVars == <<shared, waiters, conditionWaiters, arg>>

\* lock_create and cond_create.
MonitorsInit ==
  /\ shared = [l \in Locks |-> 0]
  /\ waiters = [c \in Conds |-> [p \in Levels |-> <<>>]]
  /\ conditionWaiters = [c \in Conds |-> [p \in Levels |-> 0]]
  /\ arg = [t \in Threads |-> NoLock]

\* The loop of lock_acquire ends.  When it began with the timer enabled, a
\* tick may still come before the lock is taken.
SeesFree(l) == InBody /\ shared[l] = 0

\* One more round of the loop.  With the timer blocked nobody can ever free
\* the lock.
SpinsOn(l) == InBody /\ shared[l] = 1

BadTakesUnmasked == enableTimer

MasksForSection == disableTimer

\* lock_acquire after its loop.
TakesLock(l) ==
  /\ InBody
  /\ MasksForSection
  /\ shared' = [shared EXCEPT ![l] = 1]
  /\ UNCHANGED <<readyVars, currentRunningThread, tcbVars, context, joinVars,
                 exitVars, startVars, cpu, waiters, conditionWaiters, arg>>

\* lock_release, which is also how t_wait begins when it is given a lock.
lock_release(l) ==
  /\ InBody
  /\ shared' = [shared EXCEPT ![l] = 0]
  /\ enableTimer
  /\ UNCHANGED <<readyVars, currentRunningThread, tcbVars, context, joinVars,
                 exitVars, startVars, cpu, waiters, conditionWaiters, arg>>

\* t_wait from its disableTimer to its jump to the scheduler.
t_wait(c) ==
  LET me == currentRunningThread
      p  == priority[me]
  IN  /\ InBody
      /\ waiters' = [waiters EXCEPT ![c] = Insert(@, me, p)]
      /\ conditionWaiters' = [conditionWaiters EXCEPT ![c] = CountUp(@, p)]
      /\ Park(pQueue, threadLevelCount, "t_wait")
      /\ UNCHANGED <<currentRunningThread, tcbVars, joinVars, exitVars,
                     startVars, shared, arg>>

\* t_wait goes on after its setjmp without enabling the timer.  When arg is a
\* lock, lock_acquire follows; otherwise t_wait returns.
wakesInWait ==
  /\ cpu = "resume"
  /\ context[currentRunningThread] = "t_wait"
  /\ cpu' = "thread"
  /\ UNCHANGED <<readyVars, currentRunningThread, tcbVars, context, joinVars,
                 exitVars, startVars, masked, monitorVars>>

\* the highest level whose counter is not zero
SigLevel(c) == CHOOSE p \in Levels : FirstNonEmpty(conditionWaiters[c], p)

BadSigCounts(c, p) == conditionWaiters

\* conditionWaiters after a waiter of level p was taken out
SigCounts(c, p) == [conditionWaiters EXCEPT ![c][p] = @ - 1]

\* t_sig finds a waiter.
FindsWaiter(c) == ~AllZero(conditionWaiters[c]) /\ waiters[c][SigLevel(c)] # <<>>

\* t_sig moves the first of the most important waiters to the ready queue of
\* its own priority and hands it the lock to take; without a waiter the signal
\* is lost.  It returns with the timer enabled, whatever it was before.
t_sig(c, l) ==
  LET p == SigLevel(c)
      w == Head(waiters[c][p])
  IN  /\ InBody
      /\ enableTimer
      /\ \/ /\ FindsWaiter(c)
            /\ waiters' = [waiters EXCEPT ![c] = Removed(@, p)]
            /\ conditionWaiters' = SigCounts(c, p)
            /\ arg' = [arg EXCEPT ![w] = l]
            /\ pQueue' = Insert(pQueue, w, priority[w])
            /\ threadLevelCount' = CountUp(threadLevelCount, priority[w])
         \/ /\ ~FindsWaiter(c)
            /\ UNCHANGED <<readyVars, waiters, conditionWaiters, arg>>
      /\ UNCHANGED <<currentRunningThread, tcbVars, context, joinVars, exitVars,
                     startVars, cpu, shared>>

-----------------------------------------------------------------------------
(* Properties that hold for every client. *)

MonitorsTyped ==
  /\ shared \in [Locks -> {0, 1}]
  /\ waiters \in [Conds -> [Levels -> Seq(Threads)]]
  /\ conditionWaiters \in [Conds -> [Levels -> Int]]
  /\ arg \in [Threads -> Locks \cup {NoLock}]

Waits(t, c) == \E p \in Levels : \E i \in 1 .. Len(waiters[c][p]) : waiters[c][p][i] = t

\* t_sig looks at conditionWaiters alone, so a counter that is off loses a
\* signal for ever; and a thread blocked in t_wait is in exactly one queue, that
\* of its priority, while nobody else is in any (the clients here neither join
\* nor block on a semaphore when they use conditions).
WaitersKept ==
  /\ \A c \in Conds : \A p \in Levels :
       /\ conditionWaiters[c][p] = Len(waiters[c][p])
       /\ \A i, j \in 1 .. Len(waiters[c][p]) :
            waiters[c][p][i] = waiters[c][p][j] => i = j
       /\ \A i \in 1 .. Len(waiters[c][p]) : priority[waiters[c][p][i]] = p
  /\ \A t \in Threads : /\ Parked(t) <=> \E c \in Conds : Waits(t, c)
                        /\ \A c, d \in Conds : Waits(t, c) /\ Waits(t, d) => c = d
=============================================================================
