----------------------------- MODULE Semaphores -----------------------------
(***************************************************************************)
(* Counting semaphores on top of the thread system.  A V that finds a      *)
(* waiter hands the permit over: it queues the waiter and leaves the value *)
(* alone.  Who calls these functions, and what a call counts for, is said  *)
(* by the modules that extend this one: SemaphoreCalls and Burgers.        *)
(*                                                                         *)
(* Definitions named "Bad..." are faulty variants of the one below them.   *)
(***************************************************************************)
EXTENDS ThreadKernel

CONSTANT MaxSems    \* bound: number of semaphore_create calls

SemIDs == 1 .. MaxSems

ASSUME SemsAssumption == MaxSems \in Nat

VARIABLES
  semaphoreID,        \* the last id given out
  semValue,           \* sem->value
  semQueue,           \* sem->waiters
  semaphoreWaiters,   \* what Semaphore_V looks at instead of the queue
  freed               \* the semaphores that have been destroyed

semVars == <<semaphoreID, semValue, semQueue, semaphoreWaiters, freed>>

SemInit ==
  /\ semaphoreID = 0
  /\ semValue = [s \in SemIDs |-> 0]
  /\ semQueue = [s \in SemIDs |-> <<>>]
  /\ semaphoreWaiters = [s \in SemIDs |-> 0]
  /\ freed = {}

\* A client uses a semaphore between its creation and its destruction.
Usable(s) == s <= semaphoreID /\ s \notin freed

\* In main or in a thread.  (When malloc fails the call returns NULL with the
\* timer blocked; not modelled.)
semaphore_create(v) ==
  /\ cpu = "t_start" \/ InBody
  /\ semaphoreID < MaxSems
  /\ semaphoreID' = semaphoreID + 1
  /\ semValue' = [semValue EXCEPT ![semaphoreID + 1] = v]
  /\ enableTimer
  /\ UNCHANGED <<readyVars, currentRunningThread, tcbVars, context, joinVars,
                 exitVars, startVars, cpu, semQueue, semaphoreWaiters, freed>>

\* The record is freed, its queue is not.  Nobody waits on it any more; a
\* thread that was handed a permit may still be on its way.  (Given NULL the call
\* returns with the timer blocked; the clients here have none to give.)
Semaphore_destroy(s) ==
  /\ InBody
  /\ Usable(s)
  /\ semQueue[s] = <<>>
  /\ freed' = freed \cup {s}
  /\ enableTimer
  /\ UNCHANGED <<readyVars, currentRunningThread, tcbVars, context, joinVars,
                 exitVars, startVars, cpu, semaphoreID, semValue, semQueue,
                 semaphoreWaiters>>

BadMayPass(s) == semValue[s] >= 0

MayPass(s) == semValue[s] > 0

Semaphore_P(s) ==
  /\ InBody
  /\ Usable(s)
  /\ \/ /\ MayPass(s)
        /\ semValue' = [semValue EXCEPT ![s] = @ - 1]
        /\ enableTimer
        /\ UNCHANGED <<readyVars, context, cpu, semQueue, semaphoreWaiters>>
     \/ /\ ~MayPass(s)
        /\ semQueue' = [semQueue EXCEPT ![s] = Append(@, currentRunningThread)]
        /\ semaphoreWaiters' = [semaphoreWaiters EXCEPT ![s] = @ + 1]
        /\ Park(pQueue, threadLevelCount, "Semaphore_P")
        /\ UNCHANGED semValue
  /\ UNCHANGED <<currentRunningThread, tcbVars, joinVars, exitVars, startVars,
                 semaphoreID, freed>>

BadValueAfterHandover(s) == semValue[s] + 1

\* Semaphore_V does not touch the value when it wakes a waiter.
ValueAfterHandover(s) == semValue[s]

BadSemPeek(s) == semQueue[s]

\* q_remove(sem->waiters) without its result
SemRemoved(s) == Tail(semQueue[s])

\* the level whose queue the woken thread goes to: that of the caller
WakeLevel == priority[currentRunningThread]

Semaphore_V(s) ==
  LET w == Head(semQueue[s])
  IN  /\ InBody
      /\ Usable(s)
      /\ enableTimer
      /\ \/ /\ semaphoreWaiters[s] > 0
            /\ semQueue[s] # <<>>      \* q_remove of an empty queue crashes
            /\ semQueue' = [semQueue EXCEPT ![s] = SemRemoved(s)]
            /\ semaphoreWaiters' = [semaphoreWaiters EXCEPT ![s] = @ - 1]
            /\ semValue' = [semValue EXCEPT ![s] = ValueAfterHandover(s)]
            /\ pQueue' = Insert(pQueue, w, WakeLevel)
            /\ threadLevelCount' = CountUp(threadLevelCount, WakeLevel)
         \/ /\ semaphoreWaiters[s] <= 0
            /\ semValue' = [semValue EXCEPT ![s] = @ + 1]
            /\ UNCHANGED <<readyVars, semQueue, semaphoreWaiters>>
      /\ UNCHANGED <<currentRunningThread, tcbVars, context, joinVars, exitVars,
                     startVars, cpu, semaphoreID, freed>>

-----------------------------------------------------------------------------
(* Properties that hold for every client. *)

SemsTyped ==
  /\ semaphoreID \in 0 .. MaxSems
  /\ semValue \in [SemIDs -> Nat]
  /\ semQueue \in [SemIDs -> Seq(Threads)]
  /\ semaphoreWaiters \in [SemIDs -> Int]
  /\ freed \subseteq SemIDs

\* Nobody waits while a permit is free, and Semaphore_V, which looks at
\* semaphoreWaiters, finds a waiter exactly when there is one.
NoIdlePermit ==
  \A s \in SemIDs : /\ semaphoreWaiters[s] = Len(semQueue[s])
                    /\ semQueue[s] # <<>> => semValue[s] = 0
=============================================================================
