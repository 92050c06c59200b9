--------------------------- MODULE SemaphoreCalls ---------------------------
(***************************************************************************)
(* Arbitrary threads that create, use and destroy semaphores in any order, *)
(* with history variables that count what the calls gave and took.         *)
(***************************************************************************)
EXTENDS Semaphores

CONSTANTS
  InitValues, \* the counts semaphores may be created with
  MaxVs       \* bound: number of Semaphore_V calls on each

ASSUME CallsAssumption == InitValues \subseteq Nat /\ MaxVs \in Nat

VARIABLES
  initial,    \* history: the count at creation
  givenVs,    \* history: completed Semaphore_V calls
  passedPs,   \* history: completed Semaphore_P calls
  owed        \* history: the semaphore whose permit a thread was handed and has
              \* not returned with yet, or 0

historyVars == <<initial, givenVs, passedPs, owed>>
callVars == <<kernelVars, semVars, historyVars>>

CallsInit ==
  /\ KernelInit
  /\ SemInit
  /\ initial = [s \in SemIDs |-> 0]
  /\ givenVs = [s \in SemIDs |-> 0]
  /\ passedPs = [s \in SemIDs |-> 0]
  /\ owed = [t \in Threads |-> 0]

Creates(v) ==
  /\ semaphore_create(v)
  /\ initial' = [initial EXCEPT ![semaphoreID'] = v]
  /\ UNCHANGED <<givenVs, passedPs, owed>>

Takes(s) ==
  /\ Semaphore_P(s)
  /\ passedPs' = [passedPs EXCEPT ![s] = IF cpu' = "thread" THEN @ + 1 ELSE @]
  /\ UNCHANGED <<initial, givenVs, owed>>

Gives(s) ==
  /\ givenVs[s] < MaxVs
  /\ Semaphore_V(s)
  /\ givenVs' = [givenVs EXCEPT ![s] = @ + 1]
  /\ owed' = [t \in Threads |->
                IF semQueue[s] # <<>> /\ t = Head(semQueue[s]) THEN s ELSE owed[t]]
  /\ UNCHANGED <<initial, passedPs>>

Destroys(s) == Semaphore_destroy(s) /\ UNCHANGED historyVars

\* Everything else is the thread system.  A thread that resumes in Semaphore_P
\* returns from it.
Kernel(Action) ==
  LET me == currentRunningThread
  IN  /\ Action
      /\ \/ /\ cpu = "resume" /\ owed[me] # 0
            /\ passedPs' = [passedPs EXCEPT ![owed[me]] = @ + 1]
            /\ owed' = [owed EXCEPT ![me] = 0]
         \/ /\ ~(cpu = "resume" /\ owed[me] # 0)
            /\ UNCHANGED <<passedPs, owed>>
      /\ UNCHANGED <<semVars, initial, givenVs>>

CallsNext ==
  \/ Kernel(KernelNext)
  \/ \E v \in InitValues : Creates(v)
  \/ \E s \in SemIDs : Takes(s) \/ Gives(s) \/ Destroys(s)

CallsSpec == CallsInit /\ [][CallsNext]_callVars

\* The fairness of the thread system: see KernelFairness.
FairCallsSpec ==
  /\ CallsSpec
  /\ WF_callVars(Kernel(schedulerStep))
  /\ WF_callVars(Kernel(resume))
  /\ WF_callVars(Kernel(callUserFunction))
  /\ WF_callVars(Kernel(epilogueStep))
  /\ WF_callVars(Kernel(timerHandler))

-----------------------------------------------------------------------------
(* Properties. *)

\* Types.
SemTypeOK ==
  /\ TypeOK
  /\ SemsTyped
  /\ initial \in [SemIDs -> InitValues \cup {0}]
  /\ givenVs \in [SemIDs -> 0 .. MaxVs]
  /\ passedPs \in [SemIDs -> Nat]
  /\ owed \in [Threads -> SemIDs \cup {0}]

Handed(s) == {t \in Threads : owed[t] = s}

\* A semaphore lets through as many as it was created with and was given, with
\* the permits that are on their way to a woken thread counted once.
PermitsConserved ==
  \A s \in SemIDs :
    semValue[s] = initial[s] + givenVs[s] - passedPs[s] - Cardinality(Handed(s))

\* A thread off the processor and outside the ready queues waits on exactly one
\* semaphore, once, and has not been handed its permit (the client of these
\* runs does not join).
BlockedOnce ==
  \A t \in Threads :
    LET places == {p \in SemIDs \X (1 .. MaxThreads) :
                     p[2] <= Len(semQueue[p[1]]) /\ semQueue[p[1]][p[2]] = t}
    IN  /\ Parked(t) => Cardinality(places) = 1 /\ owed[t] = 0
        /\ ~Parked(t) => places = {}

\* A handed permit arrives: the woken thread, queued at level p, returns from
\* Semaphore_P unless more important threads keep the processor.
Busy(p) == \/ \E q \in Levels : q > p /\ pQueue[q] # <<>>
           \/ \E u \in Threads : OnProcessor(u) /\ priority[u] > p

HandoverArrives ==
  \A t \in Threads :
    []<>(\/ owed[t] = 0
         \/ \E p \in Levels : /\ \E i \in 1 .. Len(pQueue[p]) : pQueue[p][i] = t
                              /\ Busy(p))

\* "Higher priority threads are given chance to execute first" (README.md,
\* Important Points, b): of the ready threads Scheduler takes one of the
\* highest priority.
DispatchesHighest ==
  [][\A t \in Threads :
       cpu = "scheduler" /\ Queued(t) /\ cpu' # "scheduler"
         => priority[t] <= priority[currentRunningThread']]_callVars
=============================================================================
