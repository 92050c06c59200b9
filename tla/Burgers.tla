------------------------------ MODULE Burgers ------------------------------
(***************************************************************************)
(* TEST4: cooks put burgers on a stack of X places and students eat them.  *)
(* Two semaphores count the burgers and the free places; a lock guards the *)
(* stack.  Slices may end anywhere the timer is enabled.                   *)
(*                                                                         *)
(* Cooks and students go through the same labels:                          *)
(*   P        Semaphore_P(empty) or Semaphore_P(full)                      *)
(*   test     the loop of lock_acquire                                     *)
(*   take     the rest of lock_acquire                                     *)
(*   first    Produce_Item or Remove_Item                                  *)
(*   second   Insert_Item or Consume_Item                                  *)
(*   release  lock_release                                                 *)
(*   V        Semaphore_V(full) or Semaphore_V(empty)                      *)
(* funcA, thread 1, forks them all and returns ("forks", "end").           *)
(*                                                                         *)
(* A thread that is interrupted before incrementStack calls its function   *)
(* may begin with the function of another (begins): cooks become students  *)
(* and students cooks.                                                     *)
(*                                                                         *)
(* Cooks and students have priority 10, level 0 here, and funcA has 20,    *)
(* level 1.                                                                *)
(***************************************************************************)
EXTENDS Semaphores, Monitors

CONSTANTS
  N,      \* cooks
  M,      \* students
  X,      \* places for burgers
  LastId  \* the id after which globalCounter starts again (50000)

ASSUME BurgersAssumption ==
  /\ N \in Nat /\ M \in Nat /\ X \in Nat /\ LastId \in Nat
  /\ MaxThreads = 1 + N + M
  /\ TopPriority = 1
  /\ MaxSems = 2

mutex == "mutex"

ASSUME MutexAssumption == mutex \in Locks

\* the ids of the semaphores, in the order main creates them
full  == 1
empty == 2

Cooks    == 2 .. N + 1
Students == N + 2 .. N + M + 1
Ids      == 0 .. LastId
NoBurger == -1

VARIABLES
  func,           \* the function of each thread, tcb->func until it begins
  at,             \* the label of each thread
  item,           \* its local item
  buffer,         \* burgers on the stack: buffer[0 .. bufferIndex - 1]
  bufferIndex,
  globalCounter,
  uneaten,        \* history: burgers of each id produced and not yet consumed
  misled          \* history: a thread began with another function than its own

stackVars   == <<item, buffer, bufferIndex, globalCounter, uneaten>>
funcVars    == <<func, misled>>
burgersVars == <<kernelVars, semVars, monitorVars, at, stackVars, funcVars>>

Labels  == {"main", "forks", "P", "test", "take", "first", "second", "release", "V", "end"}
Section == {"first", "second", "release"}

BurgersInit ==
  /\ KernelInit
  /\ SemInit
  /\ MonitorsInit
  /\ func = [t \in Threads |-> "none"]
  /\ misled = FALSE
  /\ at = [t \in Threads |-> "main"]
  /\ item = [t \in Threads |-> NoBurger]
  /\ buffer = [i \in 0 .. X - 1 |-> NoBurger]
  /\ bufferIndex = 0
  /\ globalCounter = 0
  /\ uneaten = [b \in Ids |-> 0]

me == currentRunningThread
At(l) == InBody /\ at[me] = l
Goes(l) == at' = [at EXCEPT ![me] = l]

\* A library call after which the thread is at l.
Calls(Action, l) == Action /\ Goes(l) /\ UNCHANGED <<stackVars, funcVars>>

\* main creates the semaphores, full first, and starts funcA.
main ==
  /\ cpu = "t_start"
  /\ \/ /\ semaphoreID < 2
        /\ semaphore_create(IF semaphoreID' = empty THEN X ELSE 0)
        /\ UNCHANGED <<monitorVars, at, func>>
     \/ /\ semaphoreID = 2
        /\ t_start(1)
        /\ func' = [func EXCEPT ![1] = "funcA"]
        /\ at' = [at EXCEPT ![1] = "forks"]
        /\ UNCHANGED <<semVars, monitorVars>>
  /\ UNCHANGED <<stackVars, misled>>

\* A thread that is resumed after a tick before its call finds the function of
\* the thread that was started last.
begins ==
  /\ callUserFunction
  /\ func' = [func EXCEPT ![me] = func[userFunction]]
  /\ misled' = (misled \/ func[userFunction] # func[me])
  /\ UNCHANGED <<semVars, monitorVars, at, stackVars>>

\* funcA forks the cooks, then the students.
funcA ==
  /\ At("forks")
  /\ \/ /\ gThreadID < MaxThreads
        /\ t_fork(0)
        /\ func' = [func EXCEPT ![gThreadID'] =
                     IF gThreadID' \in Cooks THEN "Producer" ELSE "Consumer"]
        /\ at' = [at EXCEPT ![gThreadID'] = "P"]
     \/ /\ gThreadID = MaxThreads
        /\ Goes("end")
        /\ UNCHANGED <<kernelVars, func>>
  /\ UNCHANGED <<semVars, monitorVars, stackVars, misled>>

-----------------------------------------------------------------------------
(* One round of a cook or a student.  A thread that blocks in Semaphore_P  *)
(* goes on at "test" when it is resumed.                                   *)

BadTakesFrom(t) == empty

\* the semaphore a thread waits on
TakesFrom(t) == IF func[t] = "Producer" THEN empty ELSE full

\* the semaphore it raises
GivesTo(t)  == IF func[t] = "Producer" THEN full ELSE empty

waits ==
  /\ At("P")
  /\ Calls(Semaphore_P(TakesFrom(me)), "test")
  /\ UNCHANGED monitorVars

\* With the lock taken the thread would go round the loop, and nothing change.
tests ==
  /\ At("test")
  /\ SeesFree(mutex)
  /\ Calls(UNCHANGED <<kernelVars, semVars, monitorVars>>, "take")

takes ==
  /\ At("take")
  /\ Calls(TakesLock(mutex), "first")
  /\ UNCHANGED semVars

\* A step of function f in the critical section.
Works(l, f) ==
  /\ func[me] = f
  /\ Goes(l)
  /\ UNCHANGED <<kernelVars, semVars, monitorVars, funcVars>>

NextId == IF globalCounter < LastId THEN globalCounter + 1 ELSE 0

Produce_Item ==
  /\ At("first")
  /\ globalCounter' = NextId
  /\ item' = [item EXCEPT ![me] = NextId]
  /\ uneaten' = [uneaten EXCEPT ![NextId] = @ + 1]
  /\ Works("second", "Producer")
  /\ UNCHANGED <<buffer, bufferIndex>>

Insert_Item ==
  /\ At("second")
  /\ bufferIndex \in 0 .. X - 1     \* an index outside the array is undefined
  /\ buffer' = [buffer EXCEPT ![bufferIndex] = item[me]]
  /\ bufferIndex' = bufferIndex + 1
  /\ item' = [item EXCEPT ![me] = NoBurger]
  /\ Works("release", "Producer")
  /\ UNCHANGED <<globalCounter, uneaten>>

BadTop == 0

\* where Remove_Item takes the burger from
Top == bufferIndex - 1

Remove_Item ==
  /\ At("first")
  /\ Top \in 0 .. X - 1
  /\ item' = [item EXCEPT ![me] = buffer[Top]]
  /\ bufferIndex' = bufferIndex - 1
  /\ Works("second", "Consumer")
  /\ UNCHANGED <<buffer, globalCounter, uneaten>>

Consume_Item ==
  /\ At("second")
  /\ uneaten' = [uneaten EXCEPT ![item[me]] = @ - 1]
  /\ item' = [item EXCEPT ![me] = NoBurger]
  /\ Works("release", "Consumer")
  /\ UNCHANGED <<buffer, bufferIndex, globalCounter>>

releases ==
  /\ At("release")
  /\ Calls(lock_release(mutex), "V")
  /\ UNCHANGED semVars

raises ==
  /\ At("V")
  /\ Calls(Semaphore_V(GivesTo(me)), "P")
  /\ UNCHANGED monitorVars

round == \/ begins \/ waits \/ tests \/ takes \/ releases \/ raises
         \/ Produce_Item \/ Insert_Item \/ Remove_Item \/ Consume_Item

\* The thread system at work.
Kernel(Action) ==
  Action /\ UNCHANGED <<semVars, monitorVars, at, stackVars, funcVars>>

returns == At("end") /\ Kernel(userFunctionReturns)

systemStep == Kernel(schedulerStep) \/ Kernel(resume) \/ Kernel(epilogueStep)

tick == Kernel(timerHandler)

BurgersNext ==
  main \/ funcA \/ returns \/ round \/ systemStep \/ tick \/ Kernel(halted)

BurgersSpec == BurgersInit /\ [][BurgersNext]_burgersVars

\* The processor executes the program and the timer keeps firing.  A slice is
\* long: a thread that has the processor again and again takes its next step.
FairBurgersSpec ==
  /\ BurgersSpec
  /\ WF_burgersVars(main \/ systemStep)
  /\ \A t \in Threads : SF_burgersVars(t = me /\ (funcA \/ round \/ returns))
  /\ WF_burgersVars(tick)

-----------------------------------------------------------------------------
(* Properties. *)

\* Types.
BurgersTypeOK ==
  /\ TypeOK /\ SemsTyped /\ MonitorsTyped
  /\ func \in [Threads -> {"none", "funcA", "Producer", "Consumer"}]
  /\ misled \in BOOLEAN
  /\ at \in [Threads -> Labels]
  /\ item \in [Threads -> Ids \cup {NoBurger}]
  /\ buffer \in [0 .. X - 1 -> Ids \cup {NoBurger}]
  /\ bufferIndex \in Int
  /\ globalCounter \in Ids
  /\ uneaten \in [Ids -> Int]

\* Although lock_acquire does not test and set in one step, two threads are
\* never in the critical section: the one inside cannot be interrupted.
MutualExclusion ==
  /\ \A t, u \in Threads : at[t] \in Section /\ at[u] \in Section => t = u
  /\ shared[mutex] = 1 <=> \E t \in Threads : at[t] \in Section

\* Nobody touches the array outside its X places: the semaphores admit a cook
\* only to a free place and a student only to a burger, whoever became what.
StackHolds ==
  /\ bufferIndex \in 0 .. X
  /\ \A t \in Threads : at[t] = "first" /\ func[t] = "Consumer" => bufferIndex > 0
  /\ \A t \in Threads : at[t] = "second" /\ func[t] = "Producer" => bufferIndex < X

Held(b) == Cardinality({i \in 0 .. bufferIndex - 1 : buffer[i] = b})
             + Cardinality({t \in Threads : item[t] = b})

\* "ensure [...] that a given burger is consumed at most once by at most one
\* student": the burgers not eaten are those on the stack and in hands.
EatenOnce == \A b \in Ids : uneaten[b] = Held(b)

\* A student that is hungry gets a burger, again and again, whatever the slices,
\* unless a cook or a student began as the other.
EveryoneEats == \A t \in Students : []<>(at[t] = "V" \/ misled)
=============================================================================
