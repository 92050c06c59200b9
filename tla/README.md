# A TLA+ model of the user-level thread library

The repository is a preemptive user-level thread library in C
(`src/ThreadSystemCode/ThreadLibrary`) with test programs
(`src/ThreadSystemCode/TestCases`). It multiplexes threads on one process with
`setjmp`/`longjmp`, preempts them with `SIGVTALRM`, and protects itself by blocking
that signal. This directory holds TLA+ modules for it, TLC configurations that check
them on small instances, and modules of theorems that TLAPS checks.

## Inventory

| component | state | operations | hard behaviour |
|---|---|---|---|
| scheduler and ready queues (`THREAD.C`) | `pQueue[128]`, `threadLevelCount[128]`, `currentRunningThread`, `schedContext`, `sitBottomContext`, signal mask | `t_start`, `Scheduler`, `timerHandler`, `sitBottom`, `disableTimer`, `enableTimer` | preemption between any two unmasked instructions; the mask is global and no context saves it; counts kept beside the queues |
| thread life cycle (`THREAD.C`) | `tcb` (priority, flag, context, `waitingForTid`), `gThreadID`, `threadCount`, `userFunction` | `t_fork`, `t_yield`, `t_exit`, `incrementStack` | the parts of `incrementStack` just before and after the user function run with the timer enabled; the call goes through a global |
| joining (`THREAD.C`) | `tcbWaiting[50]`, `waitingIndex`, `exitedThreadIDs[50]` | `t_join`, the scan in `incrementStack` | slots never cleared, index wraps, the id of an ended thread recorded only if nobody waited |
| queue (`QUEUE.C`) | `head`, `tail`, `numObj`, `malloc`ed nodes | `q_create`, `q_destroy`, `q_insert`, `q_remove`, `q_is_empty` | pointer updates at the empty and one-element boundary; interrupted updates |
| semaphores (`THREAD.C`) | `value`, `waiters`, `semID`, `semaphoreWaiters[20]` | `semaphore_create`, `Semaphore_P`, `Semaphore_V`, `Semaphore_destroy` | permits handed over to waiters; the woken thread is queued at the level of the caller |
| locks and conditions (`THREAD.C`) | `lock->shared`, `conditionWaiters[50][128]`, `waiters[128]` | `lock_create`, `lock_acquire`, `lock_release`, `cond_create`, `cond_destroy`, `t_wait`, `t_sig` | busy waiting that relies on the mask; a test and a block that are not one step; calls that enable the timer inside a critical section |
| timer set-up (`THREAD.C`) | `timer`, `sa`, `blocksigs` | `t_start`, `t_set_quantum`, `t_set_system_quantum` | the window before the signal is blocked; values `setitimer` refuses |
| stack arena (`THREAD.C`) | the array of `sitBottom`, `threadCount` | `incrementStack` | space for fifty threads ever started |
| test programs TEST1, TEST2 | - | chains of forks and joins; endless loops | priorities and preemption |
| bridge (TEST3A, 3B, 3C) | `num_cars`, `cur_dir`, `inFlight`, `toggleDir`, `num_cars_north`, `num_cars_south` | `Arrive`, `Depart` | the last car wakes the others; taking turns; 30 signals sent inside a critical section; in TEST3C a decrement with the timer enabled |
| burgers (TEST4) | `buffer`, `bufferIndex`, `globalCounter`, two semaphores, a lock | `Producer`, `Consumer` | nothing but the semaphores keeps the index in range |
| elevator (TEST5A, 5B, 5C) | `elv`, `bld` (24 conditions and more, requests, counters) | `ElevatorThread`, `rider`, `elevatorCallUP`, `elevatorCallDown`, `elevatorEnter`, `elevatorExit` | conditions without a lock; decisions that go stale; ranks |

Threads interact through the ready queues, the join table, semaphores and conditions;
every hand-over ends in an insertion into a ready queue, and every change of thread
goes through `Scheduler`. What makes each component correct:

* scheduler: the counts are the lengths of the queues; a thread is in one place; user
  code runs only while nobody more important is ready; equal threads take turns;
* joins: nobody leaves `t_join` early, nobody is forgotten in it, and a join of an ended
  thread returns; `t_start` returns when every thread has ended;
* queue: first in, first out, without leaks or dangling nodes;
* semaphores: permits are conserved, no thread waits while a permit is free, and a permit
  that was handed over arrives;
* locks and conditions: mutual exclusion, a signal finds a waiter whenever there is one, no
  lost signal, no spinning with the timer blocked;
* bridge: cars on the bridge go one way, the counters are true of it, TEST3C takes turns,
  everybody crosses;
* burgers: the array is never left, a burger is eaten once, nobody starves;
* elevator: counters, capacity, floors and ranks are right, and everybody arrives.

## Modules

| module | models | how |
|---|---|---|
| `ThreadLife` | what the library promises | abstract: stage, priority and join target of each thread; no queues, no mask |
| `ThreadKernel` | scheduler, life cycle, joining | one action per function or jump; the properties and the refinement of `ThreadLife` |
| `MCThreadKernel` | - | who joins whom in TLC's instances |
| `ThreadKernelProofs` | - | theorems about `ThreadKernel`: types, counts, priorities, joins, the places of threads, the refinement of `ThreadLife` |
| `Fifo` | the promise of `QUEUE.H` | a sequence |
| `Queue` | `QUEUE.C` | nodes, `next` pointers, `malloc` and `free` |
| `QueueProofs` | - | theorems about `Queue`, the refinement of `Fifo` |
| `EpilogueRace` | the unprotected `q_insert` in `incrementStack` | extends `Queue`; one action per statement against `timerHandler` |
| `Semaphores` | semaphores | extends `ThreadKernel` |
| `SemaphoreProofs` | - | lemmas: what the calls of `Semaphores` keep, whoever makes them |
| `SemaphoreCalls`, `MCSemaphores` | any threads that call semaphores | history of permits; TLC's instances |
| `CallProofs` | - | theorems about `SemaphoreCalls` |
| `Monitors` | locks and condition variables | extends `ThreadKernel`; no specification of its own |
| `MonitorProofs` | - | lemmas: what the calls of `Monitors` keep, whoever makes them |
| `Bridge`, `MCBridge` | TEST3A, TEST3B, TEST3C | extends `Monitors`; a label per thread |
| `BridgeProofs` | - | theorems about `Bridge` |
| `Burgers`, `MCBurgers` | TEST4 | extends `Semaphores` and `Monitors` |
| `BurgersProofs` | - | theorems about `Burgers` |
| `Elevator`, `MCElevator` | TEST5A, TEST5B, TEST5C | extends `Monitors` |
| `ElevatorProofs` | - | theorems about `Elevator` |

`Semaphores` and `Monitors` are libraries, as in the C program: their operators are the
calls, and the client modules say who makes them. Every step of the thread system
(`schedulerStep`, `resume`, `epilogueStep`, `timerHandler`) is a step of each client
module, so the clients are checked together with the scheduler that runs them.

### How ThreadKernel corresponds to the code

There is one processor, so interleaving is decided by the signal mask. Code that runs
with the signal blocked is one step; the timer may fire between any two steps that run
with it unblocked. A `longjmp` ends a step, and `cpu` says where it went: to `Scheduler`,
into the resumption branch of a `setjmp` (`"resume"`), or into user code (`"thread"`).
`pc[t]` says whether the thread is in its user function (`"body"`), in the rest of
`incrementStack` (`"wake"`) or gone (`"done"`). `masked` is the signal mask: every jump to
the scheduler sets it, because no `jmp_buf` of glibc's `setjmp` restores it, and `resume`
clears it.

`t_fork` includes the `t_yield` it calls; `dispatch` includes the start of
`incrementStack` up to `enableTimer` (`THREAD.C:512`), with the copy of the function to the
global `userFunction`; `callUserFunction` is the call through that global (line 513). A tick
may come between the two, and start another thread that overwrites the global (finding 6), so
the client programs have an action `begins`, which gives a thread the function it finds there.
Until a thread has called its function it is in `"body"` and not in `called`; it takes no
other step but a tick. `userFunction` holds the thread whose function was copied last.
`retire` includes the way through `sitBottomContext`. The scan over the join table is one step
per slot (`wakeSlot`), because the timer is enabled there. One iteration is atomic in
`ThreadKernel`; what an interrupt inside an iteration does is the subject of `EpilogueRace`.

The client is arbitrary, within the constants: any thread forks, yields, ends or is
interrupted at any time; `JoinCalls` says which joins may happen, `TExiters` who may call
`t_exit`. `EpilogueTicks` says whether the timer may fire in the epilogue. It can in
reality. Without joins the epilogue inserts nothing, and a tick there is harmless:
`sem_handover` has them. With joins, a tick inside the insertion tears the ready queue, and
nothing holds after that; `WholeInserts`, a part of `KernelAssumption`, therefore says that
with joins `EpilogueTicks` is FALSE. That describes the executions where the few microseconds
of an epilogue are not hit; `EpilogueRace` shows what happens when they are.

Tests relate to the model as follows: TEST1 is a behaviour of `kernel_join` (a chain of
forks, each joined once), and so is TEST2 (threads that never return).

### How the other modules correspond to the code

`Queue` takes each function of `QUEUE.C` as one step, since the library calls them with
the signal blocked, except in the epilogue. `cells` is a ghost variable with the nodes in
order; `ListShape` says that the pointers agree with it. The branch of `q_remove` that
prints "queue error" is not an action: `ListShape` excludes it. In `EpilogueRace` it
does happen. `QUEUE.H:29` says that `q_remove` of an empty queue returns NULL, which is
`TakeNothing` of `Fifo`; `QUEUE.C:83` dereferences the NULL head instead, the action
`q_remove_empty`, which ends in `crashed`. The two disagree, and `IsFifo` makes an exception of
this one call (`RemovesFromEmpty`).

`Semaphores` adds the records of the semaphores to the kernel. A destroyed semaphore is
one nobody waits on and nobody uses again; the code leaves that to the client. `Semaphore_destroy`
of NULL, which returns with the timer blocked, has no caller and is left out. In
`SemaphoreCalls`, `givenVs`, `passedPs` and `owed` are history: the completed V and P calls,
and the permit that a woken thread has been handed and not yet returned with.

`Monitors`. `lock_acquire` is two steps, because a tick may come between its test of
`shared` and the call that blocks the signal: `SeesFree`, then `TakesLock`. `t_wait` is up
to four: `lock_release`, `t_wait` from `disableTimer` to its jump, `wakesInWait` (which,
unlike every other resumption, leaves the signal blocked), and `lock_acquire` again.
`t_sig` is one step. The lock that a woken thread takes is the one `t_sig` left in its
`arg`. Levels of conditions are levels of priorities, as in the code.

The client programs. Priorities are renamed to the levels 0..3, in the same order. A
thread has a label that names the next statement of its function; a step is a library
call, or a statement (or a stretch of them that runs with the signal blocked, which no
other thread can see inside) on what threads share. `printf` and names are left out.

* `Bridge`. `program` chooses the cars, the number of `t_sig`s in the broadcast (30 in
  TEST3A and TEST3B), which `Arrive` and `Depart` are used, and how many slices may end
  (`ticks`). A critical section is one step up to its first `t_sig`, because the signal is
  blocked up to there and not after it. What TEST3C does after it, `num_cars =
  --num_cars_north`, is a load, a store and a copy (`uncounts`, `stores`, `copies`).
  Ticks of a thread that spins in `lock_acquire` do not count against the bound: without them the
  spinning would have no end. `crossing` is history: the cars on the bridge. `caught` is history: the threads whose slice ended
  after they had decided to wait and before they were among the waiters. `torn` is history: a
  decrement of TEST3C overwrote what another thread had counted since its load.
* In all three, `misled` is history: a thread began with the function of another. A car's
  `Arrive` may become a `Depart` and the reverse, a cook a student and the reverse. In the elevator
  programs the only thread this can happen to is the elevator's own, which riders outrank: `stray`
  is what it does then, as a rider from floor 0 to floor 0.
* `Burgers`. Semaphores are numbered in the order `main` creates them. The ids of burgers
  wrap at `LastId` as they do at 50000. `uneaten` is history: the burgers produced and not
  yet consumed. An index outside `buffer` is undefined behaviour: such a step has no
  successor, and `StackHolds` is about the state before it.
* `Elevator`. The three programs have the same elevator and riders, and differ in what
  `firstThread` forks and when it yields, the `script`. The halves of the loop for UP and
  DOWN are one definition with the direction as parameter. `t_wait` without a lock returns
  with the signal blocked, so what a rider or the elevator does from there to its next call
  cannot be interrupted. `reqSFD` and `reqEFD` have three entries, as in the code, and a
  program has at most three directors and one president, as the comment at the top of
  TEST5A says. `visit` holds the arguments of `el_visitFloor`. `caught` is history: the
  labels at which slices ended.

The order of events (who enters and leaves, on which floor, and where the elevator goes)
that the model produces for `script5A`, `script5B` and `script5C` without a tick is the one
that the three programs print when they are compiled and run.

## Runs

| run | instance | shows |
|---|---|---|
| `kernel_join` | 3 threads, 2 levels, 2 slots, joins 1->2 and 3->1, thread 3 may `t_exit`; quiet epilogue | data consistent; joins sound and complete; `t_start` waits for all; implements `ThreadLife`; inductive invariant of the proofs; round robin under fairness |
| `queue_list` | 3 nodes, 2 objects | list shape, memory, FIFO |
| `sem_handover` | 3 threads, 2 levels, 1 semaphore created with 0 or 1, 2 V calls; ticks in the epilogue | permits conserved, no idle permit, handed permits arrive |
| `bridge` | TEST3A, 3B, 3C in full (37 threads, and one more that is forked when a `Depart` runs `Arrive`) with one tick anywhere; 3 and 4 cars with 3 and 2 ticks | one direction at a time, counters true, no waiter missed, turns taken, everybody crosses |
| `burgers` | 1 cook, 2 students, 2 places, 3 ids; ticks unbounded | mutual exclusion, the array is respected, each burger eaten once, nobody starves |
| `elevator` | TEST5A, 5B, 5C in full (17 threads); 8 employees; three programs with one tick, one with two | counters, capacity, floors, ranks, everybody arrives |
| `repeated_join` (violated) | one thread joins three | finding 1 |
| `sem_wake_level` (violated) | V by a less important thread | finding 2 |
| `epilogue_race` (violated) | an ending thread, its joiner and a third thread | finding 3 |
| `bridge_section` (violated) | 3 cars, 3 ticks | finding 4 |
| `elevator_directors` (violated) | an employee and three directors, no tick | finding 5 |
| `wrong_function` (violated) | 3 threads of one level, no joins | finding 6 |

The bounds. Three threads are enough for a chain of joins with one joiner waiting while
another arrives, for a waker, a woken thread and a bystander, and for a third thread to
run between any two steps of the others. Two levels are enough for preemption: a
scheduler that prefers the higher of two levels and scans all levels alike has no case
that needs a third. Two slots make a waiter sit in the last slot. Forks are bounded by
`MaxThreads`, V calls by `MaxVs`, semaphores by `MaxSems`; yields and ticks are not
bounded. `MaxThreads` is below the fifty of `exitedThreadIDs`, so that array is a
sequence. No symmetry is used: thread ids are ordered.

In `burgers` a cook and two students make a full stack (the cook may fill both places in one
slice), an empty one, two students racing for a burger, and a student
whose semaphore is raised while it is off the processor; ticks are not bounded, and no
counter is. In `bridge` and `elevator` the programs themselves are finite and run in full;
what is bounded is how often a slice ends before the program does. One end anywhere in
each bridge program, and two or three in the short ones, reach both mishaps that
`EveryoneCrosses` names and the overlap of `bridge_section`. For the elevator, one end of a
slice separates any decision from its signal and any test from its sleep.

Fairness. `FairKernelSpec` assumes weak fairness of the scheduler's steps, of a
resumption, of the call of a user function, of the epilogue, and of the timer. The first four are code the processor
simply goes on executing; the interval timer fires again every 10 ms of the process's
own time, so a thread that stays in its user function with the signal unblocked is
interrupted eventually. Nothing is assumed of user functions. `FairCallsSpec`
assumes the same and nothing of the semaphore calls.

`BridgeSpec` and `ElevatorSpec` assume weak fairness of everything the processor executes
(user code included: all of it is there, and ends) and, in `BridgeSpec`, that the slice of a
thread spinning with the timer enabled ends. Other ticks may or may not happen.
`FairBurgersSpec` assumes strong fairness of the steps of each thread: the timer fires without
bound, a slice is 10 ms long and a step a few instructions, so a thread that gets the
processor again and again makes progress.

`halted` (and `dead`, `over`) keep the state graph free of deadlocks where the program has
stopped, so deadlock checking stays on: any other state without a successor, such as a
dispatch from an empty queue or the resumption of an ended thread, is an error.

Definitions named `Bad...` are faulty variants of the definition that follows them, each
used to see that a property notices that fault. They are not part of any specification.

### What the conditions in the properties mean

Some properties hold on condition that no slice ended at a place where the program is
open to it. The condition is a history variable, and the run visits states where it is
false: they are not assumed away, only excused.

* `misled`: a thread has begun with the function of another (finding 6). It is in `OneDirection`,
  `BridgeKnown`, `TurnsTaken`, `EveryoneCrosses`, `RidersCounted` and `EveryoneEats`. A thread
  forked for `Arrive` that runs `Depart` takes a car off the bridge that is still on it, and
  opens it for the other direction; the only cook, turned into a student, leaves everybody
  waiting for a burger; the elevator's thread, turned into a rider, takes itself
  off the number of those who wait. `EveryoneArrives` covers the last by the label `"starts"`.
  `WaitersKept`, `MutualExclusion`, `StackHolds` and `EatenOnce` need no such condition. `RightFloor`,
  `Capacity` and `RankRespected` are stated and checked without it, and proved with it.
* `torn`, in `OneDirection` and `TurnsTaken`: the decrement of TEST3C (lines 117-120) comes after a
  `t_sig` that has enabled the timer. A thread whose slice ends between its load and its store
  overwrites what another has counted in between, `num_cars_north` or `num_cars_south` comes to
  zero with cars left, and line 82 lets the opposite direction go.
* `EveryoneCrosses`: a car that has tested the loop condition and lost its slice before it
  was among the waiters (`THREAD.C:426`: `t_wait` gives the lock back before it blocks the
  signal) misses the last broadcast and waits for ever. And a thread woken from `t_wait` calls
  `lock_acquire` with the signal blocked: if the lock is held by a thread that lost its slice
  inside a `t_sig`, it spins for ever (`Hung`). These are hazards that the property does not rule
  out: it says that there is no other.
* `EveryoneArrives`: the elevator signals and then waits, or tests and then sleeps, without a
  lock. `TooEarly` names the labels where a tick loses the signal that should wake it; all of
  them are the elevator's. The corresponding gaps of the riders are harmless, because riders
  outrank the elevator and `firstThread`: nobody can run in them who would signal.
* `RankRespected`, `Capacity`, and `EveryoneArrives` again: `Stale` names the labels between the
  elevator's decision and its signal. A tick there lets `firstThread` fork a president or a
  director, who then goes in with the others. His request stays behind, and later stands for
  a place that somebody else takes.

## Findings

1. `THREAD.C:530`: slots of the join table are never cleared. A thread that joins two
   threads in turn is put into the ready queue twice by the second, and its third
   join returns before the third target has ended.
2. `THREAD.C:628`: `Semaphore_V` queues the woken thread at the caller's priority. A less
   important thread then runs before it.
3. `THREAD.C:517-541`: the epilogue runs with the timer enabled. A tick inside its
   `q_insert` loses a node and the scheduler crashes on the queue.
4. `THREAD.C:478`: `t_sig` enables the timer, also when the caller holds a lock whose only
   protection is the blocked timer. In TEST3A a car interrupted in the broadcast of `Depart`
   still holds the lock when another, which had tested it before, takes it as well
   (`AloneInside`). In TEST3A and TEST3B `OneDirection` and `BridgeKnown` survive this, because
   what `Depart` does to the shared variables comes before the broadcast. In TEST3C it does not
   all come before: its decrement is after the `t_sig`, and with the overlap a car can be lost
   from the count, after which cars of opposite directions meet (`torn` above): with four cars,
   north and south in turn, and four ends of slices, `OneDirection` fails without `torn` in it.
5. `TEST5A.C:504` and `423`: `setDirectors` counts the directors and also indexes their
   requests, as if they left in the reverse order of their calls. A director who calls after
   one has left overwrites the request of one who is still inside. That one is never let out,
   the elevator moves for ever, and the employees wait. No tick is needed; the programs
   as they stand do not hit it, and a `firstThread` that forks an employee and three directors
   in the order of `Directors` in `MCElevator` does, compiled as well as modelled.
6. `THREAD.C:511-513`: `incrementStack` copies the function of the thread to the global
   `userFunction`, enables the timer and calls through the global. A tick that was pending is
   delivered by `enableTimer`; when the scheduler then starts another new thread, the global is
   overwritten, and the first thread calls the other's function with its own argument
   (`OwnFunction`). What this does to the client programs is under `misled` above.

Some relatives come out of the same models with other constants and have no run of their
own. Two joiners of one thread: the id of an ended thread is recorded only if it woke nobody
(`THREAD.C:537`), so a second joiner that comes after the end waits for ever, while README
items 13 and 14 say it returns (`LateJoinReturns` fails with `JoinCalls = {<<1, 2>>, <<3, 2>>}`).
A target that leaves through `t_exit`: nobody wakes its joiner, and `t_start` returns although
that thread has not ended (`AllGoneAtReturn` fails with `JoinCalls = {<<1, 3>>}`,
`TExiters = {3}`). With `EpilogueTicks = TRUE` and a join, which
`KernelAssumption` keeps out, `NoOrphanJoiner` fails even where no insertion is torn (a thread
joins behind the scan); with fewer slots than joiners it fails too (the index wraps and a
waiter is overwritten). `q_remove` of an empty queue dereferences NULL (`QUEUE.C:83`, the
action `q_remove_empty`) where `QUEUE.H:29` says it returns NULL: `IsFifo` fails without its exception, on a q_remove of a
queue just created. The callers never do it outside of finding 3. In the elevator, a script that forks three employees from 2 to 3, yields
until the elevator is about to signal the first of them, and then forks three directors from 2 to 4
ends with six riders inside, one above `MAX_RIDERS`, when that slice ends at `"letsEnter"`.

## Proofs

The theorems hold for all values of the constants that satisfy the assumptions of the modules
(`KernelAssumption` and so on: sizes are natural numbers, what the client declares are threads),
and those that a theorem states; "while" names the history under which the property is stated or
proved. Every invariant is proved in three steps: the initial states
have it, every action keeps it, it implies the property. Every action has a lemma or a step of
its own, and what an insertion, a removal or an increment does to an array of queues is stated
once.

| module | theorem | proves | under |
|---|---|---|---|
| `ThreadKernelProofs` | `KernelTypes`, `KernelCounts`, `KernelPriority`, `KernelPreempts` | `TypeOK`, `CountsMatchQueues`, `PriorityInv`, `RunningIsHighest` | - |
| | `KernelOnePlace`, `KernelJoins` | `OnePlace`, `JoinMeansOver` | `SingleJoins` |
| | `KernelNoOrphan`, `KernelLateJoin` | `NoOrphanJoiner`, `LateJoinReturns` | `OrderlyJoins` |
| | `KernelAllGone` | `AllGoneAtReturn` | `OrderlyJoins`, `NoCircle` |
| | `KernelPromise` | `KeepsPromise`: the kernel implements `ThreadLife` | `OrderlyJoins` |
| `QueueProofs` | `QueueTypes`, `QueueIsList`, `QueueMemory` | `TypeOK`, `ListShape`, `NoLeakNoDangling` | - |
| | `QueueIsFifo` | `IsFifo`: `QUEUE.C` implements `Fifo` | - |
| `CallProofs` | `SemTypes`, `SemNoIdlePermit`, `SemPermits` | `SemTypeOK`, `NoIdlePermit`, `PermitsConserved` | `SingleJoins` |
| | `SemBlockedOnce` | `BlockedOnce` | `JoinCalls = {}` |
| `BridgeProofs` | `BridgeTypes`, `BridgeWaiters` | `BridgeTypeOK`, `WaitersKept` | - |
| | `BridgeTrue` | `BridgeKnown` | while not `misled` |
| | `BridgeOneWay`, `BridgeTurns` | `OneDirection`, `TurnsTaken` | while not `misled`, not `torn` |
| `BurgersProofs` | `BurgersTypes`, `BurgersExclude`, `BurgersStack`, `BurgersEatenOnce` | `BurgersTypeOK`, `MutualExclusion`, `StackHolds`, `EatenOnce` | - |
| `ElevatorProofs` | `ElevatorTypes`, `ElevatorFloors`, `ElevatorCounts`, `ElevatorRanks`, `ElevatorCapacity` | `ElevatorTypeOK`, `RightFloor`, `RidersCounted`, `RankRespected`, `Capacity` | while not `misled` |

### The assumptions

What a theorem assumes about the client is what the code needs, and each condition has an
execution that breaks the property without it.

* `SingleJoins`: a thread calls `t_join` at most once. Slots are never cleared, so the second
  join of a thread puts it into the ready queue twice (finding 1, run `repeated_join`). TEST1
  joins in this way.
* `OrderlyJoins` adds: a thread is joined by at most one other (the id of an ended thread is
  recorded only if it woke nobody); a joined thread does not call `t_exit` (which wakes and
  records nobody); there are slots for all joins (the index wraps); no slice ends in the
  epilogue (a thread could join behind the scan). The last is about the environment and not
  about the client: the timer may fire there, and the theorems describe the executions in which
  it does not, as the run `kernel_join` does. With the exception of the full table, "Findings"
  describes what happens otherwise for each.
* `WholeInserts`, in `KernelAssumption`: with joins no slice ends in an epilogue (finding 3).
* `NoCircle`: every set of threads has one that joins none of them. Two threads that join each
  other leave `Scheduler` without a ready thread, and `t_start` returns.
* `JoinCalls = {}` in `SemBlockedOnce`: a thread that waits in `t_join` is blocked and in the
  queue of no semaphore.
* `BurgersAssumption` has `MaxSems = 2`: `main` of TEST4 creates two semaphores.
* `BridgeAssumption` has `2 * Len(cars) + ticks < MaxThreads`: every car is two threads, one runs
  `funcA`, and each tick can make one thread more fork.
* `ElevatorAssumption` says what a `firstThread` is like: it forks riders between different
  floors from 1 to `MAX_FLOORS - 1` and yields, in any order; at most one of them is a
  president and three are directors, because there is one entry for the request of a
  president and three for those of directors, and ten are employees, because `reqSFE` and `reqEFE`
have ten and an eleventh request would be written beyond them. There are at least two floors and three places.

`KernelTypes` to `KernelPreempts` need none of the conditions on joins: any joins and any `t_exit`.
Like all the theorems about threads they rest on `WholeInserts`: with joins no slice ends in an
epilogue. The tick that it leaves out falsifies them, as the run `epilogue_race` shows.

### The arguments

*Priorities.* `RunningIsHighest` is not inductive: a dispatch gives the processor to the highest
non-empty *count*, so the counts have to be right; that the entries of a queue have the priority
of its level has to be known to turn levels into priorities; that ids in queues and slots have
been given out is needed so that the new control block of a fork disturbs none of them; and the
statement must also hold in the resumption branch, before the thread is in user code.
`PriorityInv` is the conjunction, and the run `kernel_join` checks it.

*Places and joins.* `PlaceInv` says where a thread can be: in one ready queue once, on the
processor, parked, ended or not forked yet; a thread with a saved context is not started a second
time. A wake-up keeps it only if the woken thread was parked. `JoinInv` adds that: whoever is in a
slot has joined, at that time or earlier, and with a single join per thread, one whose target has
yet to scan its slot is still parked. `OrderInv` adds the other direction: the slots from
`waitingIndex` on are unused (so none is overwritten), a thread keeps the processor in its
epilogue, and every joiner is in a slot that its target has not scanned (`FoundLater`); and a
thread that nobody has joined yet will be recorded when it ends (`YetToJoin`). For
`KernelAllGone`, the threads that have not ended when the scheduler returns are all parked, each
waits for another of them, and `NoCircle` contradicts it.

*The refinement of `ThreadLife`.* `LifeInv` is `OrderInv`, `PriorityInv` and that ids are given
out after `t_start` only. `StageFacts` translates stages into places; then every action of
`KernelNext` is shown to be the step of `ThreadLife` of its name, or to leave the stages,
priorities, targets and ends of the threads as they are.

*The queue.* `QueueInv` adds to the list shape and the memory that a queue that is not there has
no nodes, that a node lost by `q_destroy` is in no list (or a later `free` would free it), and
that the nodes of the list have been filled. The refinement maps the list to the sequence of its
objects. Each call changes the pointers at one end; the lemmas on sequences of nodes say that the
rest of the list is where it was.

*Semaphores.* `SemInv` says that whoever is in the queue of a semaphore is parked in
`Semaphore_P`, in that queue, once; that is what makes a `Semaphore_V` wake a parked thread and
so keeps `PlaceInv`. Steps that do not call semaphores keep it whatever they are. `CallInv` adds
the history: a thread that is owed a permit is ready or being resumed, so it cannot be handed
another.

*Burgers.* `lock_acquire` tests and sets in two steps, so from "one thread is inside" nothing
follows about a thread that has tested the lock and is about to take it. `SectionInv` says why
it cannot run: the thread inside is the one on the processor, in its own function, with the
signal blocked, and `shared` is 1 exactly while there is one. The stack is kept in bounds by
`TokenInv`: the value of each semaphore and the threads that have passed it and not yet used
their permit, or used it and not yet passed it on, add up to the places or to the burgers.
`LabelInv` says at which label a thread in the queue of a semaphore is, because whoever is woken
there has passed the semaphore without a step of its own. A thread that has begun with the
function of another changes none of this: the invariants speak of cooking and eating by labels and
`func`, not by who was forked as what. `BurgerInv` counts each id on the stack and in hands.

*Bridge.* Two threads can be in the section at once (finding 4), so the argument for the burgers
breaks down, and the proof does not use the lock at all. What matters is that a section is not
interrupted up to its first `t_sig`, and that the invariant holds at that point. `CarInv` says
that `crossing` counts the threads that have left the section of `Arrive` and not entered that of
`Depart`, that `num_cars` (TEST3A, TEST3B) or `inFlight` (TEST3C) is their number, that they all
have `cur_dir`, that `num_cars_of` counts the cars that have called, so that a zero there means an
empty bridge in that direction as long as the decrement is not `torn`, and that from the third car on
`toggleDir` is set. All this is proved as long as no thread is `misled`; types and `MonInv` always. `LabelInv`
says which labels belong to `Arrive` and which to `Depart`, and that a thread whose context was
saved in `t_wait` is still at its call or has been back since: without this, a thread could be
resumed in `t_wait` from anywhere. `MonInv`, the invariant of `Monitors` for any client that neither joins
nor uses semaphores, says that a thread is in the queue of a condition if and only if it is
parked, once, at the level of its priority, and that the counters are the lengths. That the scan
of `t_sig` finds the highest level (`HighestLevel`) needs that a finite set of levels has a
greatest element; it is derived from the well-foundedness of strict inclusion.

*Elevator.* All of it is proved in the form `misled \/ ElevatorInv`: an elevator that began as a rider
ends what follows. Nobody holds a lock in these programs. What takes its place is that riders outrank
the elevator and `firstThread`: `ReadyInv` (from `RunningIsHighest`) says that while the elevator
is on the processor no rider is ready, so each of them waits for a condition or has gone. `WaitsInv`
says at which label somebody in the queue of each condition is. `QuietInv` follows for every label
but the two where the elevator waits for the rider it has signalled: nobody is between his wake-up
and his next call (`InDoor`). `DoorInv` says that whoever is has the door open and the elevator at his
floor, and since the elevator's own steps are taken while nobody is there, it may close the door or
move. `CabInv` keeps the elevator in the building. `RequestInv` is about the president, for whom the
elevator closes the door as an effect of the branch it is in. `CountInv` counts the threads by their
labels, in total, by rank, by floor and by direction; a step moves one thread from a label to another,
and each counter follows by `CountersMove` and its special cases.

*Ranks and places.* The elevator reads the counters, decides whom to let in, and signals; by then
others could be where it looked. `MoveInv` says why they are not: while `firstThread` or the elevator
is on the processor every rider waits for a condition or is gone (`CalmInv`, a consequence of
priorities again); while somebody is in the doorway everybody else is (`LoneInv`); riders come in before
others get out, and those who are woken because the elevator has emptied move only after it has let in
whom it will (`PassInv`). `RankInv` is about what the elevator knows. `LookInv`: what it has read is
still so at the next label. `LiveInv`: the directors' requests for a floor and direction are at most
the directors who wait there. `CallInv`: the president's request stands until he is called in. From
these comes `ServeInv`, which holds while the elevator lets riders in: there are one rank, direction and
floor such that only this rank is inside or on the way, nobody more important has passed the test of
`attend_elevator`, and the signals still to send, the one who is coming and the directors' requests
not yet struck off add up to at most those who have filed a request, and fit into the places left. So
each signal finds one of the right rank, and a place. `DirectorsInv` carries the count of directors from
the script to the threads: three slots hold all their requests, and with `MAX_RIDERS` at least three
the elevator admits as many as it finds. All of `RankInv` holds under the condition
that no slice has ended between look and signal (`NoStale`), but for `DirectorsInv` and that the
elevator never ends; "Findings" has the execution that breaks both properties otherwise.

### What stays with TLC

* Liveness: `RoundRobin`, `HandoverArrives`, `EveryoneEats`, `EveryoneCrosses`,
  `EveryoneArrives`. The prover has no fairness.

## Not modelled

* The stack (the 5000-element arrays, the arena of fifty threads): machine state. The model's
  threads are at most 38.
* Time: a slice may end at any moment the signal is not blocked, so `t_set_quantum` and
  `t_set_system_quantum` have nothing to change, and the values that `setitimer` refuses are
  out of view. So is a slice ending during `t_start` between `setitimer` and `disableTimer`.
* `malloc` failing in the thread modules (`Queue` has it for `q_insert`), and `Semaphore_destroy(NULL)`.
* `cond_destroy`, which no program calls; priorities outside 0..127; calls of `t_start` from a
  thread; `printf`, names.
* The exact text of TEST1 and TEST2: their calls are behaviours of the general client of
  `ThreadKernel`.
* In the elevator, `reqSFE` and `reqEFE`, which are written and never read.

## What could follow

A model of the timer's window in `t_start`.
