------------------------------- MODULE Bridge -------------------------------
(***************************************************************************)
(* TEST3A, TEST3B and TEST3C: cars from both ends of a one-lane bridge.    *)
(* funcA forks a thread in Arrive for each car; Arrive, once the car is on *)
(* the bridge, forks one in Depart that takes it off.  TEST3A and TEST3B   *)
(* have the same Arrive and Depart and different cars; those of TEST3C let *)
(* three cars pass at a time.                                              *)
(*                                                                         *)
(* A thread is at a label of its code:                                     *)
(*   forks                            funcA                                *)
(*   acquire take inside leave        lock_acquire, the critical section,  *)
(*                                    lock_release                         *)
(*   nudge unlock park waiting        the t_sig of TEST3C before its       *)
(*   reacquire retake woken           t_wait, and t_wait                   *)
(*   fork                             the t_fork of Depart                 *)
(*   signal uncount store copy        the t_sigs of Depart and what TEST3C *)
(*                                    does after it                        *)
(*   end                              about to return                      *)
(* A thread that is interrupted before incrementStack calls its function   *)
(* may begin with the function of another (begins).                        *)
(* All threads have priority 10, which is level 0 here.                    *)
(***************************************************************************)
EXTENDS Monitors

CONSTANTS
  Programs    \* records: the cars, how often Depart signals in a broadcast,
              \* whether Arrive and Depart are those of TEST3C, and how many
              \* time slices end before the program does

my_lock == "my_lock"
cond    == "cond"
Ends    == {"north", "south"}
Other(d) == IF d = "north" THEN "south" ELSE "north"

ASSUME BridgeAssumption ==
  /\ \A g \in Programs : /\ g.cars \in Seq(Ends)
                         /\ g.signals \in Nat \ {0}
                         /\ g.batches \in BOOLEAN
                         /\ g.ticks \in Nat
                         /\ 2 * Len(g.cars) + g.ticks < MaxThreads
  /\ my_lock \in Locks /\ cond \in Conds

VARIABLES
  program,
  ticksLeft,      \* bound: time slices that may still end
  carsForked,     \* local i of funcA
  func,           \* the function of each thread, tcb->func until it begins
  dirOf,          \* my_dir of each thread in Arrive or Depart
  at,             \* where in that function it is
  sigs,           \* the t_sigs Depart has still to make
  num_cars,
  cur_dir,
  num_cars_of,    \* num_cars_north and num_cars_south
  inFlight,
  toggleDir,
  firstTime,
  loaded,         \* per thread: the count it is about to decrement
  crossing,       \* history: the cars on the bridge, by direction
  misled,         \* history: a thread began with another function than its own
  torn,           \* history: a decrement overwrote what was counted meanwhile
  caught          \* history: threads interrupted when they had decided to
                  \* wait and were not among the waiters yet

carVars    == <<num_cars, cur_dir, num_cars_of, inFlight, toggleDir, firstTime, crossing,
                loaded, torn>>
threadVars == <<carsForked, func, dirOf, sigs, misled>>
bridgeVars == <<kernelVars, monitorVars, program, ticksLeft, threadVars, at,
                carVars, caught>>

Repeat(d, n) == [i \in 1 .. n |-> d]

\* the loops of funcA in TEST3A, TEST3B and TEST3C
cars3A == Repeat("north", 5) \o Repeat("south", 5)
cars3B == Repeat("north", 3) \o Repeat("south", 3) \o Repeat("north", 9)
cars3C == Repeat("north", 3) \o Repeat("south", 3) \o Repeat("north", 9)
            \o Repeat("south", 3)

BridgeInit ==
  /\ KernelInit
  /\ MonitorsInit
  /\ program \in Programs
  /\ ticksLeft = program.ticks
  /\ carsForked = 0
  /\ func = [t \in Threads |-> "none"]
  /\ dirOf = [t \in Threads |-> "open"]
  /\ at = [t \in Threads |-> "end"]
  /\ sigs = [t \in Threads |-> 0]
  /\ num_cars = 0
  /\ cur_dir = "open"
  /\ num_cars_of = [d \in Ends |-> 0]
  /\ inFlight = 0
  /\ toggleDir = 0
  /\ firstTime = 0
  /\ loaded = [t \in Threads |-> 0]
  /\ misled = FALSE
  /\ torn = FALSE
  /\ crossing = [d \in Ends |-> 0]
  /\ caught = {}

me == currentRunningThread
At(l) == InBody /\ at[me] = l
Goes(l) == at' = [at EXCEPT ![me] = l]

\* t_fork of function f for direction d; the calling thread goes on at l.
Forks(f, d, l) ==
  /\ t_fork(0)
  /\ func' = [func EXCEPT ![gThreadID'] = f]
  /\ dirOf' = [dirOf EXCEPT ![gThreadID'] = d]
  /\ at' = [at EXCEPT ![me] = l, ![gThreadID'] = "acquire"]
  /\ UNCHANGED <<monitorVars, program, ticksLeft, sigs, misled, carVars, caught>>

\* main creates the lock and the condition and starts funcA.
main ==
  /\ t_start(0)
  /\ func' = [func EXCEPT ![1] = "funcA"]
  /\ at' = [at EXCEPT ![1] = "forks"]
  /\ UNCHANGED <<monitorVars, program, ticksLeft, carsForked, dirOf, sigs, misled,
                 carVars, caught>>

BadOwnFunction == func[me]

\* A thread that is resumed after a tick before its call finds the function of
\* the thread that was started last.  Arrive and Depart begin alike, and a
\* thread keeps its argument.
FunctionFound == func[userFunction]

begins ==
  /\ callUserFunction
  /\ func' = [func EXCEPT ![me] = FunctionFound]
  /\ misled' = (misled \/ FunctionFound # func[me])
  /\ UNCHANGED <<monitorVars, program, ticksLeft, carsForked, dirOf, sigs, at,
                 carVars, caught>>

funcA ==
  /\ At("forks")
  /\ \/ /\ carsForked < Len(program.cars)
        /\ carsForked' = carsForked + 1
        /\ Forks("Arrive", program.cars[carsForked + 1], "forks")
     \/ /\ carsForked = Len(program.cars)
        /\ Goes("end")
        /\ UNCHANGED <<kernelVars, monitorVars, program, ticksLeft, threadVars,
                       carVars, caught>>

-----------------------------------------------------------------------------
(* Taking and giving back the lock, in Arrive, in Depart and in t_wait. *)

\* A step of the thread that leaves the cars and the other threads alone
Only(Action, l) ==
  /\ Action
  /\ Goes(l)
  /\ UNCHANGED <<program, ticksLeft, threadVars, carVars, caught>>

\* ... and the thread system as well
Nothing == UNCHANGED <<kernelVars, monitorVars>>

acquires ==
  \/ At("acquire")   /\ SeesFree(my_lock) /\ Only(Nothing, "take")
  \/ At("reacquire") /\ SeesFree(my_lock) /\ Only(Nothing, "retake")

Spinning == (At("acquire") \/ At("reacquire")) /\ SpinsOn(my_lock)

spins == Spinning /\ UNCHANGED bridgeVars

takes ==
  \/ At("take")   /\ Only(TakesLock(my_lock), "inside")
  \/ At("retake") /\ Only(TakesLock(my_lock), "woken")

leaves ==
  /\ At("leave")
  /\ Only(lock_release(my_lock), IF func[me] = "Arrive" THEN "fork" ELSE "end")

nudges == At("nudge") /\ Only(t_sig(cond, my_lock), "unlock")

unlocks == At("unlock") /\ Only(lock_release(my_lock), "park")

parks == At("park") /\ Only(t_wait(cond), "waiting")

wakes == Only(wakesInWait, IF arg[me] = NoLock THEN "woken" ELSE "reacquire")

-----------------------------------------------------------------------------
(* Arrive and Depart of TEST3A and TEST3B. *)

BadBlocked(d) == cur_dir = Other(d) /\ num_cars > 1

Blocked(d) == cur_dir # d /\ cur_dir # "open"

\* A critical section runs with the timer blocked up to its first t_sig.
InSection(f) ==
  /\ At("inside") \/ At("woken")
  /\ func[me] = f
  /\ UNCHANGED <<kernelVars, monitorVars, program, ticksLeft, carsForked, func,
                 dirOf, misled, loaded, torn, caught>>

\* Arrive from the test of its loop to the next call
Arrive ==
  LET d == dirOf[me]
  IN  /\ ~program.batches
      /\ InSection("Arrive")
      /\ \/ /\ Blocked(d)
            /\ Goes("unlock")
            /\ UNCHANGED <<num_cars, cur_dir, crossing>>
         \/ /\ ~Blocked(d)
            /\ num_cars' = num_cars + 1
            /\ cur_dir' = d
            /\ crossing' = [crossing EXCEPT ![d] = @ + 1]
            /\ Goes("leave")
      /\ UNCHANGED <<sigs, num_cars_of, inFlight, toggleDir, firstTime>>

BadLastCar == TRUE

BadLastCarEarly == num_cars = 0

\* the test of num_cars in Depart, after the decrement
LastCar == num_cars - 1 = 0

Depart ==
  LET d == dirOf[me]
  IN  /\ ~program.batches
      /\ InSection("Depart")
      /\ num_cars' = num_cars - 1
      /\ crossing' = [crossing EXCEPT ![d] = @ - 1]
      /\ \/ /\ LastCar
            /\ cur_dir' = "open"
            /\ sigs' = [sigs EXCEPT ![me] = program.signals]
            /\ Goes("signal")
         \/ /\ ~LastCar
            /\ Goes("leave")
            /\ UNCHANGED <<cur_dir, sigs>>
      /\ UNCHANGED <<num_cars_of, inFlight, toggleDir, firstTime>>

\* One t_sig of Depart.  The lock is still held, but the timer is enabled now.
signals ==
  /\ At("signal")
  /\ t_sig(cond, my_lock)
  /\ sigs' = [sigs EXCEPT ![me] = @ - 1]
  /\ Goes(IF sigs[me] > 1 THEN "signal"
          ELSE IF program.batches THEN "uncount" ELSE "leave")
  /\ UNCHANGED <<program, ticksLeft, carsForked, func, dirOf, misled, carVars, caught>>

-----------------------------------------------------------------------------
(* Arrive and Depart of TEST3C. *)

BadHoldsBack(d, n, c) == n % 2 = 0 \/ c # d

\* The condition of the loop, for a car of direction d that read n, with the
\* current direction c.
HoldsBack(d, n, c) == n % 2 = 0 \/ c # d \/ inFlight >= 3 \/ toggleDir = 1

\* The car goes into the body of the loop, with the current direction c, or on
\* the bridge.
AdmitsOrNudges(d, c, holdsBack) ==
  \/ /\ holdsBack
     /\ cur_dir' = c
     /\ Goes("nudge")
     /\ UNCHANGED <<inFlight, toggleDir, crossing>>
  \/ /\ ~holdsBack
     /\ cur_dir' = d
     /\ inFlight' = inFlight + 1
     /\ toggleDir' = IF inFlight' = 3 THEN 1 ELSE toggleDir
     /\ crossing' = [crossing EXCEPT ![d] = @ + 1]
     /\ Goes("leave")

Arrive3C ==
  LET d == dirOf[me]
      c == IF firstTime = 0 THEN d ELSE cur_dir
  IN  /\ program.batches
      /\ At("inside")
      /\ InSection("Arrive")
      /\ firstTime' = 1
      /\ num_cars_of' = [num_cars_of EXCEPT ![d] = @ + 1]
      /\ num_cars' = num_cars_of'[d]
      /\ AdmitsOrNudges(d, c, HoldsBack(d, num_cars', c))
      /\ UNCHANGED sigs

\* The body of the loop after t_wait, and its test.  With no car left in one
\* direction the car goes, and the bridge turns to its direction.
Woken3C ==
  LET d == dirOf[me]
      myTurn == cur_dir = d /\ toggleDir # 1
      oneSide == \E e \in Ends : num_cars_of[e] = 0
  IN  /\ program.batches
      /\ At("woken")
      /\ InSection("Arrive")
      /\ num_cars' = num_cars_of[d]
      /\ AdmitsOrNudges(d, cur_dir,
                         ~myTurn /\ ~oneSide /\ HoldsBack(d, num_cars', cur_dir))
      /\ UNCHANGED <<sigs, num_cars_of, firstTime>>

Depart3C ==
  LET d == dirOf[me]
      empty == inFlight - 1 = 0 /\ cur_dir # "open"
  IN  /\ program.batches
      /\ InSection("Depart")
      /\ inFlight' = inFlight - 1
      /\ cur_dir' = IF empty THEN Other(cur_dir) ELSE cur_dir
      /\ toggleDir' = IF empty THEN 0 ELSE toggleDir
      /\ crossing' = [crossing EXCEPT ![d] = @ - 1]
      /\ sigs' = [sigs EXCEPT ![me] = 1]
      /\ Goes("signal")
      /\ UNCHANGED <<num_cars, num_cars_of, firstTime>>

\* A statement of Depart after its t_sig, with the timer enabled.
Unprotected(l, m) ==
  /\ At(l)
  /\ Goes(m)
  /\ UNCHANGED <<kernelVars, monitorVars, program, ticksLeft, threadVars, cur_dir,
                 inFlight, toggleDir, firstTime, crossing, caught>>

\* num_cars = --num_cars_north, or --num_cars_south: a load, a store, and a copy
\* of what is there then.  (The copy is a load and a store as well, but num_cars
\* is set anew before every test of it.)
uncounts ==
  /\ Unprotected("uncount", "store")
  /\ loaded' = [loaded EXCEPT ![me] = num_cars_of[dirOf[me]]]
  /\ UNCHANGED <<num_cars, num_cars_of, torn>>

stores ==
  LET d == dirOf[me]
  IN  /\ Unprotected("store", "copy")
      /\ num_cars_of' = [num_cars_of EXCEPT ![d] = loaded[me] - 1]
      /\ torn' = (torn \/ num_cars_of[d] # loaded[me])
      /\ UNCHANGED <<num_cars, loaded>>

copies ==
  /\ Unprotected("copy", "leave")
  /\ num_cars' = num_cars_of[dirOf[me]]
  /\ UNCHANGED <<num_cars_of, loaded, torn>>

-----------------------------------------------------------------------------

forksDepart == At("fork") /\ Forks("Depart", dirOf[me], "end") /\ UNCHANGED carsForked

\* The thread system at work.
Kernel(Action) ==
  Action /\ UNCHANGED <<monitorVars, program, ticksLeft, threadVars, at, carVars, caught>>

returns == At("end") /\ Kernel(userFunctionReturns)

\* A slice ends.  The bound does not count those that end in the loop of
\* lock_acquire: while the lock is held such a thread does nothing else.
tick ==
  /\ timerHandler
  /\ \/ Spinning /\ UNCHANGED ticksLeft
     \/ ~Spinning /\ ticksLeft > 0 /\ ticksLeft' = ticksLeft - 1
  /\ caught' = IF At("unlock") \/ At("park") THEN caught \cup {me} ELSE caught
  /\ UNCHANGED <<monitorVars, program, threadVars, at, carVars>>

threadStep ==
  \/ begins \/ funcA \/ acquires \/ takes \/ leaves \/ nudges \/ unlocks \/ parks \/ wakes
  \/ Arrive \/ Depart \/ signals \/ Arrive3C \/ Woken3C \/ Depart3C \/ uncounts
  \/ stores \/ copies \/ forksDepart \/ returns

systemStep == Kernel(schedulerStep) \/ Kernel(resume) \/ Kernel(epilogueStep)

BridgeNext == main \/ threadStep \/ spins \/ systemStep \/ tick \/ Kernel(halted)

\* Every function of this program is code the processor goes on executing, and
\* the slice of a thread that spins with the timer enabled ends.
BridgeSpec ==
  /\ BridgeInit
  /\ [][BridgeNext]_bridgeVars
  /\ WF_bridgeVars(main \/ threadStep \/ systemStep)
  /\ WF_bridgeVars(Spinning /\ tick)

-----------------------------------------------------------------------------
(* Properties. *)

\* Types.  A counter of cars may be negative when a thread of Arrive runs Depart.
BridgeTypeOK ==
  /\ TypeOK
  /\ MonitorsTyped
  /\ program \in Programs
  /\ ticksLeft \in Nat
  /\ carsForked \in 0 .. Len(program.cars)
  /\ func \in [Threads -> {"none", "funcA", "Arrive", "Depart"}]
  /\ dirOf \in [Threads -> Ends \cup {"open"}]
  /\ at \in [Threads -> {"forks", "acquire", "take", "inside", "leave", "nudge",
                         "unlock", "park", "waiting", "reacquire", "retake", "woken",
                         "fork", "signal", "uncount", "store", "copy", "end"}]
  /\ sigs \in [Threads -> 0 .. program.signals]
  /\ num_cars \in Int
  /\ cur_dir \in Ends \cup {"open"}
  /\ num_cars_of \in [Ends -> Int]
  /\ inFlight \in Int /\ toggleDir \in {0, 1} /\ firstTime \in {0, 1}
  /\ loaded \in [Threads -> Int]
  /\ crossing \in [Ends -> Int]
  /\ misled \in BOOLEAN /\ torn \in BOOLEAN
  /\ caught \subseteq Threads

\* "A car can only cross the bridge if there are no cars going the opposite
\* direction on the bridge": so it is, unless a thread ran the function of another
\* or, in TEST3C, a car was lost from the count by the unprotected decrement.
OneDirection == misled \/ torn \/ crossing["north"] = 0 \/ crossing["south"] = 0

\* What the program believes about the bridge is true of it, with every thread in
\* its own function: no car is counted twice or not at all.
BridgeKnown ==
  LET n == crossing["north"] + crossing["south"]
  IN  ~misled =>
      /\ ~program.batches => /\ num_cars = n
                             /\ \A d \in Ends : crossing[d] > 0 => cur_dir = d
      /\ program.batches => inFlight = n

\* A car that has called and may not go on the bridge yet: it is in the loop of
\* Arrive, in t_wait or on its way there or back.
HeldBack(t) == at[t] \in {"nudge", "unlock", "park", "waiting", "reacquire", "retake",
                          "woken"}

\* TEST3C is to show "that you have solve the starvation problem": a car goes on
\* the bridge as the fourth of its batch only when no car of the one or the other
\* direction is held back.
TurnsTaken ==
  [][inFlight' > inFlight /\ inFlight' > 3 /\ ~misled /\ ~torn =>
       \E d \in Ends : \A t \in Threads : HeldBack(t) => dirOf[t] # d]_bridgeVars

Crossed == /\ cpu = "returned"
           /\ \A t \in Threads : Born(t) => pc[t] = "done"
           /\ carsForked = Len(program.cars)

Inside(t) == at[t] \in {"inside", "woken", "leave", "nudge", "unlock", "signal",
                        "uncount", "store", "copy"}

\* A woken thread tests the lock with the timer blocked while another has it.
Hung == Spinning /\ masked

\* Every car crosses and the program ends, but for three mishaps: a slice that
\* ends between a thread's decision to wait and its wait, so that the signal
\* meant for it is lost, a woken thread that spins with the timer blocked, and a
\* thread that begins with the function of another.
EveryoneCrosses == <>(Crossed \/ caught # {} \/ Hung \/ misled)

\* "to avoid switching when working in critical region, timer interrupts are
\* disabled using locks" (README.md, What about critical regions): two threads
\* are never in critical sections of the same lock.
AloneInside ==
  \A t, u \in Threads :
    Inside(t) /\ Inside(u) => t = u
=============================================================================
