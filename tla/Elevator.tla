------------------------------ MODULE Elevator ------------------------------
(***************************************************************************)
(* TEST5A, TEST5B and TEST5C: an elevator, ten employees, three directors  *)
(* and a president, who talk through condition variables without a lock.   *)
(* The three programs differ in what firstThread forks, and when.          *)
(*                                                                         *)
(* t_wait without a lock returns with the timer blocked, so a thread runs  *)
(* undisturbed from there to its next t_sig, t_yield or t_wait; that is    *)
(* one step, or a few that no tick can separate.  Everywhere else one step *)
(* is a statement, or a test, on what the threads share.                   *)
(*                                                                         *)
(* Priorities 5, 10, 20 and 30 are levels 0 to 3.                          *)
(*                                                                         *)
(* Labels.  firstThread: "forks", "end".  The elevator:                    *)
(*   starts sleepsFirst looks decides decidesToo decidesLast president     *)
(*   directors employees              ElevatorThread up to a visit         *)
(*   letsEnter boards letsExit alights shuts   el_visitFloor               *)
(*   rests stops sleeps moves         the rest of its loop                 *)
(*   yield1 yield2 yield3 arrives     el_moveOneFloorUp, -Down             *)
(* A rider:                                                                *)
(*   calls queues adds asks           elevatorCallUP, -Down up to the test *)
(*   awaits wakes                     waiting for the elevator to be empty *)
(*   files1 files2 attends            the request, and the wait for it     *)
(*   enters rides                     elevatorEnter, elevatorRequestFloor  *)
(*   exits announces signals quits    elevatorExit, t_exit                 *)
(* The elevator, when it is interrupted before incrementStack calls its    *)
(* function and begins with that of a rider:                               *)
(*   strays miscounts                 elevatorEnter                        *)
(*   presses beckons strands lost     elevatorRequestFloor(0)              *)
(***************************************************************************)
EXTENDS Monitors

CONSTANTS
  Programs,    \* records: what firstThread does after forking the elevator,
               \* and how many time slices end before the program does
  MAX_FLOORS,  \* 11
  MAX_RIDERS   \* 5

ElevatorLevel == 0
Employee      == 1
Director      == 2
President     == 3

Floors == 0 .. MAX_FLOORS - 1
Dirs   == {"UP", "DOWN"}
None   == -1

\* bld.floors[f].goingUp and goingDown, elv.floors[f].requests
going(d, f) == <<d, f>>

BadRequests(f) == <<"requests", 0>>

requests(f) == <<"requests", f>>
elv_wait      == <<"elv_wait", 0>>
emptyElevator == <<"emptyElevator", 0>>

AllConds == {going(d, f) : d \in Dirs, f \in Floors}
              \cup {requests(f) : f \in Floors} \cup {elv_wait, emptyElevator}

\* firstThread forks a rider, or yields.
Rider(p, s, e) == [priority |-> p, start |-> s, end |-> e]
Yields == [priority |-> 0, start |-> 0, end |-> 0]

Stops    == 1 .. MAX_FLOORS - 1
Journeys == {r \in {Rider(p, s, e) : p \in Employee .. President, s \in Stops, e \in Stops} :
               r.start # r.end}

Who(script, p) == {i \in 1 .. Len(script) : script[i].priority = p}

\* "There is a President of the company, three directors [...]"
ASSUME ElevatorAssumption ==
  /\ MAX_FLOORS \in Nat /\ MAX_FLOORS >= 3
  /\ MAX_RIDERS \in Nat /\ MAX_RIDERS >= 3
  /\ TopPriority = President
  /\ Conds = AllConds
  /\ TExiters = Threads
  /\ \A g \in Programs :
       /\ g.ticks \in Nat
       /\ g.script \in Seq(Journeys \cup {Yields})
       /\ Len(g.script) + 2 <= MaxThreads
       /\ Cardinality(Who(g.script, President)) <= 1
       /\ Cardinality(Who(g.script, Director)) <= 3
       /\ Cardinality(Who(g.script, Employee)) <= 10   \* entries of reqSFE, reqEFE

VARIABLES
  program,
  ticksLeft,       \* bound: time slices that may still end
  forked,          \* how much of the script firstThread has done
  at,
  start, end,      \* of each rider
  state, direction, currentFloor, numRiders,   \* elv
  ridersOf,        \* elv.employeeRiders, directorRiders and presidentRiders
  numWaiters,      \* elv.floors[f].numWaiters
  num,             \* bld.floors[f].numUp and numDown
  bldWaiters,      \* bld.waiters
  setOf,           \* bld.setEmployee, setDirectors and setPresident
  reqSFP, reqEFP, reqSFD, reqEFD,
  waitingforEmpty,
  numEnter, numExit, numSpaces, slot,   \* locals of ElevatorThread (slot: i)
  visit,           \* el_visitFloor: entries and exits to go, direction, and
                   \* what called it
  sigs,            \* t_sigs a rider has still to make on emptyElevator
  caught,          \* history: threads interrupted where a signal is lost
  misled           \* history: the elevator began with a rider's function

elvVars   == <<state, direction, currentFloor>>
rideVars  == <<numRiders, ridersOf, numWaiters>>
callVars  == <<num, bldWaiters, setOf, waitingforEmpty>>
reqVars   == <<reqSFP, reqEFP, reqSFD, reqEFD>>
localVars == <<numEnter, numExit, numSpaces, slot, visit>>
cabVars   == <<elvVars, localVars>>
bldVars   == <<rideVars, callVars>>
riderVars == <<start, end, sigs>>
timeVars  == <<program, ticksLeft, caught, misled>>

Labels ==
  {"forks", "end", "starts", "sleepsFirst", "looks", "decides",
   "decidesToo", "decidesLast", "president", "directors", "employees", "letsEnter",
   "boards", "letsExit", "alights", "shuts", "rests", "stops", "sleeps", "moves",
   "yield1", "yield2", "yield3", "arrives", "calls", "hails", "queues", "adds",
   "asks", "awaits", "wakes", "files1", "files2", "attends", "enters", "rides",
   "exits", "announces", "signals", "quits", "strays", "miscounts", "presses",
   "beckons", "strands", "lost"}

elevatorVars == <<kernelVars, monitorVars, timeVars, forked, at, riderVars,
                  cabVars, bldVars, reqVars>>

-----------------------------------------------------------------------------
(* firstThread of the three programs. *)

script5A ==
  <<Rider(President, 4, 8), Rider(Employee, 1, 4), Rider(Employee, 3, 7), Yields,
    Rider(Director, 3, 7), Rider(Director, 6, 9), Rider(Director, 10, 5),
    Rider(Employee, 4, 8), Rider(Employee, 5, 1), Rider(Employee, 2, 6),
    Rider(Employee, 7, 1), Rider(Employee, 5, 9), Rider(Employee, 3, 1),
    Rider(Employee, 6, 10), Rider(Employee, 5, 3)>>

script5B ==
  <<Rider(Employee, 1, 4), Rider(Employee, 3, 7), Yields, Rider(President, 4, 8),
    Rider(Director, 3, 7), Rider(Director, 6, 9), Rider(Director, 10, 5),
    Rider(Employee, 4, 8), Rider(Employee, 5, 1), Rider(Employee, 2, 6),
    Rider(Employee, 7, 1), Rider(Employee, 5, 9), Rider(Employee, 3, 1),
    Rider(Employee, 6, 10), Rider(Employee, 5, 3)>>

script5C ==
  <<Rider(Employee, 1, 4), Rider(Employee, 3, 7), Yields, Rider(Director, 3, 9),
    Rider(President, 3, 8), Rider(Employee, 4, 8), Rider(Employee, 5, 1),
    Rider(Employee, 2, 6), Rider(Employee, 7, 1), Rider(Director, 3, 7),
    Rider(Employee, 5, 9), Rider(Employee, 3, 1), Rider(Director, 10, 5),
    Rider(Employee, 6, 10), Rider(Employee, 5, 3)>>

\* C's globals are zero; firstThread sets the counters and reqSFP and reqEFP.
ElevatorInit ==
  /\ KernelInit
  /\ MonitorsInit
  /\ program \in Programs
  /\ ticksLeft = program.ticks
  /\ forked = 0
  /\ at = [t \in Threads |-> "end"]
  /\ start = [t \in Threads |-> 0]
  /\ end = [t \in Threads |-> 0]
  /\ state = "MOVING" /\ direction = "UP" /\ currentFloor = 0
  /\ numRiders = 0
  /\ ridersOf = [p \in Employee .. President |-> 0]
  /\ numWaiters = [f \in Floors |-> 0]
  /\ num = [d \in Dirs |-> [f \in Floors |-> 0]]
  /\ bldWaiters = 0
  /\ setOf = [p \in Employee .. President |-> 0]
  /\ reqSFP = None /\ reqEFP = None
  /\ reqSFD = [i \in 0 .. 2 |-> 0] /\ reqEFD = [i \in 0 .. 2 |-> 0]
  /\ waitingforEmpty = 0
  /\ numEnter = 0 /\ numExit = 0 /\ numSpaces = 0 /\ slot = 0
  /\ visit = [enter |-> 0, exit |-> 0, dir |-> "UP", by |-> "others"]
  /\ sigs = [t \in Threads |-> 0]
  /\ caught = {}
  /\ misled = FALSE

me == currentRunningThread
At(l) == InBody /\ at[me] = l
Goes(l) == at' = [at EXCEPT ![me] = l]

\* A library call between l and m; it leaves the client's own variables alone.
Calls(l, Action, m) ==
  /\ At(l)
  /\ Action
  /\ Goes(m)
  /\ UNCHANGED <<timeVars, forked, riderVars, bldVars, reqVars>>

\* A statement of the client between two calls
Own == UNCHANGED <<kernelVars, monitorVars, timeVars, forked>>

sig(c) == t_sig(c, NoLock)

\* main starts firstThread, which has the priority of the elevator.
main ==
  /\ t_start(ElevatorLevel)
  /\ at' = [at EXCEPT ![1] = "forks"]
  /\ UNCHANGED <<monitorVars, timeVars, forked, riderVars, cabVars, bldVars, reqVars>>

\* firstThread forks the elevator and goes through its script.
firstThread ==
  LET next == program.script[forked]
  IN  /\ At("forks")
      /\ \/ /\ forked = 0
            /\ t_fork(ElevatorLevel)
            /\ at' = [at EXCEPT ![gThreadID'] = "starts"]
            /\ UNCHANGED <<start, end>>
         \/ /\ forked \in 1 .. Len(program.script) /\ next # Yields
            /\ t_fork(next.priority)
            /\ at' = [at EXCEPT ![gThreadID'] = "calls"]
            /\ start' = [start EXCEPT ![gThreadID'] = next.start]
            /\ end' = [end EXCEPT ![gThreadID'] = next.end]
         \/ /\ forked \in 1 .. Len(program.script) /\ next = Yields
            /\ t_yield
            /\ UNCHANGED <<at, start, end>>
         \/ /\ forked = Len(program.script) + 1
            /\ Goes("end")
            /\ UNCHANGED <<kernelVars, start, end>>
      /\ forked' = forked + 1
      /\ UNCHANGED <<monitorVars, timeVars, sigs, cabVars, bldVars, reqVars>>

\* the function in the control block of a thread
FuncOf(t) == IF t = 1 THEN "firstThread" ELSE IF t = 2 THEN "ElevatorThread" ELSE "rider"

\* A thread that is resumed after a tick before its call finds the function of
\* the thread that was started last.  For the elevator that may be a rider; a
\* rider finds the function of a rider, because nothing of a lower priority is
\* started before it goes on, and calls it with its own argument.
begins ==
  /\ callUserFunction
  /\ \/ /\ FuncOf(userFunction) = FuncOf(me)
        /\ UNCHANGED <<at, misled>>
     \/ /\ FuncOf(userFunction) = "rider" /\ FuncOf(me) = "ElevatorThread"
        /\ Goes("strays")
        /\ misled' = TRUE
  /\ UNCHANGED <<monitorVars, program, ticksLeft, caught, forked, riderVars, cabVars,
                 bldVars, reqVars>>

-----------------------------------------------------------------------------
(* The elevator. *)

Opposite(d) == IF d = "UP" THEN "DOWN" ELSE "UP"

\* Floor g lies in direction d of floor f.
Ahead(d, f, g) == IF d = "UP" THEN g > f ELSE g < f

\* Lets in and out so many, for the one of its branches that by names.
Opens(v) ==
  /\ visit' = v
  /\ state' = "DOOR_OPENED"
  /\ Goes(IF v.enter > 0 THEN "letsEnter" ELSE IF v.exit > 0 THEN "letsExit" ELSE "shuts")

Visit(enter, exit, d, by) == [enter |-> enter, exit |-> exit, dir |-> d, by |-> by]

\* ElevatorThread up to its first t_wait
starts ==
  /\ At("starts")
  /\ Own
  /\ state' = "STOPPED" /\ direction' = "UP" /\ currentFloor' = 1
  /\ numRiders' = 0
  /\ Goes("sleepsFirst")
  /\ UNCHANGED <<riderVars, localVars, ridersOf, numWaiters, callVars, reqVars>>

looks ==
  /\ At("looks")
  /\ Own
  /\ numSpaces' = MAX_RIDERS - numRiders
  /\ numEnter' = num[direction][currentFloor]
  /\ numExit' = numWaiters[currentFloor]
  /\ Goes("decides")
  /\ UNCHANGED <<riderVars, elvVars, slot, visit, bldVars, reqVars>>

\* The conditions of the three branches of the loop, tested in this order.
ForPresident == setOf[President] = 1 /\ ridersOf[Director] = 0 /\ ridersOf[Employee] = 0
ForDirectors == setOf[President] = 0 /\ setOf[Director] > 0 /\ ridersOf[Employee] = 0
ForEmployees == /\ setOf[President] = 0 /\ setOf[Director] = 0
                /\ numEnter > 0 \/ numExit > 0

decides ==
  /\ Own
  /\ \/ At("decides")    /\ Goes(IF ForPresident THEN "president" ELSE "decidesToo")
     \/ At("decidesToo") /\ Goes(IF ForDirectors THEN "directors" ELSE "decidesLast")
     \/ At("decidesLast") /\ Goes(IF ForEmployees THEN "employees" ELSE "rests")
  /\ slot' = 0
  /\ visit' = Visit(0, 0, direction, "others")
  /\ UNCHANGED <<riderVars, elvVars, numEnter, numExit, numSpaces, bldVars, reqVars>>

\* The president's floor is behind: turn round.  It is here: let him in, in his
\* direction.  He is inside and this is where he wants to go: let him out.
president ==
  LET f == currentFloor
      hisDir == IF Ahead("UP", f, reqEFP) THEN "UP" ELSE "DOWN"
      in  == f = reqSFP /\ reqEFP # f
      out == reqSFP = None /\ reqEFP = f
  IN  /\ At("president")
      /\ Own
      /\ \/ in  /\ direction' = hisDir /\ Opens(Visit(1, 0, hisDir, "president in"))
         \/ out /\ UNCHANGED direction /\ Opens(Visit(0, 1, direction, "president out"))
         \/ /\ ~in /\ ~out
            /\ direction' = IF reqSFP # None /\ Ahead(Opposite(direction), f, reqSFP)
                            THEN Opposite(direction) ELSE direction
            /\ Goes("rests")
            /\ UNCHANGED <<state, visit>>
      /\ UNCHANGED <<riderVars, currentFloor, numEnter, numExit, numSpaces, slot,
                     bldVars, reqVars>>

\* One round of the loop over the directors' requests: one for this floor in
\* this direction is struck off as it is admitted, and so is one for getting
\* out here.  After the last round the door opens if anybody is to pass.
directors ==
  LET in  == /\ reqSFD[slot] = currentFloor
             /\ Ahead(direction, currentFloor, reqEFD[slot])
             /\ waitingforEmpty = 0
      out == reqSFD[slot] = None /\ reqEFD[slot] = currentFloor
      v   == [visit EXCEPT !.enter = IF in THEN @ + 1 ELSE @,
                           !.exit  = IF out THEN @ + 1 ELSE @]
  IN  /\ At("directors")
      /\ Own
      /\ reqSFD' = [reqSFD EXCEPT ![slot] = IF in THEN None ELSE @]
      /\ reqEFD' = [reqEFD EXCEPT ![slot] = IF out THEN None ELSE @]
      /\ slot' = slot + 1
      /\ \/ /\ slot = 2 /\ v.enter + v.exit > 0
            /\ Opens(v)
         \/ /\ ~(slot = 2 /\ v.enter + v.exit > 0)
            /\ visit' = v
            /\ Goes(IF slot = 2 THEN "rests" ELSE "directors")
            /\ UNCHANGED state
      /\ UNCHANGED <<riderVars, direction, currentFloor, numEnter, numExit,
                     numSpaces, bldVars, reqSFP, reqEFP>>

BadFitting == numEnter

\* how many of the employees who wait may enter
Fitting == IF numEnter > numSpaces THEN numSpaces ELSE numEnter

employees ==
  LET enter == IF waitingforEmpty # 0 THEN 0 ELSE Fitting
      comes == (waitingforEmpty = 0 /\ numEnter # 0) \/ numExit # 0
  IN  /\ At("employees")
      /\ Own
      /\ \/ comes /\ Opens(Visit(enter, numExit, direction, "others"))
         \/ ~comes /\ Goes("rests") /\ UNCHANGED <<state, visit>>
      /\ UNCHANGED <<riderVars, direction, currentFloor, numEnter, numExit,
                     numSpaces, slot, bldVars, reqVars>>

\* el_letOneEnter and el_letOneExit: a signal, then a wait for the rider's.
letsEnter == /\ Calls("letsEnter", sig(going(visit.dir, currentFloor)), "boards")
             /\ UNCHANGED cabVars
letsExit  == /\ Calls("letsExit", sig(requests(currentFloor)), "alights")
             /\ UNCHANGED cabVars

\* where el_visitFloor goes on, with so many still to enter and to exit
VisitGoesOn(enter, exit) ==
  IF enter > 0 THEN "letsEnter" ELSE IF exit > 0 THEN "letsExit" ELSE "shuts"

boards ==
  /\ Calls("boards", t_wait(elv_wait), VisitGoesOn(visit.enter - 1, visit.exit))
  /\ visit' = [visit EXCEPT !.enter = @ - 1]
  /\ UNCHANGED <<elvVars, numEnter, numExit, numSpaces, slot>>

alights ==
  /\ Calls("alights", t_wait(elv_wait), VisitGoesOn(0, visit.exit - 1))
  /\ visit' = [visit EXCEPT !.exit = @ - 1]
  /\ UNCHANGED <<elvVars, numEnter, numExit, numSpaces, slot>>

\* The door closes.  (The floor the president wants to go to is not the one he
\* entered on, so the test for letting him out fails here.)
shuts ==
  /\ At("shuts")
  /\ Own
  /\ reqSFP' = IF visit.by = "president in" THEN None ELSE reqSFP
  /\ reqEFP' = IF visit.by = "president out" THEN None ELSE reqEFP
  /\ state' = "DOOR_CLOSED"
  /\ Goes("rests")
  /\ UNCHANGED <<riderVars, direction, currentFloor, localVars, bldVars, reqSFD, reqEFD>>

rests ==
  /\ At("rests")
  /\ Own
  /\ Goes(IF numRiders = 0 /\ bldWaiters = 0 THEN "stops" ELSE "moves")
  /\ UNCHANGED <<riderVars, cabVars, bldVars, reqVars>>

stops ==
  /\ At("stops")
  /\ Own
  /\ state' = "STOPPED"
  /\ Goes("sleeps")
  /\ UNCHANGED <<riderVars, direction, currentFloor, localVars, bldVars, reqVars>>

sleeps ==
  /\ \/ Calls("sleeps", t_wait(elv_wait), "moves")
     \/ Calls("sleepsFirst", t_wait(elv_wait), "looks")
  /\ UNCHANGED cabVars

\* (The functions that move it refuse to when the door is open, which shuts has closed.)
moves ==
  /\ At("moves")
  /\ Own
  /\ \/ /\ bldWaiters # 0 \/ numRiders # 0
        /\ currentFloor' = IF direction = "UP" THEN currentFloor + 1 ELSE currentFloor - 1
        /\ Goes("yield1")
     \/ /\ bldWaiters = 0 /\ numRiders = 0
        /\ Goes("looks")
        /\ UNCHANGED currentFloor
  /\ UNCHANGED <<riderVars, state, direction, localVars, bldVars, reqVars>>

Yielding(l, m) == Calls(l, t_yield, m) /\ UNCHANGED <<monitorVars, cabVars>>

yields == Yielding("yield1", "yield2") \/ Yielding("yield2", "yield3")
            \/ Yielding("yield3", "arrives")

BadLastFloor == MAX_FLOORS - 1

\* currentFloor is past the top when el_moveOneFloorUp has gone too far.
LastFloor == MAX_FLOORS

\* At the ends the elevator turns round.
arrives ==
  /\ At("arrives")
  /\ Own
  /\ \/ /\ direction = "UP" /\ currentFloor = LastFloor
        /\ currentFloor' = currentFloor - 1
        /\ direction' = "DOWN"
     \/ /\ direction = "DOWN" /\ currentFloor = 1
        /\ direction' = "UP"
        /\ UNCHANGED currentFloor
     \/ /\ ~(direction = "UP" /\ currentFloor = LastFloor)
        /\ ~(direction = "DOWN" /\ currentFloor = 1)
        /\ UNCHANGED <<direction, currentFloor>>
  /\ Goes("looks")
  /\ UNCHANGED <<riderVars, state, localVars, bldVars, reqVars>>

elevatorStep ==
  \/ starts \/ looks \/ decides \/ president \/ directors \/ employees \/ letsEnter \/ letsExit \/ boards \/ alights
  \/ shuts \/ rests \/ stops \/ sleeps \/ moves \/ yields \/ arrives

-----------------------------------------------------------------------------
(* The riders. *)

Towards(t) == IF start[t] < end[t] THEN "UP" ELSE "DOWN"
MyDir == Towards(me)

BadMyPriority == priority[gThreadID]

\* t_priority()
MyPriority == priority[me]

\* A statement of a rider between l and m
Does(l, m) == At(l) /\ Own /\ Goes(m) /\ UNCHANGED <<start, end, cabVars>>

calls == /\ Does("calls", IF state = "STOPPED" THEN "hails" ELSE "queues")
         /\ UNCHANGED <<sigs, bldVars, reqVars>>

hails == Calls("hails", sig(elv_wait), "queues") /\ UNCHANGED cabVars

queues ==
  /\ Does("queues", "adds")
  /\ num' = [num EXCEPT ![MyDir][start[me]] = @ + 1]
  /\ UNCHANGED <<sigs, rideVars, bldWaiters, setOf, waitingforEmpty, reqVars>>

adds ==
  /\ Does("adds", "asks")
  /\ bldWaiters' = bldWaiters + 1
  /\ UNCHANGED <<sigs, rideVars, num, setOf, waitingforEmpty, reqVars>>

BadMustWait == FALSE

\* The president waits until nobody else is inside, a director until no
\* employee is.
MustWait == \E p \in Employee .. MyPriority - 1 : ridersOf[p] # 0

asks ==
  /\ \/ /\ Does("asks", "awaits")
        /\ MustWait
        /\ waitingforEmpty' = waitingforEmpty + 1
     \/ /\ Does("asks", "files1")
        /\ ~MustWait
        /\ UNCHANGED waitingforEmpty
  /\ UNCHANGED <<sigs, rideVars, num, bldWaiters, setOf, reqVars>>

awaits == Calls("awaits", t_wait(emptyElevator), "wakes") /\ UNCHANGED cabVars

wakes ==
  /\ Does("wakes", "files1")
  /\ waitingforEmpty' = waitingforEmpty - 1
  /\ UNCHANGED <<sigs, rideVars, num, bldWaiters, setOf, reqVars>>

\* The president announces himself and then says where he goes; a director
\* does it the other way round, in the entry that setDirectors points to.
\* What an employee writes nobody reads (and up to ten of them write inside their
\* arrays).
files1 ==
  /\ Does("files1", "files2")
  /\ setOf' = [setOf EXCEPT ![President] = IF MyPriority = President THEN @ + 1 ELSE @]
  /\ \/ /\ MyPriority = Director
        /\ reqSFD' = [reqSFD EXCEPT ![setOf[Director]] = start[me]]
        /\ reqEFD' = [reqEFD EXCEPT ![setOf[Director]] = end[me]]
     \/ /\ MyPriority # Director
        /\ UNCHANGED <<reqSFD, reqEFD>>
  /\ UNCHANGED <<sigs, rideVars, num, bldWaiters, waitingforEmpty, reqSFP, reqEFP>>

files2 ==
  /\ Does("files2", "attends")
  /\ \/ /\ MyPriority = President
        /\ reqSFP' = start[me] /\ reqEFP' = end[me]
        /\ UNCHANGED setOf
     \/ /\ MyPriority # President
        /\ setOf' = [setOf EXCEPT ![MyPriority] = @ + 1]
        /\ UNCHANGED <<reqSFP, reqEFP>>
  /\ UNCHANGED <<sigs, rideVars, num, bldWaiters, waitingforEmpty, reqSFD, reqEFD>>

attends == Calls("attends", t_wait(going(MyDir, start[me])), "enters") /\ UNCHANGED cabVars

\* The end of the call, elevatorEnter, and elevatorRequestFloor up to its t_wait
enters ==
  /\ At("enters")
  /\ num' = [num EXCEPT ![MyDir][start[me]] = @ - 1]
  /\ numRiders' = numRiders + 1
  /\ ridersOf' = [ridersOf EXCEPT ![MyPriority] = @ + 1]
  /\ bldWaiters' = bldWaiters - 1
  /\ numWaiters' = [numWaiters EXCEPT ![end[me]] = @ + 1]
  /\ sig(elv_wait)
  /\ Goes("rides")
  /\ UNCHANGED <<timeVars, forked, riderVars, cabVars, setOf, waitingforEmpty, reqVars>>

rides == Calls("rides", t_wait(requests(end[me])), "exits") /\ UNCHANGED cabVars

\* With this rider out neither an employee nor a director is inside.
LeavesEmpty ==
  \A p \in {Employee, Director} : ridersOf[p] = IF p = MyPriority THEN 1 ELSE 0

\* elevatorExit up to its first t_sig
exits ==
  /\ Does("exits", IF LeavesEmpty THEN "announces" ELSE "signals")
  /\ numWaiters' = [numWaiters EXCEPT ![currentFloor] = @ - 1]
  /\ numRiders' = numRiders - 1
  /\ ridersOf' = [ridersOf EXCEPT ![MyPriority] = @ - 1]
  /\ setOf' = [setOf EXCEPT ![MyPriority] = @ - 1]
  /\ reqSFP' = IF MyPriority = President THEN None ELSE reqSFP
  /\ reqEFP' = IF MyPriority = President THEN None ELSE reqEFP
  /\ sigs' = [sigs EXCEPT ![me] = IF LeavesEmpty THEN 5 ELSE 0]
  /\ UNCHANGED <<num, bldWaiters, waitingforEmpty, reqSFD, reqEFD>>

announces ==
  /\ At("announces")
  /\ sig(emptyElevator)
  /\ sigs' = [sigs EXCEPT ![me] = @ - 1]
  /\ Goes(IF sigs[me] > 1 THEN "announces" ELSE "signals")
  /\ UNCHANGED <<timeVars, forked, start, end, cabVars, bldVars, reqVars>>

signals == Calls("signals", sig(elv_wait), "quits") /\ UNCHANGED cabVars

quits == Calls("quits", t_exit, "quits") /\ UNCHANGED <<monitorVars, cabVars>>

\* rider(NULL) for a thread of priority 5: from floor 0 to floor 0, so that it
\* calls no elevator and counts as a rider of no rank.  Nobody stops at floor 0.
stray ==
  \/ /\ Does("strays", "miscounts")
     /\ numRiders' = numRiders + 1
     /\ UNCHANGED <<sigs, ridersOf, numWaiters, callVars, reqVars>>
  \/ /\ Does("miscounts", "presses")
     /\ bldWaiters' = bldWaiters - 1
     /\ UNCHANGED <<sigs, rideVars, num, setOf, waitingforEmpty, reqVars>>
  \/ /\ Does("presses", "beckons")
     /\ numWaiters' = [numWaiters EXCEPT ![0] = @ + 1]
     /\ UNCHANGED <<sigs, numRiders, ridersOf, callVars, reqVars>>
  \/ Calls("beckons", sig(elv_wait), "strands") /\ UNCHANGED cabVars
  \/ Calls("strands", t_wait(requests(0)), "lost") /\ UNCHANGED cabVars

riderStep ==
  \/ calls \/ hails \/ queues \/ adds \/ asks \/ awaits \/ wakes \/ files1 \/ files2
  \/ attends \/ enters \/ rides \/ exits \/ announces \/ signals \/ quits

-----------------------------------------------------------------------------

\* The thread system at work.
Kernel(Action) ==
  /\ Action
  /\ UNCHANGED <<monitorVars, timeVars, forked, at, riderVars, cabVars, bldVars, reqVars>>

returns == At("end") /\ Kernel(userFunctionReturns)

systemStep == \/ Kernel(schedulerStep) \/ Kernel(resume) \/ Kernel(epilogueStep)
              \/ Kernel(wakesInWait)

tick ==
  /\ ticksLeft > 0
  /\ timerHandler
  /\ ticksLeft' = ticksLeft - 1
  /\ caught' = caught \cup {at[me]}
  /\ UNCHANGED <<monitorVars, program, misled, forked, at, riderVars, cabVars, bldVars,
                 reqVars>>

ElevatorNext ==
  \/ main \/ begins \/ firstThread \/ returns \/ elevatorStep \/ riderStep \/ stray
  \/ systemStep \/ tick \/ Kernel(halted)

\* All of this is code the processor goes on executing.
ElevatorSpec ==
  /\ ElevatorInit
  /\ [][ElevatorNext]_elevatorVars
  /\ WF_elevatorVars(main \/ begins \/ firstThread \/ returns \/ elevatorStep
                       \/ riderStep \/ stray \/ systemStep)

-----------------------------------------------------------------------------
(* Properties. *)

\* Types.  The count of those who wait may be negative when the elevator runs the
\* function of a rider.
ElevatorTypeOK ==
  /\ TypeOK
  /\ MonitorsTyped
  /\ program \in Programs
  /\ ticksLeft \in 0 .. program.ticks
  /\ forked \in 0 .. Len(program.script) + 2
  /\ at \in [Threads -> Labels] /\ caught \subseteq Labels /\ misled \in BOOLEAN
  /\ start \in [Threads -> Floors] /\ end \in [Threads -> Floors]
  /\ state \in {"STOPPED", "MOVING", "DOOR_OPENED", "DOOR_CLOSED"}
  /\ direction \in Dirs
  /\ currentFloor \in 0 .. MAX_FLOORS
  /\ numRiders \in Nat
  /\ ridersOf \in [Employee .. President -> Nat]
  /\ numWaiters \in [Floors -> Nat]
  /\ num \in [Dirs -> [Floors -> Nat]]
  /\ bldWaiters \in Int /\ waitingforEmpty \in Nat
  /\ setOf \in [Employee .. President -> Nat]
  /\ reqSFP \in Floors \cup {None} /\ reqEFP \in Floors \cup {None}
  /\ reqSFD \in [0 .. 2 -> Floors \cup {None}]
  /\ reqEFD \in [0 .. 2 -> Floors \cup {None}]
  /\ numEnter \in Nat /\ numExit \in Nat /\ numSpaces \in Int
  /\ slot \in 0 .. 3
  /\ visit.enter \in Int /\ visit.exit \in Int /\ visit.dir \in Dirs
  /\ sigs \in [Threads -> 0 .. 5]

Riders == {t \in Threads : Born(t) /\ priority[t] # ElevatorLevel}
Inside == {t \in Riders : at[t] \in {"rides", "exits"}}

\* The counters the elevator goes by are what they should be: how many riders
\* are inside, of each kind and for each floor, and how many wait outside.  They are
\* not once the elevator ran the function of a rider.
RidersCounted ==
  LET Outside == {t \in Riders : at[t] \in {"adds", "asks", "awaits", "wakes", "files1",
                                            "files2", "attends", "enters"}}
  IN  ~misled =>
      /\ numRiders = Cardinality(Inside)
      /\ \A p \in Employee .. President :
           ridersOf[p] = Cardinality({t \in Inside : priority[t] = p})
      /\ \A f \in Floors : numWaiters[f] = Cardinality({t \in Inside : end[t] = f})
      /\ bldWaiters = Cardinality({t \in Outside : at[t] # "adds"})
      /\ \A d \in Dirs : \A f \in Floors :
           num[d][f] = Cardinality({t \in Outside : start[t] = f /\ Towards(t) = d})

\* A rider gets in and out through an open door, at the floors of his choice.
RightFloor ==
  \A t \in Riders :
    /\ at[t] = "enters" /\ OnProcessor(t) => state = "DOOR_OPENED" /\ currentFloor = start[t]
    /\ at[t] = "exits"  /\ OnProcessor(t) => state = "DOOR_OPENED" /\ currentFloor = end[t]

\* the labels of the elevator between its look at who waits and its signal
Stale == {"directors", "employees", "letsEnter"}

\* There are places for everybody inside.  When a slice ends at one of the labels
\* above, directors come in on the signals for employees, and later the employees
\* on those for the directors, whose requests are still there.
Capacity == caught \cap Stale = {} => numRiders <= MAX_RIDERS

\* "only the President would be picked up", and "normal riders would keep
\* waiting" for directors: they never share the elevator.  What the elevator
\* decided it does not look at again: a slice that ends before its signal lets
\* somebody more important come in with the others.
RankRespected ==
  caught \cap Stale = {} =>
    \A p, q \in Employee .. President : ridersOf[p] > 0 /\ ridersOf[q] > 0 => p = q

\* Every rider has come to the floor of his choice and the program has ended,
\* with the elevator waiting for more.
Arrived == /\ cpu = "returned"
           /\ forked > Len(program.script)
           /\ \A t \in Riders : pc[t] = "done"

\* the labels of the elevator before a t_wait that a signal may come too early for
TooEarly == {"starts", "sleepsFirst", "stops", "sleeps", "boards", "alights"}

\* Every rider arrives, unless a slice ends where the elevator is at one of those
\* labels or at one of Stale.  (One that ends before it begins, and may mislead it,
\* ends at "starts".)
EveryoneArrives == <>(Arrived \/ caught \cap (TooEarly \cup Stale) # {})
=============================================================================
