--------------------------- MODULE ElevatorProofs ---------------------------
(***************************************************************************)
(* The elevator programs count their riders, let them in and out where     *)
(* they want to, carry one rank at a time and no more than there is room   *)
(* for: for every firstThread that forks at most one president and three   *)
(* directors, and, but for the last two, whenever slices end.              *)
(*                                                                         *)
(* No lock is involved.  The argument is that riders outrank the elevator: *)
(* one who was signalled has got in or out before the elevator runs again  *)
(* (QuietInv), so that what the elevator does on its own, above all to the *)
(* door and the floor, happens while nobody is in the doorway.  The second *)
(* half refines this: while the elevator runs all riders stand (MoveInv),  *)
(* so that what it has counted is still so when it signals (RankInv),      *)
(* unless its slice ends in between.                                       *)
(*                                                                         *)
(* All of this is so as long as the elevator has not begun with a rider's  *)
(* function (the history variable misled); after that the counters do not  *)
(* tell who is inside.                                                     *)
(***************************************************************************)
EXTENDS Elevator, MonitorProofs

\* the labels of each of the three functions
FirstLabels == {"forks", "end"}
TourLabels  == {"looks", "decides", "decidesToo", "decidesLast", "president", "directors",
                "employees", "letsEnter", "boards", "letsExit", "alights", "shuts",
                "rests", "stops", "sleeps", "moves"}
MoveLabels  == {"yield1", "yield2", "yield3", "arrives"}
ElevatorLabels == {"starts", "sleepsFirst"} \cup TourLabels \cup MoveLabels
\* ... and of a rider, before and after all of his request is there
EarlyLabels == {"calls", "hails", "queues", "adds", "asks", "awaits", "wakes", "files1",
                "files2"}
LateLabels  == {"attends", "enters", "rides", "exits", "announces", "signals", "quits"}
RiderLabels == EarlyLabels \cup LateLabels

\* the labels of el_visitFloor
OpenLabels == {"letsEnter", "boards", "letsExit", "alights", "shuts"}

IsRider(t) == Born(t) /\ t > 2
IsPresident(t) == IsRider(t) /\ priority[t] = President

-----------------------------------------------------------------------------
(* The invariant, in parts. *)

TypedInv ==
  /\ program \in Programs
  /\ forked \in 0 .. Len(program.script) + 2
  /\ at \in [Threads -> Labels]
  /\ start \in [Threads -> Floors] /\ end \in [Threads -> Floors]

\* Who t is, and where he can be.
Placed(t) ==
  /\ ~Born(t) => at[t] = "end"
  /\ Born(t) /\ t = 1 => at[t] \in FirstLabels /\ priority[t] = ElevatorLevel
  /\ Born(t) /\ t = 2 => at[t] \in ElevatorLabels /\ priority[t] = ElevatorLevel
  /\ IsRider(t) => /\ at[t] \in RiderLabels
                   /\ priority[t] \in Employee .. President
                   /\ start[t] \in Stops /\ end[t] \in Stops
                   /\ pc[t] = "body" \/ (pc[t] = "done" /\ at[t] = "quits")

\* The script has one president.
OnePresident ==
  /\ \A t \in Threads : IsPresident(t) =>
       \E i \in Who(program.script, President) : i < forked
  /\ \A t, u \in Threads : IsPresident(t) /\ IsPresident(u) => t = u

WhoInv ==
  /\ NobodyYet
  /\ forked = 0 => gThreadID <= 1
  /\ forked > 0 => gThreadID >= 2
  /\ \A t \in Threads : Placed(t)
  /\ OnePresident

\* Who waits for what.
WaitsInv ==
  \A t \in Threads : \A c \in Conds : Waits(t, c) =>
    \/ c = elv_wait /\ t = 2
    \/ c = emptyElevator /\ at[t] = "wakes"
    \/ c = going(Towards(t), start[t]) /\ at[t] = "enters"
    \/ c = requests(end[t]) /\ at[t] = "exits"

\* t has been let in, or out, and has not yet moved.
Comes(t)  == at[t] = "enters" /\ ~Waits(t, going(Towards(t), start[t]))
Leaves(t) == at[t] = "exits" /\ ~Waits(t, requests(end[t]))
InDoor(t) == Comes(t) \/ Leaves(t)

\* Nobody is in the doorway while the elevator does anything but wait for him.
QuietInv ==
  OnProcessor(2) /\ at[2] \notin {"boards", "alights"} => \A t \in Threads : ~InDoor(t)

\* The door is open during a visit, and the elevator at the right floor.
DoorInv ==
  /\ at[2] \in OpenLabels => state = "DOOR_OPENED"
  /\ \A t \in Threads : Comes(t) => state = "DOOR_OPENED" /\ currentFloor = start[t]
  /\ \A t \in Threads : Leaves(t) => state = "DOOR_OPENED" /\ currentFloor = end[t]

\* Nobody has got in before the elevator starts.
StartInv ==
  at[2] \in {"end", "starts"} =>
    \A t \in Threads : at[t] \notin {"rides", "exits"} /\ ~Comes(t)

\* The elevator stays in the building: it is not on its way down at the bottom, and
\* one floor too high only on its way up.
CabInv ==
  /\ direction \in Dirs
  /\ numEnter \in Nat /\ numExit \in Nat /\ numSpaces \in Int
  /\ visit \in [enter : Int, exit : Int, dir : Dirs,
                by : {"others", "president in", "president out"}]
  /\ at[2] \in TourLabels => currentFloor \in Stops /\ (direction = "DOWN" => currentFloor # 1)
  /\ at[2] = "sleepsFirst" => currentFloor = 1 /\ direction = "UP"
  /\ at[2] \in MoveLabels => /\ currentFloor \in 1 .. MAX_FLOORS
                             /\ direction = "DOWN" => currentFloor # MAX_FLOORS

\* The president has made his request, or had.
PresidentFiled == \E t \in Threads : IsPresident(t) /\ at[t] \in LateLabels

\* His request is one for two floors, until he is inside.
RequestInv ==
  /\ reqSFP \in Stops \cup {None} /\ reqEFP \in Stops \cup {None}
  /\ reqSFP # None => reqEFP # None
  /\ reqEFP # None => PresidentFiled
  /\ at[2] \in {"president", "directors"} => visit.by = "others"
  /\ at[2] \in OpenLabels /\ visit.by = "president out" => reqSFP = None /\ PresidentFiled

\* The threads of K at labels of A
Among(K, A, a) == {t \in K : a[t] \in A}
HowMany(K, A, a) == Cardinality(Among(K, A, a))

OfRank(p)    == {t \in Threads : priority[t] = p}
GoesTo(f)    == {t \in Threads : end[t] = f}
CallsFrom(d, f) == {t \in Threads : start[t] = f /\ Towards(t) = d}

InsideLabels  == {"rides", "exits"}
OutsideLabels == {"adds", "asks", "awaits", "wakes", "files1", "files2", "attends", "enters"}
\* The president counts himself before he files his request, the others after.
SetLabels(p) == InsideLabels \cup {"attends", "enters"}
                  \cup IF p = President THEN {"files2"} ELSE {}

CountInv ==
  /\ numRiders = HowMany(Threads, InsideLabels, at)
  /\ bldWaiters = HowMany(Threads, OutsideLabels \ {"adds"}, at)
  /\ waitingforEmpty = HowMany(Threads, {"awaits", "wakes"}, at)
  /\ ridersOf \in [Employee .. President -> Int]
  /\ \A p \in Employee .. President : ridersOf[p] = HowMany(OfRank(p), InsideLabels, at)
  /\ setOf \in [Employee .. President -> Int]
  /\ \A p \in Employee .. President : setOf[p] = HowMany(OfRank(p), SetLabels(p), at)
  /\ numWaiters \in [Floors -> Int]
  /\ \A f \in Floors : numWaiters[f] = HowMany(GoesTo(f), InsideLabels, at)
  /\ num \in [Dirs -> [Floors -> Int]]
  /\ \A d \in Dirs : \A f \in Floors : num[d][f] = HowMany(CallsFrom(d, f), OutsideLabels, at)

\* The inductive invariant.
ElevatorInv ==
  /\ MonInv /\ ReadyInv
  /\ TypedInv /\ WhoInv /\ WaitsInv
  /\ QuietInv /\ DoorInv /\ StartInv /\ CabInv /\ RequestInv
  /\ CountInv

-----------------------------------------------------------------------------
(* How many threads are at certain labels.                                 *)

\* What going from label x to label y adds to the number of those at labels of A
Delta(A, x, y) == (IF y \in A THEN 1 ELSE 0) - (IF x \in A THEN 1 ELSE 0)

\* A set of threads has one fewer without one of them, and one more with another.
LEMMA OneMore ==
  ASSUME NEW S \in SUBSET Threads, NEW t \in Threads
  PROVE  /\ Cardinality(S) \in Nat
         /\ t \in S => Cardinality(S \ {t}) = Cardinality(S) - 1
         /\ t \notin S => Cardinality(S \cup {t}) = Cardinality(S) + 1
  <1>1. IsFiniteSet(Threads)
    BY KernelAssumption, FS_Interval DEF Threads
  <1>2. IsFiniteSet(S)
    BY <1>1, FS_Subset
  <1> QED
    BY <1>2, FS_CardinalityType, FS_RemoveElement, FS_AddElement

\* One thread goes from a label to another.
LEMMA CountOne ==
  ASSUME TypedInv, NEW t \in Threads, NEW l, at' = [at EXCEPT ![t] = l],
         NEW K \in SUBSET Threads, NEW A
  PROVE  /\ HowMany(K, A, at) \in Nat
         /\ t \in K => HowMany(K, A, at') = HowMany(K, A, at) + Delta(A, at[t], l)
         /\ t \notin K => HowMany(K, A, at') = HowMany(K, A, at)
  <1>1. PICK S \in SUBSET Threads, T \in SUBSET Threads :
          S = Among(K, A, at) /\ T = Among(K, A, at')
    BY DEF Among
  <1>2. \A u \in Threads : at'[u] = IF u = t THEN l ELSE at[u]
    BY DEF TypedInv
  <1>3. \A u \in Threads : /\ u \in S <=> u \in K /\ at[u] \in A
                           /\ u # t => (u \in T <=> u \in S)
                           /\ t \in T <=> t \in K /\ l \in A
    BY <1>1, <1>2 DEF Among
  <1>4. HowMany(K, A, at) = Cardinality(S) /\ HowMany(K, A, at') = Cardinality(T)
    BY <1>1 DEF HowMany
  <1>5. /\ Cardinality(S) \in Nat
        /\ t \in S => Cardinality(S \ {t}) = Cardinality(S) - 1
        /\ t \notin S => Cardinality(S \cup {t}) = Cardinality(S) + 1
    BY OneMore
  <1>6. CASE t \in S /\ t \notin T
    <2>1. T = S \ {t} /\ t \in K /\ at[t] \in A /\ l \notin A
      BY <1>3, <1>6
    <2>2. Delta(A, at[t], l) = -1
      BY <2>1 DEF Delta
    <2> QED
      BY <1>4, <1>5, <1>6, <2>1, <2>2
  <1>7. CASE t \notin S /\ t \in T
    <2>1. T = S \cup {t} /\ t \in K /\ at[t] \notin A /\ l \in A
      BY <1>3, <1>7
    <2>2. Delta(A, at[t], l) = 1
      BY <2>1 DEF Delta
    <2> QED
      BY <1>4, <1>5, <1>7, <2>1, <2>2
  <1>8. CASE t \in S <=> t \in T
    <2>1. T = S
      BY <1>3, <1>8
    <2>2. t \in K => (at[t] \in A <=> l \in A)
      BY <1>3, <1>8
    <2>3. t \in K => Delta(A, at[t], l) = 0
      BY <2>2 DEF Delta
    <2> QED
      BY <1>4, <1>5, <2>1, <2>3
  <1> QED
    BY <1>6, <1>7, <1>8

\* The counters of the program follow t to label l.
CountsFollow(t, l) ==
  LET changes(A)   == Delta(A, at[t], l)
  IN  /\ numRiders' = numRiders + changes(InsideLabels)
      /\ bldWaiters' = bldWaiters + changes(OutsideLabels \ {"adds"})
      /\ waitingforEmpty' = waitingforEmpty + changes({"awaits", "wakes"})
      /\ ridersOf' \in [Employee .. President -> Int]
      /\ \A p \in Employee .. President :
           ridersOf'[p] = IF priority[t] = p THEN ridersOf[p] + changes(InsideLabels)
                                             ELSE ridersOf[p]
      /\ setOf' \in [Employee .. President -> Int]
      /\ \A p \in Employee .. President :
           setOf'[p] = IF priority[t] = p THEN setOf[p] + changes(SetLabels(p)) ELSE setOf[p]
      /\ numWaiters' \in [Floors -> Int]
      /\ \A f \in Floors :
           numWaiters'[f] = IF end[t] = f THEN numWaiters[f] + changes(InsideLabels)
                                          ELSE numWaiters[f]
      /\ num' \in [Dirs -> [Floors -> Int]]
      /\ \A d \in Dirs : \A f \in Floors :
           num'[d][f] = IF start[t] = f /\ Towards(t) = d
                        THEN num[d][f] + changes(OutsideLabels) ELSE num[d][f]

\* If one thread goes to another label and every counter follows it, the counters
\* are still right.
LEMMA CountersMove ==
  ASSUME TypedInv, CountInv, NEW t \in Threads, NEW l, at' = [at EXCEPT ![t] = l],
         UNCHANGED <<priority, start, end>>, CountsFollow(t, l)
  PROVE  CountInv'
  <1>1. ASSUME NEW K \in SUBSET Threads, NEW A
        PROVE  /\ t \in K => HowMany(K, A, at') = HowMany(K, A, at) + Delta(A, at[t], l)
               /\ t \notin K => HowMany(K, A, at') = HowMany(K, A, at)
    BY CountOne
  <1>2. /\ numRiders' = HowMany(Threads, InsideLabels, at')
        /\ bldWaiters' = HowMany(Threads, OutsideLabels \ {"adds"}, at')
        /\ waitingforEmpty' = HowMany(Threads, {"awaits", "wakes"}, at')
    BY <1>1 DEF CountInv, CountsFollow
  <1>3. ASSUME NEW p \in Employee .. President
        PROVE  /\ ridersOf'[p] = HowMany(OfRank(p)', InsideLabels, at')
               /\ setOf'[p] = HowMany(OfRank(p)', SetLabels(p), at')
    <2>1. PICK K \in SUBSET Threads : K = OfRank(p)
      BY DEF OfRank
    <2>2. OfRank(p)' = K /\ (t \in K <=> priority[t] = p)
      BY <2>1 DEF OfRank
    <2>3. /\ ridersOf[p] = HowMany(K, InsideLabels, at)
          /\ setOf[p] = HowMany(K, SetLabels(p), at)
      BY <2>1 DEF CountInv
    <2>4. /\ ridersOf'[p] = IF t \in K THEN ridersOf[p] + Delta(InsideLabels, at[t], l)
                                        ELSE ridersOf[p]
          /\ setOf'[p] = IF t \in K THEN setOf[p] + Delta(SetLabels(p), at[t], l)
                                     ELSE setOf[p]
      BY <2>2 DEF CountsFollow
    <2>5. /\ ridersOf'[p] = HowMany(K, InsideLabels, at')
          /\ setOf'[p] = HowMany(K, SetLabels(p), at')
      BY <1>1, <2>3, <2>4
    <2> QED
      BY <2>2, <2>5
  <1>4. ASSUME NEW f \in Floors
        PROVE  numWaiters'[f] = HowMany(GoesTo(f)', InsideLabels, at')
    <2>1. PICK K \in SUBSET Threads : K = GoesTo(f)
      BY DEF GoesTo
    <2>2. GoesTo(f)' = K /\ (t \in K <=> end[t] = f)
      BY <2>1 DEF GoesTo
    <2>3. numWaiters[f] = HowMany(K, InsideLabels, at)
      BY <2>1 DEF CountInv
    <2>4. numWaiters'[f] = IF t \in K THEN numWaiters[f] + Delta(InsideLabels, at[t], l)
                                      ELSE numWaiters[f]
      BY <2>2 DEF CountsFollow
    <2>5. numWaiters'[f] = HowMany(K, InsideLabels, at')
      BY <1>1, <2>3, <2>4
    <2> QED
      BY <2>2, <2>5
  <1>5. ASSUME NEW d \in Dirs, NEW f \in Floors
        PROVE  num'[d][f] = HowMany(CallsFrom(d, f)', OutsideLabels, at')
    <2>1. PICK K \in SUBSET Threads : K = CallsFrom(d, f)
      BY DEF CallsFrom
    <2>2. CallsFrom(d, f)' = K /\ (t \in K <=> start[t] = f /\ Towards(t) = d)
      BY <2>1 DEF CallsFrom, Towards
    <2>3. num[d][f] = HowMany(K, OutsideLabels, at)
      BY <2>1 DEF CountInv
    <2>4. num'[d][f] = IF t \in K THEN num[d][f] + Delta(OutsideLabels, at[t], l)
                                  ELSE num[d][f]
      BY <2>2 DEF CountsFollow
    <2>5. num'[d][f] = HowMany(K, OutsideLabels, at')
      BY <1>1, <2>3, <2>4
    <2> QED
      BY <2>2, <2>5
  <1>6. /\ ridersOf' \in [Employee .. President -> Int]
        /\ setOf' \in [Employee .. President -> Int]
        /\ numWaiters' \in [Floors -> Int]
        /\ num' \in [Dirs -> [Floors -> Int]]
    BY DEF CountsFollow
  <1> QED
    BY <1>2, <1>3, <1>4, <1>5, <1>6
    DEF CountInv, HowMany, Among, OfRank, GoesTo, CallsFrom

\* A step after which the threads are at labels that count like those before.
LEMMA CountersStay ==
  ASSUME TypedInv, CountInv, NEW t \in Threads, NEW l, at' = [at EXCEPT ![t] = l],
         UNCHANGED <<priority, start, end, bldVars>>,
         at[t] \in InsideLabels <=> l \in InsideLabels,
         at[t] \in OutsideLabels <=> l \in OutsideLabels,
         at[t] \in OutsideLabels \ {"adds"} <=> l \in OutsideLabels \ {"adds"},
         at[t] \in {"awaits", "wakes"} <=> l \in {"awaits", "wakes"},
         at[t] \in SetLabels(priority[t]) <=> l \in SetLabels(priority[t])
  PROVE  CountInv'
  <1>1. /\ Delta(InsideLabels, at[t], l) = 0
        /\ Delta(OutsideLabels, at[t], l) = 0
        /\ Delta(OutsideLabels \ {"adds"}, at[t], l) = 0
        /\ Delta({"awaits", "wakes"}, at[t], l) = 0
        /\ Delta(SetLabels(priority[t]), at[t], l) = 0
    <2> HIDE DEF InsideLabels, OutsideLabels, SetLabels
    <2>1. ASSUME NEW A, at[t] \in A <=> l \in A PROVE Delta(A, at[t], l) = 0
      BY <2>1 DEF Delta
    <2> QED
      BY <2>1
  <1>2. /\ UNCHANGED <<numRiders, bldWaiters, waitingforEmpty, ridersOf, setOf,
                       numWaiters, num>>
        /\ numRiders \in Int /\ bldWaiters \in Int /\ waitingforEmpty \in Int
        /\ ridersOf \in [Employee .. President -> Int]
        /\ setOf \in [Employee .. President -> Int]
        /\ numWaiters \in [Floors -> Int] /\ num \in [Dirs -> [Floors -> Int]]
    <2>1. \A A : HowMany(Threads, A, at) \in Nat
      BY CountOne
    <2> QED
      BY <2>1 DEF CountInv, bldVars, rideVars, callVars
  <1>3. /\ \A p \in Employee .. President : ridersOf[p] \in Int /\ setOf[p] \in Int
        /\ \A f \in Floors : numWaiters[f] \in Int
        /\ \A d \in Dirs : \A f \in Floors : num[d][f] \in Int
    BY <1>2
  <1> HIDE DEF InsideLabels, OutsideLabels, SetLabels, Towards
  <1>4. /\ numRiders' = numRiders + Delta(InsideLabels, at[t], l)
        /\ bldWaiters' = bldWaiters + Delta(OutsideLabels \ {"adds"}, at[t], l)
        /\ waitingforEmpty' = waitingforEmpty + Delta({"awaits", "wakes"}, at[t], l)
    BY <1>1, <1>2
  <1>5. ASSUME NEW p \in Employee .. President
        PROVE  /\ ridersOf'[p] = IF priority[t] = p
                                 THEN ridersOf[p] + Delta(InsideLabels, at[t], l)
                                 ELSE ridersOf[p]
               /\ setOf'[p] = IF priority[t] = p
                              THEN setOf[p] + Delta(SetLabels(p), at[t], l) ELSE setOf[p]
    BY <1>1, <1>2, <1>3
  <1>6. ASSUME NEW f \in Floors
        PROVE  numWaiters'[f] = IF end[t] = f
                                THEN numWaiters[f] + Delta(InsideLabels, at[t], l)
                                ELSE numWaiters[f]
    BY <1>1, <1>2, <1>3
  <1>7. ASSUME NEW d \in Dirs, NEW f \in Floors
        PROVE  num'[d][f] = IF start[t] = f /\ Towards(t) = d
                            THEN num[d][f] + Delta(OutsideLabels, at[t], l) ELSE num[d][f]
    BY <1>1, <1>2, <1>3
  <1>8. CountsFollow(t, l)
    BY <1>2, <1>4, <1>5, <1>6, <1>7 DEF CountsFollow
  <1> QED
    BY <1>8, CountersMove

-----------------------------------------------------------------------------
(* Who is where. *)

\* A label says whose it is.
LEMMA Labelled ==
  ASSUME WhoInv, TypeOK, NEW t \in Threads
  PROVE  /\ at[t] \in ElevatorLabels => t = 2 /\ Born(t) /\ priority[t] = ElevatorLevel
         /\ at[t] \in RiderLabels => IsRider(t)
         /\ IsRider(t) => /\ at[t] \in RiderLabels
                          /\ priority[t] \in Employee .. President
                          /\ start[t] \in Stops /\ end[t] \in Stops
  <1>1. Placed(t)
    BY DEF WhoInv
  <1>2. t \in Nat /\ t >= 1
    BY KernelAssumption DEF Threads
  <1>3. Born(t) => t = 1 \/ t = 2 \/ IsRider(t)
    BY <1>2 DEF IsRider
  <1>4. /\ \A l \in FirstLabels : l \notin ElevatorLabels /\ l \notin RiderLabels
        /\ \A l \in ElevatorLabels : l \notin RiderLabels
        /\ "end" \in FirstLabels
    BY DEF FirstLabels, ElevatorLabels, TourLabels, MoveLabels, RiderLabels, EarlyLabels,
           LateLabels
  <1> HIDE DEF FirstLabels, ElevatorLabels, RiderLabels
  <1> QED
    BY <1>1, <1>2, <1>3, <1>4 DEF Placed, IsRider

\* Who is on the processor in a user function.
LEMMA Running ==
  ASSUME ElevatorInv, InBody
  PROVE  /\ me \in Threads /\ OnProcessor(me) /\ Born(me) /\ pc[me] = "body"
         /\ \A c \in Conds : ~Waits(me, c)
         /\ at[me] \in FirstLabels => me = 1
         /\ at[me] \in ElevatorLabels => me = 2
         /\ at[me] \in RiderLabels <=> IsRider(me)
         /\ me = 1 \/ me = 2 \/ IsRider(me)
         /\ me = 2 => at[me] \in ElevatorLabels
  <1>1. /\ me \in Threads /\ OnProcessor(me) /\ Born(me) /\ pc[me] = "body"
        /\ \A c \in Conds : ~Waits(me, c)
    BY MonCaller DEF ElevatorInv, InBody, me
  <1>2. me \in Nat /\ me >= 1
    BY <1>1, KernelAssumption DEF Threads
  <1>3. Placed(me) /\ (me = 1 \/ me = 2 \/ IsRider(me))
    BY <1>1, <1>2 DEF ElevatorInv, WhoInv, IsRider
  <1>4. \A l \in FirstLabels : l \notin ElevatorLabels /\ l \notin RiderLabels
    BY DEF FirstLabels, ElevatorLabels, TourLabels, MoveLabels, RiderLabels, EarlyLabels,
           LateLabels
  <1>5. /\ at[me] \in ElevatorLabels => me = 2
        /\ at[me] \in RiderLabels <=> IsRider(me)
    BY <1>1, Labelled DEF ElevatorInv, ReadyInv
  <1> HIDE DEF FirstLabels, ElevatorLabels, RiderLabels
  <1>6. /\ me = 2 => at[me] \in ElevatorLabels
        /\ at[me] \in FirstLabels => me = 1
    BY <1>1, <1>3, <1>4, <1>5 DEF Placed
  <1> QED
    BY <1>1, <1>3, <1>5, <1>6

\* Nobody runs a rider's function in the place of the elevator.
LEMMA NoStray == ElevatorInv => ~stray
  <1> SUFFICES ASSUME ElevatorInv, stray PROVE FALSE
    OBVIOUS
  <1>1. InBody /\ at[me] \in {"strays", "miscounts", "presses", "beckons", "strands"}
    BY DEF stray, Does, Calls, At
  <1>2. /\ me \in Threads /\ Born(me) /\ Placed(me)
        /\ me = 1 \/ me = 2 \/ IsRider(me)
    BY <1>1, Running DEF ElevatorInv, WhoInv
  <1>3. at[me] \in FirstLabels \cup ElevatorLabels \cup RiderLabels
    BY <1>2 DEF Placed
  <1> QED
    BY <1>1, <1>3
    DEF FirstLabels, ElevatorLabels, TourLabels, MoveLabels, RiderLabels, EarlyLabels,
        LateLabels

\* What all steps in a user function but a fork have in common.
Moves(l) ==
  /\ InBody /\ Goes(l)
  /\ UNCHANGED <<program, start, end, gThreadID, priority, currentRunningThread>>
  /\ cpu' # "t_start"
  /\ UNCHANGED pc \/ (l = "quits" /\ pc' = [pc EXCEPT ![me] = "done"])

SameFunction(l, m) ==
  \/ l \in FirstLabels /\ m \in FirstLabels
  \/ l \in ElevatorLabels /\ m \in ElevatorLabels
  \/ l \in RiderLabels /\ m \in RiderLabels

\* A step within its function leaves a thread in that function.
LEMMA WhoMoves ==
  ASSUME ElevatorInv, NEW l \in Labels, Moves(l), SameFunction(at[me], l),
         \/ UNCHANGED forked
         \/ forked' = forked + 1 /\ forked > 0 /\ forked < Len(program.script) + 2
  PROVE  /\ TypedInv' /\ WhoInv'
         /\ \A t \in Threads : at'[t] = IF t = me THEN l ELSE at[t]
         /\ \A t \in Threads : IsPresident(t)' <=> IsPresident(t)
  <1>1. /\ TypedInv /\ WhoInv
        /\ \A t \in Threads : at'[t] = IF t = me THEN l ELSE at[t]
    BY DEF ElevatorInv, TypedInv, Moves, Goes
  <1>2. /\ me \in Threads /\ Born(me) /\ pc[me] = "body"
        /\ at[me] \in FirstLabels => me = 1
        /\ at[me] \in ElevatorLabels => me = 2
        /\ at[me] \in RiderLabels <=> IsRider(me)
    BY Running DEF Moves
  <1>3. forked \in Nat /\ Len(program.script) \in Nat
    BY <1>1, ElevatorAssumption DEF TypedInv
  <1>4. /\ forked' \in 0 .. Len(program.script) + 2
        /\ forked' = 0 <=> forked = 0
        /\ forked' >= forked
    BY <1>1, <1>3 DEF TypedInv
  <1>5. TypedInv'
    BY <1>1, <1>4 DEF TypedInv, Moves, Goes
  <1>6. \A t \in Threads : /\ Born(t)' <=> Born(t)
                           /\ IsRider(t)' <=> IsRider(t)
                           /\ IsPresident(t)' <=> IsPresident(t)
    BY DEF Moves, Born, IsRider, IsPresident
  <1>7. ASSUME NEW t \in Threads PROVE Placed(t)'
    <2>1. /\ priority'[t] = priority[t] /\ start'[t] = start[t] /\ end'[t] = end[t]
          /\ t # me => pc'[t] = pc[t]
          /\ pc'[me] = "body" \/ (l = "quits" /\ pc'[me] = "done")
      BY <1>2 DEF Moves, ElevatorInv, MonInv, TypeOK
    <2>2. CASE t # me
      BY <1>1, <1>6, <2>1, <2>2 DEF WhoInv, Placed
    <2>3. CASE t = me
      <3>1. Placed(me)
        BY <1>1, <1>2 DEF WhoInv
      <3>2. /\ me = 1 => ~IsRider(me)
            /\ me = 2 => ~IsRider(me)
        BY DEF IsRider
      <3>3. /\ at[me] \in FirstLabels => l \in FirstLabels
            /\ at[me] \in ElevatorLabels => l \in ElevatorLabels
            /\ at[me] \in RiderLabels => l \in RiderLabels
        <4>1. /\ \A x \in FirstLabels : x \notin ElevatorLabels /\ x \notin RiderLabels
              /\ \A x \in ElevatorLabels : x \notin RiderLabels
          BY DEF FirstLabels, ElevatorLabels, TourLabels, MoveLabels, RiderLabels,
                 EarlyLabels, LateLabels
        <4> HIDE DEF FirstLabels, ElevatorLabels, RiderLabels
        <4> QED
          BY <4>1 DEF SameFunction
      <3> QED
        BY <1>1, <1>2, <1>6, <2>1, <2>3, <3>1, <3>2, <3>3 DEF Placed
    <2> QED
      BY <2>2, <2>3
  <1>8. OnePresident'
    <2>1. UNCHANGED program /\ OnePresident
      BY <1>1 DEF Moves, WhoInv
    <2>2. ASSUME NEW t \in Threads, IsPresident(t)'
          PROVE  \E i \in Who(program.script, President)' : i < forked'
      <3>1. PICK i \in Who(program.script, President) : i < forked
        BY <1>6, <2>1, <2>2 DEF OnePresident
      <3>2. i \in Int
        BY <3>1 DEF Who
      <3>3. i < forked'
        BY <1>3, <1>4, <3>1, <3>2
      <3>4. Who(program.script, President)' = Who(program.script, President)
        BY <2>1 DEF Who
      <3> QED
        BY <3>1, <3>3, <3>4
    <2>3. \A t, u \in Threads : IsPresident(t)' /\ IsPresident(u)' => t = u
      BY <1>6, <2>1 DEF OnePresident
    <2> QED
      BY <2>2, <2>3 DEF OnePresident
  <1>9. NobodyYet' /\ (forked' = 0 => gThreadID' <= 1) /\ (forked' > 0 => gThreadID' >= 2)
    BY <1>1, <1>3, <1>4 DEF WhoInv, NobodyYet, Moves
  <1> QED
    BY <1>1, <1>5, <1>6, <1>7, <1>8, <1>9 DEF WhoInv

\* The conditions a thread may be in the queue of.
LEMMA WaitsMoves ==
  ASSUME ElevatorInv, NEW l \in Labels, Moves(l),
         \A t \in Threads : \A c \in Conds : Waits(t, c)' =>
           \/ Waits(t, c)
           \/ /\ t = me
              /\ \/ c = elv_wait /\ t = 2
                 \/ c = emptyElevator /\ l = "wakes"
                 \/ c = going(Towards(t), start[t]) /\ l = "enters"
                 \/ c = requests(end[t]) /\ l = "exits"
  PROVE  WaitsInv'
  <1>1. /\ \A t \in Threads : at'[t] = IF t = me THEN l ELSE at[t]
        /\ \A c \in Conds : ~Waits(me, c)
        /\ WaitsInv
    BY Running DEF ElevatorInv, TypedInv, Moves, Goes
  <1>2. ASSUME NEW t \in Threads, NEW c \in Conds, Waits(t, c)'
        PROVE  \/ c = elv_wait /\ t = 2
               \/ c = emptyElevator /\ at'[t] = "wakes"
               \/ c = going(Towards(t)', start'[t]) /\ at'[t] = "enters"
               \/ c = requests(end'[t]) /\ at'[t] = "exits"
    <2>1. Towards(t)' = Towards(t) /\ start'[t] = start[t] /\ end'[t] = end[t]
      BY DEF Towards, Moves
    <2>2. CASE t = me
      BY <1>1, <1>2, <2>1, <2>2
    <2>3. CASE t # me
      <3>1. Waits(t, c) /\ at'[t] = at[t]
        BY <1>1, <1>2, <2>3
      <3> QED
        BY <1>1, <2>1, <3>1 DEF WaitsInv
    <2> QED
      BY <2>2, <2>3
  <1> QED
    BY <1>2 DEF WaitsInv, going, requests, elv_wait, emptyElevator

\* The conditions are distinct.
LEMMA CondsDiffer ==
  /\ \A d \in Dirs, f \in Floors :
       going(d, f) \in Conds /\ going(d, f) # elv_wait /\ going(d, f) # emptyElevator
  /\ \A f \in Floors :
       requests(f) \in Conds /\ requests(f) # elv_wait /\ requests(f) # emptyElevator
  /\ \A d \in Dirs, f, g \in Floors : going(d, f) # requests(g)
  /\ \A d, e \in Dirs, f, g \in Floors : going(d, f) = going(e, g) => d = e /\ f = g
  /\ \A f, g \in Floors : requests(f) = requests(g) => f = g
  /\ elv_wait \in Conds /\ emptyElevator \in Conds /\ elv_wait # emptyElevator
  <1>1. Conds = AllConds
    BY ElevatorAssumption
  <1>2. /\ \A d \in Dirs, f \in Floors : going(d, f) \in AllConds
        /\ \A f \in Floors : requests(f) \in AllConds
        /\ elv_wait \in AllConds /\ emptyElevator \in AllConds
    <2> HIDE DEF going, requests, elv_wait, emptyElevator, Dirs, Floors
    <2> QED
      BY DEF AllConds
  <1> QED
    BY <1>1, <1>2 DEF going, requests, elv_wait, emptyElevator, Dirs

\* What a rider waits for, in terms of his own places.
LEMMA OwnConds ==
  ASSUME TypedInv, NEW t \in Threads
  PROVE  /\ start[t] \in Floors /\ end[t] \in Floors /\ Towards(t) \in Dirs
         /\ going(Towards(t), start[t]) \in Conds
         /\ requests(end[t]) \in Conds
         /\ going(Towards(t), start[t]) \notin {elv_wait, emptyElevator}
         /\ requests(end[t]) \notin {elv_wait, emptyElevator}
  <1>1. start[t] \in Floors /\ end[t] \in Floors /\ Towards(t) \in Dirs
    BY DEF TypedInv, Towards, Dirs
  <1> QED
    BY <1>1, CondsDiffer

\* A rider moves: the elevator notices nothing.
LEMMA RiderMoves ==
  ASSUME ElevatorInv, NEW l \in RiderLabels, Moves(l), IsRider(me), UNCHANGED cabVars,
         \A t \in Threads :
           t = me => /\ l = "enters" => Waits(t, going(Towards(t), start[t]))'
                     /\ l = "exits" => Waits(t, requests(end[t]))',
         l \in InsideLabels => at[me] \in InsideLabels \cup {"enters"},
         \A t \in Threads : \A c \in Conds :
           t # me /\ c \notin {elv_wait, emptyElevator} => (Waits(t, c)' <=> Waits(t, c))
  PROVE  QuietInv' /\ DoorInv' /\ StartInv' /\ CabInv'
  <1>1. /\ \A t \in Threads : at'[t] = IF t = me THEN l ELSE at[t]
        /\ \A c \in Conds : ~Waits(me, c)
        /\ me # 2 /\ me \in Threads /\ TypedInv
        /\ QuietInv /\ DoorInv /\ StartInv /\ CabInv
    BY Running DEF ElevatorInv, TypedInv, Moves, Goes, IsRider
  <1>2. /\ UNCHANGED <<state, direction, currentFloor, visit, numEnter, numExit, numSpaces>>
        /\ UNCHANGED <<start, end, currentRunningThread>>
    BY DEF cabVars, elvVars, localVars, Moves
  <1>3. 2 \in Threads => at'[2] = at[2]
    BY <1>1
  <1>4. 2 \notin Threads => at'[2] = at[2]
    BY DEF Moves, Goes, ElevatorInv, TypedInv
  <1>5. ASSUME NEW t \in Threads
        PROVE  /\ Comes(t)' => Comes(t)
               /\ Leaves(t)' => Leaves(t)
    <2>1. /\ Towards(t)' = Towards(t) /\ start'[t] = start[t] /\ end'[t] = end[t]
          /\ going(Towards(t), start[t]) \in Conds
          /\ requests(end[t]) \in Conds
          /\ going(Towards(t), start[t]) \notin {elv_wait, emptyElevator}
          /\ requests(end[t]) \notin {elv_wait, emptyElevator}
      BY <1>1, <1>2, OwnConds DEF Towards
    <2>2. PICK c \in Conds, d \in Conds :
            /\ c = going(Towards(t), start[t]) /\ d = requests(end[t])
            /\ c \notin {elv_wait, emptyElevator} /\ d \notin {elv_wait, emptyElevator}
      BY <2>1
    <2>3. c = going(Towards(t)', start'[t]) /\ d = requests(end'[t])
      BY <2>1, <2>2
    <2>4. CASE t = me
      <3>1. /\ l = "enters" => Waits(t, c)'
            /\ l = "exits" => Waits(t, d)'
        BY <2>2, <2>3, <2>4 DEF Waits
      <3> QED
        BY <1>1, <2>3, <2>4, <3>1 DEF Comes, Leaves, Waits
    <2>5. CASE t # me
      <3>1. /\ Waits(t, c)' <=> Waits(t, c)
            /\ Waits(t, d)' <=> Waits(t, d)
            /\ at'[t] = at[t]
        BY <1>1, <2>2, <2>5
      <3> QED
        BY <2>2, <2>3, <3>1 DEF Comes, Leaves, Waits
    <2> QED
      BY <2>4, <2>5
  <1>6. QuietInv'
    BY <1>1, <1>2 DEF QuietInv, OnProcessor, me
  <1>7. DoorInv'
    BY <1>1, <1>2, <1>3, <1>4, <1>5 DEF DoorInv
  <1>8. StartInv'
    <2>1. ASSUME at[2] \in {"end", "starts"} PROVE l \notin {"rides", "exits"}
      <3>1. /\ at[me] \notin {"rides", "exits"} /\ ~Comes(me)
        BY <1>1, <2>1 DEF StartInv
      <3>2. at[me] # "enters"
        BY <1>1, <3>1, OwnConds DEF Comes
      <3> QED
        BY <3>1, <3>2 DEF InsideLabels
    <2> QED
      BY <1>1, <1>3, <1>4, <1>5, <2>1 DEF StartInv
  <1>9. CabInv'
    BY <1>1, <1>2, <1>3, <1>4 DEF CabInv
  <1> QED
    BY <1>6, <1>7, <1>8, <1>9

-----------------------------------------------------------------------------
(* What a step does to the thread system and to the queues of conditions. *)

\* A step that calls nothing leaves the thread system and all who wait as they are.
LEMMA OwnKeeps ==
  ASSUME ElevatorInv, Own
  PROVE  /\ MonInv' /\ ReadyInv'
         /\ \A t \in Threads : \A c \in Conds : Waits(t, c)' <=> Waits(t, c)
         /\ UNCHANGED <<gThreadID, priority, currentRunningThread, pc, cpu>>
  <1>1. UNCHANGED kernelVars /\ UNCHANGED monitorVars /\ MonInv /\ ReadyInv
    BY DEF Own, ElevatorInv
  <1>2. UNCHANGED joinVars
    BY <1>1 DEF kernelVars, joinVars
  <1>3. MonInv' /\ ReadyInv'
    BY <1>1, <1>2, MonKernel, ReadyStep
  <1> QED
    BY <1>1, <1>3 DEF kernelVars, monitorVars, Waits

\* t_sig ends the wait of nobody outside its condition, and begins that of nobody.
LEMMA SigKeeps ==
  ASSUME ElevatorInv, NEW c \in Conds, sig(c)
  PROVE  /\ MonInv' /\ ReadyInv'
         /\ \A t \in Threads : \A d \in Conds :
              /\ Waits(t, d)' => Waits(t, d)
              /\ d # c => (Waits(t, d)' <=> Waits(t, d))
         /\ UNCHANGED <<gThreadID, priority, currentRunningThread, pc, cpu>>
  <1>1. t_sig(c, NoLock) /\ NoLock \in Locks \cup {NoLock} /\ MonInv /\ ReadyInv
    BY DEF sig, ElevatorInv
  <1>2. /\ MonInv'
        /\ UNCHANGED <<currentRunningThread, gThreadID, context, cpu, pc>>
        /\ \/ /\ ~FindsWaiter(c)
              /\ \A t \in Threads : \A d \in Conds : Waits(t, d)' <=> Waits(t, d)
           \/ /\ FindsWaiter(c)
              /\ \A t \in Threads : \A d \in Conds :
                   Waits(t, d)' <=> Waits(t, d) /\ t # Head(waiters[c][SigLevel(c)])
    BY <1>1, MonSig
  <1>3. ReadyInv'
    BY <1>1, <1>2, ReadyMon
  <1>4. UNCHANGED priority
    BY <1>1 DEF t_sig, tcbVars
  <1>5. ASSUME NEW t \in Threads, NEW d \in Conds, d # c
        PROVE  Waits(t, d)' <=> Waits(t, d)
    <2>1. CASE ~FindsWaiter(c)
      BY <1>2, <2>1
    <2>2. CASE FindsWaiter(c)
      <3>1. PICK w \in Threads : w = Head(waiters[c][SigLevel(c)]) /\ Waits(w, c)
        BY <1>1, <2>2, SigFinds
      <3>2. ~Waits(w, d)
        BY <1>1, <1>5, <3>1 DEF MonInv, WaitersApart
      <3>3. Waits(t, d)' <=> Waits(t, d) /\ t # w
        BY <1>2, <2>2, <3>1
      <3> QED
        BY <3>2, <3>3
    <2> QED
      BY <2>1, <2>2
  <1> QED
    BY <1>2, <1>3, <1>4, <1>5

\* t_wait makes the caller one of those who wait for its condition, and stops it.
LEMMA WaitKeeps ==
  ASSUME ElevatorInv, NEW c \in Conds, t_wait(c)
  PROVE  /\ MonInv' /\ ReadyInv'
         /\ \A t \in Threads : \A d \in Conds :
              Waits(t, d)' <=> Waits(t, d) \/ (d = c /\ t = me)
         /\ UNCHANGED <<gThreadID, priority, currentRunningThread, pc>>
         /\ cpu' = "scheduler"
  <1>1. MonInv /\ ReadyInv
    BY DEF ElevatorInv
  <1>2. /\ MonInv'
        /\ \A t \in Threads : \A d \in Conds :
             Waits(t, d)' <=> Waits(t, d) \/ (d = c /\ t = currentRunningThread)
        /\ UNCHANGED <<currentRunningThread, gThreadID, pc>>
        /\ cpu' = "scheduler"
    BY <1>1, MonWait
  <1>3. ReadyInv'
    BY <1>1, <1>2, ReadyMon
  <1> QED
    BY <1>2, <1>3 DEF t_wait, tcbVars, me

\* The elevator's notes of the president's request, when they stay as they are.
LEMMA RequestsStay ==
  ASSUME ElevatorInv, NEW l \in RiderLabels, Moves(l), IsRider(me),
         UNCHANGED <<reqSFP, reqEFP, visit>>,
         at[me] \in LateLabels => l \in LateLabels
  PROVE  RequestInv'
  <1>1. /\ \A t \in Threads : at'[t] = IF t = me THEN l ELSE at[t]
        /\ me # 2 /\ me \in Threads /\ RequestInv /\ at'[2] = at[2]
    BY Running DEF ElevatorInv, TypedInv, Moves, Goes, IsRider
  <1>2. \A t \in Threads : IsPresident(t)' <=> IsPresident(t)
    BY DEF Moves, IsPresident, IsRider, Born
  <1>3. PresidentFiled => PresidentFiled'
    BY <1>1, <1>2 DEF PresidentFiled
  <1> QED
    BY <1>1, <1>3 DEF RequestInv

\* What is left to show of a step of a rider is what it does to the counters and
\* to the president's request.
LEMMA RiderKeeps ==
  ASSUME ElevatorInv, NEW l \in RiderLabels, InBody, Goes(l), at[me] \in RiderLabels,
         UNCHANGED <<program, forked, start, end, cabVars>>,
         \/ Own /\ l \notin {"enters", "exits"}
         \/ sig(elv_wait) /\ l \notin {"enters", "exits"}
         \/ sig(emptyElevator) /\ l \notin {"enters", "exits"}
         \/ t_wait(emptyElevator) /\ l = "wakes"
         \/ \E t \in Threads :
              t = me /\ t_wait(going(Towards(t), start[t])) /\ l = "enters"
         \/ \E t \in Threads : t = me /\ t_wait(requests(end[t])) /\ l = "exits",
         l \in InsideLabels => at[me] \in InsideLabels \cup {"enters"}
  PROVE  /\ Moves(l) /\ IsRider(me) /\ me \in Threads /\ TypedInv /\ CountInv
         /\ \A t \in Threads : at'[t] = IF t = me THEN l ELSE at[t]
         /\ \A t \in Threads : IsPresident(t)' <=> IsPresident(t)
         /\ UNCHANGED <<visit, priority, start, end>>
         /\ at' = [at EXCEPT ![me] = l]
         /\ priority[me] \in Employee .. President
         /\ start[me] \in Stops /\ end[me] \in Stops
         /\ \A c \in Conds : ~Waits(me, c)
         /\ (RequestInv' /\ CountInv' => ElevatorInv')
  <1>1. /\ IsRider(me) /\ me \in Threads /\ \A c \in Conds : ~Waits(me, c)
        /\ cpu # "t_start" /\ TypedInv /\ CountInv
    BY Running DEF ElevatorInv, InBody
  <1>2. /\ start[me] \in Floors /\ end[me] \in Floors
        /\ going(Towards(me), start[me]) \in Conds
        /\ requests(end[me]) \in Conds
        /\ elv_wait \in Conds /\ emptyElevator \in Conds
        /\ going(Towards(me), start[me]) \notin {elv_wait, emptyElevator}
        /\ requests(end[me]) \notin {elv_wait, emptyElevator}
    BY <1>1, OwnConds, CondsDiffer
  <1>3. /\ MonInv' /\ ReadyInv' /\ cpu' # "t_start"
        /\ UNCHANGED <<gThreadID, priority, currentRunningThread, pc>>
        /\ \A t \in Threads : \A c \in Conds : Waits(t, c)' =>
             \/ Waits(t, c)
             \/ /\ t = me
                /\ \/ c = emptyElevator /\ l = "wakes"
                   \/ c = going(Towards(t), start[t]) /\ l = "enters"
                   \/ c = requests(end[t]) /\ l = "exits"
        /\ \A t \in Threads : \A c \in Conds :
             t # me /\ c \notin {elv_wait, emptyElevator} => (Waits(t, c)' <=> Waits(t, c))
        /\ \A t \in Threads : \A c \in Conds :
             t = me /\ c = going(Towards(t), start[t]) /\ l = "enters" => Waits(t, c)'
        /\ \A t \in Threads : \A c \in Conds :
             t = me /\ c = requests(end[t]) /\ l = "exits" => Waits(t, c)'
    <2>1. CASE Own /\ l \notin {"enters", "exits"}
      BY <1>1, <2>1, OwnKeeps
    <2>2. CASE (sig(elv_wait) \/ sig(emptyElevator)) /\ l \notin {"enters", "exits"}
      <3>1. PICK c \in Conds : sig(c) /\ c \in {elv_wait, emptyElevator}
        BY <1>2, <2>2
      <3> QED
        BY <1>1, <2>2, <3>1, SigKeeps
    <2>3. CASE ~((Own \/ sig(elv_wait) \/ sig(emptyElevator)) /\ l \notin {"enters", "exits"})
      <3>1. PICK c \in Conds :
              /\ t_wait(c)
              /\ \/ c = emptyElevator /\ l = "wakes"
                 \/ \E t \in Threads : t = me /\ c = going(Towards(t), start[t]) /\ l = "enters"
                 \/ \E t \in Threads : t = me /\ c = requests(end[t]) /\ l = "exits"
        BY <1>2, <2>3
      <3>2. /\ MonInv' /\ ReadyInv'
            /\ \A t \in Threads : \A d \in Conds :
                 Waits(t, d)' <=> Waits(t, d) \/ (d = c /\ t = me)
            /\ UNCHANGED <<gThreadID, priority, currentRunningThread, pc>>
            /\ cpu' = "scheduler"
        BY <3>1, WaitKeeps
      <3> QED
        BY <3>1, <3>2
    <2> QED
      BY <2>1, <2>2, <2>3
  <1>4. Moves(l) /\ l \in Labels /\ SameFunction(at[me], l)
    BY <1>3 DEF Moves, SameFunction, RiderLabels, EarlyLabels, LateLabels, Labels
  <1>5. /\ TypedInv' /\ WhoInv'
        /\ \A t \in Threads : at'[t] = IF t = me THEN l ELSE at[t]
        /\ \A t \in Threads : IsPresident(t)' <=> IsPresident(t)
    BY <1>4, WhoMoves
  <1>6. WaitsInv'
    BY <1>3, <1>4, WaitsMoves
  <1>7. ASSUME NEW t \in Threads, t = me
        PROVE  /\ l = "enters" => Waits(t, going(Towards(t), start[t]))'
               /\ l = "exits" => Waits(t, requests(end[t]))'
    <2>1. PICK c \in Conds, d \in Conds :
            c = going(Towards(t), start[t]) /\ d = requests(end[t])
      BY <1>2, <1>7
    <2>2. c = going(Towards(t)', start'[t]) /\ d = requests(end'[t])
      BY <2>1 DEF Towards
    <2>3. /\ l = "enters" => Waits(t, c)'
          /\ l = "exits" => Waits(t, d)'
      BY <1>3, <1>7, <2>1
    <2> QED
      BY <2>2, <2>3 DEF Waits
  <1>8. QuietInv' /\ DoorInv' /\ StartInv' /\ CabInv'
    BY <1>1, <1>3, <1>4, <1>7, RiderMoves
  <1>9. /\ priority[me] \in Employee .. President
        /\ start[me] \in Stops /\ end[me] \in Stops
    BY <1>1, Labelled DEF ElevatorInv, ReadyInv
  <1> QED
    BY <1>1, <1>3, <1>4, <1>5, <1>6, <1>8, <1>9 DEF ElevatorInv, Moves, Goes, cabVars, localVars

-----------------------------------------------------------------------------
(* The riders. *)

\* The moves of a rider that no counter follows.
QuietMoves ==
  {<<"calls", "hails">>, <<"calls", "queues">>, <<"hails", "queues">>, <<"asks", "files1">>,
   <<"awaits", "wakes">>, <<"attends", "enters">>, <<"rides", "exits">>,
   <<"announces", "announces">>, <<"announces", "signals">>, <<"signals", "quits">>,
   <<"quits", "quits">>}

\* A quiet move crosses none of the lines that the counters draw.
LEMMA QuietLabels ==
  ASSUME NEW k, NEW l, <<k, l>> \in QuietMoves
  PROVE  /\ k \in RiderLabels /\ l \in RiderLabels
         /\ l \in InsideLabels => k \in InsideLabels
         /\ k \in LateLabels => l \in LateLabels
         /\ k \in InsideLabels <=> l \in InsideLabels
         /\ k \in OutsideLabels <=> l \in OutsideLabels
         /\ k \in OutsideLabels \ {"adds"} <=> l \in OutsideLabels \ {"adds"}
         /\ k \in {"awaits", "wakes"} <=> l \in {"awaits", "wakes"}
         /\ \A p : k \in SetLabels(p) <=> l \in SetLabels(p)
  BY DEF QuietMoves, RiderLabels, EarlyLabels, LateLabels, InsideLabels, OutsideLabels,
         SetLabels

\* A quiet move keeps the invariant, whatever call it makes.
LEMMA KeptByQuietMove ==
  ASSUME ElevatorInv, NEW l, <<at[me], l>> \in QuietMoves, InBody, Goes(l),
         UNCHANGED <<program, forked, start, end, cabVars, bldVars, reqSFP, reqEFP>>,
         \/ Own /\ l \notin {"enters", "exits"}
         \/ sig(elv_wait) /\ l \notin {"enters", "exits"}
         \/ sig(emptyElevator) /\ l \notin {"enters", "exits"}
         \/ t_wait(emptyElevator) /\ l = "wakes"
         \/ \E t \in Threads :
              t = me /\ t_wait(going(Towards(t), start[t])) /\ l = "enters"
         \/ \E t \in Threads : t = me /\ t_wait(requests(end[t])) /\ l = "exits"
  PROVE  ElevatorInv'
  <1>1. /\ at[me] \in RiderLabels /\ l \in RiderLabels
        /\ l \in InsideLabels => at[me] \in InsideLabels
        /\ at[me] \in LateLabels => l \in LateLabels
        /\ at[me] \in InsideLabels <=> l \in InsideLabels
        /\ at[me] \in OutsideLabels <=> l \in OutsideLabels
        /\ at[me] \in OutsideLabels \ {"adds"} <=> l \in OutsideLabels \ {"adds"}
        /\ at[me] \in {"awaits", "wakes"} <=> l \in {"awaits", "wakes"}
        /\ at[me] \in SetLabels(priority[me]) <=> l \in SetLabels(priority[me])
    BY QuietLabels
  <1>2. /\ Moves(l) /\ IsRider(me) /\ me \in Threads /\ TypedInv /\ CountInv
        /\ UNCHANGED <<visit, priority, start, end>>
        /\ at' = [at EXCEPT ![me] = l]
        /\ (RequestInv' /\ CountInv' => ElevatorInv')
    BY <1>1, RiderKeeps
  <1>3. RequestInv'
    BY <1>1, <1>2, RequestsStay
  <1>4. CountInv'
    BY <1>1, <1>2, CountersStay
  <1> QED
    BY <1>2, <1>3, <1>4

\* A rider calls, wakes the elevator or the next one, or returns from a wait.
LEMMA KeptByCalls ==
  ASSUME ElevatorInv,
         calls \/ hails \/ awaits \/ attends \/ rides \/ announces \/ signals
         \/ (asks /\ ~MustWait)
  PROVE  ElevatorInv'
  <1>1. me \in Threads
    <2>1. InBody
      BY DEF calls, hails, awaits, attends, rides, announces, signals, asks, Does, Calls, At
    <2> QED
      BY <2>1, Running
  <1>2. CASE calls \/ (asks /\ ~MustWait)
    <2>1. PICK l \in {"hails", "queues", "files1"} :
            /\ <<at[me], l>> \in QuietMoves /\ InBody /\ Goes(l) /\ Own
            /\ UNCHANGED <<start, end, cabVars, bldVars, reqSFP, reqEFP>>
      BY <1>2 DEF calls, asks, Does, At, QuietMoves, bldVars, callVars, reqVars
    <2> QED
      BY <2>1, KeptByQuietMove DEF Own, timeVars
  <1>3. CASE hails \/ signals
    <2>1. PICK l \in {"queues", "quits"} :
            /\ <<at[me], l>> \in QuietMoves /\ InBody /\ Goes(l) /\ sig(elv_wait)
            /\ UNCHANGED <<program, forked, start, end, cabVars, bldVars, reqSFP, reqEFP>>
      BY <1>3 DEF hails, signals, Calls, At, QuietMoves, timeVars, riderVars, reqVars
    <2> QED
      BY <2>1, KeptByQuietMove
  <1>4. CASE announces
    <2>1. PICK l \in {"announces", "signals"} :
            /\ <<at[me], l>> \in QuietMoves /\ InBody /\ Goes(l) /\ sig(emptyElevator)
            /\ UNCHANGED <<program, forked, start, end, cabVars, bldVars, reqSFP, reqEFP>>
      BY <1>4 DEF announces, At, QuietMoves, timeVars, reqVars
    <2> QED
      BY <2>1, KeptByQuietMove
  <1>5. CASE awaits
    <2>1. /\ <<at[me], "wakes">> \in QuietMoves /\ InBody /\ Goes("wakes")
          /\ t_wait(emptyElevator)
          /\ UNCHANGED <<program, forked, start, end, cabVars, bldVars, reqSFP, reqEFP>>
      BY <1>5 DEF awaits, Calls, At, QuietMoves, timeVars, riderVars, reqVars
    <2> QED
      BY <2>1, KeptByQuietMove
  <1>6. CASE attends
    <2>1. /\ <<at[me], "enters">> \in QuietMoves /\ InBody /\ Goes("enters")
          /\ \E t \in Threads : t = me /\ t_wait(going(Towards(t), start[t]))
          /\ UNCHANGED <<program, forked, start, end, cabVars, bldVars, reqSFP, reqEFP>>
      BY <1>1, <1>6 DEF attends, Calls, At, QuietMoves, timeVars, riderVars, reqVars, MyDir
    <2> QED
      BY <2>1, KeptByQuietMove
  <1>7. CASE rides
    <2>1. /\ <<at[me], "exits">> \in QuietMoves /\ InBody /\ Goes("exits")
          /\ \E t \in Threads : t = me /\ t_wait(requests(end[t]))
          /\ UNCHANGED <<program, forked, start, end, cabVars, bldVars, reqSFP, reqEFP>>
      BY <1>1, <1>7 DEF rides, Calls, At, QuietMoves, timeVars, riderVars, reqVars
    <2> QED
      BY <2>1, KeptByQuietMove
  <1> QED
    BY <1>2, <1>3, <1>4, <1>5, <1>6, <1>7

\* The types of the counters
LEMMA CountTypes ==
  ASSUME TypedInv, CountInv
  PROVE  /\ numRiders \in Nat /\ bldWaiters \in Nat /\ waitingforEmpty \in Nat
         /\ ridersOf \in [Employee .. President -> Nat]
         /\ setOf \in [Employee .. President -> Nat]
         /\ numWaiters \in [Floors -> Nat]
         /\ num \in [Dirs -> [Floors -> Nat]]
  <1>1. ASSUME NEW K \in SUBSET Threads, NEW A PROVE HowMany(K, A, at) \in Nat
    <2>1. Among(K, A, at) \in SUBSET Threads
      BY DEF Among
    <2> QED
      BY <2>1, OneMore DEF HowMany
  <1>2. numRiders \in Nat /\ bldWaiters \in Nat /\ waitingforEmpty \in Nat
    BY <1>1 DEF CountInv
  <1>3. \A p \in Employee .. President : ridersOf[p] \in Nat /\ setOf[p] \in Nat
    <2>1. \A p : OfRank(p) \in SUBSET Threads
      BY DEF OfRank
    <2> QED
      BY <1>1, <2>1 DEF CountInv
  <1>4. \A f \in Floors : numWaiters[f] \in Nat
    <2>1. \A f : GoesTo(f) \in SUBSET Threads
      BY DEF GoesTo
    <2> QED
      BY <1>1, <2>1 DEF CountInv
  <1>5. \A d \in Dirs, f \in Floors : num[d][f] \in Nat
    <2>1. \A d, f : CallsFrom(d, f) \in SUBSET Threads
      BY DEF CallsFrom
    <2> QED
      BY <1>1, <2>1 DEF CountInv
  <1>6. /\ ridersOf \in [Employee .. President -> Int]
        /\ setOf \in [Employee .. President -> Int]
        /\ numWaiters \in [Floors -> Int]
        /\ num \in [Dirs -> [Floors -> Int]]
    BY DEF CountInv
  <1>7. /\ ridersOf \in [Employee .. President -> Nat]
        /\ setOf \in [Employee .. President -> Nat]
        /\ numWaiters \in [Floors -> Nat]
    BY <1>3, <1>4, <1>6
  <1>8. \A d \in Dirs : num[d] \in [Floors -> Nat]
    BY <1>5, <1>6
  <1> QED
    BY <1>2, <1>6, <1>7, <1>8

\* What an addition to one entry of an array leaves in all of them.
LEMMA Added ==
  ASSUME NEW S, NEW f \in [S -> Nat], NEW g, NEW x \in S, NEW n \in Int,
         \/ n = 0 /\ g = f
         \/ g = [f EXCEPT ![x] = @ + n]
  PROVE  /\ g \in [S -> Int]
         /\ \A y \in S : g[y] = IF x = y THEN f[y] + n ELSE f[y]
  <1>1. \A y \in S : f[y] \in Int
    OBVIOUS
  <1>2. CASE n = 0 /\ g = f
    BY <1>1, <1>2
  <1>3. CASE g = [f EXCEPT ![x] = @ + n]
    <2>1. g[x] = f[x] + n /\ \A y \in S : y # x => g[y] = f[y]
      BY <1>3
    <2>2. \A y \in S : g[y] \in Int
      BY <1>1, <2>1
    <2> QED
      BY <1>3, <2>1, <2>2
  <1> QED
    BY <1>2, <1>3

\* The counters follow a rider from one label to the next.
LEMMA CountersFollow ==
  ASSUME ElevatorInv, NEW l, NEW t \in Threads, t = me, Goes(l),
         UNCHANGED <<priority, start, end>>, priority[t] \in Employee .. President,
         NEW i \in Int, i = Delta(InsideLabels, at[t], l),
         NEW o \in Int, o = Delta(OutsideLabels, at[t], l),
         NEW s \in Int, s = Delta(SetLabels(priority[t]), at[t], l),
         numRiders' = numRiders + i,
         bldWaiters' = bldWaiters + Delta(OutsideLabels \ {"adds"}, at[t], l),
         waitingforEmpty' = waitingforEmpty + Delta({"awaits", "wakes"}, at[t], l),
         \/ i = 0 /\ UNCHANGED <<ridersOf, numWaiters>>
         \/ /\ ridersOf' = [ridersOf EXCEPT ![priority[t]] = @ + i]
            /\ numWaiters' = [numWaiters EXCEPT ![end[t]] = @ + i],
         \/ s = 0 /\ UNCHANGED setOf
         \/ setOf' = [setOf EXCEPT ![priority[t]] = @ + s],
         \/ o = 0 /\ UNCHANGED num
         \/ num' = [num EXCEPT ![Towards(t)][start[t]] = @ + o]
  PROVE  CountInv'
  <1>1. TypedInv /\ CountInv
    BY DEF ElevatorInv
  <1>2. /\ ridersOf \in [Employee .. President -> Nat]
        /\ setOf \in [Employee .. President -> Nat]
        /\ numWaiters \in [Floors -> Nat]
        /\ num \in [Dirs -> [Floors -> Nat]]
    BY <1>1, CountTypes
  <1>3. Towards(t) \in Dirs /\ start[t] \in Floors /\ end[t] \in Floors
    BY <1>1, OwnConds
  <1>r. PICK Ranks : Ranks = Employee .. President
    OBVIOUS
  <1>4. /\ num' \in [Dirs -> [Floors -> Int]]
        /\ \A d \in Dirs : \A f \in Floors :
             num'[d][f] = IF start[t] = f /\ Towards(t) = d
                          THEN num[d][f] + Delta(OutsideLabels, at[t], l) ELSE num[d][f]
    <2>1. PICK x \in Dirs, g \in Floors : x = Towards(t) /\ g = start[t]
      BY <1>3
    <2>2. CASE UNCHANGED num /\ o = 0
      BY <1>2, <2>1, <2>2
    <2>3. CASE num' = [num EXCEPT ![x][g] = @ + o]
      <3>1. /\ num' = [num EXCEPT ![x] = [num[x] EXCEPT ![g] = num[x][g] + o]]
            /\ num[x] \in [Floors -> Int] /\ num[x][g] + o \in Int
        BY <1>2, <2>3
      <3>2. [num[x] EXCEPT ![g] = num[x][g] + o] \in [Floors -> Int]
        BY <3>1
      <3>3. num \in [Dirs -> [Floors -> Int]]
        BY <1>2
      <3>4. num' \in [Dirs -> [Floors -> Int]]
        BY <3>1, <3>2, <3>3
      <3>5. ASSUME NEW d \in Dirs, NEW f \in Floors
            PROVE  num'[d][f] = IF g = f /\ x = d THEN num[d][f] + o ELSE num[d][f]
        BY <3>1, <3>3
      <3> QED
        BY <2>1, <3>4, <3>5
    <2> QED
      BY <2>1, <2>2, <2>3
  <1>5. /\ setOf' \in [Employee .. President -> Int]
        /\ \A p \in Employee .. President :
             setOf'[p] = IF priority[t] = p THEN setOf[p] + Delta(SetLabels(p), at[t], l)
                                            ELSE setOf[p]
    <2>1. /\ setOf' \in [Ranks -> Int]
          /\ \A p \in Ranks :
               setOf'[p] = IF priority[t] = p THEN setOf[p] + s ELSE setOf[p]
      <3>1. PICK x \in Ranks : x = priority[t]
        BY <1>r
      <3>2. PICK f \in [Ranks -> Nat] : f = setOf
        BY <1>2, <1>r
      <3>3. PICK g : g = setOf'
        OBVIOUS
      <3>4. (s = 0 /\ g = f) \/ g = [f EXCEPT ![x] = @ + s]
        BY <3>1, <3>2, <3>3
      <3>5. g \in [Ranks -> Int] /\ \A p \in Ranks : g[p] = IF x = p THEN f[p] + s ELSE f[p]
        BY ONLY <3>4, x \in Ranks, f \in [Ranks -> Nat], s \in Int, Added
      <3> QED
        BY <3>1, <3>2, <3>3, <3>5
    <2> QED
      BY <1>r, <2>1
  <1>6. /\ ridersOf' \in [Employee .. President -> Int]
        /\ numWaiters' \in [Floors -> Int]
        /\ \A p \in Employee .. President :
             ridersOf'[p] = IF priority[t] = p
                            THEN ridersOf[p] + Delta(InsideLabels, at[t], l) ELSE ridersOf[p]
        /\ \A f \in Floors :
             numWaiters'[f] = IF end[t] = f
                              THEN numWaiters[f] + Delta(InsideLabels, at[t], l)
                              ELSE numWaiters[f]
    <2>1. /\ ridersOf' \in [Ranks -> Int]
          /\ \A p \in Ranks :
               ridersOf'[p] = IF priority[t] = p THEN ridersOf[p] + i ELSE ridersOf[p]
      <3>1. PICK x \in Ranks : x = priority[t]
        BY <1>r
      <3>2. PICK f \in [Ranks -> Nat] : f = ridersOf
        BY <1>2, <1>r
      <3>3. PICK g : g = ridersOf'
        OBVIOUS
      <3>4. (i = 0 /\ g = f) \/ g = [f EXCEPT ![x] = @ + i]
        BY <3>1, <3>2, <3>3
      <3>5. g \in [Ranks -> Int] /\ \A p \in Ranks : g[p] = IF x = p THEN f[p] + i ELSE f[p]
        BY ONLY <3>4, x \in Ranks, f \in [Ranks -> Nat], i \in Int, Added
      <3> QED
        BY <3>1, <3>2, <3>3, <3>5
    <2>2. /\ numWaiters' \in [Floors -> Int]
          /\ \A f \in Floors :
               numWaiters'[f] = IF end[t] = f THEN numWaiters[f] + i ELSE numWaiters[f]
      BY <1>2, <1>3, Added
    <2> QED
      BY <1>r, <2>1, <2>2
  <1>7. CountsFollow(t, l)
    BY <1>4, <1>5, <1>6 DEF CountsFollow
  <1> QED
    BY <1>1, <1>7, CountersMove DEF Goes

\* A rider is counted among those outside, and perhaps waits for an empty elevator.
LEMMA KeptByQueueing ==
  ASSUME ElevatorInv, queues \/ adds \/ (asks /\ MustWait) \/ wakes
  PROVE  ElevatorInv'
  <1>1. PICK l \in {"adds", "asks", "awaits", "files1"} :
          /\ InBody /\ Goes(l) /\ Own /\ UNCHANGED <<start, end, cabVars>>
          /\ UNCHANGED <<rideVars, setOf, reqVars>>
          /\ \/ /\ at[me] = "queues" /\ l = "adds"
                /\ num' = [num EXCEPT ![Towards(me)][start[me]] = @ + 1]
                /\ UNCHANGED <<bldWaiters, waitingforEmpty>>
             \/ /\ at[me] = "adds" /\ l = "asks"
                /\ bldWaiters' = bldWaiters + 1
                /\ UNCHANGED <<num, waitingforEmpty>>
             \/ /\ at[me] = "asks" /\ l = "awaits"
                /\ waitingforEmpty' = waitingforEmpty + 1
                /\ UNCHANGED <<num, bldWaiters>>
             \/ /\ at[me] = "wakes" /\ l = "files1"
                /\ waitingforEmpty' = waitingforEmpty - 1
                /\ UNCHANGED <<num, bldWaiters>>
    BY DEF queues, adds, asks, wakes, Does, At, MyDir
  <1>2. /\ at[me] \in RiderLabels /\ l \in RiderLabels
        /\ l \notin InsideLabels /\ l \notin LateLabels /\ at[me] \notin LateLabels
        /\ l \notin {"enters", "exits"}
        /\ at[me] \notin InsideLabels
        /\ \A p : at[me] \notin SetLabels(p) /\ l \notin SetLabels(p)
    BY <1>1 DEF RiderLabels, EarlyLabels, LateLabels, InsideLabels, SetLabels
  <1>3. /\ Moves(l) /\ IsRider(me) /\ me \in Threads /\ TypedInv /\ CountInv
        /\ UNCHANGED <<visit, priority, start, end>>
        /\ priority[me] \in Employee .. President
        /\ (RequestInv' /\ CountInv' => ElevatorInv')
    BY <1>1, <1>2, RiderKeeps DEF Own, timeVars
  <1>4. RequestInv'
    BY <1>1, <1>2, <1>3, RequestsStay DEF reqVars
  <1>5. PICK t \in Threads : t = me
    BY <1>3
  <1>6. PICK i \in Int : i = 0 /\ i = Delta(InsideLabels, at[t], l)
                              /\ i = Delta(SetLabels(priority[t]), at[t], l)
    BY <1>2, <1>5 DEF Delta
  <1>7. /\ bldWaiters \in Nat /\ waitingforEmpty \in Nat /\ numRiders' = numRiders + i
        /\ UNCHANGED <<ridersOf, numWaiters, setOf>>
    BY <1>1, <1>3, <1>6, CountTypes DEF rideVars
  <1>8. CASE at[me] = "queues" /\ l = "adds"
    <2>1. /\ Delta(OutsideLabels, at[t], l) = 1
          /\ Delta(OutsideLabels \ {"adds"}, at[t], l) = 0
          /\ Delta({"awaits", "wakes"}, at[t], l) = 0
      BY <1>5, <1>8 DEF Delta, OutsideLabels
    <2>a. PICK n \in Int : n = 1
      OBVIOUS
    <2>2. /\ num' = [num EXCEPT ![Towards(t)][start[t]] = @ + n]
          /\ n = Delta(OutsideLabels, at[t], l)
          /\ bldWaiters' = bldWaiters + Delta(OutsideLabels \ {"adds"}, at[t], l)
          /\ waitingforEmpty' = waitingforEmpty + Delta({"awaits", "wakes"}, at[t], l)
      BY <1>1, <1>5, <1>7, <1>8, <2>1, <2>a
    <2>3. CountInv'
      BY <1>1, <1>3, <1>5, <1>6, <1>7, <2>1, <2>2, CountersFollow
    <2> QED
      BY <1>3, <1>4, <2>3
  <1>9. CASE at[me] # "queues"
    <2>1. /\ i = Delta(OutsideLabels, at[t], l) /\ UNCHANGED num
          /\ bldWaiters' = bldWaiters + Delta(OutsideLabels \ {"adds"}, at[t], l)
          /\ waitingforEmpty' = waitingforEmpty + Delta({"awaits", "wakes"}, at[t], l)
      <3>1. CASE at[me] = "adds"
        <4>1. /\ Delta(OutsideLabels, at[t], l) = 0
              /\ Delta(OutsideLabels \ {"adds"}, at[t], l) = 1
              /\ Delta({"awaits", "wakes"}, at[t], l) = 0
          BY <1>1, <1>5, <3>1 DEF Delta, OutsideLabels
        <4> QED
          BY <1>1, <1>6, <1>7, <3>1, <4>1
      <3>2. CASE at[me] = "asks"
        <4>1. /\ Delta(OutsideLabels, at[t], l) = 0
              /\ Delta(OutsideLabels \ {"adds"}, at[t], l) = 0
              /\ Delta({"awaits", "wakes"}, at[t], l) = 1
          BY <1>1, <1>5, <3>2 DEF Delta, OutsideLabels
        <4> QED
          BY <1>1, <1>6, <1>7, <3>2, <4>1
      <3>3. CASE at[me] = "wakes"
        <4>1. /\ Delta(OutsideLabels, at[t], l) = 0
              /\ Delta(OutsideLabels \ {"adds"}, at[t], l) = 0
              /\ Delta({"awaits", "wakes"}, at[t], l) = -1
          BY <1>1, <1>5, <3>3 DEF Delta, OutsideLabels
        <4> QED
          BY <1>1, <1>6, <1>7, <3>3, <4>1
      <3> QED
        BY <1>1, <1>9, <3>1, <3>2, <3>3
    <2>2. CountInv'
      BY <1>1, <1>3, <1>5, <1>6, <1>7, <2>1, CountersFollow
    <2> QED
      BY <1>3, <1>4, <2>2
  <1> QED
    BY <1>1, <1>8, <1>9

\* A rider leaves his request.
LEMMA KeptByFiling ==
  ASSUME ElevatorInv, files1 \/ files2
  PROVE  ElevatorInv'
  <1>1. PICK l \in {"files2", "attends"} :
          /\ InBody /\ Goes(l) /\ Own /\ UNCHANGED <<start, end, cabVars>>
          /\ UNCHANGED <<rideVars, num, bldWaiters, waitingforEmpty>>
          /\ \/ at[me] = "files1" /\ l = "files2"
             \/ at[me] = "files2" /\ l = "attends"
    BY DEF files1, files2, Does, At
  <1>2. /\ at[me] \in RiderLabels /\ l \in RiderLabels
        /\ l \notin InsideLabels /\ at[me] \notin LateLabels
        /\ l \notin {"enters", "exits"}
    BY <1>1 DEF RiderLabels, EarlyLabels, LateLabels, InsideLabels
  <1>3. /\ Moves(l) /\ IsRider(me) /\ me \in Threads /\ TypedInv /\ CountInv
        /\ \A t \in Threads : at'[t] = IF t = me THEN l ELSE at[t]
        /\ \A t \in Threads : IsPresident(t)' <=> IsPresident(t)
        /\ UNCHANGED <<visit, priority, start, end>>
        /\ priority[me] \in Employee .. President
        /\ start[me] \in Stops /\ end[me] \in Stops
        /\ (RequestInv' /\ CountInv' => ElevatorInv')
    BY <1>1, <1>2, RiderKeeps DEF Own, timeVars
  <1>4. PICK t \in Threads : t = me
    BY <1>3
  <1>5. /\ Delta(InsideLabels, at[t], l) = 0
        /\ Delta(OutsideLabels, at[t], l) = 0
        /\ Delta(OutsideLabels \ {"adds"}, at[t], l) = 0
        /\ Delta({"awaits", "wakes"}, at[t], l) = 0
    BY <1>1, <1>4 DEF Delta, OutsideLabels, InsideLabels
  <1>6. /\ setOf \in [Employee .. President -> Nat]
        /\ numRiders' = numRiders + 0 /\ bldWaiters' = bldWaiters + 0
        /\ waitingforEmpty' = waitingforEmpty + 0
        /\ UNCHANGED <<ridersOf, numWaiters, num>>
    BY <1>1, <1>3, CountTypes DEF rideVars
  <1>z. PICK z \in Int : z = 0
    OBVIOUS
  <1>7. CASE at[me] = "files1" /\ l = "files2"
    <2>1. files1
      BY <1>7 DEF files2, Does, At
    <2>2. RequestInv'
      BY <1>2, <1>3, <2>1, RequestsStay DEF files1
    <2>3. PICK n \in Int : n = IF priority[t] = President THEN 1 ELSE 0
      OBVIOUS
    <2>4. n = Delta(SetLabels(priority[t]), at[t], l)
      BY <1>4, <1>7, <2>3 DEF Delta, SetLabels, InsideLabels
    <2>5. setOf' = [setOf EXCEPT ![priority[t]] = @ + n]
      <3>1. setOf' = [setOf EXCEPT ![President] = IF priority[t] = President THEN @ + 1 ELSE @]
        BY <1>4, <2>1 DEF files1, MyPriority
      <3>2. CASE priority[t] = President
        BY <2>3, <3>1, <3>2
      <3>3. CASE priority[t] # President
        <4>1. n = 0 /\ setOf' = setOf
          BY <1>6, <2>3, <3>1, <3>3
        <4>2. setOf[priority[t]] \in Int
          BY <1>3, <1>4, <1>6
        <4> QED
          BY <1>6, <4>1, <4>2
      <3> QED
        BY <3>2, <3>3
    <2>6. CountInv'
      BY <1>1, <1>3, <1>4, <1>5, <1>6, <1>z, <2>4, <2>5, CountersFollow
    <2> QED
      BY <1>3, <2>2, <2>6
  <1>8. CASE at[me] = "files2" /\ l = "attends"
    <2>1. files2
      BY <1>8 DEF files1, Does, At
    <2>2. PICK n \in Int : n = IF priority[t] = President THEN 0 ELSE 1
      OBVIOUS
    <2>3. n = Delta(SetLabels(priority[t]), at[t], l)
      BY <1>4, <1>8, <2>2 DEF Delta, SetLabels, InsideLabels
    <2>4. setOf' = [setOf EXCEPT ![priority[t]] = @ + n]
      <3>1. CASE priority[t] = President
        <4>1. UNCHANGED setOf
          BY <1>4, <2>1, <3>1 DEF files2, MyPriority
        <4> QED
          BY <1>3, <1>4, <1>6, <2>2, <3>1, <4>1
      <3>2. CASE priority[t] # President
        BY <1>4, <2>1, <2>2, <3>2 DEF files2, MyPriority
      <3> QED
        BY <3>1, <3>2
    <2>5. CountInv'
      BY <1>1, <1>3, <1>4, <1>5, <1>6, <1>z, <2>3, <2>4, CountersFollow
    <2>6. RequestInv'
      <3>1. CASE priority[me] # President
        <4>1. UNCHANGED <<reqSFP, reqEFP>>
          BY <2>1, <3>1 DEF files2, MyPriority
        <4> QED
          BY <1>2, <1>3, <4>1, RequestsStay
      <3>2. CASE priority[me] = President
        <4>1. reqSFP' = start[me] /\ reqEFP' = end[me] /\ at'[me] = "attends"
          BY <1>3, <1>8, <2>1, <3>2 DEF files2, MyPriority
        <4>2. IsPresident(me) /\ me # 2
          BY <1>3, <3>2 DEF IsPresident, IsRider
        <4>3. PresidentFiled'
          <5>1. IsPresident(t)' /\ at'[t] = "attends"
            BY <1>3, <1>4, <4>1, <4>2
          <5> QED
            BY <5>1 DEF PresidentFiled, LateLabels
        <4>4. ~PresidentFiled
          BY <1>2, <1>3, <4>2 DEF PresidentFiled, ElevatorInv, WhoInv, OnePresident
        <4>5. at'[2] = at[2]
          BY <1>3, <4>2 DEF Moves, Goes, TypedInv
        <4>6. /\ at[2] \in {"president", "directors"} => visit.by = "others"
              /\ ~(at[2] \in OpenLabels /\ visit.by = "president out")
          BY <4>4 DEF ElevatorInv, RequestInv
        <4>7. start[me] # None /\ end[me] # None
          BY <1>3, ElevatorAssumption DEF Stops, None
        <4> QED
          BY <1>3, <4>1, <4>3, <4>5, <4>6, <4>7 DEF RequestInv
      <3> QED
        BY <3>1, <3>2
    <2> QED
      BY <1>3, <2>5, <2>6
  <1> QED
    BY <1>1, <1>7, <1>8

\* A rider gets in: five counters change together.
LEMMA KeptByEntering ==
  ASSUME ElevatorInv, enters
  PROVE  ElevatorInv'
  <1>1. /\ InBody /\ Goes("rides") /\ at[me] = "enters" /\ sig(elv_wait)
        /\ UNCHANGED <<program, forked, start, end, cabVars>>
        /\ UNCHANGED <<setOf, waitingforEmpty, reqSFP, reqEFP>>
        /\ num' = [num EXCEPT ![Towards(me)][start[me]] = @ - 1]
        /\ numRiders' = numRiders + 1
        /\ ridersOf' = [ridersOf EXCEPT ![priority[me]] = @ + 1]
        /\ bldWaiters' = bldWaiters - 1
        /\ numWaiters' = [numWaiters EXCEPT ![end[me]] = @ + 1]
    BY DEF enters, At, MyDir, MyPriority, timeVars, riderVars, reqVars
  <1>2. PICK l \in RiderLabels : l = "rides"
    BY DEF RiderLabels, LateLabels
  <1>3. /\ at[me] \in RiderLabels /\ l \notin {"enters", "exits"}
        /\ at[me] \in InsideLabels \cup {"enters"}
        /\ l \in LateLabels
    BY <1>1, <1>2 DEF RiderLabels, LateLabels
  <1>4. /\ Moves(l) /\ IsRider(me) /\ me \in Threads /\ TypedInv /\ CountInv
        /\ UNCHANGED <<visit, priority, start, end>>
        /\ priority[me] \in Employee .. President
        /\ (RequestInv' /\ CountInv' => ElevatorInv')
    BY <1>1, <1>2, <1>3, RiderKeeps
  <1>5. RequestInv'
    BY <1>1, <1>3, <1>4, RequestsStay
  <1>6. PICK t \in Threads : t = me
    BY <1>4
  <1>7. /\ Delta(InsideLabels, at[t], l) = 1
        /\ Delta(OutsideLabels, at[t], l) = -1
        /\ Delta(OutsideLabels \ {"adds"}, at[t], l) = -1
        /\ Delta({"awaits", "wakes"}, at[t], l) = 0
        /\ Delta(SetLabels(priority[t]), at[t], l) = 0
    BY <1>1, <1>2, <1>6 DEF Delta, InsideLabels, OutsideLabels, SetLabels
  <1>8. /\ numRiders \in Nat /\ bldWaiters \in Nat /\ waitingforEmpty \in Nat
        /\ num \in [Dirs -> [Floors -> Nat]]
    BY <1>4, CountTypes
  <1>9. PICK i \in Int, o \in Int, s \in Int : i = 1 /\ o = -1 /\ s = 0
    OBVIOUS
  <1>10. /\ bldWaiters' = bldWaiters + Delta(OutsideLabels \ {"adds"}, at[t], l)
         /\ waitingforEmpty' = waitingforEmpty + Delta({"awaits", "wakes"}, at[t], l)
    BY <1>1, <1>7, <1>8
  <1>11. num' = [num EXCEPT ![Towards(t)][start[t]] = @ + o]
    <2>1. PICK x \in Dirs, g \in Floors : x = Towards(t) /\ g = start[t]
      BY <1>4, <1>6, OwnConds
    <2>2. num[x][g] - 1 = num[x][g] + o
      BY <1>8, <1>9
    <2> QED
      BY <1>1, <1>6, <2>1, <2>2
  <1>12. CountInv'
    BY <1>1, <1>2, <1>4, <1>6, <1>7, <1>9, <1>10, <1>11, CountersFollow
  <1> QED
    BY <1>4, <1>5, <1>12

\* A rider gets out: the counters of those inside follow.
LEMMA KeptByLeaving ==
  ASSUME ElevatorInv, exits
  PROVE  ElevatorInv'
  <1>1. PICK l \in {"announces", "signals"} :
          /\ InBody /\ Goes(l) /\ at[me] = "exits" /\ Own
          /\ UNCHANGED <<start, end, cabVars>>
          /\ UNCHANGED <<num, bldWaiters, waitingforEmpty>>
          /\ numRiders' = numRiders - 1
          /\ ridersOf' = [ridersOf EXCEPT ![priority[me]] = @ - 1]
          /\ setOf' = [setOf EXCEPT ![priority[me]] = @ - 1]
          /\ numWaiters' = [numWaiters EXCEPT ![currentFloor] = @ - 1]
          /\ reqSFP' = IF priority[me] = President THEN None ELSE reqSFP
          /\ reqEFP' = IF priority[me] = President THEN None ELSE reqEFP
    BY DEF exits, Does, At, MyPriority
  <1>2. /\ at[me] \in RiderLabels /\ l \in RiderLabels
        /\ l \notin {"enters", "exits"} /\ l \notin InsideLabels
        /\ at[me] \in LateLabels /\ l \in LateLabels
    BY <1>1 DEF RiderLabels, LateLabels, InsideLabels
  <1>3. /\ Moves(l) /\ IsRider(me) /\ me \in Threads /\ TypedInv /\ CountInv
        /\ \A t \in Threads : at'[t] = IF t = me THEN l ELSE at[t]
        /\ \A t \in Threads : IsPresident(t)' <=> IsPresident(t)
        /\ UNCHANGED <<visit, priority, start, end>>
        /\ priority[me] \in Employee .. President
        /\ \A c \in Conds : ~Waits(me, c)
        /\ (RequestInv' /\ CountInv' => ElevatorInv')
    BY <1>1, <1>2, RiderKeeps DEF Own, timeVars
  <1>4. RequestInv'
    <2>1. CASE priority[me] # President
      <3>1. UNCHANGED <<reqSFP, reqEFP>>
        BY <1>1, <2>1
      <3> QED
        BY <1>2, <1>3, <3>1, RequestsStay
    <2>2. CASE priority[me] = President
      <3>1. reqSFP' = None /\ reqEFP' = None
        BY <1>1, <2>2
      <3>2. IsPresident(me) /\ me # 2 /\ RequestInv
        BY <1>3, <2>2 DEF IsPresident, IsRider, ElevatorInv
      <3>3. at'[2] = at[2]
        BY <1>3, <3>2 DEF Moves, Goes, TypedInv
      <3>4. PresidentFiled'
        <4>1. PICK t \in Threads : t = me
          BY <1>3
        <4>2. IsPresident(t)' /\ at'[t] = l
          BY <1>3, <3>2, <4>1
        <4> QED
          BY <1>2, <4>2 DEF PresidentFiled
      <3> QED
        BY <1>3, <3>1, <3>2, <3>3, <3>4 DEF RequestInv
    <2> QED
      BY <2>1, <2>2
  <1>5. PICK t \in Threads : t = me
    BY <1>3
  <1>6. currentFloor = end[t]
    <2>1. Leaves(t)
      BY <1>1, <1>3, <1>5, OwnConds DEF Leaves
    <2> QED
      BY <2>1 DEF ElevatorInv, DoorInv
  <1>7. /\ Delta(InsideLabels, at[t], l) = -1
        /\ Delta(OutsideLabels, at[t], l) = 0
        /\ Delta(OutsideLabels \ {"adds"}, at[t], l) = 0
        /\ Delta({"awaits", "wakes"}, at[t], l) = 0
        /\ Delta(SetLabels(priority[t]), at[t], l) = -1
    BY <1>1, <1>5 DEF Delta, InsideLabels, OutsideLabels, SetLabels
  <1>8. /\ numRiders \in Nat /\ bldWaiters \in Nat /\ waitingforEmpty \in Nat
        /\ ridersOf \in [Employee .. President -> Nat]
        /\ setOf \in [Employee .. President -> Nat]
        /\ numWaiters \in [Floors -> Nat]
    BY <1>3, CountTypes
  <1>9. PICK i \in Int, o \in Int : i = -1 /\ o = 0
    OBVIOUS
  <1>10. /\ bldWaiters' = bldWaiters + Delta(OutsideLabels \ {"adds"}, at[t], l)
         /\ waitingforEmpty' = waitingforEmpty + Delta({"awaits", "wakes"}, at[t], l)
         /\ numRiders' = numRiders + i
    BY <1>1, <1>7, <1>8, <1>9
  <1>11. /\ ridersOf' = [ridersOf EXCEPT ![priority[t]] = @ + i]
         /\ setOf' = [setOf EXCEPT ![priority[t]] = @ + i]
         /\ numWaiters' = [numWaiters EXCEPT ![end[t]] = @ + i]
    <2>1. PICK p \in Employee .. President, f \in Floors : p = priority[t] /\ f = end[t]
      BY <1>3, <1>5 DEF TypedInv
    <2>2. /\ ridersOf[p] - 1 = ridersOf[p] + i /\ setOf[p] - 1 = setOf[p] + i
          /\ numWaiters[f] - 1 = numWaiters[f] + i
      BY <1>8, <1>9
    <2> QED
      BY <1>1, <1>5, <1>6, <2>1, <2>2
  <1>12. CountInv'
    <2>1. /\ i = Delta(InsideLabels, at[t], l)
          /\ o = Delta(OutsideLabels, at[t], l)
          /\ i = Delta(SetLabels(priority[t]), at[t], l)
          /\ priority[t] \in Employee .. President
          /\ o = 0 /\ UNCHANGED <<num, priority, start, end>> /\ Goes(l)
      BY <1>1, <1>3, <1>5, <1>7, <1>9
    <2> QED
      BY <1>5, <1>10, <1>11, <2>1, CountersFollow
  <1> QED
    BY <1>3, <1>4, <1>12

\* A step of the thread system itself.
LEMMA KernelKeeps ==
  ASSUME ElevatorInv, KernelNext, UNCHANGED <<joinVars, monitorVars>>
  PROVE  /\ MonInv' /\ ReadyInv'
         /\ \A t \in Threads : \A c \in Conds : Waits(t, c)' <=> Waits(t, c)
  <1>1. MonInv /\ ReadyInv
    BY DEF ElevatorInv
  <1>2. MonInv'
    BY <1>1, MonKernel
  <1>3. ReadyInv'
    BY <1>1, ReadyStep
  <1> QED
    BY <1>2, <1>3 DEF monitorVars, Waits

\* A rider calls t_exit; he is in no queue and in no count.
LEMMA KeptByQuitting ==
  ASSUME ElevatorInv, quits
  PROVE  ElevatorInv'
  <1>1. /\ InBody /\ at[me] = "quits" /\ Goes("quits") /\ t_exit
        /\ UNCHANGED <<monitorVars, cabVars, program, forked, start, end, bldVars,
                       reqSFP, reqEFP>>
    BY DEF quits, Calls, At, timeVars, riderVars, reqVars
  <1>2. KernelNext /\ UNCHANGED joinVars
    BY <1>1 DEF KernelNext, t_exit
  <1>3. /\ MonInv' /\ ReadyInv'
        /\ \A t \in Threads : \A c \in Conds : Waits(t, c)' <=> Waits(t, c)
    BY <1>1, <1>2, KernelKeeps
  <1>4. PICK l \in RiderLabels : l = "quits"
    BY DEF RiderLabels, LateLabels
  <1>5. /\ Moves(l) /\ SameFunction(at[me], l) /\ UNCHANGED priority
        /\ l \in Labels /\ l \notin {"enters", "exits"} /\ l \notin InsideLabels
        /\ at[me] = l /\ l \in LateLabels
    BY <1>1, <1>4
    DEF Moves, SameFunction, t_exit, tcbVars, me, RiderLabels, LateLabels, InsideLabels, Labels
  <1>6. IsRider(me) /\ me \in Threads /\ TypedInv /\ CountInv
    BY <1>1, <1>4, <1>5, Running DEF ElevatorInv
  <1>7. TypedInv' /\ WhoInv'
    BY <1>1, <1>5, WhoMoves
  <1>8. WaitsInv'
    BY <1>3, <1>5, WaitsMoves
  <1>9. QuietInv' /\ DoorInv' /\ StartInv' /\ CabInv'
    BY <1>1, <1>3, <1>5, <1>6, RiderMoves
  <1>10. RequestInv'
    <2>1. UNCHANGED visit
      BY <1>1 DEF cabVars, localVars
    <2> QED
      BY <1>1, <1>5, <1>6, <2>1, RequestsStay
  <1>11. CountInv'
    <2>1. PICK t \in Threads : t = me /\ at[t] = l
      BY <1>5, <1>6
    <2>2. at' = [at EXCEPT ![t] = l]
      BY <2>1, <1>5 DEF Moves, Goes
    <2> QED
      BY <1>1, <1>5, <1>6, <2>1, <2>2, CountersStay
  <1> QED
    BY <1>3, <1>7, <1>8, <1>9, <1>10, <1>11 DEF ElevatorInv

\* Every step of a rider keeps the invariant.
LEMMA KeptByRiders ==
  ASSUME ElevatorInv, riderStep
  PROVE  ElevatorInv'
  <1>1. CASE calls \/ hails \/ awaits \/ attends \/ rides \/ announces \/ signals
             \/ (asks /\ ~MustWait)
    BY <1>1, KeptByCalls
  <1>2. CASE queues \/ adds \/ (asks /\ MustWait) \/ wakes
    BY <1>2, KeptByQueueing
  <1>3. CASE files1 \/ files2
    BY <1>3, KeptByFiling
  <1>4. CASE enters
    BY <1>4, KeptByEntering
  <1>5. CASE exits
    BY <1>5, KeptByLeaving
  <1>6. CASE quits
    BY <1>6, KeptByQuitting
  <1> QED
    BY <1>1, <1>2, <1>3, <1>4, <1>5, <1>6 DEF riderStep

-----------------------------------------------------------------------------
(* The elevator. *)

\* A signal of the elevator goes to a rider of the floor where it is.
CallsHere(c) ==
  /\ state = "DOOR_OPENED"
  /\ \A d \in Dirs, f \in Floors : c = going(d, f) \/ c = requests(f) => f = currentFloor

\* What is left to show of a step of the elevator is what it does to its own
\* variables and to the president's request.
LEMMA CabKeeps ==
  ASSUME ElevatorInv, NEW l \in ElevatorLabels, l # "starts", InBody, Goes(l),
         at[me] \in ElevatorLabels,
         UNCHANGED <<program, forked, start, end, bldVars>>,
         \/ Own /\ at[me] \notin {"boards", "alights"}
         \/ UNCHANGED <<state, currentFloor>> /\ t_wait(elv_wait)
         \/ UNCHANGED <<state, currentFloor>> /\ t_yield /\ UNCHANGED monitorVars
         \/ /\ UNCHANGED <<state, currentFloor>> /\ l \in {"boards", "alights"}
            /\ \E c \in Conds : CallsHere(c) /\ sig(c),
         l \in OpenLabels => state' = "DOOR_OPENED"
  PROVE  /\ me = 2 /\ at'[2] = l
         /\ PresidentFiled' <=> PresidentFiled
         /\ (CabInv' /\ RequestInv' => ElevatorInv')
  <1>1. /\ me = 2 /\ me \in Threads /\ cpu # "t_start" /\ OnProcessor(2)
        /\ TypedInv /\ CountInv /\ CabInv /\ QuietInv /\ DoorInv
    BY Running DEF ElevatorInv, InBody
  <1>2. /\ MonInv' /\ ReadyInv' /\ cpu' # "t_start"
        /\ UNCHANGED <<gThreadID, priority, currentRunningThread, pc>>
        /\ \A t \in Threads : \A c \in Conds :
             Waits(t, c)' => Waits(t, c) \/ (c = elv_wait /\ t = me)
        /\ \A t \in Threads : \A c \in Conds : c # elv_wait /\ Waits(t, c) =>
             Waits(t, c)' \/ (CallsHere(c) /\ UNCHANGED <<state, currentFloor>>)
        /\ \/ Own /\ at[me] \notin {"boards", "alights"}
           \/ UNCHANGED <<state, currentFloor>> /\ cpu' = "scheduler"
           \/ UNCHANGED <<state, currentFloor>> /\ l \in {"boards", "alights"}
    <2>1. CASE Own /\ at[me] \notin {"boards", "alights"}
      BY <1>1, <2>1, OwnKeeps
    <2>2. CASE UNCHANGED <<state, currentFloor>> /\ t_wait(elv_wait)
      <3>1. PICK c \in Conds : c = elv_wait /\ t_wait(c)
        BY <2>2, CondsDiffer
      <3> QED
        BY <2>2, <3>1, WaitKeeps
    <2>3. CASE UNCHANGED <<state, currentFloor>> /\ t_yield /\ UNCHANGED monitorVars
      <3>1. /\ KernelNext /\ UNCHANGED joinVars /\ cpu' = "scheduler"
            /\ UNCHANGED <<gThreadID, priority, currentRunningThread, pc>>
        BY <2>3 DEF KernelNext, t_yield, Requeue, Park, tcbVars, exitVars
      <3> QED
        BY <2>3, <3>1, KernelKeeps
    <2>4. CASE /\ UNCHANGED <<state, currentFloor>> /\ l \in {"boards", "alights"}
               /\ \E c \in Conds : CallsHere(c) /\ sig(c)
      <3>1. PICK c \in Conds : CallsHere(c) /\ sig(c)
        BY <2>4
      <3>2. /\ MonInv' /\ ReadyInv'
            /\ \A t \in Threads : \A d \in Conds :
                 /\ Waits(t, d)' => Waits(t, d)
                 /\ d # c => (Waits(t, d)' <=> Waits(t, d))
            /\ UNCHANGED <<gThreadID, priority, currentRunningThread, pc, cpu>>
        BY <3>1, SigKeeps
      <3> QED
        BY <1>1, <2>4, <3>1, <3>2
    <2> QED
      BY <2>1, <2>2, <2>3, <2>4
  <1>3. Moves(l) /\ l \in Labels /\ SameFunction(at[me], l)
    BY <1>2 DEF Moves, SameFunction, ElevatorLabels, TourLabels, MoveLabels, Labels
  <1>4. /\ TypedInv' /\ WhoInv'
        /\ \A t \in Threads : at'[t] = IF t = me THEN l ELSE at[t]
        /\ \A t \in Threads : IsPresident(t)' <=> IsPresident(t)
    BY <1>3, WhoMoves
  <1>5. WaitsInv'
    BY <1>1, <1>2, <1>3, WaitsMoves
  <1>6. /\ l \notin LateLabels /\ at[me] \notin LateLabels
        /\ l \notin OutsideLabels /\ at[me] \notin OutsideLabels
        /\ l \notin InsideLabels /\ at[me] \notin InsideLabels
        /\ l \notin {"awaits", "wakes"} /\ at[me] \notin {"awaits", "wakes"}
        /\ \A p : l \notin SetLabels(p) /\ at[me] \notin SetLabels(p)
        /\ l # "end"
    BY DEF ElevatorLabels, TourLabels, MoveLabels, LateLabels, OutsideLabels, InsideLabels,
           SetLabels
  <1>7. PresidentFiled' <=> PresidentFiled
    BY <1>4, <1>6 DEF PresidentFiled
  <1>8. CountInv'
    <2>1. PICK t \in Threads : t = me
      BY <1>1
    <2>2. /\ at' = [at EXCEPT ![t] = l]
          /\ l \notin OutsideLabels \ {"adds"} /\ at[t] \notin OutsideLabels \ {"adds"}
      BY <1>6, <2>1 DEF Goes
    <2> HIDE DEF InsideLabels, OutsideLabels, SetLabels
    <2> QED
      BY <1>1, <1>2, <1>6, <2>1, <2>2, CountersStay
  <1>9. StartInv'
    BY <1>1, <1>4, <1>6 DEF StartInv
  <1>10. ASSUME NEW t \in Threads
         PROVE  /\ Comes(t)' => \/ Comes(t)
                                \/ /\ state = "DOOR_OPENED" /\ currentFloor = start[t]
                                   /\ UNCHANGED <<state, currentFloor>>
                /\ Leaves(t)' => \/ Leaves(t)
                                 \/ /\ state = "DOOR_OPENED" /\ currentFloor = end[t]
                                    /\ UNCHANGED <<state, currentFloor>>
    <2>1. PICK c \in Conds, d \in Conds :
            /\ c = going(Towards(t), start[t]) /\ d = requests(end[t])
            /\ c # elv_wait /\ d # elv_wait
      BY <1>1, OwnConds
    <2>2. /\ Towards(t)' = Towards(t) /\ start'[t] = start[t] /\ end'[t] = end[t]
          /\ Towards(t) \in Dirs /\ start[t] \in Floors /\ end[t] \in Floors
      BY <1>1, OwnConds DEF Towards
    <2>3. c = going(Towards(t)', start'[t]) /\ d = requests(end'[t])
      BY <2>1, <2>2
    <2>4. t = me => ~Comes(t)' /\ ~Leaves(t)'
      BY <1>1, <1>4 DEF Comes, Leaves, ElevatorLabels, TourLabels, MoveLabels
    <2>5. t # me => at'[t] = at[t]
      BY <1>4
    <2>6. /\ CallsHere(c) => state = "DOOR_OPENED" /\ start[t] = currentFloor
          /\ CallsHere(d) => state = "DOOR_OPENED" /\ end[t] = currentFloor
      BY <2>1, <2>2 DEF CallsHere
    <2>7. /\ Waits(t, c) => Waits(t, c)' \/ (CallsHere(c) /\ UNCHANGED <<state, currentFloor>>)
          /\ Waits(t, d) => Waits(t, d)' \/ (CallsHere(d) /\ UNCHANGED <<state, currentFloor>>)
      BY <1>2, <2>1
    <2>8. /\ Comes(t) <=> at[t] = "enters" /\ ~Waits(t, c)
          /\ Leaves(t) <=> at[t] = "exits" /\ ~Waits(t, d)
          /\ Comes(t)' <=> at'[t] = "enters" /\ ~Waits(t, c)'
          /\ Leaves(t)' <=> at'[t] = "exits" /\ ~Waits(t, d)'
      BY <2>1, <2>3 DEF Comes, Leaves, Waits
    <2> QED
      BY <2>4, <2>5, <2>6, <2>7, <2>8
  <1>11. QuietInv' /\ DoorInv'
    <2>1. CASE Own /\ at[me] \notin {"boards", "alights"}
      <3>1. \A t \in Threads : ~Comes(t) /\ ~Leaves(t)
        BY <1>1, <2>1 DEF QuietInv, InDoor
      <3>2. \A t \in Threads : ~Comes(t)' /\ ~Leaves(t)'
        <4>1. \A t \in Threads : \A c \in Conds : Waits(t, c)' <=> Waits(t, c)
          BY <2>1, OwnKeeps
        <4>2. ASSUME NEW t \in Threads PROVE ~Comes(t)' /\ ~Leaves(t)'
          <5>1. PICK c \in Conds, d \in Conds :
                  c = going(Towards(t), start[t]) /\ d = requests(end[t])
            BY <1>1, OwnConds
          <5>2. c = going(Towards(t)', start'[t]) /\ d = requests(end'[t])
            BY <5>1 DEF Towards
          <5>3. /\ Comes(t) <=> at[t] = "enters" /\ ~Waits(t, c)
                /\ Leaves(t) <=> at[t] = "exits" /\ ~Waits(t, d)
                /\ Comes(t)' <=> at'[t] = "enters" /\ ~Waits(t, c)'
                /\ Leaves(t)' <=> at'[t] = "exits" /\ ~Waits(t, d)'
            BY <5>1, <5>2 DEF Comes, Leaves, Waits
          <5>4. t = me => at'[t] \notin {"enters", "exits"}
            BY <1>4 DEF ElevatorLabels, TourLabels, MoveLabels
          <5>5. t # me => at'[t] = at[t]
            BY <1>4
          <5> QED
            BY <3>1, <4>1, <5>3, <5>4, <5>5
        <4> QED
          BY <4>2
      <3> QED
        BY <1>1, <1>4, <3>2 DEF QuietInv, DoorInv, InDoor
    <2>2. CASE /\ UNCHANGED <<state, currentFloor>>
               /\ cpu' = "scheduler" \/ l \in {"boards", "alights"}
      <3>1. QuietInv'
        BY <1>1, <1>4, <2>2 DEF QuietInv, OnProcessor
      <3>2. DoorInv'
        BY <1>1, <1>4, <1>10, <2>2 DEF DoorInv
      <3> QED
        BY <3>1, <3>2
    <2> QED
      BY <1>2, <2>1, <2>2
  <1> QED
    BY <1>1, <1>2, <1>4, <1>5, <1>7, <1>8, <1>9, <1>11 DEF ElevatorInv

Visits == [enter : Int, exit : Int, dir : Dirs,
           by : {"others", "president in", "president out"}]

\* A visit is one of Visits.
LEMMA VisitOK ==
  ASSUME NEW m \in Int, NEW n \in Int, NEW d \in Dirs,
         NEW b \in {"others", "president in", "president out"}
  PROVE  Visit(m, n, d, b) \in Visits /\ Visit(m, n, d, b).by = b
  BY DEF Visit, Visits

\* A step of the elevator between two calls of the library
Tours(l) ==
  /\ InBody /\ Goes(l) /\ Own
  /\ at[me] \in TourLabels /\ at[me] \notin {"boards", "alights"}
  /\ UNCHANGED <<start, end, bldVars, currentFloor>>
  /\ l \in OpenLabels => state' = "DOOR_OPENED"

\* Between two calls the elevator disturbs only what is about its cab and the president.
LEMMA TourKeeps ==
  ASSUME ElevatorInv, NEW l \in TourLabels, Tours(l)
  PROVE  /\ me = 2 /\ at'[2] = l
         /\ PresidentFiled' <=> PresidentFiled
         /\ currentFloor \in Stops /\ currentFloor \in Floors
         /\ (direction = "DOWN" => currentFloor # 1)
         /\ TypedInv /\ CountInv /\ CabInv /\ RequestInv
         /\ (CabInv' /\ RequestInv' => ElevatorInv')
  <1>1. l \in ElevatorLabels /\ l # "starts" /\ at[me] \in ElevatorLabels
    BY DEF Tours, ElevatorLabels, TourLabels
  <1>2. /\ me = 2 /\ at'[2] = l
        /\ PresidentFiled' <=> PresidentFiled
        /\ (CabInv' /\ RequestInv' => ElevatorInv')
    BY <1>1, CabKeeps DEF Own, timeVars, Tours
  <1>3. currentFloor \in Stops /\ (direction = "DOWN" => currentFloor # 1)
    BY <1>2 DEF ElevatorInv, CabInv, Tours
  <1>4. currentFloor \in Floors
    BY <1>3, ElevatorAssumption DEF Stops, Floors
  <1> QED
    BY <1>2, <1>3, <1>4 DEF ElevatorInv

\* ... that is about others than the president
LEMMA KeptByTour ==
  ASSUME ElevatorInv, NEW l \in TourLabels, Tours(l),
         UNCHANGED <<direction, reqSFP, reqEFP>>,
         numEnter' \in Nat, numExit' \in Nat, numSpaces' \in Int,
         visit' \in Visits,
         l \in OpenLabels \cup {"president", "directors"} => visit'.by = "others"
  PROVE  ElevatorInv'
  <1>1. /\ at'[2] = l /\ UNCHANGED currentFloor
        /\ PresidentFiled' <=> PresidentFiled
        /\ currentFloor \in Stops
        /\ (direction = "DOWN" => currentFloor # 1)
        /\ CabInv /\ RequestInv
        /\ (CabInv' /\ RequestInv' => ElevatorInv')
    BY TourKeeps DEF Tours
  <1>2. CabInv'
    BY <1>1 DEF CabInv, Visits, TourLabels, MoveLabels
  <1>3. RequestInv'
    BY <1>1 DEF RequestInv
  <1> QED
    BY <1>1, <1>2, <1>3

\* The elevator reads the counters, decides where to go, or stops.
LEMMA KeptByLooking ==
  ASSUME ElevatorInv, looks \/ decides \/ rests \/ stops
  PROVE  ElevatorInv'
  <1>1. /\ numEnter \in Nat /\ numExit \in Nat /\ numSpaces \in Int
        /\ visit \in Visits /\ direction \in Dirs
    BY DEF ElevatorInv, CabInv, Visits
  <1>2. CASE looks
    <2>1. PICK l \in TourLabels : l = "decides"
      BY DEF TourLabels
    <2>2. Tours(l) /\ UNCHANGED <<direction, reqSFP, reqEFP, visit>>
      BY <1>2, <2>1 DEF Tours, looks, At, elvVars, riderVars, reqVars, TourLabels, OpenLabels
    <2>3. TypedInv /\ CountInv /\ currentFloor \in Floors
      BY <2>2, TourKeeps
    <2>4. /\ numRiders \in Nat /\ numWaiters \in [Floors -> Nat]
          /\ num \in [Dirs -> [Floors -> Nat]]
      BY <2>3, CountTypes
    <2>5. MAX_RIDERS \in Nat
      BY ElevatorAssumption
    <2>6. num[direction] \in [Floors -> Nat]
      BY <1>1, <2>4
    <2>7. numEnter' \in Nat /\ numExit' \in Nat /\ numSpaces' \in Int
      BY <1>2, <2>3, <2>4, <2>5, <2>6 DEF looks
    <2> QED
      BY <1>1, <2>1, <2>2, <2>7, KeptByTour DEF OpenLabels
  <1>3. CASE decides \/ rests \/ stops
    <2>1. PICK l \in TourLabels \ OpenLabels :
            /\ Tours(l) /\ UNCHANGED <<direction, reqSFP, reqEFP, numEnter, numExit, numSpaces>>
            /\ \/ visit' = Visit(0, 0, direction, "others")
               \/ visit' = visit /\ l \notin {"president", "directors"}
      <3>1. CASE decides
        BY <3>1 DEF decides, Tours, At, elvVars, riderVars, reqVars, TourLabels, OpenLabels
      <3>2. CASE rests
        BY <3>2 DEF rests, Tours, At, cabVars, elvVars, localVars, riderVars, reqVars,
                    TourLabels, OpenLabels
      <3>3. CASE stops
        BY <3>3 DEF stops, Tours, At, localVars, riderVars, reqVars, TourLabels, OpenLabels
      <3> QED
        BY <1>3, <3>1, <3>2, <3>3
    <2>2. visit' \in Visits /\ (l \in {"president", "directors"} => visit'.by = "others")
      <3>1. CASE visit' = Visit(0, 0, direction, "others")
        <4>1. /\ Visit(0, 0, direction, "others") \in Visits
              /\ Visit(0, 0, direction, "others").by = "others"
          <5>1. PICK z \in Int, d \in Dirs : z = 0 /\ d = direction
            BY <1>1
          <5>2. Visit(z, z, d, "others") \in Visits /\ Visit(z, z, d, "others").by = "others"
            BY VisitOK
          <5> QED
            BY <5>1, <5>2
        <4> QED
          BY <3>1, <4>1
      <3>2. CASE visit' = visit /\ l \notin {"president", "directors"}
        BY <1>1, <3>2
      <3> QED
        BY <2>1, <3>1, <3>2
    <2> QED
      BY <1>1, <2>1, <2>2, KeptByTour
  <1> QED
    BY <1>2, <1>3

\* The door is open whenever el_visitFloor signals somebody.
LEMMA OpensDoor ==
  ASSUME NEW v, Opens(v)
  PROVE  \E l \in {"letsEnter", "letsExit", "shuts"} :
           Goes(l) /\ state' = "DOOR_OPENED" /\ visit' = v
  BY DEF Opens

\* The elevator opens for directors or for employees.
LEMMA KeptByAdmitting ==
  ASSUME ElevatorInv, directors \/ employees
  PROVE  ElevatorInv'
  <1>1. /\ numEnter \in Nat /\ numExit \in Nat /\ numSpaces \in Int
        /\ visit \in Visits /\ direction \in Dirs
    BY DEF ElevatorInv, CabInv, Visits
  <1>2. CASE directors
    <2>1. /\ at[me] = "directors"
          /\ UNCHANGED <<direction, reqSFP, reqEFP, numEnter, numExit, numSpaces>>
      BY <1>2 DEF directors, At
    <2>2. PICK l \in {"directors", "rests", "letsEnter", "letsExit", "shuts"} :
            Goes(l) /\ (l \in OpenLabels => state' = "DOOR_OPENED")
      BY <1>2 DEF directors, Opens, OpenLabels
    <2>3. l \in TourLabels /\ Tours(l)
      BY <1>2, <2>1, <2>2 DEF directors, At, riderVars, TourLabels, Tours
    <2>4. visit.by = "others"
      <3>1. me = 2
        BY <2>3, TourKeeps
      <3> QED
        BY <2>1, <3>1 DEF ElevatorInv, RequestInv
    <2>5. visit.enter \in Int /\ visit.exit \in Int
      BY <1>1 DEF Visits
    <2>6. visit' \in Visits /\ visit'.by = "others"
      <3>1. PICK in \in BOOLEAN, out \in BOOLEAN :
              visit' = [visit EXCEPT !.enter = IF in THEN @ + 1 ELSE @,
                                     !.exit = IF out THEN @ + 1 ELSE @]
        <4>1. PICK in \in BOOLEAN, out \in BOOLEAN :
                /\ in <=> /\ reqSFD[slot] = currentFloor
                          /\ Ahead(direction, currentFloor, reqEFD[slot])
                          /\ waitingforEmpty = 0
                /\ out <=> reqSFD[slot] = None /\ reqEFD[slot] = currentFloor
          OBVIOUS
        <4> QED
          BY <1>2, <4>1 DEF directors, Opens
      <3>2. PICK m \in Int, n \in Int :
              /\ m = IF in THEN visit.enter + 1 ELSE visit.enter
              /\ n = IF out THEN visit.exit + 1 ELSE visit.exit
        BY <2>5
      <3>3. visit' = [visit EXCEPT !.enter = m, !.exit = n]
        BY <1>1, <3>1, <3>2 DEF Visits
      <3> QED
        BY <1>1, <2>4, <3>3 DEF Visits
    <2> QED
      BY <1>1, <2>1, <2>3, <2>6, KeptByTour
  <1>3. CASE employees
    <2>1. /\ at[me] = "employees"
          /\ UNCHANGED <<direction, reqSFP, reqEFP, numEnter, numExit, numSpaces>>
      BY <1>3 DEF employees, At, reqVars
    <2>2. PICK l \in {"rests", "letsEnter", "letsExit", "shuts"} :
            /\ Goes(l) /\ (l \in OpenLabels => state' = "DOOR_OPENED")
            /\ \/ l \notin OpenLabels /\ visit' = visit
               \/ \E m \in Int : visit' = Visit(m, numExit, direction, "others")
      <3>1. Fitting \in Int
        BY <1>1 DEF Fitting
      <3>2. CASE Goes("rests") /\ UNCHANGED visit
        BY <3>2 DEF OpenLabels
      <3>3. CASE \E m \in Int : Opens(Visit(m, numExit, direction, "others"))
        BY <3>3 DEF Opens
      <3> QED
        <4>1. PICK m \in Int : m = IF waitingforEmpty # 0 THEN 0 ELSE Fitting
          BY <3>1
        <4>2. \/ Goes("rests") /\ UNCHANGED visit
              \/ Opens(Visit(m, numExit, direction, "others"))
          BY <1>3, <4>1 DEF employees
        <4> QED
          BY <3>2, <3>3, <4>2
    <2>3. l \in TourLabels /\ Tours(l)
      BY <1>3, <2>1, <2>2 DEF employees, At, riderVars, TourLabels, Tours
    <2>4. /\ visit' \in Visits
          /\ l \in OpenLabels \cup {"president", "directors"} => visit'.by = "others"
      <3>1. CASE l \notin OpenLabels /\ visit' = visit
        BY <1>1, <2>2, <3>1
      <3>2. CASE \E m \in Int : visit' = Visit(m, numExit, direction, "others")
        <4>1. PICK m \in Int, n \in Int, d \in Dirs : visit' = Visit(m, n, d, "others")
          BY <1>1, <3>2
        <4>2. Visit(m, n, d, "others") \in Visits /\ Visit(m, n, d, "others").by = "others"
          BY VisitOK
        <4> QED
          BY <4>1, <4>2
      <3> QED
        BY <2>2, <3>1, <3>2
    <2> QED
      BY <1>1, <2>1, <2>3, <2>4, KeptByTour
  <1> QED
    BY <1>2, <1>3

\* The door closes with nobody in it.
LEMMA KeptByShutting ==
  ASSUME ElevatorInv, shuts
  PROVE  ElevatorInv'
  <1>1. PICK l \in TourLabels : l = "rests"
    BY DEF TourLabels
  <1>2. /\ Tours(l) /\ at[me] = "shuts"
        /\ UNCHANGED <<direction, currentFloor, numEnter, numExit, numSpaces, visit>>
        /\ reqSFP' = IF visit.by = "president in" THEN None ELSE reqSFP
        /\ reqEFP' = IF visit.by = "president out" THEN None ELSE reqEFP
    BY <1>1 DEF shuts, At, Tours, localVars, riderVars, TourLabels, OpenLabels
  <1>3. /\ me = 2 /\ at'[2] = l
        /\ PresidentFiled' <=> PresidentFiled
        /\ currentFloor \in Stops
        /\ (direction = "DOWN" => currentFloor # 1)
        /\ CabInv /\ RequestInv
        /\ (CabInv' /\ RequestInv' => ElevatorInv')
    BY <1>2, TourKeeps
  <1>4. CabInv'
    BY <1>1, <1>2, <1>3 DEF CabInv, MoveLabels
  <1>5. RequestInv'
    BY <1>1, <1>2, <1>3 DEF RequestInv, OpenLabels
  <1> QED
    BY <1>3, <1>4, <1>5

\* The elevator opens for the president, or passes by on his account.
LEMMA KeptByPresident ==
  ASSUME ElevatorInv, president
  PROVE  ElevatorInv'
  <1>1. /\ at[me] = "president"
        /\ UNCHANGED <<currentFloor, numEnter, numExit, numSpaces, reqSFP, reqEFP>>
    BY DEF president, At, reqVars
  <1>2. PICK l \in {"letsEnter", "letsExit", "shuts", "rests"} :
          /\ Goes(l) /\ (l \in OpenLabels => state' = "DOOR_OPENED")
          /\ \/ /\ currentFloor = reqSFP /\ reqEFP # currentFloor
                /\ direction' = IF reqEFP > currentFloor THEN "UP" ELSE "DOWN"
                /\ visit' = Visit(1, 0, direction', "president in")
             \/ /\ reqSFP = None /\ reqEFP = currentFloor
                /\ UNCHANGED direction
                /\ visit' = Visit(0, 1, direction, "president out")
             \/ /\ \/ UNCHANGED direction
                   \/ direction' = "UP"
                   \/ direction' = "DOWN" /\ reqSFP # None /\ reqSFP < currentFloor
                /\ UNCHANGED visit
                /\ l = "rests"
    <2>1. CASE /\ currentFloor = reqSFP /\ reqEFP # currentFloor
               /\ direction' = IF reqEFP > currentFloor THEN "UP" ELSE "DOWN"
               /\ Opens(Visit(1, 0, direction', "president in"))
      <3>1. PICK v : v = Visit(1, 0, direction', "president in")
        OBVIOUS
      <3> QED
        BY <2>1, <3>1, OpensDoor
    <2>2. CASE /\ reqSFP = None /\ reqEFP = currentFloor
               /\ UNCHANGED direction
               /\ Opens(Visit(0, 1, direction, "president out"))
      <3>1. PICK v : v = Visit(0, 1, direction, "president out")
        OBVIOUS
      <3> QED
        BY <2>2, <3>1, OpensDoor
    <2>3. CASE /\ \/ UNCHANGED direction
                  \/ direction' = "UP"
                  \/ direction' = "DOWN" /\ reqSFP # None /\ reqSFP < currentFloor
               /\ UNCHANGED visit
               /\ Goes("rests")
      BY <2>3 DEF OpenLabels
    <2> QED
      BY <2>1, <2>2, <2>3 DEF president, Ahead, Opposite
  <1>3. l \in TourLabels /\ Tours(l)
    BY <1>1, <1>2 DEF president, At, riderVars, TourLabels, Tours
  <1>4. /\ me = 2 /\ at'[2] = l
        /\ PresidentFiled' <=> PresidentFiled
        /\ currentFloor \in Stops
        /\ (direction = "DOWN" => currentFloor # 1)
        /\ CabInv /\ RequestInv
        /\ (CabInv' /\ RequestInv' => ElevatorInv')
    BY <1>3, TourKeeps
  <1>5. /\ numEnter \in Nat /\ numExit \in Nat /\ numSpaces \in Int
        /\ visit \in Visits /\ direction \in Dirs /\ visit.by = "others"
    BY <1>1, <1>4 DEF CabInv, RequestInv, Visits
  <1>6. None \notin Stops
    BY DEF None, Stops
  <1>7. direction' \in Dirs /\ (direction' = "DOWN" => currentFloor # 1)
    <2>1. CASE UNCHANGED direction \/ direction' = "UP"
      BY <1>4, <1>5, <2>1 DEF Dirs
    <2>2. CASE direction' = "DOWN" /\ reqSFP # None /\ reqSFP < currentFloor
      <3>1. reqSFP \in Stops
        BY <1>4, <2>2 DEF RequestInv
      <3> QED
        BY <1>4, <2>2, <3>1, ElevatorAssumption DEF Dirs, Stops
    <2>3. CASE /\ currentFloor = reqSFP /\ reqEFP # currentFloor
               /\ direction' = IF reqEFP > currentFloor THEN "UP" ELSE "DOWN"
      <3>1. reqEFP \in Stops
        BY <1>4, <1>6, <2>3 DEF RequestInv
      <3> QED
        BY <1>4, <2>3, <3>1, ElevatorAssumption DEF Dirs, Stops
    <2> QED
      BY <1>2, <2>1, <2>2, <2>3
  <1>8. /\ visit' \in Visits
        /\ \/ visit'.by = "president in"
           \/ visit'.by = "president out" /\ reqSFP = None /\ reqEFP # None
           \/ visit'.by = "others"
        /\ l \notin {"president", "directors"}
    <2>1. CASE UNCHANGED visit
      BY <1>2, <1>5, <2>1
    <2>2. CASE visit' = Visit(1, 0, direction', "president in")
      <3>1. PICK m \in Int, n \in Int, d \in Dirs : m = 1 /\ n = 0 /\ d = direction'
        BY <1>7
      <3>2. /\ Visit(m, n, d, "president in") \in Visits
            /\ Visit(m, n, d, "president in").by = "president in"
        BY VisitOK
      <3> QED
        BY <1>2, <2>2, <3>1, <3>2
    <2>3. CASE /\ visit' = Visit(0, 1, direction, "president out")
               /\ reqSFP = None /\ reqEFP = currentFloor
      <3>1. PICK m \in Int, n \in Int, d \in Dirs : m = 0 /\ n = 1 /\ d = direction
        BY <1>5
      <3>2. /\ Visit(m, n, d, "president out") \in Visits
            /\ Visit(m, n, d, "president out").by = "president out"
        BY VisitOK
      <3> QED
        BY <1>2, <1>4, <1>6, <2>3, <3>1, <3>2
    <2> QED
      BY <1>2, <2>1, <2>2, <2>3
  <1>9. CabInv'
    BY <1>1, <1>3, <1>4, <1>5, <1>7, <1>8 DEF CabInv, Visits, TourLabels, MoveLabels
  <1>10. RequestInv'
    BY <1>1, <1>4, <1>8 DEF RequestInv
  <1> QED
    BY <1>4, <1>9, <1>10

\* ElevatorThread sets the number of riders to zero, as it is.
LEMMA KeptByStarting ==
  ASSUME ElevatorInv, starts
  PROVE  ElevatorInv'
  <1>1. PICK l \in ElevatorLabels : l = "sleepsFirst"
    BY DEF ElevatorLabels
  <1>2. /\ InBody /\ Goes(l) /\ Own /\ at[me] = "starts" /\ at[me] \in ElevatorLabels
        /\ UNCHANGED <<start, end, visit, numEnter, numExit, numSpaces, reqSFP, reqEFP>>
        /\ direction' = "UP" /\ currentFloor' = 1 /\ numRiders' = 0
        /\ UNCHANGED <<ridersOf, numWaiters, callVars>>
    BY <1>1 DEF starts, At, riderVars, localVars, reqVars, ElevatorLabels
  <1>3. me = 2 /\ CountInv /\ CabInv /\ RequestInv /\ StartInv
    BY <1>2, Running DEF ElevatorInv
  <1>4. UNCHANGED bldVars
    <2>1. Among(Threads, InsideLabels, at) = {}
      BY <1>2, <1>3 DEF StartInv, Among, InsideLabels
    <2>2. numRiders = 0
      BY <1>3, <2>1, FS_EmptySet DEF CountInv, HowMany
    <2> QED
      BY <1>2, <2>2 DEF bldVars, rideVars, callVars
  <1>5. /\ at'[2] = l
        /\ PresidentFiled' <=> PresidentFiled
        /\ (CabInv' /\ RequestInv' => ElevatorInv')
    BY <1>1, <1>2, <1>4, CabKeeps DEF Own, timeVars, OpenLabels
  <1>6. CabInv'
    BY <1>1, <1>2, <1>3, <1>5 DEF CabInv, Dirs, TourLabels, MoveLabels
  <1>7. RequestInv'
    BY <1>1, <1>2, <1>3, <1>5 DEF RequestInv, OpenLabels
  <1> QED
    BY <1>5, <1>6, <1>7

\* The elevator goes a floor up or down, with three yields on the way.
LEMMA KeptByMoving ==
  ASSUME ElevatorInv, moves \/ yields \/ arrives
  PROVE  ElevatorInv'
  <1>1. PICK l \in {"looks", "yield1", "yield2", "yield3", "arrives"} :
          /\ InBody /\ Goes(l) /\ at[me] \in MoveLabels \cup {"moves"}
          /\ UNCHANGED <<program, forked, start, end, bldVars>>
          /\ UNCHANGED <<visit, numEnter, numExit, numSpaces, reqSFP, reqEFP>>
          /\ \/ Own /\ at[me] # "boards" /\ at[me] # "alights"
             \/ UNCHANGED <<state, currentFloor>> /\ t_yield /\ UNCHANGED monitorVars
          /\ \/ /\ at[me] = "moves" /\ UNCHANGED direction /\ l = "yield1"
                /\ currentFloor' = IF direction = "UP" THEN currentFloor + 1
                                                       ELSE currentFloor - 1
             \/ at[me] = "moves" /\ UNCHANGED <<direction, currentFloor>> /\ l = "looks"
             \/ /\ at[me] \in MoveLabels /\ l \in MoveLabels
                /\ UNCHANGED <<direction, currentFloor>>
             \/ /\ at[me] \in MoveLabels /\ l = "looks"
                /\ direction = "UP" /\ currentFloor = MAX_FLOORS
                /\ currentFloor' = currentFloor - 1
             \/ /\ at[me] \in MoveLabels /\ l = "looks"
                /\ direction = "DOWN" /\ currentFloor = 1
                /\ direction' = "UP" /\ UNCHANGED currentFloor
             \/ /\ at[me] \in MoveLabels /\ l = "looks"
                /\ ~(direction = "UP" /\ currentFloor = MAX_FLOORS)
                /\ ~(direction = "DOWN" /\ currentFloor = 1)
                /\ UNCHANGED <<direction, currentFloor>>
          /\ direction' \in {"UP", "DOWN", direction}
    <2>1. CASE moves
      <3>1. PICK l \in {"looks", "yield1"} :
              /\ Goes(l)
              /\ \/ /\ l = "yield1"
                    /\ currentFloor' = IF direction = "UP" THEN currentFloor + 1
                                                           ELSE currentFloor - 1
                 \/ l = "looks" /\ UNCHANGED currentFloor
        BY <2>1 DEF moves
      <3> QED
        BY <2>1, <3>1 DEF moves, At, Own, timeVars, riderVars, localVars, reqVars
    <2>2. CASE yields
      <3>1. PICK l \in {"yield2", "yield3", "arrives"} :
              /\ Goes(l) /\ InBody /\ t_yield /\ UNCHANGED <<monitorVars, cabVars>>
              /\ at[me] \in MoveLabels
              /\ UNCHANGED <<timeVars, forked, riderVars, bldVars, reqVars>>
        BY <2>2 DEF yields, Yielding, Calls, At, MoveLabels
      <3> QED
        BY <3>1 DEF timeVars, riderVars, cabVars, elvVars, localVars, reqVars, MoveLabels
    <2>3. CASE arrives
      <3>1. PICK l \in {"looks"} : Goes(l)
        BY <2>3 DEF arrives
      <3> QED
        BY <2>3, <3>1 DEF arrives, At, Own, timeVars, riderVars, localVars, reqVars, LastFloor,
                          MoveLabels
    <2> QED
      BY <2>1, <2>2, <2>3
  <1>2. l \in ElevatorLabels /\ l # "starts" /\ at[me] \in ElevatorLabels /\ l \notin OpenLabels
        /\ l \notin {"president", "directors", "sleepsFirst"}
        /\ (at[me] = "moves" => at[me] \in TourLabels)
        /\ (l \in TourLabels <=> l = "looks") /\ (l \in MoveLabels <=> l # "looks")
    BY <1>1 DEF ElevatorLabels, TourLabels, MoveLabels, OpenLabels
  <1>3. /\ me = 2 /\ at'[2] = l
        /\ PresidentFiled' <=> PresidentFiled
        /\ (CabInv' /\ RequestInv' => ElevatorInv')
    BY <1>1, <1>2, CabKeeps
  <1>4. CabInv /\ RequestInv
    BY DEF ElevatorInv
  <1>5. /\ at[me] = "moves" => currentFloor \in Stops /\ (direction = "DOWN" => currentFloor # 1)
        /\ at[me] \in MoveLabels => /\ currentFloor \in 1 .. MAX_FLOORS
                                    /\ direction = "DOWN" => currentFloor # MAX_FLOORS
        /\ direction \in {"UP", "DOWN"}
    BY <1>2, <1>3, <1>4 DEF CabInv, Dirs
  <1>6. /\ l = "looks" => currentFloor' \in Stops /\ (direction' = "DOWN" => currentFloor' # 1)
        /\ l # "looks" => /\ currentFloor' \in 1 .. MAX_FLOORS
                          /\ direction' = "DOWN" => currentFloor' # MAX_FLOORS
    <2>1. MAX_FLOORS \in Nat /\ MAX_FLOORS >= 3 /\ Stops = 1 .. MAX_FLOORS - 1
      BY ElevatorAssumption DEF Stops
    <2> QED
      BY <1>1, <1>2, <1>5, <2>1
  <1>7. CabInv'
    BY <1>1, <1>2, <1>3, <1>4, <1>5, <1>6 DEF CabInv, Dirs
  <1>8. RequestInv'
    BY <1>1, <1>2, <1>3, <1>4 DEF RequestInv
  <1> QED
    BY <1>3, <1>7, <1>8

\* The steps of a visit and those before a sleep, which change nothing of the
\* elevator's but how many are still to pass.
LEMMA KeptByVisiting ==
  ASSUME ElevatorInv, letsEnter \/ letsExit \/ boards \/ alights \/ sleeps
  PROVE  ElevatorInv'
  <1>1. PICK l \in TourLabels :
          /\ InBody /\ Goes(l) /\ at[me] \in TourLabels \cup {"sleepsFirst"}
          /\ UNCHANGED <<program, forked, start, end, bldVars, elvVars, numEnter, numExit,
                         numSpaces, reqSFP, reqEFP>>
          /\ l \in OpenLabels => at[me] \in OpenLabels
          /\ l \notin {"president", "directors"}
          /\ \/ t_wait(elv_wait)
             \/ /\ l \in {"boards", "alights"} /\ at[me] \in OpenLabels
                /\ \/ sig(going(visit.dir, currentFloor))
                   \/ sig(requests(currentFloor))
          /\ \/ UNCHANGED visit
             \/ visit' = [visit EXCEPT !.enter = @ - 1]
             \/ visit' = [visit EXCEPT !.exit = @ - 1]
    <2>1. CASE letsEnter
      <3>1. PICK l \in {"boards"} : Goes(l)
        BY <2>1 DEF letsEnter, Calls
      <3> QED
        BY <2>1, <3>1 DEF letsEnter, Calls, At, timeVars, riderVars, cabVars, localVars, reqVars,
                          TourLabels, OpenLabels
    <2>2. CASE letsExit
      <3>1. PICK l \in {"alights"} : Goes(l)
        BY <2>2 DEF letsExit, Calls
      <3> QED
        BY <2>2, <3>1 DEF letsExit, Calls, At, timeVars, riderVars, cabVars, localVars, reqVars,
                          TourLabels, OpenLabels
    <2>3. CASE boards \/ alights
      <3>1. PICK l \in {"letsEnter", "letsExit", "shuts"} : Goes(l)
        BY <2>3 DEF boards, alights, Calls, VisitGoesOn
      <3> QED
        BY <2>3, <3>1 DEF boards, alights, Calls, At, timeVars, riderVars, reqVars,
                          TourLabels, OpenLabels
    <2>4. CASE sleeps
      <3>1. PICK l \in {"looks", "moves"} : Goes(l) /\ InBody
                    /\ at[me] \in {"sleeps", "sleepsFirst"} /\ t_wait(elv_wait)
                    /\ UNCHANGED <<timeVars, forked, riderVars, bldVars, reqVars, cabVars>>
        BY <2>4 DEF sleeps, Calls, At
      <3> QED
        BY <3>1 DEF timeVars, riderVars, cabVars, localVars, reqVars, TourLabels, OpenLabels
    <2> QED
      BY <2>1, <2>2, <2>3, <2>4
  <1>2. /\ me = 2 /\ CabInv /\ RequestInv /\ DoorInv
        /\ l \in ElevatorLabels /\ l # "starts" /\ at[me] \in ElevatorLabels
        /\ UNCHANGED <<state, direction, currentFloor>>
    <2>1. l \in ElevatorLabels /\ l # "starts" /\ at[me] \in ElevatorLabels
      BY <1>1 DEF ElevatorLabels, TourLabels
    <2> QED
      BY <1>1, <2>1, Running DEF ElevatorInv, elvVars
  <1>3. at[me] \in OpenLabels => state = "DOOR_OPENED"
    BY <1>2 DEF DoorInv
  <1>4. /\ currentFloor \in Stops /\ (direction = "DOWN" => currentFloor # 1)
        /\ currentFloor \in Floors /\ visit.dir \in Dirs
    <2>1. MAX_FLOORS \in Nat /\ MAX_FLOORS >= 3
      BY ElevatorAssumption
    <2>2. currentFloor \in Stops /\ (direction = "DOWN" => currentFloor # 1)
      <3>1. CASE at[me] \in TourLabels
        BY <1>2, <3>1 DEF CabInv
      <3>2. CASE at[me] = "sleepsFirst"
        <4>1. currentFloor = 1 /\ direction = "UP"
          BY <1>2, <3>2 DEF CabInv
        <4>2. 1 \in Stops
          BY <2>1 DEF Stops
        <4> QED
          BY <4>1, <4>2
      <3> QED
        BY <1>1, <3>1, <3>2
    <2>3. Stops \subseteq Floors
      BY <2>1 DEF Stops, Floors
    <2>4. visit.dir \in Dirs
      BY <1>2 DEF CabInv
    <2> QED
      BY <2>2, <2>3, <2>4
  <1>5. t_wait(elv_wait) \/ (l \in {"boards", "alights"} /\ \E c \in Conds : CallsHere(c) /\ sig(c))
    <2>1. ASSUME at[me] \in OpenLabels
          PROVE  /\ CallsHere(going(visit.dir, currentFloor))
                 /\ CallsHere(requests(currentFloor))
      BY <1>3, <1>4, <2>1, CondsDiffer DEF CallsHere
    <2>2. going(visit.dir, currentFloor) \in Conds /\ requests(currentFloor) \in Conds
      BY <1>4, CondsDiffer
    <2> QED
      BY <1>1, <2>1, <2>2
  <1>6. /\ at'[2] = l
        /\ PresidentFiled' <=> PresidentFiled
        /\ (CabInv' /\ RequestInv' => ElevatorInv')
    BY <1>1, <1>2, <1>3, <1>5, CabKeeps
  <1>7. visit' \in Visits /\ visit'.by = visit.by
    <2>1. visit \in Visits /\ visit.enter \in Int /\ visit.exit \in Int
      BY <1>2 DEF CabInv, Visits
    <2>2. PICK m \in Int, n \in Int : m = visit.enter - 1 /\ n = visit.exit - 1
      BY <2>1
    <2>3. \/ visit' = [visit EXCEPT !.enter = m]
          \/ visit' = [visit EXCEPT !.exit = n]
          \/ visit' = visit
      BY <1>1, <2>1, <2>2 DEF Visits
    <2> QED
      BY <2>1, <2>3 DEF Visits
  <1>8. CabInv'
    BY <1>1, <1>2, <1>4, <1>6, <1>7 DEF CabInv, Visits, TourLabels, MoveLabels
  <1>9. RequestInv'
    BY <1>1, <1>2, <1>6, <1>7 DEF RequestInv
  <1> QED
    BY <1>6, <1>8, <1>9

\* Every step of the elevator keeps the invariant.
LEMMA KeptByElevator ==
  ASSUME ElevatorInv, elevatorStep
  PROVE  ElevatorInv'
  BY KeptByStarting, KeptByLooking, KeptByAdmitting, KeptByPresident, KeptByShutting,
     KeptByMoving, KeptByVisiting DEF elevatorStep

-----------------------------------------------------------------------------
(* The thread system. *)

\* Whoever is in the doorway is ready, or has the processor.
LEMMA ReadyInDoor ==
  ASSUME ElevatorInv, NEW t \in Threads, InDoor(t)
  PROVE  /\ priority[t] \in Employee .. President
         /\ Queued(t) \/ OnProcessor(t)
  <1>1. at[t] \in {"enters", "exits"}
    BY DEF InDoor, Comes, Leaves
  <1>2. IsRider(t) /\ priority[t] \in Employee .. President
    <2>1. at[t] \in RiderLabels
      BY <1>1 DEF RiderLabels, LateLabels
    <2> QED
      BY <2>1, Labelled DEF ElevatorInv, ReadyInv
  <1>3. pc[t] = "body"
    BY <1>1, <1>2 DEF ElevatorInv, WhoInv, Placed
  <1>4. \A c \in Conds : ~Waits(t, c)
    <2>1. t # 2
      BY <1>2 DEF IsRider
    <2>2. ASSUME NEW c \in Conds, Waits(t, c) PROVE FALSE
      <3>1. \/ c = going(Towards(t), start[t]) /\ at[t] = "enters"
            \/ c = requests(end[t]) /\ at[t] = "exits"
        BY <1>1, <2>1, <2>2 DEF ElevatorInv, WaitsInv
      <3> QED
        BY <2>2, <3>1 DEF InDoor, Comes, Leaves
    <2> QED
      BY <2>2
  <1>5. ~Parked(t)
    BY <1>4 DEF ElevatorInv, MonInv, ParkedListed
  <1> QED
    BY <1>2, <1>3, <1>5 DEF Parked, IsRider

\* The elevator gets the processor only when nobody is in the doorway.
LEMMA DispatchQuiet ==
  ASSUME ElevatorInv, NEW y \in Levels, dispatch(y), currentRunningThread' = 2
  PROVE  \A t \in Threads : ~InDoor(t)
  <1>1. cpu = "scheduler" /\ pQueue[y] # <<>> /\ Head(pQueue[y]) = 2
    BY DEF dispatch
  <1>2. ReadyInv /\ \A t \in Threads : Placed(t)
    BY DEF ElevatorInv, WhoInv
  <1>3. 2 \in Threads /\ 2 <= gThreadID /\ priority[2] = y
    <2>1. /\ pQueue \in Queues
          /\ EntriesOK(pQueue, gThreadID, priority)
      BY <1>2, EntriesOKEquiv DEF ReadyInv, KnownIds
    <2> QED
      BY <1>1, <2>1, HeadOK
  <1>4. y = 0
    BY <1>2, <1>3 DEF Placed, Born, ElevatorLevel
  <1>5. ASSUME NEW t \in Threads, InDoor(t) PROVE FALSE
    <2>1. priority[t] \in Employee .. President /\ Queued(t)
      BY <1>1, <1>5, ReadyInDoor DEF OnProcessor
    <2>2. priority[t] = 0
      BY <1>2, <1>4, <2>1, NobodyHigher
    <2> QED
      BY <2>1, <2>2 DEF Employee
  <1> QED
    BY <1>5

\* What is left to show of a step of the thread system is that it keeps its own
\* invariants and ends no rider.
LEMMA SystemKeeps ==
  ASSUME ElevatorInv, MonInv', ReadyInv',
         UNCHANGED <<monitorVars, program, forked, at, start, end, cabVars, bldVars, reqVars,
                     gThreadID, priority>>,
         cpu' = "t_start" => cpu = "t_start",
         \A t \in Threads : IsRider(t) => pc'[t] = pc[t],
         \/ \E y \in Levels : dispatch(y)
         \/ UNCHANGED currentRunningThread
            /\ (cpu' \in {"thread", "resume"} => cpu \in {"thread", "resume"})
  PROVE  ElevatorInv'
  <1>1. \A t \in Threads : \A c \in Conds : Waits(t, c)' <=> Waits(t, c)
    BY DEF monitorVars, Waits
  <1>2. /\ TypedInv /\ WhoInv /\ WaitsInv /\ QuietInv /\ DoorInv /\ StartInv /\ CabInv
        /\ RequestInv /\ CountInv
    BY DEF ElevatorInv
  <1>3. TypedInv'
    BY <1>2 DEF TypedInv
  <1>4. \A t \in Threads : /\ Born(t)' <=> Born(t)
                           /\ IsRider(t)' <=> IsRider(t)
                           /\ IsPresident(t)' <=> IsPresident(t)
    BY DEF Born, IsRider, IsPresident
  <1>5. WhoInv'
    <2>1. \A t \in Threads : Placed(t)'
      BY <1>2, <1>4 DEF WhoInv, Placed
    <2>2. OnePresident'
      BY <1>2, <1>4 DEF WhoInv, OnePresident
    <2> QED
      BY <1>2, <2>1, <2>2 DEF WhoInv, NobodyYet
  <1>6. WaitsInv'
    BY <1>1, <1>2 DEF WaitsInv, going, requests, Towards, elv_wait, emptyElevator
  <1>7. \A t \in Threads : /\ Comes(t)' <=> Comes(t)
                           /\ Leaves(t)' <=> Leaves(t)
    BY DEF Comes, Leaves, Waits, Towards, monitorVars, going, requests
  <1>8. DoorInv' /\ StartInv' /\ CabInv'
    <2>1. UNCHANGED <<state, direction, currentFloor, visit, numEnter, numExit, numSpaces>>
      BY DEF cabVars, elvVars, localVars
    <2> QED
      BY <1>2, <1>7, <2>1 DEF DoorInv, StartInv, CabInv
  <1>9. RequestInv'
    <2>1. PresidentFiled' <=> PresidentFiled
      BY <1>4 DEF PresidentFiled
    <2>2. UNCHANGED <<reqSFP, reqEFP, visit>>
      BY DEF cabVars, localVars, reqVars
    <2> QED
      BY <1>2, <2>1, <2>2 DEF RequestInv
  <1>10. CountInv'
    <2>1. PICK t \in Threads : TRUE
      BY KernelAssumption DEF Threads
    <2>2. PICK l : l = at[t]
      OBVIOUS
    <2>3. at' = [at EXCEPT ![t] = l]
      BY <1>2, <2>2 DEF TypedInv
    <2> HIDE DEF InsideLabels, OutsideLabels, SetLabels
    <2> QED
      BY <1>2, <2>2, <2>3, CountersStay
  <1>11. QuietInv'
    <2>1. CASE \E y \in Levels : dispatch(y)
      BY <1>7, <2>1, DispatchQuiet DEF QuietInv, InDoor, OnProcessor
    <2>2. CASE UNCHANGED currentRunningThread
               /\ (cpu' \in {"thread", "resume"} => cpu \in {"thread", "resume"})
      BY <1>2, <1>7, <2>2 DEF QuietInv, InDoor, OnProcessor
    <2> QED
      BY <2>1, <2>2
  <1> QED
    BY <1>3, <1>5, <1>6, <1>8, <1>9, <1>10, <1>11 DEF ElevatorInv

\* A step of the thread system: a tick is one, and so is a thread that begins with its
\* own function.
ThreadSystem ==
  systemStep \/ returns \/ tick \/ Kernel(halted) \/ (begins /\ ~misled')

LEMMA BeginsWell ==
  ASSUME begins, ~misled'
  PROVE  /\ callUserFunction
         /\ UNCHANGED <<monitorVars, timeVars, forked, at, riderVars, cabVars, bldVars, reqVars>>
  <1>1. UNCHANGED <<at, misled>>
    BY DEF begins
  <1> QED
    BY <1>1 DEF begins, timeVars

\* Every one keeps the invariant.
LEMMA KeptBySystem ==
  ASSUME ElevatorInv, ThreadSystem
  PROVE  ElevatorInv'
  <1>1. /\ UNCHANGED <<monitorVars, program, forked, at, start, end, cabVars, bldVars, reqVars>>
        /\ \/ \E y \in Levels : dispatch(y)
           \/ callUserFunction
           \/ schedulerReturns \/ resume \/ wakeSlot \/ retire \/ wakesInWait
           \/ userFunctionReturns /\ At("end")
           \/ timerHandler \/ halted
    BY BeginsWell
    DEF ThreadSystem, systemStep, returns, tick, Kernel, schedulerStep, epilogueStep, timeVars,
        riderVars
  <1>2. /\ UNCHANGED <<joinVars, gThreadID, priority>> /\ cpu' # "t_start"
        /\ \/ \E y \in Levels : dispatch(y)
           \/ UNCHANGED currentRunningThread
              /\ (cpu' \in {"thread", "resume"} => cpu \in {"thread", "resume"})
    <2>1. CASE \E y \in Levels : dispatch(y)
      BY <2>1 DEF dispatch
    <2>2. CASE schedulerReturns \/ resume \/ wakeSlot \/ retire \/ wakesInWait
      BY <2>2 DEF schedulerReturns, resume, wakeSlot, retire, wakesInWait, tcbVars, InWake
    <2>3. CASE userFunctionReturns \/ timerHandler
      BY <2>3 DEF userFunctionReturns, timerHandler, tcbVars, InBody, Requeue, Park
    <2>4. CASE halted
      BY <2>4 DEF halted, kernelVars, joinVars
    <2>5. CASE callUserFunction
      BY <2>5 DEF callUserFunction, joinVars, tcbVars, InBody
    <2> QED
      BY <1>1, <2>1, <2>2, <2>3, <2>4, <2>5
  <1>3. MonInv' /\ ReadyInv'
    <2>1. CASE wakesInWait
      BY <2>1, MonWakes, ReadyMon DEF ElevatorInv
    <2>2. CASE ~wakesInWait
      <3>1. KernelNext
        BY <1>1, <2>2 DEF KernelNext, schedulerStep, epilogueStep
      <3> QED
        BY <1>1, <1>2, <3>1, KernelKeeps
    <2> QED
      BY <2>1, <2>2
  <1>4. ASSUME NEW t \in Threads, IsRider(t) PROVE pc'[t] = pc[t]
    <2>1. pc[t] # "wake" /\ pc \in [Threads -> {"body", "wake", "done"}]
      BY <1>4 DEF ElevatorInv, WhoInv, Placed, MonInv, TypeOK
    <2>2. CASE retire
      <3>1. pc[currentRunningThread] = "wake" /\ pc' = [pc EXCEPT ![currentRunningThread] = "done"]
        BY <2>2 DEF retire, InWake
      <3> QED
        BY <2>1, <3>1
    <2>3. CASE userFunctionReturns /\ At("end")
      <3>1. me = 1
        BY <2>3, Running DEF At, FirstLabels
      <3>2. pc' = [pc EXCEPT ![me] = "wake"] /\ t # me
        BY <1>4, <2>3, <3>1 DEF userFunctionReturns, me, IsRider
      <3> QED
        BY <2>1, <3>2
    <2>4. CASE \/ \E y \in Levels : dispatch(y)
               \/ schedulerReturns \/ resume \/ wakeSlot \/ wakesInWait
               \/ timerHandler \/ halted \/ callUserFunction
      <3>1. UNCHANGED pc
        BY <2>4 DEF dispatch, callUserFunction, schedulerReturns, resume, wakeSlot, wakesInWait,
                          timerHandler, halted, exitVars, kernelVars
      <3> QED
        BY <3>1
    <2> QED
      BY <1>1, <2>2, <2>3, <2>4
  <1> QED
    BY <1>1, <1>2, <1>3, <1>4, SystemKeeps

-----------------------------------------------------------------------------
(* New threads. *)

\* A new thread counts for nothing yet.
LEMMA CountersBorn ==
  ASSUME TypedInv, CountInv, NEW n \in Threads, at[n] = "end",
         NEW l \in {"forks", "starts", "calls"}, at' = [at EXCEPT ![n] = l],
         \A t \in Threads : t # n => /\ priority'[t] = priority[t]
                                     /\ start'[t] = start[t] /\ end'[t] = end[t],
         UNCHANGED bldVars
  PROVE  CountInv'
  <1>1. \A t \in Threads : at'[t] = IF t = n THEN l ELSE at[t]
    BY DEF TypedInv
  <1>2. /\ "end" \notin InsideLabels /\ l \notin InsideLabels
        /\ "end" \notin OutsideLabels /\ l \notin OutsideLabels
        /\ "end" \notin {"awaits", "wakes"} /\ l \notin {"awaits", "wakes"}
        /\ \A p : "end" \notin SetLabels(p) /\ l \notin SetLabels(p)
    BY DEF InsideLabels, OutsideLabels, SetLabels
  <1> HIDE DEF InsideLabels, OutsideLabels, SetLabels
  <1>3. ASSUME NEW K \in SUBSET Threads, NEW L \in SUBSET Threads,
               \A t \in Threads : t # n => (t \in K <=> t \in L),
               NEW A, "end" \notin A, l \notin A
        PROVE  HowMany(K, A, at) = HowMany(L, A, at')
    <2>1. Among(K, A, at) = Among(L, A, at')
      BY <1>1, <1>3 DEF Among
    <2> QED
      BY <2>1 DEF HowMany
  <1>4. UNCHANGED <<numRiders, bldWaiters, waitingforEmpty, ridersOf, setOf, numWaiters, num>>
    BY DEF bldVars, rideVars, callVars
  <1>5. /\ numRiders' = HowMany(Threads, InsideLabels, at')
        /\ bldWaiters' = HowMany(Threads, OutsideLabels \ {"adds"}, at')
        /\ waitingforEmpty' = HowMany(Threads, {"awaits", "wakes"}, at')
    BY <1>2, <1>3, <1>4 DEF CountInv
  <1>6. ASSUME NEW p \in Employee .. President
        PROVE  /\ ridersOf'[p] = HowMany(OfRank(p)', InsideLabels, at')
               /\ setOf'[p] = HowMany(OfRank(p)', SetLabels(p), at')
    <2>1. PICK K \in SUBSET Threads : K = OfRank(p)
      BY DEF OfRank
    <2>2. PICK L \in SUBSET Threads : L = OfRank(p)'
      BY DEF OfRank
    <2>3. \A t \in Threads : t # n => (t \in K <=> t \in L)
      BY <2>1, <2>2 DEF OfRank
    <2> QED
      BY <1>2, <1>3, <1>4, <2>1, <2>2, <2>3 DEF CountInv
  <1>7. ASSUME NEW f \in Floors
        PROVE  numWaiters'[f] = HowMany(GoesTo(f)', InsideLabels, at')
    <2>1. PICK K \in SUBSET Threads : K = GoesTo(f)
      BY DEF GoesTo
    <2>2. PICK L \in SUBSET Threads : L = GoesTo(f)'
      BY DEF GoesTo
    <2>3. \A t \in Threads : t # n => (t \in K <=> t \in L)
      BY <2>1, <2>2 DEF GoesTo
    <2> QED
      BY <1>2, <1>3, <1>4, <2>1, <2>2, <2>3 DEF CountInv
  <1>8. ASSUME NEW d \in Dirs, NEW f \in Floors
        PROVE  num'[d][f] = HowMany(CallsFrom(d, f)', OutsideLabels, at')
    <2>1. PICK K \in SUBSET Threads : K = CallsFrom(d, f)
      BY DEF CallsFrom
    <2>2. PICK L \in SUBSET Threads : L = CallsFrom(d, f)'
      BY DEF CallsFrom
    <2>3. \A t \in Threads : t # n => (t \in K <=> t \in L)
      BY <2>1, <2>2 DEF CallsFrom, Towards
    <2>4. HowMany(K, OutsideLabels, at) = HowMany(L, OutsideLabels, at')
      BY <1>2, <1>3, <2>3
    <2>5. num[d][f] = HowMany(K, OutsideLabels, at)
      BY <2>1 DEF CountInv
    <2>6. num'[d][f] = num[d][f]
      BY <1>4
    <2> QED
      BY <2>2, <2>4, <2>5, <2>6
  <1>9. /\ ridersOf' \in [Employee .. President -> Int]
        /\ setOf' \in [Employee .. President -> Int]
        /\ numWaiters' \in [Floors -> Int]
        /\ num' \in [Dirs -> [Floors -> Int]]
    BY <1>4 DEF CountInv
  <1> QED
    BY <1>5, <1>6, <1>7, <1>8, <1>9
    DEF CountInv, HowMany, Among, OfRank, GoesTo, CallsFrom

\* What is left to show of the birth of thread n is who he is.
LEMMA KeptByBirth ==
  ASSUME ElevatorInv, NEW p \in Levels, t_start(p) \/ t_fork(p),
         cpu' = "scheduler" \/ currentRunningThread' = 1,
         NEW n \in Threads, n = gThreadID + 1,
         NEW l \in {"forks", "starts", "calls"}, at' = [at EXCEPT ![n] = l],
         \A t \in Threads : t # n => start'[t] = start[t] /\ end'[t] = end[t],
         UNCHANGED <<monitorVars, program, cabVars, bldVars, reqVars>>,
         TypedInv', OnePresident',
         \/ n = 1 /\ l = "forks" /\ p = ElevatorLevel /\ forked' = 0
         \/ n = 2 /\ l = "starts" /\ p = ElevatorLevel /\ forked' > 0
         \/ /\ n > 2 /\ l = "calls" /\ p \in Employee .. President /\ forked' > 0
            /\ start'[n] \in Stops /\ end'[n] \in Stops
  PROVE  ElevatorInv'
  <1>1. /\ TypedInv /\ WhoInv /\ WaitsInv /\ QuietInv /\ DoorInv /\ StartInv /\ CabInv
        /\ RequestInv /\ CountInv /\ MonInv /\ TypeOK
    BY DEF ElevatorInv, MonInv
  <1>2. /\ KernelNext /\ UNCHANGED joinVars /\ NewTcb(p) /\ UNCHANGED pc /\ cpu' # "t_start"
    <2>1. CASE t_start(p)
      BY <2>1 DEF KernelNext, t_start, exitVars
    <2>2. CASE t_fork(p)
      BY <2>2 DEF KernelNext, t_fork, exitVars, InBody, Requeue, Park
    <2> QED
      BY <2>1, <2>2
  <1>3. /\ MonInv' /\ ReadyInv'
        /\ \A t \in Threads : \A c \in Conds : Waits(t, c)' <=> Waits(t, c)
    BY <1>2, KernelKeeps
  <1>4. /\ ~Born(n) /\ pc[n] = "body" /\ gThreadID' = n
        /\ \A t \in Threads : Born(t)' <=> Born(t) \/ t = n
        /\ priority' = [priority EXCEPT ![n] = p]
    BY <1>1, <1>2, NewPlace DEF MonInv, NewTcb
  <1>5. /\ \A t \in Threads : t # n => priority'[t] = priority[t]
        /\ priority'[n] = p
        /\ \A t \in Threads : at'[t] = IF t = n THEN l ELSE at[t]
        /\ at[n] = "end"
    BY <1>1, <1>4 DEF TypeOK, TypedInv, WhoInv, Placed
  <1>6. ASSUME NEW t \in Threads
        PROVE  /\ t # n => (IsRider(t)' <=> IsRider(t)) /\ (IsPresident(t)' <=> IsPresident(t))
               /\ t # n => Towards(t)' = Towards(t)
    BY <1>4, <1>5 DEF IsRider, IsPresident, Towards
  <1>7. WhoInv'
    <2>1. ASSUME NEW t \in Threads PROVE Placed(t)'
      <3>1. CASE t = n
        BY <1>2, <1>4, <1>5, <3>1
        DEF Placed, IsRider, FirstLabels, ElevatorLabels, RiderLabels, EarlyLabels
      <3>2. CASE t # n
        <4>1. Placed(t)
          BY <1>1 DEF WhoInv
        <4> QED
          BY <1>2, <1>4, <1>5, <1>6, <3>2, <4>1 DEF Placed
      <3> QED
        BY <3>1, <3>2
    <2>2. (forked' = 0 => gThreadID' <= 1) /\ (forked' > 0 => gThreadID' >= 2)
      <3>1. n \in Nat /\ gThreadID' = n
        BY <1>4 DEF Threads
      <3>2. \/ n = 1 /\ forked' = 0
            \/ n >= 2 /\ forked' > 0
        BY <3>1
      <3> QED
        BY <3>1, <3>2
    <2> QED
      BY <1>2, <2>1, <2>2 DEF WhoInv, NobodyYet
  <1>8. WaitsInv'
    <2>1. ASSUME NEW t \in Threads, NEW c \in Conds, Waits(t, c)'
          PROVE  \/ c = elv_wait /\ t = 2
                 \/ c = emptyElevator /\ at'[t] = "wakes"
                 \/ c = going(Towards(t)', start'[t]) /\ at'[t] = "enters"
                 \/ c = requests(end'[t]) /\ at'[t] = "exits"
      <3>1. \/ c = elv_wait /\ t = 2
            \/ c = emptyElevator /\ at[t] = "wakes"
            \/ c = going(Towards(t), start[t]) /\ at[t] = "enters"
            \/ c = requests(end[t]) /\ at[t] = "exits"
        BY <1>1, <1>3, <2>1 DEF WaitsInv
      <3> QED
        BY <1>5, <1>6, <3>1
    <2> QED
      BY <2>1 DEF WaitsInv, going, requests, elv_wait, emptyElevator
  <1>9. ASSUME NEW t \in Threads
        PROVE  (Comes(t)' => Comes(t) /\ t # n) /\ (Leaves(t)' => Leaves(t) /\ t # n)
    <2>1. CASE t = n
      BY <1>5, <2>1 DEF Comes, Leaves
    <2>2. CASE t # n
      BY <1>5, <1>6, <2>2 DEF Comes, Leaves, Waits, monitorVars, going, requests
    <2> QED
      BY <2>1, <2>2
  <1>10. /\ at'[2] = at[2] \/ (at[2] = "end" /\ at'[2] = "starts")
    <2>1. CASE n = 2
      BY <1>5, <2>1
    <2>2. CASE n # 2
      BY <1>1, <2>2 DEF TypedInv
    <2> QED
      BY <2>1, <2>2
  <1>11. UNCHANGED <<state, direction, currentFloor, visit, numEnter, numExit, numSpaces,
                     reqSFP, reqEFP>>
    BY DEF cabVars, elvVars, localVars, reqVars
  <1>12. QuietInv'
    BY DEF QuietInv, OnProcessor
  <1>13. DoorInv'
    <2>1. at'[2] \in OpenLabels => at[2] \in OpenLabels
      BY <1>10 DEF OpenLabels
    <2> QED
      BY <1>1, <1>9, <1>11, <2>1 DEF DoorInv
  <1>14. StartInv'
    <2>1. at'[2] \in {"end", "starts"} => at[2] \in {"end", "starts"}
      BY <1>10
    <2> QED
      BY <1>1, <1>5, <1>9, <2>1 DEF StartInv
  <1>15. CabInv'
    <2>1. /\ at'[2] \in TourLabels => at[2] \in TourLabels
          /\ at'[2] \in MoveLabels => at[2] \in MoveLabels
          /\ at'[2] = "sleepsFirst" => at[2] = "sleepsFirst"
      BY <1>10 DEF TourLabels, MoveLabels
    <2> QED
      BY <1>1, <1>11, <2>1 DEF CabInv
  <1>16. RequestInv'
    <2>1. /\ at'[2] \in OpenLabels => at[2] \in OpenLabels
          /\ at'[2] \in {"president", "directors"} => at[2] \in {"president", "directors"}
      BY <1>10 DEF OpenLabels
    <2>2. PresidentFiled => PresidentFiled'
      <3>1. "end" \notin LateLabels
        BY DEF LateLabels
      <3> QED
        BY <1>5, <1>6, <3>1 DEF PresidentFiled
    <2> QED
      BY <1>1, <1>11, <2>1, <2>2 DEF RequestInv
  <1>17. CountInv'
    BY <1>1, <1>5, CountersBorn
  <1> QED
    BY <1>3, <1>7, <1>8, <1>12, <1>13, <1>14, <1>15, <1>16, <1>17 DEF ElevatorInv

\* ... main,
LEMMA KeptByMain ==
  ASSUME ElevatorInv, main
  PROVE  ElevatorInv'
  <1>1. /\ TypedInv /\ WhoInv /\ MonInv /\ TypeOK
    BY DEF ElevatorInv, MonInv
  <1>2. /\ t_start(ElevatorLevel) /\ cpu = "t_start" /\ cpu' = "scheduler"
        /\ NewTcb(ElevatorLevel)
        /\ at' = [at EXCEPT ![1] = "forks"]
        /\ UNCHANGED <<monitorVars, program, forked, start, end, cabVars, bldVars, reqVars>>
    BY DEF main, t_start, timeVars, riderVars
  <1>3. gThreadID = 0 /\ forked = 0
    <2>1. gThreadID = 0
      BY <1>1, <1>2 DEF WhoInv, NobodyYet
    <2>2. forked \in Nat
      BY <1>1, ElevatorAssumption DEF TypedInv
    <2> QED
      BY <1>1, <2>1, <2>2 DEF WhoInv
  <1>4. ElevatorLevel \in Levels
    BY KernelAssumption DEF ElevatorLevel, Levels
  <1>5. PICK n \in Threads : n = 1
    BY <1>1, <1>2, <1>3, <1>4, NewTcbType
  <1>6. TypedInv'
    BY <1>1, <1>2 DEF TypedInv, Labels
  <1>7. OnePresident'
    <2>1. \A t \in Threads : ~IsRider(t)'
      <3>1. gThreadID' = 1
        BY <1>2, <1>3 DEF NewTcb
      <3>2. \A t \in Threads : t \in Nat
        BY DEF Threads
      <3> QED
        BY <3>1, <3>2 DEF IsRider, Born
    <2> QED
      BY <2>1 DEF OnePresident, IsPresident
  <1>8. n = gThreadID + 1
    BY <1>3, <1>5
  <1> QED
    BY <1>2, <1>3, <1>4, <1>5, <1>6, <1>7, <1>8, KeptByBirth

\* The script has at most one president.
LEMMA ScriptPresident ==
  ASSUME TypedInv, NEW i \in Who(program.script, President),
         NEW j \in Who(program.script, President)
  PROVE  i = j
  <1> DEFINE W == Who(program.script, President)
  <1>1. /\ Len(program.script) \in Nat /\ Cardinality(W) <= 1
    BY ElevatorAssumption DEF TypedInv
  <1>2. W \in SUBSET (1 .. Len(program.script)) /\ i \in W /\ j \in W
    BY DEF Who
  <1> HIDE DEF W
  <1>3. IsFiniteSet(W)
    <2>1. IsFiniteSet(1 .. Len(program.script))
      BY <1>1, FS_Interval
    <2> QED
      BY <1>2, <2>1, FS_Subset
  <1>4. Cardinality(W) \in Nat
    BY <1>3, FS_CardinalityType
  <1>5. Cardinality(W) = 1
    <2>1. Cardinality(W) # 0
      BY <1>2, <1>3, FS_EmptySet
    <2> QED
      BY <1>1, <1>4, <2>1 DEF W
  <1>6. PICK x : W = {x}
    BY <1>3, <1>5, FS_Singleton
  <1> QED
    BY <1>2, <1>6

\* A fork gives the script's next rider, or the elevator, to the thread system.
LEMMA KeptByForking ==
  ASSUME ElevatorInv, At("forks"), forked = 0 \/ forked \in 1 .. Len(program.script),
         \/ /\ forked = 0
            /\ t_fork(ElevatorLevel)
            /\ at' = [at EXCEPT ![gThreadID'] = "starts"]
            /\ UNCHANGED <<start, end>>
         \/ /\ forked # 0 /\ program.script[forked] # Yields
            /\ t_fork(program.script[forked].priority)
            /\ at' = [at EXCEPT ![gThreadID'] = "calls"]
            /\ start' = [start EXCEPT ![gThreadID'] = program.script[forked].start]
            /\ end' = [end EXCEPT ![gThreadID'] = program.script[forked].end],
         forked' = forked + 1,
         UNCHANGED <<monitorVars, program, cabVars, bldVars, reqVars>>
  PROVE  ElevatorInv'
  <1>1. /\ TypedInv /\ WhoInv /\ MonInv /\ TypeOK
    BY DEF ElevatorInv, MonInv
  <1>2. InBody /\ me = 1 /\ me \in Threads /\ Born(me)
    BY Running DEF At, FirstLabels
  <1>3. /\ MAX_FLOORS \in Nat /\ MAX_FLOORS >= 3 /\ TopPriority = President
        /\ program.script \in Seq(Journeys \cup {Yields})
    BY <1>1, ElevatorAssumption DEF TypedInv
  <1>4. PICK s : s = program.script
    OBVIOUS
  <1>5. /\ s \in Seq(Journeys \cup {Yields}) /\ Len(s) \in Nat /\ forked \in Nat
    BY <1>1, <1>3, <1>4 DEF TypedInv
  <1>6. PICK p \in Levels, n \in Threads, l \in {"starts", "calls"} :
          /\ t_fork(p) /\ n = gThreadID + 1
          /\ at' = [at EXCEPT ![n] = l]
          /\ \/ /\ n = 2 /\ l = "starts" /\ p = ElevatorLevel
                /\ forked = 0 /\ UNCHANGED <<start, end>>
             \/ /\ n > 2 /\ l = "calls" /\ forked \in 1 .. Len(s)
                /\ p \in Employee .. President /\ p = s[forked].priority
                /\ s[forked].start \in Stops /\ s[forked].end \in Stops
                /\ start' = [start EXCEPT ![n] = s[forked].start]
                /\ end' = [end EXCEPT ![n] = s[forked].end]
    <2>1. \A p \in Levels : t_fork(p) => /\ gThreadID + 1 \in Threads
                                         /\ gThreadID' = gThreadID + 1
      BY <1>1, NewTcbType DEF t_fork, NewTcb
    <2>2. gThreadID \in Nat
      BY <1>1, KernelAssumption DEF TypeOK
    <2>3. CASE forked = 0
      <3>1. gThreadID <= 1 /\ 1 <= gThreadID
        BY <1>1, <1>2, <2>3 DEF WhoInv, Born
      <3>2. gThreadID + 1 = 2
        BY <2>2, <3>1
      <3>3. ElevatorLevel \in Levels
        BY KernelAssumption DEF ElevatorLevel, Levels
      <3> QED
        BY <2>1, <2>3, <3>2, <3>3
    <2>4. CASE forked # 0
      <3>1. gThreadID >= 2
        BY <1>1, <1>5, <2>4 DEF WhoInv
      <3>2. gThreadID + 1 > 2
        BY <2>2, <3>1
      <3>3. forked \in 1 .. Len(s) /\ s[forked] \in Journeys
        BY <1>4, <1>5, <2>4
      <3>4. /\ s[forked].priority \in Employee .. President
            /\ s[forked].start \in Stops /\ s[forked].end \in Stops
        BY <3>3 DEF Journeys, Rider
      <3>5. s[forked].priority \in Levels
        BY <1>3, <3>4 DEF Levels, Employee, President
      <3> QED
        BY <1>4, <2>1, <2>4, <3>2, <3>3, <3>4, <3>5
    <2> QED
      BY <2>3, <2>4
  <1>7. cpu' = "scheduler" \/ currentRunningThread' = 1
    BY <1>2, <1>6 DEF t_fork, Requeue, Park, me
  <1>8. Stops \subseteq Floors
    BY <1>3 DEF Stops, Floors
  <1>9. TypedInv'
    <2>1. forked' \in 0 .. Len(program.script) + 2
      BY <1>4, <1>5, <1>6
    <2>2. at' \in [Threads -> Labels]
      BY <1>1, <1>6 DEF TypedInv, Labels
    <2>3. start' \in [Threads -> Floors] /\ end' \in [Threads -> Floors]
      BY <1>1, <1>6, <1>8 DEF TypedInv
    <2> QED
      BY <1>1, <2>1, <2>2, <2>3 DEF TypedInv
  <1>10. /\ \A t \in Threads : t # n => start'[t] = start[t] /\ end'[t] = end[t]
         /\ l = "calls" => start'[n] \in Stops /\ end'[n] \in Stops
    BY <1>1, <1>6 DEF TypedInv
  <1>11. OnePresident'
    <2>1. /\ priority' = [priority EXCEPT ![n] = p] /\ gThreadID' = n /\ ~Born(n)
          /\ \A t \in Threads : Born(t)' <=> Born(t) \/ t = n
      BY <1>1, <1>6, NewPlace DEF t_fork, NewTcb, MonInv
    <2>2. \A t \in Threads : t # n => (IsPresident(t)' <=> IsPresident(t))
      BY <1>1, <2>1 DEF IsPresident, IsRider, TypeOK
    <2>3. IsPresident(n)' => forked \in Who(program.script, President)
      <3>1. IsPresident(n)' => n > 2 /\ priority'[n] = President
        BY DEF IsPresident, IsRider
      <3>2. priority'[n] = p
        BY <1>1, <2>1 DEF TypeOK
      <3>3. n > 2 => forked \in 1 .. Len(s) /\ p = s[forked].priority
        BY <1>6
      <3> QED
        BY <1>4, <3>1, <3>2, <3>3 DEF Who
    <2>4. ASSUME NEW t \in Threads, IsPresident(t)'
          PROVE  \E i \in Who(program.script, President) : i < forked'
      <3>1. CASE t = n
        BY <1>5, <2>3, <2>4, <3>1
      <3>2. CASE t # n
        <4>1. PICK i \in Who(program.script, President) : i < forked
          BY <1>1, <2>2, <2>4, <3>2 DEF WhoInv, OnePresident
        <4>2. i \in Int
          BY <4>1 DEF Who
        <4> QED
          BY <1>5, <4>1, <4>2
      <3> QED
        BY <3>1, <3>2
    <2>5. ASSUME NEW t \in Threads, NEW u \in Threads, IsPresident(t)', IsPresident(u)'
          PROVE  t = u
      <3>1. ASSUME NEW v \in Threads, v # n, IsPresident(v)' PROVE ~IsPresident(n)'
        <4>1. PICK i \in Who(program.script, President) : i < forked
          BY <1>1, <2>2, <3>1 DEF WhoInv, OnePresident
        <4>2. i \in Int /\ i # forked
          BY <1>5, <4>1 DEF Who
        <4> QED
          BY <1>1, <2>3, <4>1, <4>2, ScriptPresident
      <3>2. CASE t # n /\ u # n
        BY <1>1, <2>2, <2>5, <3>2 DEF WhoInv, OnePresident
      <3> QED
        BY <2>5, <3>1, <3>2
    <2>6. Who(program.script, President)' = Who(program.script, President)
      BY DEF Who
    <2> QED
      BY <2>4, <2>5, <2>6 DEF OnePresident
  <1>12. forked' > 0
    BY <1>5
  <1> QED
    BY <1>6, <1>7, <1>9, <1>10, <1>11, <1>12, KeptByBirth

\* firstThread yields, or comes to its end.
LEMMA KeptByGoingOn ==
  ASSUME ElevatorInv, At("forks"), forked \in 1 .. Len(program.script) + 1,
         forked' = forked + 1,
         NEW l \in FirstLabels, Goes(l),
         t_yield \/ UNCHANGED kernelVars,
         UNCHANGED <<monitorVars, program, start, end, cabVars, bldVars, reqVars>>
  PROVE  ElevatorInv'
  <1>1. /\ TypedInv /\ WhoInv /\ WaitsInv /\ DoorInv /\ StartInv /\ CabInv
        /\ RequestInv /\ CountInv /\ MonInv
    BY DEF ElevatorInv
  <1>2. InBody /\ me = 1 /\ me \in Threads /\ cpu # "t_start"
    BY Running DEF At, FirstLabels, InBody
  <1>3. /\ MonInv' /\ ReadyInv'
        /\ \A t \in Threads : \A c \in Conds : Waits(t, c)' <=> Waits(t, c)
        /\ UNCHANGED <<gThreadID, priority, currentRunningThread, pc>> /\ cpu' # "t_start"
    <2>1. CASE t_yield
      <3>1. /\ KernelNext /\ UNCHANGED joinVars /\ cpu' = "scheduler"
            /\ UNCHANGED <<gThreadID, priority, currentRunningThread, pc>>
        BY <2>1 DEF KernelNext, t_yield, Requeue, Park, tcbVars, exitVars
      <3> QED
        BY <3>1, KernelKeeps
    <2>2. CASE UNCHANGED kernelVars
      <3>1. UNCHANGED <<joinVars, gThreadID, priority, currentRunningThread, pc, cpu>>
        BY <2>2 DEF kernelVars, joinVars
      <3>2. MonInv' /\ ReadyInv'
        BY <1>1, <2>2, <3>1, MonKernel, ReadyStep DEF ElevatorInv
      <3> QED
        BY <1>2, <3>1, <3>2 DEF monitorVars, Waits
    <2> QED
      BY <2>1, <2>2
  <1>4. Moves(l) /\ SameFunction(at[me], l) /\ l \in Labels
    BY <1>2, <1>3 DEF Moves, SameFunction, At, FirstLabels, Labels
  <1>5. /\ TypedInv' /\ WhoInv'
        /\ \A t \in Threads : at'[t] = IF t = me THEN l ELSE at[t]
        /\ \A t \in Threads : IsPresident(t)' <=> IsPresident(t)
    <2>1. forked > 0 /\ forked < Len(program.script) + 2
      BY <1>1, ElevatorAssumption DEF TypedInv
    <2> QED
      BY <1>4, <2>1, WhoMoves
  <1>6. WaitsInv'
    BY <1>3, <1>4, WaitsMoves
  <1>7. /\ at[me] \notin RiderLabels /\ l \notin RiderLabels
        /\ at[me] \notin InsideLabels /\ l \notin InsideLabels
        /\ at[me] \notin OutsideLabels /\ l \notin OutsideLabels
        /\ at[me] \notin LateLabels /\ l \notin LateLabels
        /\ \A p : at[me] \notin SetLabels(p) /\ l \notin SetLabels(p)
        /\ l \notin {"enters", "exits", "rides", "awaits", "wakes"}
        /\ at[me] \notin {"awaits", "wakes"}
    BY DEF At, FirstLabels, RiderLabels, EarlyLabels, LateLabels, InsideLabels, OutsideLabels,
           SetLabels
  <1>8. at'[2] = at[2]
    BY <1>1, <1>2 DEF Goes, TypedInv
  <1>9. \A t \in Threads : (Comes(t)' => Comes(t)) /\ (Leaves(t)' => Leaves(t))
    <2>1. ASSUME NEW t \in Threads, t # me
          PROVE  (Comes(t)' => Comes(t)) /\ (Leaves(t)' => Leaves(t))
      BY <1>5, <2>1 DEF Comes, Leaves, Waits, Towards, monitorVars, going, requests
    <2>2. ~Comes(me)' /\ ~Leaves(me)'
      <3>1. \A t \in Threads : t = me => ~Comes(t)' /\ ~Leaves(t)'
        BY <1>5, <1>7 DEF Comes, Leaves
      <3> QED
        BY <1>2, <1>3, <3>1 DEF me
    <2> QED
      BY <1>2, <1>3, <2>1, <2>2 DEF me
  <1>10. UNCHANGED <<state, direction, currentFloor, visit, numEnter, numExit, numSpaces,
                     reqSFP, reqEFP>>
    BY DEF cabVars, elvVars, localVars, reqVars
  <1>11. QuietInv'
    BY <1>2, <1>3 DEF QuietInv, OnProcessor, me
  <1>12. DoorInv' /\ CabInv'
    BY <1>1, <1>8, <1>9, <1>10 DEF DoorInv, CabInv
  <1>13. StartInv'
    BY <1>1, <1>5, <1>7, <1>8, <1>9 DEF StartInv, InsideLabels
  <1>14. RequestInv'
    <2>1. PresidentFiled => PresidentFiled'
      BY <1>5, <1>7 DEF PresidentFiled
    <2> QED
      BY <1>1, <1>8, <1>10, <2>1 DEF RequestInv
  <1>15. CountInv'
    <2>1. PICK t \in Threads : t = me
      BY <1>2
    <2>2. /\ at' = [at EXCEPT ![t] = l]
          /\ l \notin OutsideLabels \ {"adds"} /\ at[t] \notin OutsideLabels \ {"adds"}
      BY <1>7, <2>1 DEF Goes
    <2> HIDE DEF InsideLabels, OutsideLabels, SetLabels
    <2> QED
      BY <1>1, <1>3, <1>7, <2>1, <2>2, CountersStay
  <1> QED
    BY <1>3, <1>5, <1>6, <1>11, <1>12, <1>13, <1>14, <1>15 DEF ElevatorInv

\* Every step of firstThread keeps the invariant.
LEMMA KeptByFirstThread ==
  ASSUME ElevatorInv, firstThread
  PROVE  ElevatorInv'
  <1>1. /\ At("forks") /\ forked' = forked + 1 /\ TypedInv
        /\ UNCHANGED <<monitorVars, program, cabVars, bldVars, reqVars>>
        /\ Len(program.script) \in Nat
    BY ElevatorAssumption DEF firstThread, timeVars, ElevatorInv, TypedInv
  <1>2. at[me] = "forks" /\ at = [at EXCEPT ![me] = "forks"]
    BY <1>1 DEF At, TypedInv
  <1>3. CASE UNCHANGED <<at, start, end>> /\ t_yield /\ forked \in 1 .. Len(program.script)
    <2>1. PICK l \in FirstLabels : l = "forks"
      BY DEF FirstLabels
    <2>2. Goes(l) /\ forked \in 1 .. Len(program.script) + 1
      BY <1>1, <1>2, <1>3, <2>1 DEF Goes
    <2> QED
      BY <1>1, <1>3, <2>2, KeptByGoingOn
  <1>4. CASE /\ Goes("end") /\ UNCHANGED <<kernelVars, start, end>>
             /\ forked = Len(program.script) + 1
    <2>1. PICK l \in FirstLabels : l = "end"
      BY DEF FirstLabels
    <2>2. Goes(l) /\ forked \in 1 .. Len(program.script) + 1
      BY <1>1, <1>4, <2>1
    <2> QED
      BY <1>1, <1>4, <2>2, KeptByGoingOn
  <1>5. CASE ~(UNCHANGED <<at, start, end>> /\ t_yield /\ forked \in 1 .. Len(program.script))
             /\ ~(/\ Goes("end") /\ UNCHANGED <<kernelVars, start, end>>
                  /\ forked = Len(program.script) + 1)
    <2>1. /\ forked = 0 \/ forked \in 1 .. Len(program.script)
          /\ \/ /\ forked = 0
                /\ t_fork(ElevatorLevel)
                /\ at' = [at EXCEPT ![gThreadID'] = "starts"]
                /\ UNCHANGED <<start, end>>
             \/ /\ forked # 0 /\ program.script[forked] # Yields
                /\ t_fork(program.script[forked].priority)
                /\ at' = [at EXCEPT ![gThreadID'] = "calls"]
                /\ start' = [start EXCEPT ![gThreadID'] = program.script[forked].start]
                /\ end' = [end EXCEPT ![gThreadID'] = program.script[forked].end]
      BY <1>5 DEF firstThread
    <2> QED
      BY <1>1, <2>1, KeptByForking
  <1> QED
    BY <1>3, <1>4, <1>5

-----------------------------------------------------------------------------
(* The theorems. *)

\* The program starts with the invariant,
LEMMA ElevatorStarts == ElevatorInit => ElevatorInv
  <1> SUFFICES ASSUME ElevatorInit PROVE ElevatorInv
    OBVIOUS
  <1>1. MonInv /\ ReadyInv
    BY MonInit, PriorityInit DEF ElevatorInit, PriorityInv, ReadyInv
  <1>2. /\ MAX_FLOORS \in Nat /\ MAX_FLOORS >= 3 /\ program \in Programs
        /\ Len(program.script) \in Nat
    BY ElevatorAssumption DEF ElevatorInit
  <1>3. /\ cpu = "t_start" /\ gThreadID = 0 /\ forked = 0
        /\ \A t \in Threads : ~Born(t) /\ at[t] = "end" /\ start[t] = 0 /\ end[t] = 0
    BY DEF ElevatorInit, KernelInit, Born, Threads
  <1>4. TypedInv
    <2>1. 0 \in Floors
      BY <1>2 DEF Floors
    <2> QED
      BY <1>2, <2>1 DEF ElevatorInit, TypedInv, Labels
  <1>5. WhoInv
    BY <1>3 DEF WhoInv, NobodyYet, Placed, OnePresident, IsPresident, IsRider
  <1>6. WaitsInv
    <2>1. \A t \in Threads : \A c \in Conds : ~Waits(t, c)
      BY <1>1, <1>3 DEF MonInv, WaitersParked, Parked
    <2> QED
      BY <2>1 DEF WaitsInv
  <1>7. at[2] \notin OpenLabels \cup TourLabels \cup MoveLabels \cup {"sleepsFirst"}
    <2>1. Len(program.script) + 2 <= MaxThreads /\ MaxThreads \in Nat
      BY <1>2, ElevatorAssumption, KernelAssumption
    <2>2. 2 \in Threads
      BY <1>2, <2>1 DEF Threads
    <2> QED
      BY <1>3, <2>2 DEF OpenLabels, TourLabels, MoveLabels
  <1>8. \A t \in Threads : ~Comes(t) /\ ~Leaves(t)
    BY <1>3 DEF Comes, Leaves
  <1>9. QuietInv /\ DoorInv /\ StartInv
    BY <1>3, <1>7, <1>8 DEF QuietInv, InDoor, DoorInv, StartInv
  <1>10. CabInv
    BY <1>7 DEF ElevatorInit, CabInv, Dirs
  <1>11. RequestInv
    BY <1>7 DEF ElevatorInit, RequestInv, OpenLabels, TourLabels
  <1>12. CountInv
    <2>1. ASSUME NEW K \in SUBSET Threads, NEW A, "end" \notin A PROVE HowMany(K, A, at) = 0
      <3>1. Among(K, A, at) = {}
        BY <1>3, <2>1 DEF Among
      <3> QED
        BY <3>1, FS_EmptySet DEF HowMany
    <2>2. /\ "end" \notin InsideLabels /\ "end" \notin OutsideLabels
          /\ "end" \notin {"awaits", "wakes"} /\ \A p : "end" \notin SetLabels(p)
      BY DEF InsideLabels, OutsideLabels, SetLabels
    <2>3. /\ \A p : OfRank(p) \in SUBSET Threads
          /\ \A f : GoesTo(f) \in SUBSET Threads
          /\ \A d, f : CallsFrom(d, f) \in SUBSET Threads
      BY DEF OfRank, GoesTo, CallsFrom
    <2> HIDE DEF InsideLabels, OutsideLabels, SetLabels
    <2> QED
      BY <2>1, <2>2, <2>3 DEF ElevatorInit, CountInv
  <1> QED
    BY <1>1, <1>4, <1>5, <1>6, <1>9, <1>10, <1>11, <1>12 DEF ElevatorInv

\* ... every step but one that misleads the elevator keeps it,
LEMMA ElevatorSteps ==
  ElevatorInv /\ ~misled' /\ [ElevatorNext]_elevatorVars => ElevatorInv'
  <1> SUFFICES ASSUME ElevatorInv, ~misled', [ElevatorNext]_elevatorVars PROVE ElevatorInv'
    OBVIOUS
  <1>1. CASE main
    BY <1>1, KeptByMain
  <1>2. CASE firstThread
    BY <1>2, KeptByFirstThread
  <1>3. CASE elevatorStep
    BY <1>3, KeptByElevator
  <1>4. CASE riderStep
    BY <1>4, KeptByRiders
  <1>5. CASE ThreadSystem
    BY <1>5, KeptBySystem
  <1>6. CASE UNCHANGED elevatorVars
    <2>1. /\ UNCHANGED <<kernelVars, monitorVars, program, forked, at, start, end, cabVars,
                         bldVars, reqVars>>
      BY <1>6 DEF elevatorVars, timeVars, riderVars
    <2>2. UNCHANGED <<joinVars, gThreadID, priority, currentRunningThread, pc, cpu>>
      BY <2>1 DEF kernelVars, joinVars
    <2>3. MonInv' /\ ReadyInv'
      BY <2>1, <2>2, MonKernel, ReadyStep DEF ElevatorInv
    <2> QED
      BY <2>1, <2>2, <2>3, SystemKeeps
  <1> QED
    BY <1>1, <1>2, <1>3, <1>4, <1>5, <1>6, NoStray DEF ElevatorNext, ThreadSystem

\* ... which stays misled,
LEMMA MisledStays == misled /\ [ElevatorNext]_elevatorVars => misled'
  <1> SUFFICES ASSUME misled, [ElevatorNext]_elevatorVars PROVE misled'
    OBVIOUS
  <1>1. CASE begins
    BY <1>1 DEF begins
  <1>2. CASE elevatorStep
    BY <1>2
    DEF elevatorStep, starts, looks, decides, president, directors, employees, letsEnter,
        letsExit, boards, alights, shuts, rests, stops, sleeps, moves, yields, arrives,
        Yielding, Calls, Own, timeVars
  <1>3. CASE riderStep \/ stray
    BY <1>3
    DEF riderStep, stray, calls, hails, queues, adds, asks, awaits, wakes, files1, files2,
        attends, enters, rides, exits, announces, signals, quits, Does, Calls, Own, timeVars
  <1>4. CASE \/ main \/ firstThread \/ returns \/ systemStep \/ tick \/ Kernel(halted)
             \/ UNCHANGED elevatorVars
    BY <1>4
    DEF main, firstThread, returns, systemStep, tick, Kernel, elevatorVars, timeVars
  <1> QED
    BY <1>1, <1>2, <1>3, <1>4 DEF ElevatorNext

\* ... so it always holds, until then.
LEMMA ElevatorAlways == ElevatorSpec => [](misled \/ ElevatorInv)
  <1>1. /\ ElevatorInit => misled \/ ElevatorInv
        /\ (misled \/ ElevatorInv) /\ [ElevatorNext]_elevatorVars => (misled \/ ElevatorInv)'
    BY ElevatorStarts, ElevatorSteps, MisledStays
  <1> QED
    BY <1>1, PTL DEF ElevatorSpec

\* who the riders are
LEMMA RidersAre ==
  ASSUME ElevatorInv, NEW t \in Threads
  PROVE  /\ t \in Riders <=> IsRider(t)
         /\ at[t] \in InsideLabels \cup OutsideLabels => t \in Riders
  <1>1. Placed(t)
    BY DEF ElevatorInv, WhoInv
  <1>2. t \in Nat /\ t >= 1
    BY DEF Threads
  <1>3. t \in Riders <=> IsRider(t)
    BY <1>1, <1>2 DEF Riders, Placed, IsRider, Employee, ElevatorLevel
  <1>4. at[t] \in InsideLabels \cup OutsideLabels => at[t] \in RiderLabels
    BY DEF InsideLabels, OutsideLabels, RiderLabels, EarlyLabels, LateLabels
  <1>5. at[t] \in RiderLabels => IsRider(t)
    BY Labelled DEF ElevatorInv, ReadyInv
  <1> HIDE DEF InsideLabels, OutsideLabels, RiderLabels
  <1> QED
    BY <1>3, <1>4, <1>5

\* A rider gets in and out through an open door, at the floors of his choice,
\* whatever the script of firstThread and wherever slices end, as long as the elevator
\* began with its own function.
THEOREM ElevatorFloors == ElevatorSpec => [](misled \/ RightFloor)
  <1>1. ElevatorInv => RightFloor
    <2> SUFFICES ASSUME ElevatorInv, NEW t \in Riders, OnProcessor(t)
                 PROVE  /\ at[t] = "enters" =>
                             state = "DOOR_OPENED" /\ currentFloor = start[t]
                        /\ at[t] = "exits" =>
                             state = "DOOR_OPENED" /\ currentFloor = end[t]
      BY DEF RightFloor
    <2>1. t \in Threads /\ TypedInv
      BY DEF Riders, ElevatorInv
    <2>2. \A c \in Conds : ~Waits(t, c)
      BY <2>1 DEF ElevatorInv, MonInv, WaitersParked, Parked
    <2>3. /\ at[t] = "enters" => Comes(t)
          /\ at[t] = "exits" => Leaves(t)
      BY <2>1, <2>2, OwnConds DEF Comes, Leaves
    <2> QED
      BY <2>1, <2>3 DEF ElevatorInv, DoorInv
  <1> QED
    BY <1>1, ElevatorAlways, PTL

\* The counters the elevator goes by are the numbers of riders who are inside, of
\* each rank and for each floor, and of those who wait outside: as long as the elevator
\* began with its own function.
THEOREM ElevatorCounts == ElevatorSpec => []RidersCounted
  <1>1. misled \/ ElevatorInv => RidersCounted
    <2> SUFFICES ASSUME ElevatorInv PROVE RidersCounted
      BY DEF RidersCounted
    <2> DEFINE Outside == {t \in Riders : at[t] \in OutsideLabels}
    <2>1. \A t \in Threads : at[t] \in InsideLabels \cup OutsideLabels => t \in Riders
      BY RidersAre
    <2>2. Riders \subseteq Threads
      BY DEF Riders
    <2>3. Inside = Among(Threads, InsideLabels, at)
      BY <2>1, <2>2 DEF Inside, Among, InsideLabels
    <2>4. \A p : {t \in Inside : priority[t] = p} = Among(OfRank(p), InsideLabels, at)
      BY <2>3 DEF Among, OfRank
    <2>5. \A f : {t \in Inside : end[t] = f} = Among(GoesTo(f), InsideLabels, at)
      BY <2>3 DEF Among, GoesTo
    <2>6. {t \in Outside : at[t] # "adds"} = Among(Threads, OutsideLabels \ {"adds"}, at)
      BY <2>1, <2>2 DEF Among
    <2>7. \A d, f : {t \in Outside : start[t] = f /\ Towards(t) = d}
                      = Among(CallsFrom(d, f), OutsideLabels, at)
      BY <2>1, <2>2 DEF Among, CallsFrom
    <2>8. CountInv
      BY DEF ElevatorInv
    <2>9. numRiders = Cardinality(Inside)
      BY <2>3, <2>8 DEF CountInv, HowMany
    <2>10. \A p \in Employee .. President :
             ridersOf[p] = Cardinality({t \in Inside : priority[t] = p})
      BY <2>4, <2>8 DEF CountInv, HowMany
    <2>11. \A f \in Floors : numWaiters[f] = Cardinality({t \in Inside : end[t] = f})
      BY <2>5, <2>8 DEF CountInv, HowMany
    <2>12. bldWaiters = Cardinality({t \in Outside : at[t] # "adds"})
      BY <2>6, <2>8 DEF CountInv, HowMany
    <2>13. \A d \in Dirs : \A f \in Floors :
             num[d][f] = Cardinality({t \in Outside : start[t] = f /\ Towards(t) = d})
      <3> SUFFICES ASSUME NEW d \in Dirs, NEW f \in Floors
                   PROVE  num[d][f] =
                            Cardinality({t \in Outside : start[t] = f /\ Towards(t) = d})
        OBVIOUS
      <3>1. num[d][f] = HowMany(CallsFrom(d, f), OutsideLabels, at)
        BY <2>8 DEF CountInv
      <3>2. num[d][f] = Cardinality(Among(CallsFrom(d, f), OutsideLabels, at))
        BY <3>1 DEF HowMany
      <3>3. {t \in Outside : start[t] = f /\ Towards(t) = d}
              = Among(CallsFrom(d, f), OutsideLabels, at)
        BY <2>7
      <3> QED
        BY ONLY <3>2, <3>3
    <2> QED
      BY <2>9, <2>10, <2>11, <2>12, <2>13 DEF RidersCounted, OutsideLabels
  <1> QED
    BY <1>1, ElevatorAlways, PTL

-----------------------------------------------------------------------------
(* Who moves while nobody of the lowest level does.                         *)

\* A rider is out of the way: he waits, or is gone.
Stands(t) == pc[t] = "done" \/ \E c \in Conds : Waits(t, c)

\* He was woken, or is about to wake others, because the elevator is empty.
Loose(t) == at[t] = "announces" \/ (at[t] = "wakes" /\ ~Waits(t, emptyElevator))

\* While firstThread or the elevator is on the processor every rider stands, but
\* for the one the elevator has just called.
CalmInv ==
  \A t \in {1, 2} : OnProcessor(t) /\ (t = 2 => at[2] \notin {"boards", "alights"}) =>
    \A u \in Threads : IsRider(u) => Stands(u)

\* One goes through the door at a time, and nobody else is about.
LoneInv ==
  \A t \in Threads : InDoor(t) => \A u \in Threads : u # t /\ IsRider(u) => Stands(u)

\* Riders come in before others get out.
PassInv ==
  /\ \A t \in Threads : Comes(t) => at[2] \in {"letsEnter", "boards", "letsExit", "shuts"}
  /\ \A t \in Threads : Leaves(t) => at[2] \in {"alights", "letsExit", "shuts"}
  /\ at[2] \in {"letsEnter", "boards"} => \A t \in Threads : ~Loose(t)

MoveInv == CalmInv /\ LoneInv /\ PassInv

\* Every script is for firstThread and the elevator.
LEMMA TwoThreads == ASSUME ElevatorInv PROVE 1 \in Threads /\ 2 \in Threads
  <1>1. PICK g \in Programs : g = program
    BY DEF ElevatorInv, TypedInv
  <1>2. MaxThreads \in Nat /\ Len(g.script) + 2 <= MaxThreads
        /\ g.script \in Seq(Journeys \cup {Yields})
    BY ElevatorAssumption, KernelAssumption
  <1>3. Len(g.script) \in Nat
    BY <1>2
  <1> QED
    BY <1>2, <1>3 DEF Threads

\* Where somebody who stands is.
LEMMA StandsAt ==
  ASSUME ElevatorInv, NEW t \in Threads, IsRider(t), Stands(t)
  PROVE  /\ at[t] \in {"wakes", "enters", "exits", "quits"}
         /\ at[t] = "wakes" => Waits(t, emptyElevator)
         /\ at[t] = "enters" => Waits(t, going(Towards(t), start[t]))
         /\ at[t] = "exits" => Waits(t, requests(end[t]))
         /\ ~InDoor(t) /\ ~Loose(t)
  <1>1. Placed(t) /\ t # 2
    BY DEF ElevatorInv, WhoInv, IsRider
  <1>2. CASE pc[t] = "done"
    <2>1. at[t] = "quits"
      BY <1>1, <1>2 DEF Placed
    <2> QED
      BY <2>1 DEF InDoor, Comes, Leaves, Loose
  <1>3. CASE \E c \in Conds : Waits(t, c)
    <2>1. PICK c \in Conds : Waits(t, c)
      BY <1>3
    <2>2. \/ c = emptyElevator /\ at[t] = "wakes"
          \/ c = going(Towards(t), start[t]) /\ at[t] = "enters"
          \/ c = requests(end[t]) /\ at[t] = "exits"
      BY <1>1, <2>1 DEF ElevatorInv, WaitsInv
    <2> QED
      BY <2>1, <2>2 DEF InDoor, Comes, Leaves, Loose
  <1> QED
    BY <1>2, <1>3 DEF Stands

\* The steps of a rider from label to label
RiderArcs == QuietMoves \cup
  {<<"queues", "adds">>, <<"adds", "asks">>, <<"asks", "awaits">>, <<"wakes", "files1">>,
   <<"files1", "files2">>, <<"files2", "attends">>, <<"enters", "rides">>,
   <<"exits", "announces">>, <<"exits", "signals">>}

\* The forms a step of a rider has
RiderDoes(l) ==
  /\ <<at[me], l>> \in RiderArcs
  /\ InBody /\ Goes(l)
  /\ UNCHANGED <<program, ticksLeft, caught, misled, forked, start, end, cabVars>>
  /\ \/ (Own \/ sig(elv_wait)) /\ l \notin {"wakes", "enters", "exits"}
     \/ sig(emptyElevator) /\ at[me] = "announces" /\ l \notin {"wakes", "enters", "exits"}
     \/ t_wait(emptyElevator) /\ l = "wakes"
     \/ (\E t \in Threads : t = me /\ t_wait(going(Towards(t), start[t]))) /\ l = "enters"
     \/ (\E t \in Threads : t = me /\ t_wait(requests(end[t]))) /\ l = "exits"
     \/ t_exit /\ UNCHANGED monitorVars /\ l = "quits" /\ at[me] = "quits"

\* A step of a rider has one of these forms.
LEMMA RiderForms ==
  ASSUME ElevatorInv, riderStep
  PROVE  \E l \in RiderLabels : RiderDoes(l)
  <1>1. me \in Threads
    <2>1. InBody
      BY DEF riderStep, calls, hails, queues, adds, asks, awaits, wakes, files1, files2, attends,
             enters, rides, exits, announces, signals, quits, Does, Calls, At
    <2> QED
      BY <2>1, Running
  <1>0. \A m : <<at[me], m>> \in RiderArcs => m \in RiderLabels
    BY DEF RiderArcs, QuietMoves, RiderLabels, EarlyLabels, LateLabels
  <1>2. CASE calls \/ queues \/ adds \/ asks \/ wakes \/ files1 \/ files2 \/ exits
    <2>1. PICK l \in {"hails", "queues", "adds", "asks", "awaits", "files1", "files2", "attends",
                      "announces", "signals"} :
            <<at[me], l>> \in RiderArcs /\ Does(at[me], l)
      BY <1>2 DEF calls, queues, adds, asks, wakes, files1, files2, exits, Does, At, RiderArcs,
                  QuietMoves
    <2>2. RiderDoes(l)
      BY <2>1 DEF RiderDoes, Does, At, Own, timeVars
    <2> QED
      BY <1>0, <2>1, <2>2
  <1>3. CASE hails \/ signals \/ enters
    <2>1. PICK l \in {"queues", "quits", "rides"} :
            /\ <<at[me], l>> \in RiderArcs /\ InBody /\ Goes(l) /\ sig(elv_wait)
            /\ UNCHANGED <<program, ticksLeft, caught, misled, forked, start, end, cabVars>>
      BY <1>3 DEF hails, signals, enters, Calls, At, RiderArcs, QuietMoves, timeVars, riderVars
    <2>2. RiderDoes(l)
      BY <2>1 DEF RiderDoes
    <2> QED
      BY <1>0, <2>1, <2>2
  <1>4. CASE announces
    <2>1. PICK l \in {"announces", "signals"} :
            /\ <<at[me], l>> \in RiderArcs /\ InBody /\ Goes(l) /\ sig(emptyElevator)
            /\ at[me] = "announces"
            /\ UNCHANGED <<program, ticksLeft, caught, misled, forked, start, end, cabVars>>
      BY <1>4 DEF announces, At, RiderArcs, QuietMoves, timeVars
    <2>2. RiderDoes(l)
      BY <2>1 DEF RiderDoes
    <2> QED
      BY <1>0, <2>1, <2>2
  <1>5. CASE awaits
    <2>1. RiderDoes("wakes")
      BY <1>5 DEF awaits, Calls, At, RiderArcs, QuietMoves, timeVars, riderVars, RiderDoes
    <2> QED
      BY <2>1 DEF RiderLabels, EarlyLabels
  <1>6. CASE attends
    <2>1. RiderDoes("enters")
      BY <1>1, <1>6 DEF attends, Calls, At, RiderArcs, QuietMoves, timeVars, riderVars,
                        RiderDoes, MyDir
    <2> QED
      BY <2>1 DEF RiderLabels, LateLabels
  <1>7. CASE rides
    <2>1. RiderDoes("exits")
      BY <1>1, <1>7 DEF rides, Calls, At, RiderArcs, QuietMoves, timeVars, riderVars, RiderDoes
    <2> QED
      BY <2>1 DEF RiderLabels, LateLabels
  <1>8. CASE quits
    <2>1. RiderDoes("quits")
      BY <1>8 DEF quits, Calls, At, RiderArcs, QuietMoves, timeVars, riderVars, RiderDoes
    <2> QED
      BY <2>1 DEF RiderLabels, LateLabels
  <1> QED
    BY <1>2, <1>3, <1>4, <1>5, <1>6, <1>7, <1>8 DEF riderStep

\* ... and what they do to the threads.
LEMMA RiderEffects ==
  ASSUME ElevatorInv, NEW l \in RiderLabels, RiderDoes(l)
  PROVE  /\ me \in Threads /\ IsRider(me) /\ me # 1 /\ me # 2 /\ pc[me] = "body"
         /\ \A c \in Conds : ~Waits(me, c)
         /\ UNCHANGED <<currentRunningThread, gThreadID, priority, start, end>>
         /\ \A t \in Threads : at'[t] = IF t = me THEN l ELSE at[t]
         /\ \A t \in Threads : t # me => pc'[t] = pc[t]
         /\ \A t \in Threads : IsRider(t)' <=> IsRider(t)
         /\ \A t \in Threads : \A c \in Conds :
              t # me /\ c # elv_wait /\ (c = emptyElevator => at[me] # "announces") =>
                (Waits(t, c)' <=> Waits(t, c))
         /\ \A t \in Threads :
              t = me => /\ l = "wakes" => Waits(t, emptyElevator)'
                        /\ l = "enters" => Waits(t, going(Towards(t), start[t]))'
                        /\ l = "exits" => Waits(t, requests(end[t]))'
  <1>1. /\ InBody /\ Goes(l) /\ at[me] \in RiderLabels /\ UNCHANGED <<start, end>>
    BY DEF RiderDoes, RiderArcs, QuietMoves, RiderLabels, EarlyLabels, LateLabels
  <1>2. /\ me \in Threads /\ IsRider(me) /\ me # 1 /\ me # 2 /\ pc[me] = "body"
        /\ \A c \in Conds : ~Waits(me, c)
    BY <1>1, Running DEF IsRider
  <1>3. \A t \in Threads : at'[t] = IF t = me THEN l ELSE at[t]
    BY <1>1 DEF Goes, ElevatorInv, TypedInv
  <1>4. emptyElevator \in Conds /\ elv_wait \in Conds
    BY CondsDiffer
  <1>5. PICK x \in Threads : x = me
    BY <1>2
  <1>6. /\ going(Towards(x), start[x]) \in Conds /\ requests(end[x]) \in Conds
        /\ going(Towards(x), start[x])' = going(Towards(x), start[x])
        /\ requests(end[x])' = requests(end[x]) /\ emptyElevator' = emptyElevator
    BY <1>1, OwnConds DEF ElevatorInv, going, requests, Towards, emptyElevator
  <1>7. \/ Own \/ sig(elv_wait)
        \/ sig(emptyElevator) /\ at[me] = "announces"
        \/ t_wait(emptyElevator) /\ l = "wakes"
        \/ t_wait(going(Towards(x), start[x])) /\ l = "enters"
        \/ t_wait(requests(end[x])) /\ l = "exits"
        \/ t_exit /\ UNCHANGED monitorVars
    BY <1>5 DEF RiderDoes
  <1>8. /\ UNCHANGED <<currentRunningThread, gThreadID, priority>>
        /\ \A t \in Threads : t # me => pc'[t] = pc[t]
        /\ \A t \in Threads : \A c \in Conds :
              t # me /\ c # elv_wait /\ (c = emptyElevator => at[me] # "announces") =>
                (Waits(t, c)' <=> Waits(t, c))
        /\ l = "wakes" => Waits(x, emptyElevator)'
        /\ l = "enters" => Waits(x, going(Towards(x), start[x]))'
        /\ l = "exits" => Waits(x, requests(end[x]))'
    <2>1. CASE Own /\ l \notin {"wakes", "enters", "exits"}
      BY <2>1, OwnKeeps
    <2>2. CASE sig(elv_wait) /\ l \notin {"wakes", "enters", "exits"}
      BY <1>4, <2>2, SigKeeps
    <2>3. CASE /\ sig(emptyElevator) /\ at[me] = "announces"
               /\ l \notin {"wakes", "enters", "exits"}
      BY <1>4, <2>3, SigKeeps
    <2>4. CASE t_wait(emptyElevator) /\ l = "wakes"
      <3>1. /\ \A t \in Threads : \A d \in Conds :
                 Waits(t, d)' <=> Waits(t, d) \/ (d = emptyElevator /\ t = me)
            /\ UNCHANGED <<gThreadID, priority, currentRunningThread, pc>>
        BY <1>4, <2>4, WaitKeeps
      <3>2. Waits(x, emptyElevator)'
        BY <1>4, <1>5, <1>6, <3>1
      <3> QED
        BY <2>4, <3>1, <3>2
    <2>5. CASE t_wait(going(Towards(x), start[x])) /\ l = "enters"
      <3>1. PICK c \in Conds : c = going(Towards(x), start[x])
        BY <1>6
      <3>2. /\ \A t \in Threads : \A d \in Conds :
                 Waits(t, d)' <=> Waits(t, d) \/ (d = c /\ t = me)
            /\ UNCHANGED <<gThreadID, priority, currentRunningThread, pc>>
        BY <2>5, <3>1, WaitKeeps
      <3>3. Waits(x, c)'
        BY <1>5, <3>2
      <3> QED
        BY <1>6, <2>5, <3>1, <3>2, <3>3
    <2>6. CASE t_wait(requests(end[x])) /\ l = "exits"
      <3>1. PICK c \in Conds : c = requests(end[x])
        BY <1>6
      <3>2. /\ \A t \in Threads : \A d \in Conds :
                 Waits(t, d)' <=> Waits(t, d) \/ (d = c /\ t = me)
            /\ UNCHANGED <<gThreadID, priority, currentRunningThread, pc>>
        BY <2>6, <3>1, WaitKeeps
      <3>3. Waits(x, c)'
        BY <1>5, <3>2
      <3> QED
        BY <1>6, <2>6, <3>1, <3>2, <3>3
    <2>7. CASE t_exit /\ UNCHANGED monitorVars /\ l = "quits"
      <3>1. pc' = [pc EXCEPT ![me] = "done"]
        BY <2>7 DEF t_exit, me
      <3>2. \A t \in Threads : t # me => pc'[t] = pc[t]
        BY <3>1 DEF ElevatorInv, MonInv, TypeOK
      <3>3. UNCHANGED <<currentRunningThread, gThreadID, priority, waiters>>
        BY <2>7 DEF t_exit, tcbVars, monitorVars
      <3> QED
        BY <2>7, <3>2, <3>3 DEF Waits
    <2> QED
      BY <1>5, <2>1, <2>2, <2>3, <2>4, <2>5, <2>6, <2>7 DEF RiderDoes
  <1>9. \A t \in Threads : IsRider(t)' <=> IsRider(t)
    BY <1>8 DEF IsRider, Born
  <1> QED
    BY <1>1, <1>2, <1>3, <1>5, <1>8, <1>9

\* After a step of a rider nobody is in the doorway.
LEMMA MoveRider ==
  ASSUME ElevatorInv, MoveInv, riderStep
  PROVE  /\ MoveInv'
         /\ \A t \in Threads : ~InDoor(t)'
         /\ \A t \in Threads : t # me => ~InDoor(t)
  <1>1. PICK l \in RiderLabels : RiderDoes(l)
    BY RiderForms
  <1>2. /\ me \in Threads /\ IsRider(me) /\ me # 1 /\ me # 2 /\ pc[me] = "body"
        /\ \A c \in Conds : ~Waits(me, c)
        /\ UNCHANGED <<currentRunningThread, gThreadID, priority, start, end>>
        /\ \A t \in Threads : at'[t] = IF t = me THEN l ELSE at[t]
        /\ \A t \in Threads : t # me => pc'[t] = pc[t]
        /\ \A t \in Threads : IsRider(t)' <=> IsRider(t)
        /\ \A t \in Threads : \A c \in Conds :
             t # me /\ c # elv_wait /\ (c = emptyElevator => at[me] # "announces") =>
               (Waits(t, c)' <=> Waits(t, c))
        /\ \A t \in Threads :
             t = me => /\ l = "wakes" => Waits(t, emptyElevator)'
                       /\ l = "enters" => Waits(t, going(Towards(t), start[t]))'
                       /\ l = "exits" => Waits(t, requests(end[t]))'
    BY <1>1, RiderEffects
  <1>3. ~Stands(me)
    BY <1>2 DEF Stands
  <1>4. \A t \in Threads : t # me => ~InDoor(t)
    BY <1>2, <1>3 DEF MoveInv, LoneInv
  <1>5. ASSUME NEW t \in Threads PROVE ~InDoor(t)'
    <2>1. TypedInv
      BY DEF ElevatorInv
    <2>2. /\ going(Towards(t), start[t]) \in Conds /\ requests(end[t]) \in Conds
          /\ going(Towards(t), start[t]) \notin {elv_wait, emptyElevator}
          /\ requests(end[t]) \notin {elv_wait, emptyElevator}
          /\ going(Towards(t), start[t])' = going(Towards(t), start[t])
          /\ requests(end[t])' = requests(end[t])
      BY <1>2, <2>1, OwnConds DEF going, requests, Towards
    <2>3. CASE t = me
      BY <1>2, <2>3 DEF InDoor, Comes, Leaves
    <2>4. CASE t # me
      <3>1. PICK c \in Conds, d \in Conds :
              /\ c = going(Towards(t), start[t]) /\ d = requests(end[t])
              /\ c # elv_wait /\ c # emptyElevator /\ d # elv_wait /\ d # emptyElevator
        BY <2>2
      <3>2. (Waits(t, c)' <=> Waits(t, c)) /\ (Waits(t, d)' <=> Waits(t, d)) /\ at'[t] = at[t]
        BY <1>2, <2>4, <3>1
      <3>3. ~(at[t] = "enters" /\ ~Waits(t, c)) /\ ~(at[t] = "exits" /\ ~Waits(t, d))
        BY <1>4, <2>4, <3>1 DEF InDoor, Comes, Leaves
      <3>4. c' = going(Towards(t), start[t])' /\ d' = requests(end[t])'
        BY <2>2, <3>1
      <3>5. ~(at'[t] = "enters" /\ ~Waits(t, c)') /\ ~(at'[t] = "exits" /\ ~Waits(t, d)')
        BY <3>2, <3>3
      <3> QED
        BY <2>2, <3>1, <3>5 DEF InDoor, Comes, Leaves
    <2> QED
      BY <2>3, <2>4
  <1>6. CalmInv'
    BY <1>2 DEF CalmInv, OnProcessor, me
  <1>7. LoneInv'
    BY <1>5 DEF LoneInv
  <1>8. ASSUME at'[2] \in {"letsEnter", "boards"}, NEW t \in Threads PROVE ~Loose(t)'
    <2>1. at[2] \in {"letsEnter", "boards"}
      BY <1>2, <1>8, TwoThreads
    <2>2. \A u \in Threads : ~Loose(u)
      BY <2>1 DEF MoveInv, PassInv
    <2>3. at[me] # "announces" /\ ~(at[me] = "wakes")
      BY <1>2, <2>2, CondsDiffer DEF Loose
    <2>4. at[me] # "exits"
      BY <1>2, <2>1, OwnConds DEF MoveInv, PassInv, Leaves, ElevatorInv
    <2>5. l # "announces"
      BY <1>1, <2>3, <2>4 DEF RiderDoes, RiderArcs, QuietMoves
    <2>6. emptyElevator \in Conds /\ emptyElevator # elv_wait
      BY CondsDiffer
    <2>7. t # me => (Waits(t, emptyElevator)' <=> Waits(t, emptyElevator))
      BY <1>2, <2>3, <2>6 DEF emptyElevator
    <2>8. CASE t = me
      <3>1. at'[t] = l /\ (l = "wakes" => Waits(t, emptyElevator)')
        BY <1>2, <2>8
      <3> QED
        BY <2>5, <3>1 DEF Loose
    <2>9. CASE t # me
      <3>1. at'[t] = at[t] /\ ~Loose(t)
        BY <1>2, <2>2, <2>9
      <3> QED
        BY <2>7, <2>9, <3>1 DEF Loose
    <2> QED
      BY <2>8, <2>9
  <1>9. PassInv'
    BY <1>5, <1>8 DEF PassInv, InDoor
  <1> QED
    BY <1>4, <1>5, <1>6, <1>7, <1>9 DEF MoveInv

\* The forms a step of the elevator has
ElevatorDoes(l) ==
  /\ at[me] \in ElevatorLabels /\ InBody /\ Goes(l)
  /\ UNCHANGED <<program, ticksLeft, caught, misled, forked, start, end>>
  /\ \/ Own /\ at[me] \notin {"boards", "alights"} /\ l \notin {"boards", "alights"}
     \/ t_yield /\ UNCHANGED monitorVars /\ at[me] \in MoveLabels /\ l \in MoveLabels
     \/ t_wait(elv_wait) /\ at[me] \in {"sleeps", "sleepsFirst"} /\ l \in {"moves", "looks"}
     \/ t_wait(elv_wait) /\ at[me] = "boards" /\ l \in {"letsEnter", "letsExit", "shuts"}
     \/ t_wait(elv_wait) /\ at[me] = "alights" /\ l \in {"letsExit", "shuts"}
     \/ sig(going(visit.dir, currentFloor)) /\ at[me] = "letsEnter" /\ l = "boards"
     \/ sig(requests(currentFloor)) /\ at[me] = "letsExit" /\ l = "alights"

\* A step of the elevator has one of its forms.
LEMMA ElevatorForms ==
  ASSUME elevatorStep
  PROVE  \E l \in ElevatorLabels : ElevatorDoes(l)
  <1>0. /\ "sleepsFirst" \in ElevatorLabels /\ TourLabels \subseteq ElevatorLabels
        /\ MoveLabels \subseteq ElevatorLabels
    BY DEF ElevatorLabels
  <1>1. CASE starts \/ looks \/ decides \/ president \/ directors \/ employees \/ shuts \/ rests
             \/ stops \/ moves \/ arrives
    <2>1. \E l \in {"sleepsFirst", "decides", "decidesToo", "decidesLast", "president", "directors",
                    "employees", "rests", "letsEnter", "letsExit", "shuts", "stops", "moves",
                    "sleeps", "looks", "yield1"} : Goes(l)
      BY <1>1 DEF starts, looks, decides, president, directors, employees, shuts, rests,
             stops, moves, arrives, Opens
    <2>2. /\ at[me] \in ElevatorLabels \ {"boards", "alights"} /\ InBody
          /\ Own /\ UNCHANGED <<start, end>>
      BY <1>1 DEF starts, looks, decides, president, directors, employees, shuts, rests,
             stops, moves, arrives, At, ElevatorLabels, TourLabels, MoveLabels, riderVars
    <2>3. PICK l \in ElevatorLabels : l \notin {"boards", "alights"} /\ Goes(l)
      BY <2>1 DEF ElevatorLabels, TourLabels, MoveLabels
    <2> QED
      BY <2>2, <2>3 DEF ElevatorDoes, Own, timeVars
  <1>2. CASE yields
    <2>1. PICK k \in MoveLabels, l \in MoveLabels : Yielding(k, l)
      BY <1>2 DEF yields, MoveLabels
    <2>2. ElevatorDoes(l)
      BY <1>0, <2>1 DEF ElevatorDoes, Yielding, Calls, At, timeVars, riderVars
    <2> QED
      BY <1>0, <2>2
  <1>3. CASE sleeps
    <2>1. PICK l \in {"moves", "looks"} :
            \E k \in {"sleeps", "sleepsFirst"} : Calls(k, t_wait(elv_wait), l)
      BY <1>3 DEF sleeps
    <2>2. ElevatorDoes(l) /\ l \in ElevatorLabels
      BY <2>1 DEF ElevatorDoes, Calls, At, timeVars, riderVars, ElevatorLabels, TourLabels
    <2> QED
      BY <2>2
  <1>4. CASE boards
    <2>1. PICK l \in {"letsEnter", "letsExit", "shuts"} : Calls("boards", t_wait(elv_wait), l)
      BY <1>4 DEF boards, VisitGoesOn
    <2>2. ElevatorDoes(l) /\ l \in ElevatorLabels
      BY <2>1 DEF ElevatorDoes, Calls, At, timeVars, riderVars, ElevatorLabels, TourLabels
    <2> QED
      BY <2>2
  <1>5. CASE alights
    <2>1. PICK l \in {"letsExit", "shuts"} : Calls("alights", t_wait(elv_wait), l)
      BY <1>5 DEF alights, VisitGoesOn
    <2>2. ElevatorDoes(l) /\ l \in ElevatorLabels
      BY <2>1 DEF ElevatorDoes, Calls, At, timeVars, riderVars, ElevatorLabels, TourLabels
    <2> QED
      BY <2>2
  <1>6. CASE letsEnter
    <2>1. ElevatorDoes("boards")
      BY <1>6 DEF letsEnter, ElevatorDoes, Calls, At, timeVars, riderVars, ElevatorLabels,
                  TourLabels
    <2> QED
      BY <1>0, <2>1 DEF TourLabels
  <1>7. CASE letsExit
    <2>1. ElevatorDoes("alights")
      BY <1>7 DEF letsExit, ElevatorDoes, Calls, At, timeVars, riderVars, ElevatorLabels,
                  TourLabels
    <2> QED
      BY <1>0, <2>1 DEF TourLabels
  <1> QED
    BY <1>1, <1>2, <1>3, <1>4, <1>5, <1>6, <1>7 DEF elevatorStep

\* The elevator's own steps, and those of firstThread, are taken in calm.
LEMMA Calm ==
  ASSUME ElevatorInv, CalmInv, InBody, me \in {1, 2},
         me = 2 => at[2] \notin {"boards", "alights"}
  PROVE  /\ \A t \in Threads : IsRider(t) => Stands(t)
         /\ \A t \in Threads : ~InDoor(t) /\ ~Loose(t)
  <1>1. OnProcessor(me)
    BY DEF OnProcessor, InBody, me
  <1>2. \A t \in Threads : IsRider(t) => Stands(t)
    BY <1>1 DEF CalmInv
  <1>3. ASSUME NEW t \in Threads PROVE ~InDoor(t) /\ ~Loose(t)
    <2>1. CASE IsRider(t)
      BY <1>2, <2>1, StandsAt
    <2>2. CASE ~IsRider(t)
      <3>1. at[t] \notin RiderLabels
        BY <2>2, Labelled DEF ElevatorInv, ReadyInv
      <3> QED
        BY <3>1 DEF InDoor, Comes, Leaves, Loose, RiderLabels, EarlyLabels, LateLabels
    <2> QED
      BY <2>1, <2>2
  <1> QED
    BY <1>2, <1>3

\* The conditions of the floor the elevator is on
LEMMA Here ==
  ASSUME ElevatorInv, at[2] \in TourLabels
  PROVE  /\ currentFloor \in Stops /\ currentFloor \in Floors /\ visit.dir \in Dirs
         /\ direction \in Dirs
         /\ \A d \in Dirs : going(d, currentFloor) \in Conds
         /\ requests(currentFloor) \in Conds
  <1>1. /\ currentFloor \in Stops /\ direction \in Dirs /\ visit.dir \in Dirs
    BY DEF ElevatorInv, CabInv
  <1>2. currentFloor \in Floors
    BY <1>1, ElevatorAssumption DEF Stops, Floors
  <1> QED
    BY <1>1, <1>2, CondsDiffer

\* What a step of the elevator does to others, to those who wait above all.
LEMMA ElevatorEffects ==
  ASSUME ElevatorInv, NEW l \in ElevatorLabels, ElevatorDoes(l)
  PROVE  /\ me = 2 /\ 2 \in Threads /\ OnProcessor(2)
         /\ UNCHANGED <<currentRunningThread, gThreadID, priority, start, end, pc>>
         /\ cpu' \in {cpu, "scheduler"}
         /\ \A t \in Threads : at'[t] = IF t = 2 THEN l ELSE at[t]
         /\ \A t \in Threads : IsRider(t)' <=> IsRider(t)
         /\ Own => cpu' = cpu
         /\ t_yield \/ t_wait(elv_wait) => cpu' = "scheduler"
         /\ \A t \in Threads : \A c \in Conds :
              /\ t # 2 => (Waits(t, c)' => Waits(t, c))
              /\ t # 2 /\ ~sig(c) => (Waits(t, c)' <=> Waits(t, c))
  <1>1. me = 2 /\ 2 \in Threads /\ OnProcessor(2) /\ TypedInv
    BY Running, TwoThreads DEF ElevatorDoes, ElevatorInv
  <1>2. \A t \in Threads : at'[t] = IF t = 2 THEN l ELSE at[t]
    BY <1>1 DEF ElevatorDoes, Goes, TypedInv
  <1>3. /\ UNCHANGED <<currentRunningThread, gThreadID, priority, pc>>
        /\ cpu' \in {cpu, "scheduler"}
        /\ Own => cpu' = cpu
        /\ t_yield \/ t_wait(elv_wait) => cpu' = "scheduler"
        /\ \A t \in Threads : \A c \in Conds :
              /\ t # 2 => (Waits(t, c)' => Waits(t, c))
              /\ t # 2 /\ ~sig(c) => (Waits(t, c)' <=> Waits(t, c))
    <2>0. /\ cpu = "thread" /\ elv_wait \in Conds
          /\ t_yield \/ t_wait(elv_wait) => cpu' = "scheduler"
          /\ Own => cpu' = cpu
      BY CondsDiffer DEF ElevatorDoes, InBody, Own, t_yield, t_wait, Park, Requeue, kernelVars
    <2>1. CASE Own
      BY <2>0, <2>1, OwnKeeps
    <2>2. CASE t_yield /\ UNCHANGED monitorVars
      <3>1. UNCHANGED <<currentRunningThread, gThreadID, priority, pc, waiters>>
        BY <2>2 DEF t_yield, Requeue, Park, tcbVars, exitVars, monitorVars
      <3> QED
        BY <2>0, <2>2, <3>1 DEF Waits
    <2>3. CASE t_wait(elv_wait)
      <3>1. /\ \A t \in Threads : \A d \in Conds :
                 Waits(t, d)' <=> Waits(t, d) \/ (d = elv_wait /\ t = me)
            /\ UNCHANGED <<gThreadID, priority, currentRunningThread, pc>>
        BY <2>0, <2>3, WaitKeeps
      <3> QED
        BY <1>1, <2>0, <2>3, <3>1
    <2>4. ASSUME NEW c \in Conds, sig(c)
          PROVE  /\ UNCHANGED <<currentRunningThread, gThreadID, priority, pc, cpu>>
                 /\ \A t \in Threads : \A d \in Conds :
                      /\ Waits(t, d)' => Waits(t, d)
                      /\ ~sig(d) => (Waits(t, d)' <=> Waits(t, d))
      BY <2>4, SigKeeps
    <2>5. CASE sig(going(visit.dir, currentFloor)) /\ at[me] = "letsEnter"
      <3>1. going(visit.dir, currentFloor) \in Conds
        BY <1>1, <2>5, Here DEF TourLabels
      <3> QED
        BY <2>0, <2>4, <2>5, <3>1
    <2>6. CASE sig(requests(currentFloor)) /\ at[me] = "letsExit"
      <3>1. requests(currentFloor) \in Conds
        BY <1>1, <2>6, Here DEF TourLabels
      <3> QED
        BY <2>0, <2>4, <2>6, <3>1
    <2> QED
      BY <2>1, <2>2, <2>3, <2>5, <2>6 DEF ElevatorDoes
  <1>4. \A t \in Threads : IsRider(t)' <=> IsRider(t)
    BY <1>3 DEF IsRider, Born
  <1> QED
    BY <1>1, <1>2, <1>3, <1>4 DEF ElevatorDoes

\* Somebody who stays where he is, in the queues he is in.
LEMMA Unmoved ==
  ASSUME TypedInv, NEW t \in Threads, at'[t] = at[t], pc'[t] = pc[t],
         start'[t] = start[t], end'[t] = end[t],
         \A c \in Conds : Waits(t, c)' <=> Waits(t, c)
  PROVE  /\ Stands(t)' <=> Stands(t)
         /\ Comes(t)' <=> Comes(t)
         /\ Leaves(t)' <=> Leaves(t)
         /\ InDoor(t)' <=> InDoor(t)
         /\ Loose(t)' <=> Loose(t)
  <1>1. PICK c \in Conds, d \in Conds, e \in Conds :
          c = going(Towards(t), start[t]) /\ d = requests(end[t]) /\ e = emptyElevator
    BY OwnConds, CondsDiffer
  <1>2. /\ c' = going(Towards(t), start[t])' /\ d' = requests(end[t])' /\ e' = emptyElevator'
    BY <1>1 DEF going, requests, Towards, emptyElevator
  <1>3. /\ Waits(t, c)' <=> Waits(t, c)
        /\ Waits(t, d)' <=> Waits(t, d)
        /\ Waits(t, e)' <=> Waits(t, e)
    OBVIOUS
  <1>4. (Comes(t)' <=> Comes(t)) /\ (Leaves(t)' <=> Leaves(t)) /\ (Loose(t)' <=> Loose(t))
    BY <1>1, <1>2, <1>3 DEF Comes, Leaves, Loose
  <1>5. Stands(t)' <=> Stands(t)
    BY DEF Stands
  <1> QED
    BY <1>4, <1>5 DEF InDoor

\* A signal wakes one.
LEMMA SigOne ==
  ASSUME ElevatorInv, NEW c \in Conds, sig(c)
  PROVE  \E w \in Threads : \A t \in Threads : \A d \in Conds :
           t # w \/ d # c => (Waits(t, d)' <=> Waits(t, d))
  <1>1. \A t \in Threads : \A d \in Conds : d # c => (Waits(t, d)' <=> Waits(t, d))
    BY SigKeeps
  <1>2. PICK w \in Threads : \A t \in Threads : \A d \in Conds :
          t # w => (Waits(t, d)' <=> Waits(t, d))
    <2>1. MonInv /\ NoLock \in Locks \cup {NoLock} /\ t_sig(c, NoLock)
      BY DEF ElevatorInv, sig
    <2>2. CASE FindsWaiter(c)
      <3>1. Head(waiters[c][SigLevel(c)]) \in Threads
        BY <2>1, <2>2, SigFinds
      <3>2. \A t \in Threads : \A d \in Conds :
              Waits(t, d)' <=> Waits(t, d) /\ t # Head(waiters[c][SigLevel(c)])
        BY <2>1, <2>2, MonSig
      <3> QED
        BY <3>1, <3>2
    <2>3. CASE ~FindsWaiter(c)
      <3>1. \A t \in Threads : \A d \in Conds : Waits(t, d)' <=> Waits(t, d)
        BY <2>1, <2>3, MonSig
      <3> QED
        BY <3>1, TwoThreads
    <2> QED
      BY <2>2, <2>3
  <1> QED
    BY <1>1, <1>2

\* The elevator signals one at a time, and only from where all stand.
LEMMA MoveElevator ==
  ASSUME ElevatorInv, MoveInv, elevatorStep
  PROVE  MoveInv'
  <1>1. PICK l \in ElevatorLabels : ElevatorDoes(l)
    BY ElevatorForms
  <1>2. /\ me = 2 /\ 2 \in Threads /\ InBody /\ currentRunningThread' = 2
        /\ UNCHANGED <<start, end, pc>> /\ TypedInv
        /\ \A t \in Threads : at'[t] = IF t = 2 THEN l ELSE at[t]
        /\ \A t \in Threads : IsRider(t)' <=> IsRider(t)
    BY <1>1, ElevatorEffects DEF ElevatorDoes, ElevatorInv, me
  <1>3. \A t \in Threads : IsRider(t) => t # 2
    BY DEF IsRider
  <1>4. ~InDoor(2)' /\ ~Loose(2)'
    BY <1>1, <1>2 DEF InDoor, Comes, Leaves, Loose, ElevatorLabels, TourLabels, MoveLabels
  <1>5. CASE \A t \in Threads : \A c \in Conds : t # 2 => (Waits(t, c)' <=> Waits(t, c))
    <2>1. \A t \in Threads : t # 2 => /\ Stands(t)' <=> Stands(t)
                                      /\ Comes(t)' <=> Comes(t)
                                      /\ Leaves(t)' <=> Leaves(t)
                                      /\ InDoor(t)' <=> InDoor(t)
                                      /\ Loose(t)' <=> Loose(t)
      BY <1>2, <1>5, Unmoved
    <2>2. CASE at[2] \notin {"boards", "alights"}
      <3>1. /\ \A t \in Threads : IsRider(t) => Stands(t)
            /\ \A t \in Threads : ~InDoor(t) /\ ~Loose(t)
        BY <1>2, <2>2, Calm DEF MoveInv
      <3>2. /\ \A t \in Threads : IsRider(t)' => Stands(t)'
            /\ \A t \in Threads : ~InDoor(t)' /\ ~Loose(t)'
        BY <1>2, <1>3, <1>4, <2>1, <3>1
      <3> QED
        BY <3>2 DEF MoveInv, CalmInv, LoneInv, PassInv, InDoor
    <2>3. CASE at[2] \in {"boards", "alights"}
      <3>1. t_wait(elv_wait) /\ l \in {"letsEnter", "letsExit", "shuts"}
            /\ (at[2] = "alights" => l # "letsEnter")
        BY <1>1, <1>2, <2>3 DEF ElevatorDoes, MoveLabels
      <3>2. cpu' = "scheduler"
        BY <1>1, <3>1, ElevatorEffects
      <3>3. CalmInv'
        BY <3>2 DEF CalmInv, OnProcessor
      <3>4. LoneInv'
        BY <1>2, <1>3, <1>4, <2>1 DEF MoveInv, LoneInv
      <3>5. \A t \in Threads : (Comes(t)' => Comes(t)) /\ (Leaves(t)' => Leaves(t))
                               /\ (Loose(t)' => Loose(t))
        BY <1>4, <2>1 DEF InDoor
      <3>6. at'[2] = l
        BY <1>2
      <3>7. PassInv'
        BY <2>3, <3>1, <3>5, <3>6 DEF MoveInv, PassInv
      <3> QED
        BY <3>3, <3>4, <3>7 DEF MoveInv
    <2> QED
      BY <2>2, <2>3
  <1>6. CASE \/ sig(going(visit.dir, currentFloor)) /\ at[me] = "letsEnter" /\ l = "boards"
             \/ sig(requests(currentFloor)) /\ at[me] = "letsExit" /\ l = "alights"
    <2>1. /\ \A t \in Threads : IsRider(t) => Stands(t)
          /\ \A t \in Threads : ~InDoor(t) /\ ~Loose(t)
      BY <1>2, <1>6, Calm DEF MoveInv
    <2>2. /\ currentFloor \in Floors /\ visit.dir \in Dirs
          /\ going(visit.dir, currentFloor) \in Conds /\ requests(currentFloor) \in Conds
      BY <1>2, <1>6, Here DEF TourLabels
    <2>3. PICK c \in Conds :
            /\ sig(c)
            /\ \/ c = going(visit.dir, currentFloor) /\ at[2] = "letsEnter" /\ l = "boards"
               \/ c = requests(currentFloor) /\ at[2] = "letsExit" /\ l = "alights"
      BY <1>2, <1>6, <2>2
    <2>4. PICK w \in Threads : \A t \in Threads : \A d \in Conds :
            t # w \/ d # c => (Waits(t, d)' <=> Waits(t, d))
      BY <2>3, SigOne
    <2>5. \A t \in Threads : t # 2 /\ t # w =>
            /\ Stands(t)' <=> Stands(t)
            /\ InDoor(t)' <=> InDoor(t)
      BY <1>2, <2>4, Unmoved
    <2>6. \A t \in Threads : InDoor(t)' => t = w
      BY <1>4, <2>1, <2>5
    <2>7. LoneInv'
      BY <1>2, <1>3, <2>1, <2>5, <2>6 DEF LoneInv
    <2>8. at'[2] = l
      BY <1>2
    <2>9. CalmInv'
      BY <1>2, <2>3, <2>8 DEF CalmInv, OnProcessor
    <2>10. ASSUME NEW t \in Threads
           PROVE  /\ l = "alights" => ~Comes(t)'
                  /\ l = "boards" => ~Leaves(t)' /\ ~Loose(t)'
      <3>1. CASE t = 2
        BY <1>4, <3>1 DEF InDoor
      <3>2. CASE t # 2
        <4>1. PICK d \in Conds, r \in Conds, e \in Conds :
                d = going(Towards(t), start[t]) /\ r = requests(end[t]) /\ e = emptyElevator
          BY <1>2, OwnConds, CondsDiffer
        <4>2. /\ d' = going(Towards(t), start[t])' /\ r' = requests(end[t])'
              /\ e' = emptyElevator'
          BY <1>2, <4>1 DEF going, requests, Towards, emptyElevator
        <4>3. /\ l = "alights" => c # d
              /\ l = "boards" => c # r /\ c # e
          <5>1. start[t] \in Floors /\ end[t] \in Floors /\ Towards(t) \in Dirs
            BY <1>2, OwnConds
          <5> QED
            BY <2>2, <2>3, <4>1, <5>1, CondsDiffer
        <4>4. at'[t] = at[t]
          BY <1>2, <3>2
        <4>5. /\ l = "alights" => (Waits(t, d)' <=> Waits(t, d))
              /\ l = "boards" => (Waits(t, r)' <=> Waits(t, r)) /\ (Waits(t, e)' <=> Waits(t, e))
          BY <2>4, <4>3
        <4>6. ~Comes(t) /\ ~Leaves(t) /\ ~Loose(t)
          BY <2>1 DEF InDoor
        <4> QED
          BY <4>1, <4>2, <4>4, <4>5, <4>6 DEF Comes, Leaves, Loose
      <3> QED
        BY <3>1, <3>2
    <2>11. PassInv'
      BY <2>3, <2>8, <2>10 DEF PassInv
    <2> QED
      BY <2>7, <2>9, <2>11 DEF MoveInv
  <1>7. CASE Own \/ (t_yield /\ UNCHANGED monitorVars) \/ t_wait(elv_wait)
    <2>1. \A t \in Threads : \A c \in Conds : t # 2 => (Waits(t, c)' <=> Waits(t, c))
      <3>1. CASE Own
        BY <3>1, OwnKeeps
      <3>2. CASE t_yield /\ UNCHANGED monitorVars
        BY <3>2 DEF Waits, monitorVars
      <3>3. CASE t_wait(elv_wait)
        BY <1>2, <3>3, WaitKeeps, CondsDiffer
      <3> QED
        BY <1>7, <3>1, <3>2, <3>3
    <2> QED
      BY <1>5, <2>1
  <1> QED
    BY <1>1, <1>6, <1>7 DEF ElevatorDoes

\* What firstThread does to the threads: it goes on itself, or there is one more.
Born1(n, l) ==
  /\ gThreadID' = n /\ at[n] = "end" /\ ~IsRider(n) /\ n # 1
  /\ \/ n = 2 /\ l = "starts" /\ ~IsRider(n)'
     \/ /\ n > 2 /\ l = "calls" /\ cpu' = "scheduler" /\ IsRider(n)'
        /\ forked \in 1 .. Len(program.script)
        /\ priority'[n] = program.script[forked].priority

\* What a step of firstThread does to others.
LEMMA FirstEffects ==
  ASSUME ElevatorInv, firstThread
  PROVE  \E n \in Threads, l \in {"forks", "end", "starts", "calls"} :
           /\ \A t \in Threads : at'[t] = IF t = n THEN l ELSE at[t]
           /\ \A t \in Threads : t # n => /\ start'[t] = start[t] /\ end'[t] = end[t]
                                          /\ priority'[t] = priority[t]
                                          /\ IsRider(t)' <=> IsRider(t)
           /\ InBody /\ me = 1 /\ currentRunningThread' = 1 /\ cpu' \in {cpu, "scheduler"}
           /\ UNCHANGED <<waiters, pc>>
           /\ \/ n = 1 /\ l \in {"forks", "end"} /\ (IsRider(1)' <=> IsRider(1))
                 /\ UNCHANGED <<start, end, priority, gThreadID>>
              \/ Born1(n, l)
  <1>1. /\ TypedInv /\ WhoInv /\ MonInv /\ TypeOK /\ PlaceInv
    BY DEF ElevatorInv, MonInv
  <1>2. InBody /\ me = 1 /\ 1 \in Threads /\ Born(me) /\ UNCHANGED waiters /\ at[1] = "forks"
    BY Running, TwoThreads DEF firstThread, At, FirstLabels, monitorVars
  <1>3. /\ MAX_FLOORS \in Nat /\ MAX_FLOORS >= 3 /\ TopPriority = President
        /\ program.script \in Seq(Journeys \cup {Yields})
    BY <1>1, ElevatorAssumption DEF TypedInv
  <1>4. PICK s : s = program.script
    OBVIOUS
  <1>5. /\ s \in Seq(Journeys \cup {Yields}) /\ Len(s) \in Nat /\ forked \in Nat
    BY <1>1, <1>3, <1>4 DEF TypedInv
  <1>6. CASE \/ t_yield /\ UNCHANGED <<at, start, end>>
             \/ Goes("end") /\ UNCHANGED <<kernelVars, start, end>>
    <2>1. PICK l \in {"forks", "end"} : at' = [at EXCEPT ![1] = l]
      BY <1>1, <1>2, <1>6 DEF Goes, TypedInv
    <2>2. /\ \A t \in Threads : at'[t] = IF t = 1 THEN l ELSE at[t]
      BY <1>1, <2>1 DEF TypedInv
    <2>3. /\ UNCHANGED <<start, end, priority, gThreadID, currentRunningThread, pc>>
          /\ cpu' \in {cpu, "scheduler"}
      BY <1>6 DEF t_yield, Requeue, Park, tcbVars, exitVars, kernelVars
    <2>4. \A t \in Threads : IsRider(t)' <=> IsRider(t)
      BY <2>3 DEF IsRider, Born
    <2> QED
      BY <1>2, <2>2, <2>3, <2>4 DEF me
  <1>7. CASE \/ forked = 0 /\ t_fork(ElevatorLevel) /\ UNCHANGED <<start, end>>
                /\ at' = [at EXCEPT ![gThreadID'] = "starts"]
             \/ /\ forked \in 1 .. Len(program.script) /\ program.script[forked] # Yields
                /\ t_fork(program.script[forked].priority)
                /\ at' = [at EXCEPT ![gThreadID'] = "calls"]
                /\ start' = [start EXCEPT ![gThreadID'] = program.script[forked].start]
                /\ end' = [end EXCEPT ![gThreadID'] = program.script[forked].end]
    <2>1. PICK p \in Levels, l \in {"starts", "calls"} :
            /\ t_fork(p)
            /\ at' = [at EXCEPT ![gThreadID'] = l]
            /\ \/ l = "starts" /\ p = ElevatorLevel /\ forked = 0 /\ UNCHANGED <<start, end>>
               \/ /\ l = "calls" /\ forked \in 1 .. Len(s)
                  /\ p \in Employee .. President /\ p = s[forked].priority
                  /\ start' = [start EXCEPT ![gThreadID'] = s[forked].start]
                  /\ end' = [end EXCEPT ![gThreadID'] = s[forked].end]
      <3>1. CASE forked = 0
        <4>1. ElevatorLevel \in Levels
          BY KernelAssumption DEF ElevatorLevel, Levels
        <4> QED
          BY <1>7, <3>1, <4>1
      <3>2. CASE forked # 0
        <4>1. forked \in 1 .. Len(s) /\ s[forked] \in Journeys
          BY <1>4, <1>5, <1>7, <3>2
        <4>2. s[forked].priority \in Employee .. President
          BY <4>1 DEF Journeys, Rider
        <4>3. s[forked].priority \in Levels
          BY <1>3, <4>2 DEF Levels, Employee, President
        <4> QED
          BY <1>4, <1>7, <3>2, <4>1, <4>2, <4>3
      <3> QED
        BY <3>1, <3>2
    <2>2. NewTcb(p) /\ gThreadID \in Nat /\ UNCHANGED <<currentRunningThread, pc>>
          /\ cpu' \in {cpu, "scheduler"} /\ (p > priority[1] => cpu' = "scheduler")
      <3>1. NewTcb(p) /\ UNCHANGED <<currentRunningThread, pc>>
        BY <2>1 DEF t_fork, exitVars
      <3>2. gThreadID \in Nat
        BY <1>1, KernelAssumption DEF TypeOK
      <3>3. \/ p > priority[1] /\ cpu' = "scheduler"
            \/ p <= priority[1] /\ cpu' = cpu
        BY <1>2, <2>1 DEF t_fork, Requeue, Park, me
      <3>4. priority[1] \in Int /\ p \in Int
        BY <1>1, <1>2, KernelAssumption DEF TypeOK, Levels
      <3> QED
        BY <3>1, <3>2, <3>3, <3>4
    <2>3. PICK n \in Threads : n = gThreadID + 1
      BY <1>1, <2>2, NewTcbType
    <2>4. /\ priority' = [priority EXCEPT ![n] = p] /\ gThreadID' = n /\ ~Born(n)
          /\ \A t \in Threads : Born(t)' <=> Born(t) \/ t = n
      BY <1>1, <2>2, <2>3, NewPlace DEF NewTcb
    <2>5. /\ priority'[n] = p
          /\ \A t \in Threads : t # n => priority'[t] = priority[t]
          /\ \A t \in Threads : at'[t] = IF t = n THEN l ELSE at[t]
          /\ \A t \in Threads : t # n => start'[t] = start[t] /\ end'[t] = end[t]
          /\ \A t \in Threads : t # n => (IsRider(t)' <=> IsRider(t))
      BY <1>1, <2>1, <2>4 DEF TypedInv, TypeOK, IsRider
    <2>6. ~IsRider(n) /\ n # 1 /\ at[n] = "end"
      BY <1>1, <1>2, <2>4 DEF IsRider, WhoInv, Placed, me
    <2>7. forked = 0 => n = 2 /\ ~IsRider(n)'
      <3>1. forked = 0 => gThreadID <= 1 /\ 1 <= gThreadID
        BY <1>1, <1>2 DEF WhoInv, Born
      <3> QED
        BY <2>2, <2>3, <3>1 DEF IsRider
    <2>8. forked # 0 => n > 2 /\ IsRider(n)'
      <3>1. forked # 0 => gThreadID >= 2
        BY <1>1, <1>5 DEF WhoInv
      <3> QED
        BY <2>2, <2>3, <2>4, <3>1 DEF IsRider
    <2>9. l = "calls" => cpu' = "scheduler"
      <3>1. priority[1] = 0
        BY <1>1, <1>2 DEF WhoInv, Placed, me, ElevatorLevel
      <3> QED
        BY <2>1, <2>2, <3>1 DEF Employee, President
    <2>10. Born1(n, l)
      BY <1>4, <2>1, <2>4, <2>5, <2>6, <2>7, <2>8, <2>9 DEF Born1
    <2> QED
      BY <1>2, <2>2, <2>5, <2>10 DEF me
  <1> QED
    BY <1>6, <1>7 DEF firstThread

\* Nobody is in the doorway, nobody else is about, and the scheduler runs.
LEMMA MoveQuiet ==
  ASSUME \A t \in Threads : ~InDoor(t)' /\ ~Loose(t)',
         cpu' = "scheduler"
         \/ (currentRunningThread' # 2 /\ \A t \in Threads : IsRider(t)' => Stands(t)')
  PROVE  MoveInv'
  <1>1. CalmInv'
    BY DEF CalmInv, OnProcessor
  <1> QED
    BY <1>1 DEF MoveInv, LoneInv, PassInv, InDoor

\* firstThread gives up the processor when it forks a rider.
LEMMA MoveFirst ==
  ASSUME ElevatorInv, MoveInv, firstThread
  PROVE  MoveInv'
  <1>1. PICK n \in Threads, l \in {"forks", "end", "starts", "calls"} :
           /\ \A t \in Threads : at'[t] = IF t = n THEN l ELSE at[t]
           /\ \A t \in Threads : t # n => /\ start'[t] = start[t] /\ end'[t] = end[t]
                                          /\ priority'[t] = priority[t]
                                          /\ IsRider(t)' <=> IsRider(t)
           /\ InBody /\ me = 1 /\ currentRunningThread' = 1 /\ cpu' \in {cpu, "scheduler"}
           /\ UNCHANGED <<waiters, pc>>
           /\ \/ n = 1 /\ l \in {"forks", "end"} /\ (IsRider(1)' <=> IsRider(1))
                 /\ UNCHANGED <<start, end, priority, gThreadID>>
              \/ Born1(n, l)
    BY FirstEffects
  <1>2. /\ \A t \in Threads : IsRider(t) => Stands(t)
        /\ \A t \in Threads : ~InDoor(t) /\ ~Loose(t)
    BY <1>1, Calm DEF MoveInv
  <1>3. \A t \in Threads : \A c \in Conds : Waits(t, c)' <=> Waits(t, c)
    BY <1>1 DEF Waits
  <1>4. \A t \in Threads : t # n => /\ Stands(t)' <=> Stands(t)
                                    /\ InDoor(t)' <=> InDoor(t)
                                    /\ Loose(t)' <=> Loose(t)
    BY <1>1, <1>3, Unmoved DEF ElevatorInv
  <1>5. ~InDoor(n)' /\ ~Loose(n)'
    BY <1>1 DEF InDoor, Comes, Leaves, Loose
  <1>6. cpu' = "scheduler" \/ ~IsRider(n)'
    BY <1>1 DEF Born1, IsRider
  <1> QED
    BY <1>1, <1>2, <1>4, <1>5, <1>6, MoveQuiet

\* main runs before there are riders.
LEMMA MoveMain ==
  ASSUME ElevatorInv, main
  PROVE  MoveInv'
  <1>1. /\ cpu' = "scheduler" /\ at' = [at EXCEPT ![1] = "forks"] /\ gThreadID = 0
    BY DEF main, t_start, ElevatorInv, WhoInv, NobodyYet
  <1>2. \A t \in Threads : ~Born(t) /\ at[t] = "end"
    BY <1>1 DEF Born, Threads, ElevatorInv, WhoInv, Placed
  <1>3. \A t \in Threads : at'[t] \in {"forks", "end"}
    BY <1>1, <1>2 DEF ElevatorInv, TypedInv
  <1> QED
    BY <1>1, <1>3, MoveQuiet DEF InDoor, Comes, Leaves, Loose

\* When the scheduler turns to the lowest level every rider stands.
LEMMA DispatchCalm ==
  ASSUME ElevatorInv, NEW y \in Levels, dispatch(y), currentRunningThread' \in {1, 2}
  PROVE  \A t \in Threads : IsRider(t) => Stands(t)
  <1>1. PICK r \in {1, 2} : r = currentRunningThread'
    OBVIOUS
  <1>2. cpu = "scheduler" /\ pQueue[y] # <<>> /\ Head(pQueue[y]) = r
    BY <1>1 DEF dispatch
  <1>3. ReadyInv /\ MonInv /\ \A t \in Threads : Placed(t)
    BY DEF ElevatorInv, WhoInv
  <1>4. r \in Threads /\ r <= gThreadID /\ priority[r] = y
    <2>1. /\ pQueue \in Queues
          /\ EntriesOK(pQueue, gThreadID, priority)
      BY <1>3, EntriesOKEquiv DEF ReadyInv, KnownIds
    <2> QED
      BY <1>2, <2>1, HeadOK
  <1>5. y = 0
    BY <1>1, <1>3, <1>4 DEF Placed, Born, ElevatorLevel
  <1>6. ASSUME NEW t \in Threads, IsRider(t) PROVE Stands(t)
    <2>1. /\ priority[t] \in Employee .. President
          /\ pc[t] = "body" \/ pc[t] = "done"
      BY <1>3, <1>6 DEF Placed
    <2>2. ~Queued(t)
      <3>1. Queued(t) => priority[t] = 0
        BY <1>3, <1>5, NobodyHigher
      <3> QED
        BY <2>1, <3>1 DEF Employee
    <2>3. ~OnProcessor(t)
      BY <1>2 DEF OnProcessor
    <2>4. pc[t] = "body" => \E c \in Conds : Waits(t, c)
      BY <1>3, <1>6, <2>2, <2>3 DEF MonInv, ParkedListed, Parked, IsRider
    <2> QED
      BY <2>1, <2>4 DEF Stands
  <1> QED
    BY <1>6

\* The thread system moves nobody; a dispatch of the lowest level finds no rider ready.
LEMMA MoveSystem ==
  ASSUME ElevatorInv, MoveInv,
         UNCHANGED <<monitorVars, at, start, end, gThreadID>>,
         \A t \in Threads : IsRider(t) => pc'[t] = pc[t],
         \/ \E y \in Levels : dispatch(y)
         \/ UNCHANGED currentRunningThread
            /\ (cpu' \in {"thread", "resume"} => cpu \in {"thread", "resume"})
  PROVE  MoveInv'
  <1>1. \A t \in Threads : \A c \in Conds : Waits(t, c)' <=> Waits(t, c)
    BY DEF monitorVars, Waits
  <1>2. \A t \in Threads : IsRider(t)' <=> IsRider(t)
    BY DEF IsRider, Born
  <1>3. \A t \in Threads : IsRider(t) => (Stands(t)' <=> Stands(t))
    BY <1>1, Unmoved DEF ElevatorInv
  <1>4. \A t \in Threads : /\ Comes(t)' <=> Comes(t)
                           /\ Leaves(t)' <=> Leaves(t)
                           /\ Loose(t)' <=> Loose(t)
    BY DEF Comes, Leaves, Loose, Waits, Towards, monitorVars, going, requests, emptyElevator
  <1>5. LoneInv' /\ PassInv'
    BY <1>2, <1>3, <1>4 DEF MoveInv, LoneInv, PassInv, InDoor
  <1>6. CalmInv'
    <2>1. CASE \E y \in Levels : dispatch(y)
      <3>1. currentRunningThread' \in {1, 2} => \A t \in Threads : IsRider(t) => Stands(t)
        BY <2>1, DispatchCalm
      <3> QED
        BY <1>2, <1>3, <3>1 DEF CalmInv, OnProcessor
    <2>2. CASE UNCHANGED currentRunningThread
               /\ (cpu' \in {"thread", "resume"} => cpu \in {"thread", "resume"})
      BY <1>2, <1>3, <2>2 DEF MoveInv, CalmInv, OnProcessor
    <2> QED
      BY <2>1, <2>2
  <1> QED
    BY <1>5, <1>6 DEF MoveInv

\* At the start nobody moves.
LEMMA MoveStarts == ElevatorInit => MoveInv
  <1> SUFFICES ASSUME ElevatorInit PROVE MoveInv
    OBVIOUS
  <1>1. cpu = "t_start" /\ \A t \in Threads : at[t] = "end"
    BY DEF ElevatorInit, KernelInit
  <1>2. \A t \in Threads : ~Comes(t) /\ ~Leaves(t) /\ ~Loose(t)
    BY <1>1 DEF Comes, Leaves, Loose
  <1> QED
    BY <1>1, <1>2 DEF MoveInv, CalmInv, LoneInv, PassInv, InDoor, OnProcessor

-----------------------------------------------------------------------------
(* Types.                                                                   *)

\* What ElevatorInv leaves open of the types of the elevator's variables.
RestInv ==
  /\ ticksLeft \in 0 .. program.ticks /\ caught \subseteq Labels /\ misled \in BOOLEAN
  /\ state \in {"STOPPED", "MOVING", "DOOR_OPENED", "DOOR_CLOSED"}
  /\ currentFloor \in 0 .. MAX_FLOORS
  /\ slot \in 0 .. 3 /\ (at[2] = "directors" => slot \in 0 .. 2)
  /\ reqSFD \in [0 .. 2 -> Floors \cup {None}]
  /\ reqEFD \in [0 .. 2 -> Floors \cup {None}]
  /\ sigs \in [Threads -> 0 .. 5]
  /\ \A t \in Threads : at[t] = "announces" => sigs[t] > 0

\* A rider leaves floors in the requests.
LEMMA RestRider ==
  ASSUME ElevatorInv, RestInv, riderStep
  PROVE  RestInv'
  <1>1. PICK l \in RiderLabels : RiderDoes(l)
    BY RiderForms
  <1>2. /\ me \in Threads /\ me # 2 /\ 2 \in Threads
        /\ \A t \in Threads : at'[t] = IF t = me THEN l ELSE at[t]
        /\ UNCHANGED <<program, ticksLeft, caught, misled, state, currentFloor, slot>>
    BY <1>1, RiderEffects, TwoThreads DEF RiderDoes, cabVars, elvVars, localVars
  <1>3. /\ ticksLeft' \in 0 .. program'.ticks /\ caught' \subseteq Labels
        /\ misled' \in BOOLEAN
        /\ state' \in {"STOPPED", "MOVING", "DOOR_OPENED", "DOOR_CLOSED"}
        /\ currentFloor' \in 0 .. MAX_FLOORS
        /\ slot' \in 0 .. 3 /\ (at'[2] = "directors" => slot' \in 0 .. 2)
    BY <1>2 DEF RestInv
  <1>4. CASE files1
    <2>1. start[me] \in Floors /\ end[me] \in Floors
      BY <1>2 DEF ElevatorInv, TypedInv
    <2>2. \/ UNCHANGED <<reqSFD, reqEFD>>
          \/ /\ reqSFD' = [reqSFD EXCEPT ![setOf[Director]] = start[me]]
             /\ reqEFD' = [reqEFD EXCEPT ![setOf[Director]] = end[me]]
      BY <1>4 DEF files1
    <2>3. /\ reqSFD' \in [0 .. 2 -> Floors \cup {None}]
          /\ reqEFD' \in [0 .. 2 -> Floors \cup {None}]
      BY <2>1, <2>2 DEF RestInv
    <2>4. UNCHANGED sigs /\ at'[me] = "files2"
      BY <1>2, <1>4 DEF files1, Does, Goes, ElevatorInv, TypedInv
    <2> QED
      BY <1>2, <1>3, <2>3, <2>4 DEF RestInv
  <1>5. CASE announces
    <2>1. /\ at[me] = "announces" /\ sigs' = [sigs EXCEPT ![me] = @ - 1]
          /\ UNCHANGED <<reqSFD, reqEFD>>
          /\ at'[me] = IF sigs[me] > 1 THEN "announces" ELSE "signals"
      BY <1>2, <1>5 DEF announces, At, Goes, ElevatorInv, TypedInv, reqVars
    <2>2. sigs[me] \in 1 .. 5 /\ sigs \in [Threads -> 0 .. 5]
      BY <1>2, <2>1 DEF RestInv
    <2>4. sigs[me] - 1 \in 0 .. 5
      BY <2>2
    <2>5. PICK n \in 0 .. 5 : n = sigs[me] - 1
      BY <2>4
    <2>6. sigs' = [sigs EXCEPT ![me] = n]
      BY <2>1, <2>5
    <2>3. /\ sigs' \in [Threads -> 0 .. 5]
          /\ \A t \in Threads : sigs'[t] = IF t = me THEN sigs[t] - 1 ELSE sigs[t]
      BY <1>2, <2>2, <2>5, <2>6
    <2>7. \A t \in Threads : at'[t] = "announces" => sigs'[t] > 0
      BY <1>2, <2>1, <2>2, <2>3 DEF RestInv
    <2> QED
      BY <1>3, <2>1, <2>3, <2>7 DEF RestInv
  <1>6. CASE exits
    <2>1. /\ sigs' = [sigs EXCEPT ![me] = IF LeavesEmpty THEN 5 ELSE 0]
          /\ UNCHANGED <<reqSFD, reqEFD>>
          /\ at'[me] = IF LeavesEmpty THEN "announces" ELSE "signals"
      BY <1>2, <1>6 DEF exits, Does, Goes, ElevatorInv, TypedInv
    <2>4. PICK n \in 0 .. 5 : n = (IF LeavesEmpty THEN 5 ELSE 0)
      OBVIOUS
    <2>5. sigs' = [sigs EXCEPT ![me] = n]
      BY <2>1, <2>4
    <2>2. /\ sigs' \in [Threads -> 0 .. 5]
          /\ \A t \in Threads : sigs'[t] = IF t = me THEN n ELSE sigs[t]
      BY <1>2, <2>5 DEF RestInv
    <2>3. \A t \in Threads : at'[t] = "announces" => sigs'[t] > 0
      BY <1>2, <2>1, <2>2, <2>4 DEF RestInv
    <2> QED
      BY <1>3, <2>1, <2>2, <2>3 DEF RestInv
  <1>7. CASE \/ calls \/ hails \/ queues \/ adds \/ asks \/ awaits \/ wakes \/ files2
             \/ attends \/ enters \/ rides \/ signals \/ quits
    <2>1. UNCHANGED <<reqSFD, reqEFD, sigs>>
      BY <1>7 DEF calls, hails, queues, adds, asks, awaits, wakes, files2, attends, enters, rides,
                  signals, quits, Does, Calls, riderVars, reqVars
    <2>2. at'[me] # "announces"
      BY <1>2, <1>7 DEF calls, hails, queues, adds, asks, awaits, wakes, files2, attends, enters,
                  rides, signals, quits, Does, Calls, Goes, ElevatorInv, TypedInv
    <2> QED
      BY <1>2, <1>3, <2>1, <2>2 DEF RestInv
  <1> QED
    BY <1>4, <1>5, <1>6, <1>7 DEF riderStep

\* The elevator has what it read in its local variables.
LEMMA RestElevator ==
  ASSUME ElevatorInv, RestInv, elevatorStep
  PROVE  RestInv'
  <1>1. PICK l \in ElevatorLabels : ElevatorDoes(l)
    BY ElevatorForms
  <1>2. /\ me = 2 /\ 2 \in Threads /\ TypedInv /\ l # "announces"
        /\ \A t \in Threads : at'[t] = IF t = me THEN l ELSE at[t]
        /\ UNCHANGED <<program, ticksLeft, caught, misled>>
    BY <1>1, ElevatorEffects
    DEF ElevatorDoes, ElevatorInv, ElevatorLabels, TourLabels, MoveLabels
  <1>3. UNCHANGED sigs
    BY DEF elevatorStep, starts, looks, decides, president, directors, employees, letsEnter,
           letsExit, boards, alights, shuts, rests, stops, sleeps, moves, yields, arrives, Yielding,
           Calls, riderVars
  <1>4. state' \in {"STOPPED", "MOVING", "DOOR_OPENED", "DOOR_CLOSED"}
    <2>1. UNCHANGED state \/ state' \in {"STOPPED", "DOOR_OPENED", "DOOR_CLOSED"}
      BY DEF elevatorStep, starts, looks, decides, president, directors, employees, letsEnter,
           letsExit, boards, alights, shuts, rests, stops, sleeps, moves, yields, arrives, Yielding,
           Calls, Opens, cabVars, elvVars
    <2> QED
      BY <2>1 DEF RestInv
  <1>5. currentFloor' \in 0 .. MAX_FLOORS
    <2>1. CASE UNCHANGED currentFloor
      BY <2>1 DEF RestInv
    <2>2. CASE starts
      BY <2>2, ElevatorAssumption DEF starts
    <2>3. CASE moves \/ arrives
      <3>1. l \in {"looks", "yield1"}
        BY <1>2, <2>3 DEF moves, arrives, Goes, TypedInv
      <3>2. ElevatorInv'
        BY KeptByElevator
      <3>3. currentFloor' \in Stops \/ currentFloor' \in 1 .. MAX_FLOORS
        BY <1>2, <3>1, <3>2 DEF ElevatorInv, CabInv, TourLabels, MoveLabels
      <3> QED
        BY <3>3, ElevatorAssumption DEF Stops
    <2> QED
      BY <2>1, <2>2, <2>3 DEF elevatorStep, looks, decides, president, directors, employees,
           letsEnter, letsExit, boards, alights, shuts, rests, stops, sleeps, yields, Yielding,
           cabVars, elvVars
  <1>6. /\ slot' \in 0 .. 3 /\ (l = "directors" => slot' \in 0 .. 2)
        /\ reqSFD' \in [0 .. 2 -> Floors \cup {None}]
        /\ reqEFD' \in [0 .. 2 -> Floors \cup {None}]
    <2>1. CASE directors
      <3>1. /\ slot \in 0 .. 2 /\ slot' = slot + 1 /\ (slot = 2 => l # "directors")
        BY <1>2, <2>1 DEF directors, At, Opens, RestInv, Goes, TypedInv
      <3>2. /\ \/ reqSFD' = [reqSFD EXCEPT ![slot] = None]
               \/ reqSFD' = [reqSFD EXCEPT ![slot] = @]
            /\ \/ reqEFD' = [reqEFD EXCEPT ![slot] = None]
               \/ reqEFD' = [reqEFD EXCEPT ![slot] = @]
        BY <2>1 DEF directors
      <3> QED
        BY <3>1, <3>2 DEF RestInv
    <2>2. CASE decides
      BY <2>2 DEF decides, RestInv, reqVars
    <2>3. CASE ~directors /\ ~decides
      <3>1. UNCHANGED <<slot, reqSFD, reqEFD>>
        BY <2>3 DEF elevatorStep, starts, looks, president, employees, letsEnter,
           letsExit, boards, alights, shuts, rests, stops, sleeps, moves, yields, arrives, Yielding,
           Calls, cabVars, localVars, reqVars
      <3>2. \E k \in {"sleepsFirst", "decides", "rests", "letsEnter", "letsExit", "shuts",
                      "stops", "moves", "sleeps", "looks", "yield1", "yield2", "yield3",
                      "arrives", "boards", "alights"} : Goes(k)
        BY <2>3 DEF elevatorStep, starts, looks, president, employees, letsEnter,
           letsExit, boards, alights, shuts, rests, stops, sleeps, moves, yields, arrives, Yielding,
           Calls, Opens, VisitGoesOn
      <3>3. l # "directors"
        BY <1>2, <3>2 DEF Goes, TypedInv
      <3> QED
        BY <3>1, <3>3 DEF RestInv
    <2> QED
      BY <2>1, <2>2, <2>3
  <1> QED
    BY <1>2, <1>3, <1>4, <1>5, <1>6 DEF RestInv

\* firstThread leaves these variables alone,
LEMMA RestFirst ==
  ASSUME ElevatorInv, RestInv, firstThread
  PROVE  RestInv'
  <1>1. PICK n \in Threads, l \in {"forks", "end", "starts", "calls"} :
          \A t \in Threads : at'[t] = IF t = n THEN l ELSE at[t]
    BY FirstEffects
  <1>2. UNCHANGED <<ticksLeft, program, caught, misled, state, currentFloor, slot, reqSFD,
                    reqEFD, sigs>>
    BY DEF firstThread, timeVars, cabVars, elvVars, localVars, reqVars
  <1> QED
    BY <1>1, <1>2, TwoThreads DEF RestInv

\* ... and so does main.
LEMMA RestMain ==
  ASSUME ElevatorInv, RestInv, main
  PROVE  RestInv'
  <1>1. \A t \in Threads : at'[t] \in {"forks", at[t]}
    BY DEF main, ElevatorInv, TypedInv
  <1>2. UNCHANGED <<ticksLeft, program, caught, misled, state, currentFloor, slot, reqSFD,
                    reqEFD, sigs>>
    BY DEF main, timeVars, cabVars, elvVars, localVars, reqVars, riderVars
  <1> QED
    BY <1>1, <1>2, TwoThreads DEF RestInv

\* A tick notes where it caught the thread; else the thread system leaves them alone.
LEMMA RestSystem ==
  ASSUME ElevatorInv, RestInv, ThreadSystem
  PROVE  RestInv'
  <1>1. UNCHANGED <<at, program, misled, state, currentFloor, slot, reqSFD, reqEFD, sigs>>
    BY BeginsWell
    DEF ThreadSystem, systemStep, returns, tick, Kernel, cabVars, elvVars, localVars, reqVars,
        riderVars, timeVars
  <1>2. ticksLeft' \in 0 .. program'.ticks /\ caught' \subseteq Labels
    <2>1. CASE tick
      <3>1. me \in Threads
        BY <2>1 DEF tick, timerHandler, me, ElevatorInv, MonInv, TypeOK
      <3>2. at[me] \in Labels
        BY <3>1 DEF ElevatorInv, TypedInv
      <3>3. program \in Programs /\ program.ticks \in Nat
        BY ElevatorAssumption DEF ElevatorInv, TypedInv
      <3> QED
        BY <1>1, <2>1, <3>2, <3>3 DEF tick, RestInv
    <2>2. CASE ~tick
      <3>1. UNCHANGED <<program, ticksLeft, caught>>
        BY <2>2, BeginsWell DEF ThreadSystem, systemStep, returns, Kernel, timeVars
      <3> QED
        BY <3>1 DEF RestInv
    <2> QED
      BY <2>1, <2>2
  <1> QED
    BY <1>1, <1>2 DEF RestInv

\* The initial values have their types.
LEMMA RestStarts == ElevatorInit => RestInv
  <1>1. /\ \A g \in Programs : g.ticks \in Nat
        /\ MAX_FLOORS \in Nat /\ MAX_FLOORS >= 3
    BY ElevatorAssumption
  <1>2. ElevatorInit => misled \in BOOLEAN
    BY Zenon DEF ElevatorInit
  <1> QED
    BY <1>1, <1>2 DEF ElevatorInit, RestInv, Floors

\* The two invariants give every variable its type.
LEMMA RestTypes == ElevatorInv /\ RestInv => ElevatorTypeOK
  <1> SUFFICES ASSUME ElevatorInv, RestInv PROVE ElevatorTypeOK
    OBVIOUS
  <1>1. TypeOK /\ MonitorsTyped /\ TypedInv /\ CabInv
    BY DEF ElevatorInv, MonInv
  <1>2. reqSFP \in Floors \cup {None} /\ reqEFP \in Floors \cup {None}
    <2>1. Stops \subseteq Floors
      BY ElevatorAssumption DEF Stops, Floors
    <2> QED
      BY <2>1 DEF ElevatorInv, RequestInv
  <1>3. /\ numRiders \in Nat /\ bldWaiters \in Nat /\ waitingforEmpty \in Nat
        /\ ridersOf \in [Employee .. President -> Nat]
        /\ setOf \in [Employee .. President -> Nat]
        /\ numWaiters \in [Floors -> Nat]
        /\ num \in [Dirs -> [Floors -> Nat]]
    BY CountTypes DEF ElevatorInv
  <1>4. visit.enter \in Int /\ visit.exit \in Int /\ visit.dir \in Dirs
    BY <1>1 DEF CabInv
  <1>5. bldWaiters \in Int
    BY <1>3
  <1>6. misled \in BOOLEAN
    BY Zenon DEF RestInv
  <1> QED
    BY <1>1, <1>2, <1>3, <1>4, <1>5, <1>6 DEF TypedInv, CabInv, RestInv, ElevatorTypeOK

-----------------------------------------------------------------------------
(* The steps that are in nobody's function.                                 *)

\* What the thread system does to the user functions: it ends none of a rider or
\* of the elevator, and only a tick takes the processor from the elevator.
LEMMA SystemForms ==
  ASSUME ElevatorInv, ThreadSystem \/ UNCHANGED elevatorVars
  PROVE  /\ UNCHANGED <<monitorVars, program, forked, at, start, end, cabVars, bldVars, reqVars,
                        gThreadID, priority>>
         /\ caught \subseteq caught'
         /\ \A t \in Threads : IsRider(t) => pc'[t] = pc[t]
         /\ \/ \E y \in Levels : dispatch(y)
            \/ UNCHANGED currentRunningThread
               /\ (cpu' \in {"thread", "resume"} => cpu \in {"thread", "resume"})
         /\ pc[2] = "body" => pc'[2] = "body"
         /\ pc[2] = "body" /\ OnProcessor(2) =>
              \/ OnProcessor(2)'
              \/ tick /\ me = 2
  <1>1. CASE UNCHANGED elevatorVars
    BY <1>1 DEF elevatorVars, kernelVars, tcbVars, exitVars, timeVars, riderVars, OnProcessor
  <1>2. CASE ThreadSystem
    <2>1. /\ UNCHANGED <<monitorVars, program, forked, at, start, end, cabVars, bldVars, reqVars>>
          /\ caught \subseteq caught'
          /\ \/ \E y \in Levels : dispatch(y)
             \/ schedulerReturns \/ resume \/ wakeSlot \/ retire \/ wakesInWait
             \/ userFunctionReturns /\ At("end")
             \/ timerHandler /\ tick
             \/ halted \/ callUserFunction
      BY <1>2, BeginsWell
      DEF ThreadSystem, systemStep, returns, tick, Kernel, schedulerStep, epilogueStep,
          timeVars, riderVars
    <2>2. 2 \in Threads /\ pc \in [Threads -> {"body", "wake", "done"}]
      BY TwoThreads DEF ElevatorInv, MonInv, TypeOK
    <2>3. CASE \E y \in Levels : dispatch(y)
      <3>1. UNCHANGED <<pc, gThreadID, priority>> /\ cpu = "scheduler"
        BY <2>3 DEF dispatch, exitVars
      <3> QED
        BY <2>1, <2>3, <3>1 DEF OnProcessor
    <2>4. CASE schedulerReturns \/ resume \/ wakesInWait \/ halted \/ callUserFunction
      <3>1. /\ UNCHANGED <<pc, gThreadID, priority, currentRunningThread>>
            /\ cpu' \in {"thread", "resume"} <=> cpu \in {"thread", "resume"}
        BY <2>4 DEF schedulerReturns, resume, wakesInWait, halted, callUserFunction, tcbVars,
                    exitVars, kernelVars
      <3> QED
        BY <2>1, <3>1 DEF OnProcessor
    <2>5. CASE timerHandler /\ tick
      <3>1. /\ UNCHANGED <<pc, gThreadID, priority, currentRunningThread>>
            /\ cpu' = "scheduler"
        BY <2>5 DEF timerHandler, tcbVars, exitVars, Requeue, Park
      <3> QED
        BY <2>1, <2>5, <3>1 DEF OnProcessor, me
    <2>6. CASE wakeSlot \/ retire
      <3>1. /\ UNCHANGED <<gThreadID, priority, currentRunningThread>>
            /\ InWake /\ cpu = "thread"
            /\ pc' = pc \/ pc' = [pc EXCEPT ![currentRunningThread] = "done"]
        BY <2>6 DEF wakeSlot, retire, tcbVars, InWake
      <3>2. \A t \in Threads : pc[t] = "body" => pc'[t] = "body" /\ ~OnProcessor(t)
        BY <2>2, <3>1 DEF InWake, OnProcessor
      <3>3. ASSUME NEW t \in Threads, IsRider(t) PROVE pc'[t] = pc[t]
        <4>1. pc[t] # "wake"
          BY <3>3 DEF ElevatorInv, WhoInv, Placed
        <4> QED
          BY <2>2, <3>1, <4>1 DEF InWake
      <3> QED
        BY <2>1, <2>2, <3>1, <3>2, <3>3
    <2>7. CASE userFunctionReturns /\ At("end")
      <3>1. me = 1
        BY <2>7, Running DEF At, FirstLabels
      <3>2. /\ pc' = [pc EXCEPT ![me] = "wake"]
            /\ UNCHANGED <<gThreadID, priority, currentRunningThread>> /\ cpu = "thread"
        BY <2>7 DEF userFunctionReturns, me, tcbVars, InBody
      <3>3. \A t \in Threads : t # 1 => pc'[t] = pc[t]
        BY <2>2, <3>1, <3>2
      <3>4. ~OnProcessor(2) /\ \A t \in Threads : IsRider(t) => t # 1
        BY <3>1 DEF OnProcessor, me, IsRider
      <3> QED
        BY <2>1, <2>2, <3>2, <3>3, <3>4
    <2> QED
      BY <2>1, <2>3, <2>4, <2>5, <2>6, <2>7
  <1> QED
    BY <1>1, <1>2

\* Every step but one that misleads the elevator keeps both invariants,
LEMMA MoveSteps ==
  ASSUME ElevatorInv, MoveInv, RestInv, ~misled', [ElevatorNext]_elevatorVars
  PROVE  MoveInv' /\ RestInv'
  <1>1. CASE main
    BY <1>1, MoveMain, RestMain
  <1>2. CASE firstThread
    BY <1>2, MoveFirst, RestFirst
  <1>3. CASE elevatorStep
    BY <1>3, MoveElevator, RestElevator
  <1>4. CASE riderStep
    BY <1>4, MoveRider, RestRider
  <1>5. CASE ThreadSystem \/ UNCHANGED elevatorVars
    <2>1. MoveInv'
      BY <1>5, SystemForms, MoveSystem
    <2>2. RestInv'
      <3>1. CASE UNCHANGED elevatorVars
        <4>1. UNCHANGED <<ticksLeft, program, caught, misled, state, currentFloor, slot, reqSFD, reqEFD,
                          sigs, at>>
          BY <3>1 DEF elevatorVars, timeVars, cabVars, elvVars, localVars, reqVars, riderVars
        <4> QED
          BY <4>1 DEF RestInv
      <3> QED
        BY <1>5, <3>1, RestSystem
    <2> QED
      BY <2>1, <2>2
  <1> QED
    BY <1>1, <1>2, <1>3, <1>4, <1>5, NoStray DEF ElevatorNext, ThreadSystem

\* ... so with ElevatorInv they always hold, until then.
LEMMA MovesAlways == ElevatorSpec => [](misled \/ (ElevatorInv /\ MoveInv /\ RestInv))
  <1>1. ElevatorInit => ElevatorInv /\ MoveInv /\ RestInv
    BY ElevatorStarts, MoveStarts, RestStarts
  <1>2. (misled \/ (ElevatorInv /\ MoveInv /\ RestInv)) /\ [ElevatorNext]_elevatorVars
          => (misled \/ (ElevatorInv /\ MoveInv /\ RestInv))'
    BY ElevatorSteps, MoveSteps, MisledStays
  <1> QED
    BY <1>1, <1>2, PTL DEF ElevatorSpec

\* The variables of the program keep their types, whatever firstThread does, as long as
\* the elevator began with its own function.
THEOREM ElevatorTypes == ElevatorSpec => [](misled \/ ElevatorTypeOK)
  BY MovesAlways, RestTypes, PTL

-----------------------------------------------------------------------------
(* One rank at a time, and no more than there is room for.                  *)

\* No slice has ended between what the elevator saw and what it did.
NoStale == caught \cap Stale = {}

\* the labels from a rider's request to his entry, and from the test whether he
\* must wait for the elevator to be empty
FiledLabels == {"files2", "attends", "enters"}
PastTest    == {"files1"} \cup FiledLabels

Callers(p, d, f) == {t \in Threads : priority[t] = p /\ start[t] = f /\ Towards(t) = d}
Filed(p, d, f)   == HowMany(Callers(p, d, f), FiledLabels, at)

\* the directors' requests that the elevator would admit on floor f
LiveSlots(d, f) == {i \in 0 .. 2 : reqSFD[i] = f /\ Ahead(d, f, reqEFD[i])}
Live(p, d, f)   == IF p = Director THEN Cardinality(LiveSlots(d, f)) ELSE 0

\* how many the elevator has still to call in, and who were called and are coming
ToSignal == IF at[2] = "letsEnter" THEN visit.enter
            ELSE IF at[2] = "boards" THEN visit.enter - 1 ELSE 0
NumComes == IF \E t \in Threads : Comes(t) THEN 1 ELSE 0

\* The elevator lets in riders of rank p, who go in direction d from floor f.  Each
\* signal will find one, and nobody more important is on the way to where it could
\* find him instead.
Serving(p, d, f) ==
  /\ d = visit.dir /\ f = currentFloor
  /\ \A q \in Employee .. President : q # p => ridersOf[q] = 0
  /\ \A t \in Threads : Comes(t) => priority[t] = p /\ Towards(t) = d
  /\ \A t \in Threads : at[t] \in PastTest => priority[t] <= p
  /\ ToSignal + NumComes + Live(p, d, f) <= Filed(p, d, f)
  /\ numRiders + ToSignal + NumComes <= MAX_RIDERS
  /\ ridersOf[p] > 0 \/ NumComes = 1 \/ (at[2] = "letsEnter" /\ OnProcessor(2))
  /\ p = President <=> visit.by = "president in"
  /\ at[2] \in {"letsEnter", "boards"} => visit.enter > 0

ServeInv ==
  at[2] \in {"letsEnter", "boards"} \/ NumComes = 1 =>
    \E p \in Employee .. President, d \in Dirs, f \in Stops : Serving(p, d, f)

\* One rank is inside, and no more than the elevator holds.
AloneInv ==
  \A p, q \in Employee .. President : ridersOf[p] > 0 /\ ridersOf[q] > 0 => p = q
RoomInv == numRiders <= MAX_RIDERS

\* Every request of a director is that of one who waits.
LiveInv == \A d \in Dirs, f \in Stops : Live(Director, d, f) <= Filed(Director, d, f)

\* What the elevator saw is still so when it acts on it.
LookInv ==
  /\ at[2] \in {"decides", "decidesToo", "decidesLast", "employees"} =>
       numSpaces = MAX_RIDERS - numRiders /\ numEnter <= num[direction][currentFloor]
  /\ at[2] = "president" => ridersOf[Director] = 0 /\ ridersOf[Employee] = 0
  /\ at[2] = "directors" =>
       /\ OnProcessor(2) /\ setOf[President] = 0 /\ ridersOf[Employee] = 0
       /\ visit.enter >= 0 /\ visit.exit >= 0 /\ visit.dir = direction
       /\ visit.enter + Live(Director, direction, currentFloor)
            <= Filed(Director, direction, currentFloor)
  /\ at[2] = "employees" => OnProcessor(2) /\ setOf[President] = 0 /\ setOf[Director] = 0

\* The president's request is his until he has been called in.
CallInv ==
  reqSFP # None =>
    \/ at[2] \in OpenLabels /\ visit.by = "president in"
    \/ \E t \in Threads : /\ IsPresident(t) /\ at[t] \in {"attends", "enters"}
                          /\ start[t] = reqSFP /\ end[t] = reqEFP

\* The script has three directors.
Directors == {t \in Threads : IsRider(t) /\ priority[t] = Director}
DirectorsInv ==
  Cardinality(Directors) <= Cardinality({i \in Who(program.script, Director) : i < forked})

RankInv ==
  /\ pc[2] = "body" /\ DirectorsInv
  /\ NoStale => ServeInv /\ AloneInv /\ RoomInv /\ LiveInv /\ LookInv /\ CallInv

\* There are finitely many requests of directors.
LEMMA LiveNat ==
  ASSUME NEW d, NEW f
  PROVE  IsFiniteSet(LiveSlots(d, f)) /\ Cardinality(LiveSlots(d, f)) \in Nat
  <1>1. IsFiniteSet(0 .. 2)
    <2>1. 0 \in Int /\ 2 \in Int
      OBVIOUS
    <2> QED
      BY ONLY <2>1, FS_Interval
  <1>2. LiveSlots(d, f) \subseteq 0 .. 2
    BY DEF LiveSlots
  <1> QED
    BY <1>1, <1>2, FS_Subset, FS_CardinalityType

\* A move of rider t to label l leaves the requests of others as they are.
FiledBy(t, l, p, d, f) ==
  /\ Filed(p, d, f) \in Nat /\ Filed(p, d, f)' \in Nat
  /\ Filed(p, d, f)' = Filed(p, d, f) +
       (IF priority[t] = p /\ start[t] = f /\ Towards(t) = d
        THEN Delta(FiledLabels, at[t], l) ELSE 0)

\* A move counts for the requests of the mover's rank, floor and direction only.
LEMMA FiledMoves ==
  ASSUME TypedInv, NEW t \in Threads, NEW l, at' = [at EXCEPT ![t] = l],
         UNCHANGED <<priority, start, end>>, NEW p, NEW d, NEW f
  PROVE  FiledBy(t, l, p, d, f)
  <1>1. Callers(p, d, f) \in SUBSET Threads /\ Callers(p, d, f)' = Callers(p, d, f)
    BY DEF Callers, Towards
  <1>2. PICK K \in SUBSET Threads : K = Callers(p, d, f)
    BY <1>1
  <1>3. Filed(p, d, f)' = HowMany(K, FiledLabels, at')
    BY <1>1, <1>2 DEF Filed, HowMany, Among, FiledLabels
  <1>4. Filed(p, d, f) = HowMany(K, FiledLabels, at)
    BY <1>2 DEF Filed
  <1>5. Delta(FiledLabels, at[t], l) \in Int
    BY DEF Delta
  <1>6. HowMany(K, FiledLabels, at') \in Nat
    <2>1. Among(K, FiledLabels, at') \in SUBSET Threads
      BY DEF Among
    <2> QED
      BY <2>1, OneMore DEF HowMany
  <1>7. /\ HowMany(K, FiledLabels, at) \in Nat
        /\ t \in K => HowMany(K, FiledLabels, at')
                       = HowMany(K, FiledLabels, at) + Delta(FiledLabels, at[t], l)
        /\ t \notin K => HowMany(K, FiledLabels, at') = HowMany(K, FiledLabels, at)
    BY CountOne
  <1>8. t \in K <=> priority[t] = p /\ start[t] = f /\ Towards(t) = d
    BY <1>2 DEF Callers
  <1> HIDE DEF Filed, Callers, HowMany, FiledLabels
  <1> QED
    BY <1>3, <1>4, <1>6, <1>7, <1>8 DEF FiledBy

\* The requests stay when the threads who made them do.
LEMMA FiledSame ==
  ASSUME NEW p, NEW d, NEW f,
         \A t \in Threads : at'[t] \in FiledLabels <=> at[t] \in FiledLabels,
         \A t \in Threads : at[t] \in FiledLabels =>
           priority'[t] = priority[t] /\ start'[t] = start[t] /\ end'[t] = end[t]
  PROVE  Filed(p, d, f)' = Filed(p, d, f)
  <1>1. Among(Callers(p, d, f), FiledLabels, at)' = Among(Callers(p, d, f), FiledLabels, at)
    <2>1. ASSUME NEW t \in Threads, at[t] \in FiledLabels
          PROVE  t \in Callers(p, d, f)' <=> t \in Callers(p, d, f)
      BY <2>1 DEF Callers, Towards
    <2>2. Callers(p, d, f) \subseteq Threads /\ Callers(p, d, f)' \subseteq Threads
      BY DEF Callers
    <2>3. FiledLabels' = FiledLabels
      BY DEF FiledLabels
    <2> HIDE DEF Callers, FiledLabels
    <2> QED
      BY <2>1, <2>2, <2>3 DEF Among
  <1> QED
    BY <1>1 DEF Filed, HowMany

\* The thread system leaves requests and riders alone; a tick that catches the elevator
\* between look and signal is noted.
LEMMA RankSystem ==
  ASSUME ElevatorInv, RankInv, ThreadSystem \/ UNCHANGED elevatorVars
  PROVE  RankInv'
  <1>1. /\ UNCHANGED <<monitorVars, program, forked, at, start, end, cabVars, bldVars, reqVars,
                       gThreadID, priority>>
        /\ caught \subseteq caught'
        /\ pc'[2] = "body"
        /\ OnProcessor(2) => \/ OnProcessor(2)'
                             \/ tick /\ me = 2
    BY SystemForms DEF RankInv
  <1>2. /\ UNCHANGED <<waiters, program, forked, at, start, end, gThreadID, priority>>
        /\ UNCHANGED <<state, direction, currentFloor, numEnter, numExit, numSpaces, slot, visit>>
        /\ UNCHANGED <<numRiders, ridersOf, numWaiters, num, bldWaiters, setOf, waitingforEmpty>>
        /\ UNCHANGED <<reqSFP, reqEFP, reqSFD, reqEFD>>
    BY <1>1 DEF monitorVars, cabVars, elvVars, localVars, bldVars, rideVars, callVars, reqVars
  <1>3. DirectorsInv'
    BY <1>2 DEF RankInv, DirectorsInv, Directors, IsRider, Born, Who
  <1>4. SUFFICES ASSUME NoStale'
                 PROVE  ServeInv' /\ AloneInv' /\ RoomInv' /\ LiveInv' /\ LookInv' /\ CallInv'
    BY <1>1, <1>3 DEF RankInv
  <1>5. NoStale /\ ServeInv /\ AloneInv /\ RoomInv /\ LiveInv /\ LookInv /\ CallInv
    BY <1>1, <1>4 DEF RankInv, NoStale
  <1>6. OnProcessor(2) /\ at[2] \in Stale => OnProcessor(2)'
    BY <1>1, <1>4 DEF tick, NoStale
  <1>7. /\ NumComes' = NumComes /\ ToSignal' = ToSignal
        /\ \A t \in Threads : Comes(t)' <=> Comes(t)
        /\ \A t \in Threads : IsPresident(t)' <=> IsPresident(t)
        /\ \A d, f : Towards(d)' = Towards(d)
    BY <1>2 DEF NumComes, ToSignal, Comes, Waits, Towards, going, IsPresident, IsRider, Born
  <1>8. \A p, d, f : Filed(p, d, f)' = Filed(p, d, f) /\ Live(p, d, f)' = Live(p, d, f)
    BY <1>2 DEF Filed, HowMany, Among, Callers, Towards, Live, LiveSlots
  <1>9. AloneInv' /\ RoomInv' /\ LiveInv' /\ CallInv'
    BY <1>2, <1>5, <1>7, <1>8 DEF AloneInv, RoomInv, LiveInv, CallInv
  <1>10. LookInv'
    BY <1>2, <1>5, <1>6, <1>8 DEF LookInv, Stale
  <1>11. ServeInv'
    <2>1. ASSUME NEW p \in Employee .. President, NEW d \in Dirs, NEW f \in Stops, Serving(p, d, f)
          PROVE  Serving(p, d, f)'
      BY <1>2, <1>6, <1>7, <1>8, <2>1 DEF Serving, Stale
    <2> QED
      BY <1>2, <1>5, <1>7, <2>1 DEF ServeInv
  <1> QED
    BY <1>9, <1>10, <1>11

\* One more director needs one more line of the script.
LEMMA DirectorsBorn ==
  ASSUME TypedInv, DirectorsInv, UNCHANGED program, forked' = forked + 1,
         NEW n \in Threads,
         \A t \in Threads : t # n => priority'[t] = priority[t] /\ (IsRider(t)' <=> IsRider(t)),
         IsRider(n)' => \/ IsRider(n) /\ priority'[n] = priority[n]
                        \/ /\ forked \in 1 .. Len(program.script)
                           /\ priority'[n] = program.script[forked].priority
  PROVE  DirectorsInv'
  <1>1. /\ program \in Programs /\ program.script \in Seq(Journeys \cup {Yields})
        /\ forked \in Int /\ Len(program.script) \in Nat
    BY ElevatorAssumption DEF TypedInv
  <1>2. PICK W : W = {i \in Who(program.script, Director) : i < forked}
    OBVIOUS
  <1>3. /\ W \subseteq 1 .. Len(program.script) /\ \A i \in W : i \in Int /\ i < forked
        /\ IsFiniteSet(W) /\ Cardinality(W) \in Nat
    <2>1. W \subseteq 1 .. Len(program.script)
      BY <1>2 DEF Who
    <2>2. IsFiniteSet(1 .. Len(program.script))
      BY <1>1, FS_Interval
    <2>3. IsFiniteSet(W) /\ Cardinality(W) \in Nat
      BY <2>1, <2>2, FS_Subset, FS_CardinalityType
    <2> QED
      BY <1>1, <1>2, <2>1, <2>3
  <1>4. PICK V : V = {i \in Who(program'.script, Director) : i < forked'}
    OBVIOUS
  <1>5. V = W \/ (forked \in Who(program.script, Director) /\ V = W \cup {forked})
    <2>1. V = {i \in Who(program.script, Director) : i < forked \/ i = forked}
      BY <1>1, <1>4 DEF Who
    <2> QED
      BY <1>1, <1>2, <2>1
  <1>6. Cardinality(V) >= Cardinality(W)
        /\ (forked \in Who(program.script, Director) => Cardinality(V) = Cardinality(W) + 1)
    <2>1. forked \notin W
      BY <1>1, <1>3
    <2>2. V = W \cup {forked} => Cardinality(V) = Cardinality(W) + 1
      BY <1>3, <2>1, FS_AddElement
    <2>3. forked \in Who(program.script, Director) => forked \in V
      BY <1>1, <1>4 DEF Who
    <2> QED
      BY <1>3, <1>5, <2>1, <2>2, <2>3
  <1>7. Directors \in SUBSET Threads /\ Directors' \in SUBSET Threads
    BY DEF Directors
  <1>8. \/ Directors' \subseteq Directors
        \/ forked \in Who(program.script, Director) /\ Directors' \subseteq Directors \cup {n}
    <2>1. \A t \in Threads : t \in Directors' => t \in Directors \/ t = n
      BY DEF Directors
    <2>2. n \in Directors' => \/ n \in Directors
                              \/ forked \in Who(program.script, Director)
      BY DEF Directors, Who
    <2> QED
      BY <1>7, <2>1, <2>2
  <1>9. \/ Cardinality(Directors') <= Cardinality(Directors)
        \/ /\ forked \in Who(program.script, Director)
           /\ Cardinality(Directors') <= Cardinality(Directors) + 1
    <2>1. IsFiniteSet(Threads)
      BY KernelAssumption, FS_Interval DEF Threads
    <2>2. IsFiniteSet(Directors) /\ IsFiniteSet(Directors \cup {n})
      BY <1>7, <2>1, FS_Subset, FS_AddElement
    <2>3. /\ Cardinality(Directors) \in Nat
          /\ Cardinality(Directors \cup {n}) <= Cardinality(Directors) + 1
      BY <2>2, FS_AddElement, FS_CardinalityType
    <2>4. /\ Directors' \subseteq Directors => Cardinality(Directors') <= Cardinality(Directors)
          /\ Directors' \subseteq Directors \cup {n} =>
               Cardinality(Directors') <= Cardinality(Directors \cup {n})
               /\ Cardinality(Directors') \in Nat
      BY <2>2, FS_Subset, FS_CardinalityType
    <2>5. Cardinality(Directors \cup {n}) \in Nat
      BY <2>2, FS_CardinalityType
    <2> QED
      BY <1>8, <2>3, <2>4, <2>5
  <1>10. Cardinality(Directors) \in Nat /\ Cardinality(Directors') \in Nat
    BY <1>7, OneMore
  <1>11. Cardinality(Directors) <= Cardinality(W)
    BY <1>2 DEF DirectorsInv
  <1>12. Cardinality(Directors') <= Cardinality(V)
    <2>1. V = W => Cardinality(V) = Cardinality(W)
      OBVIOUS
    <2>2. Cardinality(V) \in Nat
      <3>1. V \subseteq W \cup {forked} /\ IsFiniteSet(W \cup {forked})
        BY <1>3, <1>5, FS_AddElement
      <3> QED
        BY <3>1, FS_Subset, FS_CardinalityType
    <2> QED
      BY <1>3, <1>6, <1>9, <1>10, <1>11, <2>2
  <1> QED
    BY <1>4, <1>12 DEF DirectorsInv

\* firstThread runs while nobody is being let in; a rider it forks has no request yet.
LEMMA RankFirst ==
  ASSUME ElevatorInv, MoveInv, RankInv, firstThread
  PROVE  RankInv'
  <1>1. PICK n \in Threads, l \in {"forks", "end", "starts", "calls"} :
           /\ \A t \in Threads : at'[t] = IF t = n THEN l ELSE at[t]
           /\ \A t \in Threads : t # n => /\ start'[t] = start[t] /\ end'[t] = end[t]
                                          /\ priority'[t] = priority[t]
                                          /\ IsRider(t)' <=> IsRider(t)
           /\ InBody /\ me = 1 /\ currentRunningThread' = 1 /\ cpu' \in {cpu, "scheduler"}
           /\ UNCHANGED <<waiters, pc>>
           /\ \/ n = 1 /\ l \in {"forks", "end"} /\ (IsRider(1)' <=> IsRider(1))
                 /\ UNCHANGED <<start, end, priority, gThreadID>>
              \/ Born1(n, l)
    BY FirstEffects
  <1>2. /\ \A t \in Threads : ~InDoor(t) /\ ~Loose(t)
        /\ 1 \in Threads /\ 2 \in Threads /\ TypedInv
    BY <1>1, Calm, TwoThreads DEF MoveInv, ElevatorInv
  <1>3. /\ UNCHANGED <<state, direction, currentFloor, numEnter, numExit, numSpaces, slot, visit>>
        /\ UNCHANGED <<numRiders, ridersOf, numWaiters, num, bldWaiters, setOf, waitingforEmpty>>
        /\ UNCHANGED <<reqSFP, reqEFP, reqSFD, reqEFD, program, caught>>
        /\ forked' = forked + 1
    BY DEF firstThread, cabVars, elvVars, localVars, bldVars, rideVars, callVars, reqVars, timeVars
  <1>4. /\ at[n] \in FirstLabels \cup {"end"}
        /\ l \notin RiderLabels \ {"calls"}
        /\ at'[2] \in {"forks", "end", "starts", "calls", at[2]}
        /\ n = 2 => at'[2] = "starts"
    BY <1>1, <1>2, Running DEF Born1, FirstLabels, RiderLabels, EarlyLabels, LateLabels,
       firstThread, At
  <1>5. ~OnProcessor(2) /\ ~OnProcessor(2)'
    BY <1>1 DEF OnProcessor, me
  <1>6. DirectorsInv'
    <2>1. IsRider(n)' => \/ IsRider(n) /\ priority'[n] = priority[n]
                         \/ /\ forked \in 1 .. Len(program.script)
                            /\ priority'[n] = program.script[forked].priority
      BY <1>1 DEF Born1
    <2> QED
      BY <1>1, <1>2, <1>3, <2>1, DirectorsBorn DEF RankInv
  <1>7. SUFFICES ASSUME NoStale'
                 PROVE  ServeInv' /\ AloneInv' /\ RoomInv' /\ LiveInv' /\ LookInv' /\ CallInv'
    BY <1>1, <1>6 DEF RankInv
  <1>8. NoStale /\ ServeInv /\ AloneInv /\ RoomInv /\ LiveInv /\ LookInv /\ CallInv
    BY <1>3, <1>7 DEF RankInv, NoStale
  <1>9. /\ \A t \in Threads : at'[t] \in PastTest <=> at[t] \in PastTest
        /\ \A t \in Threads : at[t] \in PastTest => t # n
    BY <1>1, <1>4 DEF PastTest, FiledLabels, FirstLabels
  <1>10. \A p, d, f : Filed(p, d, f)' = Filed(p, d, f) /\ Live(p, d, f)' = Live(p, d, f)
    <2>1. ASSUME NEW p, NEW d, NEW f PROVE Filed(p, d, f)' = Filed(p, d, f)
      <3>1. \A t \in Threads : at'[t] \in FiledLabels <=> at[t] \in FiledLabels
        BY <1>1, <1>4 DEF FiledLabels, FirstLabels
      <3>2. \A t \in Threads : at[t] \in FiledLabels =>
              priority'[t] = priority[t] /\ start'[t] = start[t] /\ end'[t] = end[t]
        BY <1>1, <1>4 DEF FiledLabels, FirstLabels
      <3> QED
        BY <3>1, <3>2, FiledSame
    <2> QED
      BY <1>3, <2>1 DEF Live, LiveSlots
  <1>11. \A t \in Threads : ~Comes(t) /\ ~Comes(t)'
    <2>1. MoveInv'
      BY MoveFirst
    <2>2. \A t \in Threads : at'[t] = "enters" => at[t] = "enters" /\ t # n
      BY <1>1, <1>4 DEF FirstLabels
    <2>3. \A t \in Threads : ~Comes(t)
      BY <1>2 DEF InDoor
    <2>4. \A t \in Threads : t # n => \A c : Waits(t, c)' <=> Waits(t, c)
      BY <1>1 DEF Waits
    <2> QED
      BY <1>1, <2>2, <2>3, <2>4 DEF Comes, Waits, going, Towards
  <1>12. at'[2] \in {"letsEnter", "boards", "decides", "decidesToo", "decidesLast", "employees",
                     "president", "directors"} => at'[2] = at[2]
    BY <1>1, <1>2, <1>4
  <1>13. AloneInv' /\ RoomInv' /\ LiveInv'
    BY <1>3, <1>8, <1>10 DEF AloneInv, RoomInv, LiveInv
  <1>14. LookInv'
    BY <1>3, <1>5, <1>8, <1>10, <1>12 DEF LookInv
  <1>15. CallInv'
    <2>1. ASSUME at[2] \in OpenLabels PROVE at'[2] = at[2]
      BY <1>1, <1>2, <1>4, <2>1 DEF OpenLabels, Born1
    <2>2. ASSUME NEW t \in Threads, IsPresident(t), at[t] \in {"attends", "enters"}
          PROVE  /\ IsPresident(t)' /\ at'[t] = at[t]
                 /\ start'[t] = start[t] /\ end'[t] = end[t]
      <3>1. t # n
        BY <1>4, <2>2 DEF FirstLabels
      <3> QED
        BY <1>1, <2>2, <3>1 DEF IsPresident
    <2> QED
      BY <1>3, <1>8, <2>1, <2>2 DEF CallInv
  <1>16. ServeInv'
    <2>1. NumComes = 0 /\ NumComes' = 0
      BY <1>11 DEF NumComes
    <2>2. ASSUME at'[2] \in {"letsEnter", "boards"}
          PROVE  \E p \in Employee .. President, d \in Dirs, f \in Stops : Serving(p, d, f)'
      <3>1. at'[2] = at[2]
        BY <1>12, <2>2
      <3>2. PICK p \in Employee .. President, d \in Dirs, f \in Stops : Serving(p, d, f)
        BY <1>8, <2>2, <3>1 DEF ServeInv
      <3>3. ToSignal' = ToSignal
        BY <1>3, <3>1 DEF ToSignal
      <3>4. \A t \in Threads : at'[t] \in PastTest => priority'[t] <= p
        BY <1>1, <1>9, <3>2 DEF Serving
      <3>5. Serving(p, d, f)'
        BY <1>3, <1>5, <1>10, <1>11, <2>1, <3>1, <3>2, <3>3, <3>4 DEF Serving
      <3> QED
        BY <3>5
    <2> QED
      BY <2>1, <2>2 DEF ServeInv
  <1> QED
    BY <1>13, <1>14, <1>15, <1>16

\* main runs before there are requests.
LEMMA RankMain ==
  ASSUME ElevatorInv, RankInv, main
  PROVE  RankInv'
  <1>1. /\ cpu' = "scheduler" /\ at' = [at EXCEPT ![1] = "forks"] /\ gThreadID = 0
        /\ gThreadID' = 1 /\ UNCHANGED <<pc, waiters>>
    BY DEF main, t_start, ElevatorInv, WhoInv, NobodyYet, NewTcb, exitVars, monitorVars
  <1>2. /\ \A t \in Threads : ~Born(t) /\ at[t] = "end"
        /\ \A t \in Threads : at'[t] \in {"forks", "end"}
        /\ 2 \in Threads
    BY <1>1, TwoThreads DEF Born, Threads, ElevatorInv, WhoInv, Placed, TypedInv
  <1>3. /\ UNCHANGED <<state, direction, currentFloor, numEnter, numExit, numSpaces, slot, visit>>
        /\ UNCHANGED <<numRiders, ridersOf, numWaiters, num, bldWaiters, setOf, waitingforEmpty>>
        /\ UNCHANGED <<reqSFP, reqEFP, reqSFD, reqEFD, program, caught, forked, start, end>>
    BY DEF main, cabVars, elvVars, localVars, bldVars, rideVars, callVars, reqVars, timeVars,
           riderVars
  <1>4. DirectorsInv'
    <2>1. Directors' = Directors
      BY <1>1, <1>2 DEF Directors, IsRider, Born, Threads
    <2> QED
      BY <1>3, <2>1 DEF RankInv, DirectorsInv, Who
  <1>5. SUFFICES ASSUME NoStale'
                 PROVE  ServeInv' /\ AloneInv' /\ RoomInv' /\ LiveInv' /\ LookInv' /\ CallInv'
    BY <1>1, <1>4 DEF RankInv
  <1>6. NoStale /\ AloneInv /\ RoomInv /\ LiveInv /\ CallInv
    BY <1>3, <1>5 DEF RankInv, NoStale
  <1>7. \A p, d, f : Filed(p, d, f)' = Filed(p, d, f) /\ Live(p, d, f)' = Live(p, d, f)
    <2>1. ASSUME NEW p, NEW d, NEW f PROVE Filed(p, d, f)' = Filed(p, d, f)
      BY <1>2, FiledSame DEF FiledLabels
    <2> QED
      BY <1>3, <2>1 DEF Live, LiveSlots
  <1>8. ~\E t \in Threads : Comes(t)'
    BY <1>2 DEF Comes
  <1>9. ServeInv'
    BY <1>2, <1>8 DEF ServeInv, NumComes
  <1>10. AloneInv' /\ RoomInv' /\ LiveInv' /\ LookInv'
    BY <1>2, <1>3, <1>6, <1>7 DEF AloneInv, RoomInv, LiveInv, LookInv
  <1>11. CallInv'
    <2>1. reqSFP = None
      BY <1>2, <1>6 DEF CallInv, OpenLabels
    <2> QED
      BY <1>3, <2>1 DEF CallInv
  <1> QED
    BY <1>9, <1>10, <1>11

\* At the start there are none.
LEMMA RankStarts == ElevatorInit => RankInv
  <1> SUFFICES ASSUME ElevatorInit PROVE RankInv
    OBVIOUS
  <1>1. /\ MAX_FLOORS \in Nat /\ MAX_FLOORS >= 3 /\ MAX_RIDERS \in Nat /\ MAX_RIDERS >= 3
        /\ program \in Programs /\ Len(program.script) + 2 <= MaxThreads
        /\ Len(program.script) \in Nat
    BY ElevatorAssumption DEF ElevatorInit
  <1>2. 2 \in Threads
    BY <1>1, KernelAssumption DEF Threads
  <1>3. /\ pc[2] = "body" /\ gThreadID = 0 /\ \A t \in Threads : at[t] = "end" /\ ~Born(t)
    BY <1>2 DEF ElevatorInit, KernelInit, Born, Threads
  <1>4. DirectorsInv
    <2>1. Directors = {}
      BY <1>3 DEF Directors, IsRider
    <2>2. {i \in Who(program.script, Director) : i < forked} = {}
      BY DEF Who, ElevatorInit
    <2> QED
      BY <2>1, <2>2, FS_EmptySet DEF DirectorsInv
  <1>5. ServeInv /\ AloneInv /\ RoomInv /\ LookInv /\ CallInv
    BY <1>1, <1>2, <1>3
    DEF ServeInv, NumComes, Comes, AloneInv, RoomInv, LookInv, CallInv, ElevatorInit
  <1>6. LiveInv
    <2>1. ASSUME NEW d \in Dirs, NEW f \in Stops
          PROVE  Live(Director, d, f) <= Filed(Director, d, f)
      <3>1. LiveSlots(d, f) = {}
        BY <1>1 DEF LiveSlots, ElevatorInit, Stops
      <3>2. Among(Callers(Director, d, f), FiledLabels, at) = {}
        BY <1>3 DEF Among, FiledLabels, Callers
      <3> QED
        BY <3>1, <3>2, FS_EmptySet DEF Live, Filed, HowMany
    <2> QED
      BY <2>1 DEF LiveInv
  <1> QED
    BY <1>3, <1>4, <1>5, <1>6 DEF RankInv

\* Nobody but the one who enters takes his request with him, and every new request
\* is that of one who files it.
LEMMA RiderFiles ==
  ASSUME ElevatorInv, RestInv, riderStep, at[me] # "enters",
         NEW p \in Employee .. President, NEW d \in Dirs, NEW f \in Stops
  PROVE  /\ Live(p, d, f) \in Nat /\ Live(p, d, f)' \in Nat
         /\ Filed(p, d, f) \in Nat /\ Filed(p, d, f)' \in Nat
         /\ Live(p, d, f)' + Filed(p, d, f) <= Live(p, d, f) + Filed(p, d, f)'
  <1>1. PICK l \in RiderLabels : RiderDoes(l)
    BY RiderForms
  <1>2. /\ me \in Threads /\ UNCHANGED <<priority, start, end>> /\ at' = [at EXCEPT ![me] = l]
        /\ at[me] # "enters" /\ <<at[me], l>> \in RiderArcs /\ TypedInv
    BY <1>1, RiderEffects DEF RiderDoes, Goes, ElevatorInv
  <1>3. PICK t \in Threads : t = me
    BY <1>2
  <1>4. /\ Filed(p, d, f) \in Nat /\ Filed(p, d, f)' \in Nat
        /\ Filed(p, d, f)' = Filed(p, d, f) +
             (IF priority[t] = p /\ start[t] = f /\ Towards(t) = d
              THEN Delta(FiledLabels, at[t], l) ELSE 0)
    <2>1. /\ at' = [at EXCEPT ![t] = l] /\ UNCHANGED <<priority, start, end>> /\ TypedInv
          /\ t \in Threads
      BY <1>2, <1>3
    <2>2. FiledBy(t, l, p, d, f)
      BY ONLY <2>1, FiledMoves
    <2> QED
      BY <2>2 DEF FiledBy
  <1>5. /\ Delta(FiledLabels, at[t], l) \in {0, 1}
        /\ at[t] = "files1" => Delta(FiledLabels, at[t], l) = 1
    BY <1>2, <1>3 DEF Delta, FiledLabels, RiderArcs, QuietMoves
  <1>6. Filed(p, d, f) <= Filed(p, d, f)'
    BY <1>4, <1>5
  <1>7. Live(p, d, f) \in Nat /\ Live(p, d, f)' \in Nat
    <2>1. Cardinality(LiveSlots(d, f)) \in Nat
      BY LiveNat
    <2>2. Cardinality(LiveSlots(d, f)') \in Nat
      <3>1. LiveSlots(d, f)' \subseteq 0 .. 2
        BY DEF LiveSlots
      <3>2. IsFiniteSet(0 .. 2)
        <4>1. 0 \in Int /\ 2 \in Int
          OBVIOUS
        <4> QED
          BY ONLY <4>1, FS_Interval
      <3> QED
        BY <3>1, <3>2, FS_Subset, FS_CardinalityType
    <2> QED
      BY <2>1, <2>2 DEF Live
  <1>8. CASE UNCHANGED <<reqSFD, reqEFD>>
    <2>1. Live(p, d, f)' = Live(p, d, f)
      BY <1>8 DEF Live, LiveSlots
    <2> QED
      BY <1>4, <1>6, <1>7, <2>1
  <1>9. CASE /\ files1 /\ priority[t] = Director
             /\ reqSFD' = [reqSFD EXCEPT ![setOf[Director]] = start[t]]
             /\ reqEFD' = [reqEFD EXCEPT ![setOf[Director]] = end[t]]
    <2>1. PICK k : k = setOf[Director]
      OBVIOUS
    <2>2. /\ \A i \in 0 .. 2 : i # k => reqSFD'[i] = reqSFD[i] /\ reqEFD'[i] = reqEFD[i]
          /\ k \in 0 .. 2 => reqSFD'[k] = start[t] /\ reqEFD'[k] = end[t]
      BY <1>9, <2>1 DEF RestInv
    <2>3. LiveSlots(d, f)' \subseteq LiveSlots(d, f) \cup {k}
      BY <2>2 DEF LiveSlots
    <2>4. start[t] \in Int /\ end[t] \in Int
      BY <1>2, ElevatorAssumption DEF TypedInv, Floors
    <2>5. k \in LiveSlots(d, f)' => start[t] = f /\ Towards(t) = d /\ priority[t] = Director
      <3>1. ASSUME k \in LiveSlots(d, f)'
            PROVE  start[t] = f /\ Ahead(d, f, end[t])
        BY <2>2, <3>1 DEF LiveSlots
      <3>2. Ahead(d, start[t], end[t]) => Towards(t) = d
        BY <2>4 DEF Ahead, Towards, Dirs
      <3> QED
        BY <1>9, <3>1, <3>2
    <2>6. /\ IsFiniteSet(LiveSlots(d, f)) /\ Cardinality(LiveSlots(d, f)) \in Nat
          /\ IsFiniteSet(LiveSlots(d, f) \cup {k})
          /\ Cardinality(LiveSlots(d, f) \cup {k}) \in Nat
          /\ Cardinality(LiveSlots(d, f) \cup {k}) <= Cardinality(LiveSlots(d, f)) + 1
      <3>1. PICK S : S = LiveSlots(d, f)
        OBVIOUS
      <3>2. IsFiniteSet(S) /\ Cardinality(S) \in Nat
        BY <3>1, LiveNat
      <3>3. /\ IsFiniteSet(S \cup {k})
            /\ Cardinality(S \cup {k}) = IF k \in S THEN Cardinality(S) ELSE Cardinality(S) + 1
        BY <3>2, FS_AddElement
      <3> QED
        BY <3>1, <3>2, <3>3
    <2>7. \/ Cardinality(LiveSlots(d, f)') <= Cardinality(LiveSlots(d, f))
          \/ /\ start[t] = f /\ Towards(t) = d /\ priority[t] = Director
             /\ Cardinality(LiveSlots(d, f)') <= Cardinality(LiveSlots(d, f)) + 1
      <3>1. Cardinality(LiveSlots(d, f)') <= Cardinality(LiveSlots(d, f) \cup {k})
            /\ Cardinality(LiveSlots(d, f)') \in Nat
        BY <2>3, <2>6, FS_Subset, FS_CardinalityType
      <3>2. CASE k \in LiveSlots(d, f)'
        BY <2>5, <2>6, <3>1, <3>2
      <3>3. CASE k \notin LiveSlots(d, f)'
        <4>1. LiveSlots(d, f)' \subseteq LiveSlots(d, f)
          BY <2>3, <3>3
        <4> QED
          BY <2>6, <4>1, FS_Subset
      <3> QED
        BY <3>2, <3>3
    <2>8. at[t] = "files1"
      BY <1>3, <1>9 DEF files1, Does, At
    <2>9. p = Director \/ (Live(p, d, f) = 0 /\ Live(p, d, f)' = 0)
      BY DEF Live
    <2>10. CASE p = Director
      <3>1. /\ Live(p, d, f) = Cardinality(LiveSlots(d, f))
            /\ Live(p, d, f)' = Cardinality(LiveSlots(d, f)')
        BY <2>10 DEF Live
      <3> QED
        BY <1>4, <1>5, <1>6, <1>7, <2>7, <2>8, <2>10, <3>1
    <2> QED
      BY <1>4, <1>6, <1>7, <2>9, <2>10
  <1>10. \/ UNCHANGED <<reqSFD, reqEFD>>
         \/ /\ files1 /\ priority[t] = Director
            /\ reqSFD' = [reqSFD EXCEPT ![setOf[Director]] = start[t]]
            /\ reqEFD' = [reqEFD EXCEPT ![setOf[Director]] = end[t]]
    BY <1>3 DEF riderStep, calls, hails, queues, adds, asks, awaits, wakes, files1, files2, attends,
           enters, rides, exits, announces, signals, quits, Calls, reqVars, MyPriority
  <1> QED
    BY <1>4, <1>7, <1>8, <1>9, <1>10

\* What a rider's step may do to the counters, by where he is.
LEMMA RiderCounts ==
  ASSUME ElevatorInv, riderStep
  PROVE  /\ priority[me] \in Employee .. President /\ MyPriority = priority[me]
         /\ at[me] = "enters" =>
              /\ enters /\ numRiders' = numRiders + 1
              /\ UNCHANGED <<reqSFP, reqEFP, reqSFD, reqEFD>>
              /\ ridersOf' = [ridersOf EXCEPT ![priority[me]] = @ + 1]
         /\ at[me] = "exits" =>
              /\ exits /\ numRiders' = numRiders - 1 /\ UNCHANGED <<reqSFD, reqEFD>>
              /\ ridersOf' = [ridersOf EXCEPT ![priority[me]] = @ - 1]
              /\ reqSFP' = (IF priority[me] = President THEN None ELSE reqSFP)
              /\ reqEFP' = (IF priority[me] = President THEN None ELSE reqEFP)
         /\ at[me] \notin {"enters", "exits"} =>
              /\ UNCHANGED <<numRiders, ridersOf>>
              /\ \/ UNCHANGED num
                 \/ num' = [num EXCEPT ![MyDir][start[me]] = @ + 1]
              /\ \/ UNCHANGED <<reqSFP, reqEFP>>
                 \/ /\ at[me] = "files2" /\ at' = [at EXCEPT ![me] = "attends"]
                    /\ priority[me] = President
                    /\ reqSFP' = start[me] /\ reqEFP' = end[me]
         /\ at[me] = "asks" /\ at'[me] = "files1" => ~MustWait
  <1>1. PICK l \in RiderLabels : RiderDoes(l)
    BY RiderForms
  <1>2. me \in Threads /\ IsRider(me)
    BY <1>1, RiderEffects
  <1>3. priority[me] \in Employee .. President /\ MyPriority = priority[me] /\ TypedInv
    BY <1>2 DEF ElevatorInv, WhoInv, Placed, MyPriority
  <1>4. CASE enters
    <2>1. at[me] = "enters"
      BY <1>4 DEF enters, At
    <2> QED
      BY <1>3, <1>4, <2>1 DEF enters, reqVars
  <1>5. CASE exits
    <2>1. at[me] = "exits"
      BY <1>5 DEF exits, Does, At
    <2> QED
      BY <1>3, <1>5, <2>1 DEF exits, reqVars
  <1>6. CASE asks
    <2>1. at[me] = "asks" /\ (at'[me] = "files1" => ~MustWait)
      BY <1>2, <1>3, <1>6 DEF asks, Does, At, Goes, TypedInv
    <2> QED
      BY <1>3, <1>6, <2>1 DEF asks, reqVars, rideVars
  <1>7. CASE files2
    <2>1. at[me] = "files2" /\ at' = [at EXCEPT ![me] = "attends"]
      BY <1>7 DEF files2, Does, At, Goes
    <2> QED
      BY <1>3, <1>7, <2>1 DEF files2, reqVars, rideVars
  <1>8. CASE \/ calls \/ hails \/ queues \/ adds \/ awaits \/ wakes \/ files1
             \/ attends \/ rides \/ announces \/ signals \/ quits
    <2>1. at[me] \in {"calls", "hails", "queues", "adds", "awaits", "wakes", "files1", "attends",
                      "rides", "announces", "signals", "quits"}
      BY <1>8 DEF calls, hails, queues, adds, awaits, wakes, files1, attends, rides, announces,
                  signals, quits, Does, Calls, At
    <2>2. /\ UNCHANGED <<numRiders, ridersOf, reqSFP, reqEFP>>
          /\ \/ UNCHANGED num
             \/ num' = [num EXCEPT ![MyDir][start[me]] = @ + 1]
      BY <1>8 DEF calls, hails, queues, adds, awaits, wakes, files1, attends, rides, announces,
                  signals, quits, Does, Calls, bldVars, rideVars, callVars, reqVars
    <2> QED
      BY <1>3, <2>1, <2>2
  <1> QED
    BY <1>4, <1>5, <1>6, <1>7, <1>8 DEF riderStep

\* What a rider's step leaves alone: the elevator's side.
RiderFrame(l) ==
  /\ me \in Threads /\ IsRider(me) /\ me # 2 /\ 2 \in Threads /\ <<at[me], l>> \in RiderArcs
  /\ ~OnProcessor(2) /\ ~OnProcessor(2)'
  /\ UNCHANGED <<caught, direction, currentFloor, numEnter, numExit, numSpaces, slot, visit,
                 priority, start, end>>
  /\ at' = [at EXCEPT ![me] = l]
  /\ \A t \in Threads : at'[t] = IF t = me THEN l ELSE at[t]
  /\ at'[2] = at[2] /\ ToSignal' = ToSignal
  /\ \A t \in Threads : ~Comes(t)' /\ (t # me => ~Comes(t))
  /\ NumComes' = 0
  /\ Comes(me) <=> at[me] = "enters"
  /\ Leaves(me) <=> at[me] = "exits"
  /\ \A t \in Threads : IsPresident(t)' <=> IsPresident(t)
  /\ \A t \in Threads : Towards(t)' = Towards(t)
  /\ pc'[2] = "body" /\ DirectorsInv'

\* A step of a rider does to the counts and requests what its frame says.
LEMMA RiderFrames ==
  ASSUME ElevatorInv, MoveInv, RankInv, riderStep
  PROVE  \E l \in RiderLabels : RiderFrame(l)
  <1>1. PICK l \in RiderLabels : RiderDoes(l)
    BY RiderForms
  <1>2. /\ me \in Threads /\ IsRider(me) /\ me # 1 /\ me # 2 /\ <<at[me], l>> \in RiderArcs
        /\ \A c \in Conds : ~Waits(me, c)
        /\ UNCHANGED <<currentRunningThread, gThreadID, priority, start, end>>
        /\ at' = [at EXCEPT ![me] = l]
        /\ \A t \in Threads : at'[t] = IF t = me THEN l ELSE at[t]
        /\ \A t \in Threads : t # me => pc'[t] = pc[t]
        /\ \A t \in Threads : IsRider(t)' <=> IsRider(t)
    BY <1>1, RiderEffects DEF RiderDoes, Goes
  <1>3. 2 \in Threads /\ at'[2] = at[2] /\ pc'[2] = "body"
    BY <1>2, TwoThreads DEF RankInv
  <1>4. ~OnProcessor(2) /\ ~OnProcessor(2)'
    BY <1>2 DEF OnProcessor, me
  <1>5. UNCHANGED <<program, forked, caught, direction, currentFloor, numEnter, numExit,
                    numSpaces, slot, visit>>
    BY <1>1 DEF RiderDoes, cabVars, elvVars, localVars
  <1>6. \A t \in Threads : ~Comes(t)' /\ (t # me => ~Comes(t))
    BY MoveRider DEF InDoor
  <1>7. NumComes' = 0 /\ ToSignal' = ToSignal
    BY <1>3, <1>5, <1>6 DEF NumComes, ToSignal
  <1>8. /\ Comes(me) <=> at[me] = "enters"
        /\ Leaves(me) <=> at[me] = "exits"
    BY <1>2, OwnConds DEF Comes, Leaves, ElevatorInv
  <1>9. /\ \A t \in Threads : IsPresident(t)' <=> IsPresident(t)
        /\ \A t \in Threads : Towards(t)' = Towards(t)
    BY <1>2 DEF IsPresident, Towards
  <1>10. DirectorsInv'
    <2>1. Directors' = Directors
      BY <1>2 DEF Directors
    <2> QED
      BY <1>5, <2>1 DEF RankInv, DirectorsInv, Who
  <1> QED
    BY <1>2, <1>3, <1>4, <1>5, <1>6, <1>7, <1>8, <1>9, <1>10 DEF RiderFrame

\* He who enters is one of those the elevator serves.
LEMMA RankEnters ==
  ASSUME ElevatorInv, MoveInv, RankInv, NoStale, riderStep, at[me] = "enters",
         NEW l \in RiderLabels, RiderFrame(l)
  PROVE  ServeInv' /\ AloneInv' /\ RoomInv' /\ LiveInv' /\ LookInv' /\ CallInv'
  <1>1. /\ me \in Threads /\ IsRider(me) /\ me # 2 /\ 2 \in Threads /\ Comes(me)
        /\ at' = [at EXCEPT ![me] = l] /\ l = "rides" /\ NumComes' = 0 /\ NumComes = 1
        /\ at'[2] = at[2] /\ ToSignal' = ToSignal
        /\ UNCHANGED <<direction, currentFloor, numEnter, numSpaces, visit, priority, start, end>>
        /\ TypedInv
    BY DEF RiderFrame, RiderArcs, QuietMoves, NumComes, ElevatorInv
  <1>2. ServeInv /\ AloneInv /\ RoomInv /\ LiveInv /\ LookInv /\ CallInv
    BY DEF RankInv
  <1>3. PICK p \in Employee .. President, d \in Dirs, f \in Stops : Serving(p, d, f)
    BY <1>1, <1>2 DEF ServeInv
  <1>4. PICK r \in Threads : r = me
    BY <1>1
  <1>5. priority[r] = p /\ Towards(r) = d /\ start[r] = f
    BY <1>1, <1>3, <1>4 DEF Serving, ElevatorInv, DoorInv
  <1>6. /\ numRiders' = numRiders + 1 /\ UNCHANGED <<reqSFP, reqEFP, reqSFD, reqEFD>>
        /\ ridersOf' = [ridersOf EXCEPT ![p] = @ + 1]
    BY <1>4, <1>5, RiderCounts
  <1>7. /\ ridersOf \in [Employee .. President -> Int] /\ ridersOf[p] >= 0
        /\ numRiders \in Int /\ MAX_RIDERS \in Int
    <2>1. numRiders \in Nat /\ ridersOf \in [Employee .. President -> Nat]
      BY CountTypes DEF ElevatorInv
    <2> QED
      BY <2>1, ElevatorAssumption
  <1>8. /\ \A q \in Employee .. President : q # p => ridersOf[q] = 0 /\ ridersOf'[q] = 0
        /\ ridersOf'[p] > 0
    <2>1. \A q \in Employee .. President : q # p => ridersOf[q] = 0
      BY <1>3 DEF Serving
    <2>2. /\ ridersOf'[p] = ridersOf[p] + 1 /\ ridersOf[p] \in Int
          /\ \A q \in Employee .. President : q # p => ridersOf'[q] = ridersOf[q]
      BY <1>6, <1>7
    <2> QED
      BY <1>7, <2>1, <2>2
  <1>9. ASSUME NEW q \in Employee .. President, NEW e \in Dirs, NEW g \in Stops
        PROVE  /\ Filed(q, e, g) \in Nat /\ Filed(q, e, g)' \in Nat
               /\ Live(q, e, g) \in Nat
               /\ q = p /\ e = d /\ g = f => Filed(q, e, g)' = Filed(q, e, g) - 1
               /\ ~(q = p /\ e = d /\ g = f) => Filed(q, e, g)' = Filed(q, e, g)
               /\ Live(q, e, g)' = Live(q, e, g)
    <2>1. FiledBy(r, l, q, e, g)
      <3>1. /\ at' = [at EXCEPT ![r] = l] /\ UNCHANGED <<priority, start, end>> /\ TypedInv
        BY <1>1, <1>4
      <3> QED
        BY ONLY <3>1, FiledMoves
    <2>2. Delta(FiledLabels, at[r], l) = -1
      BY <1>1, <1>4 DEF Delta, FiledLabels
    <2>3. Live(q, e, g) \in Nat /\ Live(q, e, g)' = Live(q, e, g)
      BY <1>6, LiveNat DEF Live, LiveSlots
    <2> QED
      BY <1>5, <2>1, <2>2, <2>3 DEF FiledBy
  <1>10. at[2] \in {"letsEnter", "boards", "letsExit", "shuts"}
    BY <1>1 DEF MoveInv, PassInv
  <1>11. /\ ToSignal \in Int /\ ToSignal >= 0
         /\ ToSignal + 1 + Live(p, d, f) <= Filed(p, d, f)
         /\ numRiders + ToSignal + 1 <= MAX_RIDERS
    <2>1. visit.enter \in Int
      BY DEF ElevatorInv, CabInv
    <2>2. /\ at[2] \in {"letsEnter", "boards"} => visit.enter > 0
          /\ ToSignal + NumComes + Live(p, d, f) <= Filed(p, d, f)
          /\ numRiders + ToSignal + NumComes <= MAX_RIDERS
      BY <1>3 DEF Serving
    <2>3. ToSignal \in Int /\ ToSignal >= 0
      BY <2>1, <2>2 DEF ToSignal
    <2> QED
      BY <1>1, <2>2, <2>3
  <1>12. ServeInv'
    <2>1. SUFFICES ASSUME at'[2] \in {"letsEnter", "boards"} PROVE Serving(p, d, f)'
      BY <1>1 DEF ServeInv
    <2>2. ToSignal' + NumComes' + Live(p, d, f)' <= Filed(p, d, f)'
      BY <1>1, <1>9, <1>11
    <2>3. numRiders' + ToSignal' + NumComes' <= MAX_RIDERS
      BY <1>1, <1>6, <1>7, <1>11
    <2>4. \A t \in Threads : at'[t] \in PastTest => priority'[t] <= p
      BY <1>1, <1>3 DEF Serving, RiderFrame, PastTest, FiledLabels
    <2>5. \A t \in Threads : ~Comes(t)'
      BY DEF RiderFrame
    <2> QED
      BY <1>1, <1>3, <1>8, <2>2, <2>3, <2>4, <2>5 DEF Serving
  <1>13. AloneInv'
    BY <1>8 DEF AloneInv
  <1>14. RoomInv'
    BY <1>6, <1>7, <1>11 DEF RoomInv
  <1>15. LiveInv'
    <2>1. ASSUME NEW e \in Dirs, NEW g \in Stops
          PROVE  Live(Director, e, g)' <= Filed(Director, e, g)'
      <3>1. Director \in Employee .. President
        BY DEF Director, Employee, President
      <3>2. Live(Director, e, g) <= Filed(Director, e, g)
        BY <1>2 DEF LiveInv
      <3> QED
        BY <1>9, <1>11, <3>1, <3>2
    <2> QED
      BY <2>1 DEF LiveInv
  <1>16. LookInv'
    BY <1>1, <1>10 DEF LookInv
  <1>17. CallInv'
    <2>1. ASSUME reqSFP # None, ~(at[2] \in OpenLabels /\ visit.by = "president in")
          PROVE  \E t \in Threads : /\ IsPresident(t)' /\ at'[t] \in {"attends", "enters"}
                                    /\ start'[t] = reqSFP /\ end'[t] = reqEFP
      <3>1. PICK t \in Threads : /\ IsPresident(t) /\ at[t] \in {"attends", "enters"}
                                 /\ start[t] = reqSFP /\ end[t] = reqEFP
        BY <1>2, <2>1 DEF CallInv
      <3>2. t # me
        BY <1>3, <1>4, <1>5, <1>10, <2>1, <3>1 DEF IsPresident, Serving, OpenLabels
      <3> QED
        BY <1>1, <3>1, <3>2 DEF RiderFrame
    <2> QED
      BY <1>1, <1>6, <2>1 DEF CallInv
  <1> QED
    BY <1>12, <1>13, <1>14, <1>15, <1>16, <1>17

\* He who gets out makes room.
LEMMA RankExits ==
  ASSUME ElevatorInv, MoveInv, RestInv, RankInv, NoStale, riderStep, at[me] = "exits",
         NEW l \in RiderLabels, RiderFrame(l)
  PROVE  ServeInv' /\ AloneInv' /\ RoomInv' /\ LiveInv' /\ LookInv' /\ CallInv'
  <1>1. /\ me \in Threads /\ me # 2 /\ 2 \in Threads /\ Leaves(me)
        /\ NumComes' = 0 /\ at'[2] = at[2] /\ priority[me] \in Employee .. President
        /\ UNCHANGED <<visit, priority, start, end>>
    BY RiderCounts DEF RiderFrame
  <1>2. AloneInv /\ RoomInv /\ LiveInv /\ CallInv
    BY DEF RankInv
  <1>3. at[2] \in {"alights", "letsExit", "shuts"}
    BY <1>1 DEF MoveInv, PassInv
  <1>4. ServeInv' /\ LookInv'
    BY <1>1, <1>3 DEF ServeInv, LookInv
  <1>5. AloneInv' /\ RoomInv'
    <2>1. PICK p \in Employee .. President : p = priority[me]
      BY <1>1
    <2>2. ridersOf' = [ridersOf EXCEPT ![p] = @ - 1] /\ numRiders' = numRiders - 1
      BY <2>1, RiderCounts
    <2>3. ridersOf \in [Employee .. President -> Int] /\ numRiders \in Int /\ MAX_RIDERS \in Int
      <3>1. numRiders \in Nat /\ ridersOf \in [Employee .. President -> Nat]
        BY CountTypes DEF ElevatorInv
      <3> QED
        BY <3>1, ElevatorAssumption
    <2>4. \A q \in Employee .. President : ridersOf'[q] > 0 => ridersOf[q] > 0
      BY <2>2, <2>3
    <2> QED
      BY <1>2, <2>2, <2>3, <2>4 DEF AloneInv, RoomInv
  <1>6. LiveInv'
    <2>1. ASSUME NEW d \in Dirs, NEW f \in Stops
          PROVE  Live(Director, d, f)' <= Filed(Director, d, f)'
      <3>1. Director \in Employee .. President
        BY DEF Director, Employee, President
      <3>2. Live(Director, d, f) <= Filed(Director, d, f)
        BY <1>2 DEF LiveInv
      <3>3. /\ Live(Director, d, f) \in Nat /\ Live(Director, d, f)' \in Nat
            /\ Filed(Director, d, f) \in Nat /\ Filed(Director, d, f)' \in Nat
            /\ Live(Director, d, f)' + Filed(Director, d, f)
                 <= Live(Director, d, f) + Filed(Director, d, f)'
        BY <3>1, RiderFiles
      <3> QED
        BY <3>2, <3>3
    <2> QED
      BY <2>1 DEF LiveInv
  <1>7. CallInv'
    <2>1. reqSFP' # None => UNCHANGED <<reqSFP, reqEFP>>
      BY RiderCounts
    <2>2. ASSUME NEW t \in Threads, at[t] \in {"attends", "enters"}
          PROVE  at'[t] = at[t]
      BY <2>2 DEF RiderFrame
    <2>3. \A t \in Threads : IsPresident(t) => IsPresident(t)'
      BY DEF RiderFrame
    <2> QED
      BY <1>1, <1>2, <2>1, <2>2, <2>3 DEF CallInv
  <1> QED
    BY <1>4, <1>5, <1>6, <1>7

\* Outside nobody does anything that the elevator would have to know.
LEMMA RankOutside ==
  ASSUME ElevatorInv, MoveInv, RestInv, RankInv, NoStale, riderStep,
         at[me] \notin {"enters", "exits"},
         NEW l \in RiderLabels, RiderFrame(l)
  PROVE  ServeInv' /\ AloneInv' /\ RoomInv' /\ LiveInv' /\ LookInv' /\ CallInv'
  <1>1. /\ me \in Threads /\ me # 2 /\ 2 \in Threads /\ ~OnProcessor(2) /\ ~OnProcessor(2)'
        /\ NumComes = 0 /\ NumComes' = 0 /\ at'[2] = at[2] /\ ToSignal' = ToSignal
        /\ \A t \in Threads : ~Comes(t)'
        /\ \A t \in Threads : at'[t] = IF t = me THEN l ELSE at[t]
        /\ UNCHANGED <<direction, currentFloor, numEnter, numSpaces, visit, priority, start, end>>
        /\ priority[me] \in Employee .. President /\ MyPriority = priority[me]
        /\ UNCHANGED <<numRiders, ridersOf>>
    BY RiderCounts DEF RiderFrame, NumComes
  <1>2. ServeInv /\ AloneInv /\ RoomInv /\ LiveInv /\ LookInv /\ CallInv
    BY DEF RankInv
  <1>3. AloneInv' /\ RoomInv'
    BY <1>1, <1>2 DEF AloneInv, RoomInv
  <1>4. ASSUME NEW p \in Employee .. President, NEW d \in Dirs, NEW f \in Stops
        PROVE  /\ Live(p, d, f) \in Nat /\ Live(p, d, f)' \in Nat
               /\ Filed(p, d, f) \in Nat /\ Filed(p, d, f)' \in Nat
               /\ Live(p, d, f)' + Filed(p, d, f) <= Live(p, d, f) + Filed(p, d, f)'
    BY RiderFiles
  <1>5. LiveInv'
    <2>1. ASSUME NEW d \in Dirs, NEW f \in Stops
          PROVE  Live(Director, d, f)' <= Filed(Director, d, f)'
      <3>1. Director \in Employee .. President
        BY DEF Director, Employee, President
      <3>2. Live(Director, d, f) <= Filed(Director, d, f)
        BY <1>2 DEF LiveInv
      <3> QED
        BY <1>4, <3>1, <3>2
    <2> QED
      BY <2>1 DEF LiveInv
  <1>6. LookInv'
    <2>1. ASSUME at[2] \in {"decides", "decidesToo", "decidesLast", "employees"}
          PROVE  num[direction][currentFloor] <= num'[direction][currentFloor]
                 /\ num[direction][currentFloor] \in Int
                 /\ num'[direction][currentFloor] \in Int
      <3>1. direction \in Dirs /\ currentFloor \in Floors
        BY <2>1, Here DEF TourLabels
      <3>2. num \in [Dirs -> [Floors -> Int]]
        BY DEF ElevatorInv, CountInv
      <3>3. \/ UNCHANGED num
            \/ num' = [num EXCEPT ![MyDir][start[me]] = @ + 1]
        BY RiderCounts
      <3>4. MyDir \in Dirs /\ start[me] \in Floors
        BY <1>1, OwnConds DEF MyDir, ElevatorInv
      <3>5. PICK e \in Dirs, g \in Floors : e = MyDir /\ g = start[me]
        BY <3>4
      <3> QED
        BY <3>1, <3>2, <3>3, <3>5
    <2>2. at[2] \notin {"directors", "employees"}
      BY <1>1, <1>2 DEF LookInv
    <2>3. numEnter \in Int
      <3>1. CabInv
        BY DEF ElevatorInv
      <3>2. numEnter \in Nat
        BY <3>1 DEF CabInv
      <3> QED
        BY <3>2
    <2> QED
      BY <1>1, <1>2, <2>1, <2>2, <2>3 DEF LookInv
  <1>7. CallInv'
    <2>1. <<at[me], l>> \in RiderArcs /\ \A t \in Threads : IsPresident(t)' <=> IsPresident(t)
      BY DEF RiderFrame
    <2>2. CASE UNCHANGED <<reqSFP, reqEFP>>
      <3>1. ASSUME NEW t \in Threads, at[t] \in {"attends", "enters"}
            PROVE  at'[t] \in {"attends", "enters"}
        BY <1>1, <2>1, <3>1 DEF RiderArcs, QuietMoves
      <3> QED
        BY <1>1, <1>2, <2>1, <2>2, <3>1 DEF CallInv
    <2>3. CASE /\ at[me] = "files2" /\ at' = [at EXCEPT ![me] = "attends"]
               /\ priority[me] = President
               /\ reqSFP' = start[me] /\ reqEFP' = end[me]
      <3>1. PICK t \in Threads : t = me
        BY <1>1
      <3>2. at'[t] = "attends" /\ IsPresident(t)
        BY <2>3, <3>1 DEF RiderFrame, ElevatorInv, TypedInv, IsPresident
      <3>3. start'[t] = reqSFP' /\ end'[t] = reqEFP'
        BY <1>1, <2>3, <3>1
      <3> QED
        BY <2>1, <3>2, <3>3 DEF CallInv
    <2> QED
      BY <2>2, <2>3, RiderCounts
  <1>8. ServeInv'
    <2>1. SUFFICES ASSUME at'[2] \in {"letsEnter", "boards"}
                   PROVE  \E p \in Employee .. President, d \in Dirs, f \in Stops :
                            Serving(p, d, f)'
      BY <1>1 DEF ServeInv
    <2>2. PICK p \in Employee .. President, d \in Dirs, f \in Stops : Serving(p, d, f)
      BY <1>1, <1>2, <2>1 DEF ServeInv
    <2>3. ridersOf[p] > 0
      <3>1. ridersOf[p] > 0 \/ NumComes = 1 \/ (at[2] = "letsEnter" /\ OnProcessor(2))
        BY <2>2 DEF Serving
      <3>2. 0 # 1
        OBVIOUS
      <3> QED
        BY <1>1, <3>1, <3>2
    <2>4. ASSUME NEW t \in Threads, at'[t] \in PastTest PROVE priority[t] <= p
      <3>1. CASE at[t] \in PastTest
        BY <2>2, <3>1 DEF Serving
      <3>2. CASE at[t] \notin PastTest
        <4>1. t = me /\ l \in PastTest /\ <<at[me], l>> \in RiderArcs
          BY <1>1, <2>4, <3>2 DEF RiderFrame
        <4>2. at[me] \in {"asks", "wakes"} /\ l = "files1"
          BY <3>2, <4>1 DEF PastTest, FiledLabels, RiderArcs, QuietMoves
        <4>3. CASE at[me] = "wakes"
          <5>1. Loose(me)
            BY <1>1, <4>3, Running, CondsDiffer, RiderForms DEF Loose, RiderDoes
          <5> QED
            BY <1>1, <2>1, <5>1 DEF MoveInv, PassInv
        <4>4. CASE at[me] = "asks"
          <5>1. ~MustWait
            BY <1>1, <4>2, <4>4, RiderCounts
          <5>2. p \in Employee .. priority[me] - 1 => ridersOf[p] = 0
            BY <1>1, <5>1 DEF MustWait
          <5>3. priority[me] \in Int /\ p \in Int
            BY <1>1 DEF Employee, President
          <5> QED
            BY <2>3, <4>1, <5>2, <5>3
        <4> QED
          BY <4>2, <4>3, <4>4
      <3> QED
        BY <3>1, <3>2
    <2>5. ToSignal \in Int /\ NumComes \in Int
      <3>1. visit.enter \in Int
        BY DEF ElevatorInv, CabInv
      <3>2. ToSignal \in Int
        BY <3>1 DEF ToSignal
      <3> QED
        BY <1>1, <3>2
    <2>6. ToSignal' + NumComes' + Live(p, d, f)' <= Filed(p, d, f)'
      <3>1. ToSignal + NumComes + Live(p, d, f) <= Filed(p, d, f)
        BY <2>2 DEF Serving
      <3> QED
        BY <1>1, <1>4, <2>5, <3>1
    <2>7. Serving(p, d, f)'
      BY <1>1, <2>2, <2>3, <2>4, <2>6 DEF Serving
    <2> QED
      BY <2>7
  <1> QED
    BY <1>3, <1>5, <1>6, <1>7, <1>8

\* A rider who gets in is the one whom the elevator has signalled; one who passes the
\* MustWait test has a rank that the elevator may let in with those inside.
LEMMA RankRider ==
  ASSUME ElevatorInv, MoveInv, RestInv, RankInv, riderStep
  PROVE  RankInv'
  <1>1. PICK l \in RiderLabels : RiderFrame(l)
    BY RiderFrames
  <1>2. pc'[2] = "body" /\ DirectorsInv' /\ (NoStale' => NoStale)
    BY <1>1 DEF RiderFrame, NoStale
  <1>3. NoStale => ServeInv' /\ AloneInv' /\ RoomInv' /\ LiveInv' /\ LookInv' /\ CallInv'
    BY <1>1, RankEnters, RankExits, RankOutside
  <1> QED
    BY <1>2, <1>3 DEF RankInv

\* A signal that somebody waits for wakes one who is more important than none of them.
LEMMA SigBest ==
  ASSUME ElevatorInv, NEW c \in Conds, sig(c), NEW u \in Threads, Waits(u, c)
  PROVE  \E w \in Threads :
           /\ Waits(w, c) /\ ~Waits(w, c)'
           /\ \A t \in Threads : Waits(t, c) => priority[t] <= priority[w]
           /\ \A t \in Threads : \A d \in Conds : t # w => (Waits(t, d)' <=> Waits(t, d))
  <1> DEFINE p == SigLevel(c)
             n == conditionWaiters[c]
             q == waiters[c]
  <1>1. MonInv /\ t_sig(c, NoLock) /\ NoLock \in Locks \cup {NoLock}
    BY DEF ElevatorInv, sig
  <1>2. /\ n \in Counts /\ q \in Queues
        /\ \A y \in Levels : n[y] = Len(q[y]) /\ Len(q[y]) \in Nat /\ y \in Int
    <2>1. n \in Counts /\ q \in Queues
      BY <1>1, CondQueues DEF MonInv
    <2> HIDE DEF n, q
    <2>2. \A y \in Levels : q[y] \in Seq(Threads) /\ y \in Int
      BY <2>1, KernelAssumption DEF Queues, Levels
    <2>3. \A y \in Levels : n[y] = Len(q[y])
      BY <1>1 DEF MonInv, CountersKept, n, q
    <2> QED
      BY <2>1, <2>2, <2>3
  <1>3. ASSUME NEW t \in Threads, Waits(t, c)
        PROVE  /\ priority[t] \in Levels /\ n[priority[t]] # 0
    <2>1. PICK y \in Levels : \E i \in 1 .. Len(q[y]) : q[y][i] = t
      BY <1>3 DEF Waits
    <2>2. priority[t] = y
      BY <1>1, <2>1 DEF MonInv, WaitersRanked
    <2>3. Len(q[y]) # 0
      BY <1>2, <2>1
    <2> QED
      BY <1>2, <2>2, <2>3
  <1>4. ~AllZero(n)
    <2> HIDE DEF n
    <2> QED
      BY <1>3 DEF AllZero
  <1>5. FirstNonEmpty(n, p)
    <2> HIDE DEF n
    <2>1. \E y \in Levels : FirstNonEmpty(n, y)
      BY <1>2, <1>4, HighestLevel
    <2> QED
      BY <2>1 DEF SigLevel, n
  <1>6. FindsWaiter(c)
    <2>1. p \in Levels /\ n[p] # 0
      BY <1>5 DEF FirstNonEmpty
    <2>2. Len(q[p]) # 0
      BY <1>2, <2>1
    <2>3. q[p] # <<>>
      BY <2>2
    <2> QED
      BY <1>4, <2>3 DEF FindsWaiter
  <1>7. PICK w \in Threads : w = Head(q[p]) /\ Waits(w, c) /\ priority[w] = p
    BY <1>1, <1>6, SigFinds
  <1>8. \A t \in Threads : \A d \in Conds : Waits(t, d)' <=> Waits(t, d) /\ t # w
    BY <1>1, <1>6, <1>7, MonSig
  <1>9. ASSUME NEW t \in Threads, Waits(t, c) PROVE priority[t] <= priority[w]
    <2>1. PICK y \in Levels : y = priority[t]
      BY <1>3, <1>9
    <2>2. n[y] # 0 /\ p \in Levels /\ \A z \in Levels : z > p => n[z] = 0
      BY <1>3, <1>5, <1>9, <2>1 DEF FirstNonEmpty
    <2> HIDE DEF n, p
    <2>3. ~(y > p)
      BY <2>2
    <2>4. y \in Int /\ p \in Int
      BY <1>2, <2>2
    <2> QED
      BY <1>7, <2>1, <2>3, <2>4
  <1> QED
    BY <1>7, <1>8, <1>9

\* What is counted is there.
LEMMA Present ==
  ASSUME NEW K \in SUBSET Threads, NEW A
  PROVE  /\ HowMany(K, A, at) \in Nat
         /\ HowMany(K, A, at) > 0 <=> \E t \in K : at[t] \in A
  <1>1. PICK S \in SUBSET Threads : S = Among(K, A, at)
    BY DEF Among
  <1>2. Cardinality(S) \in Nat /\ IsFiniteSet(S)
    <2>1. IsFiniteSet(Threads)
      BY KernelAssumption, FS_Interval DEF Threads
    <2> QED
      BY <2>1, FS_Subset, FS_CardinalityType
  <1>3. Cardinality(S) = 0 <=> S = {}
    BY <1>2, FS_EmptySet
  <1>4. S = {} <=> ~\E t \in K : at[t] \in A
    BY <1>1 DEF Among
  <1> QED
    BY <1>1, <1>2, <1>3, <1>4 DEF HowMany

\* With one rank inside, its counter counts all.
LEMMA OneRankInside ==
  ASSUME ElevatorInv, NEW p \in Employee .. President,
         \A q \in Employee .. President : q # p => ridersOf[q] = 0
  PROVE  numRiders = ridersOf[p]
  <1>1. ASSUME NEW t \in Threads, at[t] \in InsideLabels
        PROVE  priority[t] = p
    <2>1. priority[t] \in Employee .. President
      <3>1. IsRider(t)
        BY <1>1, RidersAre
      <3> QED
        BY <3>1 DEF ElevatorInv, WhoInv, Placed
    <2>2. PICK q \in Employee .. President : q = priority[t]
      BY <2>1
    <2>3. ridersOf[q] > 0
      <3>1. OfRank(q) \in SUBSET Threads /\ t \in OfRank(q)
        BY <2>2 DEF OfRank
      <3>2. HowMany(OfRank(q), InsideLabels, at) > 0
        BY <1>1, <3>1, Present
      <3> QED
        BY <3>2 DEF ElevatorInv, CountInv
    <2>4. q # p => ~(ridersOf[q] > 0)
      OBVIOUS
    <2> QED
      BY <2>2, <2>3, <2>4
  <1>2. Among(Threads, InsideLabels, at) = Among(OfRank(p), InsideLabels, at)
    BY <1>1 DEF Among, OfRank
  <1> QED
    BY <1>2 DEF ElevatorInv, CountInv, HowMany

\* What every step of the elevator leaves alone
TourFrame(l) ==
  /\ me = 2 /\ 2 \in Threads /\ InBody /\ OnProcessor(2)
  /\ UNCHANGED <<caught, program, forked, priority, start, end, pc>>
  /\ UNCHANGED <<ridersOf, setOf, waitingforEmpty, num>>
  /\ at' = [at EXCEPT ![2] = l] /\ l \in ElevatorLabels
  /\ \A t \in Threads : at'[t] = IF t = 2 THEN l ELSE at[t]
  /\ \A t \in Threads : IsPresident(t)' <=> IsPresident(t)
  /\ \A t \in Threads : Towards(t)' = Towards(t)
  /\ \A p \in Employee .. President, d \in Dirs, f \in Stops : Filed(p, d, f)' = Filed(p, d, f)
  /\ \A t \in Threads : at'[t] \in PastTest \cup {"enters"} => t # 2
  /\ Own => /\ OnProcessor(2)' /\ NumComes' = NumComes
            /\ \A t \in Threads : Comes(t)' <=> Comes(t)
  /\ at[2] # "starts" => UNCHANGED numRiders
  /\ at[2] # "directors" => UNCHANGED <<reqSFD, reqEFD>>
  /\ at[2] # "shuts" => UNCHANGED <<reqSFP, reqEFP>>
  /\ pc'[2] = "body" /\ DirectorsInv' /\ MoveInv'

\* A step of the elevator does to the counts and requests what its frame says.
LEMMA TourFrames ==
  ASSUME ElevatorInv, MoveInv, RankInv, elevatorStep
  PROVE  \E l \in ElevatorLabels : TourFrame(l) /\ ElevatorDoes(l)
  <1>1. PICK l \in ElevatorLabels : ElevatorDoes(l)
    BY ElevatorForms
  <1>2. /\ me = 2 /\ 2 \in Threads /\ InBody /\ OnProcessor(2)
        /\ UNCHANGED <<currentRunningThread, gThreadID, priority, start, end, pc>>
        /\ \A t \in Threads : at'[t] = IF t = 2 THEN l ELSE at[t]
        /\ \A t \in Threads : IsRider(t)' <=> IsRider(t)
        /\ Own => cpu' = cpu
        /\ UNCHANGED <<program, caught, forked>> /\ at' = [at EXCEPT ![2] = l]
        /\ at[2] \in ElevatorLabels
    BY <1>1, ElevatorEffects DEF ElevatorDoes, Goes
  <1>3. /\ UNCHANGED <<ridersOf, setOf, waitingforEmpty, num>>
        /\ at[2] # "starts" => UNCHANGED numRiders
        /\ at[2] # "directors" => UNCHANGED <<reqSFD, reqEFD>>
        /\ at[2] # "shuts" => UNCHANGED <<reqSFP, reqEFP>>
    BY <1>2 DEF elevatorStep, starts, looks, decides, president, directors, employees, letsEnter,
           letsExit, boards, alights, shuts, rests, stops, sleeps, moves, yields, Yielding, arrives,
           Calls, At, bldVars, rideVars, callVars, reqVars
  <1>4. /\ \A t \in Threads : IsPresident(t)' <=> IsPresident(t)
        /\ \A t \in Threads : Towards(t)' = Towards(t)
    BY <1>2 DEF IsPresident, Towards
  <1>5. \A p \in Employee .. President, d \in Dirs, f \in Stops : Filed(p, d, f)' = Filed(p, d, f)
    <2>1. \A t \in Threads : at'[t] \in FiledLabels <=> at[t] \in FiledLabels
      BY <1>2 DEF FiledLabels, ElevatorLabels, TourLabels, MoveLabels
    <2> QED
      BY <1>2, <2>1, FiledSame
  <1>6. \A t \in Threads : at'[t] \in PastTest \cup {"enters"} => t # 2
    BY <1>2 DEF PastTest, FiledLabels, ElevatorLabels, TourLabels, MoveLabels
  <1>7. ASSUME Own
        PROVE  /\ OnProcessor(2)' /\ NumComes' = NumComes
               /\ \A t \in Threads : Comes(t)' <=> Comes(t)
    <2>1. UNCHANGED waiters /\ cpu' = cpu
      BY <1>2, <1>7 DEF Own, monitorVars
    <2>2. \A t \in Threads : Comes(t)' <=> Comes(t)
      BY <1>2, <2>1
      DEF Comes, Waits, going, Towards, ElevatorLabels, TourLabels, MoveLabels
    <2> QED
      BY <1>2, <2>1, <2>2 DEF NumComes, OnProcessor
  <1>8. DirectorsInv'
    <2>1. Directors' = Directors
      BY <1>2 DEF Directors
    <2> QED
      BY <1>2, <2>1 DEF RankInv, DirectorsInv, Who
  <1>9. MoveInv' /\ pc'[2] = "body"
    BY <1>2, MoveElevator DEF RankInv
  <1> QED
    BY <1>1, <1>2, <1>3, <1>4, <1>5, <1>6, <1>7, <1>8, <1>9 DEF TourFrame

\* In calm nobody comes, and whoever has made a request waits to be let in.
LEMMA AllWait ==
  ASSUME ElevatorInv, CalmInv, InBody, me = 2, at[2] \notin {"boards", "alights"}
  PROVE  /\ NumComes = 0 /\ \A t \in Threads : ~Comes(t)
         /\ \A t \in Threads : at[t] \in PastTest =>
              /\ at[t] = "enters" /\ IsRider(t) /\ Waits(t, going(Towards(t), start[t]))
              /\ priority[t] \in Employee .. President
         /\ \A t \in Threads : at[t] \in OutsideLabels => at[t] \in {"wakes", "enters"}
  <1>1. /\ \A t \in Threads : IsRider(t) => Stands(t)
        /\ \A t \in Threads : ~InDoor(t)
    BY Calm
  <1>2. \A t \in Threads : ~Comes(t)
    BY <1>1 DEF InDoor
  <1>3. ASSUME NEW t \in Threads, at[t] \in PastTest \cup OutsideLabels
        PROVE  IsRider(t) /\ Placed(t) /\ at[t] \in {"wakes", "enters"}
               /\ (at[t] = "enters" => Waits(t, going(Towards(t), start[t])))
    <2>1. at[t] \in OutsideLabels
      BY <1>3 DEF PastTest, FiledLabels, OutsideLabels
    <2>2. IsRider(t)
      BY <2>1, RidersAre
    <2>3. at[t] \in {"wakes", "enters", "exits", "quits"}
          /\ (at[t] = "enters" => Waits(t, going(Towards(t), start[t])))
      BY <1>1, <2>2, StandsAt
    <2> QED
      BY <2>1, <2>2, <2>3 DEF OutsideLabels, ElevatorInv, WhoInv
  <1>4. ASSUME NEW t \in Threads, at[t] \in PastTest
        PROVE  at[t] = "enters" /\ priority[t] \in Employee .. President
    BY <1>3, <1>4 DEF PastTest, FiledLabels, Placed
  <1> QED
    BY <1>2, <1>3, <1>4 DEF NumComes

\* Striking off a request makes none.
LEMMA StrikesOff ==
  ASSUME ElevatorInv, RestInv, at[2] = "directors", elevatorStep, me = 2
  PROVE  /\ directors /\ slot \in 0 .. 2
         /\ \A d \in Dirs, f \in Stops : LiveSlots(d, f)' \subseteq LiveSlots(d, f)
         /\ \A d \in Dirs, f \in Stops : reqSFD[slot] = f => slot \notin LiveSlots(d, f)'
                                           \/ reqSFD'[slot] = f
  <1>1. directors /\ slot \in 0 .. 2
    BY DEF elevatorStep, starts, looks, decides, president, directors, employees, letsEnter,
           letsExit, boards, alights, shuts, rests, stops, sleeps, moves, yields, Yielding, arrives,
           Calls, At, RestInv
  <1>2. /\ reqSFD \in [0 .. 2 -> Floors \cup {None}] /\ reqEFD \in [0 .. 2 -> Floors \cup {None}]
    BY DEF RestInv
  <1>3. PICK k \in 0 .. 2 : k = slot
    BY <1>1
  <1>4. /\ \A i \in 0 .. 2 : i # k => reqSFD'[i] = reqSFD[i] /\ reqEFD'[i] = reqEFD[i]
        /\ reqSFD'[k] = None \/ reqSFD'[k] = reqSFD[k]
        /\ reqEFD'[k] = reqEFD[k] \/ reqSFD[k] = None
    BY <1>1, <1>2, <1>3 DEF directors
  <1>5. \A f \in Stops : f # None
    BY ElevatorAssumption DEF Stops, None
  <1>6. ASSUME NEW d \in Dirs, NEW f \in Stops, NEW i \in LiveSlots(d, f)'
        PROVE  i \in LiveSlots(d, f)
    <2>1. i \in 0 .. 2 /\ reqSFD'[i] = f /\ Ahead(d, f, reqEFD'[i])
      BY <1>6 DEF LiveSlots
    <2>2. reqSFD[i] = f /\ reqEFD'[i] = reqEFD[i]
      BY <1>4, <1>5, <2>1
    <2> QED
      BY <2>1, <2>2 DEF LiveSlots
  <1> QED
    BY <1>1, <1>6 DEF LiveSlots

\* Most of what is known stays so whatever the elevator does.
LEMMA RankTour ==
  ASSUME ElevatorInv, RestInv, RankInv, NoStale, elevatorStep, NEW l, TourFrame(l)
  PROVE  /\ AloneInv' /\ RoomInv' /\ LiveInv' /\ CallInv'
         /\ \A p \in Employee .. President, d \in Dirs, f \in Stops :
              Live(p, d, f) \in Nat /\ Live(p, d, f)' \in Nat /\ Live(p, d, f)' <= Live(p, d, f)
  <1>1. /\ me = 2 /\ 2 \in Threads /\ at'[2] = l
        /\ UNCHANGED <<ridersOf, start, end>>
        /\ at[2] # "starts" => UNCHANGED numRiders
        /\ at[2] # "directors" => UNCHANGED <<reqSFD, reqEFD>>
        /\ at[2] # "shuts" => UNCHANGED <<reqSFP, reqEFP>>
    BY DEF TourFrame
  <1>2. AloneInv /\ RoomInv /\ LiveInv /\ CallInv
    BY DEF RankInv
  <1>3. AloneInv'
    BY <1>1, <1>2 DEF AloneInv
  <1>4. RoomInv'
    <2>1. CASE at[2] = "starts"
      <3>1. numRiders' = 0
        BY <1>1, <2>1
        DEF elevatorStep, starts, looks, decides, president, directors, employees, letsEnter,
            letsExit, boards, alights, shuts, rests, stops, sleeps, moves, yields, Yielding,
            arrives,
            Calls, At
      <3> QED
        BY <3>1, ElevatorAssumption DEF RoomInv
    <2> QED
      BY <1>1, <1>2, <2>1 DEF RoomInv
  <1>5. ASSUME NEW d \in Dirs, NEW f \in Stops
        PROVE  LiveSlots(d, f)' \subseteq LiveSlots(d, f)
    <2>1. CASE at[2] = "directors"
      BY <1>1, <2>1, StrikesOff
    <2>2. CASE at[2] # "directors"
      BY <1>1, <2>2 DEF LiveSlots
    <2> QED
      BY <2>1, <2>2
  <1>6. ASSUME NEW p \in Employee .. President, NEW d \in Dirs, NEW f \in Stops
        PROVE  Live(p, d, f) \in Nat /\ Live(p, d, f)' \in Nat /\ Live(p, d, f)' <= Live(p, d, f)
    <2>1. IsFiniteSet(LiveSlots(d, f)) /\ Cardinality(LiveSlots(d, f)) \in Nat
      BY LiveNat
    <2>2. /\ Cardinality(LiveSlots(d, f)') \in Nat
          /\ Cardinality(LiveSlots(d, f)') <= Cardinality(LiveSlots(d, f))
      BY <1>5, <2>1, FS_Subset, FS_CardinalityType
    <2> QED
      BY <2>1, <2>2 DEF Live
  <1>7. LiveInv'
    <2>1. ASSUME NEW d \in Dirs, NEW f \in Stops
          PROVE  Live(Director, d, f)' <= Filed(Director, d, f)'
      <3>1. Director \in Employee .. President
        BY DEF Director, Employee, President
      <3>2. Live(Director, d, f) <= Filed(Director, d, f)
        BY <1>2 DEF LiveInv
      <3>3. /\ Filed(Director, d, f)' = Filed(Director, d, f)
            /\ Filed(Director, d, f) \in Nat
        <4>1. Filed(Director, d, f)' = Filed(Director, d, f)
          BY <3>1 DEF TourFrame
        <4>2. Callers(Director, d, f) \in SUBSET Threads
          BY DEF Callers
        <4> QED
          BY <4>1, <4>2, Present DEF Filed
      <3> QED
        BY <1>6, <3>1, <3>2, <3>3
    <2> QED
      BY <2>1 DEF LiveInv
  <1>8. CallInv'
    <2>1. \A t \in Threads : at[t] \in {"attends", "enters"} => at'[t] = at[t]
      <3>1. at[2] \notin {"attends", "enters"}
        BY <1>1, Running, TourFrames DEF TourFrame, ElevatorLabels, TourLabels, MoveLabels
      <3> QED
        BY <3>1 DEF TourFrame
    <2>2. CASE UNCHANGED <<reqSFP, reqEFP>>
               /\ (at[2] \in OpenLabels /\ visit.by = "president in" =>
                     at'[2] \in OpenLabels /\ visit'.by = "president in")
      BY <1>1, <1>2, <2>1, <2>2 DEF CallInv, TourFrame
    <2>3. CASE at[2] = "shuts"
      <3>1. shuts
        BY <1>1, <2>3
        DEF elevatorStep, starts, looks, decides, president, directors, employees, letsEnter,
            letsExit, boards, alights, rests, stops, sleeps, moves, yields, Yielding, arrives,
            Calls, At
      <3>2. CASE visit.by = "president in"
        BY <3>1, <3>2 DEF shuts, CallInv
      <3>3. CASE visit.by # "president in"
        <4>1. reqSFP' = reqSFP
          BY <3>1, <3>3 DEF shuts
        <4>2. reqSFP # None => \E t \in Threads :
                /\ IsPresident(t) /\ at[t] \in {"attends", "enters"}
                /\ start[t] = reqSFP /\ end[t] = reqEFP
          BY <1>2, <3>3 DEF CallInv
        <4>3. reqSFP # None => reqEFP' = reqEFP
          BY <2>3, <3>1 DEF shuts, ElevatorInv, RequestInv, OpenLabels
        <4> QED
          BY <1>1, <2>1, <4>1, <4>2, <4>3 DEF CallInv, TourFrame
      <3> QED
        BY <3>2, <3>3
    <2>4. CASE at[2] \in OpenLabels \ {"shuts"}
      <3>1. letsEnter \/ letsExit \/ boards \/ alights
        BY <1>1, <2>4
        DEF OpenLabels, elevatorStep, starts, looks, decides, president, directors, employees,
            shuts, rests, stops, sleeps, moves, yields, Yielding, arrives, Calls, At
      <3>2. visit'.by = visit.by
        <4>1. visit \in [enter : Int, exit : Int, dir : Dirs,
                         by : {"others", "president in", "president out"}]
          BY DEF ElevatorInv, CabInv
        <4> QED
          BY <3>1, <4>1 DEF letsEnter, letsExit, boards, alights, cabVars, localVars
      <3>3. at'[2] \in OpenLabels
        BY <1>1, <3>1
        DEF letsEnter, letsExit, boards, alights, Calls, Goes, VisitGoesOn, OpenLabels, TourFrame,
            ElevatorInv, TypedInv
      <3> QED
        BY <1>1, <2>2, <2>4, <3>2, <3>3
    <2>5. CASE at[2] \notin OpenLabels
      BY <1>1, <2>2, <2>5 DEF OpenLabels
    <2> QED
      BY <2>3, <2>4, <2>5
  <1> QED
    BY <1>3, <1>4, <1>6, <1>7, <1>8

\* One round of the loop over the directors' requests takes no more than there are.
LEMMA Admitted ==
  ASSUME ElevatorInv, MoveInv, RestInv, RankInv, NoStale, elevatorStep, at[2] = "directors",
         NEW l, TourFrame(l)
  PROVE  /\ directors /\ visit'.enter \in Int /\ visit'.enter >= 0
         /\ visit'.exit \in Int /\ visit'.exit >= 0
         /\ visit'.dir = direction /\ visit'.by = "others"
         /\ visit'.enter + Live(Director, direction, currentFloor)'
              <= Filed(Director, direction, currentFloor)
         /\ UNCHANGED <<direction, currentFloor>>
  <1>1. /\ me = 2 /\ directors /\ slot \in 0 .. 2
        /\ LookInv /\ visit.by = "others"
        /\ direction \in Dirs /\ currentFloor \in Stops
        /\ visit.enter \in Int /\ visit.exit \in Int
        /\ visit \in [enter : Int, exit : Int, dir : Dirs,
                      by : {"others", "president in", "president out"}]
    BY StrikesOff, Here
    DEF TourFrame, RankInv, ElevatorInv, RequestInv, TourLabels, CabInv
  <1>2. /\ visit.enter >= 0 /\ visit.exit >= 0 /\ visit.dir = direction
        /\ visit.enter + Live(Director, direction, currentFloor)
             <= Filed(Director, direction, currentFloor)
    BY <1>1 DEF LookInv
  <1>3. PICK d \in Dirs, f \in Stops, k \in 0 .. 2 : d = direction /\ f = currentFloor /\ k = slot
    BY <1>1
  <1> DEFINE in  == reqSFD[k] = f /\ Ahead(d, f, reqEFD[k]) /\ waitingforEmpty = 0
             out == reqSFD[k] = None /\ reqEFD[k] = f
  <1>4. /\ visit' = [visit EXCEPT !.enter = IF in THEN @ + 1 ELSE @,
                                  !.exit  = IF out THEN @ + 1 ELSE @]
        /\ reqSFD' = [reqSFD EXCEPT ![k] = IF in THEN None ELSE @]
        /\ UNCHANGED <<direction, currentFloor>>
    BY <1>1, <1>3 DEF directors, Opens
  <1>5. /\ visit'.enter = (IF in THEN visit.enter + 1 ELSE visit.enter)
        /\ visit'.exit = (IF out THEN visit.exit + 1 ELSE visit.exit)
        /\ visit'.dir = visit.dir /\ visit'.by = visit.by
    BY <1>1, <1>4
  <1>6. /\ Live(Director, d, f) \in Nat /\ Live(Director, d, f)' \in Nat
        /\ Live(Director, d, f)' <= Live(Director, d, f)
        /\ in => Live(Director, d, f)' <= Live(Director, d, f) - 1
    <2>1. Live(Director, d, f) \in Nat /\ Live(Director, d, f)' \in Nat
          /\ Live(Director, d, f)' <= Live(Director, d, f)
      <3>1. Director \in Employee .. President
        BY DEF Director, Employee, President
      <3> QED
        BY <3>1, RankTour
    <2>2. ASSUME in PROVE Live(Director, d, f)' <= Live(Director, d, f) - 1
      <3>1. PICK S, T : S = LiveSlots(d, f) /\ T = LiveSlots(d, f)'
        OBVIOUS
      <3>2. k \in S
        BY <2>2, <3>1 DEF LiveSlots
      <3>3. T \subseteq S /\ k \notin T
        <4>1. T \subseteq S
          BY <1>1, <3>1, StrikesOff
        <4>2. reqSFD'[k] = None
          BY <1>4, <2>2 DEF RestInv
        <4>3. f # None
          BY ElevatorAssumption DEF Stops, None
        <4> QED
          BY <3>1, <4>1, <4>2, <4>3 DEF LiveSlots
      <3>4. IsFiniteSet(S) /\ Cardinality(S) \in Nat
        BY <3>1, LiveNat
      <3>5. IsFiniteSet(S \ {k}) /\ Cardinality(S \ {k}) = Cardinality(S) - 1
        BY <3>2, <3>4, FS_RemoveElement
      <3>6. T \subseteq S \ {k}
        BY <3>3
      <3>7. Cardinality(T) <= Cardinality(S \ {k})
        BY <3>5, <3>6, FS_Subset
      <3>8. Live(Director, d, f) = Cardinality(S) /\ Live(Director, d, f)' = Cardinality(T)
        BY <3>1 DEF Live
      <3> QED
        BY <3>5, <3>7, <3>8
    <2> QED
      BY <2>1, <2>2
  <1>7. Filed(Director, d, f) \in Nat
    <2>1. Callers(Director, d, f) \in SUBSET Threads
      BY DEF Callers
    <2> QED
      BY <2>1, Present DEF Filed
  <1>8. /\ Live(Director, d, f)' = Live(Director, direction, currentFloor)'
        /\ Filed(Director, d, f) = Filed(Director, direction, currentFloor)
        /\ Live(Director, d, f) = Live(Director, direction, currentFloor)
    BY <1>3, <1>4 DEF Live, LiveSlots
  <1>9. /\ \/ visit'.enter = visit.enter
           \/ visit'.enter = visit.enter + 1 /\ Live(Director, d, f)' <= Live(Director, d, f) - 1
        /\ visit'.exit \in {visit.exit, visit.exit + 1}
    BY <1>5, <1>6
  <1> HIDE DEF in, out
  <1>10. visit.enter + Live(Director, d, f) <= Filed(Director, d, f)
    BY <1>2, <1>8
  <1>15. visit.enter \in Int /\ visit.exit \in Int /\ visit.enter >= 0 /\ visit.exit >= 0
    BY <1>1, <1>2
  <1>11. visit'.enter + Live(Director, d, f)' <= Filed(Director, d, f)
    BY ONLY <1>6, <1>7, <1>9, <1>10, <1>15
  <1>12. /\ visit'.enter \in Int /\ visit'.enter >= 0
         /\ visit'.exit \in Int /\ visit'.exit >= 0
    BY ONLY <1>9, <1>15
  <1>13. visit'.dir = direction /\ visit'.by = "others"
    BY <1>1, <1>2, <1>5
  <1>14. visit'.enter + Live(Director, direction, currentFloor)'
           <= Filed(Director, direction, currentFloor)
    BY <1>8, <1>11
  <1> QED
    BY <1>1, <1>4, <1>12, <1>13, <1>14

\* What the elevator has just read is so.
LEMMA RankLooks ==
  ASSUME ElevatorInv, MoveInv, RestInv, RankInv, NoStale, elevatorStep, NEW l, TourFrame(l)
  PROVE  LookInv'
  <1>1. /\ me = 2 /\ 2 \in Threads /\ at'[2] = l /\ at' = [at EXCEPT ![2] = l]
        /\ UNCHANGED <<ridersOf, setOf, num>>
        /\ at[2] # "starts" => UNCHANGED numRiders
        /\ Own => OnProcessor(2)'
        /\ LookInv /\ TypedInv
    BY DEF TourFrame, RankInv, ElevatorInv
  <1>2. SUFFICES ASSUME l \in {"decides", "decidesToo", "decidesLast", "president", "directors",
                               "employees"}
                 PROVE  LookInv'
    BY <1>1 DEF LookInv
  <1>3. \/ looks /\ l = "decides"
        \/ decides /\ l # "decides"
        \/ directors /\ l = "directors"
    <2>1. ASSUME NEW m, Goes(m) PROVE l = m
      BY <1>1, <2>1 DEF Goes, TypedInv
    <2>2. CASE looks
      BY <2>1, <2>2 DEF looks
    <2>3. CASE decides
      BY <1>1, <2>1, <2>3 DEF decides
    <2>4. CASE directors
      BY <1>2, <2>1, <2>4 DEF directors, Opens
    <2>5. CASE starts \/ president \/ employees \/ letsEnter \/ letsExit \/ boards \/ alights
                 \/ shuts \/ rests \/ stops \/ sleeps \/ moves \/ yields \/ arrives
      BY <1>2, <2>1, <2>5
      DEF starts, president, employees, letsEnter, letsExit, boards, alights, shuts, rests, stops,
          sleeps, moves, yields, Yielding, arrives, Calls, Opens, VisitGoesOn
    <2> QED
      BY <2>2, <2>3, <2>4, <2>5 DEF elevatorStep
  <1>4. CASE looks /\ l = "decides"
    <2>1. /\ numSpaces' = MAX_RIDERS - numRiders /\ numEnter' = num[direction][currentFloor]
          /\ UNCHANGED <<numRiders, direction, currentFloor>>
          /\ at[2] = "looks"
      BY <1>1, <1>4 DEF looks, At, elvVars, bldVars, rideVars
    <2>2. num[direction][currentFloor] \in Nat
      <3>1. direction \in Dirs /\ currentFloor \in Floors
        BY <2>1, Here DEF TourLabels
      <3> QED
        BY <3>1, CountTypes DEF ElevatorInv
    <2> QED
      BY <1>1, <1>4, <2>1, <2>2 DEF LookInv
  <1>5. CASE decides /\ l # "decides"
    <2>1. /\ at[2] \in {"decides", "decidesToo", "decidesLast"} /\ Own
          /\ visit' = Visit(0, 0, direction, "others")
          /\ UNCHANGED <<numRiders, numEnter, numSpaces, direction, currentFloor>>
      BY <1>1, <1>5 DEF decides, At, elvVars, bldVars, rideVars
    <2>2. /\ l = "president" => ForPresident
          /\ l = "directors" => ForDirectors
          /\ l = "employees" => ForEmployees
      <3>1. ASSUME NEW m, Goes(m) PROVE l = m
        BY <1>1, <3>1 DEF Goes, TypedInv
      <3> QED
        BY <1>5, <3>1 DEF decides
    <2>3. /\ l \in {"decides", "decidesToo", "decidesLast", "employees"} =>
               numSpaces' = MAX_RIDERS - numRiders' /\ numEnter' <= num'[direction'][currentFloor']
      BY <1>1, <2>1 DEF LookInv
    <2>4. CASE l = "directors"
      <3>1. /\ direction \in Dirs /\ currentFloor \in Stops
        BY <2>1, Here DEF TourLabels
      <3>2. visit'.enter = 0 /\ visit'.exit = 0 /\ visit'.dir = direction
        BY <2>1 DEF Visit
      <3>3. PICK d \in Dirs, f \in Stops : d = direction /\ f = currentFloor
        BY <3>1
      <3>4. /\ Live(Director, d, f)' <= Filed(Director, d, f)'
            /\ Live(Director, d, f)' \in Nat
        <4>1. LiveInv' /\ Live(Director, d, f)' \in Nat
          <5>1. Director \in Employee .. President
            BY DEF Director, Employee, President
          <5> QED
            BY <5>1, RankTour
        <4> QED
          BY <4>1 DEF LiveInv
      <3>5. /\ Live(Director, d, f)' = Live(Director, direction, currentFloor)'
            /\ Filed(Director, d, f)' = Filed(Director, direction, currentFloor)'
        BY <2>1, <3>3 DEF Live, LiveSlots, Filed, Callers, HowMany, Among
      <3>6. 0 + Live(Director, direction, currentFloor)'
              <= Filed(Director, direction, currentFloor)'
        BY <3>4, <3>5
      <3> QED
        BY <1>1, <2>1, <2>2, <2>4, <3>2, <3>6 DEF LookInv, ForDirectors
    <2>5. CASE l # "directors"
      BY <1>1, <1>2, <1>5, <2>1, <2>2, <2>3, <2>5 DEF LookInv, ForPresident, ForEmployees
    <2> QED
      BY <2>4, <2>5
  <1>6. CASE directors /\ l = "directors"
    <2>1. at[2] = "directors" /\ Own
      BY <1>1, <1>6 DEF directors, At
    <2>2. PICK d \in Dirs, f \in Stops : d = direction /\ f = currentFloor
      BY <2>1, Here DEF TourLabels
    <2>3. /\ visit'.enter >= 0 /\ visit'.exit >= 0 /\ visit'.dir = direction
          /\ visit'.enter + Live(Director, direction, currentFloor)'
               <= Filed(Director, direction, currentFloor)
          /\ UNCHANGED <<direction, currentFloor>>
      BY <2>1, Admitted
    <2>4. Filed(Director, direction, currentFloor)' = Filed(Director, direction, currentFloor)
      <3>1. Filed(Director, d, f)' = Filed(Director, d, f)
        <4>1. Director \in Employee .. President
          BY DEF Director, Employee, President
        <4> QED
          BY <4>1 DEF TourFrame
      <3>2. Filed(Director, d, f)' = Filed(Director, direction, currentFloor)'
        BY <2>2, <2>3 DEF Filed, Callers, HowMany, Among
      <3> QED
        BY <2>2, <3>1, <3>2
    <2> QED
      BY <1>1, <1>6, <2>1, <2>3, <2>4 DEF LookInv
  <1> QED
    BY <1>3, <1>4, <1>5, <1>6

\* The signal finds somebody of the rank it is meant for.
LEMMA RankSignals ==
  ASSUME ElevatorInv, MoveInv, RestInv, RankInv, NoStale, elevatorStep, letsEnter,
         NEW l, TourFrame(l)
  PROVE  ServeInv'
  <1>1. /\ me = 2 /\ 2 \in Threads /\ InBody /\ at[2] = "letsEnter" /\ at'[2] = "boards"
        /\ UNCHANGED <<direction, currentFloor, visit, priority, start, end, ridersOf, numRiders>>
        /\ sig(going(visit.dir, currentFloor))
        /\ \A t \in Threads : at'[t] = IF t = 2 THEN l ELSE at[t]
        /\ \A t \in Threads : at'[t] \in PastTest \cup {"enters"} => t # 2
        /\ \A t \in Threads : Towards(t)' = Towards(t)
        /\ TypedInv
    BY DEF TourFrame, letsEnter, Calls, At, Goes, cabVars, elvVars, localVars, ElevatorInv, TypedInv
  <1>2. /\ NumComes = 0 /\ \A t \in Threads : ~Comes(t)
        /\ \A t \in Threads : at[t] \in PastTest =>
             at[t] = "enters" /\ Waits(t, going(Towards(t), start[t]))
    BY <1>1, AllWait DEF MoveInv
  <1>3. PICK p \in Employee .. President, d \in Dirs, f \in Stops : Serving(p, d, f)
    BY <1>1 DEF RankInv, ServeInv
  <1>4. f \in Floors /\ p \in Int
    BY ElevatorAssumption DEF Stops, Floors, Employee, President
  <1>5. PICK c \in Conds : c = going(d, f)
    BY <1>4, CondsDiffer
  <1>6. sig(c)
    BY <1>1, <1>3, <1>5 DEF Serving
  <1>7. /\ visit.enter \in Int /\ visit.enter > 0 /\ ToSignal = visit.enter
        /\ ToSignal' = visit.enter - 1
        /\ visit.enter + Live(p, d, f) <= Filed(p, d, f)
        /\ numRiders + visit.enter <= MAX_RIDERS
    <2>1. visit.enter \in Int
      BY DEF ElevatorInv, CabInv
    <2>2. /\ visit.enter > 0
          /\ ToSignal + NumComes + Live(p, d, f) <= Filed(p, d, f)
          /\ numRiders + ToSignal + NumComes <= MAX_RIDERS
      BY <1>1, <1>3 DEF Serving
    <2>3. ToSignal = visit.enter /\ ToSignal' = visit.enter - 1
      BY <1>1 DEF ToSignal
    <2>4. visit.enter + 0 = visit.enter /\ numRiders + visit.enter + 0 = numRiders + visit.enter
      <3>1. numRiders \in Int
        BY CountTypes DEF ElevatorInv
      <3> QED
        BY <2>1, <3>1
    <2> QED
      BY <1>2, <2>1, <2>2, <2>3, <2>4
  <1>8. /\ Live(p, d, f) \in Nat /\ Live(p, d, f)' \in Nat /\ Live(p, d, f)' <= Live(p, d, f)
        /\ Filed(p, d, f) \in Nat /\ Filed(p, d, f)' = Filed(p, d, f)
        /\ numRiders \in Nat /\ MAX_RIDERS \in Nat
    <2>1. Callers(p, d, f) \in SUBSET Threads
      BY DEF Callers
    <2>2. /\ Live(p, d, f) \in Nat /\ Live(p, d, f)' \in Nat /\ Live(p, d, f)' <= Live(p, d, f)
          /\ Filed(p, d, f) \in Nat /\ Filed(p, d, f)' = Filed(p, d, f)
      BY <2>1, RankTour, Present DEF Filed, TourFrame
    <2> QED
      BY <2>2, CountTypes, ElevatorAssumption DEF ElevatorInv
  <1>9. PICK u \in Threads : priority[u] = p /\ Waits(u, c)
    <2>1. Filed(p, d, f) > 0
      BY <1>7, <1>8
    <2>2. PICK u \in Callers(p, d, f) : at[u] \in FiledLabels
      <3>1. Callers(p, d, f) \in SUBSET Threads
        BY DEF Callers
      <3> QED
        BY <2>1, <3>1, Present DEF Filed
    <2>3. /\ u \in Threads /\ priority[u] = p /\ start[u] = f /\ Towards(u) = d
          /\ at[u] \in PastTest
      BY <2>2 DEF Callers, PastTest
    <2> QED
      BY <1>2, <1>5, <2>3
  <1>10. PICK w \in Threads :
           /\ Waits(w, c) /\ ~Waits(w, c)'
           /\ \A t \in Threads : Waits(t, c) => priority[t] <= priority[w]
           /\ \A t \in Threads : \A e \in Conds : t # w => (Waits(t, e)' <=> Waits(t, e))
    BY <1>6, <1>9, SigBest
  <1>11. at[w] = "enters" /\ c = going(Towards(w), start[w]) /\ w # 2
    <2>1. /\ Towards(w) \in Dirs /\ start[w] \in Floors /\ end[w] \in Floors
      BY <1>1, OwnConds
    <2>2. c # elv_wait /\ c # emptyElevator /\ c # requests(end[w])
      BY <1>4, <1>5, <2>1, CondsDiffer
    <2>3. WaitsInv
      BY DEF ElevatorInv
    <2>4. at[w] = "enters" /\ c = going(Towards(w), start[w])
      BY <1>10, <2>2, <2>3 DEF WaitsInv
    <2> QED
      BY <1>1, <2>4
  <1>12. Towards(w) = d /\ priority[w] = p
    <2>1. Towards(w) = d
      <3>1. PICK e \in Dirs, g \in Floors : e = Towards(w) /\ g = start[w]
        BY <1>1, OwnConds
      <3>2. going(d, f) = going(e, g)
        BY <1>5, <1>11, <3>1
      <3> QED
        BY <1>4, <3>1, <3>2, CondsDiffer
    <2>2. priority[w] <= p
      BY <1>3, <1>11 DEF Serving, PastTest, FiledLabels
    <2>3. p <= priority[w]
      BY <1>9, <1>10
    <2>4. priority[w] \in Int
      BY <1>1, <1>2, <1>11, AllWait DEF MoveInv, PastTest, FiledLabels, Employee, President
    <2> QED
      BY <1>4, <2>1, <2>2, <2>3, <2>4
  <1>13. Comes(w)'
    <2>1. at'[w] = "enters" /\ going(Towards(w), start[w])' = c
      BY <1>1, <1>11 DEF going
    <2> QED
      BY <1>10, <2>1 DEF Comes
  <1>14. ASSUME NEW t \in Threads, Comes(t)' PROVE t = w
    <2>1. SUFFICES ASSUME t # w PROVE FALSE
      OBVIOUS
    <2>2. at'[t] = "enters"
      BY <1>14 DEF Comes
    <2>3. t # 2 /\ at[t] = "enters"
      BY <1>1, <2>2
    <2>4. PICK e \in Conds : e = going(Towards(t), start[t])
      BY <1>1, OwnConds
    <2>5. Waits(t, e)
      BY <1>2, <2>3, <2>4 DEF PastTest, FiledLabels
    <2>6. Waits(t, e)'
      BY <1>10, <2>1, <2>5
    <2>7. going(Towards(t), start[t])' = e
      BY <1>1, <2>4 DEF going
    <2> QED
      BY <1>14, <2>6, <2>7 DEF Comes
  <1>15. NumComes' = 1
    BY <1>13 DEF NumComes
  <1>16. Serving(p, d, f)'
    <2>1. ToSignal' + NumComes' + Live(p, d, f)' <= Filed(p, d, f)'
      BY <1>7, <1>8, <1>15
    <2>2. numRiders' + ToSignal' + NumComes' <= MAX_RIDERS
      BY <1>1, <1>7, <1>8, <1>15
    <2>3. \A t \in Threads : Comes(t)' => priority'[t] = p /\ Towards(t)' = d
      BY <1>1, <1>12, <1>14
    <2>4. \A t \in Threads : at'[t] \in PastTest => priority'[t] <= p
      BY <1>1, <1>3 DEF Serving
    <2>5. visit'.enter > 0
      BY <1>1, <1>7
    <2> QED
      BY <1>1, <1>3, <1>15, <2>1, <2>2, <2>3, <2>4, <2>5 DEF Serving
  <1> QED
    BY <1>16 DEF ServeInv

\* The wait for the one who was called
LEMMA RankBoards ==
  ASSUME ElevatorInv, MoveInv, RestInv, RankInv, NoStale, elevatorStep, boards,
         NEW l, TourFrame(l)
  PROVE  ServeInv'
  <1>1. /\ me = 2 /\ 2 \in Threads /\ at[2] = "boards"
        /\ at'[2] = VisitGoesOn(visit.enter - 1, visit.exit)
        /\ visit' = [visit EXCEPT !.enter = @ - 1] /\ t_wait(elv_wait)
        /\ UNCHANGED <<direction, currentFloor, priority, start, end, ridersOf, numRiders>>
        /\ \A t \in Threads : at'[t] = IF t = 2 THEN l ELSE at[t]
        /\ \A t \in Threads : at'[t] \in PastTest \cup {"enters"} => t # 2
        /\ \A t \in Threads : Towards(t)' = Towards(t)
        /\ TypedInv
    BY DEF TourFrame, boards, Calls, At, Goes, elvVars, ElevatorInv, TypedInv
  <1>2. \A t \in Threads : Comes(t)' <=> Comes(t)
    <2>1. ASSUME NEW t \in Threads PROVE Comes(t)' <=> Comes(t)
      <3>1. PICK e \in Conds : e = going(Towards(t), start[t]) /\ e # elv_wait
        BY <1>1, OwnConds
      <3>2. Waits(t, e)' <=> Waits(t, e)
        BY <1>1, <3>1, WaitKeeps, CondsDiffer
      <3>3. going(Towards(t), start[t])' = e
        BY <1>1, <3>1 DEF going
      <3>4. at'[t] = "enters" <=> at[t] = "enters"
        BY <1>1
      <3> QED
        BY <3>1, <3>2, <3>3, <3>4 DEF Comes
    <2> QED
      BY <2>1
  <1>3. NumComes' = NumComes
    BY <1>2 DEF NumComes
  <1>4. PICK p \in Employee .. President, d \in Dirs, f \in Stops : Serving(p, d, f)
    BY <1>1 DEF RankInv, ServeInv
  <1>5. /\ visit.enter \in Int /\ visit.enter > 0
        /\ visit'.enter = visit.enter - 1 /\ visit'.dir = visit.dir /\ visit'.by = visit.by
    <2>1. visit \in [enter : Int, exit : Int, dir : Dirs,
                     by : {"others", "president in", "president out"}]
      BY DEF ElevatorInv, CabInv
    <2> QED
      BY <1>1, <1>4, <2>1 DEF Serving
  <1>6. /\ at'[2] \in {"letsEnter", "letsExit", "shuts"}
        /\ at'[2] = "letsEnter" <=> visit.enter - 1 > 0
    BY <1>1 DEF VisitGoesOn
  <1>7. ToSignal' = ToSignal
    <2>1. ToSignal = visit.enter - 1
      BY <1>1 DEF ToSignal
    <2>2. CASE at'[2] = "letsEnter"
      BY <1>5, <2>1, <2>2 DEF ToSignal
    <2>3. CASE at'[2] # "letsEnter"
      <3>1. visit.enter - 1 = 0
        BY <1>5, <1>6, <2>3
      <3> QED
        BY <1>6, <2>1, <2>3, <3>1 DEF ToSignal
    <2> QED
      BY <2>2, <2>3
  <1>8. /\ Live(p, d, f) \in Nat /\ Live(p, d, f)' \in Nat /\ Live(p, d, f)' <= Live(p, d, f)
        /\ Filed(p, d, f) \in Nat /\ Filed(p, d, f)' = Filed(p, d, f)
    <2>1. Callers(p, d, f) \in SUBSET Threads
      BY DEF Callers
    <2> QED
      BY <2>1, RankTour, Present DEF Filed, TourFrame
  <1>9. Serving(p, d, f)'
    <2>1. ToSignal' + NumComes' + Live(p, d, f)' <= Filed(p, d, f)'
      <3>1. ToSignal + NumComes + Live(p, d, f) <= Filed(p, d, f)
        BY <1>4 DEF Serving
      <3>2. ToSignal \in Int /\ NumComes \in Int
        BY <1>1, <1>5 DEF ToSignal, NumComes
      <3> QED
        BY <1>3, <1>7, <1>8, <3>1, <3>2
    <2>2. numRiders' + ToSignal' + NumComes' <= MAX_RIDERS
      BY <1>1, <1>3, <1>4, <1>7 DEF Serving
    <2>3. \A t \in Threads : Comes(t)' => priority'[t] = p /\ Towards(t)' = d
      BY <1>1, <1>2, <1>4 DEF Serving
    <2>4. \A t \in Threads : at'[t] \in PastTest => priority'[t] <= p
      BY <1>1, <1>4 DEF Serving
    <2>5. at'[2] \in {"letsEnter", "boards"} => visit'.enter > 0
      BY <1>5, <1>6
    <2>6. ridersOf'[p] > 0 \/ NumComes' = 1
      BY <1>1, <1>3, <1>4 DEF Serving
    <2> QED
      BY <1>1, <1>4, <1>5, <2>1, <2>2, <2>3, <2>4, <2>5, <2>6 DEF Serving
  <1> QED
    BY <1>9 DEF ServeInv

\* The door opens for those who are to come in.
LEMMA RankOpens ==
  ASSUME ElevatorInv, MoveInv, RestInv, RankInv, NoStale, elevatorStep, Own,
         at[2] \in {"president", "directors", "employees"}, NEW l, TourFrame(l), l = "letsEnter",
         NEW p \in Employee .. President, NEW d \in Dirs, NEW f \in Stops,
         visit'.dir = d, currentFloor' = f, visit'.enter \in Int, visit'.enter > 0,
         visit'.enter + Live(p, d, f)' <= Filed(p, d, f),
         numRiders + visit'.enter <= MAX_RIDERS,
         \A q \in Employee .. President : q # p => ridersOf[q] = 0,
         \A t \in Threads : at[t] \in PastTest => priority[t] <= p,
         p = President <=> visit'.by = "president in"
  PROVE  ServeInv'
  <1>1. /\ 2 \in Threads /\ me = 2 /\ InBody /\ at'[2] = "letsEnter" /\ OnProcessor(2)'
        /\ NumComes' = NumComes /\ \A t \in Threads : Comes(t)' <=> Comes(t)
        /\ \A t \in Threads : at'[t] = IF t = 2 THEN l ELSE at[t]
        /\ \A t \in Threads : at'[t] \in PastTest => t # 2
        /\ UNCHANGED <<ridersOf, priority, numRiders>>
        /\ Filed(p, d, f)' = Filed(p, d, f)
    BY DEF TourFrame
  <1>2. NumComes = 0 /\ \A t \in Threads : ~Comes(t)
    BY <1>1, AllWait DEF MoveInv
  <1>3. ToSignal' = visit'.enter
    BY <1>1 DEF ToSignal
  <1>4. Live(p, d, f)' \in Nat /\ numRiders \in Nat /\ MAX_RIDERS \in Nat
    BY RankTour, CountTypes, ElevatorAssumption DEF ElevatorInv
  <1>5. PICK n \in Int : n = visit'.enter
    OBVIOUS
  <1>6. ToSignal' + NumComes' + Live(p, d, f)' <= Filed(p, d, f)'
    <2>1. n + 0 + Live(p, d, f)' = n + Live(p, d, f)'
      BY ONLY <1>4, <1>5
    <2> QED
      BY <1>1, <1>2, <1>3, <1>5, <2>1
  <1>7. numRiders' + ToSignal' + NumComes' <= MAX_RIDERS
    <2>1. numRiders + n + 0 = numRiders + n
      BY ONLY <1>4, <1>5
    <2> QED
      BY <1>1, <1>2, <1>3, <1>5, <2>1
  <1>8. \A t \in Threads : at'[t] \in PastTest => priority'[t] <= p
    BY <1>1
  <1>9. Serving(p, d, f)'
    BY <1>1, <1>2, <1>6, <1>7, <1>8 DEF Serving
  <1> QED
    BY <1>9 DEF ServeInv

\* Only those inside and those who made a request announced themselves.
LEMMA NoneOfRank ==
  ASSUME ElevatorInv, NEW q \in Employee .. President, setOf[q] = 0
  PROVE  /\ ridersOf[q] = 0
         /\ \A t \in Threads : at[t] = "enters" => priority[t] # q
  <1>1. OfRank(q) \in SUBSET Threads
    BY DEF OfRank
  <1>2. \A t \in OfRank(q) : at[t] \notin SetLabels(q)
    <2>1. HowMany(OfRank(q), SetLabels(q), at) = 0
      BY DEF ElevatorInv, CountInv
    <2>2. ~(HowMany(OfRank(q), SetLabels(q), at) > 0)
      BY <2>1
    <2> QED
      BY <1>1, <2>2, Present
  <1>3. \A t \in OfRank(q) : at[t] \notin InsideLabels /\ at[t] # "enters"
    BY <1>2 DEF SetLabels
  <1>4. ridersOf[q] = HowMany(OfRank(q), InsideLabels, at)
    BY DEF ElevatorInv, CountInv
  <1>5. HowMany(OfRank(q), InsideLabels, at) = 0
    <2>1. PICK n \in Nat : n = HowMany(OfRank(q), InsideLabels, at)
      BY <1>1, Present
    <2>2. ~(n > 0)
      BY <1>1, <1>3, <2>1, Present
    <2>3. n = 0
      BY <2>2
    <2> QED
      BY <2>1, <2>3
  <1> QED
    BY <1>3, <1>4, <1>5 DEF OfRank

\* The elevator opens for the president alone.
LEMMA OpensForPresident ==
  ASSUME ElevatorInv, MoveInv, RestInv, RankInv, NoStale, elevatorStep, president,
         NEW l, TourFrame(l), l = "letsEnter"
  PROVE  ServeInv'
  <1> DEFINE h == IF Ahead("UP", currentFloor, reqEFP) THEN "UP" ELSE "DOWN"
  <1>1. /\ me = 2 /\ InBody /\ at[2] = "president" /\ Own /\ UNCHANGED currentFloor
        /\ currentFloor \in Stops /\ TypedInv
        /\ \A t \in Threads : priority[t] \in Int
    <2>1. /\ me = 2 /\ InBody /\ at[2] = "president" /\ Own /\ UNCHANGED currentFloor
      BY DEF TourFrame, president, At
    <2>2. priority \in [Threads -> Levels]
      BY DEF ElevatorInv, MonInv, TypeOK
    <2> QED
      BY <2>1, <2>2, Here, KernelAssumption DEF TourLabels, ElevatorInv, Levels
  <1>2. /\ currentFloor = reqSFP /\ reqEFP # currentFloor
        /\ visit' = Visit(1, 0, h, "president in")
    <2>1. ~Opens(Visit(0, 1, direction, "president out"))
      <3>1. PICK v : v = Visit(0, 1, direction, "president out")
        OBVIOUS
      <3>2. v.enter = 0
        BY <3>1 DEF Visit
      <3>3. v.enter <= 0 /\ v.enter \in Int
        BY <3>2
      <3>4. ~Opens(v)
        BY <3>3 DEF Opens, Goes, TourFrame, ElevatorInv, TypedInv
      <3> QED
        BY <3>1, <3>4
    <2>2. ~Goes("rests")
      BY DEF Goes, TourFrame, ElevatorInv, TypedInv
    <2> QED
      BY <2>1, <2>2 DEF president, Opens
  <1>3. PICK d \in Dirs, f \in Stops : d = h /\ f = currentFloor
    BY <1>1 DEF Dirs
  <1>4. /\ visit'.dir = d /\ currentFloor' = f /\ visit'.enter = 1
        /\ visit'.by = "president in"
    BY <1>1, <1>2, <1>3 DEF Visit
  <1>5. PICK t \in Threads : /\ IsPresident(t) /\ at[t] \in {"attends", "enters"}
                             /\ start[t] = reqSFP /\ end[t] = reqEFP
    <2>1. reqSFP # None
      <3>1. \A g \in Stops : g # None
        BY ElevatorAssumption DEF Stops, None
      <3> QED
        BY <1>1, <1>2, <3>1
    <2> QED
      BY <1>1, <2>1 DEF RankInv, CallInv, OpenLabels
  <1>6. t \in Callers(President, d, f) /\ at[t] \in FiledLabels
    <2>1. Towards(t) = d
      BY <1>2, <1>3, <1>5 DEF Towards, Ahead
    <2> QED
      BY <1>2, <1>3, <1>5, <2>1 DEF Callers, FiledLabels, IsPresident
  <1>7. President \in Employee .. President /\ ~(President = Director)
    BY DEF Employee, Director, President
  <1>8. 1 + Live(President, d, f)' <= Filed(President, d, f)
    <2>1. Live(President, d, f)' = 0
      BY <1>7 DEF Live
    <2>2. Callers(President, d, f) \in SUBSET Threads
      BY DEF Callers
    <2>3. Filed(President, d, f) \in Nat /\ Filed(President, d, f) > 0
      BY <1>6, <2>2, Present DEF Filed
    <2> QED
      BY <2>1, <2>3
  <1>9. ASSUME NEW q \in Employee .. President, q # President
        PROVE  ridersOf[q] = 0
    <2>1. q = Employee \/ q = Director
      BY <1>9 DEF Employee, Director, President
    <2>2. ridersOf[Director] = 0 /\ ridersOf[Employee] = 0
      BY <1>1 DEF RankInv, LookInv
    <2> QED
      BY <2>1, <2>2
  <1>10. ridersOf[President] = 0
    <2>1. OfRank(President) \in SUBSET Threads
      BY DEF OfRank
    <2>2. ASSUME NEW u \in OfRank(President), at[u] \in InsideLabels PROVE FALSE
      <3>1. u \in Threads /\ IsPresident(u)
        BY <2>2, RidersAre DEF OfRank, IsPresident
      <3>2. u = t
        BY <1>5, <3>1 DEF ElevatorInv, WhoInv, OnePresident
      <3> QED
        BY <1>5, <2>2, <3>2 DEF InsideLabels
    <2>3. PICK n \in Nat : n = HowMany(OfRank(President), InsideLabels, at)
      BY <2>1, Present
    <2>4. ~(n > 0)
      BY <2>1, <2>2, <2>3, Present
    <2>5. n = 0
      BY <2>4
    <2> QED
      BY <1>7, <2>3, <2>5 DEF ElevatorInv, CountInv
  <1>11. numRiders + 1 <= MAX_RIDERS
    <2>1. numRiders = 0
      BY <1>7, <1>9, <1>10, OneRankInside
    <2> QED
      BY <2>1, ElevatorAssumption
  <1>12. \A u \in Threads : at[u] \in PastTest => priority[u] <= President
    <2>1. ASSUME NEW u \in Threads, at[u] \in PastTest PROVE priority[u] <= President
      <3>1. priority[u] \in Employee .. President
        BY <1>1, <2>1, AllWait DEF MoveInv
      <3> QED
        BY <3>1 DEF Employee, President
    <2> QED
      BY <2>1
  <1>13. visit'.enter \in Int /\ visit'.enter > 0
    <2>1. 1 \in Int /\ 1 > 0
      OBVIOUS
    <2> QED
      BY ONLY <1>4, <2>1, Zenon
  <1>14. /\ visit'.enter + Live(President, d, f)' <= Filed(President, d, f)
         /\ numRiders + visit'.enter <= MAX_RIDERS
    BY <1>4, <1>8, <1>11
  <1>15. President = President <=> visit'.by = "president in"
    BY <1>4
  <1>16. \A q \in Employee .. President : q # President => ridersOf[q] = 0
    BY <1>9
  <1>17. at[2] \in {"president", "directors", "employees"} /\ Own /\ visit'.dir = d
         /\ currentFloor' = f
    BY <1>1, <1>4
  <1> QED
    BY <1>7, <1>12, <1>13, <1>14, <1>15, <1>16, <1>17, RankOpens

\* All directors fit in.
LEMMA DirectorsFew ==
  ASSUME ElevatorInv, DirectorsInv, NEW d, NEW f
  PROVE  ridersOf[Director] + Filed(Director, d, f) <= MAX_RIDERS
  <1>1. PICK A, B, D : /\ A = Among(OfRank(Director), InsideLabels, at)
                       /\ B = Among(Callers(Director, d, f), FiledLabels, at)
                       /\ D = Directors
    OBVIOUS
  <1>2. A \subseteq D /\ B \subseteq D /\ A \cap B = {} /\ D \subseteq Threads
    <2>1. ASSUME NEW t \in A PROVE t \in D /\ at[t] \in InsideLabels
      <3>1. t \in Threads /\ priority[t] = Director /\ at[t] \in InsideLabels
        BY <1>1 DEF Among, OfRank
      <3> QED
        BY <1>1, <3>1, RidersAre DEF Directors
    <2>2. ASSUME NEW t \in B PROVE t \in D /\ at[t] \notin InsideLabels
      <3>1. t \in Threads /\ priority[t] = Director /\ at[t] \in FiledLabels
        BY <1>1 DEF Among, Callers
      <3>2. at[t] \in OutsideLabels /\ at[t] \notin InsideLabels
        BY <3>1 DEF FiledLabels, OutsideLabels, InsideLabels
      <3> QED
        BY <1>1, <3>1, <3>2, RidersAre DEF Directors
    <2>3. D \subseteq Threads
      BY <1>1 DEF Directors
    <2> QED
      BY <2>1, <2>2, <2>3
  <1>3. /\ IsFiniteSet(D) /\ IsFiniteSet(A) /\ IsFiniteSet(B)
        /\ Cardinality(D) \in Nat /\ Cardinality(A) \in Nat /\ Cardinality(B) \in Nat
        /\ Cardinality(A) + Cardinality(B) <= Cardinality(D)
    <2>1. IsFiniteSet(Threads)
      BY KernelAssumption, FS_Interval DEF Threads
    <2>2. IsFiniteSet(D)
      BY <1>2, <2>1, FS_Subset
    <2>3. IsFiniteSet(A) /\ IsFiniteSet(B) /\ IsFiniteSet(A \cup B)
          /\ Cardinality(A \cup B) <= Cardinality(D)
      <3>1. A \cup B \subseteq D
        BY <1>2
      <3> QED
        BY <1>2, <2>2, <3>1, FS_Subset
    <2>4. Cardinality(A \cup B) = Cardinality(A) + Cardinality(B)
      <3>1. Cardinality(A \cap B) = 0
        BY <1>2, FS_EmptySet
      <3>2. Cardinality(A \cup B) = Cardinality(A) + Cardinality(B) - Cardinality(A \cap B)
        BY <2>3, FS_Union
      <3>3. Cardinality(A) \in Nat /\ Cardinality(B) \in Nat
        BY <2>3, FS_CardinalityType
      <3> QED
        BY <3>1, <3>2, <3>3
    <2>5. Cardinality(D) \in Nat /\ Cardinality(A) \in Nat /\ Cardinality(B) \in Nat
      BY <2>2, <2>3, FS_CardinalityType
    <2> QED
      BY <2>2, <2>3, <2>4, <2>5
  <1>4. Cardinality(D) <= 3
    <2>1. PICK W, V : W = Who(program.script, Director) /\ V = {i \in W : i < forked}
      OBVIOUS
    <2>2. program \in Programs /\ Len(program.script) \in Nat
      <3>1. program \in Programs /\ program.script \in Seq(Journeys \cup {Yields})
        BY ElevatorAssumption DEF ElevatorInv, TypedInv
      <3> QED
        BY <3>1
    <2>3. IsFiniteSet(W) /\ Cardinality(W) <= 3
      <3>1. IsFiniteSet(1 .. Len(program.script))
        BY <2>2, FS_Interval
      <3>2. W \subseteq 1 .. Len(program.script)
        BY <2>1 DEF Who
      <3>3. Cardinality(W) <= 3
        BY <2>1, <2>2, ElevatorAssumption
      <3> QED
        BY <3>1, <3>2, <3>3, FS_Subset
    <2>4. Cardinality(V) <= Cardinality(W) /\ IsFiniteSet(V)
      <3>1. V \subseteq W
        BY <2>1
      <3> QED
        BY <2>3, <3>1, FS_Subset
    <2>5. Cardinality(D) <= Cardinality(V)
      BY <1>1, <2>1 DEF DirectorsInv
    <2>6. Cardinality(V) \in Nat /\ Cardinality(W) \in Nat
      BY <2>3, <2>4, FS_CardinalityType
    <2> QED
      BY <1>3, <2>3, <2>4, <2>5, <2>6
  <1>5. ridersOf[Director] = Cardinality(A) /\ Filed(Director, d, f) = Cardinality(B)
    <2>1. Director \in Employee .. President
      BY DEF Director, Employee, President
    <2> QED
      BY <1>1, <2>1 DEF ElevatorInv, CountInv, Filed, HowMany
  <1>6. MAX_RIDERS \in Nat /\ MAX_RIDERS >= 3
    BY ElevatorAssumption
  <1> QED
    BY <1>3, <1>4, <1>5, <1>6

\* When it opens for directors, each signal goes to one of them, and there is room.
LEMMA OpensForDirectors ==
  ASSUME ElevatorInv, MoveInv, RestInv, RankInv, NoStale, elevatorStep, directors,
         NEW l, TourFrame(l), l = "letsEnter"
  PROVE  ServeInv'
  <1>1. /\ me = 2 /\ InBody /\ at[2] = "directors" /\ Own
        /\ direction \in Dirs /\ currentFloor \in Stops /\ TypedInv
    <2>1. /\ me = 2 /\ InBody /\ at[2] = "directors" /\ Own
      BY DEF TourFrame, directors, At
    <2> QED
      BY <2>1, Here DEF TourLabels, ElevatorInv
  <1>2. PICK d \in Dirs, f \in Stops : d = direction /\ f = currentFloor
    BY <1>1
  <1>3. /\ visit'.enter \in Int /\ visit'.dir = direction /\ visit'.by = "others"
        /\ visit'.enter + Live(Director, direction, currentFloor)'
             <= Filed(Director, direction, currentFloor)
        /\ UNCHANGED <<direction, currentFloor>>
    BY <1>1, Admitted
  <1>4. visit'.enter > 0
    <2>1. ASSUME NEW m, Goes(m) PROVE m = "letsEnter"
      BY <1>1, <2>1 DEF Goes, TourFrame, TypedInv
    <2>2. ~Goes("rests") /\ ~Goes("directors") /\ ~Goes("letsExit") /\ ~Goes("shuts")
      BY <2>1
    <2> QED
      BY <2>2 DEF directors, Opens
  <1>5. visit'.dir = d /\ currentFloor' = f
    BY <1>2, <1>3
  <1>6. visit'.enter + Live(Director, d, f)' <= Filed(Director, d, f)
    <2>1. /\ Live(Director, d, f)' = Live(Director, direction, currentFloor)'
          /\ Filed(Director, d, f) = Filed(Director, direction, currentFloor)
      BY <1>2, <1>3 DEF Live, LiveSlots
    <2> QED
      BY <1>3, <2>1
  <1>7. /\ Director \in Employee .. President /\ President \in Employee .. President
        /\ Director # President
    BY DEF Director, Employee, President
  <1>8. setOf[President] = 0 /\ ridersOf[Employee] = 0
    BY <1>1 DEF RankInv, LookInv
  <1>9. /\ ridersOf[President] = 0
        /\ \A t \in Threads : at[t] = "enters" => priority[t] # President
    BY <1>7, <1>8, NoneOfRank
  <1>10. \A q \in Employee .. President : q # Director => ridersOf[q] = 0
    <2>1. ASSUME NEW q \in Employee .. President, q # Director PROVE ridersOf[q] = 0
      <3>1. q = Employee \/ q = President
        BY <2>1 DEF Employee, Director, President
      <3> QED
        BY <1>8, <1>9, <3>1
    <2> QED
      BY <2>1
  <1>11. \A t \in Threads : at[t] \in PastTest => priority[t] <= Director
    <2>1. ASSUME NEW t \in Threads, at[t] \in PastTest PROVE priority[t] <= Director
      <3>1. priority[t] \in Employee .. President /\ at[t] = "enters"
        BY <1>1, <2>1, AllWait DEF MoveInv
      <3>2. priority[t] # President
        BY <1>9, <3>1
      <3> QED
        BY <3>1, <3>2 DEF Employee, Director, President
    <2> QED
      BY <2>1
  <1>12. numRiders + visit'.enter <= MAX_RIDERS
    <2>1. numRiders = ridersOf[Director]
      BY <1>7, <1>10, OneRankInside
    <2>2. ridersOf[Director] + Filed(Director, d, f) <= MAX_RIDERS
      BY DirectorsFew DEF RankInv
    <2>3. Live(Director, d, f)' \in Nat
      BY <1>7, RankTour
    <2>4. Filed(Director, d, f) \in Nat
      <3>1. Callers(Director, d, f) \in SUBSET Threads
        BY DEF Callers
      <3> QED
        BY <3>1, Present DEF Filed
    <2>5. PICK n \in Int : n = visit'.enter
      BY <1>3
    <2>6. n <= Filed(Director, d, f)
      BY ONLY <1>6, <2>3, <2>4, <2>5
    <2>7. numRiders \in Nat /\ MAX_RIDERS \in Nat
      BY CountTypes, ElevatorAssumption DEF ElevatorInv
    <2>8. numRiders + n <= MAX_RIDERS
      BY ONLY <2>1, <2>2, <2>4, <2>5, <2>6, <2>7
    <2> QED
      BY <2>5, <2>8
  <1>13. Director = President <=> visit'.by = "president in"
    BY <1>3, <1>7
  <1>14. at[2] \in {"president", "directors", "employees"} /\ visit'.enter \in Int
    BY <1>1, <1>3
  <1> QED
    BY <1>1, <1>4, <1>5, <1>6, <1>7, <1>10, <1>11, <1>12, <1>13, <1>14, RankOpens

\* When it opens for employees, no director or president is about.
LEMMA OpensForEmployees ==
  ASSUME ElevatorInv, MoveInv, RestInv, RankInv, NoStale, elevatorStep, employees,
         NEW l, TourFrame(l), l = "letsEnter"
  PROVE  ServeInv'
  <1>1. /\ me = 2 /\ InBody /\ at[2] = "employees" /\ Own
        /\ direction \in Dirs /\ currentFloor \in Stops /\ currentFloor \in Floors /\ TypedInv
    <2>1. /\ me = 2 /\ InBody /\ at[2] = "employees" /\ Own
      BY DEF TourFrame, employees, At
    <2> QED
      BY <2>1, Here DEF TourLabels, ElevatorInv
  <1>2. PICK d \in Dirs, f \in Stops : d = direction /\ f = currentFloor
    BY <1>1
  <1>3. PICK e : e = IF waitingforEmpty # 0 THEN 0 ELSE Fitting
    OBVIOUS
  <1>4. /\ visit' = Visit(e, numExit, direction, "others")
        /\ UNCHANGED <<direction, currentFloor>>
        /\ e > 0
    <2>1. ASSUME NEW m, Goes(m) PROVE m = "letsEnter"
      BY <1>1, <2>1 DEF Goes, TourFrame, TypedInv
    <2>2. ~Goes("rests") /\ ~Goes("letsExit") /\ ~Goes("shuts")
      BY <2>1
    <2>3. /\ visit' = Visit(e, numExit, direction, "others")
          /\ Opens(Visit(e, numExit, direction, "others"))
      BY <1>3, <2>2 DEF employees, Opens
    <2>4. PICK v : v = Visit(e, numExit, direction, "others")
      OBVIOUS
    <2>5. v.enter = e
      BY <2>4 DEF Visit
    <2>6. v.enter > 0
      BY <2>2, <2>3, <2>4 DEF Opens
    <2> QED
      BY <2>3, <2>5, <2>6 DEF employees
  <1>5. visit'.enter = e /\ visit'.dir = d /\ visit'.by = "others" /\ currentFloor' = f
    BY <1>2, <1>4 DEF Visit
  <1>6. /\ numEnter \in Nat /\ numSpaces \in Int
        /\ numSpaces = MAX_RIDERS - numRiders /\ numEnter <= num[direction][currentFloor]
        /\ setOf[President] = 0 /\ setOf[Director] = 0
    <2>1. numEnter \in Nat /\ numSpaces \in Int
      BY DEF ElevatorInv, CabInv
    <2> QED
      BY <1>1, <2>1 DEF RankInv, LookInv
  <1>7. waitingforEmpty = 0 /\ e \in Int /\ e <= numEnter /\ e <= numSpaces
    <2>1. waitingforEmpty = 0
      BY <1>3, <1>4
    <2>2. e = Fitting
      BY <1>3, <2>1
    <2> QED
      BY <1>6, <2>1, <2>2 DEF Fitting
  <1>8. /\ Director \in Employee .. President /\ President \in Employee .. President
        /\ Employee \in Employee .. President
        /\ Employee # President /\ Employee # Director
    BY DEF Director, Employee, President
  <1>9. /\ ridersOf[President] = 0 /\ ridersOf[Director] = 0
        /\ \A t \in Threads : at[t] = "enters" =>
             priority[t] # President /\ priority[t] # Director
    BY <1>6, <1>8, NoneOfRank
  <1>10. \A q \in Employee .. President : q # Employee => ridersOf[q] = 0
    <2>1. ASSUME NEW q \in Employee .. President, q # Employee PROVE ridersOf[q] = 0
      <3>1. q = Director \/ q = President
        BY <2>1 DEF Employee, Director, President
      <3> QED
        BY <1>9, <3>1
    <2> QED
      BY <2>1
  <1>11. ASSUME NEW t \in Threads, at[t] = "enters" PROVE priority[t] = Employee
    <2>1. priority[t] \in Employee .. President
      BY <1>1, <1>11, AllWait DEF MoveInv, PastTest, FiledLabels
    <2>2. priority[t] # President /\ priority[t] # Director
      BY <1>9, <1>11
    <2> QED
      BY <2>1, <2>2 DEF Employee, Director, President
  <1>12. \A t \in Threads : at[t] \in PastTest => priority[t] <= Employee
    <2>1. ASSUME NEW t \in Threads, at[t] \in PastTest PROVE priority[t] <= Employee
      <3>1. at[t] = "enters"
        BY <1>1, <2>1, AllWait DEF MoveInv
      <3> QED
        BY <1>11, <3>1 DEF Employee
    <2> QED
      BY <2>1
  <1>13. num[direction][currentFloor] = Filed(Employee, d, f)
    <2>1. num[direction][currentFloor] = HowMany(CallsFrom(d, f), OutsideLabels, at)
      BY <1>1, <1>2 DEF ElevatorInv, CountInv
    <2>2. \A t \in Threads : at[t] # "wakes"
      <3>1. HowMany(Threads, {"awaits", "wakes"}, at) = 0
        BY <1>7 DEF ElevatorInv, CountInv
      <3>2. ~(HowMany(Threads, {"awaits", "wakes"}, at) > 0)
        BY <3>1
      <3> QED
        BY <3>2, Present
    <2>3. \A t \in Threads : at[t] \in OutsideLabels <=> at[t] = "enters"
      <3>1. \A t \in Threads : at[t] \in OutsideLabels => at[t] \in {"wakes", "enters"}
        BY <1>1, AllWait DEF MoveInv
      <3> QED
        BY <2>2, <3>1 DEF OutsideLabels
    <2>4. \A t \in Threads : at[t] \in FiledLabels <=> at[t] = "enters"
      BY <2>3 DEF FiledLabels, OutsideLabels
    <2>5. Among(CallsFrom(d, f), OutsideLabels, at)
            = Among(Callers(Employee, d, f), FiledLabels, at)
      <3>1. ASSUME NEW t \in Threads
            PROVE  t \in Among(CallsFrom(d, f), OutsideLabels, at)
                     <=> t \in Among(Callers(Employee, d, f), FiledLabels, at)
        BY <1>11, <2>3, <2>4 DEF Among, CallsFrom, Callers
      <3>2. /\ Among(CallsFrom(d, f), OutsideLabels, at) \subseteq Threads
            /\ Among(Callers(Employee, d, f), FiledLabels, at) \subseteq Threads
        BY DEF Among, CallsFrom, Callers
      <3> QED
        BY <3>1, <3>2
    <2> QED
      BY <2>1, <2>5 DEF HowMany, Filed
  <1>14. visit'.enter + Live(Employee, d, f)' <= Filed(Employee, d, f)
    <2>1. Live(Employee, d, f)' = 0
      BY <1>8 DEF Live
    <2>2. Callers(Employee, d, f) \in SUBSET Threads
      BY DEF Callers
    <2>3. Filed(Employee, d, f) \in Nat
      BY <2>2, Present DEF Filed
    <2>4. numEnter <= Filed(Employee, d, f)
      BY <1>6, <1>13
    <2>5. e + 0 <= Filed(Employee, d, f)
      BY ONLY <1>6, <1>7, <2>3, <2>4
    <2> QED
      BY <1>5, <2>1, <2>5
  <1>15. numRiders + visit'.enter <= MAX_RIDERS
    <2>1. numRiders \in Nat /\ MAX_RIDERS \in Nat
      BY CountTypes, ElevatorAssumption DEF ElevatorInv
    <2>2. numRiders + e <= MAX_RIDERS
      BY ONLY <1>6, <1>7, <2>1
    <2> QED
      BY <1>5, <2>2
  <1>16. visit'.enter \in Int /\ visit'.enter > 0
    BY <1>4, <1>5, <1>7
  <1>17. Employee = President <=> visit'.by = "president in"
    BY <1>5, <1>8
  <1>18. at[2] \in {"president", "directors", "employees"} /\ Own /\ visit'.dir = d
         /\ currentFloor' = f
    BY <1>1, <1>5
  <1> QED
    BY <1>8, <1>10, <1>12, <1>14, <1>15, <1>16, <1>17, <1>18, RankOpens

\* Whoever is let in is let in by rank, and fits.
LEMMA RankServes ==
  ASSUME ElevatorInv, MoveInv, RestInv, RankInv, NoStale, elevatorStep, NEW l, TourFrame(l)
  PROVE  ServeInv'
  <1>1. /\ me = 2 /\ 2 \in Threads /\ InBody /\ at'[2] = l /\ TypedInv
        /\ \A t \in Threads : at'[t] = IF t = 2 THEN l ELSE at[t]
        /\ \A t \in Threads : at'[t] \in PastTest \cup {"enters"} => t # 2
        /\ \A t \in Threads : Towards(t)' = Towards(t)
        /\ UNCHANGED <<start, end>>
        /\ Own => NumComes' = NumComes
    BY DEF TourFrame, ElevatorInv
  <1>2. ASSUME NEW m, Goes(m) PROVE l = m
    BY <1>1, <1>2 DEF Goes, TypedInv
  <1>3. ASSUME l \notin {"letsEnter", "boards"}, NumComes' = 0 PROVE ServeInv'
    BY <1>1, <1>3 DEF ServeInv
  <1>4. CASE letsEnter
    BY <1>4, RankSignals
  <1>5. CASE boards
    BY <1>5, RankBoards
  <1>6. CASE alights
    <2>1. at[2] = "alights" /\ t_wait(elv_wait) /\ l \notin {"letsEnter", "boards"}
      BY <1>1, <1>2, <1>6 DEF alights, Calls, At, VisitGoesOn
    <2>2. ASSUME NEW t \in Threads PROVE ~Comes(t)'
      <3>1. ~Comes(t)
        BY <2>1 DEF MoveInv, PassInv
      <3>2. PICK e \in Conds : e = going(Towards(t), start[t]) /\ e # elv_wait
        BY <1>1, OwnConds
      <3>3. Waits(t, e)' <=> Waits(t, e)
        BY <2>1, <3>2, WaitKeeps, CondsDiffer
      <3>4. going(Towards(t), start[t])' = e
        BY <1>1, <3>2 DEF going
      <3>5. at'[t] = "enters" <=> at[t] = "enters"
        BY <1>1, <2>1
      <3> QED
        BY <3>1, <3>2, <3>3, <3>4, <3>5 DEF Comes
    <2> QED
      BY <1>3, <2>1, <2>2 DEF NumComes
  <1>7. CASE letsExit \/ sleeps \/ yields
    <2>1. l \in {"alights", "moves", "looks", "yield2", "yield3", "arrives"}
      BY <1>2, <1>7 DEF letsExit, sleeps, yields, Yielding, Calls
    <2>2. \A t \in Threads : ~Comes(t)'
      BY <1>1, <2>1 DEF TourFrame, MoveInv, PassInv
    <2> QED
      BY <1>3, <2>1, <2>2 DEF NumComes
  <1>8. CASE starts \/ looks \/ decides \/ shuts \/ rests \/ stops \/ moves \/ arrives
             \/ president \/ directors \/ employees
    <2>1. Own /\ at[2] \notin {"boards", "alights"}
      BY <1>1, <1>8 DEF starts, looks, decides, shuts, rests, stops, moves, arrives, president,
             directors, employees, At
    <2>2. NumComes' = 0
      BY <1>1, <2>1, AllWait DEF MoveInv
    <2>3. CASE l = "letsEnter"
      <3>1. president \/ directors \/ employees
        BY <1>2, <1>8, <2>3 DEF starts, looks, decides, shuts, rests, stops, moves, arrives
      <3> QED
        BY <2>3, <3>1, OpensForPresident, OpensForDirectors, OpensForEmployees
    <2>4. l # "boards"
      BY <1>2, <1>8 DEF starts, looks, decides, shuts, rests, stops, moves, arrives, president,
             directors, employees, Opens
    <2> QED
      BY <1>3, <2>2, <2>3, <2>4
  <1> QED
    BY <1>4, <1>5, <1>6, <1>7, <1>8 DEF elevatorStep

\* Every step of the elevator keeps the invariant.
LEMMA RankElevator ==
  ASSUME ElevatorInv, MoveInv, RestInv, RankInv, elevatorStep
  PROVE  RankInv'
  <1>1. PICK l \in ElevatorLabels : TourFrame(l)
    BY TourFrames
  <1>2. pc'[2] = "body" /\ DirectorsInv' /\ (NoStale' => NoStale)
    BY <1>1 DEF TourFrame, NoStale
  <1>3. NoStale => ServeInv' /\ AloneInv' /\ RoomInv' /\ LiveInv' /\ LookInv' /\ CallInv'
    BY <1>1, RankServes, RankTour, RankLooks
  <1> QED
    BY <1>2, <1>3 DEF RankInv

\* So does every step of the program but one that misleads the elevator,
LEMMA RankSteps ==
  ASSUME ElevatorInv, MoveInv, RestInv, RankInv, ~misled', [ElevatorNext]_elevatorVars
  PROVE  RankInv'
  <1>1. CASE main
    BY <1>1, RankMain
  <1>2. CASE firstThread
    BY <1>2, RankFirst
  <1>3. CASE elevatorStep
    BY <1>3, RankElevator
  <1>4. CASE riderStep
    BY <1>4, RankRider
  <1>5. CASE ThreadSystem \/ UNCHANGED elevatorVars
    BY <1>5, RankSystem
  <1> QED
    BY <1>1, <1>2, <1>3, <1>4, <1>5, NoStray DEF ElevatorNext, ThreadSystem

\* ... so it always holds, until then.
LEMMA RanksAlways == ElevatorSpec => [](misled \/ RankInv)
  <1>1. ElevatorInit => misled \/ RankInv
    BY RankStarts
  <1>2. (misled \/ RankInv) /\ (misled \/ (ElevatorInv /\ MoveInv /\ RestInv))
          /\ [ElevatorNext]_elevatorVars
        => (misled \/ RankInv)'
    BY RankSteps, MisledStays
  <1> QED
    BY <1>1, <1>2, MovesAlways, PTL DEF ElevatorSpec

\* One rank rides at a time, unless a slice has ended between what the elevator saw
\* and its signal, or the elevator began with a rider's function.
THEOREM ElevatorRanks == ElevatorSpec => [](misled \/ RankRespected)
  <1>1. RankInv => RankRespected
    BY DEF RankInv, NoStale, AloneInv, RankRespected
  <1> QED
    BY <1>1, RanksAlways, PTL

\* No more ride than there are places, unless a slice has ended there or the elevator
\* began with a rider's function.
THEOREM ElevatorCapacity == ElevatorSpec => [](misled \/ Capacity)
  <1>1. RankInv => Capacity
    BY DEF RankInv, NoStale, RoomInv, Capacity
  <1> QED
    BY <1>1, RanksAlways, PTL
=============================================================================
