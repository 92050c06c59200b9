---------------------------- MODULE BridgeProofs ----------------------------
(***************************************************************************)
(* The bridge programs keep their cars apart, for any number of cars in    *)
(* any order, any number of signals in a broadcast and any number of       *)
(* slices that end.                                                        *)
(*                                                                         *)
(* The lock does not exclude two threads from its section (finding 4), so  *)
(* no argument goes through it: what counts is that the statements between *)
(* the lock and the first t_sig cannot be interrupted.  CarInv says that   *)
(* the counters of the program count the threads at certain labels, and    *)
(* LabelInv who can be at which label.  A thread that is woken goes on     *)
(* where it called t_wait, so LabelInv speaks of contexts as well.         *)
(*                                                                         *)
(* A thread that begins with the function of another makes the counters    *)
(* false, so they are true as long as that has not happened (BridgeAlways, *)
(* the history variable misled), and in TEST3C those that Depart lowers    *)
(* with the timer enabled are true until a decrement overwrites another    *)
(* change (torn).  Types and the queues of the condition need neither      *)
(* (TypesAlways, MonAlways).                                               *)
(***************************************************************************)
EXTENDS Bridge, MonitorProofs

Functions == {"none", "funcA", "Arrive", "Depart"}

\* the labels of Arrive alone, and those of Depart alone
ArriveLabels == {"nudge", "unlock", "park", "waiting", "reacquire", "retake",
                 "woken", "fork"}
DepartLabels == {"signal", "uncount", "store", "copy"}
UncountLabels == {"uncount", "store", "copy"}
Labels == ArriveLabels \cup DepartLabels
            \cup {"forks", "acquire", "take", "inside", "leave", "end"}

\* The thread of a car that is on the bridge: between the critical section of
\* Arrive and that of Depart.
OnBridge(t) ==
  \/ func[t] = "Arrive" /\ at[t] \in {"leave", "fork"}
  \/ func[t] = "Depart" /\ at[t] \in {"acquire", "take", "inside"}

\* The thread of a car that num_cars_of counts in TEST3C: from its first critical
\* section to the store in Depart that takes it off.
Counted(t) ==
  \/ func[t] = "Arrive" /\ at[t] \in ArriveLabels \cup {"leave"}
  \/ /\ func[t] = "Depart"
     /\ at[t] \in (DepartLabels \ {"copy"}) \cup {"acquire", "take", "inside"}

BridgeCars(d)  == {t \in Threads : OnBridge(t) /\ dirOf[t] = d}
CountedCars(d) == {t \in Threads : Counted(t) /\ dirOf[t] = d}

LabelsTyped ==
  /\ program \in Programs
  /\ ticksLeft \in Nat
  /\ carsForked \in 0 .. Len(program.cars)
  /\ func \in [Threads -> Functions]
  /\ dirOf \in [Threads -> Ends \cup {"open"}]
  /\ at \in [Threads -> Labels]
  /\ sigs \in [Threads -> 0 .. program.signals]
  /\ caught \subseteq Threads

\* Where t can be in its function.
Placed(t) ==
  /\ ~Born(t) => at[t] = "end"
  /\ at[t] \in ArriveLabels => func[t] = "Arrive"
  /\ at[t] \in DepartLabels => func[t] = "Depart"
  /\ func[t] \in {"Arrive", "Depart"} => dirOf[t] \in Ends
  /\ at[t] = "signal" => sigs[t] >= 1
  /\ at[t] \in UncountLabels => program.batches
  /\ context[t] = "t_wait" => at[t] = "waiting" \/ Awake(t)

LabelInv == LabelsTyped /\ \A t \in Threads : Placed(t)

CarsTyped ==
  /\ num_cars \in Int
  /\ cur_dir \in Ends \cup {"open"}
  /\ num_cars_of \in [Ends -> Int]
  /\ inFlight \in Nat /\ toggleDir \in {0, 1} /\ firstTime \in {0, 1}
  /\ loaded \in [Threads -> Int]
  /\ crossing \in [Ends -> Nat]

Together == crossing["north"] + crossing["south"]

\* The cars on the bridge go in the current direction.
Directed == \A d \in Ends : crossing[d] > 0 => cur_dir = d

\* num_cars_north and num_cars_south count the cars of TEST3C, as they do until a
\* decrement overwrites what another thread counted.
CountsTrue ==
  /\ Directed
  /\ \A d \in Ends : num_cars_of[d] = Cardinality(CountedCars(d))
  /\ firstTime = 0 => \A d \in Ends : num_cars_of[d] = 0

\* The counters count, the cars on the bridge go in the current direction, and
\* the third car of a batch closes it.
CarInv ==
  /\ CarsTyped
  /\ \A d \in Ends : crossing[d] = Cardinality(BridgeCars(d))
  /\ ~program.batches => num_cars = Together /\ Directed
  /\ program.batches =>
       /\ inFlight = Together
       /\ inFlight >= 3 => toggleDir = 1
       /\ ~torn => CountsTrue

\* The inductive invariant, as long as each thread runs its own function.
BridgeInv == MonInv /\ LabelInv /\ CarInv

-----------------------------------------------------------------------------
(* Sets of cars. *)

LEMMA CarSets ==
  ASSUME NEW S \in SUBSET Threads, NEW x \in Threads
  PROVE  /\ Cardinality(S) \in Nat
         /\ x \in S => Cardinality(S) >= 1 /\ Cardinality(S \ {x}) = Cardinality(S) - 1
         /\ x \notin S => Cardinality(S \cup {x}) = Cardinality(S) + 1
  <1>1. IsFiniteSet(Threads)
    BY KernelAssumption, FS_Interval DEF Threads
  <1>2. IsFiniteSet(S) /\ IsFiniteSet(S \ {x})
    BY <1>1, FS_Subset
  <1>3. /\ Cardinality(S) \in Nat
        /\ x \in S => Cardinality(S \ {x}) = Cardinality(S) - 1
        /\ Cardinality(S \ {x}) \in Nat
    BY <1>2, FS_CardinalityType, FS_RemoveElement
  <1>4. x \notin S => Cardinality(S \cup {x}) = Cardinality(S) + 1
    BY <1>2, FS_AddElement
  <1> QED
    BY <1>3, <1>4

\* The same threads at the labels that count.
LEMMA CarsKept ==
  ASSUME CarInv,
         UNCHANGED <<cur_dir, num_cars_of, inFlight, toggleDir, firstTime, crossing,
                     torn, program>>,
         num_cars' = num_cars \/ (program.batches /\ num_cars' \in Int),
         loaded' \in [Threads -> Int],
         \A t \in Threads :
           /\ OnBridge(t)' <=> OnBridge(t)
           /\ program.batches => (Counted(t)' <=> Counted(t))
           /\ Counted(t) => dirOf'[t] = dirOf[t]
  PROVE  CarInv'
  <1>1. \A t \in Threads : OnBridge(t) => Counted(t)
    BY DEF OnBridge, Counted, ArriveLabels
  <1>2. \A d \in Ends : BridgeCars(d)' = BridgeCars(d)
    BY <1>1 DEF BridgeCars
  <1>3. program.batches => \A d \in Ends : CountedCars(d)' = CountedCars(d)
    BY DEF CountedCars
  <1>4. CarsTyped'
    BY DEF CarInv, CarsTyped
  <1>5. /\ Together' = Together
        /\ Directed' <=> Directed
        /\ \A d \in Ends : crossing'[d] = Cardinality(BridgeCars(d)')
    BY <1>2 DEF CarInv, Together, Directed
  <1>6. program.batches /\ CountsTrue => CountsTrue'
    BY <1>3, <1>5 DEF CountsTrue
  <1> QED
    BY <1>4, <1>5, <1>6 DEF CarInv

LEMMA CarsStay ==
  ASSUME CarInv, UNCHANGED <<carVars, program>>,
         \A t \in Threads :
           /\ OnBridge(t)' <=> OnBridge(t)
           /\ program.batches => (Counted(t)' <=> Counted(t))
           /\ Counted(t) => dirOf'[t] = dirOf[t]
  PROVE  CarInv'
  <1>1. /\ UNCHANGED <<cur_dir, num_cars_of, inFlight, toggleDir, firstTime, crossing,
                       torn, program>>
        /\ UNCHANGED num_cars /\ UNCHANGED loaded
    BY DEF carVars
  <1>2. loaded' \in [Threads -> Int]
    BY <1>1 DEF CarInv, CarsTyped
  <1> QED
    BY <1>1, <1>2, CarsKept

\* One thread goes to another label.
LEMMA CarsMove ==
  ASSUME CarInv, LabelInv, NEW t \in Threads, NEW l,
         at' = [at EXCEPT ![t] = l], UNCHANGED <<func, dirOf>>,
         dirOf[t] \in Ends
  PROVE  /\ \A e \in Ends : e # dirOf[t] =>
              /\ Cardinality(BridgeCars(e))' = Cardinality(BridgeCars(e))
              /\ Cardinality(CountedCars(e))' = Cardinality(CountedCars(e))
         /\ LET b == Cardinality(BridgeCars(dirOf[t]))
                c == Cardinality(BridgeCars(dirOf[t]))'
            IN  /\ ~OnBridge(t) /\ OnBridge(t)' => c = b + 1
                /\ OnBridge(t) /\ ~OnBridge(t)' => c = b - 1 /\ b >= 1
                /\ (OnBridge(t) <=> OnBridge(t)') => c = b
                /\ b \in Nat
         /\ LET b == Cardinality(CountedCars(dirOf[t]))
                c == Cardinality(CountedCars(dirOf[t]))'
            IN  /\ ~Counted(t) /\ Counted(t)' => c = b + 1
                /\ Counted(t) /\ ~Counted(t)' => c = b - 1
                /\ Counted(t) => b >= 1
                /\ (Counted(t) <=> Counted(t)') => c = b
                /\ b \in Nat
  <1> DEFINE d == dirOf[t]
  <1>1. \A u \in Threads : u # t => /\ OnBridge(u)' <=> OnBridge(u)
                                    /\ Counted(u)' <=> Counted(u)
    BY DEF OnBridge, Counted, LabelInv, LabelsTyped
  <1>2. \A e \in Ends : e # d => /\ BridgeCars(e)' = BridgeCars(e)
                                 /\ CountedCars(e)' = CountedCars(e)
    <2> SUFFICES ASSUME NEW e \in Ends, e # d
                 PROVE  /\ BridgeCars(e)' = BridgeCars(e)
                        /\ CountedCars(e)' = CountedCars(e)
      OBVIOUS
    <2> QED
      BY <1>1 DEF BridgeCars, CountedCars
  <1> DEFINE B == BridgeCars(d)
             C == CountedCars(d)
  <1>3. /\ B \in SUBSET Threads /\ C \in SUBSET Threads
        /\ t \in B <=> OnBridge(t)
        /\ t \in C <=> Counted(t)
    BY DEF BridgeCars, CountedCars
  <1>4. /\ OnBridge(t)' => {u \in Threads : OnBridge(u)' /\ dirOf'[u] = d} = B \cup {t}
        /\ ~OnBridge(t)' => {u \in Threads : OnBridge(u)' /\ dirOf'[u] = d} = B \ {t}
        /\ Counted(t)' => {u \in Threads : Counted(u)' /\ dirOf'[u] = d} = C \cup {t}
        /\ ~Counted(t)' => {u \in Threads : Counted(u)' /\ dirOf'[u] = d} = C \ {t}
    <2>1. OnBridge(t)' => {u \in Threads : OnBridge(u)' /\ dirOf'[u] = d} = B \cup {t}
      BY <1>1 DEF BridgeCars
    <2>2. ~OnBridge(t)' => {u \in Threads : OnBridge(u)' /\ dirOf'[u] = d} = B \ {t}
      BY <1>1 DEF BridgeCars
    <2>3. Counted(t)' => {u \in Threads : Counted(u)' /\ dirOf'[u] = d} = C \cup {t}
      BY <1>1 DEF CountedCars
    <2>4. ~Counted(t)' => {u \in Threads : Counted(u)' /\ dirOf'[u] = d} = C \ {t}
      BY <1>1 DEF CountedCars
    <2> QED
      BY <2>1, <2>2, <2>3, <2>4
  <1>5. /\ BridgeCars(d)' = {u \in Threads : OnBridge(u)' /\ dirOf'[u] = d}
        /\ CountedCars(d)' = {u \in Threads : Counted(u)' /\ dirOf'[u] = d}
    BY DEF BridgeCars, CountedCars
  <1> HIDE DEF B, C
  <1>6. /\ OnBridge(t)' => BridgeCars(d)' = B \cup {t}
        /\ ~OnBridge(t)' => BridgeCars(d)' = B \ {t}
        /\ Counted(t)' => CountedCars(d)' = C \cup {t}
        /\ ~Counted(t)' => CountedCars(d)' = C \ {t}
    BY <1>4, <1>5
  <1>7. /\ Cardinality(B) \in Nat
        /\ t \in B => Cardinality(B) >= 1 /\ Cardinality(B \ {t}) = Cardinality(B) - 1
        /\ t \notin B => Cardinality(B \cup {t}) = Cardinality(B) + 1
    BY <1>3, CarSets
  <1>8. /\ Cardinality(C) \in Nat
        /\ t \in C => Cardinality(C) >= 1 /\ Cardinality(C \ {t}) = Cardinality(C) - 1
        /\ t \notin C => Cardinality(C \cup {t}) = Cardinality(C) + 1
    BY <1>3, CarSets
  <1>s. /\ t \in B => B \cup {t} = B
        /\ t \notin B => B \ {t} = B
        /\ t \in C => C \cup {t} = C
        /\ t \notin C => C \ {t} = C
    OBVIOUS
  <1>9. /\ ~OnBridge(t) /\ OnBridge(t)' => Cardinality(BridgeCars(d)') = Cardinality(B) + 1
        /\ OnBridge(t) /\ ~OnBridge(t)' => /\ Cardinality(BridgeCars(d)') = Cardinality(B) - 1
                                           /\ Cardinality(B) >= 1
        /\ (OnBridge(t) <=> OnBridge(t)') => Cardinality(BridgeCars(d)') = Cardinality(B)
    <2>1. ASSUME ~OnBridge(t), OnBridge(t)' PROVE Cardinality(BridgeCars(d)') = Cardinality(B) + 1
      BY <1>3, <1>6, <1>7, <2>1, Zenon
    <2>2. ASSUME OnBridge(t), ~OnBridge(t)'
          PROVE  /\ Cardinality(BridgeCars(d)') = Cardinality(B) - 1
                 /\ Cardinality(B) >= 1
      BY <1>3, <1>6, <1>7, <2>2, Zenon
    <2>3. ASSUME OnBridge(t) <=> OnBridge(t)' PROVE BridgeCars(d)' = B
      BY <1>3, <1>6, <1>s, <2>3, Zenon
    <2> QED
      BY <2>1, <2>2, <2>3, Zenon
  <1>10. /\ ~Counted(t) /\ Counted(t)' => Cardinality(CountedCars(d)') = Cardinality(C) + 1
         /\ Counted(t) /\ ~Counted(t)' => Cardinality(CountedCars(d)') = Cardinality(C) - 1
         /\ Counted(t) => Cardinality(C) >= 1
         /\ (Counted(t) <=> Counted(t)') => Cardinality(CountedCars(d)') = Cardinality(C)
    <2>1. ASSUME ~Counted(t), Counted(t)' PROVE Cardinality(CountedCars(d)') = Cardinality(C) + 1
      BY <1>3, <1>6, <1>8, <2>1, Zenon
    <2>2. ASSUME Counted(t), ~Counted(t)' PROVE Cardinality(CountedCars(d)') = Cardinality(C) - 1
      BY <1>3, <1>6, <1>8, <2>2, Zenon
    <2>3. ASSUME Counted(t) <=> Counted(t)' PROVE CountedCars(d)' = C
      BY <1>3, <1>6, <1>s, <2>3, Zenon
    <2>4. Counted(t) => Cardinality(C) >= 1
      BY <1>3, <1>8, Zenon
    <2> QED
      BY <2>1, <2>2, <2>3, <2>4, Zenon
  <1> QED
    BY <1>2, <1>7, <1>8, <1>9, <1>10 DEF B, C

-----------------------------------------------------------------------------
(* Labels. *)

LEMMA RunningLabel ==
  ASSUME MonInv, InBody
  PROVE  me \in Threads /\ Born(me) /\ Awake(me) /\ ~Parked(me)
  BY MonCaller DEF InBody, Awake, me

\* The running thread goes to label l.
LEMMA LabelsMove ==
  ASSUME LabelInv, NEW l \in Labels, me \in Threads, Goes(l),
         UNCHANGED <<program, ticksLeft, carsForked, func, dirOf, gThreadID, caught>>,
         sigs' \in [Threads -> 0 .. program.signals],
         \A t \in Threads : t # me =>
           /\ sigs'[t] = sigs[t]
           /\ context'[t] = "t_wait" => context[t] = "t_wait" /\ (Awake(t) => Awake(t)'),
         Born(me),
         l \in ArriveLabels => func[me] = "Arrive",
         l \in DepartLabels => func[me] = "Depart",
         l = "signal" => sigs'[me] >= 1,
         l \in UncountLabels => program.batches,
         l = "waiting" \/ \A t \in Threads : t = me => Awake(t)'
  PROVE  LabelInv'
  <1>1. LabelsTyped' /\ \A t \in Threads : at'[t] = IF t = me THEN l ELSE at[t]
    BY DEF LabelInv, LabelsTyped, Goes
  <1>2. ASSUME NEW t \in Threads, t # me
        PROVE  Placed(t)'
    BY <1>1, <1>2 DEF LabelInv, Placed, Born
  <1>3. ASSUME NEW t \in Threads, t = me
        PROVE  Placed(t)'
    <2>1. at'[t] = l /\ Born(t)
      BY <1>1, <1>3
    <2>2. func[t] \in {"Arrive", "Depart"} => dirOf[t] \in Ends
      BY DEF LabelInv, Placed
    <2>3. l = "waiting" \/ Awake(t)'
      BY <1>3
    <2> QED
      BY <1>3, <2>1, <2>2, <2>3 DEF Placed, Born
  <1> QED
    BY <1>1, <1>2, <1>3 DEF LabelInv

\* The thread system and the timer move nobody in his function.
LEMMA LabelsSystem ==
  ASSUME LabelInv, TypeOK, PlaceInv, [KernelNext]_kernelVars,
         UNCHANGED <<program, carsForked, func, dirOf, sigs, at>>,
         ticksLeft' \in Nat, caught' \subseteq Threads
  PROVE  LabelInv'
  <1>2. LabelsTyped'
    BY DEF LabelInv, LabelsTyped
  <1>3. ASSUME NEW t \in Threads
        PROVE  Placed(t)'
    <2>1. ~Born(t)' => ~Born(t)
      BY GThreadGrows DEF Born, Threads
    <2>2. context'[t] = "t_wait" => context[t] = "t_wait" /\ (Awake(t) => Awake(t)')
      BY WaitContext
    <2> QED
      BY <2>1, <2>2 DEF LabelInv, Placed
  <1> QED
    BY <1>2, <1>3 DEF LabelInv

\* A new thread begins at "acquire", and the running one goes on at l.
LEMMA LabelsFork ==
  ASSUME LabelInv, MonInv, NEW f \in {"Arrive", "Depart"}, NEW d \in Ends,
         NEW l \in {"forks", "end"}, Forks(f, d, l),
         carsForked' \in 0 .. Len(program.cars)
  PROVE  /\ LabelInv'
         /\ LET new == gThreadID + 1
            IN  /\ new \in Threads /\ at[new] = "end" /\ me \in Threads /\ me # new
                /\ func' = [func EXCEPT ![new] = f]
                /\ dirOf' = [dirOf EXCEPT ![new] = d]
                /\ at' = [at EXCEPT ![me] = l, ![new] = "acquire"]
  <1> DEFINE new == gThreadID + 1
  <1>1. /\ t_fork(0) /\ NewTcb(0) /\ InBody /\ 0 \in Levels
        /\ UNCHANGED <<program, ticksLeft, sigs, caught>>
    BY KernelAssumption DEF Forks, t_fork, Levels
  <1>2. /\ new \in Threads /\ ~Born(new) /\ context[new] = "none"
        /\ \A t \in Threads : Born(t)' <=> Born(t) \/ t = new
        /\ gThreadID' = new
    BY <1>1, NewPlace DEF MonInv, NewTcb
  <1>3. me \in Threads /\ Born(me) /\ me # new
    BY <1>1, <1>2, RunningLabel
  <1>4. /\ func' = [func EXCEPT ![new] = f]
        /\ dirOf' = [dirOf EXCEPT ![new] = d]
        /\ at' = [at EXCEPT ![me] = l, ![new] = "acquire"]
    BY <1>2 DEF Forks
  <1>5. at[new] = "end"
    BY <1>2 DEF LabelInv, Placed
  <1> HIDE DEF new
  <1>6. /\ \A t \in Threads : t # new => func'[t] = func[t] /\ dirOf'[t] = dirOf[t]
        /\ func'[new] = f /\ dirOf'[new] = d /\ at'[new] = "acquire" /\ at'[me] = l
        /\ \A t \in Threads : t # new /\ t # me => at'[t] = at[t]
    BY <1>2, <1>3, <1>4 DEF LabelInv, LabelsTyped
  <1>7. LabelsTyped'
    BY <1>1, <1>2, <1>3, <1>4 DEF LabelInv, LabelsTyped, Functions, Labels
  <1>8. \A t \in Threads :
          context'[t] = "t_wait" => context[t] = "t_wait" /\ (Awake(t) => Awake(t)')
    BY <1>1, WaitContext DEF MonInv, KernelNext
  <1>9. ASSUME NEW t \in Threads
        PROVE  Placed(t)'
    <2>1. CASE t = new
      BY <1>2, <1>6, <1>8, <2>1 DEF Placed, ArriveLabels, DepartLabels, UncountLabels
    <2>2. CASE t = me
      <3>1. context'[t] = "t_wait" => Awake(t)'
        BY <1>1, <1>8, <2>2, RunningLabel
      <3> QED
        BY <1>1, <1>2, <1>3, <1>6, <2>2, <3>1
        DEF LabelInv, Placed, ArriveLabels, DepartLabels, UncountLabels
    <2>3. CASE t # new /\ t # me
      BY <1>1, <1>2, <1>6, <1>8, <2>3 DEF LabelInv, Placed
    <2> QED
      BY <2>1, <2>2, <2>3
  <1> QED
    BY <1>2, <1>3, <1>4, <1>5, <1>7, <1>9 DEF LabelInv, new

\* A call from a user function that returns to it.
LEMMA LabelsCall ==
  ASSUME LabelInv, MonInv, InBody, NEW l \in Labels, Goes(l),
         UNCHANGED <<currentRunningThread, gThreadID, context, cpu, pc>>,
         UNCHANGED <<program, ticksLeft, carsForked, func, dirOf, caught>>,
         sigs' \in [Threads -> 0 .. program.signals],
         \A t \in Threads : t # me => sigs'[t] = sigs[t],
         l \in ArriveLabels => func[me] = "Arrive",
         l \in DepartLabels => func[me] = "Depart",
         l = "signal" => sigs'[me] >= 1,
         l \in UncountLabels => program.batches
  PROVE  LabelInv'
  <1>1. me \in Threads /\ Born(me) /\ Awake(me)
    BY RunningLabel
  <1>2. \A t \in Threads : Awake(t) => Awake(t)'
    BY DEF Awake
  <1> QED
    BY <1>1, <1>2, LabelsMove

\* The running thread goes to a label that counts like the last.
LEMMA SameCars ==
  ASSUME LabelInv, me \in Threads, NEW l \in Labels, Goes(l),
         UNCHANGED <<func, dirOf, program>>,
         func[me] = "Arrive" =>
           /\ at[me] \in {"leave", "fork"} <=> l \in {"leave", "fork"}
           /\ at[me] \in ArriveLabels \cup {"leave"} <=> l \in ArriveLabels \cup {"leave"},
         func[me] = "Depart" =>
           /\ at[me] \in {"acquire", "take", "inside"} <=> l \in {"acquire", "take", "inside"}
           /\ program.batches => (at[me] \in DepartLabels \ {"copy"}
                                    <=> l \in DepartLabels \ {"copy"})
  PROVE  \A t \in Threads :
           /\ OnBridge(t)' <=> OnBridge(t)
           /\ program.batches => (Counted(t)' <=> Counted(t))
           /\ Counted(t) => dirOf'[t] = dirOf[t]
  <1>1. \A t \in Threads : at'[t] = IF t = me THEN l ELSE at[t]
    BY DEF LabelInv, LabelsTyped, Goes
  <1>2. \A t \in Threads : OnBridge(t)' <=> OnBridge(t)
    BY <1>1 DEF OnBridge
  <1>3. program.batches => \A t \in Threads : Counted(t)' <=> Counted(t)
    <2> SUFFICES ASSUME program.batches, NEW t \in Threads
                 PROVE  Counted(t)' <=> Counted(t)
      OBVIOUS
    <2>1. CASE t # me
      BY <1>1, <2>1 DEF Counted
    <2>2. CASE t = me
      BY <1>1, <2>2 DEF Counted
    <2> QED
      BY <2>1, <2>2
  <1> QED
    BY <1>2, <1>3

LEMMA CarsQuiet ==
  ASSUME CarInv, LabelInv, me \in Threads, NEW l \in Labels, Goes(l),
         UNCHANGED <<func, dirOf, carVars, program>>,
         func[me] = "Arrive" =>
           /\ at[me] \in {"leave", "fork"} <=> l \in {"leave", "fork"}
           /\ at[me] \in ArriveLabels \cup {"leave"} <=> l \in ArriveLabels \cup {"leave"},
         func[me] = "Depart" =>
           /\ at[me] \in {"acquire", "take", "inside"} <=> l \in {"acquire", "take", "inside"}
           /\ program.batches => (at[me] \in DepartLabels \ {"copy"}
                                    <=> l \in DepartLabels \ {"copy"})
  PROVE  CarInv'
  BY SameCars, CarsStay

-----------------------------------------------------------------------------
(* Library calls and statements that leave the counters alone. *)

LEMMA KeptByLock ==
  ASSUME BridgeInv, acquires \/ takes \/ leaves \/ unlocks
  PROVE  BridgeInv'
  <1>i. /\ MonInv /\ LabelInv /\ CarInv /\ my_lock \in Locks
        /\ sigs \in [Threads -> 0 .. program.signals]
    BY BridgeAssumption DEF BridgeInv, LabelInv, LabelsTyped
  <1>1. PICK l \in Labels :
          /\ InBody /\ Goes(l)
          /\ UNCHANGED <<program, ticksLeft, threadVars, carVars, caught>>
          /\ \/ at[me] = "acquire" /\ l = "take"
             \/ at[me] = "reacquire" /\ l = "retake"
             \/ at[me] = "take" /\ l = "inside"
             \/ at[me] = "retake" /\ l = "woken"
             \/ at[me] = "leave" /\ l = IF func[me] = "Arrive" THEN "fork" ELSE "end"
             \/ at[me] = "unlock" /\ l = "park"
    BY DEF acquires, takes, leaves, unlocks, Only, At, Labels, ArriveLabels
  <1>2. /\ MonInv'
        /\ UNCHANGED <<currentRunningThread, gThreadID, context, cpu, pc>>
    <2>1. CASE takes \/ leaves \/ unlocks
      BY <1>i, <2>1, MonLock DEF takes, leaves, unlocks, Only
    <2>2. CASE acquires
      <3>1. UNCHANGED <<kernelVars, monitorVars>>
        BY <2>2 DEF acquires, Only, Nothing
      <3> QED
        BY <1>i, <3>1, MonKernel DEF kernelVars, joinVars
    <2> QED
      BY <2>1, <2>2
  <1>3. /\ me \in Threads
        /\ at[me] \in ArriveLabels => func[me] = "Arrive"
        /\ UNCHANGED <<carsForked, func, dirOf, sigs>>
    BY <1>i, <1>1, RunningLabel DEF LabelInv, Placed, threadVars
  <1>4. /\ l \in ArriveLabels => func[me] = "Arrive"
        /\ l \notin DepartLabels
    BY <1>1, <1>3 DEF ArriveLabels, DepartLabels
  <1>5. LabelInv'
    BY <1>i, <1>1, <1>2, <1>3, <1>4, LabelsCall DEF DepartLabels, UncountLabels
  <1>6. CarInv'
    BY <1>i, <1>1, <1>3, CarsQuiet DEF ArriveLabels, DepartLabels
  <1> QED
    BY <1>2, <1>5, <1>6 DEF BridgeInv

LEMMA KeptBySignal ==
  ASSUME BridgeInv, nudges \/ signals
  PROVE  BridgeInv'
  <1>i. /\ MonInv /\ LabelInv /\ CarInv /\ my_lock \in Locks /\ cond \in Conds
        /\ sigs \in [Threads -> 0 .. program.signals] /\ program.signals \in Nat
    BY BridgeAssumption DEF BridgeInv, LabelInv, LabelsTyped
  <1>1. /\ InBody /\ t_sig(cond, my_lock)
        /\ UNCHANGED <<program, ticksLeft, carsForked, func, dirOf, carVars, caught>>
    BY DEF nudges, signals, Only, At, threadVars
  <1>2. /\ MonInv'
        /\ UNCHANGED <<currentRunningThread, gThreadID, context, cpu, pc>>
    BY <1>i, <1>1, MonSig
  <1>3. /\ me \in Threads
        /\ at[me] \in ArriveLabels => func[me] = "Arrive"
        /\ at[me] \in DepartLabels => func[me] = "Depart"
        /\ at[me] = "signal" => sigs[me] >= 1
    BY <1>i, <1>1, RunningLabel DEF LabelInv, Placed
  <1>4. CASE nudges
    <2>1. at[me] = "nudge" /\ Goes("unlock") /\ UNCHANGED sigs
      BY <1>4 DEF nudges, At, Only, threadVars
    <2>2. func[me] = "Arrive" /\ "unlock" \in Labels
      BY <1>3, <2>1 DEF ArriveLabels, Labels
    <2>3. LabelInv'
      BY <1>i, <1>1, <1>2, <2>1, <2>2, LabelsCall DEF DepartLabels, UncountLabels
    <2>4. CarInv'
      BY <1>i, <1>1, <1>3, <2>1, <2>2, CarsQuiet DEF ArriveLabels
    <2> QED
      BY <1>2, <2>3, <2>4 DEF BridgeInv
  <1>5. CASE signals
    <2>1. /\ at[me] = "signal" /\ sigs' = [sigs EXCEPT ![me] = @ - 1]
          /\ Goes(IF sigs[me] > 1 THEN "signal"
                  ELSE IF program.batches THEN "uncount" ELSE "leave")
      BY <1>5 DEF signals, At
    <2>2. PICK l \in Labels :
            /\ Goes(l)
            /\ \/ l = "signal" /\ sigs[me] > 1
               \/ l = "uncount" /\ program.batches
               \/ l = "leave" /\ ~program.batches
      BY <2>1 DEF Labels, DepartLabels
    <2>3. func[me] = "Depart" /\ sigs[me] >= 1
      BY <1>3, <2>1 DEF DepartLabels
    <2>4. /\ sigs' \in [Threads -> 0 .. program.signals]
          /\ \A t \in Threads : t # me => sigs'[t] = sigs[t]
          /\ sigs[me] > 1 => sigs'[me] >= 1
      BY <1>i, <1>3, <2>1, <2>3
    <2>5. LabelInv'
      BY <1>i, <1>1, <1>2, <2>2, <2>3, <2>4, LabelsCall
      DEF ArriveLabels, UncountLabels
    <2>6. CarInv'
      BY <1>i, <1>1, <1>3, <2>1, <2>2, <2>3, CarsQuiet DEF DepartLabels
    <2> QED
      BY <1>2, <2>5, <2>6 DEF BridgeInv
  <1> QED
    BY <1>4, <1>5

\* t_wait, and the way out of it.
LEMMA KeptByWait ==
  ASSUME BridgeInv, parks \/ wakes
  PROVE  BridgeInv'
  <1>i. /\ MonInv /\ LabelInv /\ CarInv /\ cond \in Conds
        /\ sigs \in [Threads -> 0 .. program.signals]
    BY BridgeAssumption DEF BridgeInv, LabelInv, LabelsTyped
  <1>1. UNCHANGED <<program, ticksLeft, carsForked, func, dirOf, sigs, carVars, caught>>
    BY DEF parks, wakes, Only, threadVars
  <1>2. CASE parks
    <2>1. InBody /\ at[me] = "park" /\ t_wait(cond) /\ Goes("waiting")
      BY <1>2 DEF parks, At, Only
    <2>2. /\ MonInv'
          /\ cpu = "thread" /\ cpu' = "scheduler"
          /\ context' = [context EXCEPT ![me] = "t_wait"]
          /\ UNCHANGED <<gThreadID, pc>>
      BY <1>i, <2>1, MonWait DEF me
    <2>3. /\ me \in Threads /\ Born(me) /\ func[me] = "Arrive"
          /\ "waiting" \in Labels /\ "waiting" \in ArriveLabels
      BY <1>i, <2>1, RunningLabel DEF LabelInv, Placed, ArriveLabels, Labels
    <2>4. \A t \in Threads : t # me /\ context'[t] = "t_wait" =>
            context[t] = "t_wait" /\ (Awake(t) => Awake(t)')
      BY <1>i, <2>2 DEF MonInv, TypeOK, Awake, me
    <2>5. LabelInv'
      BY <1>i, <1>1, <2>1, <2>2, <2>3, <2>4, LabelsMove
      DEF DepartLabels, UncountLabels
    <2>6. CarInv'
      BY <1>i, <1>1, <2>1, <2>3, CarsQuiet DEF ArriveLabels
    <2> QED
      BY <2>2, <2>5, <2>6 DEF BridgeInv
  <1>3. CASE wakes
    <2>1. PICK l \in {"woken", "reacquire"} : wakesInWait /\ Goes(l)
      BY <1>3 DEF wakes, Only
    <2>2. /\ MonInv'
          /\ me \in Threads /\ pc[me] # "done"
          /\ UNCHANGED <<currentRunningThread, gThreadID, context, pc>>
          /\ cpu = "resume" /\ cpu' = "thread"
      BY <1>i, <2>1, MonWakes DEF me
    <2>3. context[me] = "t_wait" /\ ~Awake(me)
      BY <2>1, <2>2 DEF wakesInWait, Awake, me
    <2>4. at[me] = "waiting" /\ func[me] = "Arrive" /\ Born(me)
      BY <1>i, <2>2, <2>3 DEF LabelInv, Placed, ArriveLabels
    <2>5. l \in Labels /\ l \in ArriveLabels /\ l \notin DepartLabels
      BY DEF Labels, ArriveLabels, DepartLabels
    <2>6. \A t \in Threads : /\ Awake(t) => Awake(t)'
                             /\ t = me => Awake(t)'
      BY <2>2 DEF Awake, me
    <2>7. LabelInv'
      BY <1>i, <1>1, <2>1, <2>2, <2>4, <2>5, <2>6, LabelsMove
      DEF DepartLabels, UncountLabels
    <2>8. CarInv'
      BY <1>i, <1>1, <2>1, <2>2, <2>4, <2>5, CarsQuiet DEF ArriveLabels
    <2> QED
      BY <2>2, <2>7, <2>8 DEF BridgeInv
  <1> QED
    BY <1>2, <1>3

-----------------------------------------------------------------------------
(* The critical sections.                                                    *)

\* A statement of the running thread that calls nothing.
LEMMA LabelsSection ==
  ASSUME BridgeInv, InBody, NEW l \in Labels, Goes(l),
         UNCHANGED <<kernelVars, monitorVars, program, ticksLeft, carsForked, func,
                     dirOf, caught>>,
         sigs' \in [Threads -> 0 .. program.signals],
         \A t \in Threads : t # me => sigs'[t] = sigs[t],
         l \in ArriveLabels => func[me] = "Arrive",
         l \in DepartLabels => func[me] = "Depart",
         l = "signal" => sigs'[me] >= 1,
         l \in UncountLabels => program.batches
  PROVE  MonInv' /\ LabelInv'
  <1>1. MonInv /\ LabelInv
    BY DEF BridgeInv
  <1>2. /\ MonInv'
        /\ UNCHANGED <<currentRunningThread, gThreadID, context, cpu, pc>>
    BY <1>1, MonKernel DEF kernelVars, joinVars
  <1> QED
    BY <1>1, <1>2, LabelsCall

\* Who is in a section, and where in Arrive or Depart.
LEMMA InsideFacts ==
  ASSUME BridgeInv, NEW f \in {"Arrive", "Depart"}, InSection(f)
  PROVE  /\ me \in Threads /\ InBody /\ func[me] = f /\ dirOf[me] \in Ends
         /\ at[me] \in {"inside", "woken"}
         /\ f = "Depart" => at[me] = "inside"
         /\ MonInv /\ LabelInv /\ CarInv
         /\ sigs \in [Threads -> 0 .. program.signals]
         /\ program.signals \in Nat \ {0}
  <1>1. /\ MonInv /\ LabelInv /\ CarInv
        /\ sigs \in [Threads -> 0 .. program.signals]
        /\ program.signals \in Nat \ {0}
    BY BridgeAssumption DEF BridgeInv, LabelInv, LabelsTyped
  <1>2. /\ InBody /\ func[me] = f /\ at[me] \in {"inside", "woken"}
    BY DEF InSection, At
  <1>3. me \in Threads
    BY <1>1, <1>2, RunningLabel
  <1> QED
    BY <1>1, <1>2, <1>3 DEF LabelInv, Placed, ArriveLabels

\* The counter of the cars on the bridge, when one goes on it, when one leaves
\* it, and when the running thread does neither.
LEMMA CrossingUp ==
  ASSUME CarInv, LabelInv, me \in Threads, NEW d \in Ends, dirOf[me] = d,
         NEW l, Goes(l), UNCHANGED <<func, dirOf>>, ~OnBridge(me),
         func[me] = "Arrive", l = "leave",
         crossing' = [crossing EXCEPT ![d] = @ + 1]
  PROVE  /\ crossing' \in [Ends -> Nat]
         /\ \A e \in Ends : crossing'[e] = Cardinality(BridgeCars(e))'
         /\ \A e \in Ends : e # d => crossing'[e] = crossing[e]
         /\ Together \in Nat /\ Together' = Together + 1
  <1>1. PICK t \in Threads : t = me
    OBVIOUS
  <1>2. at' = [at EXCEPT ![t] = l] /\ at'[t] = l
    BY <1>1 DEF Goes, LabelInv, LabelsTyped
  <1>3. OnBridge(t)' /\ ~OnBridge(t)
    BY <1>1, <1>2 DEF OnBridge
  <1>4. /\ \A e \in Ends : e # d =>
             Cardinality(BridgeCars(e))' = Cardinality(BridgeCars(e))
        /\ Cardinality(BridgeCars(d))' = Cardinality(BridgeCars(d)) + 1
    BY <1>1, <1>2, <1>3, CarsMove
  <1>5. /\ crossing \in [Ends -> Nat]
        /\ \A e \in Ends : crossing[e] = Cardinality(BridgeCars(e))
    BY DEF CarInv, CarsTyped
  <1>6. /\ crossing' \in [Ends -> Nat]
        /\ \A e \in Ends : crossing'[e] = IF e = d THEN crossing[e] + 1 ELSE crossing[e]
    BY <1>5
  <1>7. /\ crossing["north"] \in Nat /\ crossing["south"] \in Nat
        /\ d = "north" \/ d = "south"
        /\ "north" \in Ends /\ "south" \in Ends
    BY <1>5 DEF Ends
  <1>8. Together \in Nat /\ Together' = Together + 1
    <2>1. CASE d = "north"
      BY <1>6, <1>7, <2>1 DEF Together
    <2>2. CASE d = "south"
      BY <1>6, <1>7, <2>2 DEF Together
    <2> QED
      BY <1>7, <2>1, <2>2
  <1> QED
    BY <1>4, <1>5, <1>6, <1>8

LEMMA CrossingDown ==
  ASSUME CarInv, LabelInv, me \in Threads, NEW d \in Ends, dirOf[me] = d,
         NEW l, Goes(l), UNCHANGED <<func, dirOf>>, at[me] = "inside",
         func[me] = "Depart", l \in {"signal", "leave"},
         crossing' = [crossing EXCEPT ![d] = @ - 1]
  PROVE  /\ crossing' \in [Ends -> Nat]
         /\ \A e \in Ends : crossing'[e] = Cardinality(BridgeCars(e))'
         /\ \A e \in Ends : e # d => crossing'[e] = crossing[e]
         /\ crossing[d] >= 1 /\ crossing'[d] = crossing[d] - 1
         /\ Together \in Nat \ {0} /\ Together' = Together - 1 /\ Together' \in Nat
         /\ Together' = 0 => \A e \in Ends : crossing'[e] = 0
  <1>1. PICK t \in Threads : t = me
    OBVIOUS
  <1>2. at' = [at EXCEPT ![t] = l] /\ at'[t] = l
    BY <1>1 DEF Goes, LabelInv, LabelsTyped
  <1>3. ~OnBridge(t)' /\ OnBridge(t)
    BY <1>1, <1>2 DEF OnBridge
  <1>4. /\ \A e \in Ends : e # d =>
             Cardinality(BridgeCars(e))' = Cardinality(BridgeCars(e))
        /\ Cardinality(BridgeCars(d))' = Cardinality(BridgeCars(d)) - 1
        /\ Cardinality(BridgeCars(d)) >= 1
    BY <1>1, <1>2, <1>3, CarsMove
  <1>5. /\ crossing \in [Ends -> Nat]
        /\ \A e \in Ends : crossing[e] = Cardinality(BridgeCars(e))
    BY DEF CarInv, CarsTyped
  <1>6. /\ crossing' \in [Ends -> Nat]
        /\ \A e \in Ends : crossing'[e] = IF e = d THEN crossing[e] - 1 ELSE crossing[e]
        /\ crossing[d] >= 1
    <2>1. crossing[d] \in Nat /\ crossing[d] >= 1
      BY <1>4, <1>5
    <2>2. crossing[d] - 1 \in Nat
      BY <2>1
    <2> QED
      BY <1>5, <2>1, <2>2
  <1>7. /\ crossing["north"] \in Nat /\ crossing["south"] \in Nat
        /\ d = "north" \/ d = "south"
        /\ "north" \in Ends /\ "south" \in Ends
    BY <1>5 DEF Ends
  <1>8. /\ Together \in Nat \ {0} /\ Together' = Together - 1 /\ Together' \in Nat
        /\ Together' = 0 => crossing'["north"] = 0 /\ crossing'["south"] = 0
    <2>1. CASE d = "north"
      BY <1>6, <1>7, <2>1 DEF Together
    <2>2. CASE d = "south"
      BY <1>6, <1>7, <2>2 DEF Together
    <2> QED
      BY <1>7, <2>1, <2>2
  <1>9. Together' = 0 => \A e \in Ends : crossing'[e] = 0
    BY <1>8 DEF Ends
  <1> QED
    BY <1>4, <1>5, <1>6, <1>8, <1>9

LEMMA CrossingSame ==
  ASSUME CarInv, LabelInv, me \in Threads, dirOf[me] \in Ends,
         NEW l, Goes(l), UNCHANGED <<func, dirOf, crossing>>, ~OnBridge(me),
         \/ l \in ArriveLabels \ {"fork"}
         \/ func[me] = "Depart" /\ l \in DepartLabels \cup {"leave"}
  PROVE  /\ crossing' \in [Ends -> Nat]
         /\ \A e \in Ends : crossing'[e] = Cardinality(BridgeCars(e))'
         /\ Together \in Nat /\ Together' = Together
  <1>1. PICK t \in Threads : t = me
    OBVIOUS
  <1>2. at' = [at EXCEPT ![t] = l] /\ at'[t] = l
    BY <1>1 DEF Goes, LabelInv, LabelsTyped
  <1>3. ~OnBridge(t)' /\ ~OnBridge(t)
    BY <1>1, <1>2 DEF OnBridge, ArriveLabels, DepartLabels
  <1>4. \A e \in Ends : Cardinality(BridgeCars(e))' = Cardinality(BridgeCars(e))
    <2>1. \A e \in Ends : e # dirOf[t] =>
             Cardinality(BridgeCars(e))' = Cardinality(BridgeCars(e))
      BY <1>1, <1>2, CarsMove
    <2>2. Cardinality(BridgeCars(dirOf[t]))' = Cardinality(BridgeCars(dirOf[t]))
      BY <1>1, <1>2, <1>3, CarsMove
    <2>3. PICK d \in Ends : d = dirOf[t]
      BY <1>1
    <2>4. Cardinality(BridgeCars(d))' = Cardinality(BridgeCars(d))
      <3>1. dirOf'[t] = d
        BY <2>3
      <3> QED
        BY <2>2, <2>3, <3>1
    <2> QED
      BY <2>1, <2>3, <2>4
  <1> QED
    BY <1>4 DEF CarInv, CarsTyped, Together, Ends

\* TEST3A and TEST3B.
LEMMA KeptByArrive == ASSUME BridgeInv, Arrive PROVE BridgeInv'
  <1> DEFINE d == dirOf[me]
  <1>1. /\ ~program.batches /\ InSection("Arrive")
        /\ UNCHANGED <<sigs, num_cars_of, inFlight, toggleDir, firstTime>>
        /\ \/ /\ Blocked(d)
              /\ Goes("unlock")
              /\ UNCHANGED <<num_cars, cur_dir, crossing>>
           \/ /\ ~Blocked(d)
              /\ num_cars' = num_cars + 1
              /\ cur_dir' = d
              /\ crossing' = [crossing EXCEPT ![d] = @ + 1]
              /\ Goes("leave")
    BY DEF Arrive
  <1>2. /\ me \in Threads /\ InBody /\ func[me] = "Arrive" /\ d \in Ends
        /\ at[me] \in {"inside", "woken"}
        /\ MonInv /\ LabelInv /\ CarInv
        /\ sigs \in [Threads -> 0 .. program.signals]
    BY <1>1, InsideFacts
  <1>3. /\ ~OnBridge(me)
        /\ UNCHANGED <<kernelVars, monitorVars, program, ticksLeft, carsForked, func,
                       dirOf, caught, loaded, torn>>
        /\ "unlock" \in Labels \cap ArriveLabels /\ "leave" \in Labels
        /\ "leave" \notin ArriveLabels
        /\ {"unlock", "leave"} \cap (DepartLabels \cup UncountLabels) = {}
    BY <1>1, <1>2 
    DEF InSection, OnBridge, Labels, ArriveLabels, DepartLabels, UncountLabels
  <1>4. CASE Blocked(d) /\ Goes("unlock") /\ UNCHANGED <<num_cars, cur_dir, crossing>>
    <2>1. MonInv' /\ LabelInv'
      BY <1>1, <1>2, <1>3, <1>4, LabelsSection
    <2>2. /\ \A e \in Ends : crossing'[e] = Cardinality(BridgeCars(e))'
          /\ Together' = Together
      BY <1>2, <1>3, <1>4, CrossingSame
    <2>3. CarInv'
      BY <1>1, <1>2, <1>3, <1>4, <2>2 DEF CarInv, CarsTyped, Directed
    <2> QED
      BY <2>1, <2>3 DEF BridgeInv
  <1>5. CASE /\ ~Blocked(d) /\ Goes("leave")
             /\ num_cars' = num_cars + 1 /\ cur_dir' = d
             /\ crossing' = [crossing EXCEPT ![d] = @ + 1]
    <2>1. MonInv' /\ LabelInv'
      BY <1>1, <1>2, <1>3, <1>5, LabelsSection
    <2>2. /\ crossing' \in [Ends -> Nat]
          /\ \A e \in Ends : crossing'[e] = Cardinality(BridgeCars(e))'
          /\ \A e \in Ends : e # d => crossing'[e] = crossing[e]
          /\ Together \in Nat /\ Together' = Together + 1
      BY <1>2, <1>3, <1>5, CrossingUp
    <2>3. \A e \in Ends : e # d => crossing'[e] = 0
      BY <1>1, <1>2, <1>5, <2>2 DEF CarInv, CarsTyped, Directed, Blocked, Ends
    <2>4. CarsTyped' /\ \A e \in Ends : crossing'[e] > 0 => cur_dir' = e
      <3>1. CarsTyped'
        BY <1>1, <1>2, <1>3, <1>5, <2>2 DEF CarInv, CarsTyped
      <3>2. \A e \in Ends : crossing'[e] > 0 => cur_dir' = e
        BY <1>5, <2>2, <2>3
      <3> QED
        BY <3>1, <3>2
    <2>5. num_cars' = Together' /\ ~program'.batches
      BY <1>1, <1>2, <1>3, <1>5, <2>2 DEF CarInv
    <2> HIDE DEF d
    <2>6. CarInv'
      BY <2>2, <2>4, <2>5 DEF CarInv, Directed
    <2> QED
      BY <2>1, <2>6 DEF BridgeInv
  <1> QED
    BY <1>1, <1>4, <1>5

LEMMA KeptByDepart == ASSUME BridgeInv, Depart PROVE BridgeInv'
  <1> DEFINE d == dirOf[me]
  <1>1. /\ ~program.batches /\ InSection("Depart")
        /\ UNCHANGED <<num_cars_of, inFlight, toggleDir, firstTime>>
        /\ num_cars' = num_cars - 1
        /\ crossing' = [crossing EXCEPT ![d] = @ - 1]
        /\ \/ /\ LastCar
              /\ cur_dir' = "open"
              /\ sigs' = [sigs EXCEPT ![me] = program.signals]
              /\ Goes("signal")
           \/ /\ ~LastCar
              /\ Goes("leave")
              /\ UNCHANGED <<cur_dir, sigs>>
    BY DEF Depart
  <1>2. /\ me \in Threads /\ InBody /\ func[me] = "Depart" /\ d \in Ends
        /\ at[me] = "inside"
        /\ MonInv /\ LabelInv /\ CarInv
        /\ sigs \in [Threads -> 0 .. program.signals]
        /\ program.signals \in Nat \ {0}
    BY <1>1, InsideFacts
  <1>3. /\ UNCHANGED <<kernelVars, monitorVars, program, ticksLeft, carsForked, func,
                       dirOf, caught, loaded, torn>>
        /\ "signal" \in Labels \cap DepartLabels /\ "leave" \in Labels
        /\ "leave" \notin DepartLabels
        /\ {"signal", "leave"} \cap (ArriveLabels \cup UncountLabels) = {}
    BY <1>1 DEF InSection, Labels, ArriveLabels, DepartLabels, UncountLabels
  <1>4. PICK l \in {"signal", "leave"} :
          /\ Goes(l)
          /\ sigs' \in [Threads -> 0 .. program.signals]
          /\ \A t \in Threads : t # me => sigs'[t] = sigs[t]
          /\ l = "signal" => /\ sigs'[me] >= 1 /\ LastCar /\ cur_dir' = "open"
          /\ l = "leave" => ~LastCar /\ cur_dir' = cur_dir
    <2>1. CASE LastCar
      <3>1. program.signals \in 0 .. program.signals /\ program.signals >= 1
        BY <1>2
      <3>2. sigs' = [sigs EXCEPT ![me] = program.signals] /\ Goes("signal")
            /\ cur_dir' = "open"
        BY <1>1, <2>1
      <3> QED
        BY <1>2, <2>1, <3>1, <3>2
    <2>2. CASE ~LastCar
      BY <1>1, <1>2, <2>2
    <2> QED
      BY <2>1, <2>2
  <1>5. MonInv' /\ LabelInv'
    BY <1>2, <1>3, <1>4, LabelsSection
  <1>6. /\ crossing' \in [Ends -> Nat]
        /\ \A e \in Ends : crossing'[e] = Cardinality(BridgeCars(e))'
        /\ \A e \in Ends : e # d => crossing'[e] = crossing[e]
        /\ crossing[d] >= 1 /\ crossing'[d] = crossing[d] - 1
        /\ Together \in Nat \ {0} /\ Together' = Together - 1 /\ Together' \in Nat
        /\ Together' = 0 => \A e \in Ends : crossing'[e] = 0
    BY <1>1, <1>2, <1>3, <1>4, CrossingDown
  <1>7. num_cars = Together /\ num_cars' = Together' /\ ~program'.batches
    BY <1>1, <1>2, <1>3, <1>6 DEF CarInv
  <1>8. CarsTyped'
    <2>1. cur_dir' \in Ends \cup {"open"}
      BY <1>2, <1>4 DEF CarInv, CarsTyped
    <2> QED
      BY <1>1, <1>2, <1>3, <1>6, <1>7, <2>1 DEF CarInv, CarsTyped
  <1>9. \A e \in Ends : crossing'[e] > 0 => cur_dir' = e
    <2>1. CASE l = "signal"
      <3>1. num_cars - 1 = 0
        BY <1>4, <2>1 DEF LastCar
      <3> QED
        BY <1>6, <1>7, <3>1
    <2>2. CASE l = "leave"
      <3>1. \A e \in Ends : crossing[e] > 0 => cur_dir = e
        BY <1>1, <1>2 DEF CarInv, Directed
      <3>2. cur_dir' = cur_dir
        BY <1>4, <2>2
      <3>3. crossing[d] > 0
        BY <1>2, <1>6 DEF CarInv, CarsTyped
      <3> QED
        BY <1>2, <1>6, <3>1, <3>2, <3>3
    <2> QED
      BY <2>1, <2>2
  <1> HIDE DEF d
  <1>10. CarInv'
    BY <1>6, <1>7, <1>8, <1>9 DEF CarInv, Directed
  <1> QED
    BY <1>5, <1>10 DEF BridgeInv

-----------------------------------------------------------------------------
(* TEST3C. *)

\* The counter of the cars of each direction, when the running thread is counted
\* for the first time, when it stays counted, and when it no longer is.
LEMMA CountsUp ==
  ASSUME CarInv, LabelInv, program.batches, CountsTrue,
         me \in Threads,
         NEW d \in Ends, dirOf[me] = d,
         NEW l \in {"nudge", "leave"}, Goes(l), UNCHANGED <<func, dirOf>>,
         func[me] = "Arrive", at[me] = "inside",
         num_cars_of' = [num_cars_of EXCEPT ![d] = @ + 1]
  PROVE  \A e \in Ends : num_cars_of'[e] = Cardinality(CountedCars(e))'
  <1>1. PICK t \in Threads : t = me
    OBVIOUS
  <1>2. at' = [at EXCEPT ![t] = l] /\ at'[t] = l
    BY <1>1 DEF Goes, LabelInv, LabelsTyped
  <1>3. Counted(t)' /\ ~Counted(t)
    BY <1>1, <1>2 DEF Counted, ArriveLabels
  <1>4. /\ \A e \in Ends : e # d =>
             Cardinality(CountedCars(e))' = Cardinality(CountedCars(e))
        /\ Cardinality(CountedCars(d))' = Cardinality(CountedCars(d)) + 1
    BY <1>1, <1>2, <1>3, CarsMove
  <1>5. /\ num_cars_of \in [Ends -> Int]
        /\ \A e \in Ends : num_cars_of[e] = Cardinality(CountedCars(e))
    BY DEF CarInv, CarsTyped, CountsTrue
  <1> QED
    BY <1>4, <1>5

LEMMA CountsSame ==
  ASSUME CarInv, LabelInv, program.batches, CountsTrue,
         me \in Threads, dirOf[me] \in Ends,
         NEW l, Goes(l), UNCHANGED <<func, dirOf, num_cars_of>>,
         \/ func[me] = "Arrive" /\ at[me] = "woken" /\ l \in {"nudge", "leave"}
         \/ func[me] = "Depart" /\ at[me] = "inside" /\ l = "signal"
  PROVE  \A e \in Ends : num_cars_of'[e] = Cardinality(CountedCars(e))'
  <1>1. PICK t \in Threads : t = me
    OBVIOUS
  <1>2. at' = [at EXCEPT ![t] = l] /\ at'[t] = l
    BY <1>1 DEF Goes, LabelInv, LabelsTyped
  <1>3. Counted(t)' /\ Counted(t)
    BY <1>1, <1>2 DEF Counted, ArriveLabels, DepartLabels
  <1>4. \A e \in Ends : Cardinality(CountedCars(e))' = Cardinality(CountedCars(e))
    <2>1. \A e \in Ends : e # dirOf[t] =>
             Cardinality(CountedCars(e))' = Cardinality(CountedCars(e))
      BY <1>1, <1>2, CarsMove
    <2>2. Cardinality(CountedCars(dirOf[t]))' = Cardinality(CountedCars(dirOf[t]))
      BY <1>1, <1>2, <1>3, CarsMove
    <2>3. PICK d \in Ends : d = dirOf[t]
      BY <1>1
    <2>4. Cardinality(CountedCars(d))' = Cardinality(CountedCars(d))
      <3>1. dirOf'[t] = d
        BY <2>3
      <3> QED
        BY <2>2, <2>3, <3>1
    <2> QED
      BY <2>1, <2>3, <2>4
  <1> QED
    BY <1>4 DEF CountsTrue

LEMMA CountsDown ==
  ASSUME CarInv, LabelInv, program.batches, CountsTrue,
         me \in Threads,
         NEW d \in Ends, dirOf[me] = d,
         Goes("copy"), UNCHANGED <<func, dirOf>>,
         func[me] = "Depart", at[me] = "store",
         num_cars_of' = [num_cars_of EXCEPT ![d] = @ - 1]
  PROVE  /\ \A e \in Ends : num_cars_of'[e] = Cardinality(CountedCars(e))'
         /\ \A e \in Ends : num_cars_of[e] = 0 => num_cars_of'[e] = 0
  <1>1. PICK t \in Threads : t = me
    OBVIOUS
  <1>2. at' = [at EXCEPT ![t] = "copy"] /\ at'[t] = "copy"
    BY <1>1 DEF Goes, LabelInv, LabelsTyped
  <1>3. ~Counted(t)' /\ Counted(t)
    BY <1>1, <1>2 DEF Counted, DepartLabels
  <1>4. /\ \A e \in Ends : e # d =>
             Cardinality(CountedCars(e))' = Cardinality(CountedCars(e))
        /\ Cardinality(CountedCars(d))' = Cardinality(CountedCars(d)) - 1
        /\ Cardinality(CountedCars(d)) >= 1
    BY <1>1, <1>2, <1>3, CarsMove
  <1>5. /\ num_cars_of \in [Ends -> Int]
        /\ \A e \in Ends : num_cars_of[e] = Cardinality(CountedCars(e))
    BY DEF CarInv, CarsTyped, CountsTrue
  <1>6. num_cars_of[d] \in Nat /\ num_cars_of[d] >= 1
    BY <1>4, <1>5
  <1>7. num_cars_of[d] - 1 \in Nat
    BY <1>6
  <1> QED
    BY <1>4, <1>5, <1>6, <1>7

\* A car on the bridge is counted, and so is one that was woken.
LEMMA CountedFirst ==
  ASSUME CarInv, LabelInv, program.batches, CountsTrue
  PROVE  /\ \A e \in Ends : crossing[e] <= num_cars_of[e]
         /\ \A t \in Threads : \A e \in Ends :
              Counted(t) /\ dirOf[t] = e => num_cars_of[e] >= 1
  <1>1. IsFiniteSet(Threads)
    BY KernelAssumption, FS_Interval DEF Threads
  <1>2. ASSUME NEW e \in Ends
        PROVE  /\ crossing[e] <= num_cars_of[e]
               /\ \A t \in Threads : Counted(t) /\ dirOf[t] = e => num_cars_of[e] >= 1
    <2>1. BridgeCars(e) \subseteq CountedCars(e)
      BY DEF BridgeCars, CountedCars, OnBridge, Counted, ArriveLabels
    <2>2. IsFiniteSet(CountedCars(e)) /\ CountedCars(e) \in SUBSET Threads
      BY <1>1, FS_Subset DEF CountedCars
    <2>3. Cardinality(BridgeCars(e)) <= Cardinality(CountedCars(e))
      BY <2>1, <2>2, FS_Subset
    <2>4. ASSUME NEW t \in Threads, Counted(t), dirOf[t] = e
          PROVE  num_cars_of[e] >= 1
      <3>1. t \in CountedCars(e)
        BY <2>4 DEF CountedCars
      <3>2. Cardinality(CountedCars(e)) >= 1
        BY <2>2, <3>1, CarSets
      <3> QED
        BY <3>2 DEF CarInv, CountsTrue
    <2>5. /\ crossing[e] = Cardinality(BridgeCars(e))
          /\ num_cars_of[e] = Cardinality(CountedCars(e))
      BY DEF CarInv, CountsTrue
    <2> QED
      BY <2>3, <2>4, <2>5
  <1> QED
    BY <1>2

\* A car of direction d goes into the loop of Arrive or on the bridge: what the
\* tests before it must have found.
LEMMA AdmitsKept ==
  ASSUME BridgeInv, InSection("Arrive"), program.batches,
         NEW d \in Ends, dirOf[me] = d, UNCHANGED sigs,
         NEW c \in Ends \cup {"open"}, NEW h \in BOOLEAN, AdmitsOrNudges(d, c, h),
         ~h => inFlight < 3 \/ toggleDir = 1,
         num_cars' \in Int, firstTime' \in {0, 1}, num_cars_of' \in [Ends -> Int],
         ~torn =>
           /\ h => \A e \in Ends : crossing[e] > 0 => c = e
           /\ ~h => \A e \in Ends : crossing[e] > 0 => d = e
           /\ firstTime' = 1
           /\ \A l \in {"nudge", "leave"} : Goes(l) =>
                \A e \in Ends : num_cars_of'[e] = Cardinality(CountedCars(e))'
  PROVE  BridgeInv'
  <1>1. /\ me \in Threads /\ InBody /\ func[me] = "Arrive"
        /\ at[me] \in {"inside", "woken"}
        /\ MonInv /\ LabelInv /\ CarInv
        /\ sigs \in [Threads -> 0 .. program.signals]
    BY InsideFacts
  <1>2. /\ ~OnBridge(me)
        /\ UNCHANGED <<kernelVars, monitorVars, program, ticksLeft, carsForked, func,
                       dirOf, caught, loaded, torn>>
        /\ "nudge" \in Labels \cap ArriveLabels /\ "leave" \in Labels
        /\ "nudge" # "fork" /\ "leave" \notin ArriveLabels
        /\ {"nudge", "leave"} \cap (DepartLabels \cup UncountLabels) = {}
    BY <1>1
    DEF InSection, OnBridge, Labels, ArriveLabels, DepartLabels, UncountLabels
  <1>3. /\ inFlight = Together /\ inFlight \in Nat /\ toggleDir \in {0, 1}
        /\ inFlight >= 3 => toggleDir = 1
        /\ loaded \in [Threads -> Int]
    BY <1>1 DEF CarInv, CarsTyped
  <1>4. CASE h
    <2>1. cur_dir' = c /\ Goes("nudge") /\ UNCHANGED <<inFlight, toggleDir, crossing>>
      BY <1>4 DEF AdmitsOrNudges
    <2>2. MonInv' /\ LabelInv'
      BY <1>1, <1>2, <2>1, LabelsSection
    <2>3. /\ crossing' \in [Ends -> Nat]
          /\ \A e \in Ends : crossing'[e] = Cardinality(BridgeCars(e))'
          /\ Together' = Together
      BY <1>1, <1>2, <2>1, CrossingSame
    <2>4. CarsTyped'
      BY <1>2, <1>3, <2>1, <2>3 DEF CarsTyped
    <2>6. ~torn' => CountsTrue'
      BY <1>2, <1>4, <2>1 DEF CountsTrue, Directed
    <2>5. CarInv'
      BY <1>2, <1>3, <2>1, <2>3, <2>4, <2>6 DEF CarInv
    <2> QED
      BY <2>2, <2>5 DEF BridgeInv
  <1>5. CASE ~h
    <2>1. /\ cur_dir' = d
          /\ inFlight' = inFlight + 1
          /\ toggleDir' = IF inFlight' = 3 THEN 1 ELSE toggleDir
          /\ crossing' = [crossing EXCEPT ![d] = @ + 1]
          /\ Goes("leave")
      BY <1>5 DEF AdmitsOrNudges
    <2>2. MonInv' /\ LabelInv'
      BY <1>1, <1>2, <2>1, LabelsSection
    <2>3. /\ crossing' \in [Ends -> Nat]
          /\ \A e \in Ends : crossing'[e] = Cardinality(BridgeCars(e))'
          /\ \A e \in Ends : e # d => crossing'[e] = crossing[e]
          /\ Together' = Together + 1
      BY <1>1, <1>2, <2>1, CrossingUp
    <2>4. inFlight' \in Nat /\ toggleDir' \in {0, 1} /\ (inFlight' >= 3 => toggleDir' = 1)
      <3>1. CASE inFlight < 3
        BY <1>3, <2>1, <3>1
      <3>2. CASE toggleDir = 1
        BY <1>3, <2>1, <3>2
      <3> QED
        BY <1>5, <3>1, <3>2
    <2>5. CarsTyped'
      BY <1>2, <1>3, <2>1, <2>3, <2>4 DEF CarsTyped
    <2>6. ~torn => \A e \in Ends : crossing'[e] > 0 => cur_dir' = e
      BY <1>5, <2>1, <2>3
    <2>7. ~torn' => CountsTrue'
      BY <1>2, <2>1, <2>6 DEF CountsTrue, Directed
    <2>8. program'.batches /\ inFlight' = Together'
      BY <1>2, <1>3, <2>1, <2>3
    <2>9. CarInv'
      BY <2>3, <2>4, <2>5, <2>7, <2>8 DEF CarInv
    <2> QED
      BY <2>2, <2>9 DEF BridgeInv
  <1> QED
    BY <1>4, <1>5

LEMMA KeptByArrive3C == ASSUME BridgeInv, Arrive3C PROVE BridgeInv'
  <1>1. PICK d, c, h :
          /\ d = dirOf[me] /\ c = (IF firstTime = 0 THEN d ELSE cur_dir)
          /\ h = HoldsBack(d, num_cars', c)
          /\ program.batches /\ InSection("Arrive") /\ at[me] = "inside"
          /\ firstTime' = 1
          /\ num_cars_of' = [num_cars_of EXCEPT ![d] = @ + 1]
          /\ num_cars' = num_cars_of'[d]
          /\ AdmitsOrNudges(d, c, h)
          /\ UNCHANGED sigs
    BY DEF Arrive3C, At
  <1>2. /\ me \in Threads /\ func[me] = "Arrive" /\ d \in Ends
        /\ LabelInv /\ CarInv /\ CarsTyped
        /\ UNCHANGED <<func, dirOf>>
    BY <1>1, InsideFacts DEF InSection, CarInv
  <1>3. /\ h \in BOOLEAN
        /\ ~h => c = d /\ inFlight < 3
    <2>1. h \in BOOLEAN
      BY <1>1, Zenon DEF HoldsBack
    <2>2. ASSUME ~HoldsBack(d, num_cars', c) PROVE c = d /\ inFlight < 3
      BY <1>2, <2>2 DEF HoldsBack, CarsTyped
    <2>3. ~h => ~HoldsBack(d, num_cars', c)
      BY <1>1, Zenon
    <2> QED
      BY <2>1, <2>2, <2>3
  <1>4. c \in Ends \cup {"open"}
    BY <1>1, <1>2 DEF CarsTyped
  <1>5. ASSUME ~torn PROVE \A e \in Ends : crossing[e] > 0 => c = e
    <2>0. CountsTrue
      BY <1>1, <1>2, <1>5 DEF CarInv
    <2>1. CASE firstTime = 0
      <3>1. \A e \in Ends : crossing[e] <= num_cars_of[e] /\ num_cars_of[e] = 0
        BY <1>1, <1>2, <2>0, <2>1, CountedFirst DEF CountsTrue
      <3> QED
        BY <1>2, <3>1 DEF CarsTyped
    <2>2. CASE firstTime # 0
      BY <1>1, <2>0, <2>2 DEF CountsTrue, Directed
    <2> QED
      BY <2>1, <2>2
  <1>6. num_cars_of' \in [Ends -> Int] /\ num_cars' \in Int
    BY <1>1, <1>2 DEF CarsTyped
  <1>7. ~torn => \A l \in {"nudge", "leave"} : Goes(l) =>
          \A e \in Ends : num_cars_of'[e] = Cardinality(CountedCars(e))'
    BY <1>1, <1>2, CountsUp DEF CarInv
  <1> QED
    BY <1>1, <1>2, <1>3, <1>4, <1>5, <1>6, <1>7, AdmitsKept

LEMMA KeptByWoken3C == ASSUME BridgeInv, Woken3C PROVE BridgeInv'
  <1> DEFINE oneSide == \E e \in Ends : num_cars_of[e] = 0
  <1>1. PICK d, h :
          /\ d = dirOf[me]
          /\ h = (/\ ~(cur_dir = d /\ toggleDir # 1)
                  /\ ~oneSide
                  /\ HoldsBack(d, num_cars', cur_dir))
          /\ program.batches /\ InSection("Arrive") /\ at[me] = "woken"
          /\ num_cars' = num_cars_of[d]
          /\ AdmitsOrNudges(d, cur_dir, h)
          /\ UNCHANGED <<sigs, num_cars_of, firstTime>>
    BY DEF Woken3C, At
  <1>2. /\ me \in Threads /\ func[me] = "Arrive" /\ d \in Ends
        /\ LabelInv /\ CarInv /\ CarsTyped
        /\ UNCHANGED <<func, dirOf>>
    BY <1>1, InsideFacts DEF InSection, CarInv
  <1>0. ~torn => CountsTrue
    BY <1>1, <1>2 DEF CarInv
  <1>3. ~torn => /\ \A e \in Ends : crossing[e] <= num_cars_of[e]
                 /\ num_cars_of[d] >= 1
    <2>1. Counted(me)
      BY <1>1, <1>2 DEF Counted, ArriveLabels
    <2>2. PICK t \in Threads : t = me
      BY <1>2
    <2>3. Counted(t) /\ dirOf[t] = d
      BY <1>1, <2>1, <2>2
    <2> QED
      BY <1>0, <1>1, <1>2, <2>3, CountedFirst
  <1>4. ~torn => firstTime = 1
    BY <1>0, <1>2, <1>3 DEF CountsTrue, CarsTyped
  <1>5. ~torn => \A e \in Ends : crossing[e] > 0 => cur_dir = e
    BY <1>0 DEF CountsTrue, Directed
  <1>6. /\ h \in BOOLEAN
        /\ ~h => \/ cur_dir = d /\ (inFlight < 3 \/ toggleDir = 1)
                 \/ oneSide
    BY <1>1, <1>2 DEF HoldsBack, CarsTyped, CarInv
  <1>7. ~torn /\ oneSide => \A e \in Ends : crossing[e] > 0 => d = e
    <2> SUFFICES ASSUME ~torn, oneSide, NEW e \in Ends, crossing[e] > 0 PROVE d = e
      OBVIOUS
    <2>1. PICK o \in Ends : num_cars_of[o] = 0
      OBVIOUS
    <2>2. o # d /\ o # e
      BY <1>2, <1>3, <2>1 DEF CarsTyped
    <2> QED
      BY <1>2, <2>2 DEF Ends
  <1>8. inFlight < 3 \/ toggleDir = 1
    BY <1>1, <1>2 DEF CarInv, CarsTyped
  <1>9. /\ num_cars_of' \in [Ends -> Int] /\ num_cars' \in Int
        /\ cur_dir \in Ends \cup {"open"}
        /\ firstTime' \in {0, 1}
        /\ ~torn => firstTime' = 1
    BY <1>1, <1>2, <1>4 DEF CarsTyped
  <1>10. ~torn => \A l \in {"nudge", "leave"} : Goes(l) =>
          \A e \in Ends : num_cars_of'[e] = Cardinality(CountedCars(e))'
    BY <1>0, <1>1, <1>2, CountsSame
  <1>11. ~torn /\ ~h => \A e \in Ends : crossing[e] > 0 => d = e
    BY <1>5, <1>6, <1>7
  <1> HIDE DEF oneSide
  <1> QED
    BY <1>1, <1>2, <1>5, <1>6, <1>8, <1>9, <1>10, <1>11, AdmitsKept

LEMMA KeptByDepart3C == ASSUME BridgeInv, Depart3C PROVE BridgeInv'
  <1> DEFINE d == dirOf[me]
             left == inFlight - 1 = 0 /\ cur_dir # "open"
  <1>1. /\ program.batches /\ InSection("Depart")
        /\ inFlight' = inFlight - 1
        /\ cur_dir' = IF left THEN Other(cur_dir) ELSE cur_dir
        /\ toggleDir' = IF left THEN 0 ELSE toggleDir
        /\ crossing' = [crossing EXCEPT ![d] = @ - 1]
        /\ sigs' = [sigs EXCEPT ![me] = 1]
        /\ Goes("signal")
        /\ UNCHANGED <<num_cars, num_cars_of, firstTime>>
    BY DEF Depart3C
  <1>2. /\ me \in Threads /\ InBody /\ func[me] = "Depart" /\ d \in Ends
        /\ at[me] = "inside"
        /\ MonInv /\ LabelInv /\ CarInv
        /\ sigs \in [Threads -> 0 .. program.signals]
        /\ program.signals \in Nat \ {0}
    BY <1>1, InsideFacts
  <1>3. /\ UNCHANGED <<kernelVars, monitorVars, program, ticksLeft, carsForked, func,
                       dirOf, caught, loaded, torn>>
        /\ "signal" \in Labels \cap DepartLabels
        /\ "signal" \notin ArriveLabels /\ "signal" \notin UncountLabels
    BY <1>1 DEF InSection, Labels, ArriveLabels, DepartLabels, UncountLabels
  <1>4. MonInv' /\ LabelInv'
    <2>1. 1 \in 0 .. program.signals
      BY <1>2
    <2>2. sigs' \in [Threads -> 0 .. program.signals] /\ sigs'[me] = 1
      BY <1>1, <1>2, <2>1
    <2>3. \A t \in Threads : t # me => sigs'[t] = sigs[t]
      BY <1>1, <1>2
    <2> QED
      BY <1>1, <1>2, <1>3, <2>2, <2>3, LabelsSection
  <1>5. /\ crossing' \in [Ends -> Nat]
        /\ \A e \in Ends : crossing'[e] = Cardinality(BridgeCars(e))'
        /\ \A e \in Ends : e # d => crossing'[e] = crossing[e]
        /\ crossing[d] >= 1 /\ crossing'[d] = crossing[d] - 1
        /\ Together \in Nat \ {0} /\ Together' = Together - 1 /\ Together' \in Nat
        /\ Together' = 0 => \A e \in Ends : crossing'[e] = 0
    BY <1>1, <1>2, <1>3, CrossingDown
  <1>0. ~torn => CountsTrue
    BY <1>1, <1>2 DEF CarInv
  <1>6. ~torn => \A e \in Ends : num_cars_of'[e] = Cardinality(CountedCars(e))'
    BY <1>0, <1>1, <1>2, <1>3, CountsSame
  <1>7. /\ inFlight = Together /\ inFlight' = Together' /\ program'.batches
        /\ inFlight >= 3 => toggleDir = 1
    BY <1>1, <1>2, <1>3, <1>5 DEF CarInv
  <1>8. ASSUME ~torn PROVE \A e \in Ends : crossing'[e] > 0 => cur_dir' = e
    <2>1. CASE left
      BY <1>1, <1>5, <1>7, <2>1
    <2>2. CASE ~left
      <3>1. \A e \in Ends : crossing[e] > 0 => cur_dir = e
        BY <1>0, <1>8 DEF CountsTrue, Directed
      <3>2. cur_dir' = cur_dir
        BY <1>1, <2>2
      <3>3. crossing[d] > 0
        BY <1>2, <1>5 DEF CarInv, CarsTyped
      <3> QED
        BY <1>2, <1>5, <3>1, <3>2, <3>3
    <2> QED
      BY <2>1, <2>2
  <1>9. /\ CarsTyped'
        /\ inFlight' >= 3 => toggleDir' = 1
    <2>1. CarsTyped
      BY <1>2 DEF CarInv
    <2>2. cur_dir' \in Ends \cup {"open"} /\ toggleDir' \in {0, 1}
      BY <1>1, <2>1 DEF CarsTyped, Other, Ends
    <2>3. inFlight' >= 3 => toggleDir' = 1
      BY <1>1, <1>5, <1>7
    <2> QED
      BY <1>1, <1>3, <1>5, <1>7, <2>1, <2>2, <2>3 DEF CarsTyped
  <1> HIDE DEF d, left
  <1>10. CarInv'
    <2>1. ~torn' => CountsTrue'
      BY <1>0, <1>1, <1>3, <1>6, <1>8 DEF CountsTrue, Directed
    <2> QED
      BY <1>5, <1>7, <1>9, <2>1 DEF CarInv
  <1> QED
    BY <1>4, <1>10 DEF BridgeInv

\* What TEST3C does after the t_sig of Depart.
LEMMA AfterSignal ==
  ASSUME BridgeInv, NEW l, NEW m \in UncountLabels \cup {"leave"}, l \in UncountLabels,
         Unprotected(l, m)
  PROVE  /\ MonInv' /\ LabelInv' /\ LabelInv /\ CarInv
         /\ me \in Threads /\ func[me] = "Depart" /\ dirOf[me] \in Ends
         /\ at[me] = l /\ Goes(m) /\ program.batches /\ m \in Labels
         /\ UNCHANGED <<program, func, dirOf, cur_dir, inFlight, toggleDir, firstTime,
                        crossing>>
         /\ crossing' \in [Ends -> Nat]
         /\ \A e \in Ends : crossing'[e] = Cardinality(BridgeCars(e))'
         /\ Together' = Together
  <1>1. /\ InBody /\ at[me] = l /\ Goes(m)
        /\ UNCHANGED <<kernelVars, monitorVars, program, ticksLeft, carsForked, func,
                       dirOf, sigs, cur_dir, inFlight, toggleDir, firstTime, crossing,
                       caught>>
    BY DEF Unprotected, At, threadVars
  <1>2. MonInv /\ LabelInv /\ CarInv
    BY DEF BridgeInv
  <1>3. /\ me \in Threads /\ func[me] = "Depart" /\ dirOf[me] \in Ends
        /\ program.batches
        /\ sigs \in [Threads -> 0 .. program.signals]
    <2>1. me \in Threads
      BY <1>1, <1>2, RunningLabel
    <2> QED
      BY <1>1, <1>2, <2>1 DEF LabelInv, LabelsTyped, Placed, DepartLabels, UncountLabels
  <1>4. /\ m \in Labels /\ m \notin ArriveLabels /\ m # "signal"
        /\ m \in DepartLabels \cup {"leave"}
    BY DEF Labels, ArriveLabels, DepartLabels, UncountLabels
  <1>5. MonInv' /\ LabelInv'
    BY <1>1, <1>3, <1>4, LabelsSection
  <1>6. ~OnBridge(me)
    BY <1>1, <1>3 DEF OnBridge, UncountLabels
  <1>7. /\ crossing' \in [Ends -> Nat]
        /\ \A e \in Ends : crossing'[e] = Cardinality(BridgeCars(e))'
        /\ Together' = Together
    BY <1>1, <1>2, <1>3, <1>4, <1>6, CrossingSame
  <1> QED
    BY <1>1, <1>2, <1>3, <1>4, <1>5, <1>7

LEMMA KeptByUncounts == ASSUME BridgeInv, uncounts \/ copies PROVE BridgeInv'
  <1>0. /\ UNCHANGED <<num_cars_of, torn>>
        /\ loaded' = loaded \/ loaded' = [loaded EXCEPT ![me] = num_cars_of[dirOf[me]]]
        /\ num_cars' = num_cars \/ num_cars' = num_cars_of[dirOf[me]]
    BY DEF uncounts, copies
  <1>1. ASSUME NEW l, NEW m, Unprotected(l, m),
               <<l, m>> \in {<<"uncount", "store">>, <<"copy", "leave">>}
        PROVE  BridgeInv'
    <2>0. l \in UncountLabels /\ m \in UncountLabels \cup {"leave"}
      BY <1>1 DEF UncountLabels
    <2>1. /\ MonInv' /\ LabelInv' /\ LabelInv /\ CarInv
          /\ me \in Threads /\ func[me] = "Depart" /\ dirOf[me] \in Ends
          /\ at[me] = l /\ Goes(m) /\ program.batches /\ m \in Labels
          /\ UNCHANGED <<program, func, dirOf, cur_dir, inFlight, toggleDir, firstTime,
                         crossing>>
      BY <1>1, <2>0, AfterSignal
    <2>2. num_cars' \in Int /\ loaded' \in [Threads -> Int]
      BY <1>0, <2>1 DEF CarInv, CarsTyped
    <2>3. \A t \in Threads :
            /\ OnBridge(t)' <=> OnBridge(t)
            /\ program.batches => (Counted(t)' <=> Counted(t))
            /\ Counted(t) => dirOf'[t] = dirOf[t]
      BY <1>1, <2>1, SameCars DEF DepartLabels
    <2>4. CarInv'
      BY <1>0, <2>1, <2>2, <2>3, CarsKept
    <2> QED
      BY <2>1, <2>4 DEF BridgeInv
  <1>3. CASE uncounts
    <2>1. Unprotected("uncount", "store")
      BY <1>3 DEF uncounts
    <2> QED
      BY <1>1, <2>1
  <1>4. CASE copies
    <2>1. Unprotected("copy", "leave")
      BY <1>4 DEF copies
    <2> QED
      BY <1>1, <2>1
  <1> QED
    BY <1>3, <1>4

LEMMA KeptByStores == ASSUME BridgeInv, stores PROVE BridgeInv'
  <1>1. PICK d :
          /\ d = dirOf[me] /\ Unprotected("store", "copy")
          /\ num_cars_of' = [num_cars_of EXCEPT ![d] = loaded[me] - 1]
          /\ torn' = (torn \/ num_cars_of[d] # loaded[me])
          /\ UNCHANGED <<num_cars, loaded>>
    BY DEF stores
  <1>2. /\ MonInv' /\ LabelInv' /\ LabelInv /\ CarInv
        /\ me \in Threads /\ func[me] = "Depart" /\ d \in Ends
        /\ at[me] = "store" /\ Goes("copy") /\ program.batches
        /\ UNCHANGED <<program, func, dirOf, cur_dir, inFlight, toggleDir, firstTime,
                       crossing>>
        /\ crossing' \in [Ends -> Nat]
        /\ \A e \in Ends : crossing'[e] = Cardinality(BridgeCars(e))'
        /\ Together' = Together
    BY <1>1, AfterSignal DEF UncountLabels
  <1>3. CarsTyped'
    BY <1>1, <1>2 DEF CarInv, CarsTyped
  <1>4. ASSUME ~torn' PROVE CountsTrue'
    <2>1. ~torn /\ num_cars_of[d] = loaded[me]
      BY <1>1, <1>4
    <2>2. CountsTrue
      BY <1>2, <2>1 DEF CarInv
    <2>3. num_cars_of' = [num_cars_of EXCEPT ![d] = @ - 1]
      BY <1>1, <2>1
    <2>4. /\ \A e \in Ends : num_cars_of'[e] = Cardinality(CountedCars(e))'
          /\ \A e \in Ends : num_cars_of[e] = 0 => num_cars_of'[e] = 0
      BY <1>1, <1>2, <2>2, <2>3, CountsDown
    <2> QED
      BY <1>2, <2>2, <2>4 DEF CountsTrue, Directed
  <1>5. CarInv'
    BY <1>2, <1>3, <1>4 DEF CarInv
  <1> QED
    BY <1>2, <1>5 DEF BridgeInv

-----------------------------------------------------------------------------
(* New threads. *)

\* A thread for Depart takes over the car.
LEMMA CarsHandedOver ==
  ASSUME CarInv, LabelInv, NEW t \in Threads, NEW new \in Threads, t # new,
         func[t] = "Arrive", at[t] = "fork", at[new] = "end",
         NEW d \in Ends, dirOf[t] = d,
         func' = [func EXCEPT ![new] = "Depart"],
         dirOf' = [dirOf EXCEPT ![new] = d],
         at' = [at EXCEPT ![t] = "end", ![new] = "acquire"],
         UNCHANGED <<carVars, program>>
  PROVE  CarInv'
  <1>1. /\ func'[new] = "Depart" /\ dirOf'[new] = d
        /\ at'[new] = "acquire" /\ at'[t] = "end" /\ func'[t] = "Arrive"
        /\ \A u \in Threads \ {t, new} :
             func'[u] = func[u] /\ dirOf'[u] = dirOf[u] /\ at'[u] = at[u]
    BY DEF LabelInv, LabelsTyped
  <1>2. /\ OnBridge(t) /\ ~OnBridge(t)' /\ ~OnBridge(new) /\ OnBridge(new)'
        /\ Counted(t) /\ ~Counted(t)' /\ ~Counted(new) /\ Counted(new)'
    BY <1>1 DEF OnBridge, Counted, ArriveLabels, DepartLabels
  <1>3. \A u \in Threads \ {t, new} :
          /\ OnBridge(u)' <=> OnBridge(u)
          /\ Counted(u)' <=> Counted(u)
    BY <1>1 DEF OnBridge, Counted
  <1>4. \A e \in Ends : e # d => /\ BridgeCars(e)' = BridgeCars(e)
                                 /\ CountedCars(e)' = CountedCars(e)
    <2> SUFFICES ASSUME NEW e \in Ends, e # d
                 PROVE  /\ BridgeCars(e)' = BridgeCars(e)
                        /\ CountedCars(e)' = CountedCars(e)
      OBVIOUS
    <2>1. \A u \in Threads : /\ OnBridge(u)' /\ dirOf'[u] = e <=> OnBridge(u) /\ dirOf[u] = e
                             /\ Counted(u)' /\ dirOf'[u] = e <=> Counted(u) /\ dirOf[u] = e
      BY <1>1, <1>2, <1>3
    <2> QED
      BY <2>1 DEF BridgeCars, CountedCars
  <1>5. /\ BridgeCars(d)' = (BridgeCars(d) \ {t}) \cup {new}
        /\ CountedCars(d)' = (CountedCars(d) \ {t}) \cup {new}
    <2>1. \A u \in Threads :
            /\ (OnBridge(u)' /\ dirOf'[u] = d) <=> ((OnBridge(u) /\ dirOf[u] = d /\ u # t) \/ u = new)
            /\ (Counted(u)' /\ dirOf'[u] = d) <=> ((Counted(u) /\ dirOf[u] = d /\ u # t) \/ u = new)
      BY <1>1, <1>2, <1>3
    <2> QED
      BY <2>1 DEF BridgeCars, CountedCars
  <1>6. ASSUME NEW S \in SUBSET Threads, t \in S, new \notin S
        PROVE  Cardinality((S \ {t}) \cup {new}) = Cardinality(S)
    <2>1. /\ Cardinality(S) \in Nat /\ Cardinality(S \ {t}) = Cardinality(S) - 1
          /\ S \ {t} \in SUBSET Threads /\ new \notin S \ {t}
      BY <1>6, CarSets
    <2>2. Cardinality((S \ {t}) \cup {new}) = Cardinality(S \ {t}) + 1
      BY <2>1, CarSets
    <2> QED
      BY <2>1, <2>2
  <1>7. /\ Cardinality(BridgeCars(d)') = Cardinality(BridgeCars(d))
        /\ Cardinality(CountedCars(d)') = Cardinality(CountedCars(d))
    <2>1. /\ BridgeCars(d) \in SUBSET Threads /\ CountedCars(d) \in SUBSET Threads
          /\ t \in BridgeCars(d) /\ new \notin BridgeCars(d)
          /\ t \in CountedCars(d) /\ new \notin CountedCars(d)
      BY <1>2 DEF BridgeCars, CountedCars
    <2> QED
      BY <1>5, <1>6, <2>1
  <1>8. \A e \in Ends : /\ Cardinality(BridgeCars(e)') = Cardinality(BridgeCars(e))
                        /\ Cardinality(CountedCars(e)') = Cardinality(CountedCars(e))
    BY <1>4, <1>7
  <1> QED
    BY <1>8 DEF CarInv, CarsTyped, CountsTrue, Directed, Together, carVars

LEMMA ForkKeepsMon ==
  ASSUME MonInv, NEW f, NEW d, NEW l, Forks(f, d, l)
  PROVE  MonInv'
  <1>1. t_fork(0) /\ 0 \in Levels /\ UNCHANGED <<joinVars, monitorVars>>
    BY KernelAssumption DEF Forks, t_fork, Levels
  <1> QED
    BY <1>1, MonKernel DEF KernelNext

LEMMA KeptByForksDepart == ASSUME BridgeInv, forksDepart PROVE BridgeInv'
  <1> DEFINE d == dirOf[me]
  <1>1. /\ InBody /\ at[me] = "fork" /\ Forks("Depart", d, "end")
        /\ carsForked' = carsForked /\ UNCHANGED <<carVars, program>>
    BY DEF forksDepart, At, Forks
  <1>2. MonInv /\ LabelInv /\ CarInv
    BY DEF BridgeInv
  <1>3. me \in Threads /\ func[me] = "Arrive" /\ d \in Ends
    <2>1. me \in Threads
      BY <1>1, <1>2, RunningLabel
    <2> QED
      BY <1>1, <1>2, <2>1 DEF LabelInv, Placed, ArriveLabels
  <1> DEFINE new == gThreadID + 1
  <1>4. /\ LabelInv'
        /\ new \in Threads /\ at[new] = "end" /\ me # new
        /\ func' = [func EXCEPT ![new] = "Depart"]
        /\ dirOf' = [dirOf EXCEPT ![new] = d]
        /\ at' = [at EXCEPT ![me] = "end", ![new] = "acquire"]
    <2>1. carsForked' \in 0 .. Len(program.cars)
      BY <1>1, <1>2 DEF LabelInv, LabelsTyped
    <2> HIDE DEF d
    <2> QED
      BY <1>1, <1>2, <1>3, <2>1, LabelsFork
  <1> HIDE DEF new
  <1>5. CarInv'
    BY <1>1, <1>2, <1>3, <1>4, CarsHandedOver
  <1> QED
    BY <1>1, <1>2, <1>4, <1>5, ForkKeepsMon DEF BridgeInv

LEMMA KeptByFuncA == ASSUME BridgeInv, funcA PROVE BridgeInv'
  <1>1. /\ MonInv /\ LabelInv /\ CarInv
        /\ InBody /\ at[me] = "forks"
        /\ program.cars \in Seq(Ends) /\ carsForked \in 0 .. Len(program.cars)
        /\ sigs \in [Threads -> 0 .. program.signals]
    BY BridgeAssumption DEF BridgeInv, funcA, At, LabelInv, LabelsTyped
  <1>2. CASE /\ carsForked < Len(program.cars)
             /\ carsForked' = carsForked + 1
             /\ Forks("Arrive", program.cars[carsForked + 1], "forks")
    <2>1. PICK d \in Ends : d = program.cars[carsForked + 1]
      BY <1>1, <1>2
    <2>2. Forks("Arrive", d, "forks")
      BY <1>2, <2>1
    <2>3. carsForked' \in 0 .. Len(program.cars)
      BY <1>1, <1>2
    <2>4. PICK new \in Threads :
            /\ LabelInv'
            /\ at[new] = "end" /\ me \in Threads /\ me # new
            /\ func' = [func EXCEPT ![new] = "Arrive"]
            /\ dirOf' = [dirOf EXCEPT ![new] = d]
            /\ at' = [at EXCEPT ![me] = "forks", ![new] = "acquire"]
      BY <1>1, <2>2, <2>3, LabelsFork
    <2>5. UNCHANGED <<carVars, program>>
      BY <2>2 DEF Forks
    <2>6. /\ \A t \in Threads : t # new => func'[t] = func[t] /\ dirOf'[t] = dirOf[t]
          /\ \A t \in Threads : t # new => at'[t] = at[t]
          /\ func'[new] = "Arrive" /\ at'[new] = "acquire"
      BY <1>1, <2>4 DEF LabelInv, LabelsTyped
    <2>7. ~OnBridge(new) /\ ~OnBridge(new)' /\ ~Counted(new) /\ ~Counted(new)'
      BY <2>4, <2>6 DEF OnBridge, Counted, ArriveLabels, DepartLabels
    <2>8. \A t \in Threads : /\ OnBridge(t)' <=> OnBridge(t)
                             /\ Counted(t)' <=> Counted(t)
                             /\ Counted(t) => dirOf'[t] = dirOf[t]
      <3> SUFFICES ASSUME NEW t \in Threads
                   PROVE  /\ OnBridge(t)' <=> OnBridge(t)
                          /\ Counted(t)' <=> Counted(t)
                          /\ Counted(t) => dirOf'[t] = dirOf[t]
        OBVIOUS
      <3>1. CASE t = new
        BY <2>7, <3>1
      <3>2. CASE t # new
        BY <2>6, <3>2 DEF OnBridge, Counted
      <3> QED
        BY <3>1, <3>2
    <2>9. CarInv'
      BY <1>1, <2>5, <2>8, CarsStay
    <2> QED
      BY <1>1, <2>2, <2>4, <2>9, ForkKeepsMon DEF BridgeInv
  <1>3. CASE /\ Goes("end")
             /\ UNCHANGED <<kernelVars, monitorVars, program, ticksLeft, threadVars,
                            carVars, caught>>
    <2>1. /\ UNCHANGED <<carsForked, func, dirOf, sigs>>
          /\ "end" \in Labels \ (ArriveLabels \cup DepartLabels)
          /\ "end" # "signal" /\ "end" \notin UncountLabels
      BY <1>3 DEF threadVars, Labels, ArriveLabels, DepartLabels, UncountLabels
    <2>2. MonInv' /\ LabelInv'
      BY <1>1, <1>3, <2>1, LabelsSection
    <2>3. CarInv'
      <3>1. me \in Threads
        BY <1>1, RunningLabel
      <3> QED
        BY <1>1, <1>3, <2>1, <3>1, CarsQuiet DEF ArriveLabels, DepartLabels
    <2> QED
      BY <2>2, <2>3 DEF BridgeInv
  <1> QED
    BY <1>2, <1>3 DEF funcA

LEMMA KeptByMain == ASSUME BridgeInv, NobodyYet, main PROVE BridgeInv'
  <1>1. /\ t_start(0) /\ 0 \in Levels
        /\ func' = [func EXCEPT ![1] = "funcA"]
        /\ at' = [at EXCEPT ![1] = "forks"]
        /\ UNCHANGED <<monitorVars, program, ticksLeft, carsForked, dirOf, sigs,
                       carVars, caught>>
        /\ MonInv /\ LabelInv /\ CarInv
    BY KernelAssumption DEF main, Levels, BridgeInv
  <1>2. [KernelNext]_kernelVars
    BY <1>1 DEF KernelNext
  <1>3. /\ gThreadID = 0 /\ gThreadID' = 1 /\ 1 \in Threads /\ UNCHANGED joinVars
    BY <1>1, KernelAssumption DEF t_start, NewTcb, NobodyYet, Threads
  <1>4. MonInv'
    BY <1>1, <1>2, <1>3, MonKernel
  <1>5. at[1] = "end"
    BY <1>1, <1>3 DEF LabelInv, Placed, Born
  <1>6. /\ func'[1] = "funcA" /\ at'[1] = "forks"
        /\ \A t \in Threads : t # 1 => func'[t] = func[t] /\ at'[t] = at[t]
    BY <1>1, <1>3 DEF LabelInv, LabelsTyped
  <1>7. LabelsTyped'
    BY <1>1 DEF LabelInv, LabelsTyped, Functions, Labels
  <1>8. ASSUME NEW t \in Threads
        PROVE  Placed(t)'
    <2>1. context'[t] = "t_wait" => context[t] = "t_wait" /\ (Awake(t) => Awake(t)')
      BY <1>1, <1>2, WaitContext DEF MonInv
    <2>2. ~Born(t)' => ~Born(t) /\ t # 1
      BY <1>3 DEF Born, Threads
    <2>3. CASE t = 1
      BY <1>1, <1>5, <1>6, <2>1, <2>2, <2>3
      DEF LabelInv, Placed, ArriveLabels, DepartLabels, UncountLabels
    <2>4. CASE t # 1
      BY <1>1, <1>6, <2>1, <2>2, <2>4 DEF LabelInv, Placed
    <2> QED
      BY <2>3, <2>4
  <1>9. \A t \in Threads : /\ OnBridge(t)' <=> OnBridge(t)
                           /\ Counted(t)' <=> Counted(t)
    <2> SUFFICES ASSUME NEW t \in Threads
                 PROVE  /\ OnBridge(t)' <=> OnBridge(t)
                        /\ Counted(t)' <=> Counted(t)
      OBVIOUS
    <2>1. CASE t = 1
      BY <1>5, <1>6, <2>1 DEF OnBridge, Counted, ArriveLabels, DepartLabels
    <2>2. CASE t # 1
      BY <1>6, <2>2 DEF OnBridge, Counted
    <2> QED
      BY <2>1, <2>2
  <1>10. CarInv'
    BY <1>1, <1>9, CarsStay
  <1> QED
    BY <1>4, <1>7, <1>8, <1>10 DEF BridgeInv, LabelInv

-----------------------------------------------------------------------------
(* The invariant. *)

\* The thread system at work, a spinning thread, and the timer.
\* A thread that begins with its own function is one of these.
LEMMA KeptBySystem ==
  ASSUME BridgeInv,
         \/ begins /\ ~misled'
         \/ systemStep \/ returns \/ Kernel(halted) \/ spins \/ tick
         \/ UNCHANGED bridgeVars
  PROVE  BridgeInv'
  <1>1. MonInv /\ LabelInv /\ CarInv /\ TypeOK /\ PlaceInv
    BY DEF BridgeInv, MonInv
  <1>2. /\ [KernelNext]_kernelVars
        /\ UNCHANGED <<joinVars, monitorVars, program, carsForked, func, dirOf, sigs, at,
                       carVars>>
    <2>0. CASE begins /\ ~misled'
      <3>1. callUserFunction /\ UNCHANGED joinVars
        BY <2>0 DEF begins, callUserFunction
      <3>2. FunctionFound = func[me] /\ func' = [func EXCEPT ![me] = FunctionFound]
        BY <2>0 DEF begins
      <3>3. func' = func
        BY <1>1, <3>2 DEF LabelInv, LabelsTyped
      <3>4. UNCHANGED <<monitorVars, program, carsForked, dirOf, sigs, at, carVars>>
        BY <2>0 DEF begins
      <3> QED
        BY <3>1, <3>3, <3>4 DEF KernelNext
    <2>1. CASE systemStep \/ returns \/ Kernel(halted)
      BY <2>1 DEF systemStep, returns, Kernel, KernelNext, schedulerStep, dispatch,
         schedulerReturns, resume, epilogueStep, wakeSlot, retire, halted, kernelVars,
         joinVars, userFunctionReturns, threadVars
    <2>2. CASE tick
      BY <2>2 DEF tick, KernelNext, timerHandler, threadVars
    <2>3. CASE spins \/ UNCHANGED bridgeVars
      BY <2>3 DEF spins, bridgeVars, kernelVars, joinVars, threadVars
    <2> QED
      BY <2>0, <2>1, <2>2, <2>3
  <1>3. ticksLeft' \in Nat /\ caught' \subseteq Threads
    <2>1. ticksLeft \in Nat /\ caught \subseteq Threads
      BY <1>1 DEF LabelInv, LabelsTyped
    <2>2. CASE tick
      <3>1. \/ UNCHANGED ticksLeft
            \/ ticksLeft > 0 /\ ticksLeft' = ticksLeft - 1
        BY <2>2 DEF tick
      <3>2. caught' = caught \/ (caught' = caught \cup {me} /\ me \in Threads)
        BY <1>1, <2>2 DEF tick, At, InBody, TypeOK, me
      <3> QED
        BY <2>1, <3>1, <3>2
    <2>3. CASE ~tick
      BY <2>1, <2>3 DEF begins, systemStep, returns, Kernel, spins, bridgeVars
    <2> QED
      BY <2>2, <2>3
  <1>4. MonInv'
    BY <1>1, <1>2, MonKernel
  <1>5. LabelInv'
    BY <1>1, <1>2, <1>3, LabelsSystem
  <1>6. CarInv'
    BY <1>1, <1>2, CarsStay DEF OnBridge, Counted
  <1> QED
    BY <1>4, <1>5, <1>6 DEF BridgeInv

LEMMA BridgeStarts == BridgeInit => BridgeInv /\ NobodyYet
  <1> SUFFICES ASSUME BridgeInit PROVE BridgeInv /\ NobodyYet
    OBVIOUS
  <1>1. MonInv /\ NobodyYet
    BY MonInit DEF BridgeInit, KernelInit, NobodyYet
  <1>2. LabelsTyped
    <2>1. program \in Programs /\ program.ticks \in Nat /\ program.signals \in Nat
      BY BridgeAssumption DEF BridgeInit
    <2>2. program.cars \in Seq(Ends)
      BY <2>1, BridgeAssumption
    <2>3. 0 \in 0 .. program.signals /\ 0 \in 0 .. Len(program.cars)
      BY <2>1, <2>2
    <2> QED
      BY <2>1, <2>3 DEF BridgeInit, LabelsTyped, Functions, Labels
  <1>3. LabelInv
    BY <1>2
    DEF BridgeInit, KernelInit, LabelInv, Placed, ArriveLabels, DepartLabels, UncountLabels
  <1>4. \A d \in Ends : BridgeCars(d) = {} /\ CountedCars(d) = {}
    BY DEF BridgeInit, BridgeCars, CountedCars, OnBridge, Counted
  <1>5. \A d \in Ends : Cardinality(BridgeCars(d)) = 0 /\ Cardinality(CountedCars(d)) = 0
    BY <1>4, FS_EmptySet
  <1>6. CarInv
    <2>1. /\ num_cars = 0 /\ cur_dir = "open" /\ inFlight = 0 /\ toggleDir = 0
          /\ firstTime = 0 /\ loaded = [t \in Threads |-> 0]
          /\ num_cars_of = [d \in Ends |-> 0] /\ crossing = [d \in Ends |-> 0]
      BY DEF BridgeInit
    <2>2. \A d \in Ends : num_cars_of[d] = 0 /\ crossing[d] = 0
      BY <2>1
    <2>3. CarsTyped
      BY <2>1 DEF CarsTyped
    <2>4. Together = 0
      BY <2>2 DEF Together, Ends
    <2> QED
      BY <1>5, <2>1, <2>2, <2>3, <2>4 DEF CarInv, CountsTrue, Directed
  <1> QED
    BY <1>1, <1>3, <1>6 DEF BridgeInv

LEMMA BridgeKeeps ==
  BridgeInv /\ NobodyYet /\ ~misled' /\ [BridgeNext]_bridgeVars => BridgeInv'
  <1> SUFFICES ASSUME BridgeInv, NobodyYet, ~misled', [BridgeNext]_bridgeVars
               PROVE  BridgeInv'
    OBVIOUS
  <1>1. CASE main
    BY <1>1, KeptByMain
  <1>2. CASE funcA
    BY <1>2, KeptByFuncA
  <1>3. CASE acquires \/ takes \/ leaves \/ unlocks
    BY <1>3, KeptByLock
  <1>4. CASE nudges \/ signals
    BY <1>4, KeptBySignal
  <1>5. CASE parks \/ wakes
    BY <1>5, KeptByWait
  <1>6. CASE Arrive
    BY <1>6, KeptByArrive
  <1>7. CASE Depart
    BY <1>7, KeptByDepart
  <1>8. CASE Arrive3C
    BY <1>8, KeptByArrive3C
  <1>9. CASE Woken3C
    BY <1>9, KeptByWoken3C
  <1>10. CASE Depart3C
    BY <1>10, KeptByDepart3C
  <1>11. CASE uncounts \/ stores \/ copies
    BY <1>11, KeptByUncounts, KeptByStores
  <1>12. CASE forksDepart
    BY <1>12, KeptByForksDepart
  <1>13. CASE begins \/ systemStep \/ returns \/ Kernel(halted) \/ spins \/ tick
              \/ UNCHANGED bridgeVars
    BY <1>13, KeptBySystem
  <1> QED
    BY <1>1, <1>2, <1>3, <1>4, <1>5, <1>6, <1>7, <1>8, <1>9, <1>10, <1>11, <1>12, <1>13
    DEF BridgeNext, threadStep

\* main starts the thread system once.
LEMMA NobodyYetKept ==
  NobodyYet /\ [BridgeNext]_bridgeVars => NobodyYet'
  <1> SUFFICES ASSUME NobodyYet, [BridgeNext]_bridgeVars, cpu' = "t_start"
               PROVE  gThreadID' = 0
    BY DEF NobodyYet
  <1>1. CASE UNCHANGED kernelVars
    BY <1>1 DEF kernelVars, NobodyYet
  <1>2. CASE main
    BY <1>2 DEF main, t_start
  <1>3. CASE begins \/ tick \/ systemStep \/ returns
    BY <1>3 DEF begins, callUserFunction, tick, timerHandler, Requeue, Park,
       systemStep, Kernel, schedulerStep,
       dispatch, schedulerReturns, resume, epilogueStep, wakeSlot, retire, InWake,
       returns, userFunctionReturns, InBody
  <1>4. CASE Kernel(halted) \/ spins \/ UNCHANGED bridgeVars \/ Arrive \/ Depart
             \/ Arrive3C \/ Woken3C \/ Depart3C \/ uncounts \/ stores \/ copies
    <2>1. UNCHANGED kernelVars
      BY <1>4 DEF Kernel, halted, spins, bridgeVars, kernelVars, Arrive, Depart,
         Arrive3C, Woken3C, Depart3C, uncounts, stores, copies, Unprotected, InSection
    <2> QED
      BY <1>1, <2>1
  <1>5. ASSUME NEW f, NEW d, NEW l, Forks(f, d, l)
        PROVE  FALSE
    BY <1>5 DEF Forks, t_fork, InBody, Requeue, Park
  <1>6. CASE funcA \/ forksDepart
    BY <1>1, <1>5, <1>6 DEF funcA, forksDepart, kernelVars
  <1>7. CASE acquires \/ takes \/ leaves \/ unlocks \/ nudges \/ signals \/ parks \/ wakes
    BY <1>1, <1>7 DEF acquires, takes, leaves, unlocks, nudges, signals, parks, wakes,
       Only, Nothing, At, InBody, TakesLock, lock_release, t_sig, t_wait, wakesInWait,
       Park, kernelVars
  <1> QED
    BY <1>2, <1>3, <1>4, <1>6, <1>7 DEF BridgeNext, threadStep

\* A thread that was misled stays so.
LEMMA MisledStays == misled /\ [BridgeNext]_bridgeVars => misled'
  <1> SUFFICES ASSUME misled, [BridgeNext]_bridgeVars PROVE misled'
    OBVIOUS
  <1>1. CASE begins
    BY <1>1 DEF begins
  <1>2. CASE ~begins
    BY <1>2
    DEF BridgeNext, threadStep, main, funcA, Forks, acquires, takes, leaves, nudges,
        unlocks, parks, wakes, Only, Arrive, Depart, signals, Arrive3C, Woken3C,
        Depart3C, InSection, uncounts, stores, copies, Unprotected, forksDepart, returns,
        Kernel, spins, systemStep, tick, bridgeVars, threadVars
  <1> QED
    BY <1>1, <1>2

LEMMA BridgeAlways == BridgeSpec => [](misled \/ BridgeInv)
  <1>1. /\ BridgeInit => (misled \/ BridgeInv) /\ NobodyYet
        /\ (misled \/ BridgeInv) /\ NobodyYet /\ [BridgeNext]_bridgeVars
             => (misled \/ BridgeInv)'
    BY BridgeStarts, BridgeKeeps, MisledStays
  <1> QED
    BY <1>1, BridgeStarts, NobodyYetKept, PTL DEF BridgeSpec

-----------------------------------------------------------------------------
(* What holds whichever function a thread runs. *)

\* A step is one of the thread system alone, or a call of the monitor library.
LEMMA LibrarySteps ==
  [BridgeNext]_bridgeVars =>
    \/ [KernelNext]_kernelVars /\ UNCHANGED <<joinVars, monitorVars>>
    \/ TakesLock(my_lock) \/ lock_release(my_lock) \/ t_sig(cond, my_lock)
    \/ t_wait(cond) \/ wakesInWait
  <1> SUFFICES ASSUME [BridgeNext]_bridgeVars
               PROVE  \/ [KernelNext]_kernelVars /\ UNCHANGED <<joinVars, monitorVars>>
                      \/ TakesLock(my_lock) \/ lock_release(my_lock)
                      \/ t_sig(cond, my_lock) \/ t_wait(cond) \/ wakesInWait
    OBVIOUS
  <1>1. CASE main
    <2>1. t_start(0) /\ 0 \in Levels /\ UNCHANGED monitorVars
      BY <1>1, KernelAssumption DEF main, Levels
    <2> QED
      BY <2>1 DEF KernelNext, t_start
  <1>2. ASSUME NEW f, NEW d, NEW l, Forks(f, d, l)
        PROVE  [KernelNext]_kernelVars /\ UNCHANGED <<joinVars, monitorVars>>
    <2>1. t_fork(0) /\ 0 \in Levels /\ UNCHANGED <<joinVars, monitorVars>>
      BY <1>2, KernelAssumption DEF Forks, t_fork, Levels
    <2> QED
      BY <2>1 DEF KernelNext
  <1>3. CASE UNCHANGED <<kernelVars, monitorVars>>
    BY <1>3 DEF kernelVars, joinVars
  <1>4. CASE \/ funcA \/ acquires \/ forksDepart \/ spins \/ Kernel(halted)
             \/ Arrive \/ Depart \/ Arrive3C \/ Woken3C \/ Depart3C
             \/ uncounts \/ stores \/ copies \/ UNCHANGED bridgeVars
    BY <1>2, <1>3, <1>4
    DEF funcA, acquires, Only, Nothing, forksDepart, spins, Kernel, halted, Arrive,
        Depart, Arrive3C, Woken3C, Depart3C, InSection, uncounts, stores, copies,
        Unprotected, bridgeVars
  <1>5. CASE begins \/ systemStep \/ returns \/ tick
    BY <1>5 DEF begins, callUserFunction, systemStep, returns, tick, Kernel, KernelNext,
       schedulerStep, dispatch, schedulerReturns, resume, epilogueStep, wakeSlot, retire,
       userFunctionReturns, timerHandler
  <1>6. CASE takes \/ leaves \/ nudges \/ unlocks \/ parks \/ wakes \/ signals
    BY <1>6 DEF takes, leaves, nudges, unlocks, parks, wakes, signals, Only
  <1> QED
    BY <1>1, <1>4, <1>5, <1>6 DEF BridgeNext, threadStep

LEMMA MonAlways == BridgeSpec => [](MonInv /\ UserInv)
  <1>1. BridgeInit => MonInv /\ UserInv
    BY MonInit, UserInit DEF BridgeInit
  <1>2. MonInv /\ UserInv /\ [BridgeNext]_bridgeVars => MonInv' /\ UserInv'
    <2> SUFFICES ASSUME MonInv, UserInv, [BridgeNext]_bridgeVars
                 PROVE  MonInv' /\ UserInv'
      OBVIOUS
    <2>1. my_lock \in Locks /\ cond \in Conds
      BY BridgeAssumption
    <2>2. CASE [KernelNext]_kernelVars /\ UNCHANGED <<joinVars, monitorVars>>
      BY <2>2, MonKernel, UserStep DEF MonInv
    <2>3. CASE \/ TakesLock(my_lock) \/ lock_release(my_lock) \/ t_sig(cond, my_lock)
               \/ t_wait(cond) \/ wakesInWait
      <3>1. MonInv'
        BY <2>1, <2>3, MonLock, MonSig, MonWait, MonWakes
      <3>2. cpu \in {"thread", "resume"} /\ UNCHANGED startVars
        BY <2>3 DEF TakesLock, lock_release, t_sig, t_wait, wakesInWait, InBody
      <3> QED
        BY <3>1, <3>2, UserStays
    <2> QED
      BY <2>2, <2>3, LibrarySteps
  <1> QED
    BY <1>1, <1>2, PTL DEF BridgeSpec

\* The types, and what they rest on: a thread that is anywhere but in funcA has the
\* direction of a car.
TypesInv ==
  /\ BridgeTypeOK
  /\ \A t \in Threads :
       /\ at[t] = "signal" => sigs[t] >= 1
       /\ at[t] \notin {"forks", "end"} => dirOf[t] \in Ends
       /\ context[t] = "t_wait" => dirOf[t] \in Ends

\* The rest of a step whose library call is typed by MonAlways.
LEMMA TypesMove ==
  ASSUME TypesInv, TypeOK', MonitorsTyped', me \in Threads,
         NEW l \in Labels, Goes(l), UNCHANGED <<program, func, dirOf, carsForked>>,
         ticksLeft' \in Nat, caught' \subseteq Threads, misled' \in BOOLEAN,
         torn' \in BOOLEAN,
         dirOf[me] \in Ends \/ l = "end",
         \A t \in Threads :
           context'[t] = "t_wait" => context[t] = "t_wait" \/ dirOf[t] \in Ends,
         sigs' \in [Threads -> 0 .. program.signals],
         \A t \in Threads : t # me => sigs'[t] = sigs[t],
         l = "signal" => sigs'[me] >= 1,
         num_cars' \in Int, cur_dir' \in Ends \cup {"open"},
         num_cars_of' \in [Ends -> Int], inFlight' \in Int,
         toggleDir' \in {0, 1}, firstTime' \in {0, 1},
         loaded' \in [Threads -> Int], crossing' \in [Ends -> Int]
  PROVE  TypesInv'
  <1>1. /\ at' \in [Threads -> Labels]
        /\ \A t \in Threads : at'[t] = IF t = me THEN l ELSE at[t]
    BY DEF TypesInv, BridgeTypeOK, Goes, Labels, ArriveLabels, DepartLabels
  <1>2. BridgeTypeOK'
    BY <1>1
    DEF TypesInv, BridgeTypeOK, Labels, ArriveLabels, DepartLabels
  <1>3. \A t \in Threads :
          /\ at'[t] = "signal" => sigs'[t] >= 1
          /\ at'[t] \notin {"forks", "end"} => dirOf'[t] \in Ends
          /\ context'[t] = "t_wait" => dirOf'[t] \in Ends
    BY <1>1 DEF TypesInv
  <1> QED
    BY <1>2, <1>3 DEF TypesInv

\* The types a step starts from.
LEMMA TypesNow ==
  ASSUME TypesInv, MonInv
  PROVE  /\ program \in Programs /\ program.signals \in Nat \ {0}
         /\ sigs \in [Threads -> 0 .. program.signals]
         /\ ticksLeft \in Nat /\ caught \subseteq Threads /\ misled \in BOOLEAN
         /\ torn \in BOOLEAN
         /\ num_cars \in Int /\ cur_dir \in Ends \cup {"open"}
         /\ num_cars_of \in [Ends -> Int] /\ inFlight \in Int
         /\ toggleDir \in {0, 1} /\ firstTime \in {0, 1}
         /\ loaded \in [Threads -> Int] /\ crossing \in [Ends -> Int]
         /\ InBody => me \in Threads
         /\ cpu \in {"thread", "resume"} => me \in Threads
         /\ func \in [Threads -> Functions]
         /\ dirOf \in [Threads -> Ends \cup {"open"}]
         /\ \A t \in Threads :
              /\ at[t] = "signal" => sigs[t] >= 1
              /\ at[t] \notin {"forks", "end"} => dirOf[t] \in Ends
              /\ context[t] = "t_wait" => dirOf[t] \in Ends
  <1>1. program \in Programs => program.signals \in Nat \ {0}
    BY BridgeAssumption
  <1>2. cpu \in {"thread", "resume"} => me \in Threads
    BY PlaceTypes DEF MonInv, me
  <1>3. InBody => cpu = "thread"
    BY DEF InBody
  <1> QED
    BY <1>1, <1>2, <1>3 DEF TypesInv, BridgeTypeOK, Functions

\* A step of t_wait and its relatives, that leaves the cars alone.
LEMMA TypesByCall ==
  ASSUME TypesInv, MonInv, TypeOK', MonitorsTyped',
         acquires \/ takes \/ leaves \/ nudges \/ unlocks \/ parks \/ wakes
  PROVE  TypesInv'
  <1>1. PICK l \in Labels :
          /\ Goes(l) /\ l # "signal"
          /\ UNCHANGED <<program, ticksLeft, threadVars, carVars, caught>>
    BY DEF acquires, takes, leaves, nudges, unlocks, parks, wakes, Only, Labels,
       ArriveLabels
  <1>2. /\ UNCHANGED <<program, ticksLeft, carsForked, func, dirOf, sigs, misled, num_cars,
                       cur_dir, num_cars_of, inFlight, toggleDir, firstTime, crossing,
                       loaded, torn, caught>>
    BY <1>1 DEF threadVars, carVars
  <1>3. /\ me \in Threads /\ dirOf[me] \in Ends
        /\ context' = context \/ context' = [context EXCEPT ![me] = "t_wait"]
    <2>1. CASE wakes
      <3>1. cpu = "resume" /\ context[me] = "t_wait" /\ UNCHANGED context
        BY <2>1 DEF wakes, Only, wakesInWait, me
      <3> QED
        BY <3>1, TypesNow
    <2>2. CASE acquires \/ takes \/ leaves \/ nudges \/ unlocks \/ parks
      <3>1. InBody /\ at[me] \notin {"forks", "end"}
        BY <2>2 DEF acquires, takes, leaves, nudges, unlocks, parks, At
      <3>2. context' = context \/ context' = [context EXCEPT ![me] = "t_wait"]
        BY <2>2
        DEF acquires, takes, leaves, nudges, unlocks, parks, Only, Nothing, TakesLock,
            lock_release, t_sig, t_wait, Park, kernelVars, me
      <3> QED
        BY <3>1, <3>2, TypesNow
    <2> QED
      BY <2>1, <2>2
  <1>4. \A t \in Threads :
          context'[t] = "t_wait" => context[t] = "t_wait" \/ dirOf[t] \in Ends
    BY <1>3 DEF MonInv, TypeOK
  <1> QED
    BY <1>1, <1>2, <1>3, <1>4, TypesNow, TypesMove

\* A statement of Arrive or Depart.
LEMMA TypesInSection ==
  ASSUME TypesInv, MonInv, TypeOK', MonitorsTyped',
         \/ Arrive \/ Depart \/ signals \/ Arrive3C \/ Woken3C \/ Depart3C
         \/ uncounts \/ stores \/ copies
  PROVE  TypesInv'
  <1> DEFINE d == dirOf[me]
  <1>1. /\ InBody /\ at[me] \notin {"forks", "end"}
        /\ UNCHANGED <<program, ticksLeft, carsForked, func, dirOf, misled, caught,
                       context>>
    BY DEF Arrive, Depart, signals, Arrive3C, Woken3C, Depart3C, uncounts, stores,
       copies, InSection, Unprotected, At, threadVars, kernelVars, t_sig
  <1>2. /\ me \in Threads /\ d \in Ends
        /\ \A t \in Threads :
             context'[t] = "t_wait" => context[t] = "t_wait" \/ dirOf[t] \in Ends
    BY <1>1, TypesNow
  <1>3. /\ program.signals \in Nat \ {0}
        /\ sigs \in [Threads -> 0 .. program.signals]
        /\ ticksLeft \in Nat /\ caught \subseteq Threads /\ misled \in BOOLEAN
        /\ torn \in BOOLEAN
        /\ num_cars \in Int /\ cur_dir \in Ends \cup {"open"}
        /\ num_cars_of \in [Ends -> Int] /\ inFlight \in Int
        /\ toggleDir \in {0, 1} /\ firstTime \in {0, 1}
        /\ loaded \in [Threads -> Int] /\ crossing \in [Ends -> Int]
    BY TypesNow
  <1>l. {"unlock", "leave", "nudge", "signal", "uncount", "store", "copy"} \subseteq Labels
    BY DEF Labels, ArriveLabels, DepartLabels
  <1>4. /\ num_cars' \in Int /\ cur_dir' \in Ends \cup {"open"}
        /\ num_cars_of' \in [Ends -> Int] /\ inFlight' \in Int
        /\ toggleDir' \in {0, 1} /\ firstTime' \in {0, 1}
        /\ loaded' \in [Threads -> Int] /\ crossing' \in [Ends -> Int]
    <2>1. CASE Arrive \/ Depart
      BY <1>2, <1>3, <2>1 DEF Arrive, Depart, InSection
    <2>2. CASE Arrive3C \/ Woken3C \/ Depart3C
      <3>1. num_cars' \in Int /\ num_cars_of' \in [Ends -> Int] /\ firstTime' \in {0, 1}
        BY <1>2, <1>3, <2>2 DEF Arrive3C, Woken3C, Depart3C
      <3>2. loaded' = loaded
        BY <2>2 DEF Arrive3C, Woken3C, Depart3C, InSection
      <3>3. ASSUME NEW c \in Ends \cup {"open"}, NEW h, AdmitsOrNudges(d, c, h)
            PROVE  /\ cur_dir' \in Ends \cup {"open"} /\ inFlight' \in Int
                   /\ toggleDir' \in {0, 1} /\ crossing' \in [Ends -> Int]
        BY <1>2, <1>3, <3>3 DEF AdmitsOrNudges
      <3>4. /\ cur_dir' \in Ends \cup {"open"} /\ inFlight' \in Int
            /\ toggleDir' \in {0, 1} /\ crossing' \in [Ends -> Int]
        <4>1. CASE Arrive3C
          <5>1. PICK c, h : /\ AdmitsOrNudges(d, c, h)
                            /\ c = (IF firstTime = 0 THEN d ELSE cur_dir)
            BY <4>1 DEF Arrive3C
          <5> HIDE DEF d
          <5>2. c \in Ends \cup {"open"}
            BY <1>2, <1>3, <5>1
          <5> QED
            BY <3>3, <5>1, <5>2
        <4>2. CASE Woken3C
          <5>1. PICK h : AdmitsOrNudges(d, cur_dir, h)
            BY <4>2 DEF Woken3C
          <5> QED
            BY <1>3, <3>3, <5>1
        <4>3. CASE Depart3C
          BY <1>2, <1>3, <4>3 DEF Depart3C, Other, Ends
        <4> QED
          BY <2>2, <4>1, <4>2, <4>3
      <3> QED
        BY <1>3, <3>1, <3>2, <3>4
    <2>3. CASE signals
      BY <1>3, <2>3 DEF signals, carVars
    <2>4. CASE uncounts \/ stores \/ copies
      BY <1>2, <1>3, <2>4 DEF uncounts, stores, copies, Unprotected
    <2> QED
      BY <2>1, <2>2, <2>3, <2>4
  <1>5. torn' \in BOOLEAN
    <2>1. CASE stores
      BY <2>1, Zenon DEF stores
    <2>2. CASE ~stores
      <3>1. torn' = torn
        BY <2>2 DEF Arrive, Depart, signals, Arrive3C, Woken3C, Depart3C, uncounts,
           copies, InSection, carVars
      <3> QED
        BY <1>3, <3>1
    <2> QED
      BY <2>1, <2>2
  <1>6. PICK l \in Labels :
          /\ Goes(l)
          /\ sigs' \in [Threads -> 0 .. program.signals]
          /\ \A t \in Threads : t # me => sigs'[t] = sigs[t]
          /\ l = "signal" => sigs'[me] >= 1
    <2>1. CASE Depart \/ Depart3C
      <3>1. \/ Goes("leave") /\ UNCHANGED sigs
            \/ \E n \in {1, program.signals} :
                 Goes("signal") /\ sigs' = [sigs EXCEPT ![me] = n]
        BY <2>1 DEF Depart, Depart3C
      <3>2. CASE Goes("leave") /\ UNCHANGED sigs
        BY <1>3, <1>l, <3>2
      <3>3. ASSUME NEW n \in {1, program.signals}, Goes("signal"),
                   sigs' = [sigs EXCEPT ![me] = n]
            PROVE  /\ Goes("signal") /\ "signal" \in Labels
                   /\ sigs' \in [Threads -> 0 .. program.signals]
                   /\ \A t \in Threads : t # me => sigs'[t] = sigs[t]
                   /\ sigs'[me] >= 1
        <4>1. n \in 0 .. program.signals /\ n >= 1
          BY <1>3
        <4> QED
          BY <1>2, <1>3, <1>l, <3>3, <4>1
      <3> QED
        BY <3>1, <3>2, <3>3
    <2>2. CASE signals
      <3>1. /\ at[me] = "signal" /\ sigs' = [sigs EXCEPT ![me] = @ - 1]
            /\ Goes(IF sigs[me] > 1 THEN "signal"
                    ELSE IF program.batches THEN "uncount" ELSE "leave")
        BY <2>2 DEF signals, At
      <3>2. sigs[me] >= 1 /\ sigs[me] \in 0 .. program.signals
        BY <1>2, <1>3, <3>1, TypesNow
      <3>3. /\ sigs' \in [Threads -> 0 .. program.signals]
            /\ \A t \in Threads : t # me => sigs'[t] = sigs[t]
            /\ sigs[me] > 1 => sigs'[me] >= 1
        BY <1>2, <1>3, <3>1, <3>2
      <3> QED
        BY <1>l, <3>1, <3>3
    <2>3. CASE Arrive \/ Arrive3C \/ Woken3C \/ uncounts \/ stores \/ copies
      <3>1. /\ UNCHANGED sigs
            /\ \/ Goes("unlock") \/ Goes("leave") \/ Goes("nudge") \/ Goes("store")
               \/ Goes("copy")
        BY <2>3 DEF Arrive, Arrive3C, Woken3C, AdmitsOrNudges, uncounts, stores, copies,
           Unprotected, threadVars
      <3> QED
        BY <1>3, <1>l, <3>1
    <2> QED
      BY <2>1, <2>2, <2>3
  <1> HIDE DEF d
  <1> QED
    BY <1>1, <1>2, <1>3, <1>4, <1>5, <1>6, TypesMove DEF d

\* A new thread has the direction of a car.
LEMMA TypesByFork ==
  ASSUME TypesInv, MonInv, MonInv', NEW f \in {"Arrive", "Depart"}, NEW d \in Ends,
         NEW l \in {"forks", "end"}, Forks(f, d, l),
         carsForked' \in 0 .. Len(program.cars)
  PROVE  TypesInv'
  <1> DEFINE new == gThreadID + 1
  <1>1. /\ t_fork(0) /\ NewTcb(0) /\ InBody /\ 0 \in Levels
        /\ UNCHANGED <<program, ticksLeft, sigs, misled, carVars, caught>>
    BY KernelAssumption DEF Forks, t_fork, Levels
  <1>2. new \in Threads /\ context[new] = "none" /\ gThreadID' = new
    BY <1>1, NewPlace DEF MonInv, NewTcb
  <1>3. /\ func' = [func EXCEPT ![new] = f]
        /\ dirOf' = [dirOf EXCEPT ![new] = d]
        /\ at' = [at EXCEPT ![me] = l, ![new] = "acquire"]
    BY <1>2 DEF Forks
  <1> HIDE DEF new
  <1>4. /\ \A t \in Threads : dirOf'[t] = IF t = new THEN d ELSE dirOf[t]
        /\ \A t \in Threads : at'[t] = IF t = new THEN "acquire"
                                       ELSE IF t = me THEN l ELSE at[t]
    BY <1>2, <1>3 DEF TypesInv, BridgeTypeOK
  <1>5. \A t \in Threads : context'[t] = "t_wait" => context[t] = "t_wait"
    BY <1>1, WaitContext DEF MonInv, KernelNext
  <1>6. BridgeTypeOK'
    BY <1>1, <1>2, <1>3, TypesNow DEF TypesInv, BridgeTypeOK, carVars, MonInv
  <1>7. ASSUME NEW t \in Threads
        PROVE  /\ at'[t] = "signal" => sigs'[t] >= 1
               /\ at'[t] \notin {"forks", "end"} => dirOf'[t] \in Ends
               /\ context'[t] = "t_wait" => dirOf'[t] \in Ends
    BY <1>1, <1>4, <1>5, TypesNow
  <1> QED
    BY <1>6, <1>7 DEF TypesInv

\* A step of the thread system.
LEMMA TypesBySystem ==
  ASSUME TypesInv, MonInv, MonInv', UserInv,
         \/ main \/ begins \/ returns \/ systemStep \/ Kernel(halted) \/ spins
         \/ tick \/ UNCHANGED bridgeVars
  PROVE  TypesInv'
  <1>1. /\ UNCHANGED <<program, carsForked, dirOf, sigs, carVars>>
        /\ [KernelNext]_kernelVars
    <2>1. CASE main
      BY <2>1, KernelAssumption DEF main, KernelNext, Levels
    <2>2. CASE begins
      BY <2>2 DEF begins, KernelNext
    <2>3. CASE returns \/ systemStep \/ Kernel(halted)
      BY <2>3 DEF returns, systemStep, Kernel, KernelNext, threadVars
    <2>4. CASE tick
      BY <2>4 DEF tick, KernelNext, threadVars
    <2>5. CASE spins \/ UNCHANGED bridgeVars
      BY <2>5 DEF spins, bridgeVars, threadVars
    <2> QED
      BY <2>1, <2>2, <2>3, <2>4, <2>5
  <1>2. ticksLeft' \in Nat /\ caught' \subseteq Threads
    <2>1. ticksLeft \in Nat /\ caught \subseteq Threads
      BY TypesNow
    <2>2. CASE tick
      <3>1. \/ UNCHANGED ticksLeft
            \/ ticksLeft > 0 /\ ticksLeft' = ticksLeft - 1
        BY <2>2 DEF tick
      <3>2. caught' = caught \/ (caught' = caught \cup {me} /\ me \in Threads)
        BY <2>2, TypesNow DEF tick, At
      <3> QED
        BY <2>1, <3>1, <3>2
    <2>3. CASE ~tick
      BY <2>1, <2>3 DEF main, begins, systemStep, returns, Kernel, spins, bridgeVars
    <2> QED
      BY <2>2, <2>3
  <1>3. /\ func' \in [Threads -> Functions]
        /\ misled' \in BOOLEAN
        /\ at' = at \/ at' = [at EXCEPT ![1] = "forks"]
    <2>1. func \in [Threads -> Functions] /\ misled \in BOOLEAN
      BY TypesNow
    <2>2. CASE begins
      <3>1. cpu = "thread"
        BY <2>2 DEF begins, callUserFunction
      <3>2. userFunction \in Threads
        BY <3>1 DEF UserInv
      <3>3. func' = [func EXCEPT ![me] = func[userFunction]] /\ at' = at
        BY <2>2 DEF begins, FunctionFound
      <3>4. misled' \in BOOLEAN
        BY <2>2, Zenon DEF begins
      <3> QED
        BY <2>1, <3>2, <3>3, <3>4
    <2>3. CASE main
      BY <2>1, <2>3 DEF main, Functions
    <2>4. CASE ~main /\ ~begins
      BY <2>1, <2>4 DEF systemStep, returns, Kernel, spins, tick, bridgeVars, threadVars
    <2> QED
      BY <2>2, <2>3, <2>4
  <1>4. \A t \in Threads : context'[t] = "t_wait" => context[t] = "t_wait"
    BY <1>1, WaitContext DEF MonInv
  <1>5. BridgeTypeOK'
    <2>1. at' \in [Threads -> Labels]
      BY <1>3 DEF TypesInv, BridgeTypeOK, Labels, ArriveLabels, DepartLabels
    <2> QED
      BY <1>1, <1>2, <1>3, <2>1
      DEF TypesInv, BridgeTypeOK, carVars, MonInv, Functions, Labels, ArriveLabels,
          DepartLabels
  <1>6. ASSUME NEW t \in Threads
        PROVE  /\ at'[t] = "signal" => sigs'[t] >= 1
               /\ at'[t] \notin {"forks", "end"} => dirOf'[t] \in Ends
               /\ context'[t] = "t_wait" => dirOf'[t] \in Ends
    <2>1. at'[t] = at[t] \/ at'[t] = "forks"
      BY <1>3 DEF TypesInv, BridgeTypeOK
    <2> QED
      BY <1>1, <1>4, <2>1, TypesNow
  <1> QED
    BY <1>5, <1>6 DEF TypesInv

LEMMA TypesKept ==
  ASSUME TypesInv, MonInv, MonInv', UserInv, [BridgeNext]_bridgeVars
  PROVE  TypesInv'
  <1>1. TypeOK' /\ MonitorsTyped'
    BY DEF MonInv
  <1>2. CASE acquires \/ takes \/ leaves \/ nudges \/ unlocks \/ parks \/ wakes
    BY <1>1, <1>2, TypesByCall
  <1>3. CASE \/ Arrive \/ Depart \/ signals \/ Arrive3C \/ Woken3C \/ Depart3C
             \/ uncounts \/ stores \/ copies
    BY <1>1, <1>3, TypesInSection
  <1>4. CASE \/ main \/ begins \/ returns \/ systemStep \/ Kernel(halted) \/ spins
             \/ tick \/ UNCHANGED bridgeVars
    BY <1>4, TypesBySystem
  <1>5. CASE forksDepart
    <2>1. Forks("Depart", dirOf[me], "end") /\ InBody /\ at[me] = "fork"
      BY <1>5 DEF forksDepart, At
    <2>2. PICK d \in Ends : d = dirOf[me]
      BY <2>1, TypesNow
    <2>3. carsForked' \in 0 .. Len(program.cars)
      BY <1>5 DEF forksDepart, TypesInv, BridgeTypeOK
    <2>4. Forks("Depart", d, "end")
      BY <2>1, <2>2
    <2> QED
      BY <2>3, <2>4, TypesByFork
  <1>6. CASE funcA
    <2>1. /\ program.cars \in Seq(Ends) /\ carsForked \in 0 .. Len(program.cars)
          /\ InBody /\ at[me] = "forks" /\ me \in Threads
      BY <1>6, BridgeAssumption, TypesNow DEF TypesInv, BridgeTypeOK, funcA, At
    <2>2. CASE /\ carsForked < Len(program.cars)
               /\ carsForked' = carsForked + 1
               /\ Forks("Arrive", program.cars[carsForked + 1], "forks")
      <3>1. PICK d \in Ends : d = program.cars[carsForked + 1]
        BY <2>1, <2>2
      <3>2. Forks("Arrive", d, "forks") /\ carsForked' \in 0 .. Len(program.cars)
        BY <2>1, <2>2, <3>1
      <3> QED
        BY <3>2, TypesByFork
    <2>3. CASE /\ Goes("end")
               /\ UNCHANGED <<kernelVars, monitorVars, program, ticksLeft, threadVars,
                              carVars, caught>>
      <3>1. /\ UNCHANGED <<program, ticksLeft, carsForked, func, dirOf, sigs, misled,
                           num_cars, cur_dir, num_cars_of, inFlight, toggleDir,
                           firstTime, crossing, loaded, torn, caught, context>>
            /\ "end" \in Labels /\ "end" # "signal"
        BY <2>3 DEF kernelVars, threadVars, carVars, Labels
      <3> QED
        BY <1>1, <2>1, <2>3, <3>1, TypesNow, TypesMove
    <2> QED
      BY <1>6, <2>2, <2>3 DEF funcA
  <1> QED
    BY <1>2, <1>3, <1>4, <1>5, <1>6 DEF BridgeNext, threadStep

LEMMA TypesStart == BridgeInit => TypesInv
  <1> SUFFICES ASSUME BridgeInit PROVE TypesInv
    OBVIOUS
  <1>1. TypeOK /\ MonitorsTyped
    BY MonInit DEF BridgeInit, MonInv
  <1>2. LabelsTyped
    <2>1. program \in Programs /\ program.ticks \in Nat /\ program.signals \in Nat
      BY BridgeAssumption DEF BridgeInit
    <2>2. program.cars \in Seq(Ends)
      BY <2>1, BridgeAssumption
    <2>3. 0 \in 0 .. program.signals /\ 0 \in 0 .. Len(program.cars)
      BY <2>1, <2>2
    <2> QED
      BY <2>1, <2>3 DEF BridgeInit, LabelsTyped, Functions, Labels
  <1>3. misled \in BOOLEAN /\ torn \in BOOLEAN
    BY Zenon DEF BridgeInit
  <1>4. BridgeTypeOK
    BY <1>1, <1>2, <1>3
    DEF BridgeInit, LabelsTyped, BridgeTypeOK, Functions, Labels, ArriveLabels,
        DepartLabels
  <1>5. \A t \in Threads : at[t] = "end" /\ context[t] = "none"
    BY DEF BridgeInit, KernelInit
  <1> QED
    BY <1>4, <1>5 DEF TypesInv

LEMMA TypesAlways == BridgeSpec => []TypesInv
  <1>1. TypesInv /\ MonInv /\ UserInv /\ (MonInv /\ UserInv)' /\ [BridgeNext]_bridgeVars
          => TypesInv'
    BY TypesKept
  <1> QED
    BY <1>1, TypesStart, MonAlways, PTL DEF BridgeSpec

-----------------------------------------------------------------------------
(* The theorems. *)

\* The types, whichever function a thread runs.  No counter is claimed to stay
\* above zero: a thread of Arrive that runs Depart takes one below it.
THEOREM BridgeTypes == BridgeSpec => []BridgeTypeOK
  <1>1. TypesInv => BridgeTypeOK
    BY DEF TypesInv
  <1> QED
    BY <1>1, TypesAlways, PTL

\* Cars never cross the bridge of TEST3A, TEST3B and TEST3C in both directions at
\* once, whatever the cars and whenever slices end, as long as no thread ran the
\* function of another and no decrement of TEST3C overwrote a count.
THEOREM BridgeOneWay == BridgeSpec => []OneDirection
  <1>1. misled \/ BridgeInv => OneDirection
    <2> SUFFICES ASSUME CarInv, ~torn PROVE OneDirection
      BY DEF BridgeInv, OneDirection
    <2>0. Directed
      BY DEF CarInv, CountsTrue
    <2>1. \A d \in Ends : crossing[d] \in Nat /\ (crossing[d] > 0 => cur_dir = d)
      BY <2>0 DEF CarInv, CarsTyped, Directed
    <2>2. "north" \in Ends /\ "south" \in Ends
      BY DEF Ends
    <2> QED
      BY <2>1, <2>2 DEF OneDirection
  <1> QED
    BY <1>1, BridgeAlways, PTL

\* num_cars in TEST3A and TEST3B, and inFlight in TEST3C, are the number of cars on
\* the bridge, and cur_dir is their direction in the former, as long as each thread
\* ran its own function.
THEOREM BridgeTrue == BridgeSpec => []BridgeKnown
  <1>1. misled \/ BridgeInv => BridgeKnown
    BY DEF BridgeInv, CarInv, Directed, Together, BridgeKnown
  <1> QED
    BY <1>1, BridgeAlways, PTL

\* The counters that t_sig scans are the lengths of the queues of the condition,
\* and a thread is blocked in t_wait if and only if it is in one of them, once,
\* whichever function it runs.
THEOREM BridgeWaiters == BridgeSpec => []WaitersKept
  <1>1. MonInv => WaitersKept
    BY MonWaiters
  <1> QED
    BY <1>1, MonAlways, PTL

\* In TEST3C a fourth car of a batch goes on the bridge only when no car of the
\* one or the other direction is held back, as long as no thread ran the function
\* of another and no decrement overwrote a count.
THEOREM BridgeTurns == BridgeSpec => TurnsTaken
  <1>1. ASSUME BridgeInv, [BridgeNext]_bridgeVars, inFlight' > inFlight, inFlight' > 3
        PROVE  program.batches /\ \E d \in Ends : num_cars_of[d] = 0
    <2>1. CASE Arrive3C
      <3>1. PICK d, c, h : /\ h = HoldsBack(d, num_cars', c)
                           /\ program.batches /\ AdmitsOrNudges(d, c, h)
        BY <2>1 DEF Arrive3C
      <3>2. inFlight \in Nat
        BY <1>1 DEF BridgeInv, CarInv, CarsTyped
      <3>3. ~h /\ inFlight' = inFlight + 1
        BY <1>1, <3>1, <3>2 DEF AdmitsOrNudges
      <3>4. ~(inFlight >= 3)
        BY <3>1, <3>3 DEF HoldsBack
      <3> QED
        BY <1>1, <3>2, <3>3, <3>4
    <2>2. CASE Woken3C
      <3>1. PICK d, h :
              /\ h = (/\ ~(cur_dir = d /\ toggleDir # 1)
                      /\ ~(\E e \in Ends : num_cars_of[e] = 0)
                      /\ HoldsBack(d, num_cars', cur_dir))
              /\ program.batches /\ AdmitsOrNudges(d, cur_dir, h)
        BY <2>2 DEF Woken3C
      <3>2. /\ inFlight \in Nat
            /\ inFlight >= 3 => toggleDir = 1
        BY <1>1, <3>1 DEF BridgeInv, CarInv, CarsTyped
      <3>3. ~h /\ inFlight' = inFlight + 1
        BY <1>1, <3>1, <3>2 DEF AdmitsOrNudges
      <3>4. toggleDir = 1
        BY <1>1, <3>2, <3>3
      <3> QED
        BY <3>1, <3>3, <3>4 DEF HoldsBack
    <2>3. CASE Depart3C
      <3>1. inFlight \in Nat /\ inFlight' = inFlight - 1
        BY <1>1, <2>3 DEF Depart3C, BridgeInv, CarInv, CarsTyped
      <3> QED
        BY <1>1, <3>1
    <2>4. CASE ~(Arrive3C \/ Woken3C \/ Depart3C)
      <3>1. UNCHANGED inFlight
        BY <1>1, <2>4 DEF BridgeNext, threadStep, main, begins, funcA, Forks, acquires,
           takes, leaves, nudges, unlocks, parks, wakes, Only, Arrive, Depart,
           InSection, signals, uncounts, stores, copies, Unprotected, forksDepart,
           returns, Kernel, spins, systemStep, tick, bridgeVars, carVars
      <3>2. inFlight \in Nat
        BY <1>1 DEF BridgeInv, CarInv, CarsTyped
      <3> QED
        BY <1>1, <3>1, <3>2
    <2> QED
      BY <2>1, <2>2, <2>3, <2>4
  <1>2. ASSUME BridgeInv, program.batches, ~torn, NEW d \in Ends, num_cars_of[d] = 0,
               NEW t \in Threads, HeldBack(t)
        PROVE  dirOf[t] # d
    <2>1. func[t] = "Arrive"
      BY <1>2 DEF HeldBack, BridgeInv, LabelInv, Placed, ArriveLabels
    <2>2. Counted(t)
      BY <1>2, <2>1 DEF HeldBack, Counted, ArriveLabels
    <2>3. CountsTrue
      BY <1>2 DEF BridgeInv, CarInv
    <2>4. dirOf[t] = d => num_cars_of[d] >= 1
      BY <1>2, <2>2, <2>3, CountedFirst DEF BridgeInv
    <2> QED
      BY <1>2, <2>4
  <1>3. (misled \/ BridgeInv) /\ [BridgeNext]_bridgeVars
          => [inFlight' > inFlight /\ inFlight' > 3 /\ ~misled /\ ~torn =>
                \E d \in Ends : \A t \in Threads : HeldBack(t) => dirOf[t] # d]_bridgeVars
    BY <1>1, <1>2
  <1> QED
    BY <1>3, BridgeAlways, PTL DEF BridgeSpec, TurnsTaken
=============================================================================
