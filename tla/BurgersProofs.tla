--------------------------- MODULE BurgersProofs ---------------------------
(***************************************************************************)
(* The burger program is right for any number of cooks, students and       *)
(* places.                                                                 *)
(*                                                                         *)
(* lock_acquire tests and sets in two steps, so the flag alone does not    *)
(* protect the section.  What does is in SectionInv: the thread inside has *)
(* the processor, with the timer blocked.                                  *)
(*                                                                         *)
(* The stack is kept in bounds by TokenInv: every permit of a semaphore is *)
(* in its value or with a thread, between its P and what it does with the  *)
(* place or the burger, or between that and its V.  A thread in the queue  *)
(* of a semaphore is at the same label as one that has passed, so who is   *)
(* in which queue is part of it (LabelInv, and SemInv of SemaphoreProofs). *)
(*                                                                         *)
(* A cook may become a student before its first P, and a student a cook.   *)
(* Neither holds a permit then, so the argument is about the loop each     *)
(* thread is in (Cooking, Eating) and not about who it was to be.          *)
(***************************************************************************)
EXTENDS Burgers, SemaphoreProofs

Nobody == \A t \in Threads : at[t] \notin Section

Guarded(t) ==
  t = currentRunningThread /\ cpu = "thread" /\ pc[t] = "body" /\ t \in called /\ masked

SectionInv ==
  /\ at \in [Threads -> Labels]
  /\ shared \in [Locks -> {0, 1}]
  /\ \A t \in Threads : at[t] \in Section => Guarded(t)
  /\ shared[mutex] = 1 <=> ~Nobody

\* What the library keeps: the places of threads, and the join table empty.
HoldThreads ==
  /\ SemInv /\ UserInv
  /\ \A i \in Slots : tcbWaiting[i] = NoThread

-----------------------------------------------------------------------------
(* What the calls on semaphores and locks keep.                            *)

LEMMA HoldInit == BurgersInit => HoldThreads
BY SemInvInit, UserInit DEF BurgersInit, KernelInit, HoldThreads

LEMMA HoldKernel ==
  ASSUME HoldThreads, [KernelNext]_kernelVars, UNCHANGED <<semVars, joinVars>>
  PROVE  HoldThreads'
<1>1. WokenWaits
  <2>1. InWake /\ scan[currentRunningThread] < WaitSlots
          => scan[currentRunningThread] \in Slots
    BY KernelAssumption DEF HoldThreads, SemInv, TypeOK, InWake, Slots
  <2> QED
    BY <2>1 DEF HoldThreads, WokenWaits, WaitsFor
<1>2. UserInv'
  BY UserStep DEF HoldThreads, SemInv
<1> QED
  BY <1>1, <1>2, SystemKeeps DEF HoldThreads, joinVars

LEMMA HoldLock ==
  ASSUME HoldThreads, UNCHANGED semVars,
         TakesLock(mutex) \/ lock_release(mutex)
  PROVE  HoldThreads'
<1>1. /\ masked' \in BOOLEAN
      /\ UNCHANGED <<readyVars, currentRunningThread, tcbVars, context, joinVars,
                     exitVars, startVars, cpu, semVars>>
  BY DEF TakesLock, lock_release, MasksForSection, enableTimer, disableTimer
<1>2. UserInv'
  BY <1>1, UserStays DEF HoldThreads, TakesLock, lock_release, InBody
<1> QED
  BY <1>1, <1>2, MaskKeeps DEF HoldThreads, joinVars

LEMMA HoldCreate ==
  ASSUME HoldThreads, NEW v \in Nat, semaphore_create(v)
  PROVE  HoldThreads'
<1>1. UserInv'
  BY DEF HoldThreads, UserInv, semaphore_create, startVars, tcbVars, Born
<1> QED
  BY <1>1, CreateKeeps DEF HoldThreads, semaphore_create, joinVars

LEMMA HoldP ==
  ASSUME HoldThreads, NEW s \in SemIDs, Semaphore_P(s)
  PROVE  HoldThreads'
<1>1. UserInv'
  BY UserStays DEF HoldThreads, Semaphore_P, InBody
<1> QED
  BY <1>1, PassKeeps, BlockKeeps DEF HoldThreads, Semaphore_P, joinVars

LEMMA HoldV ==
  ASSUME HoldThreads, NEW s \in SemIDs, Semaphore_V(s)
  PROVE  HoldThreads'
<1>1. UserInv'
  BY UserStays DEF HoldThreads, Semaphore_V, InBody
<1> QED
  BY <1>1, HandKeeps, RaiseKeeps DEF HoldThreads, Semaphore_V, joinVars

LEMMA TheSems ==
  /\ full \in SemIDs /\ empty \in SemIDs /\ full # empty
  /\ \A t : TakesFrom(t) \in SemIDs /\ GivesTo(t) \in SemIDs
BY BurgersAssumption DEF SemIDs, full, empty, TakesFrom, GivesTo

-----------------------------------------------------------------------------
(* The critical section. *)

LEMMA InitSection == BurgersInit => SectionInv
BY MutexAssumption
   DEF BurgersInit, MonitorsInit, SectionInv, Nobody, Labels, Section, mutex

\* The library at work, and the timer: nobody is inside, nobody enters.
LEMMA KernelKeeps ==
  ASSUME HoldThreads, SectionInv, systemStep \/ tick \/ begins \/ Kernel(halted)
  PROVE  HoldThreads' /\ SectionInv'
<1>1. UNCHANGED <<semVars, joinVars, at, shared>>
  BY DEF systemStep, tick, begins, Kernel, halted, callUserFunction, monitorVars,
         timerHandler, schedulerStep, dispatch, schedulerReturns, resume, epilogueStep,
         wakeSlot, retire, kernelVars, joinVars
<1>2. [KernelNext]_kernelVars
  BY DEF systemStep, tick, begins, Kernel, halted, callUserFunction, KernelNext
<1>3. HoldThreads'
  BY <1>1, <1>2, HoldKernel
<1>4. ~(/\ cpu = "thread" /\ pc[currentRunningThread] = "body" /\ masked
        /\ currentRunningThread \in called)
  BY DEF systemStep, tick, begins, Kernel, halted, callUserFunction, timerHandler,
         schedulerStep, dispatch, schedulerReturns, resume, epilogueStep, wakeSlot,
         retire, InWake
<1>5. Nobody
  BY <1>4 DEF SectionInv, Guarded, Nobody
<1> QED
  BY <1>1, <1>3, <1>5 DEF SectionInv, Nobody

\* A thread that is outside and has the processor: nobody is inside.
LEMMA Outside ==
  ASSUME HoldThreads, SectionInv, NEW l, l \notin Section, At(l)
  PROVE  Nobody /\ me \in Threads
BY DEF HoldThreads, SemInv, TypeOK, SectionInv, Guarded, Nobody, At, InBody, me

\* A thread that is inside has the processor, and nobody else is inside.
LEMMA Within ==
  ASSUME HoldThreads, SectionInv, NEW l, l \in Section, At(l)
  PROVE  /\ me \in Threads
         /\ \A t \in Threads : at[t] \in Section <=> t = me
         /\ Guarded(me)
         /\ shared[mutex] = 1
BY DEF HoldThreads, SemInv, TypeOK, SectionInv, Guarded, Nobody, At, InBody, me

LEMMA MainKeeps ==
  ASSUME HoldThreads, SectionInv, main
  PROVE  HoldThreads' /\ SectionInv'
<1>1. cpu = "t_start" /\ shared' = shared /\ Nobody
  BY DEF main, SectionInv, Guarded, Nobody, monitorVars
<1>2. CASE semaphore_create(IF semaphoreID' = empty THEN X ELSE 0) /\ UNCHANGED at
  BY <1>1, <1>2, BurgersAssumption, HoldCreate DEF SectionInv, Nobody
<1>3. CASE t_start(1) /\ at' = [at EXCEPT ![1] = "forks"] /\ UNCHANGED semVars
  <2>1. 1 \in Levels
    BY BurgersAssumption DEF Levels
  <2>2. HoldThreads'
    BY <1>3, <2>1, HoldKernel DEF KernelNext, t_start
  <2>3. /\ at' \in [Threads -> Labels]
        /\ \A t \in Threads : at'[t] = at[t] \/ at'[t] = "forks"
    BY <1>3 DEF SectionInv, Labels
  <2> QED
    BY <1>1, <2>2, <2>3 DEF SectionInv, Nobody, Section
<1> QED
  BY <1>2, <1>3 DEF main

LEMMA FuncAKeeps ==
  ASSUME HoldThreads, SectionInv, funcA \/ returns
  PROVE  HoldThreads' /\ SectionInv'
<1>1. Nobody /\ me \in Threads
  BY Outside DEF funcA, returns, Section
<1>2. UNCHANGED <<semVars, joinVars, shared>>
  BY DEF funcA, returns, Kernel, monitorVars, t_fork, userFunctionReturns, kernelVars,
         joinVars
<1>3. [KernelNext]_kernelVars
  <2>1. 0 \in Levels
    BY KernelAssumption DEF Levels
  <2> QED
    BY <2>1 DEF funcA, returns, Kernel, KernelNext
<1>4. /\ at' \in [Threads -> Labels]
      /\ \A t \in Threads : at'[t] = at[t] \/ at'[t] \in {"P", "end"}
  BY DEF SectionInv, funcA, returns, Kernel, Goes, Labels
<1>5. HoldThreads'
  BY <1>2, <1>3, HoldKernel
<1> QED
  BY <1>1, <1>2, <1>4, <1>5 DEF SectionInv, Nobody, Section

\* Outside the section, in Semaphore_P, Semaphore_V and the loop of lock_acquire
LEMMA OutsideKeeps ==
  ASSUME HoldThreads, SectionInv, waits \/ tests \/ raises
  PROVE  HoldThreads' /\ SectionInv'
<1>1. Nobody /\ me \in Threads
  BY Outside DEF waits, tests, raises, Section
<1>2. shared' = shared
  BY DEF waits, tests, raises, Calls, monitorVars
<1>3. /\ at' \in [Threads -> Labels]
      /\ \A t \in Threads : at'[t] = at[t] \/ at'[t] \in {"test", "take", "P"}
  BY DEF SectionInv, waits, tests, raises, Calls, Goes, Labels
<1>4. HoldThreads'
  <2>1. CASE waits
    BY <2>1, HoldP, TheSems DEF waits, Calls
  <2>2. CASE raises
    BY <2>2, HoldV, TheSems DEF raises, Calls
  <2>3. CASE tests
    BY <2>3, HoldKernel DEF tests, Calls, kernelVars, joinVars
  <2> QED
    BY <2>1, <2>2, <2>3
<1> QED
  BY <1>1, <1>2, <1>3, <1>4 DEF SectionInv, Nobody, Section

LEMMA TakesKeeps ==
  ASSUME HoldThreads, SectionInv, takes
  PROVE  HoldThreads' /\ SectionInv'
<1>1. Nobody /\ me \in Threads
  BY Outside DEF takes, Section
<1>2. HoldThreads'
  BY HoldLock DEF takes, Calls
<1>3. at' = [at EXCEPT ![me] = "first"]
  BY DEF takes, Calls, Goes
<1>4. /\ shared' = [shared EXCEPT ![mutex] = 1]
      /\ masked' /\ cpu' = cpu /\ pc' = pc
      /\ currentRunningThread' = currentRunningThread
      /\ cpu = "thread" /\ pc[currentRunningThread] = "body"
      /\ currentRunningThread \in called /\ called' = called
  BY DEF takes, Calls, TakesLock, MasksForSection, disableTimer, exitVars, InBody,
         startVars
<1>5. shared' \in [Locks -> {0, 1}] /\ shared'[mutex] = 1
  BY <1>4, MutexAssumption DEF SectionInv
<1>6. /\ at' \in [Threads -> Labels]
      /\ \A t \in Threads : at'[t] \in Section <=> t = me
  BY <1>1, <1>3 DEF SectionInv, Nobody, Labels, Section
<1>7. Guarded(me)' /\ me' = me
  BY <1>4 DEF Guarded, me
<1> QED
  BY <1>1, <1>2, <1>4, <1>5, <1>6, <1>7 DEF SectionInv, Nobody, Guarded, me

\* The thread inside goes on inside.
LEMMA WorkKeeps ==
  ASSUME HoldThreads, SectionInv,
         Produce_Item \/ Insert_Item \/ Remove_Item \/ Consume_Item
  PROVE  HoldThreads' /\ SectionInv'
<1>1. /\ me \in Threads
      /\ \A t \in Threads : at[t] \in Section <=> t = me
      /\ Guarded(me)
      /\ shared[mutex] = 1
  BY Within DEF Produce_Item, Insert_Item, Remove_Item, Consume_Item, Section
<1>2. /\ UNCHANGED <<kernelVars, semVars, shared>>
      /\ at' = [at EXCEPT ![me] = "second"] \/ at' = [at EXCEPT ![me] = "release"]
  BY DEF Produce_Item, Insert_Item, Remove_Item, Consume_Item, Works, Goes, monitorVars
<1>3. HoldThreads'
  BY <1>2, HoldKernel DEF kernelVars, joinVars
<1>4. /\ at' \in [Threads -> Labels]
      /\ \A t \in Threads : at'[t] \in Section <=> t = me
  BY <1>1, <1>2 DEF SectionInv, Labels, Section
<1>5. Guarded(me)' /\ me' = me
  BY <1>1, <1>2 DEF Guarded, me, kernelVars
<1> QED
  BY <1>1, <1>2, <1>3, <1>4, <1>5 DEF SectionInv, Nobody, Guarded, me

LEMMA ReleasesKeeps ==
  ASSUME HoldThreads, SectionInv, releases
  PROVE  HoldThreads' /\ SectionInv'
<1>1. /\ me \in Threads
      /\ \A t \in Threads : at[t] \in Section <=> t = me
  BY Within DEF releases, Section
<1>2. HoldThreads'
  BY HoldLock DEF releases, Calls
<1>3. at' = [at EXCEPT ![me] = "V"] /\ shared' = [shared EXCEPT ![mutex] = 0]
  BY DEF releases, Calls, Goes, lock_release
<1>4. shared' \in [Locks -> {0, 1}] /\ shared'[mutex] = 0
  BY <1>3, MutexAssumption DEF SectionInv
<1>5. at' \in [Threads -> Labels] /\ Nobody'
  BY <1>1, <1>3 DEF SectionInv, Nobody, Labels, Section
<1> QED
  BY <1>2, <1>4, <1>5 DEF SectionInv, Nobody

LEMMA SectionNext ==
  ASSUME HoldThreads, SectionInv, [BurgersNext]_burgersVars
  PROVE  HoldThreads' /\ SectionInv'
<1>1. CASE UNCHANGED burgersVars
  <2>1. UNCHANGED <<kernelVars, semVars, at, shared>>
    BY <1>1 DEF burgersVars, monitorVars
  <2>2. HoldThreads'
    BY <2>1, HoldKernel DEF kernelVars, joinVars
  <2> QED
    BY <2>1, <2>2 DEF SectionInv, Nobody, Guarded, kernelVars
<1>2. CASE round
  BY <1>2, KernelKeeps, OutsideKeeps, TakesKeeps, WorkKeeps, ReleasesKeeps DEF round
<1> QED
  BY <1>1, <1>2, MainKeeps, FuncAKeeps, KernelKeeps DEF BurgersNext

\* In TEST4 two threads are never between lock_acquire and lock_release of the
\* mutex, although lock_acquire does not test and set in one step, and whichever
\* function a thread runs.
THEOREM BurgersExclude == BurgersSpec => []MutualExclusion
<1>1. BurgersInit => HoldThreads /\ SectionInv
  BY HoldInit, InitSection
<1>2. HoldThreads /\ SectionInv /\ [BurgersNext]_burgersVars
        => (HoldThreads /\ SectionInv)'
  BY SectionNext
<1>3. SectionInv => MutualExclusion
  BY DEF SectionInv, Guarded, Nobody, MutualExclusion
<1> QED
  BY <1>1, <1>2, <1>3, PTL DEF BurgersSpec

-----------------------------------------------------------------------------
(* Where cooks and students are, and the semaphore they wait on. *)

Functions == {"none", "funcA", "Producer", "Consumer"}

\* The threads in the loop of a cook, and those in that of a student, whichever
\* they were forked as.
Cooking == {t \in Threads : func[t] = "Producer"}
Eating  == Threads \ Cooking

\* A thread begins with the function of another before its first P.
LabelInv ==
  /\ at \in [Threads -> Labels]
  /\ func \in [Threads -> Functions]
  /\ \A t \in Threads : t \notin called => at[t] \in {"main", "forks", "P"}
  /\ \A t \in Threads : ~Born(t) => at[t] = "main"
  /\ \A t \in Threads : IF t = 1 THEN at[t] \in {"main", "forks", "end"}
                                ELSE at[t] \notin {"forks", "end"}
  /\ \A s \in SemIDs : \A t \in Threads :
       InSemQueue(s, t) => at[t] = "test" /\ s = TakesFrom(t)

LEMMA People ==
  /\ Cooking \subseteq Threads /\ Eating \subseteq Threads
  /\ Cooking \cap Eating = {}
  /\ \A t \in Threads : t \in Cooking \/ t \in Eating
  /\ 1 \in Threads
  /\ \A t \in Threads : /\ TakesFrom(t) = IF t \in Cooking THEN empty ELSE full
                        /\ GivesTo(t) = IF t \in Cooking THEN full ELSE empty
BY BurgersAssumption DEF Cooking, Eating, Threads, TakesFrom, GivesTo

\* The threads change sides with func.
LEMMA SameSides ==
  ASSUME UNCHANGED func
  PROVE  /\ Cooking' = Cooking /\ Eating' = Eating
         /\ \A t : TakesFrom(t)' = TakesFrom(t)
BY DEF Cooking, Eating, TakesFrom

\* A thread at a label of the round is a cook or a student, and in no queue.
LEMMA InRound ==
  ASSUME HoldThreads, LabelInv, NEW l \in Labels \ {"main", "forks", "end"}, At(l)
  PROVE  /\ me \in Threads /\ at[me] = l
         /\ me \in Cooking \/ me \in Eating
         /\ me # 1 /\ me \in called
         /\ \A s \in SemIDs : ~InSemQueue(s, me)
<1>1. /\ me \in Threads /\ at[me] = l /\ \A s \in SemIDs : ~InSemQueue(s, me)
      /\ me \in called
  BY Caller DEF HoldThreads, At, InBody, me
<1> QED
  BY <1>1, People DEF LabelInv

LEMMA LabelsInit == BurgersInit => LabelInv
BY DEF BurgersInit, SemInit, LabelInv, Labels, Functions, InSemQueue

\* A step of the thread system in which nobody is forked
LEMMA LabelsKernel ==
  ASSUME LabelInv, UNCHANGED <<semQueue, at, func, gThreadID, called>>
  PROVE  LabelInv'
BY DEF LabelInv, InSemQueue, Born, TakesFrom

\* The running thread goes on with its round.
LEMMA LabelsRound ==
  ASSUME HoldThreads, LabelInv, NEW k \in Labels \ {"main", "forks", "end"}, At(k),
         NEW l \in Labels \ {"main", "forks", "end"}, Goes(l),
         UNCHANGED <<gThreadID, func, called>>,
         \A s \in SemIDs : \A t \in Threads :
           InSemQueue(s, t)' =>
             \/ InSemQueue(s, t)
             \/ t = me /\ l = "test" /\ s = TakesFrom(me)
  PROVE  /\ LabelInv'
         /\ \A t \in Threads : at'[t] = IF t = me THEN l ELSE at[t]
<1>1. /\ me \in Threads /\ at[me] = k /\ me # 1 /\ me \in called
      /\ \A s \in SemIDs : ~InSemQueue(s, me)
  BY InRound
<1>2. /\ at' \in [Threads -> Labels]
      /\ \A t \in Threads : at'[t] = IF t = me THEN l ELSE at[t]
  BY <1>1 DEF LabelInv, Goes
<1>3. \A t \in Threads : ~Born(t)' => at'[t] = "main"
  <2>1. \A t \in Threads : Born(t)' <=> Born(t)
    BY DEF Born
  <2> QED
    BY <1>1, <1>2, <2>1 DEF LabelInv
<1>4. \A t \in Threads : IF t = 1 THEN at'[t] \in {"main", "forks", "end"}
                                 ELSE at'[t] \notin {"forks", "end"}
  BY <1>1, <1>2 DEF LabelInv
<1>5. \A s \in SemIDs : \A t \in Threads :
        InSemQueue(s, t)' => at'[t] = "test" /\ s = TakesFrom(t)
  BY <1>1, <1>2 DEF LabelInv
<1>6. \A t \in Threads : t \notin called' => at'[t] \in {"main", "forks", "P"}
  BY <1>1, <1>2 DEF LabelInv
<1> QED
  BY <1>2, <1>3, <1>4, <1>5, <1>6 DEF LabelInv, TakesFrom

-----------------------------------------------------------------------------
(* The permits of the two semaphores. *)

\* cooks that hold a free place they have not filled yet
Placing ==
  {t \in Cooking : at[t] \in {"test", "take", "first", "second"} /\ ~InSemQueue(empty, t)}

\* cooks that filled a place and have not said so
Placed == {t \in Cooking : at[t] \in {"release", "V"}}

\* students that hold a burger they have not taken yet
Picking ==
  {t \in Eating : at[t] \in {"test", "take", "first"} /\ ~InSemQueue(full, t)}

\* students that took a burger and have not freed its place
Picked == {t \in Eating : at[t] \in {"second", "release", "V"}}

\* The burgers on the stack are those to be had and those promised; so are the
\* other places, once main has created the semaphores.
TokenInv ==
  /\ bufferIndex \in Int
  /\ semaphoreID < 2 => cpu = "t_start"
  /\ bufferIndex = semValue[full] + Cardinality(Picking) + Cardinality(Placed)
  /\ semValue[empty] + Cardinality(Placing) + Cardinality(Picked) + bufferIndex
       = IF semaphoreID < 2 THEN 0 ELSE X

LEMMA TokenSets ==
  /\ \A S \in {Placing, Placed, Picking, Picked} : IsFiniteSet(S)
  /\ Cardinality(Placing) \in Nat /\ Cardinality(Placed) \in Nat
  /\ Cardinality(Picking) \in Nat /\ Cardinality(Picked) \in Nat
<1>1. IsFiniteSet(Threads)
  BY KernelAssumption, FS_Interval DEF Threads
<1>2. \A S \in {Placing, Placed, Picking, Picked} : S \subseteq Threads
  BY People DEF Placing, Placed, Picking, Picked
<1>3. \A S \in {Placing, Placed, Picking, Picked} :
        IsFiniteSet(S) /\ Cardinality(S) \in Nat
  BY <1>1, <1>2, FS_Subset, FS_CardinalityType
<1> QED
  BY <1>3

LEMMA TokenNumbers ==
  ASSUME HoldThreads
  PROVE  /\ semValue[full] \in Nat /\ semValue[empty] \in Nat
         /\ semaphoreID \in Nat /\ X \in Nat
BY BurgersAssumption, TheSems DEF HoldThreads, SemInv, SemsTyped

LEMMA TokenInit == BurgersInit => TokenInv
<1> SUFFICES ASSUME BurgersInit PROVE TokenInv
    OBVIOUS
<1>1. /\ bufferIndex = 0 /\ semaphoreID = 0 /\ cpu = "t_start"
      /\ semValue[full] = 0 /\ semValue[empty] = 0
      /\ \A t \in Threads : at[t] = "main"
  BY TheSems DEF BurgersInit, KernelInit, SemInit
<1>2. Placing = {} /\ Placed = {} /\ Picking = {} /\ Picked = {}
  BY <1>1, People DEF Placing, Placed, Picking, Picked
<1> QED
  BY <1>1, <1>2, FS_EmptySet DEF TokenInv

\* No permit moves.
LEMMA TokensQuiet ==
  ASSUME TokenInv, cpu # "t_start",
         UNCHANGED <<semaphoreID, semValue, bufferIndex>>,
         Placing' = Placing, Placed' = Placed, Picking' = Picking, Picked' = Picked
  PROVE  TokenInv'
BY DEF TokenInv

\* ... as long as threads stay where they are, or outside all of this.
LEMMA TokensStay ==
  ASSUME TokenInv, cpu # "t_start",
         UNCHANGED <<semaphoreID, semValue, semQueue, bufferIndex>>,
         \A t \in Threads :
           \/ at'[t] = at[t] /\ func'[t] = func[t]
           \/ /\ t \notin Placing \cup Placed \cup Picking \cup Picked
              /\ at'[t] \in {"main", "forks", "P", "end"}
  PROVE  TokenInv'
<1>1. \A s \in SemIDs : \A t \in Threads : InSemQueue(s, t)' <=> InSemQueue(s, t)
  BY DEF InSemQueue
<1>2. /\ Placing' = Placing /\ Placed' = Placed
      /\ Picking' = Picking /\ Picked' = Picked
  BY <1>1, TheSems DEF Cooking, Eating, Placing, Placed, Picking, Picked
<1> QED
  BY <1>2, TokensQuiet

LEMMA TokensMain ==
  ASSUME HoldThreads, LabelInv, TokenInv, main
  PROVE  LabelInv' /\ TokenInv'
<1>1. /\ bufferIndex' = bufferIndex /\ cpu = "t_start"
      /\ UNCHANGED semQueue
      /\ \A s \in SemIDs : \A t \in Threads : InSemQueue(s, t)' <=> InSemQueue(s, t)
  BY DEF main, stackVars, semaphore_create, semVars, InSemQueue
<1>n. /\ semValue[full] \in Nat /\ semValue[empty] \in Nat
      /\ semaphoreID \in Nat /\ X \in Nat
      /\ Cardinality(Placing) \in Nat /\ Cardinality(Placed) \in Nat
      /\ Cardinality(Picking) \in Nat /\ Cardinality(Picked) \in Nat
  BY TokenNumbers, TokenSets
<1>2. CASE /\ semaphoreID < 2
           /\ semaphore_create(IF semaphoreID' = empty THEN X ELSE 0)
           /\ UNCHANGED <<at, func>>
  <2>1. /\ semaphoreID' = semaphoreID + 1 /\ UNCHANGED <<cpu, gThreadID, called>>
        /\ semValue' = [semValue EXCEPT ![semaphoreID + 1] =
                           IF semaphoreID + 1 = empty THEN X ELSE 0]
    BY <1>2 DEF semaphore_create, tcbVars, startVars
  <2>2. LabelInv'
    BY <1>1, <1>2, <2>1, LabelsKernel
  <2>3. /\ Placing' = Placing /\ Placed' = Placed
        /\ Picking' = Picking /\ Picked' = Picked
    BY <1>1, <1>2, SameSides, People, TheSems DEF Placing, Placed, Picking, Picked
  <2>4. /\ bufferIndex = 0 /\ semValue[full] = 0 /\ semValue[empty] = 0
        /\ Cardinality(Placing) = 0 /\ Cardinality(Placed) = 0
        /\ Cardinality(Picking) = 0 /\ Cardinality(Picked) = 0
    <3>1. /\ bufferIndex \in Int
          /\ bufferIndex = semValue[full] + Cardinality(Picking) + Cardinality(Placed)
          /\ semValue[empty] + Cardinality(Placing) + Cardinality(Picked)
               + bufferIndex = 0
      BY <1>2 DEF TokenInv
    <3> DEFINE k == Cardinality(Picking)  u == Cardinality(Placed)
               p == Cardinality(Placing)  d == Cardinality(Picked)
               v == semValue[full]        e == semValue[empty]
    <3>2. k \in Nat /\ u \in Nat /\ p \in Nat /\ d \in Nat /\ v \in Nat /\ e \in Nat
      BY <1>n
    <3>3. bufferIndex = v + k + u /\ e + p + d + bufferIndex = 0 /\ bufferIndex \in Int
      BY <3>1
    <3> HIDE DEF k, u, p, d, v, e
    <3>4. bufferIndex = 0 /\ v = 0 /\ k = 0 /\ u = 0 /\ e = 0 /\ p = 0 /\ d = 0
      BY <3>2, <3>3
    <3> QED
      BY <3>4 DEF k, u, p, d, v, e
  <2>5. CASE semaphoreID = 0
    <3>1. semValue'[full] = 0 /\ semValue'[empty] = 0 /\ semaphoreID' < 2
      BY <2>1, <2>4, <2>5, TheSems DEF HoldThreads, SemInv, SemsTyped, full, empty
    <3>2. /\ Cardinality(Placing)' = 0 /\ Cardinality(Placed)' = 0
          /\ Cardinality(Picking)' = 0 /\ Cardinality(Picked)' = 0
      BY <2>3, <2>4
    <3> QED
      BY <1>1, <2>1, <2>2, <2>4, <3>1, <3>2 DEF TokenInv
  <2>6. CASE semaphoreID = 1
    <3>1. semValue'[full] = 0 /\ semValue'[empty] = X /\ semaphoreID' = 2
      BY <2>1, <2>4, <2>6, TheSems DEF HoldThreads, SemInv, SemsTyped, full, empty
    <3>2. /\ Cardinality(Placing)' = 0 /\ Cardinality(Placed)' = 0
          /\ Cardinality(Picking)' = 0 /\ Cardinality(Picked)' = 0
      BY <2>3, <2>4
    <3> QED
      BY <1>1, <1>n, <2>1, <2>2, <2>4, <3>1, <3>2 DEF TokenInv
  <2> QED
    BY <1>2, <1>n, <2>2, <2>5, <2>6
<1>3. CASE /\ semaphoreID = 2 /\ t_start(1)
           /\ at' = [at EXCEPT ![1] = "forks"] /\ UNCHANGED semVars
           /\ func' = [func EXCEPT ![1] = "funcA"]
  <2>1. \A t \in Threads : /\ at'[t] = IF t = 1 THEN "forks" ELSE at[t]
                           /\ func'[t] = IF t = 1 THEN "funcA" ELSE func[t]
    BY <1>3 DEF LabelInv
  <2>2. /\ Placing' = Placing /\ Placed' = Placed
        /\ Picking' = Picking /\ Picked' = Picked
    BY <1>1, <2>1, TheSems
    DEF LabelInv, Cooking, Eating, Placing, Placed, Picking, Picked
  <2>3. TokenInv'
    BY <1>1, <1>3, <2>2 DEF TokenInv, semVars
  <2>4. at' \in [Threads -> Labels] /\ func' \in [Threads -> Functions]
    BY <1>3 DEF LabelInv, Labels, Functions
  <2>5. /\ \A t \in Threads : Born(t) => Born(t)'
        /\ Born(1)'
    <3>1. gThreadID \in Nat /\ gThreadID' = gThreadID + 1
      BY <1>3, KernelAssumption
      DEF t_start, NewTcb, HoldThreads, SemInv, TypeOK
    <3> QED
      BY <3>1 DEF Born, Threads
  <2>6. LabelInv'
    <3>1. \A t \in Threads : ~Born(t)' => at'[t] = "main"
      BY <2>1, <2>5 DEF LabelInv
    <3>2. ~InSemQueue(full, 1) /\ ~InSemQueue(empty, 1)
      BY People, TheSems DEF LabelInv
    <3>3. \A s \in SemIDs : s = full \/ s = empty
      BY BurgersAssumption DEF SemIDs, full, empty
    <3>4. \A s \in SemIDs : \A t \in Threads :
            InSemQueue(s, t)' => at'[t] = "test" /\ s = TakesFrom(t)'
      BY <1>1, <2>1, <3>2, <3>3 DEF LabelInv, TakesFrom
    <3>5. \A t \in Threads : t \notin called' => at'[t] \in {"main", "forks", "P"}
      BY <1>3, <2>1 DEF LabelInv, t_start, startVars
    <3> QED
      BY <2>1, <2>4, <3>1, <3>4, <3>5 DEF LabelInv
  <2> QED
    BY <2>3, <2>6
<1> QED
  BY <1>2, <1>3 DEF main

\* Permits move, and the two sums stay.
LEMMA TokensMove ==
  ASSUME HoldThreads, TokenInv, cpu # "t_start", UNCHANGED semaphoreID,
         bufferIndex' \in Int,
         bufferIndex' - bufferIndex =
           (semValue'[full] - semValue[full])
             + (Cardinality(Picking)' - Cardinality(Picking))
             + (Cardinality(Placed)' - Cardinality(Placed)),
         bufferIndex - bufferIndex' =
           (semValue'[empty] - semValue[empty])
             + (Cardinality(Placing)' - Cardinality(Placing))
             + (Cardinality(Picked)' - Cardinality(Picked)),
         semValue'[full] \in Int, semValue'[empty] \in Int,
         Cardinality(Placing)' \in Int, Cardinality(Placed)' \in Int,
         Cardinality(Picking)' \in Int, Cardinality(Picked)' \in Int
  PROVE  TokenInv'
<1>1. /\ semValue[full] \in Nat /\ semValue[empty] \in Nat /\ X \in Nat
      /\ Cardinality(Placing) \in Nat /\ Cardinality(Placed) \in Nat
      /\ Cardinality(Picking) \in Nat /\ Cardinality(Picked) \in Nat
      /\ bufferIndex \in Int /\ semaphoreID \in Nat /\ ~(semaphoreID < 2)
  BY TokenNumbers, TokenSets DEF TokenInv
<1>2. /\ bufferIndex = semValue[full] + Cardinality(Picking) + Cardinality(Placed)
      /\ semValue[empty] + Cardinality(Placing) + Cardinality(Picked) + bufferIndex = X
  BY <1>1 DEF TokenInv
<1>3. bufferIndex' = semValue'[full] + Cardinality(Picking)' + Cardinality(Placed)'
  BY <1>1, <1>2
<1>4. semValue'[empty] + Cardinality(Placing)' + Cardinality(Picked)' + bufferIndex' = X
  <2>1. semValue'[empty] + Cardinality(Placing)' + Cardinality(Picked)'
          = (semValue[empty] + Cardinality(Placing) + Cardinality(Picked))
              + (bufferIndex - bufferIndex')
    BY <1>1
  <2> QED
    BY <1>1, <1>2, <2>1
<1> QED
  BY <1>1, <1>3, <1>4 DEF TokenInv

\* t holds what it held.
SameTokens(t) ==
  /\ t \in Placing' <=> t \in Placing
  /\ t \in Placed'  <=> t \in Placed
  /\ t \in Picking' <=> t \in Picking
  /\ t \in Picked'  <=> t \in Picked

\* Who joins or leaves one of these sets is among the threads that move.
LEMMA SetsMove ==
  ASSUME NEW T, UNCHANGED func,
         \A t \in Threads \ T :
           /\ at'[t] = at[t]
           /\ \A s \in SemIDs : InSemQueue(s, t)' <=> InSemQueue(s, t)
  PROVE  \A t : t \notin T => SameTokens(t)
BY SameSides, People, TheSems DEF SameTokens, Placing, Placed, Picking, Picked

\* A set that changes for one thread only.
LEMMA OneMore ==
  ASSUME NEW S, NEW R, NEW t, IsFiniteSet(S), Cardinality(S) \in Nat,
         \A v : v # t => (v \in R <=> v \in S)
  PROVE  /\ t \notin S /\ t \in R => Cardinality(R) = Cardinality(S) + 1
         /\ t \in S /\ t \notin R => Cardinality(R) = Cardinality(S) - 1
         /\ (t \in S <=> t \in R) => Cardinality(R) = Cardinality(S)
<1>1. t \notin S /\ t \in R => R = S \cup {t}
  OBVIOUS
<1>2. t \in S /\ t \notin R => R = S \ {t}
  OBVIOUS
<1>3. (t \in S <=> t \in R) => R = S
  OBVIOUS
<1> QED
  BY <1>1, <1>2, <1>3, FS_AddElement, FS_RemoveElement

\* A permit taken in Semaphore_P is a place or a burger promised.
LEMMA TokensWait ==
  ASSUME HoldThreads, LabelInv, TokenInv, waits
  PROVE  LabelInv' /\ TokenInv'
<1> DEFINE s == TakesFrom(me)
<1>1. /\ me \in Threads /\ at[me] = "P" /\ (me \in Cooking \/ me \in Eating)
      /\ \A r \in SemIDs : ~InSemQueue(r, me)
      /\ At("P") /\ cpu # "t_start"
  BY InRound DEF waits, Labels, At, InBody
<1>2. s \in SemIDs /\ Semaphore_P(s) /\ Goes("test") /\ bufferIndex' = bufferIndex
  BY TheSems DEF waits, Calls, stackVars
<1>3. UNCHANGED <<gThreadID, func, called>> /\ Cooking' = Cooking /\ Eating' = Eating
  BY <1>2, SameSides DEF Semaphore_P, tcbVars, startVars, waits, Calls, funcVars
<1>4. SemInv /\ SemsTyped /\ bufferIndex \in Int
  BY DEF HoldThreads, SemInv, TokenInv
<1>5. CASE MayPass(s)
  <2>1. /\ semValue' = [semValue EXCEPT ![s] = @ - 1]
        /\ UNCHANGED <<semaphoreID, semQueue>>
    BY <1>2, <1>4, <1>5, PassKeeps
  <2>2. \A r \in SemIDs : \A t \in Threads : InSemQueue(r, t)' <=> InSemQueue(r, t)
    BY <2>1 DEF InSemQueue
  <2>3. LabelInv' /\ \A t \in Threads : at'[t] = IF t = me THEN "test" ELSE at[t]
    BY <1>1, <1>2, <1>3, <2>2, LabelsRound DEF Labels
  <2>4. \A v : v # me => SameTokens(v)
    <3>1. \A t \in Threads \ {me} :
            /\ at'[t] = at[t]
            /\ \A r \in SemIDs : InSemQueue(r, t)' <=> InSemQueue(r, t)
      BY <2>2, <2>3
    <3> QED
      BY <1>3, <3>1, SetsMove DEF SameTokens
  <2>5. /\ me \notin Placing /\ me \notin Placed /\ me \notin Picking /\ me \notin Picked
        /\ me \notin Placed' /\ me \notin Picked'
        /\ me \in Placing' <=> me \in Cooking
        /\ me \in Picking' <=> me \in Eating
    BY <1>1, <1>3, <2>2, <2>3, TheSems DEF Placing, Placed, Picking, Picked
  <2>6. /\ Cardinality(Placed)' = Cardinality(Placed)
        /\ Cardinality(Picked)' = Cardinality(Picked)
        /\ Cardinality(Placing)' = Cardinality(Placing) + (IF me \in Cooking THEN 1 ELSE 0)
        /\ Cardinality(Picking)' = Cardinality(Picking) + (IF me \in Cooking THEN 0 ELSE 1)
    BY <1>1, <2>4, <2>5, People, OneMore, TokenSets DEF SameTokens
  <2>7. /\ semValue'[full] = semValue[full] - (IF me \in Cooking THEN 0 ELSE 1)
        /\ semValue'[empty] = semValue[empty] - (IF me \in Cooking THEN 1 ELSE 0)
    BY <1>1, <1>4, <2>1, TheSems, People, TokenNumbers DEF SemsTyped
  <2> QED
    BY <1>1, <1>2, <1>4, <2>1, <2>3, <2>6, <2>7, TokenSets, TokenNumbers, TokensMove
<1>6. CASE ~MayPass(s)
  <2>1. /\ UNCHANGED <<semaphoreID, semValue>>
        /\ \A r \in SemIDs : \A t \in Threads :
             InSemQueue(r, t)' <=> InSemQueue(r, t) \/ (r = s /\ t = me)
    BY <1>2, <1>4, <1>6, BlockKeeps DEF me
  <2>2. LabelInv' /\ \A t \in Threads : at'[t] = IF t = me THEN "test" ELSE at[t]
    BY <1>1, <1>2, <1>3, <2>1, LabelsRound DEF Labels
  <2>3. \A v : v # me => SameTokens(v)
    <3>1. \A t \in Threads \ {me} :
            /\ at'[t] = at[t]
            /\ \A r \in SemIDs : InSemQueue(r, t)' <=> InSemQueue(r, t)
      BY <2>1, <2>2
    <3> QED
      BY <1>3, <3>1, SetsMove DEF SameTokens
  <2>4. /\ me \notin Placing /\ me \notin Placed /\ me \notin Picking /\ me \notin Picked
        /\ me \notin Placed' /\ me \notin Picked'
        /\ me \notin Placing' /\ me \notin Picking'
    BY <1>1, <1>3, <2>1, <2>2, TheSems, People
    DEF Placing, Placed, Picking, Picked
  <2>5. /\ Placing' = Placing /\ Placed' = Placed
        /\ Picking' = Picking /\ Picked' = Picked
    BY <2>3, <2>4 DEF SameTokens
  <2> QED
    BY <1>1, <1>2, <2>1, <2>2, <2>5, TokensQuiet
<1> QED
  BY <1>5, <1>6

\* A permit raised in Semaphore_V: what the caller did becomes a permit to be
\* had, or the promise of the thread it is handed to.
LEMMA TokensRaise ==
  ASSUME HoldThreads, LabelInv, TokenInv, raises
  PROVE  LabelInv' /\ TokenInv'
<1> DEFINE s == GivesTo(me)
<1>1. /\ me \in Threads /\ at[me] = "V" /\ (me \in Cooking \/ me \in Eating)
      /\ \A r \in SemIDs : ~InSemQueue(r, me)
      /\ At("V") /\ cpu # "t_start"
  BY InRound DEF raises, Labels, At, InBody
<1>2. s \in SemIDs /\ Semaphore_V(s) /\ Goes("P") /\ bufferIndex' = bufferIndex
  BY TheSems DEF raises, Calls, stackVars
<1>3. UNCHANGED <<gThreadID, func, called>> /\ Cooking' = Cooking /\ Eating' = Eating
  BY <1>2, SameSides DEF Semaphore_V, tcbVars, startVars, raises, Calls, funcVars
<1>4. SemInv /\ SemsTyped /\ bufferIndex \in Int
  BY DEF HoldThreads, SemInv, TokenInv
<1>5. /\ me \notin Placing /\ me \notin Picking
      /\ me \in Placed <=> me \in Cooking
      /\ me \in Picked <=> me \in Eating
  BY <1>1 DEF Placing, Placed, Picking, Picked
<1>6. CASE semQueue[s] = <<>>
  <2>1. /\ semValue' = [semValue EXCEPT ![s] = @ + 1]
        /\ UNCHANGED <<semaphoreID, semQueue>>
    BY <1>2, <1>4, <1>6, RaiseKeeps
  <2>2. \A r \in SemIDs : \A t \in Threads : InSemQueue(r, t)' <=> InSemQueue(r, t)
    BY <2>1 DEF InSemQueue
  <2>3. LabelInv' /\ \A t \in Threads : at'[t] = IF t = me THEN "P" ELSE at[t]
    BY <1>1, <1>2, <1>3, <2>2, LabelsRound DEF Labels
  <2>4. \A v : v # me => SameTokens(v)
    <3>1. \A t \in Threads \ {me} :
            /\ at'[t] = at[t]
            /\ \A r \in SemIDs : InSemQueue(r, t)' <=> InSemQueue(r, t)
      BY <2>2, <2>3
    <3> QED
      BY <1>3, <3>1, SetsMove DEF SameTokens
  <2>5. me \notin Placing' /\ me \notin Placed' /\ me \notin Picking' /\ me \notin Picked'
    BY <1>1, <1>3, <2>3 DEF Placing, Placed, Picking, Picked
  <2>6. /\ Cardinality(Placing)' = Cardinality(Placing)
        /\ Cardinality(Picking)' = Cardinality(Picking)
        /\ Cardinality(Placed)' = Cardinality(Placed) - (IF me \in Cooking THEN 1 ELSE 0)
        /\ Cardinality(Picked)' = Cardinality(Picked) - (IF me \in Cooking THEN 0 ELSE 1)
    BY <1>1, <1>5, <2>4, <2>5, People, OneMore, TokenSets DEF SameTokens
  <2>7. /\ semValue'[full] = semValue[full] + (IF me \in Cooking THEN 1 ELSE 0)
        /\ semValue'[empty] = semValue[empty] + (IF me \in Cooking THEN 0 ELSE 1)
    BY <1>1, <1>4, <2>1, TheSems, People, TokenNumbers DEF SemsTyped
  <2> QED
    BY <1>1, <1>2, <1>4, <2>1, <2>3, <2>6, <2>7, TokenSets, TokenNumbers, TokensMove
<1>7. CASE semQueue[s] # <<>>
  <2> DEFINE w == Head(semQueue[s])
  <2>1. /\ UNCHANGED <<semaphoreID, semValue>>
        /\ w \in Threads /\ InSemQueue(s, w)
        /\ \A r \in SemIDs : \A t \in Threads :
             InSemQueue(r, t)' <=> InSemQueue(r, t) /\ t # w
    <3>1. InSemQueue(s, w)
      BY <1>2, <1>4, <1>7, SemQueueShape DEF InSemQueue
    <3> QED
      BY <3>1, <1>2, <1>4, <1>7, HandKeeps
  <2>2. w # me /\ at[w] = "test" /\ s = TakesFrom(w)
    BY <1>1, <1>2, <2>1 DEF LabelInv
  <2>3. /\ me \in Cooking => w \in Eating
        /\ me \in Eating => w \in Cooking
    BY <1>1, <2>1, <2>2, TheSems, People
  <2> HIDE DEF w
  <2>4. LabelInv' /\ \A t \in Threads : at'[t] = IF t = me THEN "P" ELSE at[t]
    BY <1>1, <1>2, <1>3, <2>1, LabelsRound DEF Labels
  <2>5. \A v : v \notin {me, w} => SameTokens(v)
    <3>1. \A t \in Threads \ {me, w} :
            /\ at'[t] = at[t]
            /\ \A r \in SemIDs : InSemQueue(r, t)' <=> InSemQueue(r, t)
      BY <2>1, <2>4
    <3> QED
      BY <1>3, <3>1, SetsMove DEF SameTokens
  <2>6. me \notin Placing' /\ me \notin Placed' /\ me \notin Picking' /\ me \notin Picked'
    BY <1>1, <1>3, <2>4 DEF Placing, Placed, Picking, Picked
  <2>7. /\ w \notin Placing /\ w \notin Placed /\ w \notin Picking /\ w \notin Picked
        /\ w \notin Placed' /\ w \notin Picked'
        /\ w \in Placing' <=> w \in Cooking
        /\ w \in Picking' <=> w \in Eating
    BY <2>1, <2>2, <2>4, <2>3, <1>1, <1>3, TheSems, People
    DEF Placing, Placed, Picking, Picked
  <2>8. /\ Cardinality(Placing)' = Cardinality(Placing) + (IF me \in Cooking THEN 0 ELSE 1)
        /\ Cardinality(Picking)' = Cardinality(Picking) + (IF me \in Cooking THEN 1 ELSE 0)
        /\ Cardinality(Placed)' = Cardinality(Placed) - (IF me \in Cooking THEN 1 ELSE 0)
        /\ Cardinality(Picked)' = Cardinality(Picked) - (IF me \in Cooking THEN 0 ELSE 1)
    <3>1. /\ \A v : v # w => (v \in Placing' <=> v \in Placing)
          /\ \A v : v # w => (v \in Picking' <=> v \in Picking)
          /\ \A v : v # me => (v \in Placed' <=> v \in Placed)
          /\ \A v : v # me => (v \in Picked' <=> v \in Picked)
      BY <1>5, <2>5, <2>6, <2>7 DEF SameTokens
    <3>2. (me \in Cooking /\ w \in Eating /\ me \notin Eating /\ w \notin Cooking)
            \/ (me \in Eating /\ w \in Cooking /\ me \notin Cooking /\ w \notin Eating)
      BY <1>1, <2>3, People
    <3> QED
      BY <1>5, <2>6, <2>7, <3>1, <3>2, OneMore, TokenSets
  <2> QED
    BY <1>1, <1>2, <1>4, <2>1, <2>4, <2>8, TokenSets, TokenNumbers, TokensMove
<1> QED
  BY <1>6, <1>7

\* The steps between the two calls that move nothing.
LEMMA TokensRest ==
  ASSUME HoldThreads, LabelInv, TokenInv,
         tests \/ takes \/ releases \/ Produce_Item \/ Consume_Item
  PROVE  LabelInv' /\ TokenInv'
<1>1. PICK k \in {"test", "take", "first", "second", "release"} :
        /\ At(k)
        /\ \/ k = "test" /\ Goes("take")
           \/ k = "take" /\ Goes("first")
           \/ k = "release" /\ Goes("V")
           \/ k = "first" /\ Goes("second") /\ me \in Cooking
           \/ k = "second" /\ Goes("release") /\ me \in Eating
  <2>1. me \in Threads => (func[me] = "Producer" => me \in Cooking)
                           /\ (func[me] = "Consumer" => me \in Eating)
    BY DEF Cooking, Eating
  <2>2. ASSUME NEW k, At(k) PROVE me \in Threads
    BY <2>2, Caller DEF HoldThreads, At, me
  <2> QED
    BY <2>1, <2>2
    DEF tests, takes, releases, Produce_Item, Consume_Item, Calls, Works
<1>2. PICK l \in {"take", "first", "second", "release", "V"} :
        /\ Goes(l)
        /\ \/ k = "test" /\ l = "take"
           \/ k = "take" /\ l = "first"
           \/ k = "release" /\ l = "V"
           \/ k = "first" /\ l = "second" /\ me \in Cooking
           \/ k = "second" /\ l = "release" /\ me \in Eating
  BY <1>1
<1>3. UNCHANGED <<semVars, gThreadID, bufferIndex, func, called>>
  BY DEF tests, takes, releases, Produce_Item, Consume_Item, Calls, Works, stackVars,
         kernelVars, TakesLock, lock_release, tcbVars, startVars, funcVars
<1>4. /\ \A r \in SemIDs : \A t \in Threads : InSemQueue(r, t)' <=> InSemQueue(r, t)
      /\ UNCHANGED <<semaphoreID, semValue>>
  BY <1>3 DEF InSemQueue, semVars
<1>5. k \in Labels \ {"main", "forks", "end"} /\ l \in Labels \ {"main", "forks", "end"}
  BY DEF Labels
<1>6. /\ me \in Threads /\ at[me] = k /\ cpu # "t_start"
      /\ \A r \in SemIDs : ~InSemQueue(r, me)
  BY <1>1, <1>5, InRound DEF At, InBody
<1>7. LabelInv' /\ \A t \in Threads : at'[t] = IF t = me THEN l ELSE at[t]
  BY <1>1, <1>2, <1>3, <1>4, <1>5, LabelsRound
<1>8. \A v : v # me => SameTokens(v)
  <2>1. \A t \in Threads \ {me} :
          /\ at'[t] = at[t]
          /\ \A r \in SemIDs : InSemQueue(r, t)' <=> InSemQueue(r, t)
    BY <1>4, <1>7
  <2> QED
    BY <1>3, <2>1, SetsMove DEF SameTokens
<1>9. SameTokens(me)
  BY <1>2, <1>3, <1>4, <1>6, <1>7, SameSides, TheSems, People
  DEF SameTokens, Placing, Placed, Picking, Picked
<1>10. /\ Placing' = Placing /\ Placed' = Placed
       /\ Picking' = Picking /\ Picked' = Picked
  BY <1>8, <1>9 DEF SameTokens
<1> QED
  BY <1>3, <1>4, <1>6, <1>7, <1>10, TokensQuiet

\* A burger goes on the stack or comes off.
LEMMA TokensStack ==
  ASSUME HoldThreads, LabelInv, TokenInv, Insert_Item \/ Remove_Item
  PROVE  LabelInv' /\ TokenInv'
<1>1. PICK k \in {"first", "second"}, l \in {"second", "release"} :
        /\ At(k) /\ Goes(l)
        /\ \/ /\ k = "second" /\ l = "release" /\ me \in Cooking
              /\ bufferIndex' = bufferIndex + 1
           \/ /\ k = "first" /\ l = "second" /\ me \in Eating
              /\ bufferIndex' = bufferIndex - 1
  <2>1. me \in Threads => (func[me] = "Producer" => me \in Cooking)
                           /\ (func[me] = "Consumer" => me \in Eating)
    BY DEF Cooking, Eating
  <2>2. ASSUME NEW k, At(k) PROVE me \in Threads
    BY <2>2, Caller DEF HoldThreads, At, me
  <2> QED
    BY <2>1, <2>2 DEF Insert_Item, Remove_Item, Works
<1>2. UNCHANGED <<semVars, gThreadID, func, called>>
  BY DEF Insert_Item, Remove_Item, Works, kernelVars, tcbVars, startVars, funcVars
<1>3. /\ \A r \in SemIDs : \A t \in Threads : InSemQueue(r, t)' <=> InSemQueue(r, t)
      /\ UNCHANGED <<semaphoreID, semValue>>
  BY <1>2 DEF InSemQueue, semVars
<1>4. k \in Labels \ {"main", "forks", "end"} /\ l \in Labels \ {"main", "forks", "end"}
  BY DEF Labels
<1>5. /\ me \in Threads /\ at[me] = k /\ cpu # "t_start"
      /\ \A r \in SemIDs : ~InSemQueue(r, me)
  BY <1>1, <1>4, InRound DEF At, InBody
<1>6. LabelInv' /\ \A t \in Threads : at'[t] = IF t = me THEN l ELSE at[t]
  BY <1>1, <1>2, <1>3, <1>4, LabelsRound
<1>7. \A v : v # me => SameTokens(v)
  <2>1. \A t \in Threads \ {me} :
          /\ at'[t] = at[t]
          /\ \A r \in SemIDs : InSemQueue(r, t)' <=> InSemQueue(r, t)
    BY <1>3, <1>6
  <2> QED
    BY <1>2, <2>1, SetsMove DEF SameTokens
<1>8. /\ me \in Placing <=> me \in Cooking
      /\ me \in Picking <=> me \in Eating
      /\ me \notin Placed /\ me \notin Picked
      /\ me \notin Placing' /\ me \notin Picking'
      /\ me \in Placed' <=> me \in Cooking
      /\ me \in Picked' <=> me \in Eating
  BY <1>1, <1>2, <1>5, <1>6, SameSides, TheSems, People
  DEF Placing, Placed, Picking, Picked
<1>9. /\ Cardinality(Placing)' = Cardinality(Placing) - (IF me \in Cooking THEN 1 ELSE 0)
      /\ Cardinality(Placed)' = Cardinality(Placed) + (IF me \in Cooking THEN 1 ELSE 0)
      /\ Cardinality(Picking)' = Cardinality(Picking) - (IF me \in Cooking THEN 0 ELSE 1)
      /\ Cardinality(Picked)' = Cardinality(Picked) + (IF me \in Cooking THEN 0 ELSE 1)
  BY <1>1, <1>7, <1>8, People, OneMore, TokenSets DEF SameTokens
<1>10. bufferIndex \in Int
  BY DEF TokenInv
<1> QED
  BY <1>1, <1>3, <1>5, <1>6, <1>9, <1>10, People, TokenSets, TokenNumbers, TokensMove

\* funcA forks somebody or is at its end.
LEMMA TokensForks ==
  ASSUME HoldThreads, LabelInv, TokenInv, funcA
  PROVE  LabelInv' /\ TokenInv'
<1>1. /\ me \in Threads /\ me = 1 /\ at[1] = "forks" /\ cpu # "t_start"
      /\ SemInv /\ Born(me)
  <2>1. At("forks")
    BY DEF funcA
  <2>2. me \in Threads /\ at[me] = "forks" /\ cpu # "t_start" /\ SemInv
    BY <2>1, Caller DEF HoldThreads, At, InBody, me
  <2>3. me = 1
    BY <2>2 DEF LabelInv
  <2> QED
    BY <2>2, <2>3 DEF LabelInv
<1>2. /\ UNCHANGED <<semaphoreID, semValue, semQueue, bufferIndex>>
      /\ \A r \in SemIDs : \A t \in Threads : InSemQueue(r, t)' <=> InSemQueue(r, t)
  BY DEF funcA, semVars, stackVars, InSemQueue
<1>3. gThreadID \in Nat /\ gThreadID <= MaxThreads /\ 1 <= gThreadID
  BY <1>1, KernelAssumption DEF SemInv, TypeOK, Born
<1>4. CASE /\ gThreadID < MaxThreads /\ t_fork(0)
           /\ at' = [at EXCEPT ![gThreadID'] = "P"]
           /\ func' = [func EXCEPT ![gThreadID'] =
                        IF gThreadID' \in Cooks THEN "Producer" ELSE "Consumer"]
  <2>1. gThreadID' = gThreadID + 1
    BY <1>4 DEF t_fork, NewTcb
  <2> DEFINE n == gThreadID + 1
  <2>2. n \in Threads /\ n # 1 /\ ~Born(n) /\ at[n] = "main"
    BY <1>3, <1>4, KernelAssumption DEF Threads, Born, LabelInv
  <2>3. /\ \A t \in Threads : at'[t] = IF t = n THEN "P" ELSE at[t]
        /\ \A t \in Threads : t # n => func'[t] = func[t]
        /\ func' \in [Threads -> Functions]
    BY <1>4, <2>1, <2>2 DEF LabelInv, Functions
  <2>4. \A s \in SemIDs : ~InSemQueue(s, n)
    BY <2>2 DEF LabelInv
  <2>5. LabelInv'
    <3>1. at' \in [Threads -> Labels]
      BY <1>4 DEF LabelInv, Labels
    <3>2. \A t \in Threads : ~Born(t)' => ~Born(t) /\ t # n
      BY <1>3, <2>1 DEF Born, Threads
    <3>3. \A t \in Threads : ~Born(t)' => at'[t] = "main"
      BY <2>3, <3>2 DEF LabelInv
    <3>4. \A t \in Threads : IF t = 1 THEN at'[t] \in {"main", "forks", "end"}
                                     ELSE at'[t] \notin {"forks", "end"}
      BY <2>2, <2>3 DEF LabelInv
    <3>5. \A s \in SemIDs : \A t \in Threads :
            InSemQueue(s, t)' => at'[t] = "test" /\ s = TakesFrom(t)'
      BY <1>2, <2>3, <2>4 DEF LabelInv, TakesFrom
    <3>6. \A t \in Threads : t \notin called' => at'[t] \in {"main", "forks", "P"}
      BY <1>4, <2>3 DEF LabelInv, t_fork, startVars
    <3> QED
      BY <2>3, <3>1, <3>3, <3>4, <3>5, <3>6 DEF LabelInv
  <2>6. \A t \in Threads :
          \/ at'[t] = at[t] /\ func'[t] = func[t]
          \/ /\ t \notin Placing \cup Placed \cup Picking \cup Picked
             /\ at'[t] \in {"main", "forks", "P", "end"}
    BY <2>2, <2>3 DEF Placing, Placed, Picking, Picked
  <2> QED
    BY <1>1, <1>2, <2>5, <2>6, TokensStay
<1>5. CASE Goes("end") /\ UNCHANGED <<kernelVars, func>>
  <2>1. \A t \in Threads : at'[t] = IF t = 1 THEN "end" ELSE at[t]
    BY <1>1, <1>5 DEF LabelInv, Goes
  <2>2. ~InSemQueue(full, 1) /\ ~InSemQueue(empty, 1)
    BY <1>1, TheSems DEF LabelInv
  <2>3. LabelInv'
    <3>1. at' \in [Threads -> Labels]
      BY <1>5 DEF LabelInv, Labels, Goes
    <3>2. \A t \in Threads : Born(t)' <=> Born(t)
      BY <1>5 DEF Born, kernelVars, tcbVars
    <3>3. \A t \in Threads : ~Born(t)' => at'[t] = "main"
      BY <1>1, <2>1, <3>2 DEF LabelInv
    <3>4. \A t \in Threads : IF t = 1 THEN at'[t] \in {"main", "forks", "end"}
                                     ELSE at'[t] \notin {"forks", "end"}
      BY <2>1 DEF LabelInv
    <3>5. \A s \in SemIDs : s = full \/ s = empty
      BY BurgersAssumption DEF SemIDs, full, empty
    <3>6. \A s \in SemIDs : \A t \in Threads :
            InSemQueue(s, t)' => at'[t] = "test" /\ s = TakesFrom(t)
      BY <1>2, <2>1, <2>2, <3>5 DEF LabelInv
    <3>7. \A t \in Threads : t \notin called' => at'[t] \in {"main", "forks", "P"}
      <4>1. 1 \in called
        BY <1>1 DEF funcA, At, InBody, me
      <4> QED
        BY <1>5, <2>1, <4>1 DEF LabelInv, kernelVars
    <3> QED
      BY <1>5, <3>1, <3>3, <3>4, <3>6, <3>7 DEF LabelInv, TakesFrom
  <2>4. \A t \in Threads :
          \/ at'[t] = at[t] /\ func'[t] = func[t]
          \/ /\ t \notin Placing \cup Placed \cup Picking \cup Picked
             /\ at'[t] \in {"main", "forks", "P", "end"}
    BY <1>1, <1>5, <2>1 DEF Placing, Placed, Picking, Picked
  <2> QED
    BY <1>1, <1>2, <2>3, <2>4, TokensStay
<1> QED
  BY <1>4, <1>5 DEF funcA

\* The thread system at work.
LEMMA TokensSystem ==
  ASSUME HoldThreads, LabelInv, TokenInv,
         returns \/ systemStep \/ tick \/ Kernel(halted)
  PROVE  LabelInv' /\ TokenInv'
<1>1. /\ UNCHANGED <<semVars, at, stackVars, func, gThreadID, called>>
      /\ cpu # "t_start"
  BY DEF returns, systemStep, tick, Kernel, userFunctionReturns, timerHandler,
         schedulerStep, dispatch, schedulerReturns, resume, epilogueStep, wakeSlot,
         retire, halted, InBody, InWake, tcbVars, startVars, funcVars, kernelVars
<1>2. UNCHANGED <<semaphoreID, semValue, semQueue, bufferIndex>>
  BY <1>1 DEF semVars, stackVars
<1> QED
  BY <1>1, <1>2, LabelsKernel, TokensStay

\* A thread that begins, with whatever function, holds nothing yet.
LEMMA TokensBegin ==
  ASSUME HoldThreads, LabelInv, TokenInv, begins
  PROVE  LabelInv' /\ TokenInv'
<1>1. /\ UNCHANGED <<semVars, at, stackVars, gThreadID>> /\ cpu = "thread"
      /\ me \notin called /\ called' = called \cup {me}
      /\ func' = [func EXCEPT ![me] = func[userFunction]]
  BY DEF begins, callUserFunction, tcbVars, me
<1>2. /\ UNCHANGED <<semaphoreID, semValue, semQueue, bufferIndex>>
      /\ \A r \in SemIDs : \A t \in Threads : InSemQueue(r, t)' <=> InSemQueue(r, t)
  BY <1>1 DEF semVars, stackVars, InSemQueue
<1>3. userFunction \in Threads
  BY <1>1 DEF HoldThreads, UserInv
<1>4. /\ func' \in [Threads -> Functions]
      /\ \A t \in Threads : t # me => func'[t] = func[t]
      /\ \A t \in Threads : t = me => at[t] \in {"main", "forks", "P"}
  BY <1>1, <1>3 DEF LabelInv
<1>5. LabelInv'
  BY <1>1, <1>2, <1>4 DEF LabelInv, Born, TakesFrom
<1>6. \A t \in Threads :
        \/ at'[t] = at[t] /\ func'[t] = func[t]
        \/ /\ t \notin Placing \cup Placed \cup Picking \cup Picked
           /\ at'[t] \in {"main", "forks", "P", "end"}
  BY <1>1, <1>4 DEF Placing, Placed, Picking, Picked
<1> QED
  BY <1>1, <1>2, <1>5, <1>6, TokensStay

LEMMA TokensNext ==
  ASSUME HoldThreads, LabelInv, TokenInv, [BurgersNext]_burgersVars
  PROVE  LabelInv' /\ TokenInv'
<1>1. CASE UNCHANGED burgersVars
  <2>1. UNCHANGED <<semQueue, semValue, semaphoreID, at, func, gThreadID, called,
                    bufferIndex, cpu>>
    BY <1>1 DEF burgersVars, kernelVars, semVars, stackVars, tcbVars, funcVars
  <2>2. LabelInv'
    BY <2>1, LabelsKernel
  <2>3. /\ Placing' = Placing /\ Placed' = Placed
        /\ Picking' = Picking /\ Picked' = Picked
    BY <2>1, SameSides DEF Placing, Placed, Picking, Picked, InSemQueue
  <2> QED
    BY <2>1, <2>2, <2>3 DEF TokenInv
<1>2. CASE round
  BY <1>2, TokensBegin, TokensWait, TokensRaise, TokensRest, TokensStack DEF round
<1> QED
  BY <1>1, <1>2, TokensMain, TokensForks, TokensSystem DEF BurgersNext

LEMMA TokensHoldStack ==
  ASSUME HoldThreads, LabelInv, TokenInv
  PROVE  StackHolds
<1>1. /\ semValue[full] \in Nat /\ semValue[empty] \in Nat /\ X \in Nat
      /\ Cardinality(Placing) \in Nat /\ Cardinality(Placed) \in Nat
      /\ Cardinality(Picking) \in Nat /\ Cardinality(Picked) \in Nat
      /\ bufferIndex \in Int
  BY TokenNumbers, TokenSets DEF TokenInv
<1>2. /\ bufferIndex = semValue[full] + Cardinality(Picking) + Cardinality(Placed)
      /\ semValue[empty] + Cardinality(Placing) + Cardinality(Picked) + bufferIndex <= X
  BY <1>1 DEF TokenInv
<1>3. bufferIndex >= Cardinality(Picking) /\ bufferIndex + Cardinality(Placing) <= X
  BY <1>1, <1>2
<1>4. \A t \in Threads : at[t] = "first" /\ func[t] = "Consumer" => bufferIndex > 0
  <2> SUFFICES ASSUME NEW t \in Threads, at[t] = "first", func[t] = "Consumer"
               PROVE  bufferIndex > 0
      OBVIOUS
  <2>1. t \in Picking
    BY TheSems DEF LabelInv, Eating, Cooking, Picking
  <2> QED
    BY <1>1, <1>3, <2>1, TokenSets, FS_EmptySet
<1>5. \A t \in Threads : at[t] = "second" /\ func[t] = "Producer" => bufferIndex < X
  <2> SUFFICES ASSUME NEW t \in Threads, at[t] = "second", func[t] = "Producer"
               PROVE  bufferIndex < X
      OBVIOUS
  <2>1. t \in Placing
    BY TheSems DEF LabelInv, Cooking, Placing
  <2> QED
    BY <1>1, <1>3, <2>1, TokenSets, FS_EmptySet
<1> QED
  BY <1>1, <1>3, <1>4, <1>5 DEF StackHolds

\* In TEST4 nobody puts a burger on a full stack or takes one from an empty
\* stack, for any number of cooks, students and places: the two semaphores count
\* the burgers and the places, whoever is handed a permit and whenever, and
\* whoever runs the function of another.
THEOREM BurgersStack == BurgersSpec => []StackHolds
<1>1. BurgersInit => HoldThreads /\ SectionInv /\ LabelInv /\ TokenInv
  BY HoldInit, InitSection, LabelsInit, TokenInit
<1>2. HoldThreads /\ SectionInv /\ LabelInv /\ TokenInv /\ [BurgersNext]_burgersVars
        => (HoldThreads /\ SectionInv /\ LabelInv /\ TokenInv)'
  BY SectionNext, TokensNext
<1>3. HoldThreads /\ LabelInv /\ TokenInv => StackHolds
  BY TokensHoldStack
<1> QED
  BY <1>1, <1>2, <1>3, PTL DEF BurgersSpec

-----------------------------------------------------------------------------
(* Each burger is eaten once. *)

\* A thread has a burger in hand only between the two steps of the section.
HandsInv == \A t \in Threads : item[t] # NoBurger => at[t] = "second"

StackTyped ==
  /\ item \in [Threads -> Ids \cup {NoBurger}]
  /\ buffer \in [0 .. X - 1 -> Ids \cup {NoBurger}]
  /\ bufferIndex \in Int
  /\ globalCounter \in Ids
  /\ uneaten \in [Ids -> Int]

\* the places of the stack, and the hands, with burger b
OnStack(b) == {i \in 0 .. bufferIndex - 1 : buffer[i] = b}
InHand(b)  == {t \in Threads : item[t] = b}

BurgerInv == StackTyped /\ HandsInv /\ EatenOnce

LEMMA BurgerSets ==
  ASSUME StackTyped, NEW b
  PROVE  /\ IsFiniteSet(OnStack(b)) /\ Cardinality(OnStack(b)) \in Nat
         /\ IsFiniteSet(InHand(b)) /\ Cardinality(InHand(b)) \in Nat
         /\ Held(b) = Cardinality(OnStack(b)) + Cardinality(InHand(b))
<1>1. IsFiniteSet(Threads) /\ IsFiniteSet(0 .. bufferIndex - 1)
  BY KernelAssumption, FS_Interval DEF Threads, StackTyped
<1>2. OnStack(b) \in SUBSET (0 .. bufferIndex - 1) /\ InHand(b) \in SUBSET Threads
  BY DEF OnStack, InHand
<1>3. /\ IsFiniteSet(OnStack(b)) /\ Cardinality(OnStack(b)) \in Nat
      /\ IsFiniteSet(InHand(b)) /\ Cardinality(InHand(b)) \in Nat
  BY <1>1, <1>2, FS_Subset, FS_CardinalityType
<1> QED
  BY <1>3 DEF Held, OnStack, InHand

LEMMA BurgerInit == BurgersInit => BurgerInv
<1> SUFFICES ASSUME BurgersInit PROVE BurgerInv
    OBVIOUS
<1>1. StackTyped /\ HandsInv
  BY BurgersAssumption DEF BurgersInit, StackTyped, HandsInv, Ids, NoBurger
<1>2. \A b \in Ids : OnStack(b) = {} /\ InHand(b) = {} /\ uneaten[b] = 0
  BY BurgersAssumption DEF BurgersInit, OnStack, InHand, Ids, NoBurger
<1>3. EatenOnce
  BY <1>1, <1>2, BurgerSets, FS_EmptySet DEF EatenOnce
<1> QED
  BY <1>1, <1>3 DEF BurgerInv

\* No burger moves.
LEMMA BurgersStay ==
  ASSUME BurgerInv, UNCHANGED stackVars,
         \A t \in Threads : at[t] = "second" => at'[t] = "second"
  PROVE  BurgerInv'
<1>1. UNCHANGED <<item, buffer, bufferIndex, globalCounter, uneaten>>
  BY DEF stackVars
<1> QED
  BY <1>1 DEF BurgerInv, StackTyped, HandsInv, EatenOnce, Held

\* The burgers that do not move, when one thread works in the section.
LEMMA OtherBurgers ==
  ASSUME StackTyped, StackTyped', EatenOnce, NEW b \in Ids,
         OnStack(b)' = OnStack(b), InHand(b)' = InHand(b), uneaten'[b] = uneaten[b]
  PROVE  uneaten'[b] = Held(b)'
BY BurgerSets DEF EatenOnce, Held, OnStack, InHand

LEMMA BurgerMade ==
  ASSUME HoldThreads, LabelInv, BurgerInv, Produce_Item
  PROVE  BurgerInv'
<1>1. /\ me \in Threads /\ at[me] = "first"
      /\ NextId \in Ids /\ NextId # NoBurger
  BY InRound, BurgersAssumption
  DEF Produce_Item, Labels, NextId, Ids, NoBurger, BurgerInv, StackTyped
<1>2. /\ item' = [item EXCEPT ![me] = NextId]
      /\ uneaten' = [uneaten EXCEPT ![NextId] = @ + 1]
      /\ globalCounter' = NextId /\ UNCHANGED <<buffer, bufferIndex>>
      /\ Goes("second")
  BY DEF Produce_Item, Works
<1>3. StackTyped'
  BY <1>1, <1>2 DEF BurgerInv, StackTyped
<1>4. item[me] = NoBurger
  BY <1>1 DEF BurgerInv, HandsInv
<1>5. HandsInv'
  BY <1>1, <1>2 DEF BurgerInv, HandsInv, StackTyped, LabelInv, Goes
<1>6. ASSUME NEW b \in Ids PROVE uneaten'[b] = Held(b)'
  <2>1. OnStack(b)' = OnStack(b)
    BY <1>2 DEF OnStack
  <2>2. b # NoBurger
    BY DEF Ids, NoBurger
  <2>3. InHand(b)' = IF b = NextId THEN InHand(b) \cup {me} ELSE InHand(b)
    BY <1>1, <1>2, <1>4, <2>2 DEF InHand, BurgerInv, StackTyped
  <2>4. me \notin InHand(b)
    BY <1>4, <2>2 DEF InHand
  <2>5. CASE b = NextId
    <3>1. Cardinality(InHand(b)') = Cardinality(InHand(b)) + 1
      BY <2>3, <2>4, <2>5, BurgerSets, FS_AddElement DEF BurgerInv
    <3>2. Held(b)' = Cardinality(OnStack(b)') + Cardinality(InHand(b)')
      BY DEF Held, OnStack, InHand
    <3>3. uneaten'[b] = uneaten[b] + 1 /\ uneaten[b] = Held(b)
      BY <1>2, <2>5 DEF BurgerInv, StackTyped, EatenOnce
    <3> QED
      BY <2>1, <3>1, <3>2, <3>3, BurgerSets DEF BurgerInv
  <2>6. CASE b # NextId
    BY <1>2, <1>3, <2>1, <2>3, <2>6, OtherBurgers DEF BurgerInv, StackTyped
  <2> QED
    BY <2>5, <2>6
<1> QED
  BY <1>3, <1>5, <1>6 DEF BurgerInv, EatenOnce

LEMMA BurgerStacked ==
  ASSUME HoldThreads, LabelInv, BurgerInv, Insert_Item
  PROVE  BurgerInv'
<1>1. me \in Threads /\ at[me] = "second"
  BY InRound DEF Insert_Item, Labels
<1>2. /\ bufferIndex \in 0 .. X - 1
      /\ buffer' = [buffer EXCEPT ![bufferIndex] = item[me]]
      /\ bufferIndex' = bufferIndex + 1
      /\ item' = [item EXCEPT ![me] = NoBurger]
      /\ Goes("release") /\ UNCHANGED <<globalCounter, uneaten>>
  BY DEF Insert_Item, Works
<1>3. X \in Nat
  BY BurgersAssumption
<1>4. StackTyped'
  BY <1>1, <1>2, <1>3 DEF BurgerInv, StackTyped
<1>5. HandsInv'
  BY <1>1, <1>2 DEF BurgerInv, HandsInv, StackTyped, LabelInv, Goes
<1>6. ASSUME NEW b \in Ids PROVE uneaten'[b] = Held(b)'
  <2>1. b # NoBurger
    BY DEF Ids, NoBurger
  <2>2. /\ bufferIndex \notin OnStack(b)
        /\ OnStack(b)' = IF item[me] = b THEN OnStack(b) \cup {bufferIndex}
                                         ELSE OnStack(b)
    BY <1>2, <1>3 DEF OnStack, BurgerInv, StackTyped
  <2>3. InHand(b)' = InHand(b) \ {me} /\ (me \in InHand(b) <=> item[me] = b)
    BY <1>1, <1>2, <2>1 DEF InHand, BurgerInv, StackTyped
  <2>4. CASE item[me] = b
    <3>1. Cardinality(OnStack(b)') = Cardinality(OnStack(b)) + 1
      BY <2>2, <2>4, BurgerSets, FS_AddElement DEF BurgerInv
    <3>2. Cardinality(InHand(b)') = Cardinality(InHand(b)) - 1
      BY <2>3, <2>4, BurgerSets, FS_RemoveElement DEF BurgerInv
    <3>3. Held(b)' = Cardinality(OnStack(b)') + Cardinality(InHand(b)')
      BY DEF Held, OnStack, InHand
    <3>4. uneaten'[b] = Held(b)
      BY <1>2 DEF BurgerInv, EatenOnce
    <3> QED
      BY <3>1, <3>2, <3>3, <3>4, BurgerSets DEF BurgerInv
  <2>5. CASE item[me] # b
    BY <1>2, <1>4, <2>2, <2>3, <2>5, OtherBurgers DEF BurgerInv
  <2> QED
    BY <2>4, <2>5
<1> QED
  BY <1>4, <1>5, <1>6 DEF BurgerInv, EatenOnce

LEMMA BurgerPicked ==
  ASSUME HoldThreads, LabelInv, BurgerInv, Remove_Item
  PROVE  BurgerInv'
<1>1. me \in Threads /\ at[me] = "first"
  BY InRound DEF Remove_Item, Labels
<1>2. /\ Top \in 0 .. X - 1
      /\ item' = [item EXCEPT ![me] = buffer[Top]]
      /\ bufferIndex' = bufferIndex - 1
      /\ Goes("second") /\ UNCHANGED <<buffer, globalCounter, uneaten>>
  BY DEF Remove_Item, Works
<1>3. X \in Nat /\ Top = bufferIndex - 1 /\ bufferIndex \in Int
  BY BurgersAssumption DEF Top, BurgerInv, StackTyped
<1>4. StackTyped'
  BY <1>1, <1>2, <1>3 DEF BurgerInv, StackTyped
<1>5. HandsInv' /\ item[me] = NoBurger
  BY <1>1, <1>2 DEF BurgerInv, HandsInv, StackTyped, LabelInv, Goes
<1>6. ASSUME NEW b \in Ids PROVE uneaten'[b] = Held(b)'
  <2>1. b # NoBurger
    BY DEF Ids, NoBurger
  <2>2. OnStack(b)' = OnStack(b) \ {Top} /\ (Top \in OnStack(b) <=> buffer[Top] = b)
    BY <1>2, <1>3 DEF OnStack
  <2>3. /\ me \notin InHand(b)
        /\ InHand(b)' = IF buffer[Top] = b THEN InHand(b) \cup {me} ELSE InHand(b)
    BY <1>1, <1>2, <1>5, <2>1 DEF InHand, BurgerInv, StackTyped
  <2>4. CASE buffer[Top] = b
    <3>1. Cardinality(OnStack(b)') = Cardinality(OnStack(b)) - 1
      BY <2>2, <2>4, BurgerSets, FS_RemoveElement DEF BurgerInv
    <3>2. Cardinality(InHand(b)') = Cardinality(InHand(b)) + 1
      BY <2>3, <2>4, BurgerSets, FS_AddElement DEF BurgerInv
    <3>3. Held(b)' = Cardinality(OnStack(b)') + Cardinality(InHand(b)')
      BY DEF Held, OnStack, InHand
    <3>4. uneaten'[b] = Held(b)
      BY <1>2 DEF BurgerInv, EatenOnce
    <3> QED
      BY <3>1, <3>2, <3>3, <3>4, BurgerSets DEF BurgerInv
  <2>5. CASE buffer[Top] # b
    BY <1>2, <1>4, <2>2, <2>3, <2>5, OtherBurgers DEF BurgerInv
  <2> QED
    BY <2>4, <2>5
<1> QED
  BY <1>4, <1>5, <1>6 DEF BurgerInv, EatenOnce

LEMMA BurgerEaten ==
  ASSUME HoldThreads, LabelInv, BurgerInv, Consume_Item
  PROVE  BurgerInv'
<1>1. me \in Threads /\ at[me] = "second"
  BY InRound DEF Consume_Item, Labels
<1>2. /\ uneaten' = [uneaten EXCEPT ![item[me]] = @ - 1]
      /\ item' = [item EXCEPT ![me] = NoBurger]
      /\ Goes("release") /\ UNCHANGED <<buffer, bufferIndex, globalCounter>>
  BY DEF Consume_Item, Works
<1>3. StackTyped'
  <2>1. uneaten' \in [Ids -> Int]
    <3>1. \A b \in Ids : uneaten[b] \in Int /\ uneaten[b] - 1 \in Int
      BY DEF BurgerInv, StackTyped
    <3>2. uneaten' = [b \in Ids |-> IF b = item[me] THEN uneaten[b] - 1 ELSE uneaten[b]]
      BY <1>2 DEF BurgerInv, StackTyped
    <3> QED
      BY <3>1, <3>2
  <2> QED
    BY <1>1, <1>2, <2>1 DEF BurgerInv, StackTyped
<1>4. HandsInv'
  BY <1>1, <1>2 DEF BurgerInv, HandsInv, StackTyped, LabelInv, Goes
<1>5. ASSUME NEW b \in Ids PROVE uneaten'[b] = Held(b)'
  <2>1. b # NoBurger
    BY DEF Ids, NoBurger
  <2>2. OnStack(b)' = OnStack(b)
    BY <1>2 DEF OnStack
  <2>3. InHand(b)' = InHand(b) \ {me} /\ (me \in InHand(b) <=> item[me] = b)
    BY <1>1, <1>2, <2>1 DEF InHand, BurgerInv, StackTyped
  <2>4. CASE item[me] = b
    <3>1. Cardinality(InHand(b)') = Cardinality(InHand(b)) - 1
      BY <2>3, <2>4, BurgerSets, FS_RemoveElement DEF BurgerInv
    <3>2. Held(b)' = Cardinality(OnStack(b)') + Cardinality(InHand(b)')
      BY DEF Held, OnStack, InHand
    <3>3. uneaten'[b] = uneaten[b] - 1 /\ uneaten[b] = Held(b)
      BY <1>2, <2>4 DEF BurgerInv, StackTyped, EatenOnce
    <3> QED
      BY <2>2, <3>1, <3>2, <3>3, BurgerSets DEF BurgerInv
  <2>5. CASE item[me] # b
    <3>1. uneaten'[b] = uneaten[b]
      BY <1>2, <2>5 DEF BurgerInv, StackTyped
    <3> QED
      BY <1>3, <2>2, <2>3, <2>5, <3>1, OtherBurgers DEF BurgerInv
  <2> QED
    BY <2>4, <2>5
<1> QED
  BY <1>3, <1>4, <1>5 DEF BurgerInv, EatenOnce

LEMMA BurgersKept ==
  ASSUME HoldThreads, LabelInv, BurgerInv, [BurgersNext]_burgersVars
  PROVE  BurgerInv'
<1>1. CASE UNCHANGED burgersVars
  BY <1>1, BurgersStay DEF burgersVars
<1>2. CASE main
  <2>1. UNCHANGED stackVars /\ (UNCHANGED at \/ at' = [at EXCEPT ![1] = "forks"])
    BY <1>2 DEF main
  <2>2. \A t \in Threads : at[t] = "second" => at'[t] = "second"
    BY <2>1 DEF LabelInv
  <2> QED
    BY <2>1, <2>2, BurgersStay
<1>3. CASE funcA
  <2>1. me \in Threads /\ at[me] = "forks" /\ SemInv
    BY <1>3, Caller DEF HoldThreads, funcA, At, me
  <2>2. \/ at' = [at EXCEPT ![me] = "end"]
        \/ at' = [at EXCEPT ![gThreadID + 1] = "P"]
    BY <1>3 DEF funcA, Goes, t_fork, NewTcb
  <2>3. ~Born(gThreadID + 1)
    BY <2>1, KernelAssumption DEF SemInv, TypeOK, Born
  <2>4. \A t \in Threads : at[t] = "second" => at'[t] = "second"
    BY <2>1, <2>2, <2>3 DEF LabelInv
  <2>5. UNCHANGED stackVars
    BY <1>3 DEF funcA
  <2> QED
    BY <2>4, <2>5, BurgersStay
<1>4. CASE returns \/ systemStep \/ tick \/ begins \/ Kernel(halted)
  <2>1. UNCHANGED <<at, stackVars>>
    BY <1>4 DEF returns, systemStep, tick, begins, Kernel
  <2> QED
    BY <2>1, BurgersStay
<1>5. CASE waits \/ tests \/ takes \/ releases \/ raises
  <2>1. PICK k \in {"P", "test", "take", "release", "V"} :
          At(k) /\ UNCHANGED stackVars /\ \E l \in Labels : Goes(l)
    BY <1>5 DEF waits, tests, takes, releases, raises, Calls, Labels
  <2>2. PICK l \in Labels : at' = [at EXCEPT ![me] = l]
    BY <2>1 DEF Goes
  <2>3. \A t \in Threads : at[t] = "second" => at'[t] = "second"
    BY <2>1, <2>2 DEF At, LabelInv
  <2> QED
    BY <2>1, <2>3, BurgersStay
<1>6. CASE Produce_Item \/ Insert_Item \/ Remove_Item \/ Consume_Item
  BY <1>6, BurgerMade, BurgerStacked, BurgerPicked, BurgerEaten
<1> QED
  BY <1>1, <1>2, <1>3, <1>4, <1>5, <1>6 DEF BurgersNext, round

LEMMA WholeInit ==
  BurgersInit => HoldThreads /\ SectionInv /\ LabelInv /\ TokenInv /\ BurgerInv
BY HoldInit, InitSection, LabelsInit, TokenInit, BurgerInit

LEMMA WholeNext ==
  HoldThreads /\ SectionInv /\ LabelInv /\ TokenInv /\ BurgerInv
    /\ [BurgersNext]_burgersVars
  => (HoldThreads /\ SectionInv /\ LabelInv /\ TokenInv /\ BurgerInv)'
BY SectionNext, TokensNext, BurgersKept

\* The burgers produced and not yet consumed are those on the stack and in hands,
\* each as often as it was produced: none is lost, and none is eaten twice,
\* whatever the slices and even after globalCounter started again.
THEOREM BurgersEatenOnce == BurgersSpec => []EatenOnce
<1>1. HoldThreads /\ SectionInv /\ LabelInv /\ TokenInv /\ BurgerInv => EatenOnce
  BY DEF BurgerInv
<1> QED
  BY <1>1, WholeInit, WholeNext, PTL DEF BurgersSpec

MisledTyped == misled \in BOOLEAN

\* Every variable of the burger program keeps its type.  The values of the two
\* semaphores are among them: natural numbers, for any number of threads.
THEOREM BurgersTypes == BurgersSpec => []BurgersTypeOK
<1>1. BurgersInit => MonitorsTyped
  BY MutexAssumption DEF BurgersInit, MonitorsInit, MonitorsTyped
<1>2. SectionInv' /\ MonitorsTyped /\ [BurgersNext]_burgersVars => MonitorsTyped'
  <2> SUFFICES ASSUME SectionInv', MonitorsTyped, [BurgersNext]_burgersVars
               PROVE  MonitorsTyped'
      OBVIOUS
  <2>1. UNCHANGED <<waiters, conditionWaiters, arg>>
    BY DEF BurgersNext, burgersVars, monitorVars, main, funcA, returns, systemStep,
           tick, Kernel, round, begins, waits, tests, takes, releases, raises, Produce_Item,
           Insert_Item, Remove_Item, Consume_Item, Calls, Works, TakesLock,
           lock_release
  <2> QED
    BY <2>1 DEF MonitorsTyped, SectionInv
<1>3. BurgersInit => MisledTyped
  BY Zenon DEF BurgersInit, MisledTyped
<1>4. MisledTyped /\ [BurgersNext]_burgersVars => MisledTyped'
  <2>1. ASSUME misled' = (misled \/ func[userFunction] # func[me])
        PROVE  misled' \in BOOLEAN
    BY <2>1, Zenon
  <2>2. ASSUME [BurgersNext]_burgersVars, ~begins PROVE misled' = misled
    BY <2>2
    DEF BurgersNext, burgersVars, funcVars, main, funcA, returns, systemStep,
        tick, Kernel, round, waits, tests, takes, releases, raises, Produce_Item,
        Insert_Item, Remove_Item, Consume_Item, Calls, Works
  <2> QED
    BY <2>1, <2>2 DEF begins, MisledTyped
<1>5. HoldThreads /\ SectionInv /\ LabelInv /\ BurgerInv /\ MonitorsTyped
        /\ MisledTyped
      => BurgersTypeOK
  BY DEF HoldThreads, SemInv, SectionInv, LabelInv, Functions, BurgerInv, StackTyped,
         MisledTyped, BurgersTypeOK
<1> QED
  BY <1>1, <1>2, <1>3, <1>4, <1>5, WholeInit, WholeNext, PTL DEF BurgersSpec
=============================================================================
