---------------------------- MODULE EpilogueRace ----------------------------
(***************************************************************************)
(* The part of incrementStack after the user function runs with the timer  *)
(* enabled, and wakes joiners with q_insert and threadLevelCount++.  Here  *)
(* these two are taken apart into their statements, for one ending thread  *)
(* (waker), the joiner it wakes (woken) and other threads, all of one      *)
(* priority, hence on one ready queue.  The queue is that of module Queue, *)
(* whose q_insert timerHandler calls with the signal blocked.              *)
(***************************************************************************)
EXTENDS Queue

CONSTANTS waker, woken    \* two of the Objects

VARIABLES
  count,      \* threadLevelCount of the level
  running,    \* the thread on the processor; NULL while Scheduler has it
  at,         \* the next statement of the waker
  newObj,     \* its local of that name
  register,   \* the value it loaded to increment
  asleep      \* the threads that have never been ready

raceVars == <<queueVars, count, running, at, newObj, register, asleep>>
list     == <<head, tail, numObj, heap, cells>>
flags    == <<valid, crashed, ret, lost>>

RaceInit ==
  /\ head = NULL /\ tail = NULL /\ numObj = 0
  /\ obj = [n \in Nodes |-> NULL] /\ next = [n \in Nodes |-> NULL]
  /\ allocated = {} /\ cells = <<>> /\ lost = {}
  /\ valid = TRUE /\ crashed = FALSE /\ ret = NULL
  /\ count = 0
  /\ running = waker
  /\ at = "userFunction"
  /\ newObj = NULL
  /\ register = 0
  /\ asleep = Objects \ {waker, woken}

\* q_insert as the others call it, in one step; memory does not run out here.
Inserts(o) == q_insert(o) /\ numObj' = numObj + 1 /\ count' = count + 1

\* The running thread forks another one; its body does nothing else of interest.
forks(o) ==
  /\ running # NULL /\ (running = waker => at = "userFunction")
  /\ o \in asleep
  /\ asleep' = asleep \ {o}
  /\ Inserts(o)
  /\ UNCHANGED <<running, at, newObj, register>>

\* timerHandler, at any statement of the waker and in the body of any other
tick ==
  /\ running # NULL
  /\ Inserts(running)
  /\ running' = NULL
  /\ UNCHANGED <<at, newObj, register, asleep>>

-----------------------------------------------------------------------------
(* The statements of the waker. *)

Statement(from, to) ==
  running = waker /\ ~crashed /\ at = from /\ at' = to

returns ==
  /\ Statement("userFunction", "malloc")
  /\ UNCHANGED <<queueVars, count, running, newObj, register, asleep>>

mallocs ==
  /\ Statement("malloc", "link")
  /\ \E n \in Nodes \ allocated :
       /\ newObj' = n
       /\ allocated' = allocated \cup {n}
       /\ obj' = [obj EXCEPT ![n] = woken]
       /\ next' = [next EXCEPT ![n] = NULL]
  /\ UNCHANGED <<head, tail, numObj, cells, flags, count, running, register, asleep>>

links ==
  /\ Statement("link", "tail")
  /\ next' = [m \in Nodes |-> IF m = tail THEN newObj ELSE next[m]]
  /\ UNCHANGED <<head, tail, numObj, obj, allocated, cells, flags, count,
                 running, newObj, register, asleep>>

setsTail ==
  /\ Statement("tail", "head")
  /\ tail' = newObj
  /\ cells' = Append(cells, newObj)
  /\ UNCHANGED <<head, numObj, heap, flags, count, running, newObj, register, asleep>>

setsHead ==
  /\ Statement("head", "numObj")
  /\ head' = IF head = NULL THEN newObj ELSE head
  /\ UNCHANGED <<tail, numObj, heap, cells, flags, count, running, newObj,
                 register, asleep>>

countsObj ==
  /\ Statement("numObj", "load")
  /\ numObj' = numObj + 1
  /\ UNCHANGED <<head, tail, heap, cells, flags, count, running, newObj,
                 register, asleep>>

\* threadLevelCount[...]++ as a load and a store
loads ==
  /\ Statement("load", "store")
  /\ register' = count
  /\ UNCHANGED <<list, flags, count, running, newObj, asleep>>

stores ==
  /\ Statement("store", "gone")
  /\ count' = register + 1
  /\ running' = NULL
  /\ UNCHANGED <<list, flags, newObj, register, asleep>>

-----------------------------------------------------------------------------
(* Scheduler, with the signal blocked. *)

\* It found a count above zero, and crashes when q_remove finds no node, or
\* finds its last node while numObj says there are more ("queue error") and
\* returns NULL.
finds ==
  /\ running = NULL /\ ~crashed /\ count > 0
  /\ count' = count - 1
  /\ \/ /\ head # NULL
        /\ next[head] # NULL \/ numObj = 1
        /\ running' = obj[head]
        /\ head' = next[head]
        /\ tail' = TailAfterRemove
        /\ numObj' = numObj - 1
        /\ allocated' = allocated \ {head}
        /\ cells' = Tail(cells)
        /\ UNCHANGED crashed
     \/ /\ head = NULL \/ (next[head] = NULL /\ numObj # 1)
        /\ crashed' = TRUE
        /\ UNCHANGED <<running, head, tail, numObj, allocated, cells>>
  /\ UNCHANGED <<obj, next, valid, ret, lost, at, newObj, register, asleep>>

over == (crashed \/ (running = NULL /\ count = 0)) /\ UNCHANGED raceVars

RaceNext ==
  \/ \E o \in Objects : forks(o)
  \/ tick \/ returns \/ mallocs \/ links \/ setsTail \/ setsHead \/ countsObj
  \/ loads \/ stores \/ finds \/ over

RaceSpec == RaceInit /\ [][RaceNext]_raceVars

\* "The thread system could be in the middle of updating some queue ... and
\* hence would result in a crash of the thread system itself.  To handle and
\* avoid this situation as soon as the thread system gains control of the
\* processor it immediately disables the timer interrupt" (README.md).
QueueNeverCrashes == ~crashed
=============================================================================
