----------------------------- MODULE ThreadLife -----------------------------
(***************************************************************************)
(* What the thread system promises its client, without queues, counts,     *)
(* contexts, tables or a signal mask: one processor, given to a ready      *)
(* thread of the highest priority, and taken away at any moment; a joining *)
(* thread waits for exactly as long as the user function of its target     *)
(* runs, and no thread is gone while another waits for it.                 *)
(***************************************************************************)
EXTENDS Integers

CONSTANTS Threads, TopPriority

NoThread == 0
Levels   == 0 .. TopPriority
Stages   == {"unborn", "ready", "running", "joining", "gone"}

VARIABLES
  life,     \* stage of each thread
  level,    \* priority of each thread
  target,   \* the thread that a joining thread waits for
  over      \* the threads whose user function has returned

lifeVars == <<life, level, target, over>>

Running == {t \in Threads : life[t] = "running"}
Ready   == {t \in Threads : life[t] = "ready"}
Waiting(u) == {w \in Threads : life[w] = "joining" /\ target[w] = u}

LifeInit ==
  /\ life = [t \in Threads |-> "unborn"]
  /\ level = [t \in Threads |-> 0]
  /\ target = [t \in Threads |-> NoThread]
  /\ over = {}

\* The first thread comes from main.
Start(t, p) ==
  /\ \A s \in Threads : life[s] = "unborn"
  /\ life' = [life EXCEPT ![t] = "ready"]
  /\ level' = [level EXCEPT ![t] = p]
  /\ UNCHANGED <<target, over>>

\* Any other comes from a running thread c, which goes back to the ready
\* threads when the new one is more important.
Fork(c, t, p) ==
  /\ c \in Running
  /\ life[t] = "unborn"
  /\ life' = [life EXCEPT ![t] = "ready",
                          ![c] = IF p > level[c] THEN "ready" ELSE @]
  /\ level' = [level EXCEPT ![t] = p]
  /\ UNCHANGED <<target, over>>

Preempt(t) ==
  /\ t \in Running
  /\ life' = [life EXCEPT ![t] = "ready"]
  /\ UNCHANGED <<level, target, over>>

Await(t, u) ==
  /\ t \in Running
  /\ life[u] \notin {"unborn", "gone"}
  /\ life' = [life EXCEPT ![t] = "joining"]
  /\ target' = [target EXCEPT ![t] = u]
  /\ UNCHANGED <<level, over>>

Finish(t) ==
  /\ t \in Running
  /\ over' = over \cup {t}
  /\ UNCHANGED <<life, level, target>>

Release(w) ==
  /\ life[w] = "joining"
  /\ target[w] \in over \cap Running
  /\ life' = [life EXCEPT ![w] = "ready"]
  /\ UNCHANGED <<level, target, over>>

\* A thread may leave without returning from its user function.
Leave(t) ==
  /\ t \in Running
  /\ Waiting(t) = {}
  /\ life' = [life EXCEPT ![t] = "gone"]
  /\ over' = over \cup {t}
  /\ UNCHANGED <<level, target>>

Dispatch(t) ==
  /\ Running = {}
  /\ t \in Ready
  /\ \A s \in Ready : level[s] <= level[t]
  /\ life' = [life EXCEPT ![t] = "running"]
  /\ UNCHANGED <<level, target, over>>

LifeNext ==
  \/ \E t \in Threads, p \in Levels : Start(t, p)
  \/ \E c, t \in Threads, p \in Levels : Fork(c, t, p)
  \/ \E t, u \in Threads : Await(t, u)
  \/ \E t \in Threads : Preempt(t) \/ Finish(t) \/ Release(t) \/ Leave(t)
                          \/ Dispatch(t)

LifeSpec == LifeInit /\ [][LifeNext]_lifeVars
=============================================================================
