----------------------------- MODULE MCElevator -----------------------------
(* The programs TEST5A, TEST5B and TEST5C, and smaller ones like them. *)
EXTENDS Elevator

NoJoin == {}
NoLocks == {}
TheConds == AllConds
Everybody == Threads

Program(s, ticks) == [script |-> s, ticks |-> ticks]

E(s, e) == Rider(Employee, s, e)
D(s, e) == Rider(Director, s, e)
P(s, e) == Rider(President, s, e)
Y(n)    == [i \in 1 .. n |-> Yields]

\* Without a tick: the three programs, and more riders on a floor than the
\* elevator holds.  With one or two ticks anywhere: small programs in which
\* riders of different rank want the same floor.
Tests ==
  {Program(script5A, 0), Program(script5B, 0), Program(script5C, 0),
   Program([i \in 1 .. 7 |-> E(2, 3)] \o Y(1) \o <<E(1, 4)>>, 0),
   Program(<<E(1, 3), E(1, 2), Yields, D(1, 3), P(2, 1)>>, 1),
   Program(<<E(2, 3)>> \o Y(1) \o <<E(2, 4)>> \o Y(4) \o <<P(2, 5)>>, 1),
   Program(<<E(2, 3)>> \o Y(1) \o <<D(2, 4), D(2, 5)>> \o Y(4) \o <<P(2, 5)>>, 1),
   Program(Y(1) \o <<E(1, 2)>>, 2)}

\* A director calls while another, whose request is in the entry that is then
\* free again by count, is still inside.
Directors ==
  {Program(<<E(1, 2)>> \o Y(1) \o <<D(1, 2), D(1, 5)>> \o Y(6) \o <<D(3, 4)>>, 0)}
=============================================================================
