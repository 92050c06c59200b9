------------------------------ MODULE MCBridge ------------------------------
(* The programs TEST3A, TEST3B and TEST3C, and small ones like them. *)
EXTENDS Bridge

NoJoin == {}
TheLock == {"my_lock"}
TheCond == {"cond"}

Program(cars, batches, times, ticks) ==
  [cars |-> cars, batches |-> batches, signals |-> times, ticks |-> ticks]

\* The three programs with one tick anywhere, and shorter ones with two and
\* three ticks.
Tests == {Program(cars3A, FALSE, 30, 1), Program(cars3B, FALSE, 30, 1),
          Program(cars3C, TRUE, 30, 1),
          Program(<<"north", "south", "north">>, FALSE, 3, 3),
          Program(<<"north", "south", "north", "south">>, TRUE, 1, 2)}

Three == {Program(<<"north", "south", "north">>, FALSE, 3, 3)}
=============================================================================
