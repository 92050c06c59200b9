----------------------------- MODULE MCBurgers -----------------------------
(* A small instance of TEST4. *)
EXTENDS Burgers

NoJoin == {}
TheLock == {"mutex"}
NoCond == {}
=============================================================================
