--------------------------- MODULE MCThreadKernel ---------------------------
(* Small instances of ThreadKernel for TLC: who joins whom. *)
EXTENDS ThreadKernel

NoJoin   == {}
Chain    == {<<1, 2>>, <<3, 1>>}             \* one joiner per thread
Repeated == {<<1, 2>>, <<1, 3>>, <<1, 4>>}   \* one thread joins three
=============================================================================
