---------------------------- MODULE MCSemaphores ----------------------------
(* Small instances of SemaphoreCalls for TLC. *)
EXTENDS SemaphoreCalls

NoJoin == {}
=============================================================================
