-------------------------- MODULE MCLocalTriggers --------------------------
(* Small instances of the trigger queue.                                   *)
EXTENDS LocalTriggers
CONSTANT t1
=============================================================================
