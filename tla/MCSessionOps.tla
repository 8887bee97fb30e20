---------------------------- MODULE MCSessionOps ----------------------------
(***************************************************************************)
(* Small instances of SessionOps.                                          *)
(***************************************************************************)
EXTENDS SessionOps, TLC

CONSTANTS a, b

Keyed(S, p) == [kind |-> "keyed", keys |-> S, plan |-> p]
Barrier(p) == [kind |-> "barrier", keys |-> {}, plan |-> p]
Query == [kind |-> "query", keys |-> {}, plan |-> "read"]

MCKeys == {a, b}

(* a get or mutation of one key, a write on both, a barrier and a query: they
   share slots, readers and the writer *)
MixedShapes ==
  {Keyed({a}, "read_write"), Keyed(MCKeys, "write"), Barrier("write"), Query}
=============================================================================
