--------------------------- MODULE MCAgentDispatch ---------------------------
(***************************************************************************)
(* Small instances of AgentDispatch.                                       *)
(***************************************************************************)
EXTENDS AgentDispatch, TLC

CONSTANTS i1, i2, i3, c1, c2, d1, d2, j1, j2
=============================================================================
