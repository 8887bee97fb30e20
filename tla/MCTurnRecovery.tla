--------------------------- MODULE MCTurnRecovery ---------------------------
(* Two clicks may be decided at the same time, or only one.                *)
EXTENDS TurnRecovery

TwoClickers == 1..2
OneClicker == 1..1
=============================================================================
