---------------------------- MODULE MCSessionDraft ---------------------------
(* Instances of SessionDraft for TLC. *)
EXTENDS SessionDraft, TLC

Symmetry == Permutations(Turns)

=============================================================================
