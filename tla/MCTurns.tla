------------------------------ MODULE MCTurns ------------------------------
(* The turns of a Conversation on a small instance. *)
EXTENDS Turns
=============================================================================
