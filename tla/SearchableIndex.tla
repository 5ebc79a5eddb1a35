-------------------------- MODULE SearchableIndex --------------------------
(***************************************************************************)
(* What retrieval is promised about one Knowledge Base: for each Document  *)
(* either nothing is searchable, or exactly one complete batch of chunks   *)
(* of one chunking version is; evidence appears, or is replaced, only in a *)
(* step that also advances the index generation.                           *)
(***************************************************************************)
EXTENDS Naturals

CONSTANTS Documents, Versions, None

VARIABLES
  index,      \* the version of the searchable batch of each Document, or None
  generation  \* the index generation

Init ==
  /\ index = [d \in Documents |-> None]
  /\ generation = 0

(* A complete batch becomes searchable, in place of any earlier one. *)
Publish(d, v) ==
  /\ index' = [index EXCEPT ![d] = v]
  /\ generation' = generation + 1

(* Evidence may disappear under an unchanged generation. *)
Withdraw(d) ==
  /\ index[d] # None
  /\ index' = [index EXCEPT ![d] = None]
  /\ generation' \in {generation, generation + 1}

(* The generation may advance for no visible reason. *)
Advance ==
  /\ generation' = generation + 1
  /\ UNCHANGED index

Next ==
  \/ \E d \in Documents : Withdraw(d) \/ \E v \in Versions : Publish(d, v)
  \/ Advance

Spec == Init /\ [][Next]_<<index, generation>>
=============================================================================
