----------------------------- MODULE MCUploads -----------------------------
(* Uploads on small instances. *)
EXTENDS Uploads, TLC

Symmetry == Permutations(Uploads) \union Permutations(Files) \union Permutations(Requests)
=============================================================================
