----------------------------- MODULE MCAccounts -----------------------------
(* Accounts on a small instance. *)
EXTENDS Accounts, TLC

Interchangeable == Permutations(Users) \cup Permutations(Requests) \cup Permutations(Logins)
=============================================================================
