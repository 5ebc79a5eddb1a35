---------------------------- MODULE MCIngestion ----------------------------
(* Ingestion on small instances: which request asks for what.              *)
EXTENDS Ingestion, TLC

CONSTANTS Creations, Retries, Deletions

MCRequests == Creations \union Retries \union Deletions

MCKind == [q \in MCRequests |-> CASE q \in Creations -> "create"
                                  [] q \in Retries   -> "retry"
                                  [] q \in Deletions -> "delete"]

Symmetry == Permutations(Workers)
=============================================================================
