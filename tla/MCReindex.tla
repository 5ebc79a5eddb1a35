----------------------------- MODULE MCReindex -----------------------------
(* Re-indexing on small instances: which request asks for what.            *)
EXTENDS Reindex, TLC

CONSTANTS Creations, Rollbacks, Pauses, Resumes, Cancellations, Retries, Deletions

MCRequests == UNION {Creations, Rollbacks, Pauses, Resumes, Cancellations,
                     Retries, Deletions}

MCKind == [q \in MCRequests |-> CASE q \in Creations     -> "create"
                                  [] q \in Rollbacks     -> "rollback"
                                  [] q \in Pauses        -> "pause"
                                  [] q \in Resumes       -> "resume"
                                  [] q \in Cancellations -> "cancel"
                                  [] q \in Retries       -> "retry"
                                  [] q \in Deletions     -> "delete"]

Symmetry == Permutations(Workers)
=============================================================================
