---------------------------- MODULE RunIngestion ----------------------------
(***************************************************************************)
(* The rows of the documents table of one Knowledge Base, and the two      *)
(* procedures that background workers run on them:                         *)
(*                                                                         *)
(*   run_ingestion  claim, extract, ..., embed, persist   (tasks.py)       *)
(*   run_purge      remove the original, then the row     (tasks.py)       *)
(*                                                                         *)
(* Each action is one database transaction, or one file operation, of one  *)
(* worker: several workers may be at different steps of the same Document. *)
(* How a worker comes to run (a queue message, a re-index batch) and what  *)
(* it does with the outcome belongs to the modules that extend this one.   *)
(***************************************************************************)
EXTENDS Naturals

CONSTANTS
  Documents,                 \* identities a Document may be uploaded under
  Workers,                   \* Celery worker processes
  Versions,                  \* chunking versions
  Hierarchical,              \* the version build_chunker gives a hierarchy for
  SummaryGenerationEnabled,  \* settings.summary_generation_enabled
  MaxPurgeRetries,           \* max_retries of the purge task
  None                       \* "no Document", "no version", "no chunks"

ASSUME VersionAssumption == None \notin Versions
ASSUME SummaryAssumption == SummaryGenerationEnabled \in BOOLEAN
ASSUME PurgeRetryAssumption == MaxPurgeRetries \in Nat

VARIABLES
  status,           \* documents.status; "absent" before the INSERT, "purged"
                    \* after the DELETE of the row
  stage,            \* documents.ingestion_stage
  safeError,        \* documents.safe_error: none, that of a failed run, or that
                    \* of a queue that was unavailable
  attempts,         \* documents.ingestion_attempts
  chunkingVersion,  \* documents.chunking_version
  stale,            \* updated_at <= now - ingestion_stale_after_seconds
  chunks,           \* version of the chunks rows of the Document, None if none
  generation,       \* knowledge_bases.index_generation
  original,         \* the stored original file exists
  run               \* what each worker is doing

rowVars == <<status, stage, safeError, attempts, chunkingVersion, stale>>
storeVars == <<chunks, generation, original>>
documentVars == <<rowVars, storeVars, run>>

-----------------------------------------------------------------------------
(* Vocabulary. *)

Statuses == {"pending", "processing", "ready", "failed", "deleting"}
NoRow == {"absent", "purged"}
Stages == {"extract", "normalize", "construct", "validate", "summarize",
           "embed", "persist"}
StageColumn == Stages \union {"none", "queued", "ready", "failed", "deleting"}
Errors == {"none", "ingestion", "queue"}

ClaimSteps == {"claim", "recheck", "open"}
PurgeSteps == {"purge", "removeFile", "deleteRow"}
(* What run_ingestion returns; "raised" when it ends with an exception.    *)
IngestionOutcomes == {"completed", "failed", "skipped", "busy", "raised"}
(* What run_purge comes to; a retry is what an OSError gets.               *)
PurgeOutcomes == {"purgeDone", "purgeRetry", "purgeRaised"}
Steps == {"idle"} \union ClaimSteps \union Stages \union PurgeSteps
           \union IngestionOutcomes \union PurgeOutcomes

Tasks == {"none", "ingest", "purge", "reindex"}

Runs == [task     : Tasks,
         step     : Steps,
         document : Documents \union {None},
         version  : Versions \union {None},
         claim    : Nat,     \* the ingestion_attempts its claim wrote, else 0
         retries  : 0..MaxPurgeRetries]

Idle == [task |-> "none", step |-> "idle", document |-> None,
         version |-> None, claim |-> 0, retries |-> 0]

(* A worker starts run_ingestion, or run_purge, on a Document. *)
IngestionRun(task, d, v) ==
  [task |-> task, step |-> "claim", document |-> d, version |-> v,
   claim |-> 0, retries |-> 0]

PurgeRun(d, r) ==
  [task |-> "purge", step |-> "purge", document |-> d, version |-> None,
   claim |-> 0, retries |-> r]

HasRow(d) == status[d] \notin NoRow

GoTo(w, step) == run' = [run EXCEPT ![w].step = step]

DocumentInit ==
  /\ status = [d \in Documents |-> "absent"]
  /\ stage = [d \in Documents |-> "none"]
  /\ safeError = [d \in Documents |-> "none"]
  /\ attempts = [d \in Documents |-> 0]
  /\ chunkingVersion = [d \in Documents |-> None]
  /\ stale = [d \in Documents |-> FALSE]
  /\ chunks = [d \in Documents |-> None]
  /\ generation = 0
  /\ original = [d \in Documents |-> FALSE]
  /\ run = [w \in Workers |-> Idle]

-----------------------------------------------------------------------------
(* Claiming. *)

(* Mutant of Claimable: a stale claim is never taken over. *)
ClaimableOnce(d) == status[d] \in {"pending", "failed"}

Claimable(d) ==
  \/ status[d] \in {"pending", "failed"}
  \/ status[d] = "processing" /\ stale[d]

(* The UPDATE ... WHERE of the claim matched the row. *)
Claim(w) ==
  LET d == run[w].document IN
  /\ run[w].step = "claim"
  /\ Claimable(d)
  /\ status' = [status EXCEPT ![d] = "processing"]
  /\ stage' = [stage EXCEPT ![d] = "extract"]
  /\ safeError' = [safeError EXCEPT ![d] = "none"]
  /\ attempts' = [attempts EXCEPT ![d] = @ + 1]
  /\ stale' = [stale EXCEPT ![d] = FALSE]
  /\ run' = [run EXCEPT ![w].step = "open", ![w].claim = attempts[d] + 1]
  /\ UNCHANGED <<chunkingVersion, storeVars>>

(* It matched no row (rowcount 0) ... *)
ClaimRefused(w) ==
  /\ run[w].step = "claim"
  /\ ~Claimable(run[w].document)
  /\ GoTo(w, "recheck")
  /\ UNCHANGED <<rowVars, storeVars>>

(* Mutant of Recheck: a busy Document is not come back to. *)
RecheckNeverBusy(w) ==
  /\ run[w].step = "recheck"
  /\ GoTo(w, "skipped")
  /\ UNCHANGED <<rowVars, storeVars>>

(* ... and a second statement reads the status the outcome is chosen by.   *)
Recheck(w) ==
  /\ run[w].step = "recheck"
  /\ GoTo(w, IF status[run[w].document] = "processing" THEN "busy"
                                                       ELSE "skipped")
  /\ UNCHANGED <<rowVars, storeVars>>

(* The second session loads the row and records parser_version: the write  *)
(* refreshes updated_at only when the version differs from the stored one. *)
Open(w) ==
  LET d == run[w].document IN
  /\ run[w].step = "open"
  /\ \/ /\ ~HasRow(d)
        /\ GoTo(w, "skipped")
        /\ UNCHANGED stale
     \/ /\ HasRow(d)
        /\ GoTo(w, "extract")
        /\ stale' \in {stale, [stale EXCEPT ![d] = FALSE]}
  /\ UNCHANGED <<status, stage, safeError, attempts, chunkingVersion, storeVars>>

-----------------------------------------------------------------------------
(* The stages. *)

NextStage(s, v) ==
  CASE s = "extract"   -> "normalize"
    [] s = "normalize" -> "construct"
    [] s = "construct" -> "validate"
    [] s = "validate"  -> IF v = Hierarchical /\ SummaryGenerationEnabled
                            THEN "summarize" ELSE "embed"
    [] s = "summarize" -> "embed"
    [] s = "embed"     -> "persist"

(* Mutant of FinishStage: progress is reported whatever the status. *)
FinishStageUnguarded(w) ==
  LET d == run[w].document
      next == NextStage(run[w].step, run[w].version) IN
  /\ run[w].step \in Stages \ {"persist"}
  /\ run[w].step = "extract" => original[d]
  /\ GoTo(w, next)
  /\ stage' = [stage EXCEPT ![d] = next]
  /\ stale' = [stale EXCEPT ![d] = FALSE]
  /\ UNCHANGED <<status, safeError, attempts, chunkingVersion, storeVars>>

(* Mutant of FinishStage: chunks are stored as soon as they are embedded.  *)
FinishStageStoring(w) ==
  LET d == run[w].document
      next == NextStage(run[w].step, run[w].version) IN
  /\ run[w].step \in Stages \ {"persist"}
  /\ run[w].step = "extract" => original[d]
  /\ GoTo(w, next)
  /\ status[d] = "processing"
  /\ stage' = [stage EXCEPT ![d] = next]
  /\ stale' = [stale EXCEPT ![d] = FALSE]
  /\ chunks' = IF next = "persist" THEN [chunks EXCEPT ![d] = run[w].version]
                                   ELSE chunks
  /\ UNCHANGED <<status, safeError, attempts, chunkingVersion, generation, original>>

(* The work of a stage is done; _update_progress announces the next one,   *)
(* on a row that is still Processing.  Extraction reads the original file. *)
FinishStage(w) ==
  LET d == run[w].document
      next == NextStage(run[w].step, run[w].version) IN
  /\ run[w].step \in Stages \ {"persist"}
  /\ run[w].step = "extract" => original[d]
  /\ GoTo(w, next)
  /\ IF status[d] = "processing"
       THEN /\ stage' = [stage EXCEPT ![d] = next]
            /\ stale' = [stale EXCEPT ![d] = FALSE]
       ELSE UNCHANGED <<stage, stale>>
  /\ UNCHANGED <<status, safeError, attempts, chunkingVersion, storeVars>>

(* _mark_failed: only a row that is Processing becomes Failed. *)
MarkFailed(d) ==
  /\ IF status[d] = "processing"
       THEN /\ status' = [status EXCEPT ![d] = "failed"]
            /\ stage' = [stage EXCEPT ![d] = "failed"]
            /\ safeError' = [safeError EXCEPT ![d] = "ingestion"]
       ELSE UNCHANGED <<status, stage, safeError>>
  /\ UNCHANGED <<attempts, chunkingVersion, stale, storeVars>>

(* A stage raises (a bad file, a provider error, the final transaction).   *)
FailStage(w) ==
  /\ run[w].step \in Stages
  /\ MarkFailed(run[w].document)
  /\ GoTo(w, "failed")

(* The database is lost while claiming; _mark_failed runs all the same,    *)
(* whether or not this worker holds the claim.                             *)
FailClaiming(w) ==
  /\ run[w].step \in ClaimSteps
  /\ MarkFailed(run[w].document)
  /\ GoTo(w, IF run[w].step = "open" THEN "failed" ELSE "skipped")

(* The database is lost, and _mark_failed raises too. *)
FailUnrecorded(w) ==
  /\ run[w].step \in ClaimSteps \union Stages
  /\ GoTo(w, "raised")
  /\ UNCHANGED <<rowVars, storeVars>>

(* Mutant of Publish: the generation stays. *)
PublishSilently(w) ==
  LET d == run[w].document IN
  /\ run[w].step = "persist"
  /\ status[d] = "processing"
  /\ chunks' = [chunks EXCEPT ![d] = run[w].version]
  /\ status' = [status EXCEPT ![d] = "ready"]
  /\ safeError' = [safeError EXCEPT ![d] = "none"]
  /\ chunkingVersion' = [chunkingVersion EXCEPT ![d] = run[w].version]
  /\ stage' = [stage EXCEPT ![d] = "ready"]
  /\ GoTo(w, "completed")
  /\ UNCHANGED <<attempts, stale, generation, original>>

(* Mutant of Publish: the row is not locked and looked at again. *)
PublishUnlocked(w) ==
  LET d == run[w].document IN
  /\ run[w].step = "persist"
  /\ chunks' = [chunks EXCEPT ![d] = run[w].version]
  /\ status' = [status EXCEPT ![d] = "ready"]
  /\ safeError' = [safeError EXCEPT ![d] = "none"]
  /\ chunkingVersion' = [chunkingVersion EXCEPT ![d] = run[w].version]
  /\ stage' = [stage EXCEPT ![d] = "ready"]
  /\ generation' = generation + 1
  /\ GoTo(w, "completed")
  /\ UNCHANGED <<attempts, stale, original>>

(* The final transaction: lock the row, replace every chunk, publish. *)
Publish(w) ==
  LET d == run[w].document IN
  /\ run[w].step = "persist"
  /\ status[d] = "processing"
  /\ chunks' = [chunks EXCEPT ![d] = run[w].version]
  /\ status' = [status EXCEPT ![d] = "ready"]
  /\ safeError' = [safeError EXCEPT ![d] = "none"]
  /\ chunkingVersion' = [chunkingVersion EXCEPT ![d] = run[w].version]
  /\ stage' = [stage EXCEPT ![d] = "ready"]
  /\ generation' = generation + 1
  /\ GoTo(w, "completed")
  /\ UNCHANGED <<attempts, stale, original>>

PublishRefused(w) ==
  /\ run[w].step = "persist"
  /\ status[run[w].document] # "processing"
  /\ GoTo(w, "skipped")
  /\ UNCHANGED <<rowVars, storeVars>>

-----------------------------------------------------------------------------
(* run_purge. *)

(* Mutant of StartPurge: the row is deleted and the original forgotten. *)
StartPurgeRowFirst(w) ==
  /\ run[w].step = "purge"
  /\ GoTo(w, IF status[run[w].document] = "deleting" THEN "deleteRow"
                                                     ELSE "purgeDone")
  /\ UNCHANGED <<rowVars, storeVars>>

StartPurge(w) ==
  /\ run[w].step = "purge"
  /\ GoTo(w, IF status[run[w].document] = "deleting" THEN "removeFile"
                                                     ELSE "purgeDone")
  /\ UNCHANGED <<rowVars, storeVars>>

RemoveFile(w) ==
  /\ run[w].step = "removeFile"
  /\ original' = [original EXCEPT ![run[w].document] = FALSE]
  /\ GoTo(w, "deleteRow")
  /\ UNCHANGED <<rowVars, chunks, generation>>

(* An OSError: the task is retried, up to max_retries times. *)
RemoveFileFails(w) ==
  /\ run[w].step = "removeFile"
  /\ GoTo(w, "purgeRetry")
  /\ UNCHANGED <<rowVars, storeVars>>

(* The database is lost when the row is read or deleted: a refused         *)
(* connection is an OSError as well, any other error ends the task.        *)
PurgeLosesDatabase(w) ==
  /\ run[w].step \in {"purge", "deleteRow"}
  /\ GoTo(w, "purgeRetry") \/ GoTo(w, "purgeRaised")
  /\ UNCHANGED <<rowVars, storeVars>>

(* DELETE ... WHERE status = deleting; the chunks rows cascade. *)
DeleteRow(w) ==
  LET d == run[w].document IN
  /\ run[w].step = "deleteRow"
  /\ IF status[d] = "deleting"
       THEN /\ status' = [status EXCEPT ![d] = "purged"]
            /\ chunks' = [chunks EXCEPT ![d] = None]
            /\ generation' = generation + 1
       ELSE UNCHANGED <<status, chunks, generation>>
  /\ GoTo(w, "purgeDone")
  /\ UNCHANGED <<stage, safeError, attempts, chunkingVersion, stale, original>>

-----------------------------------------------------------------------------
(* A run makes progress, or fails in a way the code handles. *)
Work(w) ==
  \/ Claim(w) \/ ClaimRefused(w) \/ Recheck(w) \/ Open(w)
  \/ FinishStage(w) \/ FailStage(w) \/ Publish(w) \/ PublishRefused(w)
  \/ StartPurge(w) \/ RemoveFile(w) \/ DeleteRow(w)

(* updated_at of a Processing row falls behind the stale limit. *)
BecomeStale(d) ==
  /\ status[d] = "processing"
  /\ ~stale[d]
  /\ stale' = [stale EXCEPT ![d] = TRUE]
  /\ UNCHANGED <<status, stage, safeError, attempts, chunkingVersion, storeVars, run>>

DocumentTypeOK ==
  /\ status \in [Documents -> Statuses \union NoRow]
  /\ stage \in [Documents -> StageColumn]
  /\ safeError \in [Documents -> Errors]
  /\ attempts \in [Documents -> Nat]
  /\ chunkingVersion \in [Documents -> Versions \union {None}]
  /\ stale \in [Documents -> BOOLEAN]
  /\ chunks \in [Documents -> Versions \union {None}]
  /\ generation \in Nat
  /\ original \in [Documents -> BOOLEAN]
  /\ run \in [Workers -> Runs]
  /\ \A w \in Workers :
       /\ run[w].step # "idle" => run[w].document \in Documents
       /\ run[w].step \in ClaimSteps \union Stages => run[w].version \in Versions

=============================================================================
