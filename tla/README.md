# mikuRAG in TLA+

Specifications of mikuRAG, a retrieval-augmented chat over private Knowledge
Bases: a FastAPI back end, PostgreSQL as the canonical state, Redis as the
Celery broker and as a cache, Celery workers, and a directory of uploaded files.
Paths below are relative to `src/backend/app/` unless they say otherwise.

Everything here was written from the code. Where the code and a document of the
repository disagree, the model follows the code and the difference is listed
(see *Findings and observations*).

To check a run, `tlc -config MCTurns.cfg MCTurns`; to check a proof,
`tlapm TurnsProofs.tla`.

## 1. Inventory

| Component | State | Operations | Talks to |
|---|---|---|---|
| **Document ingestion and purge** `ingestion/tasks.py`, `ingestion/dispatch.py`, `celery_app.py` | row of `documents` (status, stage, safe_error, attempts, chunking_version, updated_at), `chunks`, `index_generation`, original file | claim, seven stages, publish, fail, purge | broker (at least once, late acknowledgement), file store |
| **Document administration API** `api/documents.py` | the row a request holds in its session | retry, delete, list | ingestion through messages and the shared row |
| **Resumable uploads** `api/uploads.py`, `uploads/` | `upload_sessions`, `upload_part_receipts`, temporary and final files | create, resume, put part, complete, cancel, hourly reconciliation | creates Documents, enqueues ingestion, shares the files with the cleanup |
| **Re-index jobs and rollout** `ingestion/reindexing.py`, `api/rollout.py`, `rollout.py` | `reindex_jobs`, `reindex_items`, Document status | create, pause, resume, cancel, rollback; claim batch, finish item, refresh job | calls `run_ingestion` directly; flips Document status under ingestion's feet |
| **Conversation turns** `api/conversations.py`, `rag/service.py` | `messages` (streaming, complete, failed), `citations` | create turn, stream, persist, fail, recover a stale turn | retrieval, generation provider |
| **Retrieval and its caches** `rag/retrieval.py`, `rag/retrievers.py`, `rag/cache.py`, `rag/summary_retrieval.py`, `rag/query_plan.py` | Redis entries keyed by index generation | plan, look up, retrieve, rerank, expand, store, reload | reads what ingestion and re-indexing publish |
| **Fusion, evidence assembly, grounding** `rag/fusion.py`, `rag/evidence_assembly.py`, `rag/grounding.py` | none | pure functions | called by retrieval and turns |
| **Accounts and sessions** `api/admin.py`, `api/auth.py`, `dependencies.py`, `rate_limit.py` | `users` (enabled, administrator, session_version), login counters | log in, create and update user, reset password, delete Knowledge Base | every request |
| **Text processing and chunk store** `ingestion/extraction.py`, `normalization.py`, `chunkers.py`, `chunking.py`, `hierarchical_chunking.py`, `validation.py`, `summarization.py`, `persistence.py` | none, but for the rows a stage stores | pure functions | the stages of ingestion |
| **Evaluation and acceptance** `evaluation/`, `acceptance.py` | an evaluation workspace (a Knowledge Base and files), the run's record | load a manifest, prepare, ingest, run cases, score, clean up, compare, accept | the same ingestion and retrieval as production |
| Benchmarks, telemetry, configuration, demo tools, web interface | - | - | not part of the running core |

What is hard in it, and what makes each component correct:

* **Ingestion.** The row lock is held only inside single transactions. A claim is
  a status and a timestamp, not a token: after `ingestion_stale_after_seconds`
  another worker takes the row over while the first may still be running, and
  nothing tells their writes apart. Messages come twice, workers die anywhere,
  reschedules get lost. *Correct when* a batch of chunks is published whole or
  not at all, the row tells the truth about it, superseded runs do no damage,
  nobody is left waiting, and a purge removes everything.
* **API.** Each request reads a row without a lock and writes it back later; the
  message is sent after the commit. *Correct when* a request cannot undo another
  one, and a crash between commit and message strands as little as possible.
* **Uploads.** File operations and transactions cannot be atomic together.
  *Correct when* the confirmed checkpoint never exceeds what is on disk, a part
  repeated is harmless, and a Document always has its original.
* **Re-indexing.** Items, jobs and Documents are changed in separate
  transactions by batches that can overlap. *Correct when* a completed job has
  nothing left over, every active job and every claimed Document has somebody
  who drives it, and a Document that was searchable stays so.
* **Turns.** A slow stream is declared stale by time alone. *Correct when* one
  answer at most streams per Conversation, an outcome is final, citations lead
  to evidence of the turn, and a dead stream blocks nobody for ever.
* **Caches.** Documents change between the reads of one retrieval, and an entry
  is filed under a generation that may already be past. *Correct when* a turn is
  given nothing that was not searchable, and misses nothing that always was.
* **Accounts.** Handlers count, decide and write without locks. *Correct when*
  an enabled Administrator remains, a revoked session stays revoked, and the
  limit on failed sign-ins holds as far as it can.
* **Text processing and ranking.** No state, but long pipelines of cutting,
  merging and limits, of which a test sees a few inputs. *Correct when* no text
  is lost or reordered on its way into the index, and the best evidence is not
  lost on its way to the model.
* **Evaluation.** Its failure paths run when something else has failed already.
  *Correct when* the record says what happened, and a favourable verdict is
  earned.

`PROJECT.json` lists each of these hazards at its line, with the property that
covers it.

## 2. Plan

| | Module | State |
|---|---|---|
| 1 | `RunIngestion`, `Ingestion`, refining `SearchableIndex` | checked, proved |
| 2 | `Uploads`: sessions, parts, receipts, the two files, the sweeps, refining `ResumableFile` | checked, proved |
| 3 | `Reindex`: jobs, items, batches, stale recovery | checked, proved |
| 4 | `Turns`: ask, stream, persist, fail, stale recovery | checked, proved |
| 5 | `RetrievalCache` over changing Documents | checked, proved |
| 6 | `Accounts`: last Administrator, session versions, sign-in limiter | checked, proved |
| 7 | Pure algorithms with the properties they are for | checked; the properties of retrieval, answers, plans and evaluations proved |

Left, in this order:

1. `Pipeline`, which puts the batches of `Reindex` beside the requests and
   stages of `Ingestion` over the same rows;
2. creation and deletion of Knowledge Bases, beside an upload into them.

## 3. Modules

| Module | What it is |
|---|---|
| `RunIngestion` | the `documents` rows and the steps of `run_ingestion` and `run_purge`, one action per transaction or file operation |
| `Ingestion` | requests, messages, Celery's delivery rules and faults around `RunIngestion`; the properties |
| `SearchableIndex` | abstract: what retrieval is promised about one Knowledge Base |
| `ResumableFile` | abstract: what a client is promised of its session and the Document made of it |
| `Uploads` | Upload Sessions with their two files: requests, sweeps, faults; the properties |
| `Reindex` | jobs, items and batches, with the requests that steer them |
| `Turns` | the turns of one Conversation and their streams |
| `RetrievalCache` | turns that share the cache while Documents change |
| `Accounts` | users, sign-ins, cookies and the limiter |
| `Ranking`, `Passages` | fusion, reranking, diversity; expansion, merging, assembly, summaries |
| `Answers` | query plan, validation and rendering of an answer |
| `Extraction`, `Chunking`, `Storing` | extractors and normalization; the chunkers and their validation; the rows of a batch |
| `Evaluation` | loading of cases, the evaluation run, scoring, verdicts |
| `Algorithms` | runs the operators of the last four rows on every input of a bounded set; the properties |
| `MCIngestion`, `MCUploads`, `MCReindex`, `MCTurns`, `MCRetrievalCache`, `MCAccounts`, `MCAlgorithms` | the instances TLC checks |
| `IngestionProofs`, `UploadsProofs`, `ReindexProofs`, `TurnsProofs`, `RetrievalCacheProofs`, `AccountsProofs`, `AlgorithmsProofs` | the theorems about these modules |
| `EvidenceProofs` | on top of `AlgorithmsProofs`: the theorem about a retrieval as a whole |

Definitions marked *Mutant of* in the modules are broken variants of the
definition they stand before or after. Nothing refers to them; put in its place,
each makes a run fail, which shows that the property can fail.

### State of ingestion

| Variable | Code |
|---|---|
| `status` | `documents.status`; `"absent"` before the INSERT, `"purged"` after the DELETE |
| `stage`, `safeError`, `attempts`, `chunkingVersion` | the columns `ingestion_stage`, `safe_error` (its source, not its text), `ingestion_attempts`, `chunking_version` |
| `stale` | `updated_at <= now - ingestion_stale_after_seconds`: time is this one bit per row. It is only looked at on a Processing row, and the claim resets it, so the writes that touch `updated_at` on other rows are left out |
| `chunks` | the version of the rows of `chunks`, or None |
| `generation` | `knowledge_bases.index_generation` |
| `original` | the file under `storage_key` exists |
| `run` | the locals of each worker's task: which task, at which step, on which Document, with which version, retries so far, and the attempt its claim wrote. That last one is no variable of the program (nothing compares it) and only helps a reader of a trace |
| `queue`, `purgeQueue` | undelivered messages; a purge message carries its retry count |
| `request` | each API request between its transactions, with the status and the error it last read |
| `faults` | how many faults of each kind have happened |

The session factory uses `expire_on_commit=False` and the ORM omits columns
whose value is the one last read; `seen` and `error` of a request exist for
that rule alone, which decides what a late write really writes (`WriteError`,
`EnqueueIngestionFails`).

### Actions of ingestion

| Action | Code |
|---|---|
| `Claim`, `ClaimRefused`, `Recheck`, `Open` | `run_ingestion`, `ingestion/tasks.py:90-137`: UPDATE...WHERE, row count, the second SELECT, the second session |
| `FinishStage` | the work of a stage and the report of the next (`_update_progress`, `:461-491`) |
| `Publish`, `PublishRefused` | the final transaction (`:348-376`) |
| `FailStage`, `FailClaiming`, `FailUnrecorded` | the `except` clauses with `_mark_failed` (`:377-394`, `:444-458`): the mark succeeds, is made by a run that has no claim, or raises itself |
| `StartPurge`, `RemoveFile`, `RemoveFileFails`, `DeleteRow` | `run_purge` (`:509-544`) |
| `PurgeLosesDatabase` | a transaction of `run_purge` fails: a refused connection is an `OSError` and retried, any other error ends the task for good |
| `BecomeStale` | the clock |
| `CreateDocument` | the last transaction of an upload (`api/uploads.py:530-556`) |
| `RetryRead`, `RetryCommit`, `Refresh`, `EnqueueIngestion`, `EnqueueIngestionFails` | `retry_document` (`api/documents.py:60-86`); the last three also end an upload |
| `DeleteRead`, `DeleteCommit`, `EnqueuePurge`, `EnqueuePurgeFails` | `delete_document` (`:93-119`) |
| `Receive`, `ReceivePurge`, `Acknowledge` (also of a purge that raised), `Reschedule`, `RescheduleFails`, `RetryPurge` | the Celery tasks (`ingestion/tasks.py:547-605`) |
| `WorkerCrash`, `Redeliver`, `ApiCrash` | the environment: `task_acks_late`, `task_reject_on_worker_lost`, `visibility_timeout` (`celery_app.py:13-33`) |

Abstracted: the text, the vectors and the number of chunks (a batch is its
version); wording of errors; progress percentages; provenance columns; the
BM25 index maintenance after a purge, which only reorganises an index. A failure
inside a stage is one action, `FailStage`, whatever raised it.

### Uploads

Files and rows cannot be changed together, so the module has one action per
file operation and one per transaction; the row lock is `holder`, the two
advisory locks are `capacityLock` and `documentLock`, and all are given back by
`EndTransaction`. The API is one process (`src/backend/Dockerfile:31`): `Crash`
ends every request, and `booting` keeps new ones away until the start-up sweep
has ended, well or not (`main.py:30-41`).

| Variable | Code |
|---|---|
| `status`, `file`, `receipts`, `safeError`, `expired` | the columns `status`, `declared_sha256`, the receipts with `received_bytes`, `safe_error` (its source), `expires_at <= now` |
| `temporary`, `final` | what is at the two storage keys: a sequence of parts, each with the declared bytes, others, or torn |
| `young` | the modification time is less than 300 s ago |
| `document`, `seeded` | the Documents made by sessions, and those inserted by the seed program |
| `request`, `sweep` | the locals of each request, and of each sweep |
| `condemned`, `undone` | history, for the properties: somebody began to remove the files; a completion failed at its commit and moves the file back without the lock |

| Action | Code |
|---|---|
| `StartCreate`, `Look`, `Touch`, `Count`, `Insert` | `create_upload_session` (`api/uploads.py:203-328`), beginning with a sweep that removes no orphans |
| `StartPart`, `AppendPart`, `Confirm` | `put_upload_part` (`:355-438`), `_append_part`; a write may stop half-way |
| `StartComplete`, `Verify`, `Admit`, `MoveToFinal`, `Publish` | `complete_upload_session` (`:446-556`) |
| `PublishDuplicate`, `PublishFails`, `PublishUnanswered`, `MoveBack`, `Relock` | its error paths (`:557-581`) |
| `StartExpired`, `StartCancel`, `RemoveFiles`, `DeleteRow`, `FailRow` | `_require_open`, `cancel_upload_session`, `_terminal_failure` |
| `StartSweep`, `ReadOpenKeys`, `SweepRow`, `SweepOrphans`, `CommitSweep`, `SweepFails` | `reconcile_upload_sessions` (`uploads/cleanup.py:39-113`) |
| `PurgeDocument`, `PurgeSeeded`, `SeedDocument`, `Expire`, `GrowOld`, `CommitFails`, `Crash` | the rest of the world |

A resumption, a part that already has its receipt and a completion of a
Completed session change nothing but the expiry, and are left out. The details
of a purge are in `RunIngestion`; here it is one step. Two timing assumptions: a
sweep takes less than the 300 s after which a file may be an orphan, and
PostgreSQL rolls back what a dead process has begun before the next start reads.

### Re-indexing

A batch locks the row of its job and the items it takes; the rows of the
Documents are locked by nobody, so `ClaimRead` and `ClaimCommit`, and
`FinishRead` and `FinishWrite`, are two steps. The ten-odd stages of a run are
in `RunIngestion`; here a run is its claim and its outcome, and a purge one step.

| Variable | Code |
|---|---|
| `status`, `chunks`, `error` | the Document: its status, the version of its chunks, and of `safe_error` whether `_finish_item` takes it for retryable |
| `job`, `item` | the rows of `reindex_jobs` (status, target, counters) and `reindex_items` (status, attempts, and whether `updated_at` is stale) |
| `batches`, `queue` | undelivered messages of each job, and ordinary ingestion messages |
| `worker`, `request` | the locals of each batch, ingestion and API request |
| `lost`, `shared`, `crossed`, `faults` | history: jobs that lost a message; Documents that a batch took while another worker of its job was at them, or while the batch of another job was; faults so far |

| Action | Code |
|---|---|
| `Create`, `Rollback`, `ReadActive`, `Insert`, `InsertFails` | `create_reindex_job`, `rollback_reindex_job` (`api/rollout.py`) and what they share |
| `ReadJob`, `WriteJob`, `Enqueue`, `EnqueueFails`, `GiveUp` | pause, resume, cancel; the message after the commit, and the job paused when there is no queue |
| `RetryRead`, `RetryCommit`, `RetryRefresh`, `RetrySend`, `RetrySendFails` | `retry_document` (`api/documents.py:60-86`), one action per statement that another actor can come between: the row is read without a lock, written, read again, and its message sent or refused |
| `DeleteDocument`, `Purge`, `TakeIngest` | the rest of the Document API and its ordinary messages, as far as they meet a job |
| `TakeBatch`, `ClaimRead`, `ClaimCommit` | `_claim_batch` (`ingestion/reindexing.py`), with the recovery of stale items |
| `IngestClaim`, `IngestRefused`, `Publish`, `FailIngestion` | `run_ingestion` for each item |
| `FinishRead`, `FinishWrite`, `FinishStale` | `_finish_item`, and the item that is gone when it is written |
| `RefreshJob`, `Continue`, `ContinueFails`, `PauseRead`, `PauseWrite` | `_refresh_job` and the next batch (`ingestion/tasks.py:577-605`), or the pause when it cannot be sent |
| `ItemAges`, `Crash`, `Redeliver`, `Raise`, `ApiCrash` | the clock and the faults |

### Turns

| Variable | Code |
|---|---|
| `exists`, `turns` | the Conversation; its assistant messages with status, content (its kind), the Documents cited, and whether `stale_turn_seconds` have passed |
| `asking` | each client's `create_turn`: whether it holds the row of the Conversation, and the stale message it read |
| `stream` | each event stream: its step, the evidence, the answer and the citations it carries |
| `document` | the Documents of the Knowledge Base |
| `shown`, `overrun` | what each client was sent; history: turns recovered while their stream was alive |

| Action | Code |
|---|---|
| `Ask`, `CommitTurn`, `AskFails` | `create_turn` (`api/conversations.py`): the locked read, the commit with the recovery, an error |
| `LoadTurn`, `Retrieve`, `Generate`, `Repair`, `Persist`, `Measure`, `Send` | `turn_events` and `rag/service.py`: each database access and each remote call |
| `StreamFails`, `MarkFailed`, `Abandon` | the `except` clauses, which mark the message only if it is still streaming; a disconnect or a dead API, which marks nothing |
| `DeleteConversation`, `DeleteDocument`, `PurgeDocument`, `Age` | the rest of the world; a purge sets the citations of its chunks to NULL |

### Retrieval cache

| Variable | Code |
|---|---|
| `document`, `generation` | status and last batch of each Document, `index_generation` |
| `cache` | the Redis entries, by generation and normalized filters (all turns have one query) |
| `turn` | each `retrieve_evidence`: its step, the generation it read, what it has found, and for the properties which chunks were searchable at some moment, and which at every moment, since it began |
| `rounds`, `changes`, `restored` | the bounds; history: Documents restored in the present generation |

Filters are values of which two constants say what the code makes: `Admitted`,
the Documents that the SQL lets through (`rag/retrievers.py:30-64`, which
compares source kinds and languages exactly), and `Normalized`, what the cache
key makes of them (`rag/cache.py:131-143`, which folds letter case). Two filters
of one key are `Alike`, whether or not they let the same Documents through.

| Action | Code |
|---|---|
| `Publish`, `Hide`, `Restore`, `Delete`, `Purge` | ingestion and re-indexing as retrieval sees them; `Restore` alone makes evidence searchable without a new generation |
| `Begin`, `Hit`, `Miss`, `LoadCached`, `EntryIsStale` | `retrieve_evidence` up to the reload of a cached entry, which is rejected unless every chunk still is what a query would see |
| `Semantic`, `Lexical`, `LexicalRaises`, `Write`, `WriteNothing` | the two legs, each a statement and a snapshot of its own; the entry, if it fits and Redis answers |

### Accounts

| Variable | Code |
|---|---|
| `user` | the rows of `users`: administrator, enabled, session_version |
| `request`, `login` | the locals of each administration request and each sign-in |
| `tokens`, `attempts` | the cookies issued, the Redis counter of each user |
| `writes`, `logins` | the bounds |
| `epoch`, `raced`, `overlapped` | history: revocations of each user, users written twice from one reading, two removals of Administrators at once |

| Action | Code |
|---|---|
| `CreateUser`, `ReadTarget`, `Decide`, `Commit` | `api/admin.py`: the row is read, the Administrators are counted, the changed columns are written; a PATCH sets either flag or both |
| `EnsureAllowed`, `Verify`, `RecordFailure`, `Issue`, `WindowEnds` | `api/auth.py` and `rate_limit.py`: the counter is read, the password checked, the counter incremented or the cookie issued and the counter perhaps cleared |

### Pure algorithms

`Algorithms` has one action per algorithm: `algorithm` and `input` are chosen in
the initial state, the action puts what the code returns into `result`.

| Action | Code |
|---|---|
| `RunFuse`, `RunDiversify`, `RunRetrieve`, `RunOverview` | `rag/fusion.py`; `rag/evidence_assembly.py`; the chain reranking, expansion, merging, assembly of `rag/retrieval.py`; `rag/summary_retrieval.py` |
| `RunRender`, `RunPlan` | `rag/grounding.py`, `rag/query_plan.py` |
| `RunMarkdown`, `RunPdf`, `RunDocx` | `ingestion/extraction.py`, `normalization.py` |
| `RunHierarchy`, `RunPack`, `RunSpans`, `RunStore` | `ingestion/hierarchical_chunking.py`, `chunkers.py`, `chunking.py`; `persistence.py` with `summarization.py` |
| `RunLoad`, `RunJudged`, `RunExecute`, `RunVerdict` | `evaluation/datasets.py`, `runner.py`, `faithfulness.py`, `metrics.py`; the reports of `acceptance.py` and `evaluation/compare.py` |

A text is a sequence of tokens, each with the place it came from, so that "the
same text" can be said; a line is its kind and the word it shows; a score is an
integer. Reciprocal ranks are multiplied by `Scale`, a common multiple of the
denominators that occur, so that fusion compares the exact fractions; the
code adds floating-point numbers, whose rounding is left out. What a model or a
remote service answers is an input.

## 4. What the runs check

| Run | Question | Result |
|---|---|---|
| `ingestion` | safety and refinement under any two faults of six kinds | holds, about 753 000 states |
| `ingestion_live` | does ingestion settle, do deletions complete, under any one fault of six kinds? | holds, about 128 000 states |
| `retry_after_delete` | is a deletion final? | **no** |
| `uploads` | safety and refinement of one session under any two faults of five kinds | holds, about 2.3 million states |
| `uploads_pair` | two completions race for the last Document | holds, about 700 000 states |
| `uploads_live` | do temporary files vanish? | holds, about 93 000 states |
| `reindex` | safety of a job beside a retry, a deletion and a cancellation, under any two faults of five kinds | holds, about 717 000 states |
| `reindex_live` | does a job end? | holds, about 104 000 states |
| `turns` | safety and liveness of two turns, two browsers, two Documents | holds, about 418 000 states |
| `cache` | is cached evidence what retrieval would find? | holds, about 4.6 million states |
| `accounts` | requests and sign-ins that overlap | holds, about 511 000 states |
| `algorithms` | the pure parts on about 661 000 inputs | holds, 1.3 million states |

`ingestion`: `AllOrNothing` (no overlap of runs, failures and crashes leaves
chunks that are not the complete batch the row records), `StageMatchesStatus`
(no late report repaints a row), `PurgeLeavesNothing` (no original without a
row), `NothingStranded` (who waits is waited on, unless a message, a request or
the database was lost, the last also under a purge, or an original could not be
removed in as many attempts as there are: it says that nothing else strands a
Document, not that these are harmless), `OnlyRequestsRevive` (no worker brings a
Deleting Document back), and `IndexSpec` (the refinement of `SearchableIndex`).
`ingestion_live`: `IngestionSettles` and `DeletionCompletes` (a deletion that
somebody owes completes; to send the request again makes somebody owe it).
`retry_after_delete` refutes what the repository says, see the findings.

`uploads`: `CheckpointOnDisk` (what a client was told is confirmed is on disk),
`NoCheckpointLost` (no part, completion or sweep misses confirmed bytes),
`NoStrayOriginal` (nothing in the final place that no row leads to) and
`FileSpec` (the refinement of `ResumableFile`: the confirmed bytes grow one part
at a time while the session is open, and it becomes at most one Document, whose
original is exactly those bytes). All of them hold only up to a named exception,
which is where the code has no protection: `undone`, `condemned`, and a sweep
that failed. `uploads_pair` adds what takes two sessions: `DocumentLimitHolds`.
(The limit on open sessions is counted the same way, in `Count` and `Insert`; it
is modelled, but a race for it would take a third session.) `uploads_live`:
`TemporaryFilesVanish`.

`reindex`: `ReadyIsSearchable` (a batch calls nothing back to Ready that has no
chunks), `CompletedMeansDone` (a completed job has no item left over or failed,
except of Documents that two of its workers were at: `shared`), `JobIsDriven` (a
queued or running job has a message, a worker or a request that will send one,
unless one was lost), `ClaimIsKept` (a Document that waits or is being worked on
is in somebody's hands, if only as an item of an active job that will be
recovered as stale) and `OnlyLateWritesRevive` (a deletion is undone by no more
than the write of a batch or of a retry that had read the Document before, or by
a retry's Failed when the broker refuses its message; each can happen, see the
findings and observations). `ClaimIsKept` has four exceptions, each by Document,
and each of them a way in which the code does strand one: two workers of one job
had it (`shared`), the batches of two jobs had it (`crossed`), its job was
cancelled under its batch (`Forsaken`), its retry died between its commit and
its message. `reindex_live`: `JobsEnd`.

`turns`: `OneStreamingAnswer`, `CitationsAreGrounded`, `ShownIsKept` (what a
browser was sent is what the Conversation keeps), `OutcomeIsFinal`,
`NotBlockedForever`. The exception of three of them is `overrun`: a stream that
was alive when it was declared stale goes on, and writes over its recovery.

`cache`: `EvidenceWasLive` (a turn is given what was searchable within its own
filters), `NothingOverlooked` (a turn that retrieves misses nothing that its
filters let through all along, and a turn served from the cache nothing that
*some* filters of its key do; except `restored`, below), `HitIsOneBatch` (a turn
served from the cache never mixes two batches of a Document, although the entry
may). The stronger form of `NothingOverlooked`, that a turn served from the cache
misses nothing of its *own* filters, is false, see the observations.

`accounts`: `AdministratorRemains` (except when two requests remove
Administrators at once), `RevokedStaysRevoked` (except for users written twice
from one reading), `AttemptsAreLimited` (the limit may be passed, by fewer than
the sign-ins under way).

`algorithms`: `EvidenceFollowsRanks`, `BestReachesEvidence`,
`MarkersLeadToEvidence`, `PlanKeepsTheQuestion`, `ExtractionKeepsText`,
`ChunksKeepText`, `HierarchyValidates`, `RunRecordIsHonest`, `VerdictIsEarned`.
Several name in their comment a case the code misses; the condition of that
case is part of the property, and as narrow as the runs allow.

`TypeOK` is not in the configurations: it is proved for `Ingestion`, `Uploads`,
`Reindex`, `Turns`, `RetrievalCache` and `Accounts`.

**Bounds of re-indexing.** `reindex`: one Document and one job. The hazards are
about two batches at one item, and about a batch and a request at one Document;
the next batch arises when the item returns to pending. Two workers, so that a
redelivered or recovered batch meets the first one; two attempts, so that an
item can fail, be retried and run out; a cancellation, a retry and a deletion
that race the batches and each other. Two faults: a repeated delivery or a crash
brings two batches to one item, and something else goes wrong besides, which is
what each exception of `ClaimIsKept` takes. With one job `crossed` stays empty,
and the run checks `ClaimIsKept` of every Document that is not `shared`.
`reindex_live` has two jobs, one of them a rollback, with a pause, a resume, a
retry, and one Document, one attempt, one fault (a crash or the broker). That any
number of jobs, also several active ones, with any number of Documents and any
batch size, stay driven, say completed only when they are, and keep their claims
is proved (`JobsAreDriven`, `CompletedIsDone`, `ClaimsAreKept`).

**Fairness of re-indexing.** A batch message that is ready again and again is
delivered (strong, per job); a worker that lives takes its next step (weak), and
gets the row of a Document it waits for (strong, `IngestClaim`, which other
transactions interrupt); an item nobody touches becomes stale (weak); a request
that has begun is carried on (weak). Nothing is assumed of faults or of
Administrators.

**Bounds of turns.** Two turns: every hazard is about a stream and the question
that comes after it; two browsers hold and wait for the row of the Conversation;
two Documents make a citation set that loses one member.

**Fairness of turns.** Streams run (weak per turn), the clock moves on (weak),
and the user keeps asking, and gets the row sometimes (strong, because another
browser may hold it or fail to commit). Recovery happens in the next question,
so that nothing less than a next question can unblock a Conversation.

**Bounds of the cache.** Two turns, since each property compares the turn that
writes an entry with one that reads it; three filters: none, a language, and the
same language in other letters, which lets no Document through and shares its
key; one Document that the lexical leg finds and another that suffices;
`MaxEntry = 2` lets an entry be too large; two batches per Document, so that two
legs of one turn can see different ones; two retrievals, one that writes and one
that reads; four changes, so that a Document can be replaced between two reads
of each. More retrievals, whose writes replace one another's, are left to the
theorems, which prove all three properties for every bound.

**Bounds of accounts.** Two users, both of whom may begin as Administrators, two
requests and two sign-ins at a time. Two writes, so that two requests can race;
three sign-ins and a limit of one attempt, so that the limit is reached, passed
by parallel sign-ins, and reached again after a window ends, and a cookie is
issued before each write.

**Bounds of the algorithms.** `MCAlgorithms` builds each input set from the
smallest pieces that can go wrong together: two legs with up to three candidates
of two Documents; retrievals whose scores are tied, zero or negative; three to
four lines, pages of three lines, blocks that fit, just fit and do not fit a
child or a parent; cases with two passages, every failing step of an evaluation
run and of its cleanup; tags of a Document, of the runner, and one that Python
and SQL fold differently; lists of phrases that are empty, stated or not. The
limits of the code (tokens, candidates) are scaled down to the size of the
inputs. What TLC runs through is every input of these sets, not every input of
the code.

**Bounds of uploads.** Two parts: the second one meets a checkpoint that is
neither empty nor full. One session in the fault runs: sessions share only the
limits and the duplicate test, which `uploads_pair` covers with two sessions, two
files, room for one Document, and no faults. Two requests: every property is about a
request and one that comes between its steps. A session identity is never used
twice, which bounds the runs. `MaxFaults = 2`: a crash and the failure of the
sweep after it, or two crashes. Deadlock is not checked: when all identities are
used and gone the system stops.

**Fairness of uploads.** Requests and sweeps that live are carried on (weak); the
hourly sweep starts again whenever it is idle (weak), as `beat_schedule` does; a
file that is left alone grows old between two sweeps that come an hour apart
(strong, because a running sweep suspends it in the model).

**Bounds of ingestion.** `Documents = {d1}`: Documents share nothing but the workers and the
generation, which only grows. `Workers = {w1, w2}`: one superseded run and its
replacement, and a purge beside an ingestion; more than two runs of one row do
not see more than each other's writes. One creation, one retry and one deletion:
each pair of them can race. `MaxFaults = 2`: enough for a crash while claiming
beside a repeated delivery, or an error and the loss of its recovery.
`MaxPurgeRetries = 1` (5 in the code): retries that succeed, and retries that
run out. Both chunking versions are in `Versions`; the safety run ingests with
`legacy`, the liveness run with `hierarchical`, so that both stage sequences are
covered. `attempts`, `generation` and the queues need no bound of their own:
they are limited by the requests, the faults and the retries. One exception: a
busy worker re-sends its message any number of times, which leaves the queue as
it was and adds no state. Deadlock is not checked, because the system may
stop: when the requests are answered and the queues are empty.

**Fairness of ingestion** (`FairSpec`). A worker takes its next step and returns (weak): a
process that lives runs on, and one that dies is a fault. A message that is
ready again and again is taken by some worker (strong, per Document): the queue
of one broker is handed out in order, and no worker keeps a message for itself.
A request that lives is carried on (weak). A row nobody updates becomes stale
(weak): time passes. Nothing is assumed of the faults, which the code cannot
rely on, nor of Administrators. In `ingestion_live` all six kinds may happen, one of
them once. The code recovers from three by itself, a crash, a second delivery and
an error of the file store; after the others somebody must act, as
`NothingStranded` says, and `IngestionSettles` claims nothing.
`DeletionCompletes` begins where somebody owes the deletion, speaks of what
happens if no further fault comes, and counts a Document brought back by a
request as no longer being deleted.

## 5. Findings and observations

**A retry can undo a deletion** (`api/documents.py:73`, run
`retry_after_delete`). `retry_document` reads the row without a lock and writes
Pending over whatever it has become. Trace: upload, fail, retry reads Failed,
delete commits Deleting, retry commits Pending. `docs/MVP-PLAN.md:50` promises
that a deletion excludes the Document at once and then removes it.
`OnlyRequestsRevive`, which is proved, bounds the damage: no stage of an ingestion
ever does this. (A re-index batch may, see below.)

What follows was met while modelling. No run isolates these; most are the named
exceptions of a property. An exception is a case that the code does not handle,
and not one that is harmless.

*Ingestion and uploads*
* `purge_document` is retried for an `OSError` only (`ingestion/tasks.py:597-603`):
  a database error of any other class in `run_purge` ends the task, acknowledges
  the message, and leaves the Document Deleting. The interface disables Delete for
  it; the API accepts a second DELETE, after which somebody owes the deletion
  again (`DeletionCompletes`).
* A Document whose reschedule was lost cannot be retried
  (`ingestion/tasks.py:565`). The log line says "retry it from the UI", but the row
  is Processing, `retry_document` accepts Failed only (`api/documents.py:68-72`),
  and the interface shows no Retry. A worker claims and dies, its message is
  delivered again and finds the Document busy, and the broker refuses the message
  that would come back. Only a deletion is left. It is an exception that
  `NothingStranded` names.
* A commit that succeeds on the server but is answered by a lost connection is
  treated as rolled back (`api/uploads.py:571-580`): the file is moved to the
  temporary place, where a sweep removes it because the session is Completed
  (`undone`). `docs/MVP-PLAN.md:48` calls this step atomic.
* After a crash between the move and the commit, the file is in the final place
  until a sweep moves it back. The start-up sweep may fail and is only logged
  (`main.py:35`); the next completion looks in the temporary place only
  (`api/uploads.py:479`) and fails the session with both files removed.

*Re-indexing*
* A stopped worker's Document may not be recovered (`ingestion/reindexing.py:182`;
  `shared` in `ClaimIsKept`). `_finish_item` does not look at who claimed the
  item. One job, one Document: the batch of worker A has ingested it, without
  success, and is about to write the item; its message is delivered again, the
  item ages, and the batch of worker B claims the item anew (the Document is
  Pending, the item processing). B dies, and A writes the item failed.
  `_claim_batch` recovers processing items only: the Document stays Pending, and
  `retry_document` does not accept it. `docs/CHUNKING-ROLLOUT.md:86-88` promises
  that another batch restores it. TLC found it in 17 states when `ClaimIsKept` was
  tried without the exception.
* Two jobs can be active (`api/rollout.py:270`): two requests look for an active
  job, then both insert theirs. `docs/CHUNKING-ROLLOUT.md:58` allows one.
* Two active jobs are each still driven (`JobsAreDriven`) and honest when they say
  completed (`CompletedIsDone`), but a Document in the batches of both can stay
  Processing for ever (`crossed`). One job reads it Ready and is about to claim it.
  The other job claims it; before its run starts, the Document is deleted, the
  item ages, and a recovery of it reads Deleting, so it will leave the row alone.
  Now the first job commits, which calls the Document back to Pending; the run of
  the other job claims it and dies; the recovery commits its item as failed; and
  the run of the first job is refused a row that looks busy, so that its item
  fails as well. It takes three workers; TLC found it in 24 steps on an instance of
  that size, when the inductive invariant was tried there before its proof.
* The Documents claimed by a cancelled job, whose batch is gone, stay Pending: no
  later batch recovers them, and a retry accepts Failed only. A deletion is left.
* `_claim_batch` reads a Document without a lock and writes it later, so it can
  undo a deletion, as a retry can; `OnlyLateWritesRevive` says that nothing else
  does.
* A retry whose process dies between its commit and its message leaves the
  Document Pending (the `dead` retry of `ClaimIsKept`), as in `Ingestion`.
* A Document that is given up and restored to Ready becomes searchable without
  a new index generation, so a cached retrieval of that generation misses it
  (`restored` in `NothingOverlooked`).

*Turns, accounts, operation*
* A cached answer may belong to other filters (`rag/cache.py:135`; `Alike` in
  `NothingOverlooked`). The cache key folds the letter case of source kinds and
  languages, the SQL compares them exactly, and filters that the model infers are
  passed as it spelled them (`rag/query_plan.py:132-139`). The empty entry of
  "Python" is served to a turn that asks for "python".
* A stream that outlives `stale_turn_seconds` writes its answer over the
  recovery (`overrun`).
* Two resets of one user that read the same row write the same
  `session_version`: a session issued after the first survives the second.
* `docs/OBSERVABILITY.md:209` says that rate limiting fails open without Redis; the
  sign-in answers 503.
* A Knowledge Base is deleted after an unlocked look for its Documents
  (`api/admin.py:192-227`): an upload may come in between.
* A cancelled rerank gives its slot back while its thread runs on: the `except`
  that keeps the slot (`rag/reranking.py:167`) does not see a CancelledError.

*Text and ranking*
* A table row longer than a child is cut as one piece behind another part of
  the row: the child exceeds its limit (`hierarchical_chunking.py:243-245`, against
  `validation.py:119-120`); after such a cut the next child's offset goes back to
  the table's start (`:254`), and `validate_hierarchy` fails the Document.
* When a unit does not fit behind a piece that is still too short, `_pack_units`
  takes the last unit off that piece and loses it (`chunkers.py:302-307`).
* `merge_adjacent_candidates` can merge the candidates before the best one and
  leave the best one out (`evidence_assembly.py:113-121`, `LeftBehind`). Among
  candidates with equal scores the one the reranker put first may be the one
  that is lost: the property, and its theorem, speak of *a* candidate with
  the best score.
* A neighbour gets nine tenths of its seed's score (`rag/retrieval.py:618-633`),
  which for the negative scores a cross-encoder can give is more than the seed
  has: it goes before the candidate it was fetched for.
* The divisor of the diversity penalty favours what it should penalise when
  scores are negative; `score or -2.0` takes 0.0 for missing.
* `drop_counts["rerank_duplication"]` can be negative (`rag/retrieval.py:307`).
* The check that a rewritten question keeps its identifiers is a substring test.
* Below a heading that skips a level, a heading of the same level goes under its
  predecessor (`extraction.py:265-267`). A PDF whose short pages are all alike is
  all running header, and fails with "Normalization produced no searchable text".

*Evaluation*
* If the creation of a workspace fails and its cleanup too, the Knowledge Base
  has no name in the record (`runner.py:309-318`), nor has a file half copied
  (`:250-258`). The refresh that follows the INSERT is outside the `try`
  (`:236`): if it fails, the Knowledge Base stays and nothing cleans it up.
* Evidence that expansion has promoted to its parent has no source passage, so a
  case that retrieves it ends as an error (`runner.py:893`).
* The runner checks filters with other rules than the retrievers apply
  (`runner.py:998-1012`, `rag/retrievers.py:30-64`): it compares the letter case of
  tags, it does not count the tags "evaluation" and the version that it stores
  itself (`runner.py:280`), and it takes an empty list for a filter that nothing
  meets. The retrievers fold the tag they look for with `casefold` and the stored
  ones with SQL's `lower`, which differ for some letters.
* Some cases load although no answer to them can be faithful
  (`datasets.py:214-319`, `runner.py:514-520`, `faithfulness.py:58-80`): a refusal
  that lists relevant passages; a case, or a claim of it, with an empty list of
  acceptable phrases; a refusal that asks for phrases which the fixed text of a
  refusal does not contain.

## 6. What is proved

Every theorem holds for every value of the constants; the only hypotheses are
the named ASSUMEs of the modules, which TLC evaluates in the runs.

| Module | Theorem | Property |
|---|---|---|
| `IngestionProofs` | `TypeCorrect` | `Spec => []TypeOK` |
| | `IngestionIsAllOrNothing` | `AllOrNothing` |
| | `StageAlwaysMatchesStatus` | `StageMatchesStatus` |
| | `PurgeIsComplete` | `PurgeLeavesNothing` |
| | `WorkersNeverRevive` | `OnlyRequestsRevive` |
| | `IngestionImplementsIndex` | `Spec => IndexSpec` |
| | `NobodyIsStranded` | `NothingStranded` |
| `UploadsProofs` | `TypeCorrect` | `TypeOK` |
| | `Inductive` | `TypeOK`, `Control`, `Reliable` and `Room` |
| | `CheckpointSurvives` | `CheckpointOnDisk` |
| | `OriginalStays` | `OriginalIntact`, which `FileSpec` implies |
| | `CheckpointsAreFound` | `NoCheckpointLost` |
| | `FinalFilesBelong` | `NoStrayOriginal` |
| | `UploadsAreLimited` | `DocumentLimitHolds` |
| | `UploadsAreResumable` | `Spec => FileSpec`, the refinement of `ResumableFile` |
| `RetrievalCacheProofs` | `TypeCorrect` | `TypeOK` |
| | `OnlyLiveEvidence` | `EvidenceWasLive` |
| | `HitsAreOneBatch` | `HitIsOneBatch` |
| | `NoEvidenceIsOverlooked` | `NothingOverlooked` |
| `AccountsProofs` | `TypeCorrect` | `TypeOK` |
| | `AdministratorAlwaysRemains` | `AdministratorRemains` |
| | `RevocationIsFinal` | `RevokedStaysRevoked` |
| | `FailuresAreBounded` | `AttemptsAreLimited` |
| `ReindexProofs` | `TypeCorrect` | `TypeOK`, with the bound on a job's counters |
| | `ReadyStaysSearchable` | `ReadyIsSearchable` |
| | `JobsAreDriven` | `JobIsDriven` |
| | `CompletedIsDone` | `CompletedMeansDone` |
| | `ClaimsAreKept` | `ClaimIsKept` |
| | `LateWritesAloneRevive` | `OnlyLateWritesRevive` |
| `TurnsProofs` | `TypeCorrect` | `TypeOK` |
| | `OneAnswerStreams` | `OneStreamingAnswer` |
| | `CitationsStayGrounded` | `CitationsAreGrounded` |
| | `ReleasedIsKept` | `ShownIsKept` |
| | `OutcomesAreFinal` | `OutcomeIsFinal` |
| `AlgorithmsProofs` | `RanksAreFollowed` | `EvidenceFollowsRanks` |
| | `MarkersAlwaysLead` | `MarkersLeadToEvidence` |
| | `PlansKeepTheQuestion` | `PlanKeepsTheQuestion` |
| | `RecordsAreHonest` | `RunRecordIsHonest` |
| | `VerdictsAreEarned` | `VerdictIsEarned` |
| `EvidenceProofs` | `BestIsKept` | `BestReachesEvidence` |

**Ingestion.** `IngestionProofs` first shows, once for each step of a worker of
`RunIngestion`, that it keeps the types and moves `run[w]` alone. It then
reduces `Next` to what it can do to the rows: lemma `NextRowStep` names the few
ways a step can change them, and the invariants on rows need no other case
analysis.

* `AllOrNothing` is inductive with one more conjunct (`AllOrNothingInv`): a row
  that does not exist yet records no version, or else its INSERT would break it.
* `StageMatchesStatus` is inductive because every writer of `stage` either
  writes the status too or looks at it under the same lock.
* `PurgeLeavesNothing` needs `PurgeInv`: a purge past its file operation has
  removed the original, and a Document once created is never created again.
* `NothingStranded` is the hard one. `StrandedInv` adds that a *Pending* row has
  a message, a sender or a run that has not claimed yet - a run beyond its claim
  may only be what keeps a Processing row alive - and that each retry of a purge
  has been paid for by an error of the file store or of the database (`Paid`).
  The case that matters is the second reading of the status in `Recheck`: the
  message is dropped only if the row is no longer Processing, and then either it
  needs nobody or a Pending row's own message is still there.
* The refinement maps `index` to the version of the chunks of Ready Documents.
  Every step is a publication, a withdrawal, an advance, or stutters.

**Uploads.** The properties are about files, and hold because of locks, so the
invariant says both. TLC has checked it with the instance of the run `uploads`.

* `Control`: at each of its steps a request holds the row lock of its session, a
  sweep those of the rows it has not dealt with and of the rows it will write,
  and the row is as the guard before left it. While the API starts no request runs.
* `Disk(u)`, of the two files of a session: never both; no final file of
  an open session that has not all its parts, or of an ended session without
  a Document; the checkpoint in one of them, unless somebody began to remove
  them (`condemned`). `CheckpointOnDisk`, `OriginalIntact` and `NoStrayOriginal`
  follow.
* `Recovered(u)`: an open session whose file is in the final place - a completion
  moved it and died - has somebody to move it back: a completion about to insert
  the Document, the start-up sweep (to come, or with the session still to do),
  or one of the named exceptions. While it is locked, a request that completes or a
  sweep holds the lock. Without this conjunct a part would meet a missing
  temporary file, so `NoCheckpointLost` is not inductive by itself.
* `RequestRelies`, `SweepRelies`: what a process has read of a file stays true until
  it acts on it. `SweepKnows`: of the temporary files a sweep will take for orphans,
  those of open sessions are `young`: a session opened after the list
  of keys was read cannot lose its file.
* `Room`: from the count of the Documents to the INSERT a completion holds the
  second advisory lock, and there is room.
* `Matched`, for the refinement: the files of an open session agree with its
  receipts, as far as both go, so a part is appended to what was confirmed
  and a file that is verified was confirmed as it was declared. It holds without
  the exceptions of the properties: bytes can be removed too early
  (`condemned`), but other bytes never take their place. `WorkIsApart` (no
  action writes both rows and files), `FileFates` and `RowFates` (what a step can do
  to one session) reduce each step of `Uploads` to a step of `ResumableFile` or to
  a stutter. The refinement maps `life` to `status`, with all that is neither absent
  nor open taken for over; `original` to the final file of a Document;
  and puts the Documents whose completion may still move that file back in `loose`.

A step works for some processes on some sessions they hold. Lemmas
`RequestJoined` and `SweepJoined` say once what such a step must leave to all
others (`Leaves`: a session unchanged, opened, its files moved back or purged), so
each of the thirty actions is looked at with its own sessions only. `TypeOK` is not
inductive without `Control`: a part is appended, and a file moved, only by the
holder of the row, or it could grow beyond the declared size. The assumptions are
that names of requests, sweeps and files do not coincide, that there are finitely
many session identities, and a file has at least one part.

**Re-indexing.** `Reindex` has some forty actions and twelve variables, so the
proof first turns each action into an *effect*: what it does to the one row, item
or worker it writes, and that it leaves the others alone. Lemma `Writers` gives
the *footprint* of a step, for each variable the few actions that write it.
Every part of the invariant `IInv` is then proved against the writers of the
variables it names.

* `Bound`: the job a worker, message or request carries exists, and a worker
  outside an ingestion carries no Documents. `Locks`: between the two steps of a
  claim its plan stays a plan for items that exist, and its job stays queued or
  running, because both are under a lock - the Documents in it are not, which is
  why nothing is said of them.
* `Stored` makes `ReadyIsSearchable` inductive: what has an item, or has been
  chosen for one, has chunks until it is purged. A claim may then write Ready over
  whatever the Document has become, but not over a purged one, whose item the purge
  has to wait for.
* `Driven` strengthens `JobIsDriven`: any worker at a *running* job will do, but a
  *queued* one needs a worker that has not claimed yet, or a message, or a
  request. A worker past its claim that meets a job paused and resumed in
  between stops without a next batch; the resume has sent a message of its own.
* `Owned` makes `CompletedMeansDone` inductive: outside `shared` the batches of
  two workers of a job are disjoint and their items are processing, so no late
  outcome reopens an item of a job that is over.
* `Counted`: a job has at most as many items as its total; items only
  disappear, with their Documents. It takes the cardinality of two disjoint
  subsets, and gives the part of `TypeOK` on counters.
* `Attended` makes `ClaimIsKept` inductive, for the Documents that are neither
  `shared` nor `crossed`. `Kept` is stronger than the property: a message that is
  past its look at the row no longer counts for a Document that waits. A retry counts
  from its commit to its message (`Pursued`), the dead one for ever, which is what
  the property then excepts. What a batch is about to let go of
  needs a reason to be let go. `InHand`: what a batch is done with waits, or is
  being worked on, only if a message is on its way. `Aside`: a claim that takes a
  stale item and leaves its Document alone has read that it does not wait.
  `Starts`: what it starts on, it has read or made Pending. `Gone`: an item that
  vanished from under a batch went with its Document. `Apart` and
  `Distant`: the batches of two jobs, and what their claims are about to take,
  meet only in `crossed`.
* `OnlyLateWritesRevive` needs no invariant of its own: lemma `Fates` lists what
  a step can do to a Document, and only the commit of a claim (`Rewritten`) and a
  retry (`Retried`) write a status without looking at it.

**Retrieval cache.** What a turn has found was searchable when its statement
looked, so `EvidenceWasLive` is a matter of `LoadCached`, which checks an entry
against the rows; nothing has to be known about the entry. `HitIsOneBatch`
follows from the same check: of one Document only its last batch is searchable.
`NothingOverlooked` is the hard one: an entry must contain whatever has been
searchable since its generation began and still is, unless it was restored in
that generation - within *some* filters that share its key (`Covers`), since the
turn that wrote it may have had other ones than the turn that reads it. Its
invariant relates an entry, a turn that will write one, and a turn that will
read one, through the generation they are filed under; it holds because each
publication takes a new generation in its own transaction.

**Accounts.** `AdministratorInv`: a request that has decided to remove an
Administrator, and that no other removal has overtaken, leaves another one.
`VersionInv`: until two requests race, the version of a row is one more than the
number of its revocations, so a cookie of an earlier epoch carries an earlier
version; a sign-in under way carries the version and the epoch of one reading.
`AttemptInv`: the counter and the failures about to be counted together are at
most the limit less one plus the number of sign-ins, since a sign-in is let in
only below the limit; it takes a lemma on the size of the set of sign-ins under way.

**Turns.** `Structure`: one client at most holds the row of the Conversation,
whatever streams now is among what that client read, and a turn that is not
stored yet has left no trace. It makes `OneStreamingAnswer` inductive although
the streaming message is read without a lock. `CitationInv` and `OutcomeInv` add
what a stream carries from step to step: its citations are in its evidence, it
releases only what it has persisted, and a turn that has ended is not carried on
unless it was overrun.

**Algorithms.** The invariant, `Computed`, only says that what has been returned
is what the algorithm makes of one of its inputs; the rest is about the operators.
Rules of induction over formulas cannot be used here, but `SetInduction` is one
over sets of numbers, and from it follow that a function defined step by step exists
(`Recursion`, `SubsetRecursion`) and hence what `FoldLeft`, `FlattenSeq` and
`SumFunction` choose.

* `EvidenceFollowsRanks`, fusion: a sorted sequence has its elements where as many
  go before them as in the code's order (`PlacesInOrder`, `SortedForFusion`). A chunk
  that both legs rank no lower than another, and one leg higher, has shares that are
  no smaller; where all scores are equal the dictionary decides, which saw
  it first (`AboveGoesBefore`). The selection goes through that order once, and a
  chunk is left out where a limit is reached (`SelectionSelects`). Of the shares
  only `ShareOrder` is used, that they do not grow with the rank, which holds of the
  code's floating-point quotients as well.
* `EvidenceFollowsRanks`, diversity: `SuppressionIsDistinct` reads the suppression
  off its fold, with the invariant `Remembers`. That `max()` finds a candidate is
  `FirstBestExists`: quotients compared across are a total preorder (`CrossOrder`).
  `Spreads` is the invariant of the rounds: what is selected and what remains
  are the distinct candidates, each once, and nobody who remains was passed
  over but for its score or for spread (`FairChoice`: candidates of one parent
  have one divisor, and where a Document is not there yet the divisor is least).
* `BestReachesEvidence` (`EvidenceProofs`, with the invariant `Retrieved`) follows
  the best candidate from fold to fold. Each step has a lemma on the head of its
  sequence and one on the set its elements are of: suppression and diversity keep
  the first of what they get (`SuppressionKeepsHead`, `DiversityKeepsHead`, where
  an empty selection divides by nothing), a sort puts an element with the highest
  key in front (`ByScoreSorts`), assembly takes the first that fits (`Assembled`).
  Between them the candidate changes: it may be replaced by its parent
  (`StandsFor`), whose scores are the highest of its seeds and whose text contains
  theirs by `CorpusAssumption`, or become part of a passage. `TracedTo` is the
  set that all of these are in, and what is said of it - from a Document that was
  found, with scores that some candidate had, no longer than a passage, no better
  than the best - holds after every step. For the passage the proof goes along
  the children of one parent (`Following`): as long as the passage is not full it
  covers what it has passed, so the best child is covered when it is reached, and
  a passage that fills up before that is what `LeftBehind` says. Summaries are
  not merged: `SummariesRanked` and `OverviewKeeps` need the first steps only.
* `MarkersLeadToEvidence`: `Noting` is the invariant of the loop that numbers the
  citations - what has been read is numbered, each id once, in the order in
  which it was first read. The claims' lists are joined for that loop and
  numbered one by one, so `FlattenMap` says that joining and numbering commute.
* `RunRecordIsHonest` splits the code's outcomes. `CorrectGetsThrough` and
  `ThroughIsCorrect` compare the two readings of filters, for any two ways of folding
  tags and any tags the runner adds; to show that a case can be passed, the proof
  names the answer: all relevant passages and every phrase that is asked for, as a
  grounded or a conflicting answer, or else the refusal.
* `VerdictIsEarned`: the gate compares an average, so if no metric gained the sum
  could not be positive (`SumIn`); that takes that all metrics are whole numbers.

The assumptions are about inputs (`CorpusAssumption`, `FusionsAssumption` and
those after it): a leg has each chunk once, in the order of its own score and
without the other leg's; a chunk has one Document; weights, limits and the
penalty are not negative, as the settings demand; the candidates of the
diversity selection are distinct chunks, as fusion leaves them; a parent has the
text of its children, and the children of one parent follow each other in it, as
chunking stores them under ordinals that are unique per level (`models.py:438`);
what a retrieval starts with are children that fit a merged passage, a passage
fits the token budget, and so does a summary, as the settings demand
(`config.py:212-221`) of hierarchical chunks made under them - nothing checks it
for `chunk_target_characters` of legacy chunks, which fit by their default, nor
for chunks that are older than a changed setting; claims have the shape that the
schema of an output prescribes; outcomes are those that can occur; filters use
the manifest's keys; a relevant passage is in a Document; a judged case was
loaded, and its answer cites what it was shown; a verdict is over at least one
case.

**Only model-checked:** all liveness (fairness and ENABLED are beyond the
prover); `ExtractionKeepsText`, `ChunksKeepText` and `HierarchyValidates`, whose
algorithms call themselves on what they have produced: what such a function
returns is given by its equation only where a choice among all functions has
been shown to have a solution, one proof for each of a dozen nested loops; and
the violation.

## 7. Not modelled, and why

* **Creation, renaming and deletion of Knowledge Bases**: rows with a unique
  name; the race of a deletion with an upload is among the observations and in
  the plan.
* **Composition of re-indexing and ingestion.** `reindex_document_batch` is in
  `Reindex`, with a run reduced to its claim and its outcome. The theorems
  about `Ingestion` speak of a system without a re-index job.
* **A part sent again that has its receipt** (`api/uploads.py:376-390`): it moves the
  expiry on and changes nothing else.
* **The cascade of a Knowledge Base's deletion** to its sessions and Documents,
  whose files stay on disk.
* **HTML and code extraction**, and the classification of single lines: regular
  expressions and parsers, data without control.
* **Similarity, BM25, reranking and language models**: their scores and answers
  are inputs. The embedding cache holds a pure function of the query.
* **Prompts, HTTP clients of the providers**: wording and I/O; a failure of a
  provider is `FailStage`, `StreamFails` or a failing input.
* **Evaluation reports, NDCG, bootstrap intervals, benchmarks**: floating-point
  statistics and formatting over the records that `Evaluation` models. (NDCG@10
  divides by an ideal that is not cut off at ten.) Scores are whole numbers of a
  common unit in the model; the rounding of floating-point means is left out, which
  could tip a gate only where a gain equals its threshold. The selection of a headline
  split is the choice of the cases.
* **Telemetry, health, configuration, migrations, demo and command-line tools,
  web interface**: no behaviour of the models depends on them; settings are
  CONSTANTS, and the calls of the web interface are the requests of the models.
