------------------------------ MODULE Reindex ------------------------------
(***************************************************************************)
(* Re-index jobs: an Administrator has the Documents of the library moved  *)
(* to another chunking version, in batches that Celery workers claim, and  *)
(* may pause, resume, cancel and roll back the job meanwhile.              *)
(*                                                                         *)
(* A batch locks the row of its job and the items it takes, never the rows *)
(* of the Documents, and everybody else locks nothing: what is read in one *)
(* step and written in a later one may have changed in between.  The       *)
(* stages of run_ingestion are in RunIngestion; here a run is its claim,   *)
(* its work and its outcome, which the batch ignores.                      *)
(***************************************************************************)
EXTENDS Naturals, FiniteSets, FiniteSetsExt

CONSTANTS
  Documents,       \* numbers: a batch takes items in the order of their id
  Jobs,            \* numbers, in the order of creation
  Workers,         \* Celery worker processes
  Requests,        \* API requests an Administrator will ever send
  Kind,            \* what each request asks for
  Versions,        \* chunking versions
  Legacy,          \* the version a rollback returns to
  Hierarchical,    \* the version that can be rolled back
  DefaultVersion,  \* settings.chunking_version, of an ordinary ingestion
  BatchSize,       \* batch_size of every job
  MaxAttempts,     \* settings.reindex_max_attempts
  PossibleFaults,  \* the kinds of fault that may happen
  MaxFaults,       \* how many of them may happen
  None

Kinds == {"create", "rollback", "pause", "resume", "cancel", "retry", "delete"}
FaultKinds == {"crash",       \* a worker process dies
               "redelivery",  \* the visibility timeout of a batch expires
               "broker",      \* a message cannot be enqueued
               "api",         \* the API process dies inside a request
               "database"}    \* a worker loses the database

ASSUME NumberAssumption == /\ Documents \subseteq Nat /\ Jobs \subseteq Nat
                           /\ BatchSize \in Nat \ {0} /\ MaxAttempts \in Nat \ {0}
                           /\ MaxFaults \in Nat /\ IsFiniteSet(Documents)
ASSUME KindAssumption == Kind \in [Requests -> Kinds]
ASSUME VersionAssumption == {Legacy, Hierarchical, DefaultVersion} \subseteq Versions
ASSUME NoneAssumption == None \notin Jobs \union Versions
ASSUME FaultAssumption == PossibleFaults \subseteq FaultKinds

VARIABLES
  status,   \* documents.status, or "purged"
  chunks,   \* the version of the stored batch of chunks
  error,    \* documents.safe_error, by what the re-indexing makes of it
  job,      \* reindex_jobs
  item,     \* reindex_items, by job and Document
  batches,  \* undelivered batch messages of each job
  queue,    \* undelivered ordinary ingest messages of each Document
  worker,   \* where each worker is
  request,  \* where each API request is
  lost,     \* history: jobs one of whose messages was lost
  shared,   \* history: Documents a claim found with a worker of the same job
  crossed,  \* history: Documents a claim found with the batch of another job
  faults    \* faults so far

documentVars == <<status, chunks, error>>
jobVars == <<job, item>>
messageVars == <<batches, queue, lost>>
historyVars == <<shared, crossed>>
vars == <<documentVars, jobVars, messageVars, worker, request, historyVars, faults>>

-----------------------------------------------------------------------------
(* Vocabulary. *)

Statuses == {"pending", "processing", "ready", "failed", "deleting", "purged"}
Errors == {"none", "retryable", "final"}
JobStatuses == {"absent", "queued", "running", "paused", "completed", "failed",
                "cancelled"}
Claimed == {"queued", "running"}                  \* what a batch works for
Active == {"queued", "running", "paused"}
ItemStatuses == {"none", "pending", "processing", "completed", "failed", "cancelled"}

JobRecords == [status : JobStatuses, target : Versions,
               total : Nat, completed : Nat, failed : Nat]
ItemRecords == [status : ItemStatuses, attempts : Nat, aged : BOOLEAN]

NoJob == [status |-> "absent", target |-> Legacy,
          total |-> 0, completed |-> 0, failed |-> 0]
NoItem == [status |-> "none", attempts |-> 0, aged |-> FALSE]

(* What a claim is going to write: the items it took, and their Documents. *)
Partly(S) == UNION {[D -> S] : D \in SUBSET Documents}
Plans == [items : Partly(ItemRecords), documents : Partly({"pending", "ready"})]
NoPlan == [items |-> [d \in {} |-> NoItem], documents |-> [d \in {} |-> "ready"]]

Steps == {"idle", "claim", "commit", "ingest", "work", "finish", "record",
          "refresh", "continue", "pause", "pauseWrite"}

Verdicts == {"completed", "pending", "failed", "same"}
WorkerStates == [step : Steps, job : Jobs \union {None}, todo : SUBSET Documents,
                 version : Versions \union {None}, plan : Plans,
                 verdict : Verdicts \union {None}]

Idle == [step |-> "idle", job |-> None, todo |-> {}, version |-> None,
         plan |-> NoPlan, verdict |-> None]

(* What a request about a job, or the retry of a Document, does next; a    *)
(* retry whose process died after its commit is "dead".                    *)
Phases == {"free", "insert", "write", "enqueue", "giveUp",
           "commit", "refresh", "send", "dead", "done"}
RequestStates == [phase : Phases, job : Jobs \union {None}, documents : SUBSET Documents,
                  target : Versions, failed : BOOLEAN]

Free == [phase |-> "free", job |-> None, documents |-> {}, target |-> Legacy,
         failed |-> FALSE]
Done == [Free EXCEPT !.phase = "done"]

Where(j, statuses) == {d \in Documents : item[j][d].status \in statuses}

Written(new, old) == [d \in Documents |-> IF d \in DOMAIN new THEN new[d] ELSE old[d]]

(* The Document a worker is at: the first of what is left of its batch. *)
Current(w) == Min(worker[w].todo)

At(w, d) == d \in worker[w].todo

(* Between its two steps a claim holds the row of its job and the items of *)
(* its plan.                                                               *)
Claiming(w, j) == worker[w].step = "commit" /\ worker[w].job = j
Unlocked(j) == \A w \in Workers : ~Claiming(w, j)
ItemUnlocked(j, d) ==
  \A w \in Workers : Claiming(w, j) => d \notin DOMAIN worker[w].plan.items

Init ==
  /\ \E f \in SUBSET Documents :   \* never ingested, and Failed
       /\ status = [d \in Documents |-> IF d \in f THEN "failed" ELSE "ready"]
       /\ chunks = [d \in Documents |-> IF d \in f THEN None ELSE Legacy]
       /\ error = [d \in Documents |-> IF d \in f THEN "final" ELSE "none"]
  /\ job = [j \in Jobs |-> NoJob]
  /\ item = [j \in Jobs |-> [d \in Documents |-> NoItem]]
  /\ batches = [j \in Jobs |-> 0]
  /\ queue = [d \in Documents |-> 0]
  /\ worker = [w \in Workers |-> Idle]
  /\ request = [q \in Requests |-> Free]
  /\ lost = {}
  /\ shared = {}
  /\ crossed = {}
  /\ faults = 0

Fault(k) == k \in PossibleFaults /\ faults < MaxFaults /\ faults' = faults + 1

-----------------------------------------------------------------------------
(* The rollout API. *)

(* _eligible_documents: chunks exist, and not in the target version. *)
EligibleUnchunked(d, v) ==  \* Mutant of Eligible: Documents without chunks too
  status[d] \in {"ready", "failed"} /\ chunks[d] # v

Eligible(d, v) ==
  status[d] \in {"ready", "failed"} /\ chunks[d] \notin {None, v}

(* rollback_reindex: what the finished job moved and is still Ready. *)
Returnable(j) == {d \in Where(j, {"completed"}) : status[d] = "ready"}

(* create_reindex_job and rollback_reindex look for an active job ... *)
ReadActive(q, j, documents, v) ==
  /\ request[q].phase = "free"
  /\ request' = [request EXCEPT ![q] =
       IF documents = {} \/ \E i \in Jobs : job[i].status \in Active
         THEN Done
         ELSE [Free EXCEPT !.phase = "insert", !.job = j, !.documents = documents,
                           !.target = v]]
  /\ UNCHANGED <<documentVars, jobVars, messageVars, worker, faults, historyVars>>

(* The selection is the library, one Knowledge Base, or a canary of either. *)
Create(q) ==
  /\ Kind[q] = "create"
  /\ \E v \in {Legacy, Hierarchical} :
       LET eligible == {d \in Documents : Eligible(d, v)} IN
       \E selection \in SUBSET eligible :
         /\ selection = {} => eligible = {}
         /\ ReadActive(q, None, selection, v)

Rollback(q) ==
  /\ Kind[q] = "rollback"
  /\ \E j \in Jobs :
       /\ job[j].status = "completed" /\ job[j].target = Hierarchical
       /\ ReadActive(q, j, Returnable(j), Legacy)

(* ... and _create_job inserts theirs in a later transaction, which fails  *)
(* when one of the Documents is gone by then.                              *)
Insert(q) ==
  LET free == {j \in Jobs : job[j].status = "absent"}
      j == Min(free)
      todo == request[q].documents IN
  /\ request[q].phase = "insert" /\ free # {}
  /\ \A d \in todo : status[d] # "purged"
  /\ job' = [job EXCEPT ![j] =
       [NoJob EXCEPT !.status = "queued", !.total = Cardinality(todo),
                     !.target = request[q].target]]
  /\ item' = [item EXCEPT ![j] = [d \in Documents |->
       IF d \in todo THEN [NoItem EXCEPT !.status = "pending"] ELSE NoItem]]
  /\ request' = [request EXCEPT ![q] = [Free EXCEPT !.phase = "enqueue", !.job = j]]
  /\ UNCHANGED <<documentVars, messageVars, worker, faults, historyVars>>

InsertFails(q) ==
  /\ request[q].phase = "insert"
  /\ \E d \in request[q].documents : status[d] = "purged"
  /\ request' = [request EXCEPT ![q] = Done]
  /\ UNCHANGED <<documentVars, jobVars, messageVars, worker, faults, historyVars>>

(* pause, resume and cancel read the job ... *)
Permitted(kind) ==
  CASE kind = "pause"  -> Claimed
    [] kind = "resume" -> {"paused"}
    [] kind = "cancel" -> Active

ReadJob(q) ==
  /\ request[q].phase = "free" /\ Kind[q] \in {"pause", "resume", "cancel"}
  /\ \E j \in Jobs : /\ job[j].status \in Permitted(Kind[q])
                     /\ request' = [request EXCEPT ![q] =
                                      [Free EXCEPT !.phase = "write", !.job = j]]
  /\ UNCHANGED <<documentVars, jobVars, messageVars, worker, faults, historyVars>>

(* ... and write its status whatever it has become, once it is unlocked.   *)
WriteJob(q) ==
  LET j == request[q].job IN
  /\ request[q].phase = "write" /\ Unlocked(j)
  /\ job' = [job EXCEPT ![j].status =
       CASE Kind[q] = "pause"  -> "paused"
         [] Kind[q] = "resume" -> "queued"
         [] Kind[q] = "cancel" -> "cancelled"]
  /\ item' = IF Kind[q] # "cancel" THEN item
             ELSE [item EXCEPT ![j] = [d \in Documents |->
                    IF @[d].status = "pending" THEN [@[d] EXCEPT !.status = "cancelled"]
                                               ELSE @[d]]]
  /\ request' = [request EXCEPT ![q] =
       IF Kind[q] = "resume" THEN [@ EXCEPT !.phase = "enqueue"] ELSE Done]
  /\ UNCHANGED <<documentVars, messageVars, worker, faults, historyVars>>

Enqueue(q) ==
  /\ request[q].phase = "enqueue"
  /\ batches' = [batches EXCEPT ![request[q].job] = @ + 1]
  /\ request' = [request EXCEPT ![q] = Done]
  /\ UNCHANGED <<documentVars, jobVars, queue, lost, worker, faults, historyVars>>

(* enqueue_reindex_batch returned False: the job is paused, unconditionally. *)
EnqueueFails(q) ==
  /\ request[q].phase = "enqueue" /\ Fault("broker")
  /\ request' = [request EXCEPT ![q].phase = "giveUp"]
  /\ UNCHANGED <<documentVars, jobVars, messageVars, worker, historyVars>>

GiveUp(q) ==
  /\ request[q].phase = "giveUp" /\ Unlocked(request[q].job)
  /\ job' = [job EXCEPT ![request[q].job].status = "paused"]
  /\ request' = [request EXCEPT ![q] = Done]
  /\ UNCHANGED <<documentVars, item, messageVars, worker, faults, historyVars>>

ApiCrash(q) ==
  /\ request[q].phase \notin {"free", "dead", "done"} /\ Fault("api")
  /\ request' = [request EXCEPT ![q] =
       IF @.phase \in {"refresh", "send"} THEN [@ EXCEPT !.phase = "dead"] ELSE Done]
  /\ lost' = IF request[q].phase \in {"enqueue", "giveUp"}
               THEN lost \union {request[q].job} ELSE lost
  /\ UNCHANGED <<documentVars, jobVars, batches, queue, worker, historyVars>>

(* retry_document reads the row of a Failed Document ... *)
RetryRead(q, d) ==
  /\ request[q].phase = "free" /\ Kind[q] = "retry" /\ status[d] = "failed"
  /\ request' = [request EXCEPT ![q] = [Free EXCEPT !.phase = "commit", !.documents = {d}]]
  /\ UNCHANGED <<documentVars, jobVars, messageVars, worker, faults, historyVars>>

Subject(q) == Min(request[q].documents)  \* the Document of a retry

(* ... writes it, whatever it has become (a row that is gone ends the      *)
(* request with an error), ...                                             *)
RetryCommit(q) ==
  LET d == Subject(q) IN
  /\ request[q].phase = "commit"
  /\ IF status[d] = "purged"
       THEN /\ request' = [request EXCEPT ![q] = Done]
            /\ UNCHANGED <<status, error>>
       ELSE /\ status' = [status EXCEPT ![d] = "pending"]
            /\ error' = [error EXCEPT ![d] = "none"]
            /\ request' = [request EXCEPT ![q].phase = "refresh"]
  /\ UNCHANGED <<chunks, jobVars, messageVars, worker, faults, historyVars>>

(* ... reads it again, ... *)
RetryRefresh(q) ==
  LET d == Subject(q) IN
  /\ request[q].phase = "refresh"
  /\ request' = [request EXCEPT ![q] =
       IF status[d] = "purged" THEN Done
         ELSE [@ EXCEPT !.phase = "send", !.failed = (status[d] = "failed")]]
  /\ UNCHANGED <<documentVars, jobVars, messageVars, worker, faults, historyVars>>

(* ... and enqueues the message. *)
RetrySend(q) ==
  /\ request[q].phase = "send"
  /\ queue' = [queue EXCEPT ![Subject(q)] = @ + 1]
  /\ request' = [request EXCEPT ![q] = Done]
  /\ UNCHANGED <<documentVars, jobVars, batches, lost, worker, faults, historyVars>>

(* The broker refuses it: the row becomes Failed, whatever it has become   *)
(* by now; the ORM leaves out a column that already had the value when the *)
(* row was read again.                                                     *)
RetrySendFails(q) ==
  LET d == Subject(q)
      final == [error EXCEPT ![d] = "final"] IN
  /\ request[q].phase = "send" /\ Fault("broker")
  /\ status' = IF status[d] = "purged" \/ request[q].failed
                  THEN status ELSE [status EXCEPT ![d] = "failed"]
  /\ error' \in IF status[d] = "purged" THEN {error}
                 ELSE IF request[q].failed THEN {error, final} ELSE {final}
  /\ request' = [request EXCEPT ![q] = Done]
  /\ UNCHANGED <<chunks, jobVars, messageVars, worker, historyVars>>

(* delete_document writes whatever the row has become since it read it;    *)
(* its own races are in Ingestion.                                         *)
DeleteDocument(q, d) ==
  /\ request[q].phase = "free" /\ Kind[q] = "delete"
  /\ status[d] \notin {"deleting", "purged"}
  /\ status' = [status EXCEPT ![d] = "deleting"]
  /\ error' = [error EXCEPT ![d] = "none"]
  /\ request' = [request EXCEPT ![q] = Done]
  /\ UNCHANGED <<chunks, jobVars, messageVars, worker, faults, historyVars>>

(* run_purge: the items of the Document go with its row. *)
Purge(d) ==
  /\ status[d] = "deleting"
  /\ \A j \in Jobs : ItemUnlocked(j, d)
  /\ status' = [status EXCEPT ![d] = "purged"]
  /\ chunks' = [chunks EXCEPT ![d] = None]
  /\ item' = [j \in Jobs |-> [item[j] EXCEPT ![d] = NoItem]]
  /\ UNCHANGED <<error, job, messageVars, worker, request, faults, historyVars>>

-----------------------------------------------------------------------------
(* The batch task. *)

GoTo(w, step) == worker' = [worker EXCEPT ![w].step = step]

(* A message is delivered; it is acknowledged when the task has returned.  *)
TakeBatch(w, j) ==
  /\ worker[w] = Idle /\ batches[j] > 0
  /\ batches' = [batches EXCEPT ![j] = @ - 1]
  /\ worker' = [worker EXCEPT ![w] = [Idle EXCEPT !.step = "claim", !.job = j]]
  /\ UNCHANGED <<documentVars, jobVars, queue, lost, request, faults, historyVars>>

TakeIngest(w, d) ==
  /\ worker[w] = Idle /\ queue[d] > 0
  /\ queue' = [queue EXCEPT ![d] = @ - 1]
  /\ worker' = [worker EXCEPT ![w] =
       [Idle EXCEPT !.step = "ingest", !.todo = {d}, !.version = DefaultVersion]]
  /\ UNCHANGED <<documentVars, jobVars, batches, lost, request, faults, historyVars>>

(* _claim_batch locks the job and the items it takes, and reads their      *)
(* Documents without a lock: this is what it is going to write.            *)
FirstOf(S, n) == {d \in S : Cardinality({e \in S : e < d}) < n}
Searchable(d, v) == status[d] = "ready" /\ chunks[d] = v

Spent(j, d) == item[j][d].attempts >= MaxAttempts

CallableUnlessBusy == {"pending", "failed"}  \* Mutant of Callable
Callable == {"pending", "processing", "failed"}

ClaimPlan(j) ==
  LET stale == {d \in Where(j, {"processing"}) : item[j][d].aged}
      done == {d \in stale : Searchable(d, job[j].target)}
      restored == {d \in stale \ done : status[d] \in Callable}
      spent == {d \in stale \ done : Spent(j, d)}
      taken == FirstOf(Where(j, {"pending"}) \union (stale \ (done \union spent)),
                       BatchSize)
      started == {d \in taken : status[d] \in {"ready", "failed"} \/ d \in restored} IN
  [items |-> [d \in stale \union taken |->
     [status |-> CASE d \in started               -> "processing"
                   [] d \in done                  -> "completed"
                   [] d \in (spent \union taken) \ started -> "failed"
                   [] OTHER                       -> "pending",
      attempts |-> item[j][d].attempts + IF d \in started THEN 1 ELSE 0,
      aged |-> FALSE]],
   documents |-> [d \in restored \union started |->
      IF d \in started THEN "pending" ELSE "ready"]]

(* The batch of another job has the Document, or is about to. *)
Elsewhere(d, j) ==
  \E v \in Workers : /\ worker[v].job \notin {None, j}
                     /\ d \in worker[v].todo \union DOMAIN worker[v].plan.items

(* Another worker of the same job is still at the Document. *)
TakenFrom(w, d) ==
  \E v \in Workers \ {w} : worker[v].job = worker[w].job /\ d \in worker[v].todo

ClaimRead(w) ==
  LET j == worker[w].job
      plan == ClaimPlan(j) IN
  /\ worker[w].step = "claim" /\ Unlocked(j)
  /\ IF job[j].status \in Claimed
       THEN /\ worker' = [worker EXCEPT ![w].step = "commit", ![w].plan = plan]
            /\ shared' = shared \union {d \in DOMAIN plan.items : TakenFrom(w, d)}
            /\ crossed' = crossed \union {d \in DOMAIN plan.items : Elsewhere(d, j)}
       ELSE GoTo(w, "refresh") /\ UNCHANGED historyVars
  /\ UNCHANGED <<documentVars, jobVars, messageVars, request, faults>>

ClaimCommit(w) ==
  LET j == worker[w].job
      plan == worker[w].plan
      started == {d \in DOMAIN plan.items : plan.items[d].status = "processing"} IN
  /\ worker[w].step = "commit"
  /\ status' = Written(plan.documents, status)
  /\ error' = [d \in Documents |-> IF d \in DOMAIN plan.documents THEN "none" ELSE error[d]]
  /\ job' = [job EXCEPT ![j].status = "running"]
  /\ item' = [item EXCEPT ![j] = Written(plan.items, @)]
  /\ worker' = [worker EXCEPT ![w] =
       [Idle EXCEPT !.step = IF started = {} THEN "refresh" ELSE "ingest",
                    !.job = j, !.todo = started, !.version = job[j].target]]
  /\ UNCHANGED <<chunks, messageVars, request, faults, historyVars>>

(* run_ingestion claims a Document that waits, has failed, or has been     *)
(* Processing for longer than settings.ingestion_stale_after_seconds.      *)
IngestClaim(w) ==
  LET d == Current(w) IN
  /\ worker[w].step = "ingest"
  /\ status[d] \in {"pending", "failed", "processing"}
  /\ status' = [status EXCEPT ![d] = "processing"]
  /\ error' = [error EXCEPT ![d] = "none"]
  /\ GoTo(w, "work")
  /\ UNCHANGED <<chunks, jobVars, messageVars, request, faults, historyVars>>

(* An ordinary message is over, a batch looks at what became of its item.  *)
AfterIngestion(w) ==
  worker' = [worker EXCEPT ![w] = IF @.job = None THEN Idle
                                                  ELSE [@ EXCEPT !.step = "finish"]]

IngestRefused(w) ==
  /\ worker[w].step = "ingest"
  /\ status[Current(w)] \notin {"pending", "failed"}
  /\ AfterIngestion(w)
  /\ queue' = IF worker[w].job = None /\ status[Current(w)] = "processing"
                THEN [queue EXCEPT ![Current(w)] = @ + 1]   \* busy: come back
                ELSE queue
  /\ UNCHANGED <<documentVars, jobVars, batches, lost, request, faults, historyVars>>

PublishUnlocked(w) ==  \* Mutant of Publish: the status is not looked at again
  LET d == Current(w) IN
  /\ worker[w].step = "work"
  /\ status' = [status EXCEPT ![d] = "ready"]
  /\ chunks' = [chunks EXCEPT ![d] = worker[w].version]
  /\ error' = [error EXCEPT ![d] = "none"]
  /\ AfterIngestion(w)
  /\ UNCHANGED <<jobVars, messageVars, request, faults, historyVars>>

Publish(w) ==
  LET d == Current(w) IN
  /\ worker[w].step = "work"
  /\ IF status[d] = "processing"
       THEN /\ status' = [status EXCEPT ![d] = "ready"]
            /\ chunks' = [chunks EXCEPT ![d] = worker[w].version]
            /\ error' = [error EXCEPT ![d] = "none"]
       ELSE UNCHANGED documentVars
  /\ AfterIngestion(w)
  /\ UNCHANGED <<jobVars, messageVars, request, faults, historyVars>>

FailIngestion(w) ==
  LET d == Current(w) IN
  /\ worker[w].step = "work"
  /\ IF status[d] = "processing"
       THEN /\ status' = [status EXCEPT ![d] = "failed"]
            /\ \E e \in {"retryable", "final"} : error' = [error EXCEPT ![d] = e]
       ELSE UNCHANGED <<status, error>>
  /\ AfterIngestion(w)
  /\ UNCHANGED <<chunks, jobVars, messageVars, request, faults, historyVars>>

(* _finish_item reads the item, the Document and its chunks ...            *)
Retryable(j, d) ==
  /\ status[d] = "failed" /\ error[d] = "retryable"
  /\ item[j][d].attempts < MaxAttempts

Verdict(j, d, v) ==
  CASE Searchable(d, v)  -> "completed"
    [] Retryable(j, d)   -> "pending"
    [] OTHER             -> "failed"

NextItem(w) ==
  LET left == worker[w].todo \ {Current(w)} IN
  worker' = [worker EXCEPT ![w] =
    [@ EXCEPT !.step = IF left = {} THEN "refresh" ELSE "ingest",
              !.todo = left, !.verdict = None]]

FinishRead(w) ==
  LET j == worker[w].job
      d == Current(w) IN
  /\ worker[w].step = "finish"
  /\ IF item[j][d].status = "none"
       THEN NextItem(w)
       ELSE worker' = [worker EXCEPT
              ![w].step = "record",
              ![w].verdict = IF Verdict(j, d, worker[w].version) = item[j][d].status
                               THEN "same" ELSE Verdict(j, d, worker[w].version)]
  /\ UNCHANGED <<documentVars, jobVars, messageVars, request, faults, historyVars>>

(* ... and writes the item without having locked any of them. *)
FinishWrite(w) ==
  LET j == worker[w].job
      d == Current(w) IN
  /\ worker[w].step = "record"
  /\ ItemUnlocked(j, d) /\ item[j][d].status # "none"
  /\ item' = IF worker[w].verdict = "same" THEN item
             ELSE [item EXCEPT ![j][d].status = worker[w].verdict]
  /\ NextItem(w)
  /\ UNCHANGED <<documentVars, job, messageVars, request, faults, historyVars>>

(* An exception ends the batch: its message is acknowledged all the same.  *)
Abandon(w) ==
  /\ worker' = [worker EXCEPT ![w] = Idle]
  /\ lost' = lost \union {worker[w].job}

(* The item was purged in between: its UPDATE matches no row, and raises.  *)
FinishStale(w) ==
  /\ worker[w].step = "record"
  /\ item[worker[w].job][Current(w)].status = "none"
  /\ Abandon(w)
  /\ UNCHANGED <<documentVars, jobVars, batches, queue, request, faults, historyVars>>

(* _refresh_job counts, ends a running job that has nothing left, and lets *)
(* one that has something left go on, if only to wait for stale items.     *)
EndedEarly(j) ==  \* Mutant of Ended: items somebody holds are forgotten
  job[j].status = "running" /\ Where(j, {"pending"}) = {}
Ended(j) == job[j].status = "running" /\ Where(j, {"pending", "processing"}) = {}

GoesOnPending(j) ==  \* Mutant of GoesOn: nobody waits for stale items
  job[j].status = "running" /\ Where(j, {"pending"}) # {}
GoesOn(j) == job[j].status = "running" /\ Where(j, {"pending", "processing"}) # {}

RefreshJob(w) ==
  LET j == worker[w].job
      failed == Cardinality(Where(j, {"failed"})) IN
  /\ worker[w].step = "refresh" /\ Unlocked(j)
  /\ job' = [job EXCEPT ![j] =
       [@ EXCEPT !.completed = Cardinality(Where(j, {"completed"})),
                 !.failed = failed,
                 !.status = IF ~Ended(j) THEN job[j].status
                            ELSE IF failed > 0 THEN "failed" ELSE "completed"]]
  /\ worker' = [worker EXCEPT ![w] =
       IF GoesOn(j) THEN [Idle EXCEPT !.step = "continue", !.job = j] ELSE Idle]
  /\ UNCHANGED <<documentVars, item, messageVars, request, faults, historyVars>>

Continue(w) ==
  /\ worker[w].step = "continue"
  /\ batches' = [batches EXCEPT ![worker[w].job] = @ + 1]
  /\ worker' = [worker EXCEPT ![w] = Idle]
  /\ UNCHANGED <<documentVars, jobVars, queue, lost, request, faults, historyVars>>

ContinueNever(w) ==  \* Mutant of ContinueFails: the job is not paused
  /\ worker[w].step = "continue" /\ Fault("broker")
  /\ worker' = [worker EXCEPT ![w] = Idle]
  /\ UNCHANGED <<documentVars, jobVars, messageVars, request, historyVars>>

(* The queue is unavailable: pause_reindex_job reads the job ... *)
ContinueFails(w) ==
  /\ worker[w].step = "continue" /\ Fault("broker")
  /\ GoTo(w, "pause")
  /\ UNCHANGED <<documentVars, jobVars, messageVars, request, historyVars>>

PauseRead(w) ==
  /\ worker[w].step = "pause"
  /\ IF job[worker[w].job].status \in Claimed
       THEN GoTo(w, "pauseWrite")
       ELSE worker' = [worker EXCEPT ![w] = Idle]
  /\ UNCHANGED <<documentVars, jobVars, messageVars, request, faults, historyVars>>

(* ... and writes it. *)
PauseWrite(w) ==
  LET j == worker[w].job IN
  /\ worker[w].step = "pauseWrite" /\ Unlocked(j)
  /\ job' = [job EXCEPT ![j].status = "paused"]
  /\ worker' = [worker EXCEPT ![w] = Idle]
  /\ UNCHANGED <<documentVars, item, messageVars, request, faults, historyVars>>

-----------------------------------------------------------------------------
(* Time and faults. *)

(* reindex_stale_after_seconds have passed since the item was claimed. *)
ItemAges(j, d) ==
  /\ item[j][d].status = "processing" /\ ~item[j][d].aged
  /\ ItemUnlocked(j, d)
  /\ item' = [item EXCEPT ![j][d].aged = TRUE]
  /\ UNCHANGED <<documentVars, job, messageVars, worker, request, faults, historyVars>>

(* A worker dies: its message is delivered again. *)
Crash(w) ==
  LET j == worker[w].job IN
  /\ worker[w] # Idle /\ Fault("crash")
  /\ worker' = [worker EXCEPT ![w] = Idle]
  /\ IF j = None
       THEN /\ queue' = [queue EXCEPT ![Current(w)] = @ + 1]
            /\ UNCHANGED batches
       ELSE /\ batches' = [batches EXCEPT ![j] = @ + 1]
            /\ UNCHANGED queue
  /\ UNCHANGED <<documentVars, jobVars, lost, request, historyVars>>

Redeliver(w) ==
  /\ worker[w].job # None /\ Fault("redelivery")
  /\ batches' = [batches EXCEPT ![worker[w].job] = @ + 1]
  /\ UNCHANGED <<documentVars, jobVars, queue, lost, worker, request, historyVars>>

(* A worker loses the database: the batch raises (RunIngestion has what an *)
(* ordinary ingestion does).                                               *)
Raise(w) ==
  /\ worker[w].job # None /\ Fault("database")
  /\ Abandon(w)
  /\ UNCHANGED <<documentVars, jobVars, batches, queue, request, historyVars>>

-----------------------------------------------------------------------------
RequestStep(q) ==
  \/ Create(q) \/ Rollback(q) \/ Insert(q) \/ InsertFails(q)
  \/ ReadJob(q) \/ WriteJob(q) \/ Enqueue(q) \/ EnqueueFails(q) \/ GiveUp(q)
  \/ \E d \in Documents : RetryRead(q, d) \/ DeleteDocument(q, d)
  \/ RetryCommit(q) \/ RetryRefresh(q) \/ RetrySend(q) \/ RetrySendFails(q)

TakeMessage(w) ==
  \/ \E j \in Jobs : TakeBatch(w, j)
  \/ \E d \in Documents : TakeIngest(w, d)

WorkerStep(w) ==
  \/ ClaimRead(w) \/ ClaimCommit(w)
  \/ IngestClaim(w) \/ IngestRefused(w) \/ Publish(w) \/ FailIngestion(w)
  \/ FinishRead(w) \/ FinishWrite(w) \/ FinishStale(w)
  \/ RefreshJob(w) \/ Continue(w) \/ ContinueFails(w)
  \/ PauseRead(w) \/ PauseWrite(w)

Next ==
  \/ \E q \in Requests : RequestStep(q) \/ ApiCrash(q)
  \/ \E w \in Workers : TakeMessage(w) \/ WorkerStep(w)
                         \/ Crash(w) \/ Redeliver(w) \/ Raise(w)
  \/ \E d \in Documents : Purge(d) \/ \E j \in Jobs : ItemAges(j, d)

Spec == Init /\ [][Next]_vars

(* Every message is delivered some day, workers finish their tasks, and    *)
(* the clock moves on.                                                     *)
FairSpec ==
  /\ Spec
  /\ \A j \in Jobs : SF_vars(\E w \in Workers : TakeBatch(w, j))
  /\ \A w \in Workers : WF_vars(WorkerStep(w)) /\ SF_vars(IngestClaim(w))
  /\ \A j \in Jobs, d \in Documents : WF_vars(ItemAges(j, d))
  /\ \A q \in Requests : WF_vars(RequestStep(q) /\ request[q].phase # "free")

-----------------------------------------------------------------------------
(* Properties. *)

(* Every variable keeps its shape, and a job never counts more items than  *)
(* it has: the database would refuse to store such counters.               *)
TypeOK ==
  /\ status \in [Documents -> Statuses]
  /\ chunks \in [Documents -> Versions \union {None}]
  /\ error \in [Documents -> Errors]
  /\ job \in [Jobs -> JobRecords]
  /\ \A j \in Jobs : job[j].completed + job[j].failed <= job[j].total
  /\ item \in [Jobs -> [Documents -> ItemRecords]]
  /\ batches \in [Jobs -> Nat] /\ queue \in [Documents -> Nat]
  /\ worker \in [Workers -> WorkerStates]
  /\ request \in [Requests -> RequestStates]
  /\ lost \subseteq Jobs /\ shared \union crossed \subseteq Documents
  /\ faults \in Nat

(* A Ready Document has chunks: _claim_batch may call back to Ready only   *)
(* what was searchable before, which _eligible_documents saw to.           *)
ReadyIsSearchable == \A d \in Documents : status[d] = "ready" => chunks[d] # None

(* A job that says completed has no item left over and none that failed,   *)
(* but for Documents that two of its workers were at (shared).             *)
CompletedMeansDone ==
  \A j \in Jobs : job[j].status = "completed" =>
    Where(j, {"pending", "processing", "failed"}) \subseteq shared

Drives(w, j) == worker[w].job = j /\ worker[w].step # "idle"

(* A queued or running job has a message or a worker that drives it, or a  *)
(* request about to send one, unless one of its messages has been lost.    *)
JobIsDriven ==
  \A j \in Jobs : job[j].status \in Claimed /\ j \notin lost =>
    \/ batches[j] > 0
    \/ \E w \in Workers : Drives(w, j)
    \/ \E q \in Requests : request[q].job = j /\ request[q].phase \in {"enqueue", "giveUp"}

(* The claim of a batch on a Document, which a later batch of a job that   *)
(* is active recovers once it is stale, and none of a cancelled job does.  *)
Recoverable(j, d) == item[j][d].status = "processing" /\ job[j].status \in Active
Forsaken(j, d) == item[j][d].status = "processing" /\ job[j].status = "cancelled"

(* A Document that waits, or is being worked on, is in a message, with a   *)
(* worker, about to be sent, or a batch will recover it.  Exceptions, each *)
(* by Document, are those two workers of one job had at once (shared), or  *)
(* the batches of two jobs (crossed), those whose job was cancelled under  *)
(* their batch, and those whose retry died between its commit and message. *)
ClaimIsKept ==
  \A d \in Documents \ (shared \union crossed) :
    /\ status[d] \in {"pending", "processing"}
    /\ \A j \in Jobs : ~Forsaken(j, d)
    /\ \A q \in Requests : ~(request[q].phase = "dead" /\ d \in request[q].documents)
    => \/ queue[d] > 0
       \/ \E w \in Workers : At(w, d)
       \/ \E q \in Requests : /\ request[q].phase \in {"refresh", "send"}
                              /\ d \in request[q].documents
       \/ \E j \in Jobs : Recoverable(j, d)

(* A deletion is undone by nothing but the late write of somebody who had  *)
(* read the Document without a lock: the commit of a batch, the commit of  *)
(* a retry, or its Failed when the broker refuses the message.             *)
OnlyLateWritesRevive ==
  [][\A d \in Documents : status[d] = "deleting" /\ status'[d] # "deleting" =>
       \/ status'[d] = "purged"
       \/ \E w \in Workers : /\ worker[w].step = "commit" /\ worker'[w] # worker[w]
                             /\ d \in DOMAIN worker[w].plan.documents
       \/ \E q \in Requests : /\ request[q].phase \in {"commit", "send"}
                              /\ request'[q] # request[q]
                              /\ d \in request[q].documents]_vars

(* A job that is queued or running ends or is paused. *)
JobsEnd ==
  \A j \in Jobs : job[j].status \in Claimed ~> job[j].status \notin Claimed \/ j \in lost
=============================================================================
