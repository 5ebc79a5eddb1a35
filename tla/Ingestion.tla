----------------------------- MODULE Ingestion -----------------------------
(***************************************************************************)
(* The life of a Document: the administration API creates, retries and     *)
(* deletes it, the Redis broker delivers at-least-once messages, and       *)
(* Celery workers (RunIngestion) ingest and purge it.                      *)
(*                                                                         *)
(* API requests read the row without a lock and write it later, so each    *)
(* of their database transactions is an action of its own.  A message is   *)
(* acknowledged only after the task returned: a worker that dies gives it  *)
(* back, and the visibility timeout may deliver it a second time.          *)
(***************************************************************************)
EXTENDS RunIngestion, FiniteSets

CONSTANTS
  Requests,        \* requests an Administrator will ever send
  Kind,            \* what each request asks for
  DefaultVersion,  \* settings.chunking_version
  PossibleFaults,  \* the kinds of fault that may happen
  MaxFaults        \* how many of them may happen

FaultKinds == {"crash",       \* a worker process dies
               "redelivery",  \* the visibility timeout expires
               "broker",      \* a message cannot be enqueued
               "api",         \* the API process dies inside a request
               "database",    \* a worker loses the database
               "storage"}     \* the original cannot be removed

ASSUME KindAssumption == Kind \in [Requests -> {"create", "retry", "delete"}]
ASSUME DefaultVersionAssumption == DefaultVersion \in Versions
ASSUME FaultAssumption == PossibleFaults \subseteq FaultKinds /\ MaxFaults \in Nat

VARIABLES
  queue,       \* undelivered ingest messages of each Document
  purgeQueue,  \* undelivered purge messages, by Document and retries so far
  request,     \* where each API request is
  faults       \* faults so far

vars == <<documentVars, queue, purgeQueue, request, faults>>

Phases == {"free", "commit", "refresh", "enqueue", "done"}

RequestStates == [phase    : Phases,
                  document : Documents \union {None},
                  seen     : Statuses \union {None},  \* status it last read,
                  error    : Errors]                  \* safe_error it last read

Free == [phase |-> "free", document |-> None, seen |-> None, error |-> "none"]
Done == [phase |-> "done", document |-> None, seen |-> None, error |-> "none"]

Init ==
  /\ DocumentInit
  /\ queue = [d \in Documents |-> 0]
  /\ purgeQueue = [d \in Documents |-> [r \in 0..MaxPurgeRetries |-> 0]]
  /\ request = [q \in Requests |-> Free]
  /\ faults = [k \in FaultKinds |-> 0]

TotalFaults == faults["crash"] + faults["redelivery"] + faults["broker"]
                 + faults["api"] + faults["database"] + faults["storage"]

Fault(k) ==
  /\ k \in PossibleFaults
  /\ TotalFaults < MaxFaults
  /\ faults' = [faults EXCEPT ![k] = @ + 1]

Finish(q) == request' = [request EXCEPT ![q] = Done]

Send(d) == queue' = [queue EXCEPT ![d] = @ + 1]
SendPurge(d, r) == purgeQueue' = [purgeQueue EXCEPT ![d][r] = @ + 1]

-----------------------------------------------------------------------------
(* The administration API. *)

(* The final transaction of an upload: the Document becomes Pending. *)
CreateDocument(q, d) ==
  /\ request[q].phase = "free" /\ Kind[q] = "create"
  /\ status[d] = "absent"
  /\ status' = [status EXCEPT ![d] = "pending"]
  /\ stage' = [stage EXCEPT ![d] = "queued"]
  /\ original' = [original EXCEPT ![d] = TRUE]
  /\ request' = [request EXCEPT ![q] = [Free EXCEPT !.phase = "refresh",
                                                    !.document = d]]
  /\ UNCHANGED <<safeError, attempts, chunkingVersion, stale, chunks,
                 generation, run, queue, purgeQueue, faults>>

(* retry_document reads the row (any other status is answered 409) ... *)
RetryRead(q, d) ==
  /\ request[q].phase = "free" /\ Kind[q] = "retry"
  /\ status[d] = "failed"
  /\ request' = [request EXCEPT ![q] = [phase |-> "commit", document |-> d,
                                        seen |-> "failed", error |-> safeError[d]]]
  /\ UNCHANGED <<documentVars, queue, purgeQueue, faults>>

(* What a request writes to safe_error: the ORM leaves out a column whose  *)
(* value is the one the request last read.                                 *)
WriteError(q, error) ==
  IF request[q].error = error
    THEN safeError ELSE [safeError EXCEPT ![request[q].document] = error]

(* ... and writes it, whatever it has become; a row that is gone is an     *)
(* error of the request.                                                   *)
RetryCommit(q) ==
  LET d == request[q].document IN
  /\ request[q].phase = "commit" /\ Kind[q] = "retry"
  /\ IF HasRow(d)
       THEN /\ status' = [status EXCEPT ![d] = "pending"]
            /\ stage' = [stage EXCEPT ![d] = "queued"]
            /\ safeError' = WriteError(q, "none")
            /\ request' = [request EXCEPT ![q].phase = "refresh"]
       ELSE /\ Finish(q)
            /\ UNCHANGED <<status, stage, safeError>>
  /\ UNCHANGED <<attempts, chunkingVersion, stale, storeVars, run,
                 queue, purgeQueue, faults>>

(* session.refresh(document) *)
Refresh(q) ==
  LET d == request[q].document IN
  /\ request[q].phase = "refresh"
  /\ IF HasRow(d)
       THEN request' = [request EXCEPT ![q].phase = "enqueue",
                                       ![q].seen = status[d],
                                       ![q].error = safeError[d]]
       ELSE Finish(q)
  /\ UNCHANGED <<documentVars, queue, purgeQueue, faults>>

EnqueueIngestion(q) ==
  /\ request[q].phase = "enqueue" /\ Kind[q] # "delete"
  /\ Send(request[q].document)
  /\ Finish(q)
  /\ UNCHANGED <<documentVars, purgeQueue, faults>>

(* The broker refused the message: the row becomes Failed, whatever it has *)
(* become since the request last read it.                                  *)
EnqueueIngestionFails(q) ==
  LET d == request[q].document IN
  /\ request[q].phase = "enqueue" /\ Kind[q] # "delete"
  /\ Fault("broker")
  /\ Finish(q)
  /\ IF HasRow(d) /\ request[q].seen # "failed"
       THEN /\ status' = [status EXCEPT ![d] = "failed"]
            /\ stage' = [stage EXCEPT ![d] = "failed"]
       ELSE UNCHANGED <<status, stage>>
  /\ safeError' = IF HasRow(d) THEN WriteError(q, "queue") ELSE safeError
  /\ UNCHANGED <<attempts, chunkingVersion, stale, storeVars, run,
                 queue, purgeQueue>>

(* delete_document reads the row; one that is already Deleting only needs  *)
(* another purge message.                                                  *)
DeleteRead(q, d) ==
  /\ request[q].phase = "free" /\ Kind[q] = "delete"
  /\ HasRow(d)
  /\ request' = [request EXCEPT ![q] =
                   [phase |-> IF status[d] = "deleting" THEN "enqueue"
                                                        ELSE "commit",
                    document |-> d, seen |-> status[d], error |-> safeError[d]]]
  /\ UNCHANGED <<documentVars, queue, purgeQueue, faults>>

DeleteCommit(q) ==
  LET d == request[q].document IN
  /\ request[q].phase = "commit" /\ Kind[q] = "delete"
  /\ IF HasRow(d)
       THEN /\ status' = [status EXCEPT ![d] = "deleting"]
            /\ stage' = [stage EXCEPT ![d] = "deleting"]
            /\ safeError' = WriteError(q, "none")
            /\ generation' = generation + 1
            /\ request' = [request EXCEPT ![q].phase = "enqueue"]
       ELSE /\ Finish(q)
            /\ UNCHANGED <<status, stage, safeError, generation>>
  /\ UNCHANGED <<attempts, chunkingVersion, stale, chunks, original, run,
                 queue, purgeQueue, faults>>

EnqueuePurge(q) ==
  /\ request[q].phase = "enqueue" /\ Kind[q] = "delete"
  /\ SendPurge(request[q].document, 0)
  /\ Finish(q)
  /\ UNCHANGED <<documentVars, queue, faults>>

(* Answered 503: the row stays Deleting until the request is sent again. *)
EnqueuePurgeFails(q) ==
  /\ request[q].phase = "enqueue" /\ Kind[q] = "delete"
  /\ Fault("broker")
  /\ Finish(q)
  /\ UNCHANGED <<documentVars, queue, purgeQueue>>

(* The API process dies between two transactions of a request. *)
ApiCrash(q) ==
  /\ request[q].phase \in {"commit", "refresh", "enqueue"}
  /\ Fault("api")
  /\ Finish(q)
  /\ UNCHANGED <<documentVars, queue, purgeQueue>>

-----------------------------------------------------------------------------
(* Delivery. *)

Receive(w, d) ==
  /\ run[w] = Idle
  /\ queue[d] > 0
  /\ queue' = [queue EXCEPT ![d] = @ - 1]
  /\ run' = [run EXCEPT ![w] = IngestionRun("ingest", d, DefaultVersion)]
  /\ UNCHANGED <<rowVars, storeVars, purgeQueue, request, faults>>

ReceivePurge(w, d) ==
  /\ run[w] = Idle
  /\ \E r \in 0..MaxPurgeRetries :
       /\ purgeQueue[d][r] > 0
       /\ purgeQueue' = [purgeQueue EXCEPT ![d][r] = @ - 1]
       /\ run' = [run EXCEPT ![w] = PurgeRun(d, r)]
  /\ UNCHANGED <<rowVars, storeVars, queue, request, faults>>

(* The task returned, or raised: its message is acknowledged. *)
Acknowledge(w) ==
  /\ run[w].step \in (IngestionOutcomes \ {"busy"}) \union {"purgeDone", "purgeRaised"}
  /\ run' = [run EXCEPT ![w] = Idle]
  /\ UNCHANGED <<rowVars, storeVars, queue, purgeQueue, request, faults>>

(* ingest_document: somebody else is processing; come back later. *)
Reschedule(w) ==
  /\ run[w].step = "busy"
  /\ Send(run[w].document)
  /\ run' = [run EXCEPT ![w] = Idle]
  /\ UNCHANGED <<rowVars, storeVars, purgeQueue, request, faults>>

RescheduleFails(w) ==
  /\ run[w].step = "busy"
  /\ Fault("broker")
  /\ run' = [run EXCEPT ![w] = Idle]
  /\ UNCHANGED <<rowVars, storeVars, queue, purgeQueue, request>>

(* Mutant of RetryPurge: an OSError is not retried. *)
RetryPurgeNever(w) ==
  /\ run[w].step = "purgeRetry"
  /\ run' = [run EXCEPT ![w] = Idle]
  /\ UNCHANGED <<rowVars, storeVars, queue, purgeQueue, request, faults>>

(* autoretry_for=(OSError,); after max_retries the message is dropped. *)
RetryPurge(w) ==
  /\ run[w].step = "purgeRetry"
  /\ IF run[w].retries < MaxPurgeRetries
       THEN SendPurge(run[w].document, run[w].retries + 1)
       ELSE UNCHANGED purgeQueue
  /\ run' = [run EXCEPT ![w] = Idle]
  /\ UNCHANGED <<rowVars, storeVars, queue, request, faults>>

GiveBack(w) ==
  LET d == run[w].document IN
  IF run[w].task = "ingest"
    THEN Send(d) /\ UNCHANGED purgeQueue
    ELSE SendPurge(d, run[w].retries) /\ UNCHANGED queue

(* acks_late, reject_on_worker_lost: a dead worker's message is redelivered. *)
WorkerCrash(w) ==
  /\ run[w].step # "idle"
  /\ Fault("crash")
  /\ GiveBack(w)
  /\ run' = [run EXCEPT ![w] = Idle]
  /\ UNCHANGED <<rowVars, storeVars, request>>

(* The visibility timeout: a second delivery beside the first. *)
Redeliver(w) ==
  /\ run[w].step # "idle"
  /\ Fault("redelivery")
  /\ GiveBack(w)
  /\ UNCHANGED <<documentVars, request>>

-----------------------------------------------------------------------------
WorkerFaults(w) ==
  \/ /\ FailClaiming(w) \/ FailUnrecorded(w) \/ PurgeLosesDatabase(w)
     /\ Fault("database")
  \/ /\ RemoveFileFails(w)
     /\ Fault("storage")

Deliver(w) ==
  \/ \E d \in Documents : Receive(w, d) \/ ReceivePurge(w, d)
  \/ Acknowledge(w) \/ Reschedule(w) \/ RescheduleFails(w) \/ RetryPurge(w)
  \/ WorkerCrash(w) \/ Redeliver(w)

Serve(q) ==
  \/ \E d \in Documents : CreateDocument(q, d) \/ RetryRead(q, d) \/ DeleteRead(q, d)
  \/ RetryCommit(q) \/ Refresh(q) \/ EnqueueIngestion(q)
  \/ EnqueueIngestionFails(q) \/ DeleteCommit(q) \/ EnqueuePurge(q)
  \/ EnqueuePurgeFails(q) \/ ApiCrash(q)

Next ==
  \/ \E w \in Workers :
       \/ Work(w) /\ UNCHANGED <<queue, purgeQueue, request, faults>>
       \/ WorkerFaults(w) /\ UNCHANGED <<queue, purgeQueue, request>>
       \/ Deliver(w)
  \/ \E q \in Requests : Serve(q)
  \/ \E d \in Documents :
       BecomeStale(d) /\ UNCHANGED <<queue, purgeQueue, request, faults>>

Spec == Init /\ [][Next]_vars

(***************************************************************************)
(* Fairness.  A worker goes on with what it does and returns; Celery hands *)
(* out the messages of one queue in order, so a message that is ready      *)
(* again and again is taken (strong fairness); a request whose process     *)
(* lives reaches its end; time passes for a row nobody updates.  Nothing   *)
(* is assumed of the faults, nor of Administrators sending requests.       *)
(***************************************************************************)
Returns(w) == Acknowledge(w) \/ Reschedule(w) \/ RetryPurge(w)

Continues(q) == RetryCommit(q) \/ Refresh(q) \/ EnqueueIngestion(q)
                  \/ DeleteCommit(q) \/ EnqueuePurge(q)

Fairness ==
  /\ \A w \in Workers :
       /\ WF_vars(Work(w) /\ UNCHANGED <<queue, purgeQueue, request, faults>>)
       /\ WF_vars(Returns(w))
  /\ \A q \in Requests : WF_vars(Continues(q))
  /\ \A d \in Documents :
       /\ SF_vars(\E w \in Workers : Receive(w, d))
       /\ SF_vars(\E w \in Workers : ReceivePurge(w, d))
       /\ WF_vars(BecomeStale(d) /\ UNCHANGED <<queue, purgeQueue, request, faults>>)

FairSpec == Spec /\ Fairness

-----------------------------------------------------------------------------
(* Properties. *)

(* Every variable has its type; an idle worker holds nothing. *)
TypeOK ==
  /\ DocumentTypeOK
  /\ queue \in [Documents -> Nat]
  /\ purgeQueue \in [Documents -> [0..MaxPurgeRetries -> Nat]]
  /\ request \in [Requests -> RequestStates]
  /\ \A q \in Requests :
       request[q].phase \notin {"free", "done"} => request[q].document \in Documents
  /\ faults \in [FaultKinds -> Nat]

(* Ingestion is all-or-nothing: whatever runs overlap, fail or die, the    *)
(* chunks stored for a Document are the complete batch of the version its  *)
(* row records, a Ready Document has such a batch, and chunks never        *)
(* outlive the row.                                                        *)
AllOrNothing ==
  \A d \in Documents :
    /\ HasRow(d) => chunks[d] = chunkingVersion[d]
    /\ ~HasRow(d) => chunks[d] = None
    /\ status[d] = "ready" => chunks[d] \in Versions

AllOrNothingInv ==
  /\ AllOrNothing
  /\ \A d \in Documents : status[d] = "absent" => chunkingVersion[d] = None

(* The stage an Administrator is shown agrees with the status, although    *)
(* superseded runs go on reporting progress: no late report repaints a     *)
(* row that has left Processing.                                           *)
StageMatchesStatus ==
  \A d \in Documents :
    CASE status[d] = "absent"     -> stage[d] = "none"
      [] status[d] = "pending"    -> stage[d] = "queued"
      [] status[d] = "processing" -> stage[d] \in Stages
      [] status[d] = "ready"      -> stage[d] = "ready"
      [] status[d] = "failed"     -> stage[d] = "failed"
      [] status[d] \in {"deleting", "purged"} -> stage[d] = "deleting"

(* A purge removes the original before the row: once the row is gone there *)
(* is no original left that nothing refers to.                             *)
PurgeLeavesNothing ==
  \A d \in Documents : status[d] = "purged" => ~original[d]

(* Somebody will still work on Document d: a message waits, a worker has   *)
(* it, or a request is about to send it.                                   *)
IngestionOwed(d) ==
  \/ queue[d] > 0
  \/ \E w \in Workers : /\ run[w].task = "ingest" /\ run[w].document = d
                        /\ run[w].step \in ClaimSteps \union Stages \union {"busy"}
  \/ \E q \in Requests : /\ Kind[q] # "delete" /\ request[q].document = d
                         /\ request[q].phase \in {"refresh", "enqueue"}

PurgeOwed(d) ==
  \/ \E r \in 0..MaxPurgeRetries : purgeQueue[d][r] > 0
  \/ \E w \in Workers : /\ run[w].task = "purge" /\ run[w].document = d
                        /\ run[w].step \in PurgeSteps \union {"purgeRetry"}
  \/ \E q \in Requests : /\ Kind[q] = "delete" /\ request[q].document = d
                         /\ request[q].phase = "enqueue"

(* No Document waits for work nobody owes: through crashes of workers and  *)
(* repeated deliveries, a Pending or Processing Document is stranded only  *)
(* by a message the broker refused, a request that died or a database that *)
(* was lost under a worker, a Deleting one by any of these (run_purge      *)
(* raises, and only an OSError is retried) or by an original that could    *)
(* not be removed in max_retries + 1 attempts.                             *)
NothingStranded ==
  \A d \in Documents :
    /\ /\ status[d] \in {"pending", "processing"}
       /\ faults["broker"] = 0 /\ faults["api"] = 0 /\ faults["database"] = 0
       => IngestionOwed(d)
    /\ /\ status[d] = "deleting"
       /\ faults["broker"] = 0 /\ faults["api"] = 0 /\ faults["database"] = 0
       /\ faults["storage"] <= MaxPurgeRetries
       => PurgeOwed(d)

(* Why: a Pending Document still has the message, or the request, that     *)
(* nobody else consumes; each purge attempt has cost an error of the file  *)
(* store or the database; a task only takes the steps of its own kind.     *)
PendingOwed(d) ==
  \/ queue[d] > 0
  \/ \E w \in Workers : /\ run[w].task = "ingest" /\ run[w].document = d
                        /\ run[w].step = "claim"
  \/ \E q \in Requests : /\ Kind[q] # "delete" /\ request[q].document = d
                         /\ request[q].phase \in {"refresh", "enqueue"}

TasksMatchSteps ==
  \A w \in Workers :
    /\ run[w].step \in ClaimSteps \union Stages \union IngestionOutcomes
         => run[w].task = "ingest"
    /\ run[w].step \in PurgeSteps \union PurgeOutcomes => run[w].task = "purge"

Paid == faults["storage"] + faults["database"]

RetriesPaid ==
  /\ \A d \in Documents, r \in 0..MaxPurgeRetries :
       purgeQueue[d][r] > 0 => r <= Paid
  /\ \A w \in Workers :
       /\ run[w].step \in PurgeSteps => run[w].retries <= Paid
       /\ run[w].step = "purgeRetry" => run[w].retries < Paid
       /\ run[w].step \in {"purgeDone", "purgeRaised"} => run[w].retries <= Paid

StrandedInv ==
  /\ NothingStranded
  /\ TasksMatchSteps
  /\ RetriesPaid
  /\ \A d \in Documents :
       /\ status[d] = "pending"
       /\ faults["broker"] = 0 /\ faults["api"] = 0 /\ faults["database"] = 0
       => PendingOwed(d)

(* A purge under way is of a Document that existed; past RemoveFile its    *)
(* original is gone, and it cannot come back.                              *)
PurgeInv ==
  /\ PurgeLeavesNothing
  /\ \A w \in Workers :
       /\ run[w].step \in {"removeFile", "deleteRow"}
            => status[run[w].document] # "absent"
       /\ run[w].step = "deleteRow" => ~original[run[w].document]

(* No worker brings a Deleting Document back, however far its run had come *)
(* when the deletion began.  Only an API request can: one that read the    *)
(* row before the deletion and writes it after.                            *)
OnlyRequestsRevive ==
  [][\A d \in Documents :
       status[d] = "deleting" =>
         \/ status'[d] \in {"deleting", "purged"}
         \/ \E q \in Requests : /\ request[q].document = d
                                /\ request[q].phase \in {"commit", "enqueue"}
                                /\ request'[q] # request[q]]_vars

(* Retrieval's view of the Documents: only Ready ones are searchable. *)
Searchable == [d \in Documents |-> IF status[d] = "ready" THEN chunks[d] ELSE None]

Index == INSTANCE SearchableIndex WITH index <- Searchable

(* The life of Documents keeps what retrieval and its caches are promised: *)
(* whole batches only, and a new generation whenever evidence appears.     *)
IndexSpec == Index!Spec

(* Under fairness a Document that waits for ingestion, or is in it,        *)
(* settles, unless a message, a request or the database is lost.           *)
IngestionSettles ==
  \A d \in Documents :
    status[d] \in {"pending", "processing"}
      ~> \/ status[d] \notin {"pending", "processing"}
         \/ faults["broker"] + faults["api"] + faults["database"] > 0

(* A deletion that somebody still owes completes, unless a request revives *)
(* the Document or yet another fault comes in between.  To send the DELETE *)
(* request again makes somebody owe it, whatever cut the earlier attempt   *)
(* short (a purge that raised, a message or a request that was lost).      *)
DeletionCompletes ==
  \A d \in Documents, n \in 0..MaxFaults :
    (/\ status[d] = "deleting" /\ PurgeOwed(d)
     /\ TotalFaults = n /\ Paid <= MaxPurgeRetries)
      ~> status[d] # "deleting" \/ TotalFaults > n

(* "Deleting a Document immediately excludes it from new retrieval, then   *)
(* removes its original, chunks, and vectors in the background"            *)
(* (docs/MVP-PLAN.md:50): a deletion that has begun is final.              *)
DeletionIsFinal ==
  [][\A d \in Documents :
       status[d] = "deleting" => status'[d] \in {"deleting", "purged"}]_vars

=============================================================================
