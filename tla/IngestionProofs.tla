-------------------------- MODULE IngestionProofs --------------------------
(***************************************************************************)
(* What holds of Ingestion for every set of Documents, workers, requests   *)
(* and versions, and any number of faults.                                 *)
(***************************************************************************)
EXTENDS Ingestion, TLAPS

(***************************************************************************)
(* The steps of run_ingestion and run_purge.                               *)
(***************************************************************************)

(* A worker that goes from one step of its run to another keeps the types  *)
(* of all runs; it may enter a step that needs a version only with one.    *)
RunTypeOK ==
  /\ run \in [Workers -> Runs]
  /\ \A w \in Workers :
       /\ run[w].step # "idle" => run[w].document \in Documents
       /\ run[w].step \in ClaimSteps \union Stages => run[w].version \in Versions

LEMMA GoToType ==
  ASSUME RunTypeOK, NEW w \in Workers, NEW step \in Steps,
         run[w].step # "idle",
         step \in ClaimSteps \union Stages => run[w].step \in ClaimSteps \union Stages,
         GoTo(w, step)
  PROVE  RunTypeOK'
<1>1. run[w] \in Runs
  BY DEF RunTypeOK
<1>2. [run[w] EXCEPT !.step = step] \in Runs
  BY <1>1 DEF Runs
<1>3. run' = [run EXCEPT ![w] = [run[w] EXCEPT !.step = step]]
  BY DEF GoTo
<1>4. run' \in [Workers -> Runs]
  BY <1>2, <1>3 DEF RunTypeOK
<1>5. ASSUME NEW v \in Workers
      PROVE  /\ run'[v].step # "idle" => run'[v].document \in Documents
             /\ run'[v].step \in ClaimSteps \union Stages => run'[v].version \in Versions
  <2>1. CASE v = w
    <3>1. /\ run'[v].step = step
          /\ run'[v].document = run[w].document
          /\ run'[v].version = run[w].version
      BY <1>1, <1>3, <2>1 DEF RunTypeOK, Runs
    <3>2. QED
      BY <3>1 DEF RunTypeOK
  <2>2. CASE v # w
    BY <1>3, <2>2 DEF RunTypeOK
  <2>3. QED
    BY <2>1, <2>2
<1>6. QED
  BY <1>4, <1>5 DEF RunTypeOK

LEMMA NextStageType ==
  ASSUME NEW s \in Stages \ {"persist"}, NEW v
  PROVE  NextStage(s, v) \in Stages
BY DEF NextStage, Stages

(* The row of a run's Document, and where a started run may go. *)
LEMMA StepsType ==
  /\ Stages \subseteq Steps
  /\ ClaimSteps \subseteq Steps
  /\ PurgeSteps \subseteq Steps
  /\ IngestionOutcomes \subseteq Steps
  /\ PurgeOutcomes \subseteq Steps
  /\ Stages \subseteq StageColumn
  /\ "idle" \notin ClaimSteps \union Stages \union PurgeSteps
  /\ (IngestionOutcomes \union PurgeOutcomes \union PurgeSteps)
        \intersect (ClaimSteps \union Stages) = {}
BY DEF Steps, Stages, ClaimSteps, PurgeSteps, IngestionOutcomes, PurgeOutcomes,
       StageColumn

RowTypeOK ==
  /\ status \in [Documents -> Statuses \union NoRow]
  /\ stage \in [Documents -> StageColumn]
  /\ safeError \in [Documents -> Errors]
  /\ attempts \in [Documents -> Nat]
  /\ chunkingVersion \in [Documents -> Versions \union {None}]
  /\ stale \in [Documents -> BOOLEAN]
  /\ chunks \in [Documents -> Versions \union {None}]
  /\ generation \in Nat
  /\ original \in [Documents -> BOOLEAN]

LEMMA DocumentTypeSplit == DocumentTypeOK <=> RowTypeOK /\ RunTypeOK
BY DEF DocumentTypeOK, RowTypeOK, RunTypeOK

LEMMA MarkFailedType ==
  ASSUME RowTypeOK, NEW d \in Documents, MarkFailed(d)
  PROVE  RowTypeOK'
BY DEF RowTypeOK, MarkFailed, storeVars, Statuses, StageColumn, Errors

(* Every step of a run keeps the types. *)
LEMMA WorkType ==
  ASSUME DocumentTypeOK, NEW w \in Workers, Work(w)
  PROVE  DocumentTypeOK'
<1>1. RowTypeOK /\ RunTypeOK
  BY DocumentTypeSplit
<1> DEFINE d == run[w].document
<1>2. run[w] \in Runs /\ run[w].step \in Steps
  BY <1>1 DEF RunTypeOK, Runs
<1>3. run[w].step # "idle" => d \in Documents
  BY <1>1 DEF RunTypeOK
<1>4. run[w].step \in ClaimSteps \union Stages => run[w].version \in Versions
  BY <1>1 DEF RunTypeOK
<1>5. CASE Claim(w)
  <2>1. run[w].step = "claim" /\ d \in Documents /\ run[w].version \in Versions
    BY <1>3, <1>4, <1>5 DEF Claim, ClaimSteps
  <2>2. attempts[d] + 1 \in Nat
    BY <1>1, <2>1 DEF RowTypeOK
  <2>3. RowTypeOK'
    BY <1>1, <1>5, <2>1, <2>2 DEF Claim, RowTypeOK, storeVars, Statuses, Stages,
                                  StageColumn, Errors
  <2> DEFINE r == [run[w] EXCEPT !.step = "open", !.claim = attempts[d] + 1]
  <2>4. /\ r \in Runs /\ r.step = "open" /\ r.document = d
        /\ r.version = run[w].version
    BY <1>2, <2>2 DEF Runs, Steps, ClaimSteps
  <2>5. run' = [run EXCEPT ![w] = r]
    BY <1>5 DEF Claim
  <2> HIDE DEF r
  <2>6. RunTypeOK'
    BY <1>1, <2>1, <2>4, <2>5 DEF RunTypeOK, ClaimSteps
  <2>7. QED
    BY <2>3, <2>6, DocumentTypeSplit DEF RowTypeOK, RunTypeOK, DocumentTypeOK
<1>6. CASE ClaimRefused(w)
  <2>1. RowTypeOK'
    BY <1>1, <1>6 DEF ClaimRefused, RowTypeOK, rowVars, storeVars
  <2>2. RunTypeOK'
    BY <1>1, <1>6, GoToType, StepsType DEF ClaimRefused, ClaimSteps
  <2>3. QED
    BY <2>1, <2>2 DEF RowTypeOK, RunTypeOK, DocumentTypeOK
<1>7. CASE Recheck(w)
  <2>1. RowTypeOK'
    BY <1>1, <1>7 DEF Recheck, RowTypeOK, rowVars, storeVars
  <2>2. RunTypeOK'
    <3>1. CASE status[d] = "processing"
      <4>1. GoTo(w, "busy")
        BY <1>7, <3>1 DEF Recheck
      <4>2. QED
        BY <1>1, <1>7, <4>1, GoToType, StepsType DEF Recheck, IngestionOutcomes
    <3>2. CASE status[d] # "processing"
      <4>1. GoTo(w, "skipped")
        BY <1>7, <3>2 DEF Recheck
      <4>2. QED
        BY <1>1, <1>7, <4>1, GoToType, StepsType DEF Recheck, IngestionOutcomes
    <3>3. QED
      BY <3>1, <3>2
  <2>3. QED
    BY <2>1, <2>2 DEF RowTypeOK, RunTypeOK, DocumentTypeOK
<1>8. CASE Open(w)
  <2>0. run[w].step = "open" /\ d \in Documents
    BY <1>3, <1>8 DEF Open
  <2>1. RowTypeOK'
    BY <1>1, <1>8, <2>0 DEF Open, RowTypeOK, storeVars
  <2>2. RunTypeOK'
    <3>1. CASE GoTo(w, "skipped")
      BY <1>1, <2>0, <3>1, GoToType, StepsType DEF IngestionOutcomes
    <3>2. CASE GoTo(w, "extract")
      BY <1>1, <2>0, <3>2, GoToType, StepsType DEF Stages, ClaimSteps
    <3>3. QED
      BY <1>8, <3>1, <3>2 DEF Open
  <2>3. QED
    BY <2>1, <2>2 DEF RowTypeOK, RunTypeOK, DocumentTypeOK
<1>9. CASE FinishStage(w)
  <2> DEFINE next == NextStage(run[w].step, run[w].version)
  <2>0. run[w].step \in Stages \ {"persist"} /\ d \in Documents
    BY <1>3, <1>9, StepsType DEF FinishStage
  <2>1. next \in Stages
    BY <2>0, NextStageType
  <2>2. /\ GoTo(w, next)
        /\ stage' = [stage EXCEPT ![d] = next] \/ stage' = stage
        /\ stale' = [stale EXCEPT ![d] = FALSE] \/ stale' = stale
        /\ UNCHANGED <<status, safeError, attempts, chunkingVersion, storeVars>>
    BY <1>9 DEF FinishStage
  <2> HIDE DEF next
  <2>3. RowTypeOK'
    BY <1>1, <2>0, <2>1, <2>2, StepsType DEF RowTypeOK, storeVars
  <2>4. RunTypeOK'
    BY <1>1, <2>0, <2>1, <2>2, GoToType, StepsType
  <2>5. QED
    BY <2>3, <2>4 DEF RowTypeOK, RunTypeOK, DocumentTypeOK
<1>10. CASE FailStage(w)
  <2>0. run[w].step \in Stages /\ d \in Documents
    BY <1>3, <1>10, StepsType DEF FailStage
  <2>1. RowTypeOK'
    BY <1>1, <1>10, <2>0, MarkFailedType DEF FailStage
  <2>2. RunTypeOK'
    BY <1>1, <1>10, <2>0, GoToType, StepsType DEF FailStage, IngestionOutcomes
  <2>3. QED
    BY <2>1, <2>2 DEF RowTypeOK, RunTypeOK, DocumentTypeOK
<1>11. CASE Publish(w)
  <2>0. run[w].step = "persist" /\ d \in Documents /\ run[w].version \in Versions
    BY <1>3, <1>4, <1>11 DEF Publish, Stages
  <2>1. RowTypeOK'
    BY <1>1, <1>11, <2>0 DEF Publish, RowTypeOK, Statuses, StageColumn, Errors
  <2>2. RunTypeOK'
    BY <1>1, <1>11, <2>0, GoToType, StepsType DEF Publish, IngestionOutcomes
  <2>3. QED
    BY <2>1, <2>2 DEF RowTypeOK, RunTypeOK, DocumentTypeOK
<1>12. CASE PublishRefused(w)
  <2>1. RowTypeOK'
    BY <1>1, <1>12 DEF PublishRefused, RowTypeOK, rowVars, storeVars
  <2>2. RunTypeOK'
    BY <1>1, <1>12, GoToType, StepsType DEF PublishRefused, IngestionOutcomes
  <2>3. QED
    BY <2>1, <2>2 DEF RowTypeOK, RunTypeOK, DocumentTypeOK
<1>13. CASE StartPurge(w)
  <2>1. RowTypeOK'
    BY <1>1, <1>13 DEF StartPurge, RowTypeOK, rowVars, storeVars
  <2>2. GoTo(w, "removeFile") \/ GoTo(w, "purgeDone")
    BY <1>13 DEF StartPurge
  <2>3. RunTypeOK'
    BY <1>1, <1>13, <2>2, GoToType, StepsType DEF StartPurge, PurgeSteps, PurgeOutcomes
  <2>4. QED
    BY <2>1, <2>3 DEF RowTypeOK, RunTypeOK, DocumentTypeOK
<1>14. CASE RemoveFile(w)
  <2>1. RowTypeOK'
    BY <1>1, <1>3, <1>14 DEF RemoveFile, RowTypeOK, rowVars
  <2>2. RunTypeOK'
    BY <1>1, <1>14, GoToType, StepsType DEF RemoveFile, PurgeSteps
  <2>3. QED
    BY <2>1, <2>2 DEF RowTypeOK, RunTypeOK, DocumentTypeOK
<1>15. CASE DeleteRow(w)
  <2>0. run[w].step = "deleteRow" /\ d \in Documents
    BY <1>3, <1>15 DEF DeleteRow
  <2>1. RowTypeOK'
    BY <1>1, <1>15, <2>0 DEF DeleteRow, RowTypeOK, NoRow
  <2>2. RunTypeOK'
    BY <1>1, <1>15, <2>0, GoToType, StepsType DEF DeleteRow, PurgeOutcomes
  <2>3. QED
    BY <2>1, <2>2 DEF RowTypeOK, RunTypeOK, DocumentTypeOK
<1>16. QED
  BY <1>5, <1>6, <1>7, <1>8, <1>9, <1>10, <1>11, <1>12, <1>13, <1>14, <1>15 DEF Work

(***************************************************************************)
(* The services, the workers and the broker around those steps.            *)
(***************************************************************************)

LEMMA FaultType ==
  ASSUME faults \in [FaultKinds -> Nat], NEW k, Fault(k)
  PROVE  /\ faults' \in [FaultKinds -> Nat]
         /\ \A j \in FaultKinds : faults'[j] >= faults[j]
         /\ k \in FaultKinds => faults'[k] = faults[k] + 1
<1>1. faults' = [faults EXCEPT ![k] = faults[k] + 1]
  BY DEF Fault
<1>2. ASSUME NEW j \in FaultKinds
      PROVE  faults'[j] \in Nat /\ faults'[j] >= faults[j]
  <2>1. faults[j] \in Nat
    OBVIOUS
  <2>2. faults'[j] = faults[j] \/ faults'[j] = faults[j] + 1
    BY <1>1
  <2>3. QED
    BY <2>1, <2>2
<1>3. faults' \in [FaultKinds -> Nat]
  BY <1>1, <1>2
<1>4. QED
  BY <1>1, <1>2, <1>3

LEMMA SendType ==
  ASSUME queue \in [Documents -> Nat], NEW d \in Documents, Send(d)
  PROVE  /\ queue' \in [Documents -> Nat]
         /\ queue'[d] > 0
         /\ \A e \in Documents : queue'[e] >= queue[e]
BY DEF Send

LEMMA SendPurgeType ==
  ASSUME purgeQueue \in [Documents -> [0..MaxPurgeRetries -> Nat]],
         NEW d \in Documents, NEW r \in 0..MaxPurgeRetries, SendPurge(d, r)
  PROVE  /\ purgeQueue' \in [Documents -> [0..MaxPurgeRetries -> Nat]]
         /\ purgeQueue'[d][r] > 0
         /\ \A e \in Documents, s \in 0..MaxPurgeRetries :
              /\ purgeQueue'[e][s] >= purgeQueue[e][s]
              /\ e # d \/ s # r => purgeQueue'[e][s] = purgeQueue[e][s]
<1> DEFINE row == [purgeQueue[d] EXCEPT ![r] = purgeQueue[d][r] + 1]
<1>1. purgeQueue[d] \in [0..MaxPurgeRetries -> Nat]
  OBVIOUS
<1>2. row \in [0..MaxPurgeRetries -> Nat]
  BY <1>1
<1>3. /\ row[r] = purgeQueue[d][r] + 1
      /\ \A s \in 0..MaxPurgeRetries : s # r => row[s] = purgeQueue[d][s]
  BY <1>1
<1>4. purgeQueue' = [purgeQueue EXCEPT ![d] = row]
  BY DEF SendPurge
<1> HIDE DEF row
<1>5. purgeQueue' \in [Documents -> [0..MaxPurgeRetries -> Nat]]
  BY <1>2, <1>4
<1>6. purgeQueue'[d] = row /\ \A e \in Documents : e # d => purgeQueue'[e] = purgeQueue[e]
  BY <1>4
<1>7. purgeQueue[d][r] \in Nat
  BY <1>1
<1>8. purgeQueue'[d][r] > 0
  BY <1>3, <1>6, <1>7
<1>9. ASSUME NEW e \in Documents, NEW s \in 0..MaxPurgeRetries
      PROVE  /\ purgeQueue'[e][s] >= purgeQueue[e][s]
             /\ e # d \/ s # r => purgeQueue'[e][s] = purgeQueue[e][s]
  <2>1. purgeQueue[e][s] \in Nat
    OBVIOUS
  <2>2. CASE e # d
    BY <1>6, <2>1, <2>2
  <2>3. CASE e = d /\ s # r
    BY <1>3, <1>6, <2>1, <2>3
  <2>4. CASE e = d /\ s = r
    BY <1>3, <1>6, <2>1, <2>4
  <2>5. QED
    BY <2>2, <2>3, <2>4
<1>10. QED
  BY <1>5, <1>8, <1>9

(* Starting, and leaving, a run. *)
LEMMA IdleType == Idle \in Runs /\ Idle.step = "idle"
BY PurgeRetryAssumption DEF Idle, Runs, Tasks, Steps

LEMMA IngestionRunType ==
  ASSUME NEW d \in Documents
  PROVE  LET r == IngestionRun("ingest", d, DefaultVersion) IN
         /\ r \in Runs /\ r.step = "claim" /\ r.document = d
         /\ r.version = DefaultVersion /\ r.task = "ingest"
BY PurgeRetryAssumption, DefaultVersionAssumption
   DEF IngestionRun, Runs, Tasks, Steps, ClaimSteps

LEMMA PurgeRunType ==
  ASSUME NEW d \in Documents, NEW s \in 0..MaxPurgeRetries
  PROVE  LET r == PurgeRun(d, s) IN
         /\ r \in Runs /\ r.step = "purge" /\ r.document = d
         /\ r.task = "purge" /\ r.retries = s
BY DEF PurgeRun, Runs, Tasks, Steps, PurgeSteps

LEMMA NewRunType ==
  ASSUME RunTypeOK, NEW w \in Workers, NEW r \in Runs,
         r.step # "idle" => r.document \in Documents,
         r.step \in ClaimSteps \union Stages => r.version \in Versions,
         run' = [run EXCEPT ![w] = r]
  PROVE  RunTypeOK'
BY DEF RunTypeOK

LEMMA GoIdleType ==
  ASSUME RunTypeOK, NEW w \in Workers, run' = [run EXCEPT ![w] = Idle]
  PROVE  RunTypeOK'
BY NewRunType, IdleType DEF ClaimSteps, Stages

RequestTypeOK ==
  /\ request \in [Requests -> RequestStates]
  /\ \A q \in Requests :
       request[q].phase \notin {"free", "done"} => request[q].document \in Documents

QueueTypeOK ==
  /\ queue \in [Documents -> Nat]
  /\ purgeQueue \in [Documents -> [0..MaxPurgeRetries -> Nat]]

LEMMA TypeSplit ==
  TypeOK <=> /\ RowTypeOK /\ RunTypeOK /\ RequestTypeOK /\ QueueTypeOK
             /\ faults \in [FaultKinds -> Nat]
BY DEF TypeOK, DocumentTypeOK, RowTypeOK, RunTypeOK, RequestTypeOK, QueueTypeOK

LEMMA FinishType ==
  ASSUME RequestTypeOK, NEW q \in Requests, Finish(q)
  PROVE  RequestTypeOK' /\ request'[q].phase = "done"
BY DEF RequestTypeOK, Finish, Done, RequestStates, Phases, Errors

LEMMA PhaseType ==
  ASSUME RequestTypeOK, NEW q \in Requests, NEW p \in Phases,
         request[q].phase \notin {"free", "done"},
         request' = [request EXCEPT ![q].phase = p]
  PROVE  RequestTypeOK'
<1>1. request[q] \in RequestStates
  BY DEF RequestTypeOK
<1> DEFINE r == [request[q] EXCEPT !.phase = p]
<1>2. r \in RequestStates /\ r.document = request[q].document
  BY <1>1 DEF RequestStates
<1>3. request' = [request EXCEPT ![q] = r]
  OBVIOUS
<1> HIDE DEF r
<1>4. QED
  BY <1>2, <1>3 DEF RequestTypeOK

LEMMA GiveBackType ==
  ASSUME TypeOK, NEW w \in Workers, run[w].step # "idle", GiveBack(w)
  PROVE  QueueTypeOK'
<1>1. run[w].document \in Documents /\ run[w].retries \in 0..MaxPurgeRetries
  BY DEF TypeOK, DocumentTypeOK, Runs
<1>2. QueueTypeOK
  BY TypeSplit
<1>3. QED
  BY <1>1, <1>2, SendType, SendPurgeType DEF GiveBack, QueueTypeOK

-----------------------------------------------------------------------------
(* Type correctness. *)

LEMMA InitType == Init => TypeOK
<1>1. 0..MaxPurgeRetries # {} /\ 0 \in 0..MaxPurgeRetries
  BY PurgeRetryAssumption
<1>2. SUFFICES ASSUME Init PROVE TypeOK
  OBVIOUS
<1>3. RowTypeOK
  BY <1>2 DEF Init, DocumentInit, RowTypeOK, NoRow, StageColumn, Errors
<1>4. RunTypeOK
  BY <1>2, IdleType DEF Init, DocumentInit, RunTypeOK, ClaimSteps, Stages
<1>5. QueueTypeOK
  BY <1>2 DEF Init, QueueTypeOK
<1>6. RequestTypeOK
  BY <1>2 DEF Init, RequestTypeOK, RequestStates, Free, Phases, Errors
<1>7. faults \in [FaultKinds -> Nat]
  BY <1>2 DEF Init
<1>8. QED
  BY <1>3, <1>4, <1>5, <1>6, <1>7, TypeSplit

(* The parts of TypeOK in the next state, for the steps that keep them.    *)
LEMMA KeepTypes ==
  ASSUME TypeOK
  PROVE  /\ UNCHANGED <<rowVars, storeVars>> => RowTypeOK'
         /\ UNCHANGED run => RunTypeOK'
         /\ UNCHANGED request => RequestTypeOK'
         /\ UNCHANGED <<queue, purgeQueue>> => QueueTypeOK'
         /\ UNCHANGED faults => (faults \in [FaultKinds -> Nat])'
         /\ \A k : Fault(k) => (faults \in [FaultKinds -> Nat])'
<1>1. RowTypeOK /\ RunTypeOK /\ RequestTypeOK /\ QueueTypeOK
  BY TypeSplit
<1>2. faults \in [FaultKinds -> Nat]
  BY TypeSplit
<1>3. QED
  BY <1>1, <1>2, FaultType
     DEF RowTypeOK, RunTypeOK, RequestTypeOK, QueueTypeOK, rowVars, storeVars

LEMMA TypeFromParts ==
  ASSUME RowTypeOK', RunTypeOK', RequestTypeOK', QueueTypeOK',
         (faults \in [FaultKinds -> Nat])'
  PROVE  TypeOK'
BY DEF TypeOK, DocumentTypeOK, RowTypeOK, RunTypeOK, RequestTypeOK, QueueTypeOK

LEMMA ServeType ==
  ASSUME TypeOK, NEW q \in Requests, Serve(q)
  PROVE  TypeOK'
<1> DEFINE d == request[q].document
<1>0. RowTypeOK /\ RunTypeOK /\ RequestTypeOK /\ QueueTypeOK
  BY TypeSplit
<1>1. request[q].phase \notin {"free", "done"} => d \in Documents
  BY <1>0 DEF RequestTypeOK
<1>2. request[q] \in RequestStates
  BY <1>0 DEF RequestTypeOK
<1> USE TypeFromParts, KeepTypes
<1>3. ASSUME NEW e \in Documents, CreateDocument(q, e)
      PROVE  TypeOK'
  <2>1. RowTypeOK'
    BY <1>0, <1>3 DEF CreateDocument, RowTypeOK, Statuses, StageColumn
  <2> DEFINE r == [Free EXCEPT !.phase = "refresh", !.document = e]
  <2>2. r \in RequestStates /\ r.document = e
    BY DEF Free, RequestStates, Phases, Errors
  <2>3. request' = [request EXCEPT ![q] = r]
    BY <1>3 DEF CreateDocument
  <2> HIDE DEF r
  <2>4. RequestTypeOK'
    BY <1>0, <2>2, <2>3 DEF RequestTypeOK
  <2>5. QED
    BY <1>3, <2>1, <2>4 DEF CreateDocument
<1>4. ASSUME NEW e \in Documents, RetryRead(q, e)
      PROVE  TypeOK'
  <2>1. RequestTypeOK'
    BY <1>0, <1>4 DEF RetryRead, RequestTypeOK, RequestStates, RowTypeOK, Phases, Statuses
  <2>2. QED
    BY <1>4, <2>1 DEF RetryRead, documentVars
<1>5. ASSUME NEW e \in Documents, DeleteRead(q, e)
      PROVE  TypeOK'
  <2>1. status[e] \in Statuses /\ safeError[e] \in Errors
    BY <1>0, <1>5 DEF DeleteRead, HasRow, RowTypeOK
  <2>2. RequestTypeOK'
    BY <1>0, <1>5, <2>1 DEF DeleteRead, RequestTypeOK, RequestStates, Phases
  <2>3. QED
    BY <1>5, <2>2 DEF DeleteRead, documentVars
<1>6. CASE RetryCommit(q)
  <2>1. d \in Documents
    BY <1>1, <1>6 DEF RetryCommit
  <2>2. RowTypeOK'
    BY <1>0, <1>6, <2>1 DEF RetryCommit, WriteError, RowTypeOK, storeVars, Statuses,
                             StageColumn, Errors
  <2>3. Finish(q) \/ request' = [request EXCEPT ![q].phase = "refresh"]
    BY <1>6 DEF RetryCommit
  <2>4. RequestTypeOK'
    BY <1>0, <1>6, <2>3, FinishType, PhaseType DEF Phases, RetryCommit
  <2>5. QED
    BY <1>6, <2>2, <2>4 DEF RetryCommit
<1>7. CASE Refresh(q)
  <2>1. d \in Documents
    BY <1>1, <1>7 DEF Refresh
  <2>2. RequestTypeOK'
    <3>1. CASE HasRow(d)
      <4> DEFINE r == [request[q] EXCEPT !.phase = "enqueue", !.seen = status[d],
                                     !.error = safeError[d]]
      <4>1. status[d] \in Statuses /\ safeError[d] \in Errors
        BY <1>0, <2>1, <3>1 DEF HasRow, RowTypeOK
      <4>2. r \in RequestStates /\ r.document = d
        BY <1>2, <4>1 DEF RequestStates, Phases
      <4>3. request' = [request EXCEPT ![q] = r]
        BY <1>7, <3>1 DEF Refresh
      <4> HIDE DEF r
      <4>4. QED
        BY <1>0, <2>1, <4>2, <4>3 DEF RequestTypeOK
    <3>2. CASE ~HasRow(d)
      BY <1>0, <1>7, <3>2, FinishType DEF Refresh
    <3>3. QED
      BY <3>1, <3>2
  <2>3. QED
    BY <1>7, <2>2 DEF Refresh, documentVars
<1>8. CASE EnqueueIngestion(q)
  <2>1. d \in Documents
    BY <1>1, <1>8 DEF EnqueueIngestion
  <2>2. QueueTypeOK'
    BY <1>0, <1>8, <2>1, SendType DEF EnqueueIngestion, QueueTypeOK
  <2>3. RequestTypeOK'
    BY <1>0, <1>8, FinishType DEF EnqueueIngestion
  <2>4. QED
    BY <1>8, <2>2, <2>3 DEF EnqueueIngestion, documentVars
<1>9. CASE EnqueueIngestionFails(q)
  <2>1. d \in Documents
    BY <1>1, <1>9 DEF EnqueueIngestionFails
  <2>2. RowTypeOK'
    BY <1>0, <1>9, <2>1 DEF EnqueueIngestionFails, WriteError, RowTypeOK, storeVars,
                             Statuses, StageColumn, Errors
  <2>3. RequestTypeOK'
    BY <1>0, <1>9, FinishType DEF EnqueueIngestionFails
  <2>4. QED
    BY <1>9, <2>2, <2>3 DEF EnqueueIngestionFails
<1>10. CASE DeleteCommit(q)
  <2>1. d \in Documents
    BY <1>1, <1>10 DEF DeleteCommit
  <2>2. RowTypeOK'
    BY <1>0, <1>10, <2>1 DEF DeleteCommit, WriteError, RowTypeOK, Statuses,
                              StageColumn, Errors
  <2>3. Finish(q) \/ request' = [request EXCEPT ![q].phase = "enqueue"]
    BY <1>10 DEF DeleteCommit
  <2>4. RequestTypeOK'
    BY <1>0, <1>10, <2>3, FinishType, PhaseType DEF Phases, DeleteCommit
  <2>5. QED
    BY <1>10, <2>2, <2>4 DEF DeleteCommit
<1>11. CASE EnqueuePurge(q)
  <2>1. d \in Documents /\ 0 \in 0..MaxPurgeRetries
    BY <1>1, <1>11, PurgeRetryAssumption DEF EnqueuePurge
  <2>2. QueueTypeOK'
    BY <1>0, <1>11, <2>1, SendPurgeType DEF EnqueuePurge, QueueTypeOK
  <2>3. RequestTypeOK'
    BY <1>0, <1>11, FinishType DEF EnqueuePurge
  <2>4. QED
    BY <1>11, <2>2, <2>3 DEF EnqueuePurge, documentVars
<1>12. CASE EnqueuePurgeFails(q)
  <2>1. RequestTypeOK'
    BY <1>0, <1>12, FinishType DEF EnqueuePurgeFails
  <2>2. QED
    BY <1>12, <2>1 DEF EnqueuePurgeFails, documentVars
<1>13. CASE ApiCrash(q)
  <2>1. RequestTypeOK'
    BY <1>0, <1>13, FinishType DEF ApiCrash
  <2>2. QED
    BY <1>13, <2>1 DEF ApiCrash, documentVars
<1>14. QED
  BY <1>3, <1>4, <1>5, <1>6, <1>7, <1>8, <1>9, <1>10, <1>11, <1>12, <1>13, Zenon DEF Serve

LEMMA DeliverType ==
  ASSUME TypeOK, NEW w \in Workers, Deliver(w)
  PROVE  TypeOK'
<1> DEFINE d == run[w].document
<1>0. RowTypeOK /\ RunTypeOK /\ RequestTypeOK /\ QueueTypeOK
  BY TypeSplit
<1>1. run[w].step # "idle" => d \in Documents
  BY <1>0 DEF RunTypeOK
<1>2. run[w].step \in IngestionOutcomes \union PurgeOutcomes => d \in Documents
  BY <1>1, StepsType DEF IngestionOutcomes, PurgeOutcomes
<1>3. run[w].retries \in 0..MaxPurgeRetries
  BY <1>0 DEF RunTypeOK, Runs
<1> USE TypeFromParts, KeepTypes
<1>4. ASSUME NEW e \in Documents, Receive(w, e)
      PROVE  TypeOK'
  <2>1. RunTypeOK'
    BY <1>0, <1>4, NewRunType, IngestionRunType, DefaultVersionAssumption DEF Receive
  <2>2. QueueTypeOK'
    BY <1>0, <1>4 DEF Receive, QueueTypeOK
  <2>3. QED
    BY <1>4, <2>1, <2>2 DEF Receive
<1>5. ASSUME NEW e \in Documents, ReceivePurge(w, e)
      PROVE  TypeOK'
  <2>1. PICK r \in 0..MaxPurgeRetries :
          /\ purgeQueue[e][r] > 0
          /\ purgeQueue' = [purgeQueue EXCEPT ![e][r] = @ - 1]
          /\ run' = [run EXCEPT ![w] = PurgeRun(e, r)]
    BY <1>5 DEF ReceivePurge
  <2>2. RunTypeOK'
    BY <1>0, <2>1, NewRunType, PurgeRunType DEF ClaimSteps, Stages
  <2>3. QueueTypeOK'
    <3>0. purgeQueue[e] \in [0..MaxPurgeRetries -> Nat]
      BY <1>0 DEF QueueTypeOK
    <3>1. purgeQueue[e][r] - 1 \in Nat
      <4>1. purgeQueue[e][r] \in Nat
        BY <3>0
      <4>2. QED
        BY <2>1, <4>1
    <3>2. [purgeQueue[e] EXCEPT ![r] = purgeQueue[e][r] - 1] \in [0..MaxPurgeRetries -> Nat]
      BY <3>0, <3>1
    <3>3. QED
      BY <1>0, <1>5, <2>1, <3>2 DEF QueueTypeOK, ReceivePurge
  <2>4. QED
    BY <1>5, <2>2, <2>3 DEF ReceivePurge
<1>6. CASE Acknowledge(w)
  BY <1>0, <1>6, GoIdleType DEF Acknowledge
<1>7. CASE Reschedule(w)
  <2>1. QueueTypeOK'
    BY <1>0, <1>2, <1>7, SendType DEF Reschedule, QueueTypeOK, IngestionOutcomes
  <2>2. QED
    BY <1>0, <1>7, <2>1, GoIdleType DEF Reschedule
<1>8. CASE RescheduleFails(w)
  BY <1>0, <1>8, GoIdleType DEF RescheduleFails
<1>9. CASE RetryPurge(w)
  <2>1. QueueTypeOK'
    <3>1. CASE run[w].retries < MaxPurgeRetries
      <4>1. run[w].retries + 1 \in 0..MaxPurgeRetries /\ d \in Documents
        BY <1>2, <1>3, <1>9, <3>1, PurgeRetryAssumption DEF RetryPurge, PurgeOutcomes
      <4>2. SendPurge(d, run[w].retries + 1) /\ UNCHANGED queue
        BY <1>9, <3>1 DEF RetryPurge
      <4>3. QED
        BY <1>0, <4>1, <4>2, SendPurgeType DEF QueueTypeOK
    <3>2. CASE ~(run[w].retries < MaxPurgeRetries)
      BY <1>9, <3>2 DEF RetryPurge
    <3>3. QED
      BY <3>1, <3>2
  <2>2. QED
    BY <1>0, <1>9, <2>1, GoIdleType DEF RetryPurge
<1>10. CASE WorkerCrash(w)
  <2>1. QueueTypeOK'
    BY <1>10, GiveBackType DEF WorkerCrash
  <2>2. QED
    BY <1>0, <1>10, <2>1, GoIdleType DEF WorkerCrash
<1>11. CASE Redeliver(w)
  <2>1. QueueTypeOK'
    BY <1>11, GiveBackType DEF Redeliver
  <2>2. QED
    BY <1>11, <2>1 DEF Redeliver, documentVars
<1>12. QED
  BY <1>4, <1>5, <1>6, <1>7, <1>8, <1>9, <1>10, <1>11, Zenon DEF Deliver

(* The failures of a run, and the passing of time. *)
LEMMA FailType ==
  ASSUME TypeOK, NEW w \in Workers,
         \/ FailClaiming(w) \/ FailUnrecorded(w)
         \/ RemoveFileFails(w) \/ PurgeLosesDatabase(w)
  PROVE  RowTypeOK' /\ RunTypeOK'
<1>1. RowTypeOK /\ RunTypeOK
  BY TypeSplit
<1>2. CASE FailClaiming(w)
  <2>1. run[w].step \in ClaimSteps /\ run[w].document \in Documents
    BY <1>1, <1>2, StepsType DEF FailClaiming, RunTypeOK
  <2>2. RowTypeOK'
    BY <1>1, <1>2, <2>1, MarkFailedType DEF FailClaiming
  <2>3. GoTo(w, "failed") \/ GoTo(w, "skipped")
    BY <1>2 DEF FailClaiming
  <2>4. RunTypeOK'
    BY <1>1, <2>1, <2>3, GoToType, StepsType DEF IngestionOutcomes
  <2>5. QED
    BY <2>2, <2>4
<1>3. CASE FailUnrecorded(w)
  <2>1. RowTypeOK'
    BY <1>3, KeepTypes DEF FailUnrecorded
  <2>2. RunTypeOK'
    BY <1>1, <1>3, GoToType, StepsType DEF FailUnrecorded, IngestionOutcomes
  <2>3. QED
    BY <2>1, <2>2
<1>4. CASE RemoveFileFails(w)
  <2>1. RowTypeOK'
    BY <1>4, KeepTypes DEF RemoveFileFails
  <2>2. RunTypeOK'
    BY <1>1, <1>4, GoToType, StepsType DEF RemoveFileFails, PurgeOutcomes
  <2>3. QED
    BY <2>1, <2>2
<1>5. CASE PurgeLosesDatabase(w)
  <2>1. RowTypeOK'
    BY <1>5, KeepTypes DEF PurgeLosesDatabase
  <2>2. PICK step \in PurgeOutcomes : GoTo(w, step)
    BY <1>5 DEF PurgeLosesDatabase, PurgeOutcomes
  <2>3. RunTypeOK'
    BY <1>1, <1>5, <2>2, GoToType, StepsType DEF PurgeLosesDatabase
  <2>4. QED
    BY <2>1, <2>3
<1>6. QED
  BY <1>2, <1>3, <1>4, <1>5

LEMMA WorkerFaultsType ==
  ASSUME TypeOK, NEW w \in Workers, WorkerFaults(w),
         UNCHANGED <<queue, purgeQueue, request>>
  PROVE  TypeOK'
<1>1. RowTypeOK' /\ RunTypeOK'
  BY FailType DEF WorkerFaults
<1>2. RequestTypeOK' /\ QueueTypeOK' /\ (faults \in [FaultKinds -> Nat])'
  BY KeepTypes DEF WorkerFaults
<1>3. QED
  BY <1>1, <1>2, TypeFromParts

LEMMA NextType == TypeOK /\ [Next]_vars => TypeOK'
<1> SUFFICES ASSUME TypeOK, [Next]_vars PROVE TypeOK'
  OBVIOUS
<1> USE TypeFromParts, KeepTypes
<1>1. ASSUME NEW w \in Workers, Work(w), UNCHANGED <<queue, purgeQueue, request, faults>>
      PROVE  TypeOK'
  <2>1. DocumentTypeOK'
    BY <1>1, WorkType DEF TypeOK
  <2>2. RowTypeOK' /\ RunTypeOK'
    BY <2>1 DEF DocumentTypeOK, RowTypeOK, RunTypeOK
  <2>3. QED
    BY <1>1, <2>2
<1>2. ASSUME NEW w \in Workers, WorkerFaults(w), UNCHANGED <<queue, purgeQueue, request>>
      PROVE  TypeOK'
  BY <1>2, WorkerFaultsType
<1>3. ASSUME NEW w \in Workers, Deliver(w)
      PROVE  TypeOK'
  BY <1>3, DeliverType
<1>4. ASSUME NEW q \in Requests, Serve(q)
      PROVE  TypeOK'
  BY <1>4, ServeType
<1>5. ASSUME NEW d \in Documents, BecomeStale(d),
             UNCHANGED <<queue, purgeQueue, request, faults>>
      PROVE  TypeOK'
  <2>1. RowTypeOK'
    BY <1>5, TypeSplit DEF BecomeStale, RowTypeOK, storeVars
  <2>2. QED
    BY <1>5, <2>1 DEF BecomeStale
<1>6. CASE UNCHANGED vars
  BY <1>6 DEF vars, documentVars
<1>7. QED
  BY <1>1, <1>2, <1>3, <1>4, <1>5, <1>6, Zenon DEF Next

(* Through every interleaving of requests, deliveries, runs and faults the *)
(* rows, the messages and the runs keep their types, and a worker that is  *)
(* not idle has a Document, and while it ingests a chunking version.       *)
THEOREM TypeCorrect == Spec => []TypeOK
<1>1. QED
  BY InitType, NextType, PTL DEF Spec

----------------------------------------------------------------------------
(***************************************************************************)
(* What no step of a worker, a request or the broker can do to the rows of *)
(* the documents table, for every set of Documents, workers, requests and  *)
(* versions, and any number of faults.                                     *)
(*                                                                         *)
(* The argument goes through one lemma, NextRowStep: whatever the step, it *)
(* is, on the columns status, ingestion_stage, chunking_version, on the    *)
(* stored chunks and on the generation, one of the six row steps below.    *)
(* Every theorem is then proved of those six.                              *)
(***************************************************************************)

RowsKept == UNCHANGED <<status, stage, chunks, chunkingVersion, generation>>

Inserted(d) ==
  /\ status[d] = "absent"
  /\ status' = [status EXCEPT ![d] = "pending"]
  /\ stage' = [stage EXCEPT ![d] = "queued"]
  /\ UNCHANGED <<chunks, chunkingVersion, generation>>

Reported(d) ==
  /\ status[d] = "processing"
  /\ \E s \in Stages : stage' = [stage EXCEPT ![d] = s]
  /\ UNCHANGED <<status, chunks, chunkingVersion, generation>>

(* What ingestion_stage is set to with each status but Ready. *)
StageOf == [pending |-> "queued", processing |-> "extract",
            failed |-> "failed", deleting |-> "deleting"]

RequestWrites(d) ==
  \E q \in Requests : /\ request[q].document = d
                      /\ request[q].phase \in {"commit", "enqueue"}
                      /\ request'[q] # request[q]

Moved(d, s) ==
  /\ HasRow(d)
  /\ status' = [status EXCEPT ![d] = s]
  /\ stage' = [stage EXCEPT ![d] = StageOf[s]]
  /\ generation' \in {generation, generation + 1}
  /\ status[d] = "deleting" => RequestWrites(d)
  /\ UNCHANGED <<chunks, chunkingVersion>>

Published(d) ==
  /\ status[d] = "processing"
  /\ status' = [status EXCEPT ![d] = "ready"]
  /\ stage' = [stage EXCEPT ![d] = "ready"]
  /\ generation' = generation + 1
  /\ \E v \in Versions :
       /\ chunks' = [chunks EXCEPT ![d] = v]
       /\ chunkingVersion' = [chunkingVersion EXCEPT ![d] = v]

Removed(d) ==
  /\ status[d] = "deleting"
  /\ status' = [status EXCEPT ![d] = "purged"]
  /\ chunks' = [chunks EXCEPT ![d] = None]
  /\ generation' = generation + 1
  /\ UNCHANGED <<stage, chunkingVersion>>

RowStep ==
  \/ RowsKept
  \/ \E d \in Documents :
       \/ Inserted(d) \/ Reported(d) \/ Published(d) \/ Removed(d)
       \/ \E s \in {"pending", "processing", "failed", "deleting"} : Moved(d, s)

LEMMA MarkFailedRowStep ==
  ASSUME NEW d \in Documents, MarkFailed(d)
  PROVE  RowStep
<1>1. CASE status[d] = "processing"
  <2>1. Moved(d, "failed")
    BY <1>1 DEF MarkFailed, Moved, HasRow, NoRow, StageOf, storeVars
  <2>2. QED
    BY <2>1 DEF RowStep
<1>2. CASE status[d] # "processing"
  BY <1>2 DEF MarkFailed, RowStep, RowsKept, storeVars
<1>3. QED
  BY <1>1, <1>2

LEMMA WorkRowStep ==
  ASSUME DocumentTypeOK, NEW w \in Workers, Work(w)
  PROVE  RowStep
<1> DEFINE d == run[w].document
<1>1. run[w].step # "idle" => d \in Documents
  BY DEF DocumentTypeOK
<1>2. run[w].step \in ClaimSteps \union Stages => run[w].version \in Versions
  BY DEF DocumentTypeOK
<1>3. CASE Claim(w)
  <2>1. d \in Documents
    BY <1>1, <1>3 DEF Claim
  <2>2. Moved(d, "processing")
    BY <1>3 DEF Claim, Claimable, Moved, HasRow, NoRow, StageOf, storeVars
  <2>3. QED
    BY <2>1, <2>2 DEF RowStep
<1>4. CASE ClaimRefused(w) \/ Recheck(w) \/ Open(w) \/ PublishRefused(w)
             \/ StartPurge(w) \/ RemoveFile(w)
  BY <1>4 DEF ClaimRefused, Recheck, Open, PublishRefused, StartPurge, RemoveFile,
              RowStep, RowsKept, rowVars, storeVars
<1>5. CASE FinishStage(w)
  <2>1. run[w].step \in Stages \ {"persist"} /\ d \in Documents
    BY <1>1, <1>5, StepsType DEF FinishStage
  <2> DEFINE next == NextStage(run[w].step, run[w].version)
  <2>2. next \in Stages
    BY <2>1, NextStageType
  <2>3. /\ IF status[d] = "processing" THEN stage' = [stage EXCEPT ![d] = next]
                                       ELSE UNCHANGED stage
        /\ UNCHANGED <<status, chunks, chunkingVersion, generation>>
    BY <1>5 DEF FinishStage, storeVars
  <2> HIDE DEF next
  <2>4. QED
    BY <2>1, <2>2, <2>3 DEF RowStep, RowsKept, Reported
<1>6. CASE FailStage(w)
  <2>1. d \in Documents
    BY <1>1, <1>6, StepsType DEF FailStage
  <2>2. QED
    BY <1>6, <2>1, MarkFailedRowStep DEF FailStage
<1>7. CASE Publish(w)
  <2>1. d \in Documents /\ run[w].version \in Versions
    BY <1>1, <1>2, <1>7 DEF Publish, Stages
  <2>2. Published(d)
    BY <1>7, <2>1 DEF Publish, Published
  <2>3. QED
    BY <2>1, <2>2 DEF RowStep
<1>8. CASE DeleteRow(w)
  <2>1. d \in Documents
    BY <1>1, <1>8 DEF DeleteRow
  <2>2. QED
    BY <1>8, <2>1 DEF DeleteRow, RowStep, RowsKept, Removed
<1>9. QED
  BY <1>3, <1>4, <1>5, <1>6, <1>7, <1>8 DEF Work

LEMMA ServeRowStep ==
  ASSUME TypeOK, NEW q \in Requests, Serve(q)
  PROVE  RowStep
<1> DEFINE d == request[q].document
<1>1. request[q].phase \notin {"free", "done"} => d \in Documents
  BY DEF TypeOK
<1>2. ASSUME Finish(q), request[q].phase # "done" PROVE request'[q] # request[q]
  BY <1>2 DEF TypeOK, Finish, Done
<1>3. ASSUME NEW p \in Phases, request' = [request EXCEPT ![q].phase = p],
             request[q].phase # p
      PROVE  request'[q] # request[q]
  <2>1. request[q] \in RequestStates
    BY DEF TypeOK
  <2>2. request'[q].phase = p
    BY <1>3, <2>1 DEF TypeOK, RequestStates
  <2>3. QED
    BY <1>3, <2>2
<1>4. ASSUME NEW e \in Documents,
             CreateDocument(q, e) \/ RetryRead(q, e) \/ DeleteRead(q, e)
      PROVE  RowStep
  BY <1>4 DEF CreateDocument, RetryRead, DeleteRead, RowStep, RowsKept, Inserted,
              documentVars, rowVars, storeVars
<1>5. CASE Refresh(q) \/ EnqueueIngestion(q) \/ EnqueuePurge(q)
             \/ EnqueuePurgeFails(q) \/ ApiCrash(q)
  BY <1>5 DEF Refresh, EnqueueIngestion, EnqueuePurge, EnqueuePurgeFails, ApiCrash,
              RowStep, RowsKept, documentVars, rowVars, storeVars
<1>6. CASE RetryCommit(q)
  <2>1. d \in Documents /\ request[q].phase = "commit"
    BY <1>1, <1>6 DEF RetryCommit
  <2>2. CASE HasRow(d)
    <3>1. RequestWrites(d)
      BY <1>3, <1>6, <2>1, <2>2 DEF RetryCommit, RequestWrites, Phases
    <3>2. Moved(d, "pending")
      BY <1>6, <2>2, <3>1 DEF RetryCommit, Moved, StageOf, storeVars
    <3>3. QED
      BY <2>1, <3>2 DEF RowStep
  <2>3. CASE ~HasRow(d)
    BY <1>6, <2>3 DEF RetryCommit, RowStep, RowsKept, storeVars
  <2>4. QED
    BY <2>2, <2>3
<1>7. CASE EnqueueIngestionFails(q)
  <2>1. d \in Documents /\ request[q].phase = "enqueue"
    BY <1>1, <1>7 DEF EnqueueIngestionFails
  <2>2. CASE HasRow(d) /\ request[q].seen # "failed"
    <3>1. RequestWrites(d)
      BY <1>2, <1>7, <2>1 DEF EnqueueIngestionFails, RequestWrites
    <3>2. Moved(d, "failed")
      BY <1>7, <2>2, <3>1 DEF EnqueueIngestionFails, Moved, StageOf, storeVars
    <3>3. QED
      BY <2>1, <3>2 DEF RowStep
  <2>3. CASE ~(HasRow(d) /\ request[q].seen # "failed")
    BY <1>7, <2>3 DEF EnqueueIngestionFails, RowStep, RowsKept, storeVars
  <2>4. QED
    BY <2>2, <2>3
<1>8. CASE DeleteCommit(q)
  <2>1. d \in Documents /\ request[q].phase = "commit"
    BY <1>1, <1>8 DEF DeleteCommit
  <2>2. CASE HasRow(d)
    <3>1. RequestWrites(d)
      BY <1>3, <1>8, <2>1, <2>2 DEF DeleteCommit, RequestWrites, Phases
    <3>2. Moved(d, "deleting")
      BY <1>8, <2>2, <3>1 DEF DeleteCommit, Moved, StageOf
    <3>3. QED
      BY <2>1, <3>2 DEF RowStep
  <2>3. CASE ~HasRow(d)
    BY <1>8, <2>3 DEF DeleteCommit, RowStep, RowsKept
  <2>4. QED
    BY <2>2, <2>3
<1>9. QED
  BY <1>4, <1>5, <1>6, <1>7, <1>8, Zenon DEF Serve

(* Whatever a step of the system is, it is a row step. *)
LEMMA NextRowStep == TypeOK /\ [Next]_vars => RowStep
<1> SUFFICES ASSUME TypeOK, [Next]_vars PROVE RowStep
  OBVIOUS
<1>1. ASSUME NEW w \in Workers, Work(w) PROVE RowStep
  BY <1>1, WorkRowStep DEF TypeOK
<1>2. ASSUME NEW w \in Workers, WorkerFaults(w) PROVE RowStep
  <2>1. CASE FailClaiming(w)
    <3>1. run[w].document \in Documents
      BY <2>1, StepsType DEF TypeOK, DocumentTypeOK, FailClaiming
    <3>2. QED
      BY <2>1, <3>1, MarkFailedRowStep DEF FailClaiming
  <2>2. CASE FailUnrecorded(w) \/ RemoveFileFails(w) \/ PurgeLosesDatabase(w)
    BY <2>2 DEF FailUnrecorded, RemoveFileFails, PurgeLosesDatabase, RowStep, RowsKept,
                rowVars, storeVars
  <2>3. QED
    BY <1>2, <2>1, <2>2 DEF WorkerFaults
<1>3. ASSUME NEW w \in Workers, Deliver(w) PROVE RowStep
  <2>1. UNCHANGED <<rowVars, storeVars>>
    BY <1>3 DEF Deliver, Receive, ReceivePurge, Acknowledge, Reschedule, RescheduleFails,
                RetryPurge, WorkerCrash, Redeliver, documentVars
  <2>2. QED
    BY <2>1 DEF RowStep, RowsKept, rowVars, storeVars
<1>4. ASSUME NEW q \in Requests, Serve(q) PROVE RowStep
  BY <1>4, ServeRowStep
<1>5. ASSUME NEW d \in Documents, BecomeStale(d) PROVE RowStep
  BY <1>5 DEF BecomeStale, RowStep, RowsKept, storeVars
<1>6. CASE UNCHANGED vars
  BY <1>6 DEF vars, documentVars, rowVars, storeVars, RowStep, RowsKept
<1>7. QED
  BY <1>1, <1>2, <1>3, <1>4, <1>5, <1>6, Zenon DEF Next

-----------------------------------------------------------------------------
(* The theorems. *)

(* AllOrNothing is not inductive: a Document that does not exist yet has   *)
(* no chunking version either, or its INSERT would find one.               *)
LEMMA AllOrNothingStep ==
  ASSUME TypeOK, AllOrNothingInv, [Next]_vars
  PROVE  AllOrNothingInv'
<1>1. RowStep
  BY NextRowStep
<1>2. /\ status \in [Documents -> Statuses \union NoRow]
      /\ chunks \in [Documents -> Versions \union {None}]
      /\ chunkingVersion \in [Documents -> Versions \union {None}]
  BY DEF TypeOK, DocumentTypeOK
<1>3. CASE RowsKept
  BY <1>3 DEF RowsKept, AllOrNothingInv, AllOrNothing, HasRow
<1>4. ASSUME NEW d \in Documents, Inserted(d) PROVE AllOrNothingInv'
  BY <1>2, <1>4 DEF Inserted, AllOrNothingInv, AllOrNothing, HasRow, NoRow
<1>5. ASSUME NEW d \in Documents, Reported(d) PROVE AllOrNothingInv'
  BY <1>5 DEF Reported, AllOrNothingInv, AllOrNothing, HasRow
<1>6. ASSUME NEW d \in Documents, NEW s \in {"pending", "processing", "failed", "deleting"},
             Moved(d, s)
      PROVE  AllOrNothingInv'
  BY <1>2, <1>6 DEF Moved, AllOrNothingInv, AllOrNothing, HasRow, NoRow
<1>7. ASSUME NEW d \in Documents, Published(d) PROVE AllOrNothingInv'
  BY <1>2, <1>7 DEF Published, AllOrNothingInv, AllOrNothing, HasRow, NoRow
<1>8. ASSUME NEW d \in Documents, Removed(d) PROVE AllOrNothingInv'
  BY <1>2, <1>8 DEF Removed, AllOrNothingInv, AllOrNothing, HasRow, NoRow
<1>9. QED
  BY <1>1, <1>3, <1>4, <1>5, <1>6, <1>7, <1>8 DEF RowStep

(* However many runs of a Document overlap, fail or die, what is stored of *)
(* it is one complete batch, of the version its row records.               *)
THEOREM IngestionIsAllOrNothing == Spec => []AllOrNothing
<1>1. Init => AllOrNothingInv
  BY DEF Init, DocumentInit, AllOrNothingInv, AllOrNothing, HasRow, NoRow
<1>2. TypeOK /\ AllOrNothingInv /\ [Next]_vars => AllOrNothingInv'
  BY AllOrNothingStep
<1>3. AllOrNothingInv => AllOrNothing
  BY DEF AllOrNothingInv
<1>4. QED
  BY <1>1, <1>2, <1>3, TypeCorrect, PTL DEF Spec

LEMMA StageStep ==
  ASSUME TypeOK, StageMatchesStatus, [Next]_vars
  PROVE  StageMatchesStatus'
<1>1. RowStep
  BY NextRowStep
<1>2. /\ status \in [Documents -> Statuses \union NoRow]
      /\ stage \in [Documents -> StageColumn]
  BY DEF TypeOK, DocumentTypeOK
<1>3. CASE RowsKept
  BY <1>3 DEF RowsKept, StageMatchesStatus
<1>4. ASSUME NEW d \in Documents, Inserted(d) PROVE StageMatchesStatus'
  BY <1>2, <1>4 DEF Inserted, StageMatchesStatus
<1>5. ASSUME NEW d \in Documents, Reported(d) PROVE StageMatchesStatus'
  BY <1>2, <1>5 DEF Reported, StageMatchesStatus
<1>6. ASSUME NEW d \in Documents, NEW s \in {"pending", "processing", "failed", "deleting"},
             Moved(d, s)
      PROVE  StageMatchesStatus'
  <2>1. status'[d] = s /\ stage'[d] = StageOf[s]
    BY <1>2, <1>6 DEF Moved
  <2>2. \A e \in Documents : e # d => status'[e] = status[e] /\ stage'[e] = stage[e]
    BY <1>2, <1>6 DEF Moved
  <2>3. \/ s = "pending" /\ StageOf[s] = "queued"
        \/ s = "processing" /\ StageOf[s] \in Stages
        \/ s = "failed" /\ StageOf[s] = "failed"
        \/ s = "deleting" /\ StageOf[s] = "deleting"
    BY DEF StageOf, Stages
  <2>4. QED
    BY <2>1, <2>2, <2>3 DEF StageMatchesStatus
<1>7. ASSUME NEW d \in Documents, Published(d) PROVE StageMatchesStatus'
  BY <1>2, <1>7 DEF Published, StageMatchesStatus
<1>8. ASSUME NEW d \in Documents, Removed(d) PROVE StageMatchesStatus'
  BY <1>2, <1>8 DEF Removed, StageMatchesStatus
<1>9. QED
  BY <1>1, <1>3, <1>4, <1>5, <1>6, <1>7, <1>8 DEF RowStep

(* No late report of a superseded run repaints a row that has left         *)
(* Processing: the stage shown always agrees with the status.              *)
THEOREM StageAlwaysMatchesStatus == Spec => []StageMatchesStatus
<1>1. Init => StageMatchesStatus
  BY DEF Init, DocumentInit, StageMatchesStatus
<1>2. TypeOK /\ StageMatchesStatus /\ [Next]_vars => StageMatchesStatus'
  BY StageStep
<1>3. QED
  BY <1>1, <1>2, TypeCorrect, PTL DEF Spec

(* A row step takes a Document out of Deleting only by removing it, or in  *)
(* a transaction of a request that holds an earlier copy of the row.       *)
THEOREM WorkersNeverRevive == Spec => OnlyRequestsRevive
<1> DEFINE Kept(d) == status[d] = "deleting" =>
                        \/ status'[d] \in {"deleting", "purged"}
                        \/ RequestWrites(d)
<1>1. TypeOK /\ [Next]_vars => \A d \in Documents : Kept(d)
  <2> SUFFICES ASSUME TypeOK, [Next]_vars, NEW d \in Documents, status[d] = "deleting"
               PROVE  status'[d] \in {"deleting", "purged"} \/ RequestWrites(d)
    OBVIOUS
  <2>1. RowStep
    BY NextRowStep
  <2>2. status \in [Documents -> Statuses \union NoRow]
    BY DEF TypeOK, DocumentTypeOK
  <2>3. ASSUME NEW e \in Documents,
               \/ Inserted(e) \/ Reported(e) \/ Published(e) \/ Removed(e)
               \/ \E s \in {"pending", "processing", "failed", "deleting"} : Moved(e, s)
        PROVE  status'[d] \in {"deleting", "purged"} \/ RequestWrites(d)
    BY <2>2, <2>3 DEF Inserted, Reported, Published, Removed, Moved
  <2>4. QED
    BY <2>1, <2>3 DEF RowStep, RowsKept
<1>2. (\A d \in Documents : Kept(d)) =>
        [\A d \in Documents :
           status[d] = "deleting" =>
             \/ status'[d] \in {"deleting", "purged"}
             \/ \E q \in Requests : /\ request[q].document = d
                                    /\ request[q].phase \in {"commit", "enqueue"}
                                    /\ request'[q] # request[q]]_vars
  BY DEF RequestWrites
<1> HIDE DEF Kept
<1>3. QED
  BY <1>1, <1>2, TypeCorrect, PTL DEF Spec, OnlyRequestsRevive

(* Every row step is a step of SearchableIndex, or leaves it unchanged.    *)
LEMMA IndexStep ==
  ASSUME TypeOK, AllOrNothing, [Next]_vars
  PROVE  [Index!Next]_<<Searchable, generation>>
<1>1. RowStep
  BY NextRowStep
<1>2. /\ status \in [Documents -> Statuses \union NoRow]
      /\ chunks \in [Documents -> Versions \union {None}]
  BY DEF TypeOK, DocumentTypeOK
<1>3. CASE RowsKept
  BY <1>3 DEF RowsKept, Searchable
<1>4. ASSUME NEW d \in Documents, Inserted(d) \/ Reported(d)
      PROVE  Searchable' = Searchable /\ generation' = generation
  BY <1>2, <1>4 DEF Inserted, Reported, Searchable
<1>5. ASSUME NEW d \in Documents, NEW s \in {"pending", "processing", "failed", "deleting"},
             Moved(d, s)
      PROVE  [Index!Next]_<<Searchable, generation>>
  <2>1. Searchable' = [Searchable EXCEPT ![d] = None]
    BY <1>2, <1>5 DEF Moved, Searchable
  <2>2. generation' \in {generation, generation + 1}
    BY <1>5 DEF Moved
  <2>3. CASE Searchable[d] = None
    <3>1. Searchable' = Searchable
      BY <2>1, <2>3 DEF Searchable
    <3>2. QED
      BY <2>2, <3>1 DEF Index!Next, Index!Advance
  <2>4. CASE Searchable[d] # None
    <3>1. Index!Withdraw(d)
      BY <2>1, <2>2, <2>4 DEF Index!Withdraw
    <3>2. QED
      BY <3>1 DEF Index!Next
  <2>5. QED
    BY <2>3, <2>4
<1>6. ASSUME NEW d \in Documents, Published(d)
      PROVE  Index!Next
  <2>1. PICK v \in Versions : chunks' = [chunks EXCEPT ![d] = v]
    BY <1>6 DEF Published
  <2>2. Searchable' = [Searchable EXCEPT ![d] = v]
    BY <1>2, <1>6, <2>1 DEF Published, Searchable
  <2>3. Index!Publish(d, v)
    BY <1>6, <2>2 DEF Published, Index!Publish
  <2>4. QED
    BY <2>3 DEF Index!Next
<1>7. ASSUME NEW d \in Documents, Removed(d)
      PROVE  Index!Next
  <2>1. Searchable' = Searchable
    BY <1>2, <1>7 DEF Removed, Searchable
  <2>2. QED
    BY <1>7, <2>1 DEF Removed, Index!Next, Index!Advance
<1>8. QED
  BY <1>1, <1>3, <1>4, <1>5, <1>6, <1>7, Zenon DEF RowStep

(* Ingestion implements SearchableIndex, so caches keyed by the generation *)
(* see new evidence: what retrieval may use is one complete batch of each  *)
(* Ready Document, and it appears only together with a new generation.     *)
THEOREM IngestionImplementsIndex == Spec => IndexSpec
<1>1. Init => Index!Init
  BY DEF Init, DocumentInit, Index!Init, Searchable
<1>2. TypeOK /\ AllOrNothing /\ [Next]_vars => [Index!Next]_<<Searchable, generation>>
  BY IndexStep
<1>3. QED
  BY <1>1, <1>2, TypeCorrect, IngestionIsAllOrNothing, PTL DEF Spec, IndexSpec, Index!Spec

-----------------------------------------------------------------------------
(* The purge.  PurgeLeavesNothing is not inductive: a purge past RemoveFile *)
(* must know that no original can appear behind it.                         *)

LEMMA GoToEffect ==
  ASSUME run \in [Workers -> Runs], NEW w \in Workers, NEW step, GoTo(w, step)
  PROVE  /\ run'[w].step = step
         /\ run'[w].document = run[w].document
         /\ run'[w].task = run[w].task
         /\ run'[w].retries = run[w].retries
         /\ \A v \in Workers : v # w => run'[v] = run[v]
<1>1. run[w] \in Runs
  OBVIOUS
<1> DEFINE r == [run[w] EXCEPT !.step = step]
<1>2. /\ r.step = step /\ r.document = run[w].document
      /\ r.task = run[w].task /\ r.retries = run[w].retries
  BY <1>1 DEF Runs
<1>3. run' = [run EXCEPT ![w] = r]
  BY DEF GoTo
<1> HIDE DEF r
<1>4. QED
  BY <1>2, <1>3

(* A step that moves no file and no row into or out of existence, and no   *)
(* worker into the steps of a purge past its start.                        *)
PurgeQuiet ==
  /\ original' = original
  /\ \A d \in Documents : status'[d] \in NoRow => status'[d] = status[d]
  /\ \A w \in Workers : run'[w].step \in {"removeFile", "deleteRow"} =>
                           /\ run'[w].step = run[w].step
                           /\ run'[w].document = run[w].document

LEMMA PurgeQuietStep ==
  ASSUME TypeOK, PurgeInv, PurgeQuiet
  PROVE  PurgeInv'
<1>1. \A w \in Workers : run[w].step \in {"removeFile", "deleteRow"} =>
                           run[w].document \in Documents
  BY DEF TypeOK, DocumentTypeOK
<1>2. PurgeLeavesNothing'
  BY DEF PurgeInv, PurgeLeavesNothing, PurgeQuiet, NoRow
<1>3. QED
  BY <1>1, <1>2 DEF PurgeInv, PurgeQuiet, NoRow

LEMMA MarkFailedQuiet ==
  ASSUME TypeOK, NEW d \in Documents, MarkFailed(d)
  PROVE  \A e \in Documents : status'[e] \in NoRow => status'[e] = status[e]
BY DEF TypeOK, DocumentTypeOK, MarkFailed, NoRow

LEMMA WorkPurge ==
  ASSUME TypeOK, PurgeInv, NEW w \in Workers, Work(w)
  PROVE  PurgeInv'
<1> DEFINE d == run[w].document
<1>1. run[w].step # "idle" => d \in Documents
  BY DEF TypeOK, DocumentTypeOK
<1>2. /\ status \in [Documents -> Statuses \union NoRow]
      /\ original \in [Documents -> BOOLEAN]
      /\ run \in [Workers -> Runs]
  BY DEF TypeOK, DocumentTypeOK
<1>3. CASE Claim(w)
  <2>1. d \in Documents
    BY <1>1, <1>3 DEF Claim
  <2> DEFINE r == [run[w] EXCEPT !.step = "open", !.claim = attempts[d] + 1]
  <2>2. r.step = "open"
    BY <1>2 DEF Runs
  <2>3. run' = [run EXCEPT ![w] = r]
    BY <1>3 DEF Claim
  <2> HIDE DEF r
  <2>4. PurgeQuiet
    BY <1>2, <1>3, <2>1, <2>2, <2>3 DEF Claim, PurgeQuiet, NoRow, storeVars
  <2>5. QED
    BY <2>4, PurgeQuietStep
<1>4. CASE ClaimRefused(w) \/ Recheck(w) \/ Open(w) \/ PublishRefused(w)
  <2>1. PICK step \in {"recheck", "busy", "skipped", "extract"} : GoTo(w, step)
    BY <1>4 DEF ClaimRefused, Recheck, Open, PublishRefused
  <2>2. UNCHANGED <<status, original>>
    BY <1>4 DEF ClaimRefused, Recheck, Open, PublishRefused, rowVars, storeVars
  <2>3. PurgeQuiet
    BY <1>2, <2>1, <2>2, GoToEffect DEF PurgeQuiet
  <2>4. QED
    BY <2>3, PurgeQuietStep
<1>5. CASE FinishStage(w)
  <2>1. run[w].step \in Stages \ {"persist"}
    BY <1>5 DEF FinishStage
  <2>2. PICK step \in Stages : GoTo(w, step)
    BY <1>5, <2>1, NextStageType DEF FinishStage
  <2>3. PurgeQuiet
    BY <1>2, <1>5, <2>2, GoToEffect DEF FinishStage, PurgeQuiet, Stages, storeVars
  <2>4. QED
    BY <2>3, PurgeQuietStep
<1>6. CASE FailStage(w)
  <2>1. d \in Documents
    BY <1>1, <1>6, StepsType DEF FailStage
  <2>2. PurgeQuiet
    BY <1>2, <1>6, <2>1, GoToEffect, MarkFailedQuiet
       DEF FailStage, MarkFailed, PurgeQuiet, storeVars
  <2>3. QED
    BY <2>2, PurgeQuietStep
<1>7. CASE Publish(w)
  <2>1. d \in Documents
    BY <1>1, <1>7 DEF Publish
  <2>2. PurgeQuiet
    BY <1>2, <1>7, <2>1, GoToEffect DEF Publish, PurgeQuiet, NoRow
  <2>3. QED
    BY <2>2, PurgeQuietStep
<1>8. CASE StartPurge(w)
  <2>1. d \in Documents
    BY <1>1, <1>8 DEF StartPurge
  <2>2. /\ UNCHANGED <<status, original>>
        /\ \/ status[d] = "deleting" /\ GoTo(w, "removeFile")
           \/ GoTo(w, "purgeDone")
    BY <1>8 DEF StartPurge, rowVars, storeVars
  <2>3. QED
    BY <1>2, <2>1, <2>2, GoToEffect DEF PurgeInv, PurgeLeavesNothing
<1>9. CASE RemoveFile(w)
  <2>1. d \in Documents /\ run[w].step = "removeFile"
    BY <1>1, <1>9 DEF RemoveFile
  <2>2. /\ status' = status
        /\ original' = [original EXCEPT ![d] = FALSE]
        /\ GoTo(w, "deleteRow")
    BY <1>9 DEF RemoveFile, rowVars
  <2>3. \A v \in Workers : run[v].step = "deleteRow" => run[v].document \in Documents
    BY DEF TypeOK, DocumentTypeOK
  <2>4. QED
    BY <1>2, <2>1, <2>2, <2>3, GoToEffect DEF PurgeInv, PurgeLeavesNothing
<1>10. CASE DeleteRow(w)
  <2>1. d \in Documents /\ run[w].step = "deleteRow"
    BY <1>1, <1>10 DEF DeleteRow
  <2>2. /\ status' = status \/ status' = [status EXCEPT ![d] = "purged"]
        /\ original' = original
        /\ GoTo(w, "purgeDone")
    BY <1>10 DEF DeleteRow
  <2>3. \A v \in Workers : run[v].step \in {"removeFile", "deleteRow"} =>
                             run[v].document \in Documents
    BY DEF TypeOK, DocumentTypeOK
  <2>4. QED
    BY <1>2, <2>1, <2>2, <2>3, GoToEffect DEF PurgeInv, PurgeLeavesNothing
<1>11. QED
  BY <1>3, <1>4, <1>5, <1>6, <1>7, <1>8, <1>9, <1>10 DEF Work

LEMMA ServePurge ==
  ASSUME TypeOK, PurgeInv, NEW q \in Requests, Serve(q)
  PROVE  PurgeInv'
<1> DEFINE d == request[q].document
<1>1. request[q].phase \notin {"free", "done"} => d \in Documents
  BY DEF TypeOK
<1>2. /\ status \in [Documents -> Statuses \union NoRow]
      /\ original \in [Documents -> BOOLEAN]
  BY DEF TypeOK, DocumentTypeOK
<1>3. ASSUME NEW e \in Documents, CreateDocument(q, e) PROVE PurgeInv'
  <2>1. /\ status[e] = "absent"
        /\ status' = [status EXCEPT ![e] = "pending"]
        /\ original' = [original EXCEPT ![e] = TRUE]
        /\ run' = run
    BY <1>3 DEF CreateDocument
  <2>2. \A v \in Workers : run[v].step \in {"removeFile", "deleteRow"} =>
                             run[v].document \in Documents
    BY DEF TypeOK, DocumentTypeOK
  <2>3. QED
    BY <1>2, <2>1, <2>2 DEF PurgeInv, PurgeLeavesNothing
<1>4. ASSUME NEW e \in Documents, RetryRead(q, e) \/ DeleteRead(q, e) PROVE PurgeInv'
  <2>1. PurgeQuiet
    BY <1>4 DEF RetryRead, DeleteRead, PurgeQuiet, documentVars, rowVars, storeVars
  <2>2. QED
    BY <2>1, PurgeQuietStep
<1>5. CASE Refresh(q) \/ EnqueueIngestion(q) \/ EnqueuePurge(q)
             \/ EnqueuePurgeFails(q) \/ ApiCrash(q)
  <2>1. PurgeQuiet
    BY <1>5 DEF Refresh, EnqueueIngestion, EnqueuePurge, EnqueuePurgeFails, ApiCrash,
                PurgeQuiet, documentVars, rowVars, storeVars
  <2>2. QED
    BY <2>1, PurgeQuietStep
<1>6. CASE RetryCommit(q) \/ EnqueueIngestionFails(q) \/ DeleteCommit(q)
  <2>1. d \in Documents
    BY <1>1, <1>6 DEF RetryCommit, EnqueueIngestionFails, DeleteCommit
  <2>2. /\ UNCHANGED <<original, run>>
        /\ \/ UNCHANGED status
           \/ \E s \in {"pending", "failed", "deleting"} : status' = [status EXCEPT ![d] = s]
    BY <1>6 DEF RetryCommit, EnqueueIngestionFails, DeleteCommit, storeVars
  <2>3. PurgeQuiet
    BY <1>2, <2>1, <2>2 DEF PurgeQuiet, NoRow
  <2>4. QED
    BY <2>3, PurgeQuietStep
<1>7. QED
  BY <1>3, <1>4, <1>5, <1>6, Zenon DEF Serve

(* Once a Document's row is gone, so is its original: nothing is left in   *)
(* the store that no row refers to, whatever purges overlapped or died.    *)
THEOREM PurgeIsComplete == Spec => []PurgeLeavesNothing
<1>1. Init => PurgeInv
  BY DEF Init, DocumentInit, PurgeInv, PurgeLeavesNothing, Idle
<1>2. TypeOK /\ PurgeInv /\ [Next]_vars => PurgeInv'
  <2> SUFFICES ASSUME TypeOK, PurgeInv, [Next]_vars PROVE PurgeInv'
    OBVIOUS
  <2>0. run \in [Workers -> Runs]
    BY DEF TypeOK, DocumentTypeOK
  <2>1. ASSUME NEW w \in Workers, Work(w) PROVE PurgeInv'
    BY <2>1, WorkPurge
  <2>2. ASSUME NEW w \in Workers, WorkerFaults(w) PROVE PurgeInv'
    <3>1. original' = original
      BY <2>2 DEF WorkerFaults, FailClaiming, MarkFailed, FailUnrecorded, RemoveFileFails,
                  PurgeLosesDatabase, rowVars, storeVars
    <3>2. \A e \in Documents : status'[e] \in NoRow => status'[e] = status[e]
      <4>1. CASE FailClaiming(w)
        <5>1. run[w].document \in Documents
          BY <4>1, StepsType DEF FailClaiming, TypeOK, DocumentTypeOK
        <5>2. QED
          BY <4>1, <5>1, MarkFailedQuiet DEF FailClaiming
      <4>2. CASE FailUnrecorded(w) \/ RemoveFileFails(w) \/ PurgeLosesDatabase(w)
        BY <4>2 DEF FailUnrecorded, RemoveFileFails, PurgeLosesDatabase, rowVars
      <4>3. QED
        BY <2>2, <4>1, <4>2 DEF WorkerFaults
    <3>3. PICK step \in {"failed", "skipped", "raised"} \union (PurgeOutcomes \ {"purgeDone"}) :
            GoTo(w, step)
      BY <2>2 DEF WorkerFaults, FailClaiming, FailUnrecorded, RemoveFileFails,
                  PurgeLosesDatabase, PurgeOutcomes
    <3>4. PurgeQuiet
      BY <2>0, <3>1, <3>2, <3>3, GoToEffect DEF PurgeQuiet, PurgeOutcomes
    <3>5. QED
      BY <3>4, PurgeQuietStep
  <2>3. ASSUME NEW w \in Workers, Deliver(w) PROVE PurgeInv'
    <3>1. UNCHANGED <<status, original>>
      BY <2>3 DEF Deliver, Receive, ReceivePurge, Acknowledge, Reschedule,
                  RescheduleFails, RetryPurge, WorkerCrash, Redeliver,
                  documentVars, rowVars, storeVars
    <3>2. \/ run' = run
          \/ \E r : /\ r.step \in {"idle", "claim", "purge"}
                    /\ run' = [run EXCEPT ![w] = r]
      BY <2>3, IdleType, IngestionRunType, PurgeRunType
         DEF Deliver, Receive, ReceivePurge, Acknowledge, Reschedule, RescheduleFails,
             RetryPurge, WorkerCrash, Redeliver, documentVars
    <3>3. PurgeQuiet
      BY <2>0, <3>1, <3>2 DEF PurgeQuiet
    <3>4. QED
      BY <3>3, PurgeQuietStep
  <2>4. ASSUME NEW q \in Requests, Serve(q) PROVE PurgeInv'
    BY <2>4, ServePurge
  <2>5. ASSUME NEW d \in Documents, BecomeStale(d) PROVE PurgeInv'
    <3>1. PurgeQuiet
      BY <2>5 DEF BecomeStale, PurgeQuiet, storeVars
    <3>2. QED
      BY <3>1, PurgeQuietStep
  <2>6. CASE UNCHANGED vars
    <3>1. PurgeQuiet
      BY <2>6 DEF vars, documentVars, rowVars, storeVars, PurgeQuiet
    <3>2. QED
      BY <3>1, PurgeQuietStep
  <2>7. QED
    BY <2>1, <2>2, <2>3, <2>4, <2>5, <2>6, Zenon DEF Next
<1>3. PurgeInv => PurgeLeavesNothing
  BY DEF PurgeInv
<1>4. QED
  BY <1>1, <1>2, <1>3, TypeCorrect, PTL DEF Spec

-----------------------------------------------------------------------------
(***************************************************************************)
(* Nobody waits for work that nobody owes.  What NothingStranded says of a *)
(* Document depends on where the message, the worker or the request is     *)
(* that will still act on it; the invariant StrandedInv adds that a worker *)
(* takes only steps of its own task, that every purge attempt was paid for *)
(* by an error of the file store, and that a Pending Document still has    *)
(* the message or the request that nobody else consumes: an IngestionOwed  *)
(* by a worker about to look at the status again would not be enough.      *)
(***************************************************************************)

(* A worker takes only the steps of its own task. *)

IngestSteps == ClaimSteps \union Stages \union IngestionOutcomes
PurgingSteps == PurgeSteps \union PurgeOutcomes

LEMMA StepsDisjoint ==
  /\ IngestSteps \intersect PurgingSteps = {}
  /\ "idle" \notin IngestSteps \union PurgingSteps
  /\ Steps = {"idle"} \union IngestSteps \union PurgingSteps
BY DEF IngestSteps, PurgingSteps, ClaimSteps, Stages, IngestionOutcomes, PurgeSteps,
       PurgeOutcomes, Steps

(* Where one worker's run may go in one step. *)
RunMove(w) ==
  \/ run' = run
  \/ run' = [run EXCEPT ![w] = Idle]
  \/ \E d \in Documents : /\ run[w] = Idle
                          /\ run' = [run EXCEPT ![w] = IngestionRun("ingest", d, DefaultVersion)]
  \/ \E d \in Documents, r \in 0..MaxPurgeRetries :
       run[w] = Idle /\ run' = [run EXCEPT ![w] = PurgeRun(d, r)]
  \/ \E step \in Steps :
       /\ \/ run[w].step \in IngestSteps /\ step \in IngestSteps
          \/ run[w].step \in PurgingSteps /\ step \in PurgingSteps
       /\ run'[w].step = step
       /\ run'[w].document = run[w].document
       /\ run'[w].task = run[w].task
       /\ run'[w].retries = run[w].retries
       /\ \A v \in Workers : v # w => run'[v] = run[v]

LEMMA GoToMove ==
  ASSUME TypeOK, NEW w \in Workers, NEW step \in Steps, GoTo(w, step),
         \/ run[w].step \in IngestSteps /\ step \in IngestSteps
         \/ run[w].step \in PurgingSteps /\ step \in PurgingSteps
  PROVE  RunMove(w)
<1>1. run \in [Workers -> Runs]
  BY DEF TypeOK, DocumentTypeOK
<1>2. QED
  BY <1>1, GoToEffect DEF RunMove

LEMMA WorkMove ==
  ASSUME TypeOK, NEW w \in Workers, Work(w)
  PROVE  RunMove(w)
<1>0. run \in [Workers -> Runs]
  BY DEF TypeOK, DocumentTypeOK
<1>1. CASE Claim(w)
  <2> DEFINE r == [run[w] EXCEPT !.step = "open", !.claim = attempts[run[w].document] + 1]
  <2>1. /\ r.step = "open" /\ r.document = run[w].document
        /\ r.task = run[w].task /\ r.retries = run[w].retries
    BY <1>0 DEF Runs
  <2>2. run' = [run EXCEPT ![w] = r] /\ run[w].step = "claim"
    BY <1>1 DEF Claim
  <2> HIDE DEF r
  <2>3. "open" \in Steps /\ "open" \in IngestSteps /\ "claim" \in IngestSteps
    BY DEF Steps, IngestSteps, ClaimSteps
  <2>4. QED
    BY <1>0, <2>1, <2>2, <2>3 DEF RunMove
<1>2. CASE ClaimRefused(w) \/ Recheck(w) \/ Open(w) \/ PublishRefused(w) \/ Publish(w)
             \/ FailStage(w)
  <2>1. PICK step \in {"recheck", "busy", "skipped", "extract", "completed", "failed"} :
          GoTo(w, step)
    BY <1>2 DEF ClaimRefused, Recheck, Open, PublishRefused, Publish, FailStage
  <2>2. step \in Steps /\ step \in IngestSteps
    BY DEF Steps, IngestSteps, ClaimSteps, Stages, IngestionOutcomes
  <2>3. run[w].step \in IngestSteps
    BY <1>2 DEF ClaimRefused, Recheck, Open, PublishRefused, Publish, FailStage,
                IngestSteps, ClaimSteps, Stages
  <2>4. QED
    BY <2>1, <2>2, <2>3, GoToMove
<1>3. CASE FinishStage(w)
  <2>1. run[w].step \in Stages \ {"persist"}
    BY <1>3 DEF FinishStage
  <2>2. PICK step \in Stages : GoTo(w, step)
    BY <1>3, <2>1, NextStageType DEF FinishStage
  <2>3. QED
    BY <2>1, <2>2, GoToMove, StepsType DEF IngestSteps
<1>4. CASE StartPurge(w) \/ RemoveFile(w) \/ DeleteRow(w)
  <2>1. PICK step \in {"removeFile", "purgeDone", "deleteRow"} : GoTo(w, step)
    BY <1>4 DEF StartPurge, RemoveFile, DeleteRow
  <2>2. step \in Steps /\ step \in PurgingSteps /\ run[w].step \in PurgingSteps
    BY <1>4 DEF StartPurge, RemoveFile, DeleteRow, Steps, PurgingSteps, PurgeSteps,
                PurgeOutcomes
  <2>3. QED
    BY <2>1, <2>2, GoToMove
<1>5. QED
  BY <1>1, <1>2, <1>3, <1>4 DEF Work

LEMMA NextMove ==
  ASSUME TypeOK, [Next]_vars
  PROVE  \/ run' = run
         \/ \E w \in Workers : RunMove(w)
<1>1. ASSUME NEW w \in Workers, Work(w) PROVE RunMove(w)
  BY <1>1, WorkMove
<1>2. ASSUME NEW w \in Workers, WorkerFaults(w) PROVE RunMove(w)
  <2>1. CASE RemoveFileFails(w) \/ PurgeLosesDatabase(w)
    <3>1. PICK step \in {"purgeRetry", "purgeRaised"} : GoTo(w, step)
      BY <2>1 DEF RemoveFileFails, PurgeLosesDatabase
    <3>2. step \in Steps /\ step \in PurgingSteps /\ run[w].step \in PurgingSteps
      BY <2>1 DEF RemoveFileFails, PurgeLosesDatabase, Steps, PurgingSteps, PurgeSteps,
                  PurgeOutcomes
    <3>3. QED
      BY <3>1, <3>2, GoToMove
  <2>2. CASE FailClaiming(w) \/ FailUnrecorded(w)
    <3>1. PICK step \in {"failed", "skipped", "raised"} : GoTo(w, step)
      BY <2>2 DEF FailClaiming, FailUnrecorded
    <3>2. step \in Steps /\ step \in IngestSteps
      BY DEF Steps, IngestSteps, IngestionOutcomes
    <3>3. run[w].step \in IngestSteps
      BY <2>2 DEF FailClaiming, FailUnrecorded, IngestSteps
    <3>4. QED
      BY <3>1, <3>2, <3>3, GoToMove
  <2>3. QED
    BY <1>2, <2>1, <2>2 DEF WorkerFaults
<1>3. ASSUME NEW w \in Workers, Deliver(w) PROVE RunMove(w)
  BY <1>3 DEF Deliver, Receive, ReceivePurge, Acknowledge, Reschedule, RescheduleFails,
              RetryPurge, WorkerCrash, Redeliver, documentVars, RunMove
<1>4. ASSUME NEW q \in Requests, Serve(q) PROVE run' = run
  BY <1>4 DEF Serve, CreateDocument, RetryRead, DeleteRead, RetryCommit, Refresh,
              EnqueueIngestion, EnqueueIngestionFails, DeleteCommit, EnqueuePurge,
              EnqueuePurgeFails, ApiCrash, documentVars
<1>5. ASSUME NEW d \in Documents, BecomeStale(d) PROVE run' = run
  BY <1>5 DEF BecomeStale
<1>6. CASE UNCHANGED vars
  BY <1>6 DEF vars, documentVars
<1>7. QED
  BY <1>1, <1>2, <1>3, <1>4, <1>5, <1>6, Zenon DEF Next

LEMMA TasksStep ==
  ASSUME TypeOK, TasksMatchSteps, [Next]_vars
  PROVE  TasksMatchSteps'
<1>0. run \in [Workers -> Runs]
  BY DEF TypeOK, DocumentTypeOK
<1>1. CASE run' = run
  BY <1>1 DEF TasksMatchSteps
<1>2. ASSUME NEW w \in Workers, RunMove(w) PROVE TasksMatchSteps'
  <2>1. ASSUME NEW d \in Documents, NEW r \in 0..MaxPurgeRetries
        PROVE  /\ Idle.step \notin IngestSteps \union PurgingSteps
               /\ LET i == IngestionRun("ingest", d, DefaultVersion) IN
                    i.task = "ingest" /\ i.step \notin PurgingSteps
               /\ PurgeRun(d, r).task = "purge" /\ PurgeRun(d, r).step \notin IngestSteps
    <3>1. Idle.step = "idle"
      BY DEF Idle
    <3>2. LET i == IngestionRun("ingest", d, DefaultVersion) IN
            i.task = "ingest" /\ i.step = "claim"
      BY DEF IngestionRun
    <3>3. PurgeRun(d, r).task = "purge" /\ PurgeRun(d, r).step = "purge"
      BY DEF PurgeRun
    <3>4. "claim" \in IngestSteps /\ "purge" \in PurgingSteps
      BY DEF IngestSteps, PurgingSteps, ClaimSteps, PurgeSteps
    <3>5. QED
      BY <3>1, <3>2, <3>3, <3>4, StepsDisjoint
  <2>2. \A v \in Workers :
          /\ run[v].step \in IngestSteps => run[v].task = "ingest"
          /\ run[v].step \in PurgingSteps => run[v].task = "purge"
    BY DEF TasksMatchSteps, IngestSteps, PurgingSteps
  <2>3. \A v \in Workers :
          /\ run'[v].step \in IngestSteps => run'[v].task = "ingest"
          /\ run'[v].step \in PurgingSteps => run'[v].task = "purge"
    <3>1. CASE run' = run
      BY <2>2, <3>1
    <3>2. CASE run' = [run EXCEPT ![w] = Idle]
      <4>1. run'[w] = Idle /\ \A v \in Workers : v # w => run'[v] = run[v]
        BY <1>0, <3>2
      <4>2. Idle.step \notin IngestSteps \union PurgingSteps
        BY IdleType, StepsDisjoint
      <4>3. QED
        BY <2>2, <4>1, <4>2
    <3>3. ASSUME NEW d \in Documents,
                 run' = [run EXCEPT ![w] = IngestionRun("ingest", d, DefaultVersion)]
          PROVE  \A v \in Workers :
                   /\ run'[v].step \in IngestSteps => run'[v].task = "ingest"
                   /\ run'[v].step \in PurgingSteps => run'[v].task = "purge"
      BY <1>0, <2>1, <2>2, <3>3, PurgeRetryAssumption
    <3>4. ASSUME NEW d \in Documents, NEW r \in 0..MaxPurgeRetries,
                 run' = [run EXCEPT ![w] = PurgeRun(d, r)]
          PROVE  \A v \in Workers :
                   /\ run'[v].step \in IngestSteps => run'[v].task = "ingest"
                   /\ run'[v].step \in PurgingSteps => run'[v].task = "purge"
      BY <1>0, <2>1, <2>2, <3>4
    <3>5. ASSUME NEW step \in Steps,
                 \/ run[w].step \in IngestSteps /\ step \in IngestSteps
                 \/ run[w].step \in PurgingSteps /\ step \in PurgingSteps,
                 run'[w].step = step, run'[w].task = run[w].task,
                 \A v \in Workers : v # w => run'[v] = run[v]
          PROVE  \A v \in Workers :
                   /\ run'[v].step \in IngestSteps => run'[v].task = "ingest"
                   /\ run'[v].step \in PurgingSteps => run'[v].task = "purge"
      BY <2>2, <3>5, StepsDisjoint
    <3>6. QED
      BY <1>2, <3>1, <3>2, <3>3, <3>4, <3>5, Zenon DEF RunMove
  <2>4. QED
    BY <2>3 DEF TasksMatchSteps, IngestSteps, PurgingSteps
<1>3. QED
  BY <1>1, <1>2, NextMove

-----------------------------------------------------------------------------
(* Faults are only ever counted. *)

LEMMA FaultsGrow ==
  ASSUME TypeOK, [Next]_vars, NEW k \in FaultKinds
  PROVE  faults'[k] \in Nat /\ faults'[k] >= faults[k]
<1>0. faults \in [FaultKinds -> Nat] /\ faults[k] \in Nat
  BY DEF TypeOK
<1>1. UNCHANGED faults \/ \E j : Fault(j)
  <2>1. ASSUME NEW w \in Workers, WorkerFaults(w) PROVE \E j : Fault(j)
    BY <2>1 DEF WorkerFaults
  <2>2. ASSUME NEW w \in Workers, Deliver(w) PROVE UNCHANGED faults \/ \E j : Fault(j)
    BY <2>2 DEF Deliver, Receive, ReceivePurge, Acknowledge, Reschedule, RescheduleFails,
                RetryPurge, WorkerCrash, Redeliver
  <2>3. ASSUME NEW q \in Requests, Serve(q) PROVE UNCHANGED faults \/ \E j : Fault(j)
    BY <2>3 DEF Serve, CreateDocument, RetryRead, DeleteRead, RetryCommit, Refresh,
                EnqueueIngestion, EnqueueIngestionFails, DeleteCommit, EnqueuePurge,
                EnqueuePurgeFails, ApiCrash
  <2>4. QED
    BY <2>1, <2>2, <2>3, Zenon DEF Next, vars
<1>2. CASE UNCHANGED faults
  BY <1>0, <1>2
<1>3. ASSUME NEW j, Fault(j) PROVE faults'[k] \in Nat /\ faults'[k] >= faults[k]
  BY <1>0, <1>3, FaultType
<1>4. QED
  BY <1>1, <1>2, <1>3

-----------------------------------------------------------------------------
(* Each attempt of a purge has cost an error of the file store or the      *)
(* database.                                                               *)

(* Nothing is sent, and worker w's run, if it is a purge, is within what   *)
(* has been paid.                                                          *)
RunPaid(r, paid) ==
  /\ r.step \in PurgeSteps => r.retries <= paid
  /\ r.step = "purgeRetry" => r.retries < paid
  /\ r.step \in {"purgeDone", "purgeRaised"} => r.retries <= paid

QueuePaid(messages, paid) ==
  \A d \in Documents, r \in 0..MaxPurgeRetries : messages[d][r] > 0 => r <= paid

LEMMA PaidSplit ==
  RetriesPaid <=> /\ QueuePaid(purgeQueue, Paid)
                  /\ \A w \in Workers : RunPaid(run[w], Paid)
BY DEF RetriesPaid, QueuePaid, RunPaid

LEMMA PaidGrows ==
  ASSUME NEW p \in Nat, NEW q \in Nat, q >= p
  PROVE  /\ QueuePaid(purgeQueue, p) => QueuePaid(purgeQueue, q)
         /\ \A r \in Runs : RunPaid(r, p) => RunPaid(r, q)
<1>1. ASSUME QueuePaid(purgeQueue, p), NEW d \in Documents, NEW r \in 0..MaxPurgeRetries,
             purgeQueue[d][r] > 0
      PROVE  r <= q
  <2>1. r <= p /\ r \in Nat
    BY <1>1, PurgeRetryAssumption DEF QueuePaid
  <2>2. QED
    BY <2>1
<1>2. ASSUME NEW r \in Runs, RunPaid(r, p) PROVE RunPaid(r, q)
  <2>1. r.retries \in Nat
    BY PurgeRetryAssumption DEF Runs
  <2>2. QED
    BY <1>2, <2>1 DEF RunPaid
<1>3. QED
  BY <1>1, <1>2 DEF QueuePaid

LEMMA SendPurgePaid ==
  ASSUME TypeOK, NEW p \in Nat, QueuePaid(purgeQueue, p),
         NEW d \in Documents, NEW r \in 0..MaxPurgeRetries, SendPurge(d, r), r <= p
  PROVE  QueuePaid(purgeQueue', p)
<1>1. \A e \in Documents, s \in 0..MaxPurgeRetries :
        e # d \/ s # r => purgeQueue'[e][s] = purgeQueue[e][s]
  BY SendPurgeType DEF TypeOK
<1>2. QED
  BY <1>1 DEF QueuePaid

LEMMA RetriesStep ==
  ASSUME TypeOK, TasksMatchSteps, RetriesPaid, [Next]_vars
  PROVE  RetriesPaid'
<1> DEFINE paid == Paid
<1>0. /\ run \in [Workers -> Runs]
      /\ \A w \in Workers : run[w] \in Runs /\ run[w].retries \in Nat
      /\ purgeQueue \in [Documents -> [0..MaxPurgeRetries -> Nat]]
      /\ "storage" \in FaultKinds /\ "database" \in FaultKinds
      /\ paid \in Nat
  BY PurgeRetryAssumption DEF TypeOK, DocumentTypeOK, Runs, FaultKinds, Paid
<1>1. paid' \in Nat /\ paid' >= paid
  BY <1>0, FaultsGrow DEF Paid, TypeOK
<1>2. QueuePaid(purgeQueue, paid) /\ \A w \in Workers : RunPaid(run[w], paid)
  BY PaidSplit
<1> HIDE DEF paid
<1>3. QueuePaid(purgeQueue, paid') /\ \A w \in Workers : RunPaid(run[w], paid')
  BY <1>0, <1>1, <1>2, PaidGrows
<1>4. SUFFICES QueuePaid(purgeQueue', paid') /\ \A v \in Workers : RunPaid(run'[v], paid')
  BY DEF QueuePaid, RunPaid, RetriesPaid, paid
<1>5. purgeQueue' = purgeQueue => QueuePaid(purgeQueue', paid')
  BY <1>3 DEF QueuePaid
<1>6. ASSUME NEW w \in Workers, NEW step, GoTo(w, step),
             step \in PurgeSteps \union {"purgeDone", "purgeRaised"}
               => run[w].step \in PurgeSteps,
             step # "purgeRetry"
      PROVE  \A v \in Workers : RunPaid(run'[v], paid')
  BY <1>0, <1>3, <1>6, GoToEffect DEF RunPaid, PurgeSteps
<1>7. ASSUME NEW w \in Workers, NEW r, run' = [run EXCEPT ![w] = r],
             r.step \notin PurgingSteps
      PROVE  \A v \in Workers : RunPaid(run'[v], paid')
  BY <1>0, <1>3, <1>7 DEF RunPaid, PurgingSteps, PurgeOutcomes
<1>8. ASSUME NEW w \in Workers, run' = [run EXCEPT ![w] = Idle]
      PROVE  \A v \in Workers : RunPaid(run'[v], paid')
  BY <1>7, <1>8, IdleType, StepsDisjoint
<1>9. ASSUME NEW w \in Workers, Work(w), UNCHANGED purgeQueue
      PROVE  \A v \in Workers : RunPaid(run'[v], paid')
  <2>1. CASE Claim(w)
    <3> DEFINE r == [run[w] EXCEPT !.step = "open", !.claim = attempts[run[w].document] + 1]
    <3>1. r.step = "open"
      BY <1>0 DEF Runs
    <3>2. run' = [run EXCEPT ![w] = r]
      BY <2>1 DEF Claim
    <3> HIDE DEF r
    <3>3. r.step \notin PurgingSteps
      BY <3>1 DEF PurgingSteps, PurgeSteps, PurgeOutcomes
    <3>4. QED
      BY <1>7, <3>2, <3>3
  <2>2. CASE ClaimRefused(w) \/ Recheck(w) \/ Open(w) \/ PublishRefused(w) \/ Publish(w)
               \/ FailStage(w)
    <3>1. PICK step \in {"recheck", "busy", "skipped", "extract", "completed", "failed"} :
            GoTo(w, step)
      BY <2>2 DEF ClaimRefused, Recheck, Open, PublishRefused, Publish, FailStage
    <3>2. QED
      BY <1>6, <3>1 DEF PurgeSteps
  <2>3. CASE FinishStage(w)
    <3>1. run[w].step \in Stages \ {"persist"}
      BY <2>3 DEF FinishStage
    <3>2. PICK step \in Stages : GoTo(w, step)
      BY <2>3, <3>1, NextStageType DEF FinishStage
    <3>3. QED
      BY <1>6, <3>2 DEF PurgeSteps, Stages
  <2>4. CASE StartPurge(w) \/ RemoveFile(w) \/ DeleteRow(w)
    <3>1. PICK step \in {"removeFile", "purgeDone", "deleteRow"} : GoTo(w, step)
      BY <2>4 DEF StartPurge, RemoveFile, DeleteRow
    <3>2. run[w].step \in PurgeSteps
      BY <2>4 DEF StartPurge, RemoveFile, DeleteRow, PurgeSteps
    <3>3. QED
      BY <1>6, <3>1, <3>2
  <2>5. QED
    BY <1>9, <2>1, <2>2, <2>3, <2>4 DEF Work
<1>10. ASSUME NEW w \in Workers, WorkerFaults(w), UNCHANGED purgeQueue
       PROVE  \A v \in Workers : RunPaid(run'[v], paid')
  <2>1. CASE FailClaiming(w) \/ FailUnrecorded(w)
    <3>1. PICK step \in {"failed", "skipped", "raised"} : GoTo(w, step)
      BY <2>1 DEF FailClaiming, FailUnrecorded
    <3>2. QED
      BY <1>6, <3>1 DEF PurgeSteps
  <2>2. ASSUME NEW k \in {"storage", "database"}, Fault(k), run[w].step \in PurgeSteps,
               NEW step \in {"purgeRetry", "purgeRaised"}, GoTo(w, step)
        PROVE  \A v \in Workers : RunPaid(run'[v], paid')
    <3>1. /\ faults["storage"] \in Nat /\ faults["database"] \in Nat
          /\ faults'["storage"] \in Nat /\ faults'["database"] \in Nat
          /\ faults'["storage"] >= faults["storage"]
          /\ faults'["database"] >= faults["database"]
          /\ faults'[k] = faults[k] + 1
      BY <1>0, <2>2, FaultType DEF TypeOK
    <3>2. paid' >= paid + 1
      BY <3>1 DEF Paid, paid
    <3>3. run[w].retries <= paid
      BY <1>2, <2>2 DEF RunPaid
    <3>4. run[w].retries < paid'
      BY <1>0, <1>1, <3>2, <3>3
    <3>5. QED
      BY <1>0, <1>3, <2>2, <3>4, GoToEffect DEF RunPaid, PurgeSteps
  <2>3. CASE RemoveFileFails(w) /\ Fault("storage")
    BY <2>2, <2>3 DEF RemoveFileFails, PurgeSteps
  <2>4. CASE PurgeLosesDatabase(w) /\ Fault("database")
    BY <2>2, <2>4 DEF PurgeLosesDatabase, PurgeSteps
  <2>5. QED
    BY <1>10, <2>1, <2>3, <2>4 DEF WorkerFaults
<1>11. ASSUME NEW w \in Workers, run[w].step # "idle", GiveBack(w)
       PROVE  QueuePaid(purgeQueue', paid')
  <2>1. CASE run[w].task = "ingest"
    BY <1>5, <1>11, <2>1 DEF GiveBack
  <2>2. CASE run[w].task # "ingest"
    <3>1. run[w].step \in PurgeSteps \union PurgeOutcomes
      <4>1. run[w].step \in Steps
        BY <1>0 DEF Runs
      <4>2. QED
        BY <1>11, <2>2, <4>1 DEF TasksMatchSteps, Steps
    <3>2. run[w].retries <= paid'
      BY <1>0, <1>1, <1>3, <3>1 DEF RunPaid, PurgeOutcomes
    <3>3. run[w].document \in Documents /\ run[w].retries \in 0..MaxPurgeRetries
      BY <1>0, <1>11 DEF TypeOK, DocumentTypeOK, Runs
    <3>4. QED
      BY <1>1, <1>3, <1>11, <2>2, <3>2, <3>3, SendPurgePaid DEF GiveBack
  <2>3. QED
    BY <2>1, <2>2
<1>12. ASSUME NEW w \in Workers, Deliver(w)
       PROVE  QueuePaid(purgeQueue', paid') /\ \A v \in Workers : RunPaid(run'[v], paid')
  <2>1. ASSUME NEW d \in Documents, Receive(w, d)
        PROVE  QueuePaid(purgeQueue', paid') /\ \A v \in Workers : RunPaid(run'[v], paid')
    <3> DEFINE i == IngestionRun("ingest", d, DefaultVersion)
    <3>1. i.step \notin PurgingSteps
      BY DEF IngestionRun, PurgingSteps, PurgeSteps, PurgeOutcomes
    <3>2. run' = [run EXCEPT ![w] = i] /\ purgeQueue' = purgeQueue
      BY <2>1 DEF Receive
    <3> HIDE DEF i
    <3>3. QED
      BY <1>5, <1>7, <3>1, <3>2
  <2>2. ASSUME NEW d \in Documents, ReceivePurge(w, d)
        PROVE  QueuePaid(purgeQueue', paid') /\ \A v \in Workers : RunPaid(run'[v], paid')
    <3>1. PICK r \in 0..MaxPurgeRetries :
            /\ purgeQueue[d][r] > 0
            /\ purgeQueue' = [purgeQueue EXCEPT ![d][r] = @ - 1]
            /\ run' = [run EXCEPT ![w] = PurgeRun(d, r)]
      BY <2>2 DEF ReceivePurge
    <3>2. r <= paid'
      BY <1>3, <3>1 DEF QueuePaid
    <3>3. RunPaid(PurgeRun(d, r), paid')
      <4>1. PurgeRun(d, r).step = "purge" /\ PurgeRun(d, r).retries = r
        BY PurgeRunType
      <4>2. QED
        BY <3>2, <4>1 DEF RunPaid
    <3>4. QueuePaid(purgeQueue', paid')
      <4>1. \A e \in Documents, s \in 0..MaxPurgeRetries :
              e # d \/ s # r => purgeQueue'[e][s] = purgeQueue[e][s]
        <5> DEFINE row == [purgeQueue[d] EXCEPT ![r] = purgeQueue[d][r] - 1]
        <5>1. \A s \in 0..MaxPurgeRetries : s # r => row[s] = purgeQueue[d][s]
          BY <1>0
        <5>2. purgeQueue' = [purgeQueue EXCEPT ![d] = row]
          BY <3>1
        <5> HIDE DEF row
        <5>3. QED
          BY <1>0, <5>1, <5>2
      <4>2. QED
        BY <1>3, <3>2, <4>1 DEF QueuePaid
    <3>5. run'[w] = PurgeRun(d, r) /\ \A v \in Workers : v # w => run'[v] = run[v]
      BY <1>0, <3>1
    <3>6. QED
      BY <1>3, <3>3, <3>4, <3>5
  <2>3. CASE Acknowledge(w) \/ Reschedule(w) \/ RescheduleFails(w)
    BY <1>5, <1>8, <2>3 DEF Acknowledge, Reschedule, RescheduleFails
  <2>4. CASE RetryPurge(w)
    <3>1. run[w].step = "purgeRetry" /\ run' = [run EXCEPT ![w] = Idle]
      BY <2>4 DEF RetryPurge
    <3>2. QueuePaid(purgeQueue', paid')
      <4>1. CASE run[w].retries < MaxPurgeRetries
        <5>1. run[w].document \in Documents
          BY <3>1 DEF TypeOK, DocumentTypeOK
        <5>2. run[w].retries + 1 <= paid'
          BY <1>0, <1>1, <1>3, <3>1 DEF RunPaid
        <5>3. run[w].retries + 1 \in 0..MaxPurgeRetries
          BY <1>0, <4>1, PurgeRetryAssumption
        <5>4. SendPurge(run[w].document, run[w].retries + 1)
          BY <2>4, <4>1 DEF RetryPurge
        <5>5. QED
          BY <1>1, <1>3, <5>1, <5>2, <5>3, <5>4, SendPurgePaid
      <4>2. CASE ~(run[w].retries < MaxPurgeRetries)
        BY <1>5, <2>4, <4>2 DEF RetryPurge
      <4>3. QED
        BY <4>1, <4>2
    <3>3. QED
      BY <1>8, <3>1, <3>2
  <2>5. CASE WorkerCrash(w)
    BY <1>8, <1>11, <2>5 DEF WorkerCrash
  <2>6. CASE Redeliver(w)
    <3>1. run' = run
      BY <2>6 DEF Redeliver, documentVars
    <3>2. QED
      BY <1>3, <1>11, <2>6, <3>1 DEF Redeliver
  <2>7. QED
    BY <1>12, <2>1, <2>2, <2>3, <2>4, <2>5, <2>6, Zenon DEF Deliver
<1>13. ASSUME NEW q \in Requests, Serve(q)
       PROVE  QueuePaid(purgeQueue', paid') /\ run' = run
  <2>1. CASE EnqueuePurge(q)
    <3>1. request[q].document \in Documents
      BY <2>1 DEF EnqueuePurge, TypeOK
    <3>2. 0 \in 0..MaxPurgeRetries /\ 0 <= paid'
      BY <1>1, PurgeRetryAssumption
    <3>3. QED
      BY <1>1, <1>3, <2>1, <3>1, <3>2, SendPurgePaid DEF EnqueuePurge, documentVars
  <2>2. CASE ~EnqueuePurge(q)
    <3>1. purgeQueue' = purgeQueue /\ run' = run
      BY <1>13, <2>2 DEF Serve, CreateDocument, RetryRead, DeleteRead, RetryCommit, Refresh,
             EnqueueIngestion, EnqueueIngestionFails, DeleteCommit,
             EnqueuePurgeFails, ApiCrash, documentVars
    <3>2. QED
      BY <1>5, <3>1
  <2>3. QED
    BY <2>1, <2>2
<1>14. ASSUME NEW d \in Documents, BecomeStale(d), UNCHANGED purgeQueue
       PROVE  run' = run
  BY <1>14 DEF BecomeStale
<1>15. CASE UNCHANGED vars
  BY <1>3, <1>5, <1>15 DEF vars, documentVars
<1>16. QED
  BY <1>3, <1>5, <1>9, <1>10, <1>12, <1>13, <1>14, <1>15, Zenon DEF Next

-----------------------------------------------------------------------------
(* Who owes what. *)

NoLoss == faults["broker"] = 0 /\ faults["api"] = 0 /\ faults["database"] = 0
Funded == faults["broker"] = 0 /\ faults["api"] = 0 /\ faults["database"] = 0
            /\ faults["storage"] <= MaxPurgeRetries

WillClaim(w, d) == run[w].task = "ingest" /\ run[w].document = d /\ run[w].step = "claim"

Ingests(w, d) == /\ run[w].task = "ingest" /\ run[w].document = d
                 /\ run[w].step \in ClaimSteps \union Stages \union {"busy"}

Purges(w, d) == /\ run[w].task = "purge" /\ run[w].document = d
                /\ run[w].step \in PurgeSteps \union {"purgeRetry"}

WillSend(q, d) == /\ Kind[q] # "delete" /\ request[q].document = d
                  /\ request[q].phase \in {"refresh", "enqueue"}

WillSendPurge(q, d) == /\ Kind[q] = "delete" /\ request[q].document = d
                       /\ request[q].phase = "enqueue"

OwedInv(d) ==
  /\ status[d] = "pending" /\ NoLoss => PendingOwed(d)
  /\ status[d] = "processing" /\ NoLoss => IngestionOwed(d)
  /\ status[d] = "deleting" /\ Funded => PurgeOwed(d)

LEMMA StrandedSplit ==
  StrandedInv <=> /\ \A d \in Documents : OwedInv(d)
                  /\ TasksMatchSteps
                  /\ RetriesPaid
<1>1. \A d : PendingOwed(d) => IngestionOwed(d)
  BY DEF PendingOwed, IngestionOwed, ClaimSteps
<1>2. QED
  BY <1>1 DEF StrandedInv, NothingStranded, OwedInv, NoLoss, Funded

(* The promises of the faults only weaken. *)
LEMMA LossGrows ==
  ASSUME TypeOK, [Next]_vars
  PROVE  (NoLoss' => NoLoss) /\ (Funded' => Funded)
<1>1. \A k \in FaultKinds : faults[k] \in Nat /\ faults'[k] \in Nat /\ faults'[k] >= faults[k]
  BY FaultsGrow DEF TypeOK
<1>2. {"broker", "api", "database", "storage"} \subseteq FaultKinds
  BY DEF FaultKinds
<1>3. QED
  BY <1>1, <1>2, PurgeRetryAssumption DEF NoLoss, Funded

LEMMA FaultCounted ==
  ASSUME TypeOK, NEW k \in FaultKinds, Fault(k)
  PROVE  faults'[k] > 0
<1>1. faults[k] \in Nat /\ faults'[k] = faults[k] + 1
  BY FaultType DEF TypeOK
<1>2. QED
  BY <1>1

MessagesKept(d) ==
  /\ queue[d] > 0 => queue'[d] > 0
  /\ \A r \in 0..MaxPurgeRetries : purgeQueue[d][r] > 0 => purgeQueue'[d][r] > 0

(* A step of worker w keeps the debts to d that it does not itself hold.   *)
LEMMA WorkerKeeps ==
  ASSUME NEW d \in Documents, NEW w \in Workers, OwedInv(d),
         NoLoss' => NoLoss, Funded' => Funded,
         \A v \in Workers : v # w => run'[v] = run[v],
         request' = request, MessagesKept(d),
         status'[d] \in {"pending", "processing", "deleting"} => status'[d] = status[d],
         status[d] = "pending" /\ NoLoss' /\ WillClaim(w, d) => PendingOwed(d)',
         status[d] = "processing" /\ NoLoss' /\ Ingests(w, d) => IngestionOwed(d)',
         status[d] = "deleting" /\ Funded' /\ Purges(w, d) => PurgeOwed(d)'
  PROVE  OwedInv(d)'
<1>1. \A v \in Workers : v # w => /\ WillClaim(v, d) => WillClaim(v, d)'
                                  /\ Ingests(v, d) => Ingests(v, d)'
                                  /\ Purges(v, d) => Purges(v, d)'
  BY DEF WillClaim, Ingests, Purges
<1>2. \A q \in Requests : /\ WillSend(q, d) => WillSend(q, d)'
                          /\ WillSendPurge(q, d) => WillSendPurge(q, d)'
  BY DEF WillSend, WillSendPurge
<1>3. /\ PendingOwed(d) => PendingOwed(d)' \/ WillClaim(w, d)
      /\ IngestionOwed(d) => IngestionOwed(d)' \/ Ingests(w, d)
      /\ PurgeOwed(d) => PurgeOwed(d)' \/ Purges(w, d)
  BY <1>1, <1>2 DEF PendingOwed, IngestionOwed, PurgeOwed, WillClaim, Ingests, Purges,
                    WillSend, WillSendPurge, MessagesKept
<1>4. QED
  BY <1>3 DEF OwedInv

(* The same for a request q. *)
LEMMA RequestKeeps ==
  ASSUME NEW d \in Documents, NEW q \in Requests, OwedInv(d),
         NoLoss' => NoLoss, Funded' => Funded,
         run' = run, \A p \in Requests : p # q => request'[p] = request[p], MessagesKept(d),
         status'[d] \in {"pending", "processing", "deleting"} => status'[d] = status[d],
         status[d] \in {"pending", "processing"} /\ NoLoss' /\ WillSend(q, d)
           => queue'[d] > 0 \/ WillSend(q, d)',
         status[d] = "deleting" /\ Funded' /\ WillSendPurge(q, d)
           => PurgeOwed(d)'
  PROVE  OwedInv(d)'
<1>1. \A v \in Workers : /\ WillClaim(v, d) => WillClaim(v, d)'
                         /\ Ingests(v, d) => Ingests(v, d)'
                         /\ Purges(v, d) => Purges(v, d)'
  BY DEF WillClaim, Ingests, Purges
<1>2. \A p \in Requests : p # q => /\ WillSend(p, d) => WillSend(p, d)'
                                   /\ WillSendPurge(p, d) => WillSendPurge(p, d)'
  BY DEF WillSend, WillSendPurge
<1>3. queue'[d] > 0 \/ WillSend(q, d)' => PendingOwed(d)' /\ IngestionOwed(d)'
  BY DEF PendingOwed, IngestionOwed, WillSend
<1>4. /\ PendingOwed(d) => PendingOwed(d)' \/ WillSend(q, d)
      /\ IngestionOwed(d) => IngestionOwed(d)' \/ WillSend(q, d)
      /\ PurgeOwed(d) => PurgeOwed(d)' \/ WillSendPurge(q, d)
  BY <1>1, <1>2 DEF PendingOwed, IngestionOwed, PurgeOwed, WillClaim, Ingests, Purges,
                    WillSend, WillSendPurge, MessagesKept
<1>5. QED
  BY <1>3, <1>4 DEF OwedInv

-----------------------------------------------------------------------------
(* Each step keeps what is owed. *)

LEMMA WorkOwed ==
  ASSUME TypeOK, TasksMatchSteps, NEW d \in Documents, OwedInv(d), NEW w \in Workers, Work(w),
         UNCHANGED <<queue, purgeQueue, request, faults>>
  PROVE  OwedInv(d)'
<1>1. /\ run \in [Workers -> Runs] /\ run[w] \in Runs
      /\ status \in [Documents -> Statuses \union NoRow]
  BY DEF TypeOK, DocumentTypeOK
<1>2. (NoLoss' => NoLoss) /\ (Funded' => Funded) /\ MessagesKept(d) /\ request' = request
  BY DEF NoLoss, Funded, MessagesKept
<1>3. /\ run[w].step \in ClaimSteps \union Stages =>
            run[w].task = "ingest" /\ ~Purges(w, d)
      /\ run[w].step \in PurgeSteps => run[w].task = "purge" /\ ~Ingests(w, d) /\ ~WillClaim(w, d)
  BY DEF TasksMatchSteps, Purges, Ingests, WillClaim, ClaimSteps, Stages, PurgeSteps
<1>4. CASE Claim(w)
  <2> DEFINE r == [run[w] EXCEPT !.step = "open", !.claim = attempts[run[w].document] + 1]
  <2>1. r.step = "open" /\ r.document = run[w].document /\ r.task = run[w].task
    BY <1>1 DEF Runs
  <2>2. run' = [run EXCEPT ![w] = r]
    BY <1>4 DEF Claim
  <2> HIDE DEF r
  <2>3. run'[w] = r /\ \A v \in Workers : v # w => run'[v] = run[v]
    BY <1>1, <2>2
  <2>4. run[w].step = "claim" /\ run[w].task = "ingest" /\ ~Purges(w, d)
    BY <1>3, <1>4 DEF Claim, ClaimSteps
  <2>5. CASE run[w].document = d
    <3>1. Ingests(w, d)'
      BY <2>1, <2>3, <2>4, <2>5 DEF Ingests, ClaimSteps
    <3>2. status'[d] = "processing" /\ IngestionOwed(d)'
      BY <1>1, <1>4, <2>5, <3>1 DEF Claim, IngestionOwed, Ingests
    <3>3. QED
      BY <3>2 DEF OwedInv
  <2>6. CASE run[w].document # d
    <3>1. ~WillClaim(w, d) /\ ~Ingests(w, d)
      BY <2>6 DEF WillClaim, Ingests
    <3>2. status'[d] = status[d]
      BY <1>1, <1>4, <2>6 DEF Claim
    <3>3. QED
      BY <1>2, <2>3, <2>4, <3>1, <3>2, WorkerKeeps
  <2>7. QED
    BY <2>5, <2>6
<1>5. ASSUME NEW step, GoTo(w, step)
      PROVE  /\ \A v \in Workers : v # w => run'[v] = run[v]
             /\ WillClaim(w, d) \/ Ingests(w, d) =>
                  /\ step \in ClaimSteps \union Stages \union {"busy"} =>
                       Ingests(w, d)' /\ IngestionOwed(d)'
                  /\ step = "claim" => PendingOwed(d)'
             /\ Purges(w, d) /\ step \in PurgeSteps \union {"purgeRetry"} => PurgeOwed(d)'
  <2>1. /\ run'[w].step = step
        /\ run'[w].document = run[w].document
        /\ run'[w].task = run[w].task
        /\ \A v \in Workers : v # w => run'[v] = run[v]
    BY <1>1, <1>5, GoToEffect
  <2>2. WillClaim(w, d) \/ Ingests(w, d) =>
          (step \in ClaimSteps \union Stages \union {"busy"} => Ingests(w, d)')
    BY <2>1 DEF WillClaim, Ingests
  <2>3. WillClaim(w, d) \/ Ingests(w, d) => (step = "claim" => PendingOwed(d)')
    BY <2>1 DEF WillClaim, Ingests, PendingOwed
  <2>4. Ingests(w, d)' => IngestionOwed(d)'
    BY DEF Ingests, IngestionOwed
  <2>5. Purges(w, d) /\ step \in PurgeSteps \union {"purgeRetry"} => PurgeOwed(d)'
    BY <2>1 DEF Purges, PurgeOwed
  <2>6. QED
    BY <2>1, <2>2, <2>3, <2>4, <2>5
<1>6. CASE ClaimRefused(w)
  <2>1. GoTo(w, "recheck") /\ status' = status /\ run[w].step \in ClaimSteps
    BY <1>6 DEF ClaimRefused, rowVars, ClaimSteps
  <2>2. WillClaim(w, d) => status[d] # "pending"
    BY <1>6 DEF ClaimRefused, Claimable, WillClaim
  <2>3. QED
    BY <1>2, <1>3, <1>5, <2>1, <2>2, WorkerKeeps DEF ClaimSteps
<1>7. CASE Recheck(w)
  <2>1. status' = status /\ run[w].step = "recheck" /\ run[w].step \in ClaimSteps
    BY <1>7 DEF Recheck, rowVars, ClaimSteps
  <2>2. ~WillClaim(w, d)
    BY <2>1 DEF WillClaim
  <2>3. PICK step : GoTo(w, step)
                    /\ (status[run[w].document] = "processing" => step = "busy")
    BY <1>7 DEF Recheck
  <2>4. Ingests(w, d) /\ status[d] = "processing" => step = "busy"
    BY <2>3 DEF Ingests
  <2>5. QED
    BY <1>2, <1>3, <1>5, <2>1, <2>2, <2>3, <2>4, WorkerKeeps
<1>8. CASE Open(w)
  <2>1. status' = status /\ run[w].step = "open" /\ run[w].step \in ClaimSteps
    BY <1>8 DEF Open, ClaimSteps
  <2>2. ~WillClaim(w, d)
    BY <2>1 DEF WillClaim
  <2>3. PICK step : GoTo(w, step) /\ (HasRow(run[w].document) => step = "extract")
    BY <1>8 DEF Open
  <2>4. Ingests(w, d) /\ status[d] = "processing" => step \in Stages
    BY <2>3 DEF Ingests, HasRow, NoRow, Stages
  <2>5. QED
    BY <1>2, <1>3, <1>5, <2>1, <2>2, <2>3, <2>4, WorkerKeeps
<1>9. CASE FinishStage(w)
  <2>1. run[w].step \in Stages \ {"persist"} /\ status' = status
    BY <1>9 DEF FinishStage
  <2>2. PICK step \in Stages : GoTo(w, step)
    BY <1>9, <2>1, NextStageType DEF FinishStage
  <2>3. ~WillClaim(w, d)
    BY <2>1 DEF WillClaim, Stages
  <2>4. QED
    BY <1>2, <1>3, <1>5, <2>1, <2>2, <2>3, WorkerKeeps
<1>10. CASE FailStage(w)
  <2>1. run[w].step \in Stages /\ GoTo(w, "failed")
    BY <1>10 DEF FailStage
  <2>2. run[w].document \in Documents
    BY <2>1, StepsType DEF TypeOK, DocumentTypeOK
  <2>3. ~WillClaim(w, d)
    BY <2>1 DEF WillClaim, Stages
  <2>4. CASE run[w].document = d
    <3>1. status'[d] # "processing" /\ (status[d] # "processing" => status'[d] = status[d])
          /\ (status[d] = "processing" => status'[d] = "failed")
      BY <1>1, <1>10, <2>4 DEF FailStage, MarkFailed
    <3>2. CASE status[d] = "processing"
      BY <3>1, <3>2 DEF OwedInv
    <3>3. CASE status[d] # "processing"
      BY <1>2, <1>3, <1>5, <2>1, <2>3, <3>1, <3>3, WorkerKeeps
    <3>4. QED
      BY <3>2, <3>3
  <2>5. CASE run[w].document # d
    <3>1. status'[d] = status[d] /\ ~Ingests(w, d)
      BY <1>1, <1>10, <2>2, <2>5 DEF FailStage, MarkFailed, Ingests
    <3>2. QED
      BY <1>2, <1>3, <1>5, <2>1, <2>3, <3>1, WorkerKeeps
  <2>6. QED
    BY <2>4, <2>5
<1>11. CASE Publish(w) \/ PublishRefused(w)
  <2>1. PICK step : GoTo(w, step)
    BY <1>11 DEF Publish, PublishRefused
  <2>2. run[w].step = "persist" /\ run[w].step \in Stages
    BY <1>11 DEF Publish, PublishRefused, Stages
  <2>3. ~WillClaim(w, d)
    BY <2>2 DEF WillClaim
  <2>4. run[w].document = d => status'[d] # "processing"
    BY <1>1, <1>11 DEF Publish, PublishRefused, rowVars
  <2>5. status'[d] = status[d] \/ status'[d] = "ready"
    BY <1>1, <1>11 DEF Publish, PublishRefused, rowVars
  <2>6. status'[d] = "processing" => ~Ingests(w, d)
    BY <2>4 DEF Ingests
  <2>7. CASE status'[d] = "processing"
    BY <1>2, <1>3, <1>5, <2>1, <2>2, <2>3, <2>5, <2>6, <2>7, WorkerKeeps
  <2>8. CASE status'[d] # "processing" /\ status'[d] = status[d]
    BY <1>2, <1>3, <1>5, <2>1, <2>2, <2>3, <2>8, WorkerKeeps
  <2>9. CASE status'[d] = "ready"
    BY <2>9 DEF OwedInv
  <2>10. QED
    BY <2>5, <2>7, <2>8, <2>9
<1>12. CASE StartPurge(w)
  <2>1. status' = status /\ run[w].step \in PurgeSteps
    BY <1>12 DEF StartPurge, rowVars, PurgeSteps
  <2>2. PICK step : GoTo(w, step) /\ (status[run[w].document] = "deleting" => step = "removeFile")
    BY <1>12 DEF StartPurge
  <2>3. Purges(w, d) /\ status[d] = "deleting" => step \in PurgeSteps
    BY <2>2 DEF Purges, PurgeSteps
  <2>4. QED
    BY <1>2, <1>3, <1>5, <2>1, <2>2, <2>3, WorkerKeeps
<1>13. CASE RemoveFile(w)
  <2>1. status' = status /\ run[w].step \in PurgeSteps /\ GoTo(w, "deleteRow")
        /\ "deleteRow" \in PurgeSteps
    BY <1>13 DEF RemoveFile, rowVars, PurgeSteps
  <2>2. QED
    BY <1>2, <1>3, <1>5, <2>1, WorkerKeeps
<1>14. CASE DeleteRow(w)
  <2>1. run[w].step \in PurgeSteps /\ GoTo(w, "purgeDone")
    BY <1>14 DEF DeleteRow, PurgeSteps
  <2>2. status'[d] = status[d] \/ status'[d] = "purged"
    BY <1>1, <1>14 DEF DeleteRow
  <2>3. run[w].document = d => status'[d] # "deleting"
    BY <1>1, <1>14 DEF DeleteRow
  <2>4. CASE status'[d] = "deleting"
    <3>1. ~Purges(w, d)
      BY <2>3, <2>4 DEF Purges
    <3>2. QED
      BY <1>2, <1>3, <1>5, <2>1, <2>2, <2>4, <3>1, WorkerKeeps
  <2>5. CASE status'[d] # "deleting" /\ status'[d] = status[d]
    BY <1>2, <1>3, <1>5, <2>1, <2>5, WorkerKeeps
  <2>6. CASE status'[d] = "purged"
    BY <2>6 DEF OwedInv
  <2>7. QED
    BY <2>2, <2>4, <2>5, <2>6
<1>15. QED
  BY <1>4, <1>6, <1>7, <1>8, <1>9, <1>10, <1>11, <1>12, <1>13, <1>14 DEF Work

LEMMA WorkerFaultsOwed ==
  ASSUME TypeOK, TasksMatchSteps, NEW d \in Documents, OwedInv(d), NEW w \in Workers,
         WorkerFaults(w), UNCHANGED <<queue, purgeQueue, request>>,
         NoLoss' => NoLoss, Funded' => Funded
  PROVE  OwedInv(d)'
<1>1. /\ run \in [Workers -> Runs]
      /\ status \in [Documents -> Statuses \union NoRow]
  BY DEF TypeOK, DocumentTypeOK
<1>2. MessagesKept(d) /\ request' = request
  BY DEF MessagesKept
<1>3. CASE (FailClaiming(w) \/ FailUnrecorded(w)) /\ Fault("database")
  <2>1. faults'["database"] > 0
    BY <1>3, FaultCounted DEF FaultKinds
  <2>2. ~NoLoss'
    BY <2>1 DEF NoLoss
  <2>3. PICK step : GoTo(w, step)
    BY <1>3 DEF FailClaiming, FailUnrecorded
  <2>4. \A v \in Workers : v # w => run'[v] = run[v]
    BY <1>1, <2>3, GoToEffect
  <2>5. run[w].step \in ClaimSteps \union Stages
    BY <1>3 DEF FailClaiming, FailUnrecorded
  <2>6. ~Purges(w, d)
    BY <2>5 DEF Purges, ClaimSteps, Stages, PurgeSteps
  <2>7. status'[d] = status[d] \/ status'[d] = "failed"
    BY <1>1, <1>3 DEF FailClaiming, FailUnrecorded, MarkFailed, rowVars
  <2>8. CASE status'[d] = status[d]
    BY <1>2, <2>2, <2>4, <2>6, <2>8, WorkerKeeps
  <2>9. CASE status'[d] = "failed"
    BY <2>9 DEF OwedInv
  <2>10. QED
    BY <2>7, <2>8, <2>9
<1>4. CASE RemoveFileFails(w)
  <2>1. GoTo(w, "purgeRetry") /\ status' = status /\ run[w].step = "removeFile"
    BY <1>4 DEF RemoveFileFails, rowVars
  <2>2. /\ run'[w].step = "purgeRetry"
        /\ run'[w].document = run[w].document
        /\ run'[w].task = run[w].task
        /\ \A v \in Workers : v # w => run'[v] = run[v]
    BY <1>1, <2>1, GoToEffect
  <2>3. Purges(w, d) => PurgeOwed(d)'
    BY <2>2 DEF Purges, PurgeOwed
  <2>4. ~WillClaim(w, d) /\ ~Ingests(w, d)
    BY <2>1 DEF WillClaim, Ingests, ClaimSteps, Stages
  <2>5. QED
    BY <1>2, <2>1, <2>2, <2>3, <2>4, WorkerKeeps
<1>5. CASE PurgeLosesDatabase(w) /\ Fault("database")
  <2>1. faults'["database"] > 0
    BY <1>5, FaultCounted DEF FaultKinds
  <2>2. ~NoLoss' /\ ~Funded'
    BY <2>1 DEF NoLoss, Funded
  <2>3. PICK step : GoTo(w, step)
    BY <1>5 DEF PurgeLosesDatabase
  <2>4. \A v \in Workers : v # w => run'[v] = run[v]
    BY <1>1, <2>3, GoToEffect
  <2>5. status'[d] = status[d]
    BY <1>5 DEF PurgeLosesDatabase, rowVars
  <2>6. QED
    BY <1>2, <2>2, <2>4, <2>5, WorkerKeeps
<1>6. QED
  BY <1>3, <1>4, <1>5 DEF WorkerFaults

(* A message given back is owed again. *)
LEMMA GiveBackOwed ==
  ASSUME TypeOK, TasksMatchSteps, NEW d \in Documents, NEW w \in Workers,
         run[w].step # "idle", GiveBack(w)
  PROVE  /\ MessagesKept(d)
         /\ Ingests(w, d) \/ WillClaim(w, d) => PendingOwed(d)' /\ IngestionOwed(d)'
         /\ Purges(w, d) => PurgeOwed(d)'
<1>1. run[w].document \in Documents /\ run[w].retries \in 0..MaxPurgeRetries
  BY DEF TypeOK, DocumentTypeOK, Runs
<1>2. CASE run[w].task = "ingest"
  <2>1. Send(run[w].document) /\ purgeQueue' = purgeQueue
    BY <1>2 DEF GiveBack
  <2>2. /\ queue'[run[w].document] > 0
        /\ \A e \in Documents : queue'[e] >= queue[e] /\ queue[e] \in Nat /\ queue'[e] \in Nat
    BY <1>1, <2>1, SendType DEF TypeOK
  <2>3. MessagesKept(d)
    BY <2>1, <2>2 DEF MessagesKept
  <2>4. Ingests(w, d) \/ WillClaim(w, d) => queue'[d] > 0
    BY <2>2 DEF Ingests, WillClaim
  <2>5. ~Purges(w, d)
    BY <1>2 DEF Purges
  <2>6. QED
    BY <2>3, <2>4, <2>5 DEF PendingOwed, IngestionOwed
<1>3. CASE run[w].task # "ingest"
  <2>1. SendPurge(run[w].document, run[w].retries) /\ queue' = queue
    BY <1>3 DEF GiveBack
  <2>2. /\ purgeQueue'[run[w].document][run[w].retries] > 0
        /\ \A e \in Documents, s \in 0..MaxPurgeRetries :
             purgeQueue'[e][s] >= purgeQueue[e][s] /\ purgeQueue[e][s] \in Nat
                                                  /\ purgeQueue'[e][s] \in Nat
    BY <1>1, <2>1, SendPurgeType DEF TypeOK
  <2>3. MessagesKept(d)
    BY <2>1, <2>2 DEF MessagesKept
  <2>4. Purges(w, d) => PurgeOwed(d)'
    BY <1>1, <2>2 DEF Purges, PurgeOwed
  <2>5. ~Ingests(w, d) /\ ~WillClaim(w, d)
    BY <1>3 DEF Ingests, WillClaim
  <2>6. QED
    BY <2>3, <2>4, <2>5
<1>4. QED
  BY <1>2, <1>3

LEMMA DeliverOwed ==
  ASSUME TypeOK, TasksMatchSteps, RetriesPaid, NEW d \in Documents, OwedInv(d),
         NEW w \in Workers, Deliver(w), NoLoss' => NoLoss, Funded' => Funded
  PROVE  OwedInv(d)'
<1>1. /\ run \in [Workers -> Runs]
      /\ queue \in [Documents -> Nat]
      /\ purgeQueue \in [Documents -> [0..MaxPurgeRetries -> Nat]]
  BY DEF TypeOK, DocumentTypeOK
<1>2. status' = status /\ request' = request
  BY DEF Deliver, Receive, ReceivePurge, Acknowledge, Reschedule, RescheduleFails,
         RetryPurge, WorkerCrash, Redeliver, documentVars, rowVars
<1>3. run' = [run EXCEPT ![w] = Idle] => \A v \in Workers : v # w => run'[v] = run[v]
  BY <1>1
<1>4. run[w] = Idle => ~WillClaim(w, d) /\ ~Ingests(w, d) /\ ~Purges(w, d)
  BY IdleType DEF WillClaim, Ingests, Purges, ClaimSteps, Stages, PurgeSteps
<1>5. ASSUME NEW e \in Documents, Receive(w, e) PROVE OwedInv(d)'
  <2>1. /\ run[w] = Idle
        /\ run'[w] = IngestionRun("ingest", e, DefaultVersion)
        /\ \A v \in Workers : v # w => run'[v] = run[v]
        /\ queue' = [queue EXCEPT ![e] = @ - 1]
        /\ purgeQueue' = purgeQueue
    BY <1>1, <1>5 DEF Receive
  <2>2. /\ run'[w].task = "ingest" /\ run'[w].step = "claim" /\ run'[w].document = e
    BY <2>1, IngestionRunType
  <2>3. CASE d = e
    <3>1. PendingOwed(d)' /\ IngestionOwed(d)'
      BY <2>2, <2>3 DEF PendingOwed, IngestionOwed, ClaimSteps
    <3>2. PurgeOwed(d) => PurgeOwed(d)'
      <4>1. \A v \in Workers : Purges(v, d) => Purges(v, d)'
        BY <1>4, <2>1 DEF Purges
      <4>2. QED
        BY <1>2, <2>1, <4>1 DEF PurgeOwed, Purges
    <3>3. QED
      BY <1>2, <3>1, <3>2 DEF OwedInv
  <2>4. CASE d # e
    <3>1. MessagesKept(d)
      BY <1>1, <2>1, <2>4 DEF MessagesKept
    <3>2. QED
      BY <1>2, <1>4, <2>1, <3>1, WorkerKeeps
  <2>5. QED
    BY <2>3, <2>4
<1>6. ASSUME NEW e \in Documents, ReceivePurge(w, e) PROVE OwedInv(d)'
  <2>1. PICK r \in 0..MaxPurgeRetries :
          /\ purgeQueue' = [purgeQueue EXCEPT ![e][r] = @ - 1]
          /\ run' = [run EXCEPT ![w] = PurgeRun(e, r)]
    BY <1>6 DEF ReceivePurge
  <2>2. /\ run[w] = Idle /\ queue' = queue
        /\ run'[w] = PurgeRun(e, r)
        /\ \A v \in Workers : v # w => run'[v] = run[v]
    BY <1>1, <1>6, <2>1 DEF ReceivePurge
  <2>3. /\ run'[w].task = "purge" /\ run'[w].step = "purge" /\ run'[w].document = e
    BY <2>2, PurgeRunType
  <2>4. CASE d = e
    <3>1. PurgeOwed(d)'
      BY <2>3, <2>4 DEF PurgeOwed, PurgeSteps
    <3>2. \A v \in Workers : /\ WillClaim(v, d) => WillClaim(v, d)'
                             /\ Ingests(v, d) => Ingests(v, d)'
      BY <1>4, <2>2 DEF WillClaim, Ingests
    <3>3. /\ PendingOwed(d) => PendingOwed(d)'
          /\ IngestionOwed(d) => IngestionOwed(d)'
      BY <1>2, <2>2, <3>2 DEF PendingOwed, IngestionOwed, WillClaim, Ingests
    <3>4. QED
      BY <1>2, <3>1, <3>3 DEF OwedInv
  <2>5. CASE d # e
    <3>1. purgeQueue'[d] = purgeQueue[d]
      BY <1>1, <2>1, <2>5
    <3>2. MessagesKept(d)
      BY <2>2, <3>1 DEF MessagesKept
    <3>3. QED
      BY <1>2, <1>4, <2>2, <3>2, WorkerKeeps
  <2>6. QED
    BY <2>4, <2>5
<1>7. CASE Acknowledge(w)
  <2>1. run' = [run EXCEPT ![w] = Idle] /\ MessagesKept(d)
    BY <1>7 DEF Acknowledge, MessagesKept
  <2>2. ~WillClaim(w, d) /\ ~Ingests(w, d) /\ ~Purges(w, d)
    BY <1>7 DEF Acknowledge, IngestionOutcomes, WillClaim, Ingests, Purges, ClaimSteps,
                Stages, PurgeSteps
  <2>3. QED
    BY <1>2, <1>3, <2>1, <2>2, WorkerKeeps
<1>8. CASE Reschedule(w)
  <2>1. run' = [run EXCEPT ![w] = Idle] /\ run[w].step = "busy" /\ Send(run[w].document)
        /\ purgeQueue' = purgeQueue
    BY <1>8 DEF Reschedule
  <2>2. run[w].document \in Documents
    BY <2>1 DEF TypeOK, DocumentTypeOK
  <2>3. /\ queue'[run[w].document] > 0
        /\ \A e \in Documents : queue'[e] >= queue[e] /\ queue[e] \in Nat /\ queue'[e] \in Nat
    BY <1>1, <2>1, <2>2, SendType
  <2>4. MessagesKept(d)
    BY <2>1, <2>3 DEF MessagesKept
  <2>5. Ingests(w, d) => IngestionOwed(d)'
    BY <2>3 DEF Ingests, IngestionOwed
  <2>6. ~WillClaim(w, d) /\ ~Purges(w, d)
    BY <2>1 DEF WillClaim, Purges, PurgeSteps
  <2>7. QED
    BY <1>2, <1>3, <2>1, <2>4, <2>5, <2>6, WorkerKeeps
<1>9. CASE RescheduleFails(w)
  <2>1. run' = [run EXCEPT ![w] = Idle] /\ run[w].step = "busy" /\ MessagesKept(d)
    BY <1>9 DEF RescheduleFails, MessagesKept
  <2>2. faults'["broker"] > 0
    BY <1>9, FaultCounted DEF RescheduleFails, FaultKinds
  <2>3. ~NoLoss'
    BY <2>2 DEF NoLoss
  <2>4. ~Purges(w, d)
    BY <2>1 DEF Purges, PurgeSteps
  <2>5. QED
    BY <1>2, <1>3, <2>1, <2>3, <2>4, WorkerKeeps
<1>10. CASE RetryPurge(w)
  <2>1. run' = [run EXCEPT ![w] = Idle] /\ run[w].step = "purgeRetry" /\ queue' = queue
        /\ faults' = faults
    BY <1>10 DEF RetryPurge
  <2>2. ~WillClaim(w, d) /\ ~Ingests(w, d)
    BY <2>1 DEF WillClaim, Ingests, ClaimSteps, Stages
  <2>3. run[w].document \in Documents /\ run[w].retries \in 0..MaxPurgeRetries
        /\ run[w].retries \in Nat
    BY <2>1, PurgeRetryAssumption DEF TypeOK, DocumentTypeOK, Runs
  <2>4. CASE run[w].retries < MaxPurgeRetries
    <3>1. run[w].retries + 1 \in 0..MaxPurgeRetries
      BY <2>3, <2>4, PurgeRetryAssumption
    <3>2. SendPurge(run[w].document, run[w].retries + 1)
      BY <1>10, <2>4 DEF RetryPurge
    <3> DEFINE n == run[w].retries + 1
    <3> HIDE DEF n
    <3>3. /\ purgeQueue' \in [Documents -> [0..MaxPurgeRetries -> Nat]]
          /\ purgeQueue'[run[w].document][n] > 0
          /\ \A e \in Documents, s \in 0..MaxPurgeRetries :
               purgeQueue'[e][s] >= purgeQueue[e][s]
      <4>1. n \in 0..MaxPurgeRetries /\ SendPurge(run[w].document, n)
        BY <3>1, <3>2 DEF n
      <4>2. QED
        BY <1>1, <2>3, <4>1, SendPurgeType
    <3>4. MessagesKept(d)
      <4>1. \A s \in 0..MaxPurgeRetries : purgeQueue[d][s] \in Nat /\ purgeQueue'[d][s] \in Nat
        BY <1>1, <3>3
      <4>2. QED
        BY <2>1, <3>3, <4>1 DEF MessagesKept
    <3>5. Purges(w, d) => PurgeOwed(d)'
      BY <3>1, <3>3 DEF Purges, PurgeOwed, n
    <3>6. QED
      BY <1>2, <1>3, <2>1, <2>2, <3>4, <3>5, WorkerKeeps
  <2>5. CASE ~(run[w].retries < MaxPurgeRetries)
    <3>1. MessagesKept(d)
      BY <1>10, <2>1, <2>5 DEF RetryPurge, MessagesKept
    <3>2. run[w].retries < faults["storage"] + faults["database"]
      BY <2>1 DEF RetriesPaid, Paid
    <3>3. ~Funded'
      <4>1. faults["storage"] \in Nat
        BY DEF TypeOK, FaultKinds
      <4>2. QED
        BY <2>1, <2>3, <2>5, <3>2, <4>1, PurgeRetryAssumption DEF Funded
    <3>4. QED
      BY <1>2, <1>3, <2>1, <2>2, <3>1, <3>3, WorkerKeeps
  <2>6. QED
    BY <2>4, <2>5
<1>11. CASE WorkerCrash(w)
  <2>1. run' = [run EXCEPT ![w] = Idle] /\ run[w].step # "idle" /\ GiveBack(w)
    BY <1>11 DEF WorkerCrash
  <2>2. QED
    BY <1>2, <1>3, <2>1, GiveBackOwed, WorkerKeeps
<1>12. CASE Redeliver(w)
  <2>1. run' = run /\ run[w].step # "idle" /\ GiveBack(w)
    BY <1>12 DEF Redeliver, documentVars
  <2>2. QED
    BY <1>2, <2>1, GiveBackOwed, WorkerKeeps
<1>13. QED
  BY <1>5, <1>6, <1>7, <1>8, <1>9, <1>10, <1>11, <1>12, Zenon DEF Deliver

LEMMA ServeOwed ==
  ASSUME TypeOK, NEW d \in Documents, OwedInv(d), NEW q \in Requests, Serve(q),
         NoLoss' => NoLoss, Funded' => Funded
  PROVE  OwedInv(d)'
<1> DEFINE e == request[q].document
<1>1. /\ status \in [Documents -> Statuses \union NoRow]
      /\ request \in [Requests -> RequestStates] /\ request[q] \in RequestStates
      /\ queue \in [Documents -> Nat]
      /\ purgeQueue \in [Documents -> [0..MaxPurgeRetries -> Nat]]
  BY DEF TypeOK, DocumentTypeOK
<1>2. request[q].phase \notin {"free", "done"} => e \in Documents
  BY DEF TypeOK
<1>4. run' = run
  BY DEF Serve, CreateDocument, RetryRead, DeleteRead, RetryCommit, Refresh,
         EnqueueIngestion, EnqueueIngestionFails, DeleteCommit, EnqueuePurge,
         EnqueuePurgeFails, ApiCrash, documentVars
<1>5. UNCHANGED <<queue, purgeQueue>> => MessagesKept(d)
  BY DEF MessagesKept
<1>6. ASSUME NEW r, request' = [request EXCEPT ![q] = r]
      PROVE  request'[q] = r /\ \A p \in Requests : p # q => request'[p] = request[p]
  BY <1>1, <1>6
<1>7. ASSUME NEW p, request' = [request EXCEPT ![q].phase = p]
      PROVE  /\ request'[q].phase = p /\ request'[q].document = request[q].document
             /\ \A o \in Requests : o # q => request'[o] = request[o]
  <2> DEFINE r == [request[q] EXCEPT !.phase = p]
  <2>1. r.phase = p /\ r.document = request[q].document
    BY <1>1 DEF RequestStates
  <2>2. request' = [request EXCEPT ![q] = r]
    BY <1>7
  <2> HIDE DEF r
  <2>3. QED
    BY <1>6, <2>1, <2>2
<1>8. Finish(q) => \A p \in Requests : p # q => request'[p] = request[p]
  BY <1>6 DEF Finish
<1>9. request[q].phase \notin {"refresh", "enqueue"} => ~WillSend(q, d) /\ ~WillSendPurge(q, d)
  BY DEF WillSend, WillSendPurge
<1>10. ASSUME NEW c \in Documents, CreateDocument(q, c) PROVE OwedInv(d)'
  <2> DEFINE r == [Free EXCEPT !.phase = "refresh", !.document = c]
  <2>1. r.phase = "refresh" /\ r.document = c
    BY DEF Free
  <2>2. request' = [request EXCEPT ![q] = r]
    BY <1>10 DEF CreateDocument
  <2> HIDE DEF r
  <2>3. Kind[q] = "create" /\ request[q].phase = "free" /\ UNCHANGED <<queue, purgeQueue>>
        /\ status' = [status EXCEPT ![c] = "pending"]
    BY <1>10 DEF CreateDocument
  <2>4. CASE c = d
    <3>1. WillSend(q, d)'
      BY <1>6, <2>1, <2>2, <2>3, <2>4 DEF WillSend
    <3>2. status'[d] = "pending" /\ PendingOwed(d)'
      BY <1>1, <2>3, <2>4, <3>1 DEF PendingOwed, WillSend
    <3>3. QED
      BY <3>2 DEF OwedInv
  <2>5. CASE c # d
    <3>1. status'[d] = status[d]
      BY <1>1, <2>3, <2>5
    <3>2. QED
      BY <1>4, <1>5, <1>6, <1>9, <2>2, <2>3, <3>1, RequestKeeps
  <2>6. QED
    BY <2>4, <2>5
<1>11. ASSUME NEW c \in Documents, RetryRead(q, c) \/ DeleteRead(q, c) PROVE OwedInv(d)'
  <2>1. /\ request[q].phase = "free" /\ UNCHANGED <<queue, purgeQueue>> /\ status' = status
        /\ \E r : request' = [request EXCEPT ![q] = r]
    BY <1>11 DEF RetryRead, DeleteRead, documentVars, rowVars
  <2>2. \A p \in Requests : p # q => request'[p] = request[p]
    BY <1>6, <2>1
  <2>3. QED
    BY <1>4, <1>5, <1>9, <2>1, <2>2, RequestKeeps
<1>12. CASE RetryCommit(q)
  <2>1. /\ request[q].phase = "commit" /\ e \in Documents /\ Kind[q] = "retry"
        /\ UNCHANGED <<queue, purgeQueue>>
    BY <1>2, <1>12 DEF RetryCommit
  <2>2. CASE HasRow(e)
    <3>1. request' = [request EXCEPT ![q].phase = "refresh"]
          /\ status' = [status EXCEPT ![e] = "pending"]
      BY <1>12, <2>2 DEF RetryCommit
    <3>2. CASE e = d
      <4>1. WillSend(q, d)'
        BY <1>7, <2>1, <3>1, <3>2 DEF WillSend
      <4>2. status'[d] = "pending" /\ PendingOwed(d)'
        BY <1>1, <3>1, <3>2, <4>1 DEF PendingOwed, WillSend
      <4>3. QED
        BY <4>2 DEF OwedInv
    <3>3. CASE e # d
      <4>1. status'[d] = status[d]
        BY <1>1, <3>1, <3>3
      <4>2. QED
        BY <1>4, <1>5, <1>7, <1>9, <2>1, <3>1, <4>1, RequestKeeps
    <3>4. QED
      BY <3>2, <3>3
  <2>3. CASE ~HasRow(e)
    <3>1. Finish(q) /\ status' = status
      BY <1>12, <2>3 DEF RetryCommit
    <3>2. QED
      BY <1>4, <1>5, <1>8, <1>9, <2>1, <3>1, RequestKeeps
  <2>4. QED
    BY <2>2, <2>3
<1>13. CASE Refresh(q)
  <2>1. /\ request[q].phase = "refresh" /\ e \in Documents
        /\ UNCHANGED <<queue, purgeQueue>> /\ status' = status
    BY <1>2, <1>13 DEF Refresh, documentVars, rowVars
  <2>2. ~WillSendPurge(q, d)
    BY <2>1 DEF WillSendPurge
  <2>3. CASE HasRow(e)
    <3> DEFINE r == [request[q] EXCEPT !.phase = "enqueue", !.seen = status[e],
                                       !.error = safeError[e]]
    <3>1. r.phase = "enqueue" /\ r.document = e
      BY <1>1 DEF RequestStates
    <3>2. request' = [request EXCEPT ![q] = r]
      BY <1>13, <2>3 DEF Refresh
    <3> HIDE DEF r
    <3>3. WillSend(q, d) => WillSend(q, d)'
      BY <1>6, <3>1, <3>2 DEF WillSend
    <3>4. QED
      BY <1>4, <1>5, <1>6, <2>1, <2>2, <3>2, <3>3, RequestKeeps
  <2>4. CASE ~HasRow(e)
    <3>1. Finish(q)
      BY <1>13, <2>4 DEF Refresh
    <3>2. WillSend(q, d) => status[d] \notin {"pending", "processing"}
      BY <2>4 DEF WillSend, HasRow, NoRow
    <3>3. QED
      BY <1>4, <1>5, <1>8, <2>1, <2>2, <3>1, <3>2, RequestKeeps
  <2>5. QED
    BY <2>3, <2>4
<1>14. CASE EnqueueIngestion(q)
  <2>1. /\ Send(e) /\ e \in Documents /\ Finish(q) /\ Kind[q] # "delete"
        /\ purgeQueue' = purgeQueue /\ status' = status
    BY <1>2, <1>14 DEF EnqueueIngestion, documentVars, rowVars
  <2>2. /\ queue'[e] > 0
        /\ \A c \in Documents : queue'[c] >= queue[c] /\ queue[c] \in Nat /\ queue'[c] \in Nat
    BY <1>1, <2>1, SendType
  <2>3. MessagesKept(d)
    BY <2>1, <2>2 DEF MessagesKept
  <2>4. ~WillSendPurge(q, d)
    BY <2>1 DEF WillSendPurge
  <2>5. WillSend(q, d) => queue'[d] > 0
    BY <2>2 DEF WillSend
  <2>6. QED
    BY <1>4, <1>8, <2>1, <2>3, <2>4, <2>5, RequestKeeps
<1>15. CASE EnqueueIngestionFails(q)
  <2>1. /\ Finish(q) /\ Kind[q] # "delete" /\ Fault("broker") /\ UNCHANGED <<queue, purgeQueue>>
    BY <1>15 DEF EnqueueIngestionFails
  <2>2. faults'["broker"] > 0
    BY <2>1, FaultCounted DEF FaultKinds
  <2>3. ~NoLoss' /\ ~Funded'
    BY <2>2 DEF NoLoss, Funded
  <2>4. QED
    BY <2>3 DEF OwedInv
<1>16. CASE DeleteCommit(q)
  <2>1. /\ request[q].phase = "commit" /\ e \in Documents /\ Kind[q] = "delete"
        /\ UNCHANGED <<queue, purgeQueue>>
    BY <1>2, <1>16 DEF DeleteCommit
  <2>2. CASE HasRow(e)
    <3>1. request' = [request EXCEPT ![q].phase = "enqueue"]
          /\ status' = [status EXCEPT ![e] = "deleting"]
      BY <1>16, <2>2 DEF DeleteCommit
    <3>2. CASE e = d
      <4>1. WillSendPurge(q, d)'
        BY <1>7, <2>1, <3>1, <3>2 DEF WillSendPurge
      <4>2. status'[d] = "deleting" /\ PurgeOwed(d)'
        BY <1>1, <3>1, <3>2, <4>1 DEF PurgeOwed, WillSendPurge
      <4>3. QED
        BY <4>2 DEF OwedInv
    <3>3. CASE e # d
      <4>1. status'[d] = status[d]
        BY <1>1, <3>1, <3>3
      <4>2. QED
        BY <1>4, <1>5, <1>7, <1>9, <2>1, <3>1, <4>1, RequestKeeps
    <3>4. QED
      BY <3>2, <3>3
  <2>3. CASE ~HasRow(e)
    <3>1. Finish(q) /\ status' = status
      BY <1>16, <2>3 DEF DeleteCommit
    <3>2. QED
      BY <1>4, <1>5, <1>8, <1>9, <2>1, <3>1, RequestKeeps
  <2>4. QED
    BY <2>2, <2>3
<1>17. CASE EnqueuePurge(q)
  <2>1. /\ SendPurge(e, 0) /\ e \in Documents /\ 0 \in 0..MaxPurgeRetries
        /\ Finish(q) /\ Kind[q] = "delete" /\ queue' = queue /\ status' = status
    BY <1>2, <1>17, PurgeRetryAssumption DEF EnqueuePurge, documentVars, rowVars
  <2>2. /\ purgeQueue' \in [Documents -> [0..MaxPurgeRetries -> Nat]]
        /\ purgeQueue'[e][0] > 0
        /\ \A c \in Documents, s \in 0..MaxPurgeRetries : purgeQueue'[c][s] >= purgeQueue[c][s]
    BY <1>1, <2>1, SendPurgeType
  <2>3. \A s \in 0..MaxPurgeRetries : purgeQueue[d][s] \in Nat /\ purgeQueue'[d][s] \in Nat
    BY <1>1, <2>2
  <2>4. MessagesKept(d)
    BY <2>1, <2>2, <2>3 DEF MessagesKept
  <2>5. WillSendPurge(q, d) => PurgeOwed(d)'
    BY <2>1, <2>2 DEF WillSendPurge, PurgeOwed
  <2>6. ~WillSend(q, d)
    BY <2>1 DEF WillSend
  <2>7. QED
    BY <1>4, <1>8, <2>1, <2>4, <2>5, <2>6, RequestKeeps
<1>18. CASE EnqueuePurgeFails(q) \/ ApiCrash(q)
  <2>1. Fault("broker") \/ Fault("api")
    BY <1>18 DEF EnqueuePurgeFails, ApiCrash
  <2>2. faults'["broker"] > 0 \/ faults'["api"] > 0
    BY <2>1, FaultCounted DEF FaultKinds
  <2>3. ~NoLoss' /\ ~Funded'
    BY <2>2 DEF NoLoss, Funded
  <2>4. QED
    BY <2>3 DEF OwedInv
<1>19. QED
  BY <1>10, <1>11, <1>12, <1>13, <1>14, <1>15, <1>16, <1>17, <1>18, Zenon DEF Serve

LEMMA StrandedStep ==
  ASSUME TypeOK, StrandedInv, [Next]_vars
  PROVE  StrandedInv'
<1>1. TasksMatchSteps /\ RetriesPaid /\ \A d \in Documents : OwedInv(d)
  BY StrandedSplit
<1>2. TasksMatchSteps' /\ RetriesPaid'
  BY <1>1, TasksStep, RetriesStep
<1>3. (NoLoss' => NoLoss) /\ (Funded' => Funded)
  BY LossGrows
<1>4. ASSUME NEW d \in Documents PROVE OwedInv(d)'
  <2>0. OwedInv(d)
    BY <1>1
  <2>1. ASSUME NEW w \in Workers, Work(w), UNCHANGED <<queue, purgeQueue, request, faults>>
        PROVE  OwedInv(d)'
    BY <1>1, <2>0, <2>1, WorkOwed
  <2>2. ASSUME NEW w \in Workers, WorkerFaults(w), UNCHANGED <<queue, purgeQueue, request>>
        PROVE  OwedInv(d)'
    BY <1>1, <1>3, <2>0, <2>2, WorkerFaultsOwed
  <2>3. ASSUME NEW w \in Workers, Deliver(w) PROVE OwedInv(d)'
    BY <1>1, <1>3, <2>0, <2>3, DeliverOwed
  <2>4. ASSUME NEW q \in Requests, Serve(q) PROVE OwedInv(d)'
    BY <1>3, <2>0, <2>4, ServeOwed
  <2>5. UNCHANGED <<status, run, queue, purgeQueue, request, faults>> => OwedInv(d)'
    BY <2>0 DEF OwedInv, NoLoss, Funded, PendingOwed, IngestionOwed, PurgeOwed
  <2>6. ASSUME NEW e \in Documents, BecomeStale(e), UNCHANGED <<queue, purgeQueue, request, faults>>
        PROVE  OwedInv(d)'
    BY <2>5, <2>6 DEF BecomeStale
  <2>7. CASE UNCHANGED vars
    BY <2>5, <2>7 DEF vars, documentVars, rowVars
  <2>8. QED
    BY <2>1, <2>2, <2>3, <2>4, <2>6, <2>7, Zenon DEF Next
<1>5. \A d : PendingOwed(d)' => IngestionOwed(d)'
  BY DEF PendingOwed, IngestionOwed, ClaimSteps
<1>6. QED
  BY <1>2, <1>4, <1>5 DEF StrandedInv, OwedInv, NothingStranded, NoLoss, Funded

(* Whatever workers die and messages are delivered twice: as long as no    *)
(* message, request or database is lost, and the file store fails at most  *)
(* max_retries times, there is somebody who will act on every Document     *)
(* that is Pending, Processing or Deleting.                                *)
THEOREM NobodyIsStranded == Spec => []NothingStranded
<1>1. Init => StrandedInv
  <2> SUFFICES ASSUME Init PROVE StrandedInv
    OBVIOUS
  <2>1. \A w \in Workers : run[w].step = "idle"
    BY IdleType DEF Init, DocumentInit
  <2>2. TasksMatchSteps
    BY <2>1, StepsDisjoint DEF TasksMatchSteps, IngestSteps, PurgingSteps
  <2>3. RetriesPaid
    BY <2>1, StepsDisjoint DEF RetriesPaid, Init, PurgingSteps, PurgeOutcomes
  <2>4. \A d \in Documents : OwedInv(d)
    BY DEF OwedInv, Init, DocumentInit
  <2>5. QED
    BY <2>2, <2>3, <2>4, StrandedSplit
<1>2. TypeOK /\ StrandedInv /\ [Next]_vars => StrandedInv'
  BY StrandedStep
<1>3. StrandedInv => NothingStranded
  BY DEF StrandedInv
<1>4. QED
  BY <1>1, <1>2, <1>3, TypeCorrect, PTL DEF Spec

=============================================================================
