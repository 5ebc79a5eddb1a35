--------------------------- MODULE ReindexProofs ---------------------------
(***************************************************************************)
(* What holds of Reindex for any number of Documents, jobs, workers,       *)
(* requests and faults.                                                    *)
(***************************************************************************)
EXTENDS Reindex, FiniteSetTheorems, WellFoundedInduction, TLAPS

USE DEF historyVars

Listed(j) == {d \in Documents : item[j][d].status # "none"}
Exists(j) == job[j].status # "absent"

(* TypeOK but for the counters, which take an argument of their own.       *)
Types ==
  /\ status \in [Documents -> Statuses]
  /\ chunks \in [Documents -> Versions \union {None}]
  /\ error \in [Documents -> Errors]
  /\ job \in [Jobs -> JobRecords]
  /\ item \in [Jobs -> [Documents -> ItemRecords]]
  /\ batches \in [Jobs -> Nat] /\ queue \in [Documents -> Nat]
  /\ worker \in [Workers -> WorkerStates]
  /\ request \in [Requests -> RequestStates]
  /\ lost \subseteq Jobs /\ shared \subseteq Documents /\ crossed \subseteq Documents
  /\ faults \in Nat

(* What a worker, a request or a message works on is there.                *)
Batching == {"claim", "commit", "finish", "record", "refresh", "continue",
             "pause", "pauseWrite"}
Ingesting == {"ingest", "work", "finish", "record"}

WorkerBound(w) ==
  /\ worker[w].step \in Batching => worker[w].job \in Jobs
  /\ worker[w].step \in Ingesting => worker[w].todo # {} /\ worker[w].version \in Versions
  /\ worker[w].step \notin Ingesting => worker[w].todo = {}
  /\ worker[w].step = "record" => worker[w].verdict \in Verdicts
  /\ worker[w].step = "idle" => worker[w] = Idle
  /\ worker[w].job = None => \A d, e \in worker[w].todo : d = e
  /\ worker[w].job \in Jobs => Exists(worker[w].job)

RetryPhases == {"commit", "refresh", "send", "dead"}

Bound ==
  /\ \A w \in Workers : WorkerBound(w)
  /\ \A q \in Requests :
       request[q].phase \in {"write", "enqueue", "giveUp"} =>
         /\ request[q].job \in Jobs /\ Exists(request[q].job)
         /\ request[q].phase = "write" => Kind[q] \in {"pause", "resume", "cancel"}
  /\ \A q \in Requests : request[q].phase \in RetryPhases =>
       \E d \in Documents : request[q].documents = {d}
  /\ \A j \in Jobs :
       /\ batches[j] > 0 => Exists(j)
       /\ ~Exists(j) => Listed(j) = {}

(* What a claim holds between its two steps.                               *)
WorkerLocks(w) ==
  worker[w].step = "commit" =>
    LET j == worker[w].job
        plan == worker[w].plan IN
    /\ DOMAIN plan.documents \subseteq DOMAIN plan.items
    /\ DOMAIN plan.items \subseteq Listed(j)
    /\ \A d \in DOMAIN plan.items : plan.items[d].status # "none"
    /\ \A d \in DOMAIN plan.documents :
         plan.documents[d] = "pending" => plan.items[d].status = "processing"
    /\ job[j].status \in Claimed
    /\ \A v \in Workers : Claiming(v, j) => v = w

Locks == \A w \in Workers : WorkerLocks(w)

Shape == Types /\ Bound /\ Locks

Assumptions ==
  /\ Documents \subseteq Nat /\ Jobs \subseteq Nat
  /\ BatchSize \in Nat \ {0} /\ MaxAttempts \in Nat \ {0}
  /\ MaxFaults \in Nat /\ IsFiniteSet(Documents)
  /\ Kind \in [Requests -> Kinds]
  /\ {Legacy, Hierarchical, DefaultVersion} \subseteq Versions
  /\ None \notin Jobs \union Versions

LEMMA Assumed == Assumptions
BY NumberAssumption, KindAssumption, VersionAssumption, NoneAssumption DEF Assumptions

-----------------------------------------------------------------------------
(* Operators.                                                              *)

(* Every set of numbers has a least member.                                *)
LEMMA MinIn ==
  ASSUME NEW S \in SUBSET Nat, S # {}
  PROVE  Min(S) \in S
<1> DEFINE Less == {ss \in Nat \X Nat : ss[1] < ss[2]}
<1>1. OpToRel(<, Nat) = Less
  BY Zenon DEF OpToRel
<1>2. PICK x \in S : \A y \in S : <<y, x>> \notin Less
  BY <1>1, NatLessThanWellFounded, WFMin, Zenon
<1>3. ASSUME NEW y \in S PROVE x <= y
  <2>1. x \in Nat /\ y \in Nat
    OBVIOUS
  <2>2. ~(y < x)
    BY <1>2, <2>1
  <2> QED
    BY <2>1, <2>2
<1> QED
  BY <1>3 DEF Min

LEMMA CurrentIn ==
  ASSUME Types, NEW w \in Workers, worker[w].todo # {}
  PROVE  Current(w) \in worker[w].todo /\ Current(w) \in Documents
<1>1. worker[w].todo \in SUBSET Documents
  BY DEF Types, WorkerStates
<1>2. Documents \subseteq Nat
  BY Assumed DEF Assumptions
<1> QED
  BY <1>1, <1>2, MinIn DEF Current

LEMMA IdleIsAState ==
  /\ NoPlan \in Plans /\ Idle \in WorkerStates
  /\ Free \in RequestStates /\ Done \in RequestStates
  /\ NoJob \in JobRecords /\ NoItem \in ItemRecords
<1>1. NoItem \in ItemRecords
  BY DEF NoItem, ItemRecords, ItemStatuses
<1>2. NoPlan \in Plans
  <2>1. [d \in {} |-> NoItem] \in Partly(ItemRecords)
    BY <1>1 DEF Partly
  <2>2. [d \in {} |-> "ready"] \in Partly({"pending", "ready"})
    BY DEF Partly
  <2> QED
    BY <2>1, <2>2 DEF NoPlan, Plans
<1>3. Idle \in WorkerStates
  BY <1>2 DEF Idle, WorkerStates, Steps
<1>4. Free \in RequestStates /\ Done \in RequestStates
  BY Assumed DEF Assumptions, Free, Done, RequestStates, Phases
<1>5. NoJob \in JobRecords
  BY Assumed DEF Assumptions, NoJob, JobRecords, JobStatuses
<1> QED
  BY <1>1, <1>2, <1>3, <1>4, <1>5

(* What a plan writes is written, the rest stays.                          *)
LEMMA WrittenType ==
  ASSUME NEW S, NEW old \in [Documents -> S], NEW new \in Partly(S)
  PROVE  Written(new, old) \in [Documents -> S]
BY DEF Partly, Written

LEMMA PlanFields ==
  ASSUME NEW plan \in Plans
  PROVE  /\ plan.items \in Partly(ItemRecords)
         /\ plan.documents \in Partly({"pending", "ready"})
         /\ DOMAIN plan.items \subseteq Documents
         /\ DOMAIN plan.documents \subseteq Documents
         /\ \A d \in DOMAIN plan.items : plan.items[d] \in ItemRecords
         /\ \A d \in DOMAIN plan.documents : plan.documents[d] \in {"pending", "ready"}
BY DEF Plans, Partly

(* A claim takes listed items, and writes a Document only with its item:   *)
(* pending when it starts the item, Ready when it gives a stale one back.  *)
(* What it takes and does not write is not waiting, nor being worked on.   *)
LEMMA PlanFacts ==
  ASSUME Types, NEW j \in Jobs
  PROVE  LET plan == ClaimPlan(j) IN
         /\ plan \in Plans
         /\ DOMAIN plan.documents \subseteq DOMAIN plan.items
         /\ DOMAIN plan.items \subseteq Listed(j)
         /\ \A d \in DOMAIN plan.items : plan.items[d].status # "none"
         /\ \A d \in DOMAIN plan.documents :
              plan.documents[d] = "pending" => plan.items[d].status = "processing"
         /\ \A d \in DOMAIN plan.items :
              plan.items[d].status = "processing" =>
                d \in DOMAIN plan.documents /\ plan.documents[d] = "pending"
         /\ \A d \in DOMAIN plan.items \ DOMAIN plan.documents :
              item[j][d].status = "processing" => status[d] \in {"ready", "deleting", "purged"}
<1> DEFINE stale == {d \in Where(j, {"processing"}) : item[j][d].aged}
           done == {d \in stale : Searchable(d, job[j].target)}
           restored == {d \in stale \ done : status[d] \in Callable}
           spent == {d \in stale \ done : Spent(j, d)}
           taken == FirstOf(Where(j, {"pending"}) \union (stale \ (done \union spent)),
                            BatchSize)
           started == {d \in taken : status[d] \in {"ready", "failed"} \/ d \in restored}
           after(d) ==
             CASE d \in started               -> "processing"
               [] d \in done                  -> "completed"
               [] d \in (spent \union taken) \ started -> "failed"
               [] OTHER                       -> "pending"
           tried(d) == item[j][d].attempts + IF d \in started THEN 1 ELSE 0
           items == [d \in stale \union taken |->
                       [status |-> after(d), attempts |-> tried(d), aged |-> FALSE]]
           documents == [d \in restored \union started |->
                           IF d \in started THEN "pending" ELSE "ready"]
<1>1. ClaimPlan(j) = [items |-> items, documents |-> documents]
  BY DEF ClaimPlan
<1>2. /\ stale \subseteq Documents /\ taken \subseteq Documents
      /\ \A d \in stale : item[j][d].status = "processing"
      /\ taken \subseteq stale \/ \A d \in taken \ stale : item[j][d].status = "pending"
  BY DEF Where, FirstOf
<1>3. \A d \in taken : item[j][d].status \in {"pending", "processing"}
  BY DEF Where, FirstOf
<1>4. restored \subseteq stale /\ started \subseteq taken
  OBVIOUS
<1>5. stale \union taken \subseteq Listed(j)
  BY <1>2, <1>3 DEF Listed
<1>6. ASSUME NEW d \in (stale \union taken) \ (restored \union started),
             item[j][d].status = "processing"
      PROVE  status[d] \in {"ready", "deleting", "purged"}
  <2>1. d \in stale /\ status[d] \in Statuses
    BY <1>2, <1>6 DEF Types
  <2>2. CASE d \in done
    BY <2>2 DEF Searchable
  <2>3. CASE d \notin done
    BY <2>1, <2>3, <1>6 DEF Callable, Statuses
  <2> QED
    BY <2>2, <2>3
<1>7. stale \union taken \subseteq Documents
  BY <1>2
<1>12. started \intersect done = {}
  BY DEF Where, FirstOf
<1> HIDE DEF stale, done, restored, spent, taken, started
<1>8. ASSUME NEW d \in stale \union taken
      PROVE  /\ after(d) \in {"processing", "completed", "failed", "pending"}
             /\ d \in started <=> after(d) = "processing"
  <2>1. d \in started => d \notin done
    BY <1>12
  <2> QED
    BY <2>1, Zenon
<1> HIDE DEF after
<1>11. ASSUME NEW d \in stale \union taken
      PROVE  [status |-> after(d), attempts |-> tried(d), aged |-> FALSE] \in ItemRecords
  <2>1. item[j][d] \in ItemRecords
    BY <1>7 DEF Types
  <2> QED
    BY <1>8, <2>1 DEF ItemRecords, ItemStatuses
<1>9. items \in Partly(ItemRecords) /\ documents \in Partly({"pending", "ready"})
  <2>1. DOMAIN items = stale \union taken /\ DOMAIN documents = restored \union started
    OBVIOUS
  <2>2. items \in [stale \union taken -> ItemRecords]
    BY <1>11
  <2>3. documents \in [restored \union started -> {"pending", "ready"}]
    OBVIOUS
  <2>4. stale \union taken \in SUBSET Documents /\ restored \union started \in SUBSET Documents
    BY <1>4, <1>7
  <2> HIDE DEF items, documents
  <2> QED
    BY <2>2, <2>3, <2>4 DEF Partly
<1>10. /\ DOMAIN documents \subseteq DOMAIN items
       /\ DOMAIN items \subseteq Listed(j)
       /\ \A d \in DOMAIN items : items[d].status # "none"
       /\ \A d \in DOMAIN documents :
            documents[d] = "pending" => items[d].status = "processing"
       /\ \A d \in DOMAIN items :
            items[d].status = "processing" =>
              d \in DOMAIN documents /\ documents[d] = "pending"
       /\ \A d \in DOMAIN items \ DOMAIN documents :
            item[j][d].status = "processing" => status[d] \in {"ready", "deleting", "purged"}
  BY <1>4, <1>5, <1>6, <1>8
<1> HIDE DEF items, documents
<1> QED
  BY <1>1, <1>9, <1>10 DEF Plans

(* Only Zenon expands a CASE.                                             *)
LEMMA VerdictType ==
  ASSUME NEW j, NEW d, NEW v
  PROVE  Verdict(j, d, v) \in {"completed", "pending", "failed"}
BY Zenon DEF Verdict

-----------------------------------------------------------------------------
(* What the steps of workers, requests and jobs write.                     *)

OnlyWorker(w) ==
  /\ worker' \in [Workers -> WorkerStates]
  /\ \A v \in Workers : v # w => worker'[v] = worker[v]

Keeps(w) ==
  /\ worker'[w].job = worker[w].job /\ worker'[w].todo = worker[w].todo
  /\ worker'[w].version = worker[w].version

Stands(w, step) == OnlyWorker(w) /\ worker'[w].step = step /\ Keeps(w)
Frees(w) == OnlyWorker(w) /\ worker'[w] = Idle
Enters(w, step, j) ==
  /\ OnlyWorker(w) /\ worker'[w].step = step /\ worker'[w].job = j
  /\ worker'[w].todo = {}
Leaves(w) ==
  \/ Frees(w) /\ worker[w].job = None
  \/ Stands(w, "finish") /\ worker[w].job # None
Advances(w) ==
  LET left == worker[w].todo \ {Current(w)} IN
  /\ OnlyWorker(w) /\ worker'[w].job = worker[w].job
  /\ worker'[w].todo = left /\ worker'[w].version = worker[w].version
  /\ worker'[w].step = IF left = {} THEN "refresh" ELSE "ingest"

LEMMA WorkerWritten ==
  ASSUME Types, NEW w \in Workers, NEW new \in WorkerStates,
         worker' = [worker EXCEPT ![w] = new]
  PROVE  OnlyWorker(w) /\ worker'[w] = new
BY DEF Types, OnlyWorker

LEMMA WorkerIsAState ==
  ASSUME Types, NEW w \in Workers
  PROVE  worker[w] \in WorkerStates
BY DEF Types

LEMMA GoToStands ==
  ASSUME Types, NEW w \in Workers, NEW s \in Steps, GoTo(w, s)
  PROVE  Stands(w, s) /\ worker'[w].plan = worker[w].plan
<1> DEFINE new == [worker[w] EXCEPT !.step = s]
<1>1. /\ new \in WorkerStates /\ new.step = s /\ new.job = worker[w].job
      /\ new.todo = worker[w].todo /\ new.version = worker[w].version
      /\ new.plan = worker[w].plan
  BY WorkerIsAState DEF WorkerStates
<1>2. worker' = [worker EXCEPT ![w] = new]
  BY DEF GoTo
<1> HIDE DEF new
<1> QED
  BY <1>1, <1>2, WorkerWritten DEF Stands, Keeps

LEMMA IdleFrees ==
  ASSUME Types, NEW w \in Workers, worker' = [worker EXCEPT ![w] = Idle]
  PROVE  Frees(w)
BY WorkerWritten, IdleIsAState DEF Frees

LEMMA AfterLeaves ==
  ASSUME Types, NEW w \in Workers, AfterIngestion(w)
  PROVE  Leaves(w)
<1>1. CASE worker[w].job = None
  <2>1. worker' = [worker EXCEPT ![w] = Idle]
    BY <1>1 DEF AfterIngestion
  <2> QED
    BY <1>1, <2>1, IdleFrees DEF Leaves
<1>2. CASE worker[w].job # None
  <2>1. GoTo(w, "finish") /\ "finish" \in Steps
    BY <1>2 DEF AfterIngestion, GoTo, Steps
  <2> QED
    BY <1>2, <2>1, GoToStands DEF Leaves
<1> QED
  BY <1>1, <1>2

LEMMA NextAdvances ==
  ASSUME Types, NEW w \in Workers, NextItem(w)
  PROVE  Advances(w)
<1> DEFINE left == worker[w].todo \ {Current(w)}
           step == IF left = {} THEN "refresh" ELSE "ingest"
           new == [worker[w] EXCEPT !.step = step, !.todo = left, !.verdict = None]
<1>1. step \in Steps
  BY DEF Steps
<1> HIDE DEF step
<1>2. /\ new \in WorkerStates /\ new.step = step /\ new.job = worker[w].job
      /\ new.todo = left /\ new.version = worker[w].version
  <2>1. worker[w] \in WorkerStates
    BY WorkerIsAState
  <2>2. left \subseteq Documents
    BY <2>1 DEF WorkerStates
  <2> HIDE DEF left
  <2> QED
    BY <1>1, <2>1, <2>2 DEF WorkerStates
<1>3. worker' = [worker EXCEPT ![w] = new]
  BY DEF NextItem, step
<1> HIDE DEF new
<1> QED
  BY <1>2, <1>3, WorkerWritten DEF Advances, step

LEMMA EntersStep ==
  ASSUME Types, NEW w \in Workers, NEW s \in Steps, NEW j \in Jobs,
         worker' = [worker EXCEPT ![w] = [Idle EXCEPT !.step = s, !.job = j]]
  PROVE  Enters(w, s, j)
<1> DEFINE new == [Idle EXCEPT !.step = s, !.job = j]
<1>1. new \in WorkerStates /\ new.step = s /\ new.job = j /\ new.todo = {}
  BY IdleIsAState DEF Idle, WorkerStates
<1> HIDE DEF new
<1> QED
  BY <1>1, WorkerWritten DEF Enters, new

(* One lemma per step of a worker.                                         *)
LEMMA TakeBatchEffect ==
  ASSUME Types, NEW w \in Workers, NEW j \in Jobs, TakeBatch(w, j)
  PROVE  Enters(w, "claim", j)
BY EntersStep DEF TakeBatch, Steps

LEMMA TakeIngestEffect ==
  ASSUME Types, NEW w \in Workers, NEW d \in Documents, TakeIngest(w, d)
  PROVE  /\ OnlyWorker(w) /\ worker'[w].step = "ingest" /\ worker'[w].job = None
         /\ worker'[w].todo = {d} /\ worker'[w].version \in Versions
<1> DEFINE new == [Idle EXCEPT !.step = "ingest", !.todo = {d}, !.version = DefaultVersion]
<1>1. /\ new \in WorkerStates /\ new.step = "ingest" /\ new.job = None
      /\ new.todo = {d} /\ new.version = DefaultVersion
  BY IdleIsAState, Assumed DEF Assumptions, Idle, WorkerStates, Steps
<1>2. worker' = [worker EXCEPT ![w] = new]
  BY DEF TakeIngest
<1> HIDE DEF new
<1> QED
  BY <1>1, <1>2, WorkerWritten, Assumed DEF Assumptions

LEMMA ClaimReadEffect ==
  ASSUME Types, Bound, NEW w \in Workers, ClaimRead(w)
  PROVE  LET j == worker[w].job IN
         /\ j \in Jobs
         /\ \/ Stands(w, "refresh") /\ job[j].status \notin Claimed
            \/ /\ Stands(w, "commit") /\ worker'[w].plan = ClaimPlan(j)
               /\ job[j].status \in Claimed
<1> DEFINE j == worker[w].job
<1>1. j \in Jobs
  BY DEF ClaimRead, Bound, WorkerBound, Batching
<1>2. CASE job[j].status \in Claimed
  <2> DEFINE plan == ClaimPlan(j)
             new == [worker[w] EXCEPT !.step = "commit", !.plan = plan]
  <2>1. plan \in Plans
    BY <1>1, PlanFacts
  <2>2. worker' = [worker EXCEPT ![w] = new]
    BY <1>2 DEF ClaimRead
  <2> HIDE DEF plan
  <2>3. /\ new \in WorkerStates /\ new.step = "commit" /\ new.job = worker[w].job
        /\ new.todo = worker[w].todo /\ new.version = worker[w].version
        /\ new.plan = plan
    BY <2>1, WorkerIsAState DEF WorkerStates, Steps
  <2> HIDE DEF new
  <2> QED
    BY <1>1, <1>2, <2>2, <2>3, WorkerWritten DEF Stands, Keeps, plan
<1>3. CASE job[j].status \notin Claimed
  <2>1. GoTo(w, "refresh") /\ "refresh" \in Steps
    BY <1>3 DEF ClaimRead, Steps
  <2> QED
    BY <1>1, <1>3, <2>1, GoToStands
<1> QED
  BY <1>2, <1>3

Begun(w) == {d \in DOMAIN worker[w].plan.items :
               worker[w].plan.items[d].status = "processing"}

(* A claim that reads what others are at marks it.                         *)
LEMMA ClaimReadMarks ==
  ASSUME Types, Bound, NEW w \in Workers, ClaimRead(w), worker'[w].step = "commit",
         NEW d \in DOMAIN worker'[w].plan.items
  PROVE  /\ TakenFrom(w, d) => d \in shared'
         /\ Elsewhere(d, worker[w].job) => d \in crossed'
<1>1. /\ job[worker[w].job].status \in Claimed
      /\ worker'[w].plan = ClaimPlan(worker[w].job)
  BY ClaimReadEffect DEF Stands
<1> QED
  BY <1>1 DEF ClaimRead

LEMMA ClaimCommitEffect ==
  ASSUME Types, Bound, NEW w \in Workers, ClaimCommit(w)
  PROVE  /\ worker[w].job \in Jobs
         /\ OnlyWorker(w) /\ worker'[w].job = worker[w].job
         /\ worker'[w].todo = Begun(w)
         /\ worker'[w].version = job[worker[w].job].target
         /\ worker'[w].version \in Versions
         /\ worker'[w].step = IF Begun(w) = {} THEN "refresh" ELSE "ingest"
<1> DEFINE j == worker[w].job
           target == job[j].target
           todo == Begun(w)
           step == IF todo = {} THEN "refresh" ELSE "ingest"
           new == [Idle EXCEPT !.step = step, !.job = j, !.todo = todo, !.version = target]
<1>1. j \in Jobs
  BY DEF ClaimCommit, Bound, WorkerBound, Batching
<1>2. worker' = [worker EXCEPT ![w] = new]
  BY DEF ClaimCommit, Begun
<1>3. step \in Steps
  BY DEF Steps
<1>4. todo \subseteq Documents
  BY WorkerIsAState, PlanFields DEF WorkerStates, Begun
<1>5. target \in Versions
  BY <1>1 DEF Types, JobRecords
<1> HIDE DEF step, todo, target
<1>6. /\ new \in WorkerStates /\ new.step = step /\ new.job = j
      /\ new.todo = todo /\ new.version = target
  BY <1>1, <1>3, <1>4, <1>5, IdleIsAState DEF Idle, WorkerStates
<1> HIDE DEF new
<1> QED
  BY <1>1, <1>2, <1>5, <1>6, WorkerWritten DEF step, todo, target

LEMMA FinishReadEffect ==
  ASSUME Types, Bound, NEW w \in Workers, FinishRead(w)
  PROVE  \/ Advances(w) /\ item[worker[w].job][Current(w)].status = "none"
         \/ Stands(w, "record") /\ worker'[w].verdict \in Verdicts
<1> DEFINE j == worker[w].job
           d == Current(w)
           found == Verdict(j, d, worker[w].version)
           verdict == IF found = item[j][d].status THEN "same" ELSE found
           new == [worker[w] EXCEPT !.step = "record", !.verdict = verdict]
<1>1. CASE item[j][d].status = "none"
  BY <1>1, NextAdvances DEF FinishRead
<1>2. CASE item[j][d].status # "none"
  <2>1. worker' = [worker EXCEPT ![w] = new]
    BY <1>2 DEF FinishRead
  <2>2. found \in {"completed", "pending", "failed"}
    BY VerdictType
  <2> HIDE DEF found
  <2>3. verdict \in Verdicts
    BY <2>2 DEF Verdicts
  <2> HIDE DEF verdict
  <2>4. /\ new \in WorkerStates /\ new.step = "record" /\ new.job = worker[w].job
        /\ new.todo = worker[w].todo /\ new.version = worker[w].version
        /\ new.verdict = verdict
    BY <2>3, WorkerIsAState DEF WorkerStates, Steps
  <2> HIDE DEF new
  <2> QED
    BY <2>1, <2>3, <2>4, WorkerWritten DEF Stands, Keeps
<1> QED
  BY <1>1, <1>2

LEMMA RefreshEffect ==
  ASSUME Types, Bound, NEW w \in Workers, RefreshJob(w)
  PROVE  /\ worker[w].job \in Jobs
         /\ \/ Frees(w) /\ ~GoesOn(worker[w].job)
            \/ Enters(w, "continue", worker[w].job)
<1> DEFINE j == worker[w].job
<1>1. j \in Jobs
  BY DEF RefreshJob, Bound, WorkerBound, Batching
<1>2. CASE GoesOn(j)
  BY <1>1, <1>2, EntersStep DEF RefreshJob, Steps
<1>3. CASE ~GoesOn(j)
  BY <1>1, <1>3, IdleFrees DEF RefreshJob
<1> QED
  BY <1>1, <1>2, <1>3

LEMMA PauseEffect ==
  ASSUME Types, NEW w \in Workers
  PROVE  /\ IngestClaim(w) => Stands(w, "work")
         /\ ContinueFails(w) => Stands(w, "pause")
         /\ PauseRead(w) => \/ Frees(w) /\ job[worker[w].job].status \notin Claimed
                            \/ Stands(w, "pauseWrite")
<1>1. {"work", "pause", "pauseWrite"} \subseteq Steps
  BY DEF Steps
<1> QED
  BY <1>1, GoToStands, IdleFrees DEF IngestClaim, ContinueFails, PauseRead

LEMMA FreeEffect ==
  ASSUME Types, NEW w \in Workers,
         \/ FinishStale(w) \/ Continue(w) \/ PauseWrite(w) \/ Crash(w) \/ Raise(w)
  PROVE  Frees(w)
BY IdleFrees DEF FinishStale, Continue, PauseWrite, Crash, Raise, Abandon

LEMMA IngestionEffect ==
  ASSUME Types, NEW w \in Workers, IngestRefused(w) \/ Publish(w) \/ FailIngestion(w)
  PROVE  Leaves(w)
BY AfterLeaves DEF IngestRefused, Publish, FailIngestion

LEMMA FinishWriteEffect ==
  ASSUME Types, NEW w \in Workers, FinishWrite(w)
  PROVE  Advances(w)
BY NextAdvances DEF FinishWrite

(* The same for requests, jobs and items.                                  *)
OnlyRequest(q) ==
  /\ request' \in [Requests -> RequestStates]
  /\ \A p \in Requests : p # q => request'[p] = request[p]

Ends(q) == OnlyRequest(q) /\ request'[q] = Done
Proceeds(q, phase) ==
  /\ OnlyRequest(q) /\ request'[q].phase = phase /\ request'[q].job = request[q].job
Selects(q, documents) ==
  /\ OnlyRequest(q) /\ request'[q].phase = "insert" /\ request'[q].documents = documents
Addresses(q, phase, j) ==
  /\ OnlyRequest(q) /\ request'[q].phase = phase /\ request'[q].job = j
Carries(q, phase, documents) ==
  /\ OnlyRequest(q) /\ request'[q].phase = phase /\ request'[q].documents = documents

LEMMA RequestWritten ==
  ASSUME Types, NEW q \in Requests, NEW new \in RequestStates,
         request' = [request EXCEPT ![q] = new]
  PROVE  OnlyRequest(q) /\ request'[q] = new
BY DEF Types, OnlyRequest

LEMMA DoneEnds ==
  ASSUME Types, NEW q \in Requests, request' = [request EXCEPT ![q] = Done]
  PROVE  Ends(q)
BY RequestWritten, IdleIsAState DEF Ends

LEMMA PhaseProceeds ==
  ASSUME Types, NEW q \in Requests, NEW phase \in Phases,
         request' = [request EXCEPT ![q].phase = phase]
  PROVE  Proceeds(q, phase)
<1> DEFINE new == [request[q] EXCEPT !.phase = phase]
<1>1. new \in RequestStates /\ new.phase = phase /\ new.job = request[q].job
  BY DEF Types, RequestStates
<1> HIDE DEF new
<1> QED
  BY <1>1, RequestWritten DEF Proceeds, new

LEMMA ReadActiveEffect ==
  ASSUME Types, NEW q \in Requests, NEW j \in Jobs \union {None}, NEW v \in Versions,
         NEW documents \in SUBSET Documents, ReadActive(q, j, documents, v)
  PROVE  Ends(q) \/ Selects(q, documents)
<1> DEFINE new == [Free EXCEPT !.phase = "insert", !.job = j, !.documents = documents,
                               !.target = v]
<1>1. new \in RequestStates /\ new.phase = "insert" /\ new.documents = documents
  BY IdleIsAState DEF RequestStates, Phases, Free
<1>2. \/ request' = [request EXCEPT ![q] = Done]
      \/ request' = [request EXCEPT ![q] = new]
  BY DEF ReadActive
<1> HIDE DEF new
<1> QED
  BY <1>1, <1>2, DoneEnds, RequestWritten DEF Selects

LEMMA CreateEffect ==
  ASSUME Types, NEW q \in Requests, Create(q) \/ Rollback(q)
  PROVE  \/ Ends(q)
         \/ \E documents \in SUBSET Documents :
              /\ Selects(q, documents)
              /\ \A d \in documents : status[d] = "ready" \/ chunks[d] # None
<1>1. CASE Create(q)
  <2>1. PICK v \in {Legacy, Hierarchical} :
          \E selection \in SUBSET {d \in Documents : Eligible(d, v)} :
            ReadActive(q, None, selection, v)
    BY <1>1 DEF Create
  <2>2. PICK selection \in SUBSET {d \in Documents : Eligible(d, v)} :
          ReadActive(q, None, selection, v)
    BY <2>1
  <2>3. v \in Versions
    BY Assumed DEF Assumptions
  <2>4. \A d \in selection : d \in Documents /\ chunks[d] # None
    BY <2>2 DEF Eligible
  <2> QED
    BY <2>2, <2>3, <2>4, ReadActiveEffect
<1>2. CASE Rollback(q)
  <2>1. PICK j \in Jobs : ReadActive(q, j, Returnable(j), Legacy)
    BY <1>2 DEF Rollback
  <2>2. /\ Returnable(j) \in SUBSET Documents
        /\ \A d \in Returnable(j) : status[d] = "ready"
    BY DEF Returnable, Where
  <2> QED
    BY <2>1, <2>2, ReadActiveEffect, Assumed DEF Assumptions
<1> QED
  BY <1>1, <1>2

LEMMA AddressesPhase ==
  ASSUME Types, NEW q \in Requests, NEW phase \in Phases, NEW j \in Jobs,
         request' = [request EXCEPT ![q] = [Free EXCEPT !.phase = phase, !.job = j]]
  PROVE  Addresses(q, phase, j)
<1> DEFINE new == [Free EXCEPT !.phase = phase, !.job = j]
<1>1. new \in RequestStates /\ new.phase = phase /\ new.job = j
  BY IdleIsAState DEF Free, RequestStates
<1> HIDE DEF new
<1> QED
  BY <1>1, RequestWritten DEF Addresses, new

OnlyJob(j) ==
  /\ job' \in [Jobs -> JobRecords]
  /\ \A i \in Jobs : i # j => job'[i] = job[i]

Counts(r) == <<r.target, r.total, r.completed, r.failed>>

Becomes(j, s) ==
  /\ OnlyJob(j) /\ job'[j].status = s /\ Counts(job'[j]) = Counts(job[j])

LEMMA JobWritten ==
  ASSUME Types, NEW j \in Jobs, NEW new \in JobRecords, job' = [job EXCEPT ![j] = new]
  PROVE  OnlyJob(j) /\ job'[j] = new
BY DEF Types, OnlyJob

LEMMA StatusBecomes ==
  ASSUME Types, NEW j \in Jobs, NEW s \in JobStatuses, job' = [job EXCEPT ![j].status = s]
  PROVE  Becomes(j, s)
<1> DEFINE new == [job[j] EXCEPT !.status = s]
<1>1. new \in JobRecords /\ new.status = s /\ Counts(new) = Counts(job[j])
  BY DEF Types, JobRecords, Counts
<1> HIDE DEF new
<1> QED
  BY <1>1, JobWritten DEF Becomes, new

InsertedJob(q) == Min({j \in Jobs : job[j].status = "absent"})

LEMMA InsertEffect ==
  ASSUME Types, NEW q \in Requests, Insert(q)
  PROVE  LET j == InsertedJob(q) IN
         /\ j \in Jobs /\ job[j].status = "absent"
         /\ OnlyJob(j) /\ job'[j].status = "queued"
         /\ job'[j].total = Cardinality(request[q].documents)
         /\ job'[j].completed = 0 /\ job'[j].failed = 0
         /\ Addresses(q, "enqueue", j)
<1> DEFINE free == {j \in Jobs : job[j].status = "absent"}
           j == Min(free)
           n == Cardinality(request[q].documents)
           target == request[q].target
           new == [NoJob EXCEPT !.status = "queued", !.total = n, !.target = target]
<1>1. j \in free
  BY MinIn, Assumed DEF Assumptions, Insert
<1>2. n \in Nat
  <2>1. request[q].documents \in SUBSET Documents
    BY DEF Types, RequestStates
  <2> QED
    BY <2>1, FS_Subset, FS_CardinalityType, Assumed DEF Assumptions
<1>3. target \in Versions
  BY DEF Types, RequestStates
<1>4. job' = [job EXCEPT ![j] = new]
  BY DEF Insert
<1>5. request' = [request EXCEPT ![q] = [Free EXCEPT !.phase = "enqueue", !.job = j]]
  BY DEF Insert
<1> HIDE DEF n, target
<1>6. /\ new \in JobRecords /\ new.status = "queued" /\ new.total = n
      /\ new.completed = 0 /\ new.failed = 0
  BY <1>2, <1>3, IdleIsAState DEF JobRecords, JobStatuses, NoJob
<1> HIDE DEF new, j
<1>7. Addresses(q, "enqueue", j)
  BY <1>1, <1>5, AddressesPhase DEF Phases
<1>8. OnlyJob(j) /\ job'[j] = new
  BY <1>1, <1>4, <1>6, JobWritten
<1> QED
  BY <1>1, <1>6, <1>7, <1>8 DEF InsertedJob, j, n

LEMMA ReadJobEffect ==
  ASSUME Types, NEW q \in Requests, ReadJob(q)
  PROVE  /\ Kind[q] \in {"pause", "resume", "cancel"}
         /\ \E j \in Jobs : Addresses(q, "write", j) /\ job[j].status \in Active
<1>1. PICK j \in Jobs :
        /\ job[j].status \in Permitted(Kind[q])
        /\ request' = [request EXCEPT ![q] = [Free EXCEPT !.phase = "write", !.job = j]]
  BY DEF ReadJob
<1>2. Kind[q] \in {"pause", "resume", "cancel"}
  BY DEF ReadJob
<1>3. Permitted(Kind[q]) \subseteq Active
  <2>1. Permitted(Kind[q]) \in {Claimed, {"paused"}, Active}
    BY <1>2, Zenon DEF Permitted
  <2> QED
    BY <2>1 DEF Claimed, Active
<1>4. Addresses(q, "write", j)
  BY <1>1, AddressesPhase DEF Phases
<1> QED
  BY <1>1, <1>2, <1>3, <1>4

LEMMA WriteJobEffect ==
  ASSUME Types, Bound, NEW q \in Requests, WriteJob(q)
  PROVE  LET j == request[q].job IN
         /\ j \in Jobs
         /\ \/ Becomes(j, "queued") /\ Proceeds(q, "enqueue")
            \/ Becomes(j, "paused") /\ Ends(q)
            \/ Becomes(j, "cancelled") /\ Ends(q)
<1> DEFINE j == request[q].job
<1>1. j \in Jobs /\ Kind[q] \in {"pause", "resume", "cancel"}
  BY DEF Bound, WriteJob
<1>2. {"paused", "queued", "cancelled"} \subseteq JobStatuses /\ "enqueue" \in Phases
  BY DEF JobStatuses, Phases
<1>3. CASE Kind[q] = "pause"
  <2>1. job' = [job EXCEPT ![j].status = "paused"]
    BY <1>3, Zenon DEF WriteJob
  <2>2. request' = [request EXCEPT ![q] = Done]
    BY <1>3 DEF WriteJob
  <2> QED
    BY <1>1, <1>2, <2>1, <2>2, StatusBecomes, DoneEnds
<1>4. CASE Kind[q] = "resume"
  <2>1. job' = [job EXCEPT ![j].status = "queued"]
    BY <1>4, Zenon DEF WriteJob
  <2>2. request' = [request EXCEPT ![q].phase = "enqueue"]
    BY <1>4 DEF WriteJob
  <2> QED
    BY <1>1, <1>2, <2>1, <2>2, StatusBecomes, PhaseProceeds
<1>5. CASE Kind[q] = "cancel"
  <2>1. job' = [job EXCEPT ![j].status = "cancelled"]
    BY <1>5, Zenon DEF WriteJob
  <2>2. request' = [request EXCEPT ![q] = Done]
    BY <1>5 DEF WriteJob
  <2> QED
    BY <1>1, <1>2, <2>1, <2>2, StatusBecomes, DoneEnds
<1> QED
  BY <1>1, <1>3, <1>4, <1>5

LEMMA RequestEffect ==
  ASSUME Types, Bound, NEW q \in Requests
  PROVE  /\ InsertFails(q) \/ Enqueue(q) \/ GiveUp(q) => Ends(q)
         /\ \A d \in Documents : DeleteDocument(q, d) => Ends(q)
         /\ EnqueueFails(q) => Proceeds(q, "giveUp")
         /\ GiveUp(q) => request[q].job \in Jobs /\ Becomes(request[q].job, "paused")
<1>1. "giveUp" \in Phases /\ "paused" \in JobStatuses
  BY DEF Phases, JobStatuses
<1>2. GiveUp(q) => request[q].job \in Jobs
  BY DEF Bound, GiveUp
<1> QED
  BY <1>1, <1>2, DoneEnds, PhaseProceeds, StatusBecomes
  DEF InsertFails, Enqueue, GiveUp, DeleteDocument, EnqueueFails

(* A retry is about one Document, from its read to its end.                *)
LEMMA SubjectIs ==
  ASSUME Types, Bound, NEW q \in Requests, request[q].phase \in RetryPhases
  PROVE  Subject(q) \in Documents /\ request[q].documents = {Subject(q)}
<1>1. PICK d \in Documents : request[q].documents = {d}
  BY DEF Bound
<1>2. {d} \in SUBSET Nat /\ {d} # {}
  BY Assumed DEF Assumptions
<1>3. Subject(q) \in {d}
  BY <1>1, <1>2, MinIn DEF Subject
<1> QED
  BY <1>1, <1>3

LEMMA RetryEffect ==
  ASSUME Types, Bound, NEW q \in Requests
  PROVE  /\ \A d \in Documents : RetryRead(q, d) => Carries(q, "commit", {d})
         /\ RetryCommit(q) =>
              \/ Ends(q) /\ status[Subject(q)] = "purged"
              \/ Carries(q, "refresh", request[q].documents)
         /\ RetryRefresh(q) =>
              \/ Ends(q) /\ status[Subject(q)] = "purged"
              \/ Carries(q, "send", request[q].documents)
         /\ RetrySend(q) \/ RetrySendFails(q) => Ends(q)
         /\ ApiCrash(q) =>
              IF request[q].phase \in {"refresh", "send"}
                THEN Carries(q, "dead", request[q].documents) ELSE Ends(q)
<1>1. request[q] \in RequestStates
  BY DEF Types
<1>2. ASSUME NEW d \in Documents, RetryRead(q, d) PROVE Carries(q, "commit", {d})
  <2> DEFINE new == [Free EXCEPT !.phase = "commit", !.documents = {d}]
  <2>1. request' = [request EXCEPT ![q] = new]
    BY <1>2 DEF RetryRead
  <2>2. new \in RequestStates /\ new.phase = "commit" /\ new.documents = {d}
    BY IdleIsAState DEF RequestStates, Phases, Free
  <2> HIDE DEF new
  <2> QED
    BY <2>1, <2>2, RequestWritten DEF Carries
<1>3. ASSUME NEW phase \in RetryPhases, request' = [request EXCEPT ![q].phase = phase]
      PROVE  Carries(q, phase, request[q].documents)
  <2> DEFINE new == [request[q] EXCEPT !.phase = phase]
  <2>1. new \in RequestStates /\ new.phase = phase /\ new.documents = request[q].documents
    BY <1>1 DEF RequestStates, Phases, RetryPhases
  <2> HIDE DEF new
  <2> QED
    BY <1>3, <2>1, RequestWritten DEF Carries, new
<1>4. RetryCommit(q) => \/ Ends(q) /\ status[Subject(q)] = "purged"
                        \/ Carries(q, "refresh", request[q].documents)
  BY <1>3, DoneEnds DEF RetryCommit, RetryPhases
<1>5. ASSUME RetryRefresh(q), status[Subject(q)] # "purged"
      PROVE  Carries(q, "send", request[q].documents)
  <2> DEFINE seen == status[Subject(q)] = "failed"
             new == [request[q] EXCEPT !.phase = "send", !.failed = seen]
  <2>1. request' = [request EXCEPT ![q] = new]
    BY <1>5 DEF RetryRefresh
  <2>2. seen \in BOOLEAN
    OBVIOUS
  <2> HIDE DEF seen
  <2>3. new \in RequestStates /\ new.phase = "send" /\ new.documents = request[q].documents
    BY <1>1, <2>2 DEF RequestStates, Phases
  <2> HIDE DEF new
  <2> QED
    BY <2>1, <2>3, RequestWritten DEF Carries
<1>6. RetryRefresh(q) /\ status[Subject(q)] = "purged" => Ends(q)
  BY DoneEnds DEF RetryRefresh
<1>7. RetrySend(q) \/ RetrySendFails(q) => Ends(q)
  BY DoneEnds DEF RetrySend, RetrySendFails
<1>8. ASSUME ApiCrash(q), request[q].phase \in {"refresh", "send"}
      PROVE  Carries(q, "dead", request[q].documents)
  BY <1>3, <1>8 DEF ApiCrash, RetryPhases
<1>9. ApiCrash(q) /\ request[q].phase \notin {"refresh", "send"} => Ends(q)
  BY DoneEnds DEF ApiCrash
<1> QED
  BY <1>2, <1>4, <1>5, <1>6, <1>7, <1>8, <1>9

RetrySteps(q) ==
  \/ \E d \in Documents : RetryRead(q, d)
  \/ RetryCommit(q) \/ RetryRefresh(q) \/ RetrySend(q) \/ RetrySendFails(q)

(* What all the steps of a retry have in common.                           *)
LEMMA RetryMoves ==
  ASSUME Types, Bound, NEW q \in Requests, RetrySteps(q) \/ ApiCrash(q)
  PROVE  \/ Ends(q)
         \/ \E phase \in RetryPhases, d \in Documents : Carries(q, phase, {d})
<1>1. {"commit", "refresh", "send", "dead"} = RetryPhases
  BY DEF RetryPhases
<1>2. ASSUME NEW d \in Documents, RetryRead(q, d) PROVE Carries(q, "commit", {d})
  BY <1>2, RetryEffect
<1>3. ASSUME request[q].phase \in RetryPhases, NEW phase \in RetryPhases,
             Carries(q, phase, request[q].documents)
      PROVE  \E d \in Documents : Carries(q, phase, {d})
  BY <1>3, SubjectIs
<1>4. CASE RetryCommit(q)
  <2>1. request[q].phase \in RetryPhases
    BY <1>4 DEF RetryCommit, RetryPhases
  <2> QED
    BY <1>1, <1>3, <1>4, <2>1, RetryEffect
<1>5. CASE RetryRefresh(q)
  <2>1. request[q].phase \in RetryPhases
    BY <1>5 DEF RetryRefresh, RetryPhases
  <2> QED
    BY <1>1, <1>3, <1>5, <2>1, RetryEffect
<1>6. CASE ApiCrash(q)
  BY <1>1, <1>3, <1>6, RetryEffect
<1>7. CASE RetrySend(q) \/ RetrySendFails(q)
  BY <1>7, RetryEffect
<1> QED
  BY <1>1, <1>2, <1>4, <1>5, <1>6, <1>7 DEF RetrySteps

LEMMA WorkerJobEffect ==
  ASSUME Types, Bound, NEW w \in Workers
  PROVE  LET j == worker[w].job IN
         /\ ClaimCommit(w) => Becomes(j, "running")
         /\ PauseWrite(w) => j \in Jobs /\ Becomes(j, "paused")
<1>1. {"running", "paused"} \subseteq JobStatuses
  BY DEF JobStatuses
<1>2. ClaimCommit(w) \/ PauseWrite(w) => worker[w].job \in Jobs
  BY DEF Bound, WorkerBound, Batching, ClaimCommit, PauseWrite
<1> QED
  BY <1>1, <1>2, StatusBecomes DEF ClaimCommit, PauseWrite

LEMMA RefreshJobEffect ==
  ASSUME Types, Bound, NEW w \in Workers, RefreshJob(w)
  PROVE  LET j == worker[w].job
             failed == Cardinality(Where(j, {"failed"})) IN
         /\ j \in Jobs /\ OnlyJob(j)
         /\ job'[j].total = job[j].total /\ job'[j].target = job[j].target
         /\ job'[j].completed = Cardinality(Where(j, {"completed"}))
         /\ job'[j].failed = failed
         /\ job'[j].status = IF ~Ended(j) THEN job[j].status
                             ELSE IF failed > 0 THEN "failed" ELSE "completed"
<1> DEFINE j == worker[w].job
           completed == Cardinality(Where(j, {"completed"}))
           failed == Cardinality(Where(j, {"failed"}))
           s == IF ~Ended(j) THEN job[j].status
                ELSE IF failed > 0 THEN "failed" ELSE "completed"
           new == [job[j] EXCEPT !.completed = completed, !.failed = failed, !.status = s]
<1>1. j \in Jobs
  BY DEF RefreshJob, Bound, WorkerBound, Batching
<1>2. job[j] \in JobRecords
  BY <1>1 DEF Types
<1>3. completed \in Nat /\ failed \in Nat
  <2>1. \A S : Where(j, S) \in SUBSET Documents
    BY DEF Where
  <2> QED
    BY <2>1, FS_Subset, FS_CardinalityType, Assumed DEF Assumptions
<1>4. s \in JobStatuses
  BY <1>2 DEF JobRecords, JobStatuses
<1>5. job' = [job EXCEPT ![j] = new]
  BY DEF RefreshJob
<1> HIDE DEF completed, failed, s
<1>6. /\ new \in JobRecords /\ new.total = job[j].total /\ new.target = job[j].target
      /\ new.completed = completed /\ new.failed = failed /\ new.status = s
  BY <1>2, <1>3, <1>4 DEF JobRecords
<1> HIDE DEF new
<1>7. OnlyJob(j) /\ job'[j] = new
  BY <1>1, <1>5, <1>6, JobWritten
<1> QED
  BY <1>1, <1>6, <1>7 DEF completed, failed, s

LEMMA CountedUp ==
  ASSUME NEW S, NEW f \in [S -> Nat], NEW x \in S
  PROVE  /\ [f EXCEPT ![x] = @ + 1] \in [S -> Nat]
         /\ [f EXCEPT ![x] = @ + 1][x] > 0
OBVIOUS

LEMMA CountedDown ==
  ASSUME NEW S, NEW f \in [S -> Nat], NEW x \in S, f[x] > 0
  PROVE  [f EXCEPT ![x] = @ - 1] \in [S -> Nat]
<1>1. f[x] \in Nat /\ f[x] - 1 \in Nat
  OBVIOUS
<1> QED
  BY <1>1

(* A request in these phases, and a worker at these steps, has a job.      *)
LEMMA HasJob ==
  ASSUME Types, Bound
  PROVE  /\ \A q \in Requests : request[q].phase \in {"write", "enqueue", "giveUp"} =>
              request[q].job \in Jobs /\ Exists(request[q].job)
         /\ \A w \in Workers : worker[w].step \in Batching =>
              worker[w].job \in Jobs /\ Exists(worker[w].job)
         /\ \A w \in Workers : worker[w].job # None =>
              worker[w].job \in Jobs /\ Exists(worker[w].job)
<1>1. \A w \in Workers : worker[w].job \in Jobs \union {None}
  BY DEF Types, WorkerStates
<1> QED
  BY <1>1 DEF Bound, WorkerBound

OnlyRow(j) ==
  /\ item' \in [Jobs -> [Documents -> ItemRecords]]
  /\ \A i \in Jobs : i # j => item'[i] = item[i]
OnlyItem(j, d) ==
  /\ OnlyRow(j)
  /\ \A e \in Documents : e # d => item'[j][e] = item[j][e]

LEMMA RowWritten ==
  ASSUME Types, NEW j \in Jobs, NEW row \in [Documents -> ItemRecords],
         item' = [item EXCEPT ![j] = row]
  PROVE  OnlyRow(j) /\ item'[j] = row
BY DEF Types, OnlyRow

LEMMA ItemWritten ==
  ASSUME Types, NEW j \in Jobs, NEW d \in Documents, NEW new \in ItemRecords,
         item' = [item EXCEPT ![j][d] = new]
  PROVE  OnlyItem(j, d) /\ item'[j][d] = new
BY DEF Types, OnlyRow, OnlyItem

LEMMA InsertItems ==
  ASSUME Types, NEW q \in Requests, Insert(q)
  PROVE  LET j == InsertedJob(q) IN
         /\ OnlyRow(j)
         /\ \A d \in Documents : item'[j][d].status =
              IF d \in request[q].documents THEN "pending" ELSE "none"
<1> DEFINE j == InsertedJob(q)
           new == [NoItem EXCEPT !.status = "pending"]
           row == [d \in Documents |-> IF d \in request[q].documents THEN new ELSE NoItem]
<1>1. j \in Jobs
  BY InsertEffect
<1>2. item' = [item EXCEPT ![j] = row]
  BY DEF Insert, InsertedJob
<1>3. new \in ItemRecords /\ new.status = "pending" /\ NoItem.status = "none"
  BY IdleIsAState DEF ItemRecords, ItemStatuses, NoItem
<1> HIDE DEF new, j
<1>4. row \in [Documents -> ItemRecords]
  BY <1>3, IdleIsAState
<1>5. OnlyRow(j) /\ item'[j] = row
  BY <1>1, <1>2, <1>4, RowWritten
<1> QED
  BY <1>3, <1>5 DEF j

LEMMA WriteJobItems ==
  ASSUME Types, Bound, NEW q \in Requests, WriteJob(q)
  PROVE  LET j == request[q].job IN
         /\ OnlyRow(j)
         /\ \A d \in Documents :
              \/ item'[j][d] = item[j][d]
              \/ item[j][d].status = "pending" /\ item'[j][d].status = "cancelled"
<1> DEFINE j == request[q].job
<1>1. j \in Jobs
  BY WriteJobEffect
<1>2. CASE Kind[q] # "cancel"
  <2>1. item' = item
    BY <1>2 DEF WriteJob
  <2> QED
    BY <2>1, <1>1 DEF OnlyRow, Types
<1>3. CASE Kind[q] = "cancel"
  <2> DEFINE given(d) == [item[j][d] EXCEPT !.status = "cancelled"]
             row == [d \in Documents |->
                       IF item[j][d].status = "pending" THEN given(d) ELSE item[j][d]]
  <2>1. item' = [item EXCEPT ![j] = row]
    BY <1>1, <1>3 DEF WriteJob, Types
  <2>2. ASSUME NEW d \in Documents
        PROVE  /\ item[j][d] \in ItemRecords
               /\ given(d) \in ItemRecords /\ given(d).status = "cancelled"
    <3>1. item[j][d] \in ItemRecords
      BY <1>1 DEF Types
    <3> QED
      BY <3>1 DEF ItemRecords, ItemStatuses
  <2> HIDE DEF given
  <2>3. row \in [Documents -> ItemRecords]
    BY <2>2
  <2>4. OnlyRow(j) /\ item'[j] = row
    BY <1>1, <2>1, <2>3, RowWritten
  <2> QED
    BY <2>2, <2>4
<1> QED
  BY <1>2, <1>3

LEMMA ClaimCommitItems ==
  ASSUME Types, Bound, NEW w \in Workers, ClaimCommit(w)
  PROVE  LET j == worker[w].job
             plan == worker[w].plan IN
         /\ OnlyRow(j) /\ plan \in Plans
         /\ \A d \in Documents :
              item'[j][d] = IF d \in DOMAIN plan.items THEN plan.items[d] ELSE item[j][d]
<1> DEFINE j == worker[w].job
           plan == worker[w].plan
           row == Written(plan.items, item[j])
<1>1. j \in Jobs /\ plan \in Plans
  BY ClaimCommitEffect, WorkerIsAState DEF WorkerStates
<1>2. item' = [item EXCEPT ![j] = row]
  BY <1>1 DEF ClaimCommit, Types
<1>3. row \in [Documents -> ItemRecords]
  BY <1>1, PlanFields, WrittenType DEF Types
<1>4. OnlyRow(j) /\ item'[j] = row
  BY <1>1, <1>2, <1>3, RowWritten
<1> QED
  BY <1>1, <1>4 DEF Written

LEMMA PurgeItems ==
  ASSUME Types, NEW d \in Documents, Purge(d)
  PROVE  /\ item' \in [Jobs -> [Documents -> ItemRecords]]
         /\ \A j \in Jobs : /\ item'[j][d] = NoItem
                            /\ \A e \in Documents : e # d => item'[j][e] = item[j][e]
BY IdleIsAState DEF Types, Purge

LEMMA FinishWriteItems ==
  ASSUME Types, Bound, NEW w \in Workers, FinishWrite(w)
  PROVE  LET j == worker[w].job
             d == Current(w) IN
         /\ j \in Jobs /\ d \in worker[w].todo /\ d \in Documents
         /\ OnlyItem(j, d) /\ item[j][d].status # "none"
         /\ item'[j][d].status \in {"pending", "failed", "completed", item[j][d].status}
<1> DEFINE j == worker[w].job
           d == Current(w)
           new == [item[j][d] EXCEPT !.status = worker[w].verdict]
<1>1. /\ j \in Jobs /\ d \in worker[w].todo /\ d \in Documents
      /\ worker[w].verdict \in Verdicts
  BY CurrentIn DEF FinishWrite, Bound, WorkerBound, Batching, Ingesting
<1>2. CASE worker[w].verdict = "same"
  <2>1. item' = item
    BY <1>2 DEF FinishWrite
  <2> QED
    BY <1>1, <2>1 DEF Types, OnlyItem, OnlyRow, FinishWrite
<1>3. CASE worker[w].verdict # "same"
  <2>1. item' = [item EXCEPT ![j][d] = new]
    BY <1>3 DEF FinishWrite
  <2>2. /\ new \in ItemRecords
        /\ new.status \in {"pending", "failed", "completed"}
    <3>1. item[j][d] \in ItemRecords
      BY <1>1 DEF Types
    <3> QED
      BY <1>1, <1>3, <3>1 DEF ItemRecords, ItemStatuses, Verdicts
  <2>3. item[j][d].status # "none"
    BY DEF FinishWrite
  <2> HIDE DEF new, j, d
  <2> QED
    BY <1>1, <2>1, <2>2, <2>3, ItemWritten DEF j, d
<1> QED
  BY <1>2, <1>3

LEMMA ItemAgesItems ==
  ASSUME Types, NEW j \in Jobs, NEW d \in Documents, ItemAges(j, d)
  PROVE  OnlyItem(j, d) /\ item'[j][d].status = item[j][d].status
<1> DEFINE new == [item[j][d] EXCEPT !.aged = TRUE]
<1>1. new \in ItemRecords /\ new.status = item[j][d].status
  <2>1. item[j][d] \in ItemRecords
    BY DEF Types
  <2> QED
    BY <2>1 DEF ItemRecords
<1>2. item' = [item EXCEPT ![j][d] = new]
  BY DEF ItemAges
<1> HIDE DEF new
<1> QED
  BY <1>1, <1>2, ItemWritten

-----------------------------------------------------------------------------
(* Types, and what is bound to what.                                       *)

LEMMA TypesInit == Init => Types
<1> SUFFICES ASSUME Init PROVE Types
  OBVIOUS
<1>1. PICK f \in SUBSET Documents :
        /\ status = [d \in Documents |-> IF d \in f THEN "failed" ELSE "ready"]
        /\ chunks = [d \in Documents |-> IF d \in f THEN None ELSE Legacy]
        /\ error = [d \in Documents |-> IF d \in f THEN "final" ELSE "none"]
  BY DEF Init
<1>2. status \in [Documents -> Statuses] /\ error \in [Documents -> Errors]
  BY <1>1 DEF Statuses, Errors
<1>3. chunks \in [Documents -> Versions \union {None}]
  BY <1>1, Assumed DEF Assumptions
<1> QED
  BY <1>2, <1>3, IdleIsAState DEF Init, Types

LEMMA TypesStep ==
  ASSUME Types, Bound, [Next]_vars
  PROVE  Types'
<1> USE DEF Types
<1>1. ASSUME NEW q \in Requests, Create(q)
      PROVE  Types'
  <2>1. UNCHANGED <<documentVars, jobVars, messageVars, worker, faults, historyVars>>
    BY <1>1 DEF Create, ReadActive
  <2> QED
    BY <1>1, <2>1, CreateEffect DEF Ends, Selects, OnlyRequest, documentVars, jobVars, messageVars
<1>2. ASSUME NEW q \in Requests, Rollback(q)
      PROVE  Types'
  <2>1. UNCHANGED <<documentVars, jobVars, messageVars, worker, faults, historyVars>>
    BY <1>2 DEF Rollback, ReadActive
  <2> QED
    BY <1>2, <2>1, CreateEffect DEF Ends, Selects, OnlyRequest, documentVars, jobVars, messageVars
<1>3. ASSUME NEW q \in Requests, Insert(q)
      PROVE  Types'
  BY <1>3, InsertEffect, InsertItems
  DEF Insert, documentVars, jobVars, messageVars, Addresses, OnlyRequest, OnlyJob, OnlyRow
<1>4. ASSUME NEW q \in Requests, InsertFails(q)
      PROVE  Types'
  BY <1>4, RequestEffect
  DEF InsertFails, documentVars, jobVars, messageVars, Ends, OnlyRequest
<1>5. ASSUME NEW q \in Requests, ReadJob(q)
      PROVE  Types'
  BY <1>5, ReadJobEffect
  DEF ReadJob, documentVars, jobVars, messageVars, Addresses, OnlyRequest
<1>6. ASSUME NEW q \in Requests, WriteJob(q)
      PROVE  Types'
  BY <1>6, WriteJobEffect, WriteJobItems
  DEF WriteJob, documentVars, jobVars, messageVars, Becomes, OnlyJob, OnlyRow, Ends, Proceeds, OnlyRequest
<1>7. ASSUME NEW q \in Requests, Enqueue(q)
      PROVE  Types'
  <2>1. request[q].job \in Jobs
    BY <1>7, HasJob DEF Enqueue
  <2>2. batches' \in [Jobs -> Nat]
    BY <1>7, <2>1, CountedUp DEF Enqueue
  <2>3. request' \in [Requests -> RequestStates]
    BY <1>7, RequestEffect DEF Ends, OnlyRequest
  <2> QED
    BY <1>7, <2>2, <2>3 DEF Enqueue, documentVars, jobVars
<1>8. ASSUME NEW q \in Requests, EnqueueFails(q)
      PROVE  Types'
  <2>1. request' \in [Requests -> RequestStates] /\ faults' \in Nat
    <3>1. faults' \in Nat
      BY <1>8 DEF EnqueueFails, Fault
    <3>2. Proceeds(q, "giveUp")
      BY <1>8, RequestEffect
    <3> QED
      BY <3>1, <3>2 DEF Proceeds, OnlyRequest
  <2> QED
    BY <1>8, <2>1 DEF EnqueueFails, documentVars, jobVars, messageVars
<1>9. ASSUME NEW q \in Requests, GiveUp(q)
      PROVE  Types'
  BY <1>9, RequestEffect
  DEF GiveUp, documentVars, jobVars, messageVars, Ends, OnlyRequest, Becomes, OnlyJob
<1>10. ASSUME NEW q \in Requests, ApiCrash(q)
      PROVE  Types'
  <2>1. request' \in [Requests -> RequestStates] /\ faults' \in Nat
    <3>1. faults' \in Nat
      BY <1>10 DEF ApiCrash, Fault
    <3>2. OnlyRequest(q)
      BY <1>10, RetryMoves DEF Ends, Carries
    <3> QED
      BY <3>1, <3>2 DEF OnlyRequest
  <2>2. lost' \subseteq Jobs
    BY <1>10, HasJob DEF ApiCrash
  <2> QED
    BY <1>10, <2>1, <2>2 DEF ApiCrash, documentVars, jobVars
<1>11. ASSUME NEW q \in Requests, RetrySteps(q)
      PROVE  Types'
  <2>1. request' \in [Requests -> RequestStates]
    BY <1>11, RetryMoves DEF Ends, Carries, OnlyRequest
  <2>2. ASSUME NEW d \in Documents, RetryRead(q, d) PROVE Types'
    BY <2>1, <2>2 DEF RetryRead, documentVars, jobVars, messageVars
  <2>3. ASSUME RetryCommit(q) PROVE Types'
    <3>1. status' \in [Documents -> Statuses] /\ error' \in [Documents -> Errors]
      BY <2>3 DEF RetryCommit, Statuses, Errors
    <3> QED
      BY <2>1, <2>3, <3>1 DEF RetryCommit, jobVars, messageVars
  <2>4. ASSUME RetryRefresh(q) PROVE Types'
    BY <2>1, <2>4 DEF RetryRefresh, documentVars, jobVars, messageVars
  <2>5. ASSUME RetrySend(q) PROVE Types'
    <3>1. Subject(q) \in Documents
      BY <2>5, SubjectIs DEF RetrySend, RetryPhases
    <3>2. queue' \in [Documents -> Nat]
      BY <2>5, <3>1, CountedUp DEF RetrySend
    <3> QED
      BY <2>1, <2>5, <3>2 DEF RetrySend, documentVars, jobVars
  <2>6. ASSUME RetrySendFails(q) PROVE Types'
    <3>1. status' \in [Documents -> Statuses]
      BY <2>6 DEF RetrySendFails, Statuses
    <3>4. faults' = faults + 1
      BY <2>6 DEF RetrySendFails, Fault
    <3>2. [error EXCEPT ![Subject(q)] = "final"] \in [Documents -> Errors]
      BY DEF Errors
    <3>3. error' \in [Documents -> Errors]
      BY <2>6, <3>2 DEF RetrySendFails
    <3> QED
      BY <2>1, <2>6, <3>1, <3>3, <3>4 DEF RetrySendFails, jobVars, messageVars
  <2> QED
    BY <1>11, <2>2, <2>3, <2>4, <2>5, <2>6 DEF RetrySteps
<1>12. ASSUME NEW q \in Requests, NEW d \in Documents, DeleteDocument(q, d)
      PROVE  Types'
  BY <1>12, RequestEffect
  DEF DeleteDocument, documentVars, jobVars, messageVars, Ends, OnlyRequest, Statuses, Errors
<1>13. ASSUME NEW w \in Workers, NEW j \in Jobs, TakeBatch(w, j)
      PROVE  Types'
  <2>1. batches' \in [Jobs -> Nat]
    <3>1. /\ batches \in [Jobs -> Nat] /\ batches[j] > 0
          /\ batches' = [batches EXCEPT ![j] = @ - 1]
      BY <1>13 DEF TakeBatch
    <3> HIDE DEF Types
    <3> QED
      BY <3>1, CountedDown
  <2>2. worker' \in [Workers -> WorkerStates]
    BY <1>13, TakeBatchEffect DEF Enters, OnlyWorker
  <2> QED
    BY <1>13, <2>1, <2>2 DEF TakeBatch, documentVars, jobVars
<1>14. ASSUME NEW w \in Workers, NEW d \in Documents, TakeIngest(w, d)
      PROVE  Types'
  <2>1. queue' \in [Documents -> Nat]
    <3>1. /\ queue \in [Documents -> Nat] /\ queue[d] > 0
          /\ queue' = [queue EXCEPT ![d] = @ - 1]
      BY <1>14 DEF TakeIngest
    <3> HIDE DEF Types
    <3> QED
      BY <3>1, CountedDown
  <2>2. worker' \in [Workers -> WorkerStates]
    BY <1>14, TakeIngestEffect DEF OnlyWorker
  <2> QED
    BY <1>14, <2>1, <2>2 DEF TakeIngest, documentVars, jobVars
<1>15. ASSUME NEW w \in Workers, ClaimRead(w)
      PROVE  Types'
  <2>1. shared' \subseteq Documents /\ crossed' \subseteq Documents
    <3>1. worker[w].job \in Jobs
      BY <1>15, ClaimReadEffect
    <3>2. DOMAIN ClaimPlan(worker[w].job).items \subseteq Documents
      BY <3>1, PlanFacts DEF Listed
    <3> QED
      BY <1>15, <3>2 DEF ClaimRead
  <2>2. worker' \in [Workers -> WorkerStates]
    BY <1>15, ClaimReadEffect DEF Stands, OnlyWorker
  <2>3. UNCHANGED <<documentVars, jobVars, messageVars, request, faults>>
    BY <1>15 DEF ClaimRead
  <2> QED
    BY <2>1, <2>2, <2>3 DEF documentVars, jobVars, messageVars
<1>16. ASSUME NEW w \in Workers, ClaimCommit(w)
      PROVE  Types'
  <2>1. UNCHANGED <<chunks, messageVars, request, faults, historyVars>>
    BY <1>16 DEF ClaimCommit
  <2>2. /\ worker' \in [Workers -> WorkerStates] /\ worker[w].job \in Jobs
        /\ job' \in [Jobs -> JobRecords] /\ item' \in [Jobs -> [Documents -> ItemRecords]]
    BY <1>16, ClaimCommitEffect, ClaimCommitItems, WorkerJobEffect
    DEF OnlyWorker, OnlyRow, Becomes, OnlyJob
  <2>3. status' \in [Documents -> Statuses]
    <3>1. worker[w].plan.documents \in Partly({"pending", "ready"})
      BY <1>16, ClaimCommitItems, PlanFields
    <3>2. worker[w].plan.documents \in Partly(Statuses)
      BY <3>1 DEF Partly, Statuses
    <3> QED
      BY <1>16, <3>2, WrittenType DEF ClaimCommit
  <2>4. error' \in [Documents -> Errors]
    BY <1>16 DEF ClaimCommit, Errors
  <2> QED
    BY <2>1, <2>2, <2>3, <2>4 DEF messageVars
<1>17. ASSUME NEW w \in Workers, IngestClaim(w)
      PROVE  Types'
  BY <1>17, PauseEffect
  DEF IngestClaim, documentVars, jobVars, messageVars, Stands, OnlyWorker, Statuses, Errors
<1>18. ASSUME NEW w \in Workers, IngestRefused(w)
      PROVE  Types'
  <2>1. Current(w) \in Documents
    BY <1>18, CurrentIn DEF IngestRefused, Bound, WorkerBound, Ingesting
  <2>2. queue' \in [Documents -> Nat]
    BY <1>18, <2>1, CountedUp DEF IngestRefused
  <2>3. worker' \in [Workers -> WorkerStates]
    BY <1>18, IngestionEffect DEF Leaves, Frees, Stands, OnlyWorker
  <2> QED
    BY <1>18, <2>2, <2>3 DEF IngestRefused, documentVars, jobVars
<1>19. ASSUME NEW w \in Workers, Publish(w)
      PROVE  Types'
  <2>1. Current(w) \in Documents /\ worker[w].version \in Versions
    BY <1>19, CurrentIn DEF Publish, Bound, WorkerBound, Ingesting
  <2>2. /\ status' \in [Documents -> Statuses] /\ error' \in [Documents -> Errors]
        /\ chunks' \in [Documents -> Versions \union {None}]
    BY <1>19, <2>1 DEF Publish, documentVars, Statuses, Errors
  <2> QED
    BY <1>19, <2>2, IngestionEffect
    DEF Publish, jobVars, messageVars, Leaves, Frees, Stands, OnlyWorker
<1>20. ASSUME NEW w \in Workers, FailIngestion(w)
      PROVE  Types'
  <2>1. status' \in [Documents -> Statuses] /\ error' \in [Documents -> Errors]
    BY <1>20 DEF FailIngestion, Statuses, Errors
  <2> QED
    BY <1>20, <2>1, IngestionEffect
    DEF FailIngestion, jobVars, messageVars, Leaves, Frees, Stands, OnlyWorker
<1>21. ASSUME NEW w \in Workers, FinishRead(w)
      PROVE  Types'
  BY <1>21, FinishReadEffect
  DEF FinishRead, documentVars, jobVars, messageVars, Advances, Stands, OnlyWorker
<1>22. ASSUME NEW w \in Workers, FinishWrite(w)
      PROVE  Types'
  BY <1>22, FinishWriteEffect, FinishWriteItems
  DEF FinishWrite, documentVars, jobVars, messageVars, Advances, OnlyWorker, OnlyItem, OnlyRow
<1>23. ASSUME NEW w \in Workers, FinishStale(w)
      PROVE  Types'
  <2>1. lost' \subseteq Jobs
    BY <1>23, HasJob DEF FinishStale, Abandon, Batching
  <2>2. worker' \in [Workers -> WorkerStates]
    BY <1>23, FreeEffect DEF Frees, OnlyWorker
  <2> QED
    BY <1>23, <2>1, <2>2 DEF FinishStale, documentVars, jobVars
<1>24. ASSUME NEW w \in Workers, RefreshJob(w)
      PROVE  Types'
  <2>1. UNCHANGED <<documentVars, item, messageVars, request, faults, historyVars>>
    BY <1>24 DEF RefreshJob
  <2> QED
    BY <1>24, <2>1, RefreshEffect, RefreshJobEffect
    DEF documentVars, messageVars, Frees, Enters, OnlyWorker, OnlyJob
<1>25. ASSUME NEW w \in Workers, Continue(w)
      PROVE  Types'
  <2>1. worker[w].job \in Jobs
    BY <1>25, HasJob DEF Continue, Batching
  <2>2. batches' \in [Jobs -> Nat]
    BY <1>25, <2>1, CountedUp DEF Continue
  <2>3. worker' \in [Workers -> WorkerStates]
    BY <1>25, FreeEffect DEF Frees, OnlyWorker
  <2> QED
    BY <1>25, <2>2, <2>3 DEF Continue, documentVars, jobVars
<1>26. ASSUME NEW w \in Workers, ContinueFails(w)
      PROVE  Types'
  BY <1>26, PauseEffect
  DEF ContinueFails, documentVars, jobVars, messageVars, Stands, OnlyWorker, Fault
<1>27. ASSUME NEW w \in Workers, PauseRead(w)
      PROVE  Types'
  BY <1>27, PauseEffect
  DEF PauseRead, documentVars, jobVars, messageVars, Frees, Stands, OnlyWorker
<1>28. ASSUME NEW w \in Workers, PauseWrite(w)
      PROVE  Types'
  BY <1>28, FreeEffect, WorkerJobEffect
  DEF PauseWrite, documentVars, jobVars, messageVars, Frees, OnlyWorker, Becomes, OnlyJob
<1>29. ASSUME NEW w \in Workers, Crash(w)
      PROVE  Types'
  <2>1. worker' \in [Workers -> WorkerStates]
    BY <1>29, FreeEffect DEF Frees, OnlyWorker
  <2>2. faults' \in Nat /\ UNCHANGED <<documentVars, jobVars, lost, request, historyVars>>
    BY <1>29 DEF Crash, Fault
  <2>3. batches' \in [Jobs -> Nat] /\ queue' \in [Documents -> Nat]
    <3>1. CASE worker[w].job = None
      BY <1>29, <3>1 DEF Crash
    <3>2. CASE worker[w].job # None
      BY <1>29, <3>2, HasJob, CountedUp DEF Crash
    <3> QED
      BY <3>1, <3>2
  <2> QED
    BY <2>1, <2>2, <2>3 DEF documentVars, jobVars
<1>30. ASSUME NEW w \in Workers, Redeliver(w)
      PROVE  Types'
  <2>1. batches' \in [Jobs -> Nat] /\ faults' \in Nat
    BY <1>30, HasJob, CountedUp DEF Redeliver, Fault
  <2> QED
    BY <1>30, <2>1 DEF Redeliver, documentVars, jobVars
<1>31. ASSUME NEW w \in Workers, Raise(w)
      PROVE  Types'
  <2>1. lost' \subseteq Jobs /\ faults' \in Nat
    BY <1>31, HasJob DEF Raise, Abandon, Fault
  <2>2. worker' \in [Workers -> WorkerStates]
    BY <1>31, FreeEffect DEF Frees, OnlyWorker
  <2> QED
    BY <1>31, <2>1, <2>2 DEF Raise, documentVars, jobVars
<1>32. ASSUME NEW d \in Documents, Purge(d)
      PROVE  Types'
  BY <1>32, PurgeItems
  DEF Purge, documentVars, jobVars, messageVars, Statuses
<1>33. ASSUME NEW d \in Documents, NEW j \in Jobs, ItemAges(j, d)
      PROVE  Types'
  BY <1>33, ItemAgesItems
  DEF ItemAges, documentVars, jobVars, messageVars, OnlyItem, OnlyRow
<1>34. CASE UNCHANGED vars
  BY <1>34 DEF vars, documentVars, jobVars, messageVars
<1> QED
  BY <1>1, <1>2, <1>3, <1>4, <1>5, <1>6, <1>7, <1>8, <1>9, <1>10, <1>11,
     <1>12, <1>13, <1>14, <1>15, <1>16, <1>17, <1>18, <1>19, <1>20, <1>21,
     <1>22, <1>23, <1>24, <1>25, <1>26, <1>27, <1>28, <1>29, <1>30, <1>31,
     <1>32, <1>33, <1>34 DEF Next, RequestStep, RetrySteps, TakeMessage, WorkerStep

-----------------------------------------------------------------------------
(* Which steps write what.                                                *)

JobWriters ==
  \/ UNCHANGED job
  \/ \E q \in Requests :
       \/ Insert(q) \/ WriteJob(q) \/ GiveUp(q)
  \/ \E w \in Workers :
       \/ ClaimCommit(w) \/ RefreshJob(w) \/ PauseWrite(w)

ItemWriters ==
  \/ UNCHANGED item
  \/ \E q \in Requests :
       \/ Insert(q) \/ WriteJob(q)
  \/ \E w \in Workers :
       \/ ClaimCommit(w) \/ FinishWrite(w)
  \/ \E d \in Documents :
       \/ Purge(d)
       \/ \E j \in Jobs : ItemAges(j, d)

BatchWriters ==
  \/ UNCHANGED batches
  \/ \E q \in Requests : Enqueue(q)
  \/ \E w \in Workers :
       \/ Continue(w) \/ Crash(w) \/ Redeliver(w)
       \/ \E j \in Jobs : TakeBatch(w, j)

QueueWriters ==
  \/ UNCHANGED queue
  \/ \E q \in Requests : RetrySend(q)
  \/ \E w \in Workers :
       \/ IngestRefused(w) \/ Crash(w)
       \/ \E d \in Documents : TakeIngest(w, d)

RequestMovers ==
  \/ UNCHANGED request
  \/ \E q \in Requests :
       \/ Create(q) \/ Rollback(q) \/ Insert(q) \/ InsertFails(q)
       \/ ReadJob(q) \/ WriteJob(q) \/ Enqueue(q) \/ EnqueueFails(q)
       \/ GiveUp(q) \/ ApiCrash(q) \/ RetrySteps(q)
       \/ \E d \in Documents : DeleteDocument(q, d)

WorkerMovers ==
  \/ UNCHANGED worker
  \/ \E w \in Workers :
       \/ ClaimRead(w) \/ ClaimCommit(w) \/ IngestClaim(w)
       \/ IngestRefused(w) \/ Publish(w) \/ FailIngestion(w)
       \/ FinishRead(w) \/ FinishWrite(w) \/ FinishStale(w)
       \/ RefreshJob(w) \/ Continue(w) \/ ContinueFails(w)
       \/ PauseRead(w) \/ PauseWrite(w) \/ Crash(w) \/ Raise(w)
       \/ \E j \in Jobs : TakeBatch(w, j)
       \/ \E d \in Documents : TakeIngest(w, d)

LostWriters ==
  \/ UNCHANGED lost
  \/ \E q \in Requests : ApiCrash(q)
  \/ \E w \in Workers :
       \/ FinishStale(w) \/ Raise(w)

HistoryWriters ==
  \/ UNCHANGED historyVars
  \/ \E w \in Workers : ClaimRead(w)

DocumentWriters ==
  \/ UNCHANGED <<status, chunks>>
  \/ \E q \in Requests :
       \/ RetryCommit(q) \/ RetrySendFails(q)
       \/ \E d \in Documents : DeleteDocument(q, d)
  \/ \E w \in Workers :
       \/ ClaimCommit(w) \/ IngestClaim(w) \/ Publish(w)
       \/ FailIngestion(w)
  \/ \E d \in Documents : Purge(d)

Footprint ==
  /\ JobWriters /\ ItemWriters /\ BatchWriters /\ QueueWriters
  /\ RequestMovers /\ WorkerMovers /\ DocumentWriters
  /\ LostWriters /\ HistoryWriters

LEMMA Writers ==
  ASSUME [Next]_vars
  PROVE  Footprint
<1> USE DEF Footprint, JobWriters, ItemWriters, BatchWriters, QueueWriters, RequestMovers,
            WorkerMovers, DocumentWriters, LostWriters, HistoryWriters
<1>1. ASSUME NEW q \in Requests, Create(q)
      PROVE  Footprint
  BY <1>1 DEF Create, documentVars, jobVars, messageVars, ReadActive
<1>2. ASSUME NEW q \in Requests, Rollback(q)
      PROVE  Footprint
  BY <1>2 DEF Rollback, documentVars, jobVars, messageVars, ReadActive
<1>3. ASSUME NEW q \in Requests, Insert(q)
      PROVE  Footprint
  BY <1>3 DEF Insert, documentVars, jobVars, messageVars
<1>4. ASSUME NEW q \in Requests, InsertFails(q)
      PROVE  Footprint
  BY <1>4 DEF InsertFails, documentVars, jobVars, messageVars
<1>5. ASSUME NEW q \in Requests, ReadJob(q)
      PROVE  Footprint
  BY <1>5 DEF ReadJob, documentVars, jobVars, messageVars
<1>6. ASSUME NEW q \in Requests, WriteJob(q)
      PROVE  Footprint
  BY <1>6 DEF WriteJob, documentVars, jobVars, messageVars
<1>7. ASSUME NEW q \in Requests, Enqueue(q)
      PROVE  Footprint
  BY <1>7 DEF Enqueue, documentVars, jobVars, messageVars
<1>8. ASSUME NEW q \in Requests, EnqueueFails(q)
      PROVE  Footprint
  BY <1>8 DEF EnqueueFails, documentVars, jobVars, messageVars
<1>9. ASSUME NEW q \in Requests, GiveUp(q)
      PROVE  Footprint
  BY <1>9 DEF GiveUp, documentVars, jobVars, messageVars
<1>10. ASSUME NEW q \in Requests, ApiCrash(q)
      PROVE  Footprint
  BY <1>10 DEF ApiCrash, documentVars, jobVars, messageVars
<1>11. ASSUME NEW q \in Requests, RetrySteps(q)
      PROVE  Footprint
  <2> USE <1>11
  <2>1. ASSUME NEW d \in Documents, RetryRead(q, d) PROVE Footprint
    BY <2>1 DEF RetryRead, documentVars, jobVars, messageVars
  <2>2. ASSUME RetryCommit(q) PROVE Footprint
    BY <2>2 DEF RetryCommit, documentVars, jobVars, messageVars
  <2>3. ASSUME RetryRefresh(q) PROVE Footprint
    BY <2>3 DEF RetryRefresh, documentVars, jobVars, messageVars
  <2>4. ASSUME RetrySend(q) PROVE Footprint
    BY <2>4 DEF RetrySend, documentVars, jobVars, messageVars
  <2>5. ASSUME RetrySendFails(q) PROVE Footprint
    BY <2>5 DEF RetrySendFails, documentVars, jobVars, messageVars
  <2> HIDE DEF Footprint
  <2> QED
    BY <2>1, <2>2, <2>3, <2>4, <2>5 DEF RetrySteps
<1>12. ASSUME NEW q \in Requests, NEW d \in Documents, DeleteDocument(q, d)
      PROVE  Footprint
  BY <1>12 DEF DeleteDocument, documentVars, jobVars, messageVars
<1>13. ASSUME NEW w \in Workers, NEW j \in Jobs, TakeBatch(w, j)
      PROVE  Footprint
  BY <1>13 DEF TakeBatch, documentVars, jobVars, messageVars
<1>14. ASSUME NEW w \in Workers, NEW d \in Documents, TakeIngest(w, d)
      PROVE  Footprint
  BY <1>14 DEF TakeIngest, documentVars, jobVars, messageVars
<1>15. ASSUME NEW w \in Workers, ClaimRead(w)
      PROVE  Footprint
  BY <1>15 DEF ClaimRead, documentVars, jobVars, messageVars
<1>16. ASSUME NEW w \in Workers, ClaimCommit(w)
      PROVE  Footprint
  BY <1>16 DEF ClaimCommit, documentVars, jobVars, messageVars
<1>17. ASSUME NEW w \in Workers, IngestClaim(w)
      PROVE  Footprint
  BY <1>17 DEF IngestClaim, documentVars, jobVars, messageVars
<1>18. ASSUME NEW w \in Workers, IngestRefused(w)
      PROVE  Footprint
  BY <1>18 DEF IngestRefused, documentVars, jobVars, messageVars
<1>19. ASSUME NEW w \in Workers, Publish(w)
      PROVE  Footprint
  BY <1>19 DEF Publish, documentVars, jobVars, messageVars
<1>20. ASSUME NEW w \in Workers, FailIngestion(w)
      PROVE  Footprint
  BY <1>20 DEF FailIngestion, documentVars, jobVars, messageVars
<1>21. ASSUME NEW w \in Workers, FinishRead(w)
      PROVE  Footprint
  BY <1>21 DEF FinishRead, documentVars, jobVars, messageVars
<1>22. ASSUME NEW w \in Workers, FinishWrite(w)
      PROVE  Footprint
  BY <1>22 DEF FinishWrite, documentVars, jobVars, messageVars
<1>23. ASSUME NEW w \in Workers, FinishStale(w)
      PROVE  Footprint
  BY <1>23 DEF FinishStale, documentVars, jobVars, messageVars
<1>24. ASSUME NEW w \in Workers, RefreshJob(w)
      PROVE  Footprint
  BY <1>24 DEF RefreshJob, documentVars, jobVars, messageVars
<1>25. ASSUME NEW w \in Workers, Continue(w)
      PROVE  Footprint
  BY <1>25 DEF Continue, documentVars, jobVars, messageVars
<1>26. ASSUME NEW w \in Workers, ContinueFails(w)
      PROVE  Footprint
  BY <1>26 DEF ContinueFails, documentVars, jobVars, messageVars
<1>27. ASSUME NEW w \in Workers, PauseRead(w)
      PROVE  Footprint
  BY <1>27 DEF PauseRead, documentVars, jobVars, messageVars
<1>28. ASSUME NEW w \in Workers, PauseWrite(w)
      PROVE  Footprint
  BY <1>28 DEF PauseWrite, documentVars, jobVars, messageVars
<1>29. ASSUME NEW w \in Workers, Crash(w)
      PROVE  Footprint
  BY <1>29 DEF Crash, documentVars, jobVars, messageVars
<1>30. ASSUME NEW w \in Workers, Redeliver(w)
      PROVE  Footprint
  BY <1>30 DEF Redeliver, documentVars, jobVars, messageVars
<1>31. ASSUME NEW w \in Workers, Raise(w)
      PROVE  Footprint
  BY <1>31 DEF Raise, documentVars, jobVars, messageVars
<1>32. ASSUME NEW d \in Documents, Purge(d)
      PROVE  Footprint
  BY <1>32 DEF Purge, documentVars, jobVars, messageVars
<1>33. ASSUME NEW d \in Documents, NEW j \in Jobs, ItemAges(j, d)
      PROVE  Footprint
  BY <1>33 DEF ItemAges, documentVars, jobVars, messageVars
<1>34. CASE UNCHANGED vars
  BY <1>34 DEF vars, documentVars, jobVars, messageVars
<1> HIDE DEF Footprint
<1> QED
  BY <1>1, <1>2, <1>3, <1>4, <1>5, <1>6, <1>7, <1>8, <1>9, <1>10, <1>11,
     <1>12, <1>13, <1>14, <1>15, <1>16, <1>17, <1>18, <1>19, <1>20, <1>21,
     <1>22, <1>23, <1>24, <1>25, <1>26, <1>27, <1>28, <1>29, <1>30, <1>31,
     <1>32, <1>33, <1>34 DEF Next, RequestStep, RetrySteps, TakeMessage, WorkerStep

-----------------------------------------------------------------------------
(* Bound and Locks.                                                        *)

LEMMA JobsStay ==
  ASSUME Types, Bound, [Next]_vars, NEW j \in Jobs, Exists(j)
  PROVE  Exists(j)'
<1>1. JobWriters
  BY Writers DEF Footprint
<1>2. ASSUME NEW i \in Jobs, NEW s \in JobStatuses \ {"absent"}, Becomes(i, s)
      PROVE  Exists(j)'
  BY <1>2 DEF Becomes, OnlyJob, Exists
<1>3. {"queued", "paused", "cancelled", "running"} \subseteq JobStatuses \ {"absent"}
  BY DEF JobStatuses
<1>4. ASSUME NEW q \in Requests, Insert(q) PROVE Exists(j)'
  BY <1>4, InsertEffect DEF OnlyJob, Exists
<1>5. ASSUME NEW q \in Requests, WriteJob(q) PROVE Exists(j)'
  BY <1>2, <1>3, <1>5, WriteJobEffect
<1>6. ASSUME NEW q \in Requests, GiveUp(q) PROVE Exists(j)'
  BY <1>2, <1>3, <1>6, RequestEffect
<1>7. ASSUME NEW w \in Workers, ClaimCommit(w) PROVE Exists(j)'
  BY <1>2, <1>3, <1>7, ClaimCommitEffect, WorkerJobEffect
<1>8. ASSUME NEW w \in Workers, PauseWrite(w) PROVE Exists(j)'
  BY <1>2, <1>3, <1>8, WorkerJobEffect
<1>9. ASSUME NEW w \in Workers, RefreshJob(w) PROVE Exists(j)'
  BY <1>9, RefreshJobEffect DEF OnlyJob, Exists
<1>10. CASE UNCHANGED job
  BY <1>10 DEF Exists
<1> QED
  BY <1>1, <1>4, <1>5, <1>6, <1>7, <1>8, <1>9, <1>10 DEF JobWriters

(* A claim writes only items that were there.                              *)
LEMMA CommitListed ==
  ASSUME Shape, NEW w \in Workers, ClaimCommit(w), NEW j \in Jobs, NEW d \in Documents
  PROVE  item'[j][d].status = "none" <=> item[j][d].status = "none"
<1> DEFINE i == worker[w].job
           plan == worker[w].plan
<1>1. i \in Jobs /\ OnlyRow(i)
  BY ClaimCommitEffect, ClaimCommitItems DEF Shape
<1>2. CASE j # i
  BY <1>1, <1>2 DEF OnlyRow
<1>3. CASE j = i /\ d \notin DOMAIN plan.items
  BY <1>1, <1>3, ClaimCommitItems DEF Shape
<1>4. CASE j = i /\ d \in DOMAIN plan.items
  <2>1. item'[j][d] = plan.items[d]
    BY <1>4, ClaimCommitItems DEF Shape
  <2>2. plan.items[d].status # "none" /\ d \in Listed(j)
    BY <1>4 DEF Shape, Locks, WorkerLocks, ClaimCommit
  <2> QED
    BY <2>1, <2>2 DEF Listed
<1> QED
  BY <1>2, <1>3, <1>4

(* Items come with their job and go with their Document.                   *)
LEMMA ItemsStay ==
  ASSUME Shape, [Next]_vars, NEW j \in Jobs, NEW d \in Documents
  PROVE  \/ item'[j][d].status = "none" <=> item[j][d].status = "none"
         \/ \E q \in Requests : Insert(q) /\ j = InsertedJob(q)
         \/ Purge(d)
<1> DEFINE Same == item'[j][d].status = "none" <=> item[j][d].status = "none"
<1> SUFFICES ASSUME ~Purge(d), \A q \in Requests : Insert(q) => j # InsertedJob(q)
             PROVE  Same
  BY Zenon
<1>1. ItemWriters /\ Types /\ Bound
  BY Writers DEF Footprint, Shape
<1>2. ASSUME NEW q \in Requests, Insert(q) PROVE Same
  BY <1>1, <1>2, InsertItems DEF OnlyRow
<1>3. ASSUME NEW q \in Requests, WriteJob(q) PROVE Same
  <2>1. CASE j = request[q].job
    BY <1>1, <1>3, <2>1, WriteJobItems
  <2>2. CASE j # request[q].job
    BY <1>1, <1>3, <2>2, WriteJobItems DEF OnlyRow
  <2> QED
    BY <2>1, <2>2
<1>4. ASSUME NEW w \in Workers, ClaimCommit(w) PROVE Same
  BY <1>4, CommitListed
<1>5. ASSUME NEW w \in Workers, FinishWrite(w) PROVE Same
  <2>1. CASE j = worker[w].job /\ d = Current(w)
    BY <1>1, <1>5, <2>1, FinishWriteItems
  <2>2. CASE ~(j = worker[w].job /\ d = Current(w))
    <3>1. item'[j][d] = item[j][d]
      BY <1>1, <1>5, <2>2, FinishWriteItems DEF OnlyItem, OnlyRow
    <3> QED
      BY <3>1
  <2> QED
    BY <2>1, <2>2
<1>6. ASSUME NEW e \in Documents, Purge(e) PROVE Same
  BY <1>1, <1>6, PurgeItems
<1>7. ASSUME NEW e \in Documents, NEW i \in Jobs, ItemAges(i, e) PROVE Same
  <2>1. CASE j = i /\ d = e
    BY <1>1, <1>7, <2>1, ItemAgesItems
  <2>2. CASE ~(j = i /\ d = e)
    <3>1. item'[j][d] = item[j][d]
      BY <1>1, <1>7, <2>2, ItemAgesItems DEF OnlyItem, OnlyRow
    <3> QED
      BY <3>1
  <2> QED
    BY <2>1, <2>2
<1>8. CASE UNCHANGED item
  BY <1>8
<1> HIDE DEF Same
<1> QED
  BY <1>1, <1>2, <1>3, <1>4, <1>5, <1>6, <1>7, <1>8 DEF ItemWriters

LEMMA BoundInit == Init => Bound
BY Assumed DEF Init, Bound, WorkerBound, Idle, Free, NoJob, NoItem, Exists, Listed,
   Batching, Ingesting, RetryPhases, Assumptions

LEMMA WorkerBoundStep ==
  ASSUME Shape, [Next]_vars, NEW v \in Workers
  PROVE  WorkerBound(v)'
<1> USE DEF Shape
<1>1. \A w \in Workers : WorkerBound(w)
  BY DEF Bound
<1>2. \A j \in Jobs : Exists(j) => Exists(j)'
  BY JobsStay
<1>3. WorkerMovers /\ None \notin Jobs
  BY Writers, Assumed DEF Footprint, Assumptions
<1>4. CASE worker'[v] = worker[v]
  BY <1>1, <1>2, <1>4 DEF WorkerBound
<1>5. CASE worker'[v] = Idle
  BY <1>3, <1>5 DEF WorkerBound, Idle, Batching, Ingesting
<1>6. ASSUME NEW s, NEW j \in Jobs, Enters(v, s, j), Exists(j),
             s \in {"claim", "continue"}
      PROVE  WorkerBound(v)'
  BY <1>2, <1>3, <1>6 DEF Enters, WorkerBound, Batching, Ingesting
<1>7. ASSUME NEW s \in {"work", "finish", "record"}, Stands(v, s),
             worker[v].step \in Ingesting,
             s # "work" => worker[v].job # None,
             s = "record" => worker'[v].verdict \in Verdicts
      PROVE  WorkerBound(v)'
  <2>1. worker[v].job # None => worker[v].job \in Jobs
    BY HasJob
  <2> QED
    BY <1>1, <1>2, <1>7, <2>1 DEF Stands, Keeps, WorkerBound, Batching, Ingesting
<1>8. ASSUME NEW s, Stands(v, s), worker[v].step \in Batching \ Ingesting,
             s \in {"commit", "refresh", "pause", "pauseWrite"}
      PROVE  WorkerBound(v)'
  BY <1>1, <1>2, <1>8 DEF Stands, Keeps, WorkerBound, Batching, Ingesting
<1>9. ASSUME Advances(v), worker[v].step \in {"finish", "record"}
      PROVE  WorkerBound(v)'
  BY <1>1, <1>2, <1>3, <1>9 DEF Advances, WorkerBound, Batching, Ingesting
<1>10. ASSUME NEW w \in Workers, OnlyWorker(w), w # v
       PROVE  WorkerBound(v)'
  BY <1>4, <1>10 DEF OnlyWorker
<1>11. ASSUME NEW w \in Workers, NEW j \in Jobs, TakeBatch(w, j) PROVE WorkerBound(v)'
  BY <1>6, <1>10, <1>11, TakeBatchEffect DEF Enters, TakeBatch, Bound
<1>12. ASSUME NEW w \in Workers, NEW d \in Documents, TakeIngest(w, d) PROVE WorkerBound(v)'
  <2>1. CASE w = v
    BY <1>3, <1>12, <2>1, TakeIngestEffect DEF WorkerBound, Batching, Ingesting
  <2> QED
    BY <1>10, <1>12, <2>1, TakeIngestEffect
<1>13. ASSUME NEW w \in Workers, ClaimRead(w) PROVE WorkerBound(v)'
  <2>1. worker[w].step \in Batching \ Ingesting
    BY <1>13 DEF ClaimRead, Batching, Ingesting
  <2>2. \E s \in {"commit", "refresh"} : Stands(w, s)
    BY <1>13, ClaimReadEffect
  <2> QED
    BY <1>8, <1>10, <2>1, <2>2 DEF Stands
<1>14. ASSUME NEW w \in Workers, ClaimCommit(w) PROVE WorkerBound(v)'
  <2>1. CASE w = v
    <3>1. Exists(worker[w].job)
      BY <1>14, HasJob DEF ClaimCommit, Batching
    <3> QED
      BY <1>2, <1>3, <1>14, <2>1, <3>1, ClaimCommitEffect DEF WorkerBound, Batching, Ingesting
  <2> QED
    BY <1>10, <1>14, <2>1, ClaimCommitEffect
<1>15. ASSUME NEW w \in Workers, IngestClaim(w) PROVE WorkerBound(v)'
  <2>1. worker[w].step \in Ingesting /\ Stands(w, "work")
    BY <1>15, PauseEffect DEF IngestClaim, Ingesting
  <2> QED
    <3>1. CASE w = v
      BY <1>7, <2>1, <3>1
    <3>2. CASE w # v
      BY <1>10, <2>1, <3>2 DEF Stands
    <3> QED
      BY <3>1, <3>2
<1>16. ASSUME NEW w \in Workers, IngestRefused(w) \/ Publish(w) \/ FailIngestion(w)
       PROVE  WorkerBound(v)'
  <2>1. Leaves(w) /\ worker[w].step \in Ingesting
    BY <1>16, IngestionEffect DEF IngestRefused, Publish, FailIngestion, Ingesting
  <2> QED
    BY <1>5, <1>7, <1>10, <2>1 DEF Leaves, Frees, Stands
<1>17. ASSUME NEW w \in Workers, FinishRead(w) PROVE WorkerBound(v)'
  <2>1. worker[w].step = "finish" /\ worker[w].job \in Jobs
    BY <1>17, HasJob DEF FinishRead, Batching
  <2> QED
    BY <1>3, <1>7, <1>9, <1>10, <1>17, <2>1, FinishReadEffect DEF Advances, Stands, Ingesting
<1>18. ASSUME NEW w \in Workers, FinishWrite(w) PROVE WorkerBound(v)'
  BY <1>9, <1>10, <1>18, FinishWriteEffect DEF FinishWrite, Advances
<1>19. ASSUME NEW w \in Workers, Frees(w) PROVE WorkerBound(v)'
  BY <1>5, <1>10, <1>19 DEF Frees
<1>20. ASSUME NEW w \in Workers,
              \/ FinishStale(w) \/ Continue(w) \/ PauseWrite(w) \/ Crash(w) \/ Raise(w)
       PROVE  WorkerBound(v)'
  BY <1>19, <1>20, FreeEffect
<1>21. ASSUME NEW w \in Workers, RefreshJob(w) PROVE WorkerBound(v)'
  <2>1. Exists(worker[w].job)
    BY <1>21, HasJob DEF RefreshJob, Batching
  <2> QED
    BY <1>6, <1>10, <1>19, <1>21, <2>1, RefreshEffect DEF Enters
<1>22. ASSUME NEW w \in Workers, ContinueFails(w) PROVE WorkerBound(v)'
  BY <1>8, <1>10, <1>22, PauseEffect DEF ContinueFails, Stands, Batching, Ingesting
<1>23. ASSUME NEW w \in Workers, PauseRead(w) PROVE WorkerBound(v)'
  <2>1. worker[w].step \in Batching \ Ingesting
    BY <1>23 DEF PauseRead, Batching, Ingesting
  <2> QED
    BY <1>8, <1>10, <1>19, <1>23, <2>1, PauseEffect DEF Stands
<1>24. CASE UNCHANGED worker
  BY <1>4, <1>24
<1> HIDE DEF Shape
<1> QED
  BY <1>3, <1>11, <1>12, <1>13, <1>14, <1>15, <1>16, <1>17, <1>18, <1>20, <1>21,
     <1>22, <1>23, <1>24 DEF WorkerMovers

RequestBound(q) ==
  request[q].phase \in {"write", "enqueue", "giveUp"} =>
    /\ request[q].job \in Jobs /\ Exists(request[q].job)
    /\ request[q].phase = "write" => Kind[q] \in {"pause", "resume", "cancel"}
RetryBound(q) ==
  request[q].phase \in RetryPhases => \E d \in Documents : request[q].documents = {d}

LEMMA RequestBoundStep ==
  ASSUME Shape, [Next]_vars, NEW p \in Requests
  PROVE  RequestBound(p)'
<1>1. RequestMovers /\ Types /\ Bound
  BY Writers DEF Footprint, Shape
<1>2. \A j \in Jobs : Exists(j) => Exists(j)'
  BY <1>1, JobsStay
<1>3. RequestBound(p)
  BY <1>1 DEF Bound, RequestBound
<1>4. CASE request'[p] = request[p]
  BY <1>2, <1>3, <1>4 DEF RequestBound
<1>5. ASSUME NEW q \in Requests, Ends(q) PROVE RequestBound(p)'
  BY <1>4, <1>5 DEF Ends, OnlyRequest, RequestBound, Done, Free
<1>6. ASSUME NEW q \in Requests, NEW S, Selects(q, S) PROVE RequestBound(p)'
  BY <1>4, <1>6 DEF Selects, OnlyRequest, RequestBound
<1>7. ASSUME NEW q \in Requests, NEW j \in Jobs, Exists(j)',
             NEW phase \in {"enqueue", "write"}, Addresses(q, phase, j),
             phase = "write" => Kind[q] \in {"pause", "resume", "cancel"}
      PROVE  RequestBound(p)'
  BY <1>4, <1>7 DEF Addresses, OnlyRequest, RequestBound
<1>8. ASSUME NEW q \in Requests, NEW phase \in {"enqueue", "giveUp"}, Proceeds(q, phase),
             request[q].phase \in {"write", "enqueue"}
      PROVE  RequestBound(p)'
  <2>1. request[q].job \in Jobs /\ Exists(request[q].job)
    BY <1>1, <1>8 DEF Bound
  <2> QED
    BY <1>2, <1>4, <1>8, <2>1 DEF Proceeds, OnlyRequest, RequestBound
<1>9. ASSUME NEW q \in Requests, Create(q) \/ Rollback(q) PROVE RequestBound(p)'
  BY <1>1, <1>5, <1>6, <1>9, CreateEffect
<1>16. ASSUME NEW q \in Requests, NEW S, NEW phase \in RetryPhases, Carries(q, phase, S)
       PROVE  RequestBound(p)'
  BY <1>4, <1>16 DEF Carries, OnlyRequest, RequestBound, RetryPhases
<1>10. ASSUME NEW q \in Requests, Insert(q) PROVE RequestBound(p)'
  <2>1. PICK j \in Jobs : job'[j].status = "queued" /\ Addresses(q, "enqueue", j)
    BY <1>1, <1>10, InsertEffect
  <2> QED
    BY <1>7, <2>1 DEF Exists
<1>11. ASSUME NEW q \in Requests, ReadJob(q) PROVE RequestBound(p)'
  <2>1. PICK j \in Jobs : Addresses(q, "write", j) /\ job[j].status \in Active
    BY <1>1, <1>11, ReadJobEffect
  <2>2. Exists(j)'
    BY <1>2, <2>1 DEF Exists, Active
  <2> QED
    BY <1>1, <1>7, <1>11, <2>1, <2>2, ReadJobEffect
<1>12. ASSUME NEW q \in Requests, WriteJob(q) PROVE RequestBound(p)'
  <2>1. request[q].phase = "write"
    BY <1>12 DEF WriteJob
  <2> QED
    BY <1>1, <1>5, <1>8, <1>12, <2>1, WriteJobEffect
<1>13. ASSUME NEW q \in Requests, EnqueueFails(q) PROVE RequestBound(p)'
  <2>1. request[q].phase = "enqueue"
    BY <1>13 DEF EnqueueFails
  <2> QED
    BY <1>1, <1>8, <1>13, <2>1, RequestEffect
<1>14. ASSUME NEW q \in Requests,
              \/ InsertFails(q) \/ Enqueue(q) \/ GiveUp(q)
              \/ \E d \in Documents : DeleteDocument(q, d)
       PROVE  RequestBound(p)'
  BY <1>1, <1>5, <1>14, RequestEffect
<1>17. ASSUME NEW q \in Requests, ApiCrash(q) \/ RetrySteps(q) PROVE RequestBound(p)'
  BY <1>1, <1>5, <1>16, <1>17, RetryMoves
<1>15. CASE UNCHANGED request
  BY <1>4, <1>15
<1> QED
  BY <1>1, <1>9, <1>10, <1>11, <1>12, <1>13, <1>14, <1>15, <1>17 DEF RequestMovers

(* Only the steps of a retry enter its phases.                             *)
LEMMA RetryBoundStep ==
  ASSUME Shape, [Next]_vars, NEW p \in Requests
  PROVE  RetryBound(p)'
<1>1. RequestMovers /\ Types /\ Bound
  BY Writers DEF Footprint, Shape
<1>2. CASE request'[p] = request[p]
  BY <1>1, <1>2 DEF Bound, RetryBound
<1>3. ASSUME NEW q \in Requests, OnlyRequest(q), request'[q].phase \notin RetryPhases
      PROVE  RetryBound(p)'
  BY <1>2, <1>3 DEF OnlyRequest, RetryBound
<1>4. ASSUME NEW q \in Requests, NEW phase, NEW d \in Documents, Carries(q, phase, {d})
      PROVE  RetryBound(p)'
  BY <1>2, <1>4 DEF Carries, OnlyRequest, RetryBound
<1>5. ASSUME NEW q \in Requests, Ends(q) PROVE RetryBound(p)'
  BY <1>3, <1>5 DEF Ends, Done, Free, RetryPhases
<1>6. ASSUME NEW q \in Requests, Create(q) \/ Rollback(q) PROVE RetryBound(p)'
  <2>1. Ends(q) \/ \E S : Selects(q, S)
    BY <1>1, <1>6, CreateEffect
  <2> QED
    BY <1>3, <1>5, <2>1 DEF Selects, RetryPhases
<1>7. ASSUME NEW q \in Requests, Insert(q) \/ ReadJob(q) PROVE RetryBound(p)'
  <2>1. \E phase \in {"enqueue", "write"}, j \in Jobs : Addresses(q, phase, j)
    BY <1>1, <1>7, InsertEffect, ReadJobEffect
  <2> QED
    BY <1>3, <2>1 DEF Addresses, RetryPhases
<1>8. ASSUME NEW q \in Requests, WriteJob(q) \/ EnqueueFails(q) PROVE RetryBound(p)'
  <2>1. Ends(q) \/ \E phase \in {"enqueue", "giveUp"} : Proceeds(q, phase)
    BY <1>1, <1>8, WriteJobEffect, RequestEffect
  <2> QED
    BY <1>3, <1>5, <2>1 DEF Proceeds, RetryPhases
<1>9. ASSUME NEW q \in Requests,
             \/ InsertFails(q) \/ Enqueue(q) \/ GiveUp(q)
             \/ \E d \in Documents : DeleteDocument(q, d)
      PROVE  RetryBound(p)'
  BY <1>1, <1>5, <1>9, RequestEffect
<1>10. ASSUME NEW q \in Requests, ApiCrash(q) \/ RetrySteps(q) PROVE RetryBound(p)'
  BY <1>1, <1>4, <1>5, <1>10, RetryMoves
<1>11. CASE UNCHANGED request
  BY <1>2, <1>11
<1> QED
  BY <1>1, <1>6, <1>7, <1>8, <1>9, <1>10, <1>11 DEF RequestMovers

LEMMA BatchesStay ==
  ASSUME Shape, [Next]_vars, NEW j \in Jobs, batches'[j] > 0
  PROVE  batches[j] > 0 \/ Exists(j)
<1>1. BatchWriters /\ Types /\ Bound
  BY Writers DEF Footprint, Shape
<1>2. batches \in [Jobs -> Nat]
  BY <1>1 DEF Types
<1>3. ASSUME NEW i \in Jobs, batches' = [batches EXCEPT ![i] = @ + 1], Exists(i)
      PROVE  batches[j] > 0 \/ Exists(j)
  BY <1>2, <1>3
<1>4. ASSUME NEW q \in Requests, Enqueue(q) PROVE batches[j] > 0 \/ Exists(j)
  BY <1>1, <1>3, <1>4, HasJob DEF Enqueue
<1>5. ASSUME NEW w \in Workers, Continue(w) PROVE batches[j] > 0 \/ Exists(j)
  BY <1>1, <1>3, <1>5, HasJob DEF Continue, Batching
<1>6. ASSUME NEW w \in Workers, Crash(w) PROVE batches[j] > 0 \/ Exists(j)
  BY <1>1, <1>3, <1>6, HasJob DEF Crash
<1>7. ASSUME NEW w \in Workers, Redeliver(w) PROVE batches[j] > 0 \/ Exists(j)
  BY <1>1, <1>3, <1>7, HasJob DEF Redeliver
<1>8. ASSUME NEW w \in Workers, NEW i \in Jobs, TakeBatch(w, i)
      PROVE  batches[j] > 0 \/ Exists(j)
  BY <1>2, <1>8 DEF TakeBatch
<1>9. CASE UNCHANGED batches
  BY <1>9
<1> QED
  BY <1>1, <1>4, <1>5, <1>6, <1>7, <1>8, <1>9 DEF BatchWriters

LEMMA BoundStep ==
  ASSUME Shape, [Next]_vars
  PROVE  Bound'
<1>1. Types /\ Bound
  BY DEF Shape
<1>2. ASSUME NEW j \in Jobs
      PROVE  /\ batches'[j] > 0 => Exists(j)'
             /\ ~Exists(j)' => Listed(j)' = {}
  <2>1. batches'[j] > 0 => Exists(j)'
    BY <1>1, BatchesStay, JobsStay DEF Bound
  <2>2. ASSUME ~Exists(j)', NEW d \in Documents
        PROVE  item'[j][d].status = "none"
    <3>1. item[j][d].status = "none"
      BY <1>1, <2>2, JobsStay DEF Bound, Listed
    <3>2. ASSUME NEW q \in Requests, Insert(q) PROVE j # InsertedJob(q)
      BY <1>1, <2>2, <3>2, InsertEffect DEF Exists
    <3>3. Purge(d) => item'[j][d].status = "none"
      BY <1>1, PurgeItems DEF NoItem
    <3> QED
      BY <3>1, <3>2, <3>3, ItemsStay
  <2> QED
    BY <2>1, <2>2 DEF Listed
<1>3. \A q \in Requests : RequestBound(q)' /\ RetryBound(q)'
  BY RequestBoundStep, RetryBoundStep
<1> QED
  BY <1>2, <1>3, WorkerBoundStep DEF Bound, RequestBound, RetryBound

LEMMA ClaimSteps ==
  ASSUME Types, Bound, [Next]_vars, NEW v \in Workers, worker'[v].step = "commit"
  PROVE  \/ worker'[v] = worker[v] /\ ~ClaimCommit(v)
         \/ ClaimRead(v)
<1>1. WorkerMovers
  BY Writers DEF Footprint
<1> SUFFICES ASSUME ~ClaimRead(v)
             PROVE  worker'[v] = worker[v] /\ ~ClaimCommit(v)
  BY Zenon
<1>2. ~ClaimCommit(v)
  BY ClaimCommitEffect
<1>3. ASSUME NEW w \in Workers, OnlyWorker(w), w # v PROVE worker'[v] = worker[v]
  BY <1>3 DEF OnlyWorker
<1>4. ASSUME NEW w \in Workers, OnlyWorker(w), worker'[w].step # "commit"
      PROVE  worker'[v] = worker[v]
  BY <1>3, <1>4
<1>5. ASSUME NEW w \in Workers, Frees(w) \/ Advances(w) \/ Leaves(w)
      PROVE  worker'[v] = worker[v]
  BY <1>4, <1>5 DEF Frees, Advances, Leaves, Stands, Idle
<1>6. ASSUME NEW w \in Workers,
             NEW s \in {"work", "record", "pause", "pauseWrite"}, Stands(w, s)
      PROVE  worker'[v] = worker[v]
  BY <1>4, <1>6 DEF Stands
<1>7. ASSUME NEW w \in Workers, NEW s \in {"claim", "continue"}, NEW j, Enters(w, s, j)
      PROVE  worker'[v] = worker[v]
  BY <1>4, <1>7 DEF Enters
<1>8. ASSUME NEW w \in Workers, ClaimRead(w) PROVE worker'[v] = worker[v]
  BY <1>3, <1>8, ClaimReadEffect DEF Stands
<1>9. ASSUME NEW w \in Workers, ClaimCommit(w) PROVE worker'[v] = worker[v]
  BY <1>4, <1>9, ClaimCommitEffect
<1>10. ASSUME NEW w \in Workers,
              \/ FinishStale(w) \/ Continue(w) \/ PauseWrite(w) \/ Crash(w) \/ Raise(w)
              \/ IngestRefused(w) \/ Publish(w) \/ FailIngestion(w) \/ FinishWrite(w)
       PROVE  worker'[v] = worker[v]
  BY <1>5, <1>10, FreeEffect, IngestionEffect, FinishWriteEffect
<1>11. ASSUME NEW w \in Workers,
              IngestClaim(w) \/ ContinueFails(w) \/ PauseRead(w) \/ FinishRead(w)
       PROVE  worker'[v] = worker[v]
  BY <1>5, <1>6, <1>11, PauseEffect, FinishReadEffect
<1>12. ASSUME NEW w \in Workers, RefreshJob(w) PROVE worker'[v] = worker[v]
  BY <1>5, <1>7, <1>12, RefreshEffect
<1>13. ASSUME NEW w \in Workers, NEW j \in Jobs, TakeBatch(w, j)
       PROVE  worker'[v] = worker[v]
  BY <1>7, <1>13, TakeBatchEffect
<1>14. ASSUME NEW w \in Workers, NEW d \in Documents, TakeIngest(w, d)
       PROVE  worker'[v] = worker[v]
  BY <1>4, <1>14, TakeIngestEffect
<1>15. worker'[v] = worker[v]
  BY <1>1, <1>8, <1>9, <1>10, <1>11, <1>12, <1>13, <1>14 DEF WorkerMovers
<1> QED
  BY <1>2, <1>15

LEMMA LocksStep ==
  ASSUME Shape, [Next]_vars
  PROVE  Locks'
<1> SUFFICES ASSUME NEW v \in Workers, worker'[v].step = "commit"
             PROVE  WorkerLocks(v)'
  BY DEF Locks, WorkerLocks
<1> USE DEF Shape
<1>1. CASE ClaimRead(v)
  <2>1. PICK j \in Jobs : j = worker[v].job
    BY <1>1, ClaimReadEffect
  <2>2. PICK plan : plan = ClaimPlan(j)
    OBVIOUS
  <2>3. /\ OnlyWorker(v) /\ worker'[v].job = j
        /\ worker'[v].plan = plan /\ job[j].status \in Claimed
    BY <1>1, <2>1, <2>2, ClaimReadEffect DEF Stands, Keeps
  <2>4. Unlocked(j) /\ job' = job /\ item' = item
    BY <1>1, <2>1 DEF ClaimRead, jobVars
  <2>5. /\ DOMAIN plan.documents \subseteq DOMAIN plan.items
        /\ DOMAIN plan.items \subseteq Listed(j)
        /\ \A d \in DOMAIN plan.items : plan.items[d].status # "none"
        /\ \A d \in DOMAIN plan.documents :
             plan.documents[d] = "pending" => plan.items[d].status = "processing"
    BY <2>2, PlanFacts
  <2>6. \A u \in Workers : Claiming(u, j)' => u = v
    BY <2>3, <2>4 DEF Unlocked, Claiming, OnlyWorker
  <2>7. Listed(j)' = Listed(j)
    BY <2>4 DEF Listed
  <2> QED
    BY <2>3, <2>4, <2>5, <2>6, <2>7 DEF WorkerLocks
<1>2. CASE worker'[v] = worker[v] /\ ~ClaimCommit(v)
  <2>1. PICK j \in Jobs : j = worker[v].job /\ Exists(j)
    BY <1>2, HasJob DEF Batching
  <2>2. PICK plan : plan = worker[v].plan
    OBVIOUS
  <2>3. /\ worker[v].step = "commit" /\ WorkerLocks(v) /\ Claiming(v, j)
        /\ j = worker[v].job /\ plan = worker[v].plan /\ Exists(j)
    BY <1>2, <2>1, <2>2 DEF Locks, Claiming
  <2>4. ASSUME NEW u \in Workers, Claiming(u, j)' PROVE u = v
    <3>1. CASE worker'[u] = worker[u]
      BY <2>3, <2>4, <3>1 DEF Claiming, WorkerLocks
    <3>2. CASE ClaimRead(u)
      <4>1. worker'[u].job = worker[u].job
        BY <3>2, ClaimReadEffect DEF Stands, Keeps
      <4>2. Unlocked(j)
        BY <2>4, <3>2, <4>1 DEF ClaimRead, Claiming
      <4> QED
        BY <2>3, <4>2 DEF Unlocked
    <3> QED
      BY <2>4, <3>1, <3>2, ClaimSteps DEF Claiming
  <2>5. ASSUME NEW d \in DOMAIN plan.items PROVE d \in Listed(j)'
    <3>1. d \in Documents /\ item[j][d].status # "none"
      BY <2>3 DEF WorkerLocks, Listed
    <3>2. ASSUME NEW q \in Requests, Insert(q) PROVE j # InsertedJob(q)
      BY <2>3, <3>2, InsertEffect DEF Exists
    <3>3. ~Purge(d)
      BY <2>3 DEF Purge, ItemUnlocked
    <3> QED
      BY <2>3, <3>1, <3>2, <3>3, ItemsStay DEF Listed
  <2>6. job'[j].status \in Claimed
    <3> DEFINE Same == job'[j].status = job[j].status
    <3>1. JobWriters /\ ~Unlocked(j)
      BY <2>3, Writers DEF Footprint, Unlocked
    <3>2. ASSUME NEW i \in Jobs, OnlyJob(i), i # j PROVE Same
      BY <2>3, <3>2 DEF OnlyJob
    <3>3. ASSUME NEW q \in Requests, Insert(q) PROVE Same
      BY <2>3, <3>2, <3>3, InsertEffect DEF Exists
    <3>4. ASSUME NEW q \in Requests, WriteJob(q) \/ GiveUp(q) PROVE Same
      <4>1. Unlocked(request[q].job)
        BY <3>4 DEF WriteJob, GiveUp
      <4>2. request[q].job \in Jobs /\ OnlyJob(request[q].job)
        BY <3>4, WriteJobEffect, RequestEffect DEF Becomes
      <4> QED
        BY <3>1, <3>2, <4>1, <4>2
    <3>5. ASSUME NEW w \in Workers, RefreshJob(w) \/ PauseWrite(w) PROVE Same
      <4>1. Unlocked(worker[w].job)
        BY <3>5 DEF RefreshJob, PauseWrite
      <4>2. worker[w].job \in Jobs /\ OnlyJob(worker[w].job)
        BY <3>5, RefreshJobEffect, WorkerJobEffect DEF Becomes
      <4> QED
        BY <3>1, <3>2, <4>1, <4>2
    <3>6. ASSUME NEW w \in Workers, ClaimCommit(w) PROVE Same
      <4>1. worker[w].job \in Jobs /\ OnlyJob(worker[w].job) /\ worker[w].step = "commit"
        BY <3>6, ClaimCommitEffect, WorkerJobEffect DEF Becomes, ClaimCommit
      <4>2. worker[w].job # j
        BY <1>2, <2>3, <3>6, <4>1 DEF WorkerLocks, Claiming
      <4> QED
        BY <3>2, <4>1, <4>2
    <3>7. ASSUME UNCHANGED job PROVE Same
      BY <3>7
    <3>8. Same
      <4> QED
        BY <3>1, <3>3, <3>4, <3>5, <3>6, <3>7 DEF JobWriters
    <3> QED
      BY <2>3, <3>8 DEF WorkerLocks
  <2> QED
    BY <1>2, <2>3, <2>4, <2>5, <2>6 DEF WorkerLocks
<1> QED
  BY <1>1, <1>2, ClaimSteps

LEMMA ShapeInit == Init => Shape
<1> SUFFICES ASSUME Init PROVE Shape
  OBVIOUS
<1>1. \A w \in Workers : worker[w].step # "commit"
  BY DEF Init, Idle
<1> QED
  BY <1>1, TypesInit, BoundInit DEF Shape, Locks, WorkerLocks

LEMMA ShapeStep ==
  ASSUME Shape, [Next]_vars
  PROVE  Shape'
BY TypesStep, BoundStep, LocksStep DEF Shape

-----------------------------------------------------------------------------
(* What becomes of a Document, and the safety of its status.               *)

Stays(d) == status'[d] = status[d] /\ chunks'[d] = chunks[d]
Rewritten(d) ==
  \E w \in Workers : /\ ClaimCommit(w) /\ worker[w].step = "commit"
                     /\ d \in DOMAIN worker[w].plan.documents
                     /\ status'[d] = worker[w].plan.documents[d] /\ chunks'[d] = chunks[d]
Published(d) ==
  /\ status[d] = "processing" /\ status'[d] = "ready" /\ chunks'[d] \in Versions
Moves(d) ==
  /\ chunks'[d] = chunks[d]
  /\ \/ status[d] \notin {"deleting", "purged"} /\ status'[d] = "deleting"
     \/ status[d] \in {"pending", "failed", "processing"} /\ status'[d] = "processing"
     \/ status[d] = "processing" /\ status'[d] = "failed"
Purged(d) ==
  Purge(d) /\ status[d] = "deleting" /\ status'[d] = "purged" /\ chunks'[d] = None

Retried(d) ==
  /\ chunks'[d] = chunks[d] /\ status[d] # "purged" /\ status'[d] \in {"pending", "failed"}
  /\ \E q \in Requests : /\ RetryCommit(q) \/ RetrySendFails(q)
                         /\ d \in request[q].documents

Fate(d) ==
  Stays(d) \/ Rewritten(d) \/ Published(d) \/ Moves(d) \/ Retried(d) \/ Purged(d)

LEMMA Fates ==
  ASSUME Shape, [Next]_vars, NEW d \in Documents
  PROVE  Fate(d)
<1>1. DocumentWriters /\ Types /\ Bound
  BY Writers DEF Footprint, Shape
<1>2. status \in [Documents -> Statuses] /\ chunks \in [Documents -> Versions \union {None}]
  BY <1>1 DEF Types
<1>3. ASSUME NEW q \in Requests, NEW e \in Documents, DeleteDocument(q, e)
      PROVE  Stays(d) \/ Moves(d)
  BY <1>2, <1>3 DEF DeleteDocument, Stays, Moves
<1>10. ASSUME NEW q \in Requests, RetryCommit(q) \/ RetrySendFails(q)
       PROVE  Stays(d) \/ Retried(d)
  <2>1. request[q].documents = {Subject(q)}
    BY <1>1, <1>10, SubjectIs DEF RetryCommit, RetrySendFails, RetryPhases
  <2>2. chunks' = chunks
    BY <1>10 DEF RetryCommit, RetrySendFails
  <2>3. CASE d = Subject(q)
    <3>1. \/ status'[d] = status[d]
          \/ status[d] # "purged" /\ status'[d] \in {"pending", "failed"}
      BY <1>2, <1>10, <2>3 DEF RetryCommit, RetrySendFails
    <3> QED
      BY <1>10, <2>1, <2>2, <2>3, <3>1 DEF Stays, Retried
  <2>4. CASE d # Subject(q)
    BY <1>2, <1>10, <2>2, <2>4 DEF RetryCommit, RetrySendFails, Stays
  <2> QED
    BY <2>3, <2>4
<1>4. ASSUME NEW w \in Workers, ClaimCommit(w) PROVE Stays(d) \/ Rewritten(d)
  <2>1. chunks' = chunks /\ worker[w].step = "commit"
        /\ status'[d] = IF d \in DOMAIN worker[w].plan.documents
                          THEN worker[w].plan.documents[d] ELSE status[d]
    BY <1>4 DEF ClaimCommit, Written
  <2> QED
    BY <1>4, <2>1 DEF Stays, Rewritten
<1>5. ASSUME NEW w \in Workers, IngestClaim(w) PROVE Stays(d) \/ Moves(d)
  BY <1>2, <1>5 DEF IngestClaim, Stays, Moves
<1>6. ASSUME NEW w \in Workers, FailIngestion(w) PROVE Stays(d) \/ Moves(d)
  BY <1>2, <1>6 DEF FailIngestion, Stays, Moves
<1>7. ASSUME NEW w \in Workers, Publish(w) PROVE Stays(d) \/ Published(d)
  <2>1. worker[w].version \in Versions
    BY <1>1, <1>7 DEF Bound, WorkerBound, Publish, Ingesting
  <2> QED
    BY <1>2, <1>7, <2>1 DEF Publish, documentVars, Stays, Published
<1>8. ASSUME NEW e \in Documents, Purge(e) PROVE Stays(d) \/ Purged(d)
  BY <1>2, <1>8 DEF Purge, Stays, Purged
<1>9. ASSUME UNCHANGED <<status, chunks>> PROVE Stays(d)
  BY <1>9 DEF Stays
<1> QED
  BY <1>1, <1>3, <1>4, <1>5, <1>6, <1>7, <1>8, <1>9, <1>10 DEF DocumentWriters, Fate

(* What is listed, or about to be, has chunks, and what is purged is not   *)
(* listed.                                                                 *)
Stored ==
  /\ ReadyIsSearchable
  /\ \A j \in Jobs : \A d \in Listed(j) : chunks[d] # None /\ status[d] # "purged"
  /\ \A q \in Requests : request[q].phase = "insert" =>
       \A d \in request[q].documents : chunks[d] # None \/ status[d] = "purged"

LEMMA StoredInit == Init => Stored
<1> SUFFICES ASSUME Init PROVE Stored
  OBVIOUS
<1>1. PICK f \in SUBSET Documents :
        /\ status = [d \in Documents |-> IF d \in f THEN "failed" ELSE "ready"]
        /\ chunks = [d \in Documents |-> IF d \in f THEN None ELSE Legacy]
  BY DEF Init
<1>2. Legacy # None
  BY Assumed DEF Assumptions
<1>3. ReadyIsSearchable
  BY <1>1, <1>2 DEF ReadyIsSearchable
<1>4. \A j \in Jobs : Listed(j) = {}
  BY DEF Init, Listed, NoItem
<1> QED
  BY <1>3, <1>4 DEF Stored, Init, Free

LEMMA StoredStep ==
  ASSUME Shape, Stored, [Next]_vars
  PROVE  Stored'
<1>1. None \notin Versions
  BY Assumed DEF Assumptions
<1>2. ASSUME NEW d \in Documents, Rewritten(d)
      PROVE  \E j \in Jobs : d \in Listed(j)
  <2>1. PICK w \in Workers : /\ ClaimCommit(w) /\ worker[w].step = "commit"
                             /\ d \in DOMAIN worker[w].plan.documents
    BY <1>2 DEF Rewritten
  <2> QED
    BY <2>1, ClaimCommitEffect DEF Shape, Locks, WorkerLocks
<1>3. ASSUME NEW d \in Documents, chunks[d] # None
      PROVE  chunks'[d] # None \/ Purged(d)
  BY <1>1, <1>3, Fates DEF Fate, Stays, Rewritten, Published, Moves, Retried
<1>4. ASSUME NEW d \in Documents, status[d] = "purged" PROVE status'[d] = "purged"
  BY <1>2, <1>4, Fates DEF Fate, Stays, Published, Moves, Retried, Purged, Stored
<1>5. ASSUME NEW d \in Documents, status'[d] = "purged"
      PROVE  status[d] = "purged" \/ Purged(d)
  <2>1. CASE Rewritten(d)
    <3>1. PICK w \in Workers : /\ ClaimCommit(w) /\ d \in DOMAIN worker[w].plan.documents
                               /\ status'[d] = worker[w].plan.documents[d]
      BY <2>1 DEF Rewritten
    <3>2. worker[w].plan \in Plans
      BY <3>1, WorkerIsAState DEF Shape, WorkerStates
    <3> QED
      BY <1>5, <3>1, <3>2, PlanFields
  <2> QED
    BY <1>5, <2>1, Fates DEF Fate, Stays, Published, Moves, Retried
<1>6. ASSUME NEW d \in Documents, status'[d] = "ready"
      PROVE  chunks'[d] # None
  <2>1. CASE Stays(d)
    BY <1>6, <2>1 DEF Stays, Stored, ReadyIsSearchable
  <2>2. CASE Rewritten(d)
    BY <1>2, <2>2 DEF Rewritten, Stored
  <2>3. CASE Published(d)
    BY <1>1, <2>3 DEF Published
  <2>4. CASE Moves(d) \/ Retried(d) \/ Purged(d)
    BY <1>6, <2>4 DEF Moves, Retried, Purged
  <2> QED
    BY <2>1, <2>2, <2>3, <2>4, Fates DEF Fate
<1>7. ASSUME NEW j \in Jobs, NEW d \in Documents, item'[j][d].status # "none"
      PROVE  chunks'[d] # None /\ status'[d] # "purged"
  <2>1. ~Purge(d)
    BY <1>7, PurgeItems DEF Shape, NoItem
  <2>2. chunks[d] # None /\ status[d] # "purged"
    <3>1. CASE item[j][d].status # "none"
      BY <3>1 DEF Stored, Listed
    <3>2. ASSUME NEW q \in Requests, Insert(q), j = InsertedJob(q)
          PROVE  chunks[d] # None /\ status[d] # "purged"
      <4>1. d \in request[q].documents /\ status[d] # "purged"
        BY <1>7, <3>2, InsertItems DEF Shape, Insert
      <4> QED
        BY <3>2, <4>1 DEF Stored, Insert
    <3> QED
      BY <1>7, <2>1, <3>1, <3>2, ItemsStay
  <2> QED
    BY <1>3, <1>5, <2>1, <2>2 DEF Purged
<1>8. ASSUME NEW p \in Requests, request'[p].phase = "insert",
             NEW d \in request'[p].documents
      PROVE  chunks'[d] # None \/ status'[d] = "purged"
  <2>1. RequestMovers /\ Types /\ Bound
    BY Writers DEF Footprint, Shape
  <2>2. CASE request'[p] = request[p]
    <3>1. d \in Documents /\ (chunks[d] # None \/ status[d] = "purged")
      BY <1>8, <2>1, <2>2 DEF Stored, Types, RequestStates
    <3> QED
      BY <1>3, <1>4, <3>1 DEF Purged
  <2>3. CASE Create(p) \/ Rollback(p)
    <3>1. PICK documents \in SUBSET Documents :
            /\ Selects(p, documents)
            /\ \A e \in documents : status[e] = "ready" \/ chunks[e] # None
      BY <1>8, <2>1, <2>3, CreateEffect DEF Ends, Done, Free
    <3>2. d \in Documents /\ chunks[d] # None
      BY <1>8, <3>1 DEF Selects, Stored, ReadyIsSearchable
    <3> QED
      BY <1>3, <3>2 DEF Purged
  <2>4. ASSUME NEW q \in Requests, OnlyRequest(q), q # p
        PROVE  request'[p] = request[p]
    BY <2>4 DEF OnlyRequest
  <2>5. ASSUME NEW q \in Requests, OnlyRequest(q), request'[q].phase # "insert"
        PROVE  request'[p] = request[p]
    BY <1>8, <2>4, <2>5
  <2>6. ASSUME NEW q \in Requests, Create(q) \/ Rollback(q), q # p
        PROVE  request'[p] = request[p]
    BY <2>1, <2>4, <2>6, CreateEffect DEF Ends, Selects
  <2>7. ASSUME NEW q \in Requests, Insert(q) \/ ReadJob(q) PROVE request'[p] = request[p]
    <3>1. \E phase \in {"enqueue", "write"}, j \in Jobs : Addresses(q, phase, j)
      BY <2>1, <2>7, InsertEffect, ReadJobEffect
    <3> QED
      BY <2>5, <3>1 DEF Addresses
  <2>8. ASSUME NEW q \in Requests, Ends(q) PROVE request'[p] = request[p]
    BY <2>5, <2>8 DEF Ends, Done, Free
  <2>9. ASSUME NEW q \in Requests, WriteJob(q) \/ EnqueueFails(q)
        PROVE  request'[p] = request[p]
    <3>1. Ends(q) \/ \E phase \in {"enqueue", "giveUp"} : Proceeds(q, phase)
      BY <2>1, <2>9, WriteJobEffect, RequestEffect
    <3> QED
      BY <2>5, <2>8, <3>1 DEF Proceeds
  <2>10. ASSUME NEW q \in Requests,
                \/ InsertFails(q) \/ Enqueue(q) \/ GiveUp(q)
                \/ \E e \in Documents : DeleteDocument(q, e)
         PROVE  request'[p] = request[p]
    BY <2>1, <2>8, <2>10, RequestEffect
  <2>11. ASSUME NEW q \in Requests, ApiCrash(q) \/ RetrySteps(q)
         PROVE  request'[p] = request[p]
    <3>1. Ends(q) \/ \E phase \in RetryPhases, e \in Documents : Carries(q, phase, {e})
      BY <2>1, <2>11, RetryMoves
    <3> QED
      BY <2>5, <2>8, <3>1 DEF Carries, RetryPhases
  <2>12. \/ request'[p] = request[p] \/ Create(p) \/ Rollback(p)
    BY <2>1, <2>6, <2>7, <2>9, <2>10, <2>11 DEF RequestMovers
  <2> QED
    BY <2>2, <2>3, <2>12
<1> QED
  BY <1>6, <1>7, <1>8 DEF Stored, ReadyIsSearchable, Listed

-----------------------------------------------------------------------------
(* Who drives a job.                                                       *)

Waiting(q, j) == request[q].job = j /\ request[q].phase \in {"enqueue", "giveUp"}
Claims(w, j) == worker[w].job = j /\ worker[w].step \in {"claim", "commit"}

(* A queued job has yet to be claimed; a running one has some worker.      *)
Pulled(j) ==
  \/ batches[j] > 0
  \/ \E q \in Requests : Waiting(q, j)
  \/ \E w \in Workers : Claims(w, j)
  \/ job[j].status = "running" /\ \E w \in Workers : Drives(w, j)

Driven == \A j \in Jobs : job[j].status \in Claimed /\ j \notin lost => Pulled(j)

LEMMA LostStays ==
  ASSUME [Next]_vars
  PROVE  lost \subseteq lost'
<1>1. LostWriters
  BY Writers DEF Footprint
<1> QED
  BY <1>1 DEF LostWriters, ApiCrash, FinishStale, Raise, Abandon

LEMMA BatchesKept ==
  ASSUME Shape, [Next]_vars, NEW j \in Jobs, batches[j] > 0
  PROVE  batches'[j] > 0 \/ \E w \in Workers : TakeBatch(w, j)
<1>1. BatchWriters /\ batches \in [Jobs -> Nat]
  BY Writers DEF Footprint, Shape, Types
<1>2. ASSUME NEW i, batches' = [batches EXCEPT ![i] = @ + 1] PROVE batches'[j] > 0
  BY <1>1, <1>2
<1>3. ASSUME NEW q \in Requests, Enqueue(q) PROVE batches'[j] > 0
  BY <1>2, <1>3 DEF Enqueue
<1>4. ASSUME NEW w \in Workers, Continue(w) \/ Redeliver(w) PROVE batches'[j] > 0
  BY <1>2, <1>4 DEF Continue, Redeliver
<1>5. ASSUME NEW w \in Workers, Crash(w) PROVE batches'[j] > 0
  BY <1>2, <1>5 DEF Crash
<1>6. ASSUME NEW w \in Workers, NEW i \in Jobs, TakeBatch(w, i), i # j
      PROVE  batches'[j] > 0
  BY <1>1, <1>6 DEF TakeBatch
<1>7. ASSUME UNCHANGED batches PROVE batches'[j] > 0
  BY <1>7
<1> QED
  BY <1>1, <1>3, <1>4, <1>5, <1>6, <1>7 DEF BatchWriters

(* How the status of a job may come about.                                 *)
LEMMA StatusSteps ==
  ASSUME Shape, [Next]_vars, NEW j \in Jobs
  PROVE  \/ job'[j].status = job[j].status
         \/ job'[j].status \notin Claimed
         \/ \E q \in Requests : request'[q].job = j /\ request'[q].phase = "enqueue"
         \/ \E w \in Workers : /\ ClaimCommit(w) /\ worker[w].job = j
                               /\ job'[j].status = "running" /\ job[j].status \in Claimed
<1> DEFINE Same == job'[j].status = job[j].status
           Stops == job'[j].status \notin Claimed
           Sent == \E q \in Requests : request'[q].job = j /\ request'[q].phase = "enqueue"
           Begins == \E w \in Workers :
             /\ ClaimCommit(w) /\ worker[w].job = j
             /\ job'[j].status = "running" /\ job[j].status \in Claimed
<1>1. JobWriters /\ Types /\ Bound
  BY Writers DEF Footprint, Shape
<1>2. ASSUME NEW i \in Jobs, OnlyJob(i), i # j PROVE Same
  BY <1>2 DEF OnlyJob
<1>3. ASSUME NEW q \in Requests, Insert(q) PROVE Same \/ Sent
  <2>1. InsertedJob(q) \in Jobs /\ OnlyJob(InsertedJob(q))
        /\ Addresses(q, "enqueue", InsertedJob(q))
    BY <1>1, <1>3, InsertEffect
  <2>2. CASE j = InsertedJob(q)
    BY <2>1, <2>2 DEF Addresses
  <2> QED
    BY <1>2, <2>1, <2>2
<1>4. ASSUME NEW q \in Requests, WriteJob(q) PROVE Same \/ Sent \/ Stops
  <2>1. CASE j = request[q].job
    BY <1>1, <1>4, <2>1, WriteJobEffect DEF Becomes, Proceeds, Claimed
  <2>2. CASE j # request[q].job
    BY <1>1, <1>2, <1>4, <2>2, WriteJobEffect DEF Becomes
  <2> QED
    BY <2>1, <2>2
<1>5. ASSUME NEW q \in Requests, GiveUp(q) PROVE Same \/ Stops
  BY <1>1, <1>2, <1>5, RequestEffect DEF Becomes, Claimed
<1>6. ASSUME NEW w \in Workers, PauseWrite(w) PROVE Same \/ Stops
  BY <1>1, <1>2, <1>6, WorkerJobEffect DEF Becomes, Claimed
<1>7. ASSUME NEW w \in Workers, RefreshJob(w) PROVE Same \/ Stops
  BY <1>1, <1>2, <1>7, RefreshJobEffect DEF Claimed
<1>8. ASSUME NEW w \in Workers, ClaimCommit(w) PROVE Same \/ Begins
  <2>1. worker[w].job \in Jobs /\ Becomes(worker[w].job, "running")
    BY <1>1, <1>8, ClaimCommitEffect, WorkerJobEffect
  <2>2. CASE j = worker[w].job
    <3>1. job[j].status \in Claimed
      BY <1>8, <2>2 DEF Shape, Locks, WorkerLocks, ClaimCommit
    <3> QED
      BY <1>8, <2>1, <2>2, <3>1 DEF Becomes
  <2> QED
    BY <1>2, <2>1, <2>2 DEF Becomes
<1>9. ASSUME UNCHANGED job PROVE Same
  BY <1>9
<1>10. Same \/ Sent \/ Stops \/ Begins
  <2> HIDE DEF Same, Sent, Stops, Begins
  <2> QED
    BY <1>1, <1>3, <1>4, <1>5, <1>6, <1>7, <1>8, <1>9, Zenon DEF JobWriters
<1> QED
  BY <1>10

(* A request that has a message to send sends it, passes its job on to be  *)
(* paused, pauses it, or loses the message.                                *)
LEMMA WaitingSteps ==
  ASSUME Shape, [Next]_vars, NEW q \in Requests, NEW j \in Jobs, Waiting(q, j)
  PROVE  \/ Waiting(q, j)' \/ batches'[j] > 0
         \/ job'[j].status \notin Claimed \/ j \in lost'
<1>1. RequestMovers /\ Types /\ Bound
  BY Writers DEF Footprint, Shape
<1> DEFINE Goal == \/ Waiting(q, j)' \/ batches'[j] > 0
                   \/ job'[j].status \notin Claimed \/ j \in lost'
<1>2. ASSUME request'[q] = request[q] PROVE Waiting(q, j)'
  BY <1>2 DEF Waiting
<1>3. ASSUME NEW p \in Requests, OnlyRequest(p), p # q PROVE Waiting(q, j)'
  BY <1>2, <1>3 DEF OnlyRequest
<1>4. ASSUME NEW p \in Requests, Enqueue(p) PROVE Goal
  <2>1. CASE p = q
    <3>1. batches \in [Jobs -> Nat] /\ batches' = [batches EXCEPT ![j] = @ + 1]
      BY <1>1, <1>4, <2>1 DEF Types, Enqueue, Waiting
    <3> QED
      BY <3>1, CountedUp
  <2> QED
    BY <1>1, <1>3, <1>4, <2>1, RequestEffect DEF Ends
<1>5. ASSUME NEW p \in Requests, EnqueueFails(p) PROVE Goal
  <2>1. Proceeds(p, "giveUp")
    BY <1>1, <1>5, RequestEffect
  <2>2. CASE p = q
    BY <2>1, <2>2 DEF Proceeds, Waiting
  <2> QED
    BY <1>3, <2>1, <2>2 DEF Proceeds
<1>6. ASSUME NEW p \in Requests, GiveUp(p) PROVE Goal
  <2>1. Ends(p) /\ Becomes(request[p].job, "paused")
    BY <1>1, <1>6, RequestEffect
  <2>2. CASE p = q
    BY <2>1, <2>2 DEF Becomes, Waiting, Claimed
  <2> QED
    BY <1>3, <2>1, <2>2 DEF Ends
<1>7. ASSUME NEW p \in Requests, ApiCrash(p) PROVE Goal
  <2>1. CASE p = q
    BY <1>7, <2>1 DEF ApiCrash, Waiting
  <2> QED
    BY <1>1, <1>3, <1>7, <2>1, RetryMoves DEF Ends, Carries
<1>8. ASSUME NEW p \in Requests, p # q,
             \/ Create(p) \/ Rollback(p) \/ Insert(p) \/ InsertFails(p)
             \/ ReadJob(p) \/ WriteJob(p) \/ RetrySteps(p)
             \/ \E d \in Documents : DeleteDocument(p, d)
      PROVE  Waiting(q, j)'
  <2>1. OnlyRequest(p)
    BY <1>1, <1>8, CreateEffect, InsertEffect, ReadJobEffect, WriteJobEffect, RequestEffect,
       RetryMoves
    DEF Ends, Selects, Addresses, Proceeds, Carries
  <2> QED
    BY <1>3, <1>8, <2>1
<1>9. /\ ~Create(q) /\ ~Rollback(q) /\ ~Insert(q) /\ ~InsertFails(q)
      /\ ~ReadJob(q) /\ ~WriteJob(q) /\ ~RetrySteps(q)
      /\ \A d \in Documents : ~DeleteDocument(q, d)
  BY DEF Waiting, Create, Rollback, ReadActive, Insert, InsertFails, ReadJob, WriteJob,
     RetrySteps, RetryRead, RetryCommit, RetryRefresh, RetrySend, RetrySendFails,
     DeleteDocument
<1>10. ASSUME UNCHANGED request PROVE Waiting(q, j)'
  BY <1>2, <1>10
<1> QED
  BY <1>1, <1>4, <1>5, <1>6, <1>7, <1>8, <1>9, <1>10 DEF RequestMovers

(* A worker that drives a job goes on driving it, or has a message sent,   *)
(* or the job is over, or a message of it is lost.                         *)
LEMMA DrivesSteps ==
  ASSUME Shape, [Next]_vars, NEW w \in Workers, NEW j \in Jobs, Drives(w, j),
         Claims(w, j) \/ job[j].status = "running",
         job[j].status \in Claimed, job'[j].status \in Claimed, j \notin lost'
  PROVE  \/ batches'[j] > 0
         \/ Drives(w, j)' /\ (Claims(w, j) => Claims(w, j)' \/ ClaimCommit(w))
<1>1. WorkerMovers /\ Types /\ Bound
  BY Writers DEF Footprint, Shape
<1> DEFINE On == Drives(w, j)' /\ (Claims(w, j) => Claims(w, j)' \/ ClaimCommit(w))
<1>2. ASSUME worker'[w] = worker[w] PROVE On
  BY <1>2 DEF Drives, Claims
<1>3. ASSUME NEW v \in Workers, OnlyWorker(v), v # w PROVE On
  BY <1>2, <1>3 DEF OnlyWorker
<1>4. worker[w].job = j /\ j # None /\ worker[w].step # "idle" /\ j \in Jobs
  BY Assumed DEF Drives, Assumptions
<1>5. ASSUME NEW s, Stands(w, s), s # "idle", worker[w].step \notin {"claim", "commit"}
      PROVE  On
  BY <1>4, <1>5 DEF Stands, Keeps, Drives, Claims
<1>6. ASSUME NEW v \in Workers, ClaimRead(v) PROVE On
  <2>1. CASE v = w
    <3>1. Stands(w, "commit")
      BY <1>1, <1>4, <1>6, <2>1, ClaimReadEffect
    <3> QED
      BY <1>4, <3>1 DEF Stands, Keeps, Drives, Claims
  <2> QED
    BY <1>1, <1>3, <1>6, <2>1, ClaimReadEffect DEF Stands
<1>7. ASSUME NEW v \in Workers, ClaimCommit(v) PROVE On
  <2>1. CASE v = w
    BY <1>1, <1>4, <1>7, <2>1, ClaimCommitEffect DEF Drives
  <2> QED
    BY <1>1, <1>3, <1>7, <2>1, ClaimCommitEffect
<1>8. ASSUME NEW v \in Workers, IngestClaim(v) \/ ContinueFails(v) PROVE On
  <2>1. \E s \in {"work", "pause"} : Stands(v, s)
    BY <1>1, <1>8, PauseEffect
  <2>2. worker[v].step \notin {"claim", "commit"}
    BY <1>8 DEF IngestClaim, ContinueFails
  <2> QED
    BY <1>3, <1>5, <2>1, <2>2 DEF Stands
<1>9. ASSUME NEW v \in Workers, IngestRefused(v) \/ Publish(v) \/ FailIngestion(v)
      PROVE  On
  <2>1. Leaves(v) /\ worker[v].step \notin {"claim", "commit"}
    BY <1>1, <1>9, IngestionEffect DEF IngestRefused, Publish, FailIngestion
  <2>2. CASE v = w
    BY <1>4, <1>5, <2>1, <2>2 DEF Leaves
  <2> QED
    BY <1>3, <2>1, <2>2 DEF Leaves, Frees, Stands
<1>10. ASSUME NEW v \in Workers, FinishRead(v) \/ FinishWrite(v) PROVE On
  <2>1. Advances(v) \/ Stands(v, "record")
    BY <1>1, <1>10, FinishReadEffect, FinishWriteEffect
  <2>2. worker[v].step \notin {"claim", "commit"}
    BY <1>10 DEF FinishRead, FinishWrite
  <2>3. CASE v = w /\ Advances(v)
    BY <1>4, <2>2, <2>3 DEF Advances, Drives, Claims
  <2>4. CASE v = w /\ Stands(v, "record")
    BY <1>5, <2>2, <2>4
  <2> QED
    BY <1>3, <2>1, <2>3, <2>4 DEF Advances, Stands
<1>11. ASSUME NEW v \in Workers, FinishStale(v) \/ Raise(v) PROVE On
  <2>1. v # w
    BY <1>4, <1>11 DEF FinishStale, Raise, Abandon
  <2> QED
    BY <1>1, <1>3, <1>11, <2>1, FreeEffect DEF Frees
<1>12. ASSUME NEW v \in Workers, PauseWrite(v) PROVE On
  <2>1. v # w
    BY <1>1, <1>4, <1>12, WorkerJobEffect DEF Becomes, Claimed
  <2> QED
    BY <1>1, <1>3, <1>12, <2>1, FreeEffect DEF Frees
<1>13. ASSUME NEW v \in Workers, PauseRead(v) PROVE On
  <2>1. CASE v = w
    <3>1. Stands(w, "pauseWrite") /\ worker[w].step \notin {"claim", "commit"}
      BY <1>1, <1>4, <1>13, <2>1, PauseEffect DEF PauseRead
    <3> QED
      BY <1>5, <3>1
  <2> QED
    BY <1>1, <1>3, <1>13, <2>1, PauseEffect DEF Frees, Stands
<1>14. ASSUME NEW v \in Workers, RefreshJob(v) PROVE On
  <2>1. CASE v = w
    <3>1. job[j].status = "running"
      BY <1>14, <2>1 DEF Claims, RefreshJob
    <3>2. ~Ended(j)
      BY <1>1, <1>4, <1>14, <2>1, RefreshJobEffect DEF Claimed
    <3>3. GoesOn(j)
      BY <3>1, <3>2 DEF Ended, GoesOn
    <3>4. Enters(w, "continue", j)
      BY <1>1, <1>4, <1>14, <2>1, <3>3, RefreshEffect
    <3> QED
      BY <1>14, <2>1, <3>4 DEF Enters, Drives, Claims, RefreshJob
  <2> QED
    BY <1>1, <1>3, <1>14, <2>1, RefreshEffect DEF Frees, Enters
<1>15. ASSUME NEW v \in Workers, Continue(v) \/ Crash(v) PROVE batches'[j] > 0 \/ On
  <2>1. CASE v = w
    <3>1. batches \in [Jobs -> Nat] /\ batches' = [batches EXCEPT ![j] = @ + 1]
      BY <1>1, <1>4, <1>15, <2>1 DEF Types, Continue, Crash
    <3> QED
      BY <1>4, <3>1, CountedUp
  <2> QED
    BY <1>1, <1>3, <1>15, <2>1, FreeEffect DEF Frees
<1>16. ASSUME NEW v \in Workers,
              \/ \E i \in Jobs : TakeBatch(v, i)
              \/ \E d \in Documents : TakeIngest(v, d)
       PROVE  On
  <2>1. v # w
    <3>1. worker[v] = Idle
      BY <1>16 DEF TakeBatch, TakeIngest
    <3> QED
      BY <1>4, <3>1 DEF Idle
  <2>2. OnlyWorker(v)
    BY <1>1, <1>16, TakeBatchEffect, TakeIngestEffect DEF Enters
  <2> QED
    BY <1>3, <2>1, <2>2
<1>17. ASSUME UNCHANGED worker PROVE On
  BY <1>2, <1>17
<1>18. batches'[j] > 0 \/ On
  <2> HIDE DEF On
  <2> QED
    BY <1>1, <1>6, <1>7, <1>8, <1>9, <1>10, <1>11, <1>12, <1>13, <1>14, <1>15, <1>16,
       <1>17, Zenon DEF WorkerMovers
<1> QED
  BY <1>18

LEMMA DrivenInit == Init => Driven
BY DEF Init, Driven, NoJob, Claimed

LEMMA DrivenStep ==
  ASSUME Shape, Driven, [Next]_vars
  PROVE  Driven'
<1> SUFFICES ASSUME NEW j \in Jobs, job'[j].status \in Claimed, j \notin lost'
             PROVE  Pulled(j)'
  BY DEF Driven
<1>1. j \notin lost
  BY LostStays
<1>2. ASSUME NEW q \in Requests, request'[q].job = j, request'[q].phase = "enqueue"
      PROVE  Pulled(j)'
  BY <1>2 DEF Pulled, Waiting
<1>3. CASE job[j].status \notin Claimed
  BY <1>2, <1>3, StatusSteps
<1>4. CASE job[j].status \in Claimed
  <2>1. CASE batches[j] > 0
    <3>1. ASSUME NEW w \in Workers, TakeBatch(w, j) PROVE Claims(w, j)'
      BY <3>1, TakeBatchEffect DEF Shape, Enters, Claims
    <3> QED
      BY <2>1, <3>1, BatchesKept DEF Pulled
  <2>2. CASE \E q \in Requests : Waiting(q, j)
    BY <2>2, WaitingSteps DEF Pulled
  <2>3. ASSUME NEW w \in Workers, ClaimCommit(w), worker[w].job = j
        PROVE  job'[j].status = "running"
    BY <2>3, WorkerJobEffect DEF Shape, Becomes
  <2>4. CASE \E w \in Workers : Claims(w, j)
    <3>1. PICK w \in Workers : Claims(w, j)
      BY <2>4
    <3>2. Drives(w, j) /\ worker[w].job = j
      BY <3>1 DEF Claims, Drives
    <3>3. batches'[j] > 0 \/ (Drives(w, j)' /\ (Claims(w, j)' \/ ClaimCommit(w)))
      BY <1>4, <3>1, <3>2, DrivesSteps
    <3> QED
      BY <2>3, <3>2, <3>3 DEF Pulled
  <2>5. CASE job[j].status = "running" /\ \E w \in Workers : Drives(w, j)
    <3>1. PICK w \in Workers : Drives(w, j)
      BY <2>5
    <3>2. batches'[j] > 0 \/ Drives(w, j)'
      BY <1>4, <2>5, <3>1, DrivesSteps
    <3>3. job'[j].status = "running" \/ Pulled(j)'
      BY <1>2, <2>5, StatusSteps
    <3> QED
      BY <3>2, <3>3 DEF Pulled
  <2> QED
    BY <1>1, <1>4, <2>1, <2>2, <2>4, <2>5 DEF Driven, Pulled
<1> QED
  BY <1>3, <1>4

-----------------------------------------------------------------------------
(* Whose item it is.                                                       *)

(* A worker's batch shrinks, unless it has just been claimed.              *)
LEMMA TodoSteps ==
  ASSUME Shape, [Next]_vars, NEW w \in Workers
  PROVE  \/ worker'[w].job = worker[w].job /\ worker'[w].todo \subseteq worker[w].todo
         \/ worker'[w].todo = {}
         \/ worker'[w].job = None
         \/ ClaimCommit(w)
<1> DEFINE Same == worker'[w].job = worker[w].job /\ worker'[w].todo \subseteq worker[w].todo
           Emptied == worker'[w].todo = {} \/ worker'[w].job = None
<1>1. WorkerMovers /\ Types /\ Bound
  BY Writers DEF Footprint, Shape
<1>2. ASSUME worker'[w] = worker[w] PROVE Same
  BY <1>2
<1>3. ASSUME NEW v \in Workers, OnlyWorker(v), v # w PROVE Same
  BY <1>2, <1>3 DEF OnlyWorker
<1>4. ASSUME NEW v \in Workers, NEW s, Stands(v, s) PROVE Same
  BY <1>3, <1>4 DEF Stands, Keeps
<1>5. ASSUME NEW v \in Workers, Frees(v) PROVE Same \/ Emptied
  BY <1>3, <1>5 DEF Frees, Idle
<1>6. ASSUME NEW v \in Workers, Advances(v) PROVE Same
  BY <1>3, <1>6 DEF Advances
<1>7. ASSUME NEW v \in Workers, NEW s, NEW j, Enters(v, s, j) PROVE Same \/ Emptied
  BY <1>3, <1>7 DEF Enters
<1>8. ASSUME NEW v \in Workers, ClaimRead(v) \/ IngestClaim(v) \/ ContinueFails(v)
      PROVE  Same
  BY <1>1, <1>4, <1>8, ClaimReadEffect, PauseEffect
<1>9. ASSUME NEW v \in Workers, IngestRefused(v) \/ Publish(v) \/ FailIngestion(v)
      PROVE  Same \/ Emptied
  BY <1>1, <1>4, <1>5, <1>9, IngestionEffect DEF Leaves
<1>10. ASSUME NEW v \in Workers, FinishRead(v) \/ FinishWrite(v) PROVE Same
  BY <1>1, <1>4, <1>6, <1>10, FinishReadEffect, FinishWriteEffect
<1>11. ASSUME NEW v \in Workers,
              \/ FinishStale(v) \/ Continue(v) \/ PauseWrite(v) \/ Crash(v) \/ Raise(v)
       PROVE  Same \/ Emptied
  BY <1>1, <1>5, <1>11, FreeEffect
<1>12. ASSUME NEW v \in Workers, PauseRead(v) \/ RefreshJob(v) PROVE Same \/ Emptied
  BY <1>1, <1>4, <1>5, <1>7, <1>12, PauseEffect, RefreshEffect
<1>13. ASSUME NEW v \in Workers, NEW j \in Jobs, TakeBatch(v, j) PROVE Same \/ Emptied
  BY <1>1, <1>7, <1>13, TakeBatchEffect
<1>14. ASSUME NEW v \in Workers, NEW d \in Documents, TakeIngest(v, d)
       PROVE  Same \/ Emptied
  BY <1>1, <1>3, <1>14, TakeIngestEffect
<1>15. ASSUME NEW v \in Workers, ClaimCommit(v) PROVE Same \/ ClaimCommit(w)
  BY <1>1, <1>3, <1>15, ClaimCommitEffect
<1>16. ASSUME UNCHANGED worker PROVE Same
  BY <1>2, <1>16
<1>17. Same \/ Emptied \/ ClaimCommit(w)
  <2> HIDE DEF Same, Emptied
  <2> QED
    BY <1>1, <1>8, <1>9, <1>10, <1>11, <1>12, <1>13, <1>14, <1>15, <1>16, Zenon
    DEF WorkerMovers
<1> QED
  BY <1>17

(* A Document that two batches have was marked by the second of them.      *)
LEMMA HistorySteps ==
  ASSUME [Next]_vars
  PROVE  shared \subseteq shared' /\ crossed \subseteq crossed'
<1>1. HistoryWriters
  BY Writers DEF Footprint
<1> QED
  BY <1>1 DEF HistoryWriters, ClaimRead

Over == {"completed", "failed"}
Left(j) == IF job[j].status = "completed" THEN {"pending", "processing", "failed"}
                                          ELSE {"pending", "processing"}

Mine(w) ==
  worker[w].job \in Jobs =>
    \A d \in worker[w].todo \ shared :
      item[worker[w].job][d].status \in {"processing", "none"}
Alone(v, w) ==
  v # w /\ worker[v].job = worker[w].job /\ worker[v].job \in Jobs =>
    worker[v].todo \intersect worker[w].todo \subseteq shared

(* The same for a claim and who is at what it is going to take.            *)
Solo(w, v) ==
  worker[w].step = "commit" /\ v # w /\ worker[v].job = worker[w].job =>
    worker[v].todo \intersect DOMAIN worker[w].plan.items \subseteq shared

Owned ==
  /\ \A w \in Workers : Mine(w)
  /\ \A v, w \in Workers : Alone(v, w)
  /\ \A v, w \in Workers : Solo(w, v)
  /\ \A j \in Jobs : job[j].status \in Over => Where(j, Left(j)) \subseteq shared

LEMMA OwnedInit == Init => Owned
BY Assumed DEF Init, Owned, Mine, Alone, Solo, Over, Idle, NoJob, Assumptions

LEMMA SoloStep ==
  ASSUME Shape, Owned, [Next]_vars, NEW w \in Workers, NEW v \in Workers,
         worker'[w].step = "commit", v # w, worker'[v].job = worker'[w].job,
         NEW d \in worker'[v].todo \intersect DOMAIN worker'[w].plan.items
  PROVE  d \in shared'
<1>1. None \notin Jobs /\ Types /\ Bound /\ Locks /\ shared \subseteq shared'
  BY HistorySteps, Assumed DEF Assumptions, Shape
<1>2. CASE ClaimRead(w)
  <2>1. worker'[w].job = worker[w].job /\ worker'[v] = worker[v]
    BY <1>1, <1>2, ClaimReadEffect DEF Stands, Keeps, OnlyWorker
  <2>2. TakenFrom(w, d)
    BY <2>1 DEF TakenFrom
  <2> QED
    BY <1>1, <1>2, <2>2, ClaimReadMarks
<1>3. CASE worker'[w] = worker[w] /\ ~ClaimCommit(w)
  <2>1. worker[w].step = "commit" /\ worker[w].job \in Jobs /\ worker'[w].job = worker[w].job
    BY <1>1, <1>3, HasJob DEF Batching
  <2>2. ~ClaimCommit(v)
    <3> SUFFICES ASSUME ClaimCommit(v) PROVE FALSE
      OBVIOUS
    <3>1. worker'[v].job = worker[v].job /\ worker[v].step = "commit"
      BY <1>1, ClaimCommitEffect DEF ClaimCommit
    <3> QED
      BY <1>1, <2>1, <3>1 DEF Locks, WorkerLocks, Claiming
  <2>3. worker'[v].job = worker[v].job /\ d \in worker[v].todo
    BY <1>1, <2>1, <2>2, TodoSteps
  <2> QED
    BY <1>1, <1>3, <2>1, <2>3 DEF Owned, Solo
<1> QED
  BY <1>1, <1>2, <1>3, ClaimSteps

LEMMA CommitShares ==
  ASSUME Shape, Owned, [Next]_vars, NEW w \in Workers, ClaimCommit(w), NEW v \in Workers,
         v # w, worker[v].job = worker[w].job
  PROVE  worker[v].todo \intersect DOMAIN worker[w].plan.items \subseteq shared'
BY HistorySteps DEF ClaimCommit, Owned, Solo

LEMMA AloneStep ==
  ASSUME Shape, Owned, [Next]_vars, NEW v \in Workers, NEW w \in Workers,
         v # w, worker'[v].job = worker'[w].job, worker'[v].job \in Jobs
  PROVE  worker'[v].todo \intersect worker'[w].todo \subseteq shared'
<1>1. None \notin Jobs /\ Types /\ Bound
  BY Assumed DEF Assumptions, Shape
<1>2. shared \subseteq shared'
  BY HistorySteps
<1>3. ASSUME NEW a \in Workers, NEW b \in Workers, ClaimCommit(a), a # b,
             worker'[b].job = worker[a].job
      PROVE  worker'[b].todo \intersect worker'[a].todo \subseteq shared'
  <2>1. worker'[a].todo \subseteq DOMAIN worker[a].plan.items /\ worker'[b] = worker[b]
    BY <1>1, <1>3, ClaimCommitEffect DEF Begun, OnlyWorker
  <2>2. worker[b].todo \intersect DOMAIN worker[a].plan.items \subseteq shared'
    BY <1>3, <2>1, CommitShares
  <2> QED
    BY <2>1, <2>2
<1>4. CASE ClaimCommit(v)
  <2>1. worker'[v].job = worker[v].job
    BY <1>1, <1>4, ClaimCommitEffect
  <2> QED
    BY <1>3, <1>4, <2>1
<1>5. CASE ClaimCommit(w)
  <2>1. worker'[w].job = worker[w].job
    BY <1>1, <1>5, ClaimCommitEffect
  <2> QED
    BY <1>3, <1>5, <2>1
<1>6. CASE ~ClaimCommit(v) /\ ~ClaimCommit(w)
  <2>1. CASE worker'[v].todo = {} \/ worker'[w].todo = {}
    BY <2>1
  <2>2. CASE worker'[v].todo # {} /\ worker'[w].todo # {}
    <3>1. worker'[v].job = worker[v].job /\ worker'[v].todo \subseteq worker[v].todo
      BY <1>1, <1>6, <2>2, TodoSteps
    <3>2. worker'[w].job = worker[w].job /\ worker'[w].todo \subseteq worker[w].todo
      BY <1>1, <1>6, <2>2, TodoSteps
    <3>3. worker[v].todo \intersect worker[w].todo \subseteq shared
      BY <3>1, <3>2 DEF Owned, Alone
    <3> QED
      BY <1>2, <3>1, <3>2, <3>3
  <2> QED
    BY <2>1, <2>2
<1> QED
  BY <1>4, <1>5, <1>6

(* How the status of an item may come about.                               *)
LEMMA ItemSteps ==
  ASSUME Shape, [Next]_vars, NEW j \in Jobs, NEW d \in Documents
  PROVE  \/ item'[j][d].status = item[j][d].status
         \/ item'[j][d].status = "none"
         \/ ~Exists(j) /\ job'[j].status = "queued"
         \/ item[j][d].status = "pending" /\ item'[j][d].status = "cancelled"
         \/ \E w \in Workers :
              /\ FinishWrite(w) /\ worker[w].job = j /\ d \in worker[w].todo
              /\ worker'[w].todo = worker[w].todo \ {d}
         \/ \E w \in Workers :
              /\ ClaimCommit(w) /\ worker[w].job = j /\ d \in DOMAIN worker[w].plan.items
              /\ item'[j][d] = worker[w].plan.items[d]
<1> DEFINE Same == item'[j][d].status = item[j][d].status
           Gone == item'[j][d].status = "none"
           New == ~Exists(j) /\ job'[j].status = "queued"
           Off == item[j][d].status = "pending" /\ item'[j][d].status = "cancelled"
           Finish == \E w \in Workers :
              /\ FinishWrite(w) /\ worker[w].job = j /\ d \in worker[w].todo
              /\ worker'[w].todo = worker[w].todo \ {d}
           Claim == \E w \in Workers :
              /\ ClaimCommit(w) /\ worker[w].job = j /\ d \in DOMAIN worker[w].plan.items
              /\ item'[j][d] = worker[w].plan.items[d]
<1>1. ItemWriters /\ Types /\ Bound
  BY Writers DEF Footprint, Shape
<1>2. ASSUME NEW i \in Jobs, OnlyRow(i), i # j PROVE Same
  BY <1>2 DEF OnlyRow
<1>3. ASSUME NEW q \in Requests, Insert(q) PROVE Same \/ New
  <2>1. PICK i \in Jobs : /\ job[i].status = "absent" /\ job'[i].status = "queued"
                         /\ OnlyRow(i)
    BY <1>1, <1>3, InsertEffect, InsertItems
  <2> QED
    BY <1>2, <2>1 DEF Exists
<1>4. ASSUME NEW q \in Requests, WriteJob(q) PROVE Same \/ Off
  <2>1. PICK i \in Jobs : /\ OnlyRow(i)
                         /\ \A e \in Documents :
                              \/ item'[i][e] = item[i][e]
                              \/ item[i][e].status = "pending" /\ item'[i][e].status = "cancelled"
    BY <1>1, <1>4, WriteJobEffect, WriteJobItems
  <2> QED
    BY <1>2, <2>1
<1>5. ASSUME NEW w \in Workers, FinishWrite(w) PROVE Same \/ Finish
  <2>1. CASE worker[w].job = j /\ d = Current(w)
    <3>1. d \in worker[w].todo /\ worker'[w].todo = worker[w].todo \ {d}
      BY <1>1, <1>5, <2>1, FinishWriteItems, FinishWriteEffect DEF Advances
    <3> QED
      BY <1>5, <2>1, <3>1
  <2>2. CASE ~(worker[w].job = j /\ d = Current(w))
    <3>1. item'[j][d] = item[j][d]
      BY <1>1, <1>5, <2>2, FinishWriteItems DEF OnlyItem, OnlyRow
    <3> QED
      BY <3>1
  <2> QED
    BY <2>1, <2>2
<1>6. ASSUME NEW w \in Workers, ClaimCommit(w) PROVE Same \/ Claim
  <2>1. CASE worker[w].job = j /\ d \in DOMAIN worker[w].plan.items
    BY <1>1, <1>6, <2>1, ClaimCommitItems
  <2>2. CASE worker[w].job = j /\ d \notin DOMAIN worker[w].plan.items
    BY <1>1, <1>6, <2>2, ClaimCommitItems
  <2>3. CASE worker[w].job # j
    BY <1>1, <1>2, <1>6, <2>3, ClaimCommitEffect, ClaimCommitItems
  <2> QED
    BY <2>1, <2>2, <2>3
<1>7. ASSUME NEW e \in Documents, Purge(e) PROVE Same \/ Gone
  BY <1>1, <1>7, PurgeItems DEF NoItem
<1>8. ASSUME NEW e \in Documents, NEW i \in Jobs, ItemAges(i, e) PROVE Same
  <2>1. CASE j = i /\ d = e
    BY <1>1, <1>8, <2>1, ItemAgesItems
  <2>2. CASE ~(j = i /\ d = e)
    <3>1. item'[j][d] = item[j][d]
      BY <1>1, <1>8, <2>2, ItemAgesItems DEF OnlyItem, OnlyRow
    <3> QED
      BY <3>1
  <2> QED
    BY <2>1, <2>2
<1>9. ASSUME UNCHANGED item PROVE Same
  BY <1>9
<1>10. Same \/ Gone \/ New \/ Off \/ Finish \/ Claim
  <2> HIDE DEF Same, Gone, New, Off, Finish, Claim
  <2> QED
    BY <1>1, <1>3, <1>4, <1>5, <1>6, <1>7, <1>8, <1>9, Zenon DEF ItemWriters
<1> QED
  BY <1>10

LEMMA MineStep ==
  ASSUME Shape, Owned, [Next]_vars, NEW v \in Workers, NEW j \in Jobs,
         worker'[v].job = j, NEW d \in worker'[v].todo \ shared'
  PROVE  item'[j][d].status \in {"processing", "none"}
<1>1. None \notin Jobs /\ Types /\ Bound
  BY Assumed DEF Assumptions, Shape
<1>2. d \notin shared
  BY HistorySteps
<1>3. CASE ClaimCommit(v)
  <2>1. d \in Begun(v) /\ worker[v].job = j
    BY <1>1, <1>3, ClaimCommitEffect
  <2>2. d \in Documents /\ item'[j][d] = worker[v].plan.items[d]
    BY <1>1, <1>3, <2>1, ClaimCommitItems, PlanFields DEF Begun
  <2> QED
    BY <2>1, <2>2 DEF Begun
<1>4. CASE ~ClaimCommit(v)
  <2>1. worker[v].job = j /\ d \in worker[v].todo
    BY <1>1, <1>4, TodoSteps
  <2>2. d \in Documents /\ Exists(j)
    BY <1>1, <2>1, WorkerIsAState, HasJob DEF WorkerStates
  <2>3. item[j][d].status \in {"processing", "none"}
    BY <1>2, <2>1 DEF Owned, Mine
  <2>4. ASSUME NEW w \in Workers, FinishWrite(w), worker[w].job = j, d \in worker[w].todo,
               worker'[w].todo = worker[w].todo \ {d}
        PROVE  FALSE
    <3>1. w # v
      BY <2>4
    <3> QED
      BY <1>2, <2>1, <2>4, <3>1 DEF Owned, Alone
  <2>5. ASSUME NEW w \in Workers, ClaimCommit(w), worker[w].job = j,
               d \in DOMAIN worker[w].plan.items
        PROVE  FALSE
    <3>1. w # v
      BY <1>4, <2>5
    <3> QED
      BY <2>1, <2>5, <3>1, CommitShares
  <2> QED
    BY <2>2, <2>3, <2>4, <2>5, ItemSteps
<1> QED
  BY <1>3, <1>4

LEMMA DoneStep ==
  ASSUME Shape, Owned, [Next]_vars, NEW j \in Jobs, job'[j].status \in Over,
         NEW d \in Documents \ shared'
  PROVE  /\ item'[j][d].status \notin {"pending", "processing"}
         /\ job'[j].status = "completed" => item'[j][d].status # "failed"
<1>1. JobWriters /\ Types /\ Bound /\ d \in Documents \ shared
  BY Writers, HistorySteps DEF Footprint, Shape
<1>2. CASE job'[j].status = job[j].status
  <2>1. /\ item[j][d].status \notin {"pending", "processing"}
        /\ job[j].status = "completed" => item[j][d].status # "failed"
    BY <1>1, <1>2 DEF Owned, Left, Where
  <2>2. ASSUME NEW w \in Workers, FinishWrite(w), worker[w].job = j, d \in worker[w].todo
        PROVE  item'[j][d].status = item[j][d].status
    <3>1. item[j][d].status = "none"
      BY <1>1, <2>1, <2>2 DEF Owned, Mine
    <3> QED
      BY <1>1, <2>2, <3>1, CommitListed, ItemsStay, FinishWriteItems DEF OnlyItem
  <2>3. ASSUME NEW w \in Workers, ClaimCommit(w), worker[w].job = j PROVE FALSE
    BY <1>2, <2>3 DEF Shape, Locks, WorkerLocks, ClaimCommit, Claimed, Over
  <2> QED
    BY <1>2, <2>1, <2>2, <2>3, ItemSteps DEF Exists, Over
<1>3. CASE job'[j].status # job[j].status
  <2>1. ASSUME NEW i \in Jobs, NEW s \in {"queued", "paused", "cancelled", "running"},
               OnlyJob(i), job'[i].status = s
        PROVE  FALSE
    BY <1>3, <2>1 DEF OnlyJob, Over
  <2>2. ASSUME NEW q \in Requests, Insert(q) \/ WriteJob(q) \/ GiveUp(q) PROVE FALSE
    BY <1>1, <2>1, <2>2, InsertEffect, WriteJobEffect, RequestEffect DEF Becomes
  <2>3. ASSUME NEW w \in Workers, ClaimCommit(w) \/ PauseWrite(w) PROVE FALSE
    BY <1>1, <2>1, <2>3, ClaimCommitEffect, WorkerJobEffect DEF Becomes
  <2>4. ASSUME NEW w \in Workers, RefreshJob(w)
        PROVE  /\ item'[j][d].status \notin {"pending", "processing"}
               /\ job'[j].status = "completed" => item'[j][d].status # "failed"
    <3>1. worker[w].job = j /\ item' = item
      BY <1>1, <1>3, <2>4, RefreshJobEffect DEF OnlyJob, RefreshJob
    <3>2. /\ Ended(j)
          /\ job'[j].status = "completed" => ~(Cardinality(Where(j, {"failed"})) > 0)
      BY <1>1, <1>3, <2>4, <3>1, RefreshJobEffect
    <3>3. job'[j].status = "completed" => Where(j, {"failed"}) = {}
      <4>1. IsFiniteSet(Where(j, {"failed"}))
        BY FS_Subset, Assumed DEF Assumptions, Where
      <4> QED
        BY <3>2, <4>1, FS_CardinalityType, FS_EmptySet
    <3> QED
      BY <1>1, <3>1, <3>2, <3>3 DEF Ended, Where
  <2>5. ~(UNCHANGED job)
    BY <1>3
  <2> QED
    BY <1>1, <2>2, <2>3, <2>4, <2>5 DEF JobWriters
<1> QED
  BY <1>2, <1>3

LEMMA OwnedStep ==
  ASSUME Shape, Owned, [Next]_vars
  PROVE  Owned'
<1>1. \A w \in Workers : Mine(w)'
  BY MineStep DEF Mine
<1>2. \A v, w \in Workers : Alone(v, w)'
  BY AloneStep DEF Alone
<1>3. \A v, w \in Workers : Solo(w, v)'
  BY SoloStep DEF Solo
<1>4. ASSUME NEW j \in Jobs, (job[j].status \in Over)'
      PROVE  Where(j, Left(j))' \subseteq shared'
  BY <1>4, DoneStep DEF Where, Left
<1> QED
  BY <1>1, <1>2, <1>3, <1>4 DEF Owned

-----------------------------------------------------------------------------
(* The counters of a job.                                                  *)

Counted ==
  \A j \in Jobs : /\ Cardinality(Listed(j)) <= job[j].total
                  /\ job[j].completed + job[j].failed <= job[j].total

LEMMA ListedFinite ==
  ASSUME NEW j, NEW S
  PROVE  /\ IsFiniteSet(Listed(j)) /\ IsFiniteSet(Where(j, S))
         /\ Cardinality(Listed(j)) \in Nat /\ Cardinality(Where(j, S)) \in Nat
<1>1. Listed(j) \in SUBSET Documents /\ Where(j, S) \in SUBSET Documents
  BY DEF Listed, Where
<1> QED
  BY <1>1, FS_Subset, FS_CardinalityType, Assumed DEF Assumptions

LEMMA CountedInit == Init => Counted
<1> SUFFICES ASSUME Init, NEW j \in Jobs
             PROVE  /\ Cardinality(Listed(j)) <= job[j].total
                    /\ job[j].completed + job[j].failed <= job[j].total
  BY DEF Counted
<1>1. Listed(j) = {} /\ job[j] = NoJob
  BY DEF Init, Listed, NoItem
<1>2. Cardinality(Listed(j)) = 0
  BY <1>1, FS_EmptySet
<1> QED
  BY <1>1, <1>2 DEF NoJob

LEMMA CountersStay ==
  ASSUME Shape, [Next]_vars, NEW j \in Jobs
  PROVE  \/ Counts(job'[j]) = Counts(job[j])
         \/ \E q \in Requests : Insert(q) /\ j = InsertedJob(q)
         \/ \E w \in Workers : RefreshJob(w) /\ j = worker[w].job
<1> DEFINE Same == Counts(job'[j]) = Counts(job[j])
<1>1. JobWriters /\ Types /\ Bound
  BY Writers DEF Footprint, Shape
<1> SUFFICES ASSUME \A q \in Requests : Insert(q) => j # InsertedJob(q),
                    \A w \in Workers : RefreshJob(w) => j # worker[w].job
             PROVE  Same
  BY Zenon
<1>2. ASSUME NEW i \in Jobs, OnlyJob(i), i # j PROVE Same
  BY <1>2 DEF OnlyJob
<1>3. ASSUME NEW i \in Jobs, NEW s, Becomes(i, s) PROVE Same
  BY <1>2, <1>3 DEF Becomes
<1>4. ASSUME NEW q \in Requests, Insert(q) PROVE Same
  BY <1>1, <1>2, <1>4, InsertEffect
<1>5. ASSUME NEW q \in Requests, WriteJob(q) \/ GiveUp(q) PROVE Same
  BY <1>1, <1>3, <1>5, WriteJobEffect, RequestEffect
<1>6. ASSUME NEW w \in Workers, ClaimCommit(w) \/ PauseWrite(w) PROVE Same
  BY <1>1, <1>3, <1>6, ClaimCommitEffect, WorkerJobEffect
<1>7. ASSUME NEW w \in Workers, RefreshJob(w) PROVE Same
  BY <1>1, <1>2, <1>7, RefreshJobEffect
<1>8. ASSUME UNCHANGED job PROVE Same
  BY <1>8
<1> QED
  BY <1>1, <1>4, <1>5, <1>6, <1>7, <1>8 DEF JobWriters

LEMMA CountedStep ==
  ASSUME Shape, Counted, [Next]_vars
  PROVE  Counted'
<1> SUFFICES ASSUME NEW j \in Jobs
             PROVE  /\ Cardinality(Listed(j)') <= job'[j].total
                    /\ job'[j].completed + job'[j].failed <= job'[j].total
  BY DEF Counted, Listed
<1>1. Types /\ Bound /\ job[j] \in JobRecords
  BY DEF Shape, Types
<1>2. Cardinality(Listed(j)) <= job[j].total
      /\ job[j].completed + job[j].failed <= job[j].total
  BY DEF Counted
<1>3. ASSUME NEW q \in Requests, Insert(q), j = InsertedJob(q)
      PROVE  /\ Cardinality(Listed(j)') <= job'[j].total
             /\ job'[j].completed + job'[j].failed <= job'[j].total
  <2>1. /\ job'[j].total = Cardinality(request[q].documents)
        /\ job'[j].completed = 0 /\ job'[j].failed = 0
    BY <1>1, <1>3, InsertEffect
  <2>2. request[q].documents \subseteq Documents
    BY <1>1 DEF Types, RequestStates
  <2>3. Listed(j)' = request[q].documents
    BY <1>1, <1>3, <2>2, InsertItems DEF Listed
  <2>4. Cardinality(request[q].documents) \in Nat
    BY <2>2, FS_Subset, FS_CardinalityType, Assumed DEF Assumptions
  <2> QED
    BY <2>1, <2>3, <2>4
<1>4. ASSUME \A q \in Requests : ~(Insert(q) /\ j = InsertedJob(q))
      PROVE  Cardinality(Listed(j)') <= Cardinality(Listed(j)) /\ Cardinality(Listed(j)') \in Nat
  <2>1. \A d \in Documents : item'[j][d].status # "none" => item[j][d].status # "none"
    <3>1. ASSUME NEW d \in Documents, Purge(d) PROVE item'[j][d].status = "none"
      BY <1>1, <3>1, PurgeItems DEF NoItem
    <3> QED
      BY <1>4, <3>1, ItemsStay
  <2>2. Listed(j)' \subseteq Listed(j)
    BY <2>1 DEF Listed
  <2>3. IsFiniteSet(Listed(j))
    BY ListedFinite
  <2> QED
    BY <2>2, <2>3, FS_Subset, FS_CardinalityType
<1>5. ASSUME NEW w \in Workers, RefreshJob(w), j = worker[w].job
      PROVE  /\ job'[j].total = job[j].total
             /\ job'[j].completed + job'[j].failed <= Cardinality(Listed(j))
  <2> DEFINE C == Where(j, {"completed"})
             F == Where(j, {"failed"})
  <2>1. /\ job'[j].total = job[j].total
        /\ job'[j].completed = Cardinality(C) /\ job'[j].failed = Cardinality(F)
    BY <1>1, <1>5, RefreshJobEffect
  <2>2. IsFiniteSet(C) /\ IsFiniteSet(F) /\ IsFiniteSet(Listed(j))
        /\ Cardinality(C) \in Nat /\ Cardinality(F) \in Nat
    BY ListedFinite
  <2>3. C \intersect F = {} /\ C \union F \subseteq Listed(j)
    BY DEF Where, Listed
  <2> HIDE DEF C, F
  <2>4. Cardinality(C \union F) = Cardinality(C) + Cardinality(F)
    <3>1. Cardinality(C \intersect F) = 0
      BY <2>3, FS_EmptySet
    <3>2. Cardinality(C \union F) =
            Cardinality(C) + Cardinality(F) - Cardinality(C \intersect F)
      BY <2>2, FS_Union, Zenon
    <3> QED
      BY <2>2, <3>1, <3>2
  <2>5. Cardinality(C \union F) <= Cardinality(Listed(j))
    BY <2>2, <2>3, FS_Subset
  <2> QED
    BY <2>1, <2>4, <2>5
<1>6. CASE \E q \in Requests : Insert(q) /\ j = InsertedJob(q)
  BY <1>3, <1>6
<1>7. CASE \E w \in Workers : RefreshJob(w) /\ j = worker[w].job
  <2>1. PICK w \in Workers : RefreshJob(w) /\ j = worker[w].job
    BY <1>7
  <2>2. item' = item
    BY <2>1 DEF RefreshJob
  <2>3. Listed(j)' = Listed(j)
    BY <2>2 DEF Listed
  <2>4. /\ job'[j] \in JobRecords /\ job'[j].total = job[j].total
        /\ job'[j].completed + job'[j].failed <= Cardinality(Listed(j))
    BY <1>1, <1>5, <2>1, RefreshJobEffect DEF OnlyJob
  <2>5. /\ job[j].total \in Nat /\ Cardinality(Listed(j)) \in Nat
        /\ job'[j].completed \in Nat /\ job'[j].failed \in Nat
    BY <1>1, <2>4, ListedFinite DEF JobRecords
  <2> QED
    BY <1>2, <2>3, <2>4, <2>5
<1>8. CASE /\ Counts(job'[j]) = Counts(job[j])
           /\ \A q \in Requests : ~(Insert(q) /\ j = InsertedJob(q))
  <2>1. /\ job'[j].total = job[j].total /\ job'[j].completed = job[j].completed
        /\ job'[j].failed = job[j].failed
    BY <1>8 DEF Counts
  <2>2. job[j].total \in Nat /\ Cardinality(Listed(j)) \in Nat
    BY <1>1, ListedFinite DEF JobRecords
  <2>3. Cardinality(Listed(j)') <= Cardinality(Listed(j)) /\ Cardinality(Listed(j)') \in Nat
    BY <1>4, <1>8
  <2> QED
    BY <1>2, <2>1, <2>2, <2>3
<1> QED
  BY <1>6, <1>7, <1>8, CountersStay

-----------------------------------------------------------------------------
(* Who keeps a claim.                                                      *)

(* An ordinary message is with a worker.                                   *)
Ordinary(x, d) == worker[x].job = None /\ d \in worker[x].todo

(* A message will look at the Document, or is at it.                       *)
Queued(d) == queue[d] > 0 \/ \E x \in Workers : Ordinary(x, d) /\ worker[x].step = "ingest"
Sent(d) == queue[d] > 0 \/ \E x \in Workers : Ordinary(x, d)

(* A retry has written the Document, and has yet to send its message, or   *)
(* died before it could.                                                   *)
Pursues(q) ==
  \/ request[q].phase \in {"refresh", "dead"}
  \/ request[q].phase = "send" /\ ~request[q].failed
Pursued(d) == \E q \in Requests : Pursues(q) /\ d \in request[q].documents

Holds(j, d) == item[j][d].status = "processing"
Held(d) == \E j \in Jobs : Holds(j, d)

Kept(d) ==
  /\ status[d] = "pending" => Queued(d) \/ Held(d) \/ Pursued(d)
  /\ status[d] = "processing" => Sent(d) \/ Held(d) \/ Pursued(d)

(* The same without an item that would be claimed again.                   *)
Minded(d) ==
  /\ status[d] = "pending" => Queued(d) \/ Pursued(d)
  /\ status[d] = "processing" => Sent(d) \/ Pursued(d)

(* A batch that is done with a Document leaves it to nobody: if it waits   *)
(* again, or is being worked on, then there is a message.                  *)
InHand(v, d) ==
  worker[v].job \in Jobs /\ d \in worker[v].todo =>
    /\ status[d] = "processing" =>
         Sent(d) \/ Pursued(d) \/ (worker[v].step = "work" /\ d = Current(v))
    /\ status[d] = "pending" /\ worker[v].step \in {"work", "finish", "record"}
         /\ d = Current(v) => Queued(d) \/ Pursued(d)

(* A claim that takes a stale item and leaves its Document as it is, has   *)
(* read that it does not wait, and if it does by now, then for a retry.    *)
Aside(w, d) ==
  LET plan == worker[w].plan IN
  worker[w].step = "commit" /\ d \in DOMAIN plan.items \ DOMAIN plan.documents
    /\ item[worker[w].job][d].status = "processing"
    => Minded(d)

Starts(w) ==
  LET plan == worker[w].plan IN
  worker[w].step = "commit" =>
    \A d \in DOMAIN plan.items : plan.items[d].status = "processing" =>
      d \in DOMAIN plan.documents /\ plan.documents[d] = "pending"

Gone(v) ==
  worker[v].job \in Jobs =>
    \A d \in worker[v].todo : item[worker[v].job][d].status = "none" => status[d] = "purged"

Apart(v, w) ==
  worker[v].job \in Jobs /\ worker[w].job \in Jobs /\ worker[v].job # worker[w].job
    => worker[v].todo \intersect worker[w].todo \subseteq crossed

(* The same for a claim and who is at what it is going to take, or going   *)
(* to take it too.                                                         *)
Distant(w, v) ==
  worker[w].step = "commit" /\ worker[v].job \in Jobs /\ worker[v].job # worker[w].job
    => /\ worker[v].todo \intersect DOMAIN worker[w].plan.items \subseteq crossed
       /\ worker[v].step = "commit" =>
            DOMAIN worker[v].plan.items \intersect DOMAIN worker[w].plan.items \subseteq crossed

Plain == Documents \ (crossed \union shared)

Attended ==
  /\ \A d \in Plain : Kept(d)
  /\ \A w \in Workers, d \in Plain : InHand(w, d) /\ Aside(w, d)
  /\ \A w \in Workers : Starts(w) /\ Gone(w)
  /\ \A v, w \in Workers : Apart(v, w) /\ Distant(w, v)

LEMMA AttendedInit == Init => Attended
<1> SUFFICES ASSUME Init PROVE Attended
  OBVIOUS
<1>1. \A w \in Workers : worker[w].todo = {} /\ worker[w].step = "idle"
  BY DEF Init, Idle
<1>2. ASSUME NEW d \in Documents PROVE Kept(d)
  BY DEF Init, Kept
<1> QED
  BY <1>1, <1>2 DEF Attended, Plain, InHand, Aside, Starts, Gone, Apart, Distant

(* How a worker goes on with a Document.                                   *)
LEMMA BatchSteps ==
  ASSUME Shape, [Next]_vars, NEW v \in Workers,
         worker'[v].job \in Jobs, worker'[v].todo # {}
  PROVE  \/ worker'[v] = worker[v]
         \/ ClaimCommit(v)
         \/ IngestClaim(v) /\ Stands(v, "work")
         \/ IngestRefused(v) /\ Stands(v, "finish")
         \/ (Publish(v) \/ FailIngestion(v)) /\ Stands(v, "finish")
         \/ FinishRead(v) /\ Stands(v, "record")
         \/ (FinishRead(v) \/ FinishWrite(v)) /\ Advances(v)
<1> DEFINE Same == worker'[v] = worker[v]
           Goes == \/ ClaimCommit(v)
                   \/ IngestClaim(v) /\ Stands(v, "work")
                   \/ IngestRefused(v) /\ Stands(v, "finish")
                   \/ (Publish(v) \/ FailIngestion(v)) /\ Stands(v, "finish")
                   \/ FinishRead(v) /\ Stands(v, "record")
                   \/ (FinishRead(v) \/ FinishWrite(v)) /\ Advances(v)
<1>1. WorkerMovers /\ Types /\ Bound /\ None \notin Jobs
  BY Writers, Assumed DEF Footprint, Shape, Assumptions
<1>2. ASSUME NEW w \in Workers, OnlyWorker(w), w # v PROVE Same
  BY <1>2 DEF OnlyWorker
<1>3. ASSUME NEW w \in Workers, Frees(w) PROVE Same
  BY <1>1, <1>2, <1>3 DEF Frees, Idle
<1>4. ASSUME NEW w \in Workers, NEW s, NEW j, Enters(w, s, j) PROVE Same
  BY <1>2, <1>4 DEF Enters
<1>5. ASSUME NEW w \in Workers, worker[w].todo = {}, NEW s, Stands(w, s) PROVE Same
  BY <1>2, <1>5 DEF Stands, Keeps
<1>6. ASSUME NEW w \in Workers, ClaimRead(w) PROVE Same
  <2>1. worker[w].todo = {}
    BY <1>1, <1>6 DEF Bound, WorkerBound, ClaimRead, Ingesting
  <2> QED
    BY <1>1, <1>5, <1>6, <2>1, ClaimReadEffect
<1>7. ASSUME NEW w \in Workers, ContinueFails(w) \/ PauseRead(w) PROVE Same
  <2>1. worker[w].todo = {}
    BY <1>1, <1>7 DEF Bound, WorkerBound, ContinueFails, PauseRead, Ingesting
  <2> QED
    BY <1>1, <1>3, <1>5, <1>7, <2>1, PauseEffect
<1>8. ASSUME NEW w \in Workers, ClaimCommit(w) PROVE Same \/ Goes
  BY <1>1, <1>2, <1>8, ClaimCommitEffect
<1>9. ASSUME NEW w \in Workers, IngestClaim(w) PROVE Same \/ Goes
  BY <1>1, <1>2, <1>9, PauseEffect DEF Stands
<1>10. ASSUME NEW w \in Workers, IngestRefused(w) \/ Publish(w) \/ FailIngestion(w)
       PROVE  Same \/ Goes
  <2>1. Leaves(w)
    BY <1>1, <1>10, IngestionEffect
  <2> QED
    BY <1>2, <1>3, <1>10, <2>1 DEF Leaves, Stands
<1>11. ASSUME NEW w \in Workers, FinishRead(w) \/ FinishWrite(w) PROVE Same \/ Goes
  <2>1. Advances(w) \/ (FinishRead(w) /\ Stands(w, "record"))
    <3>1. CASE FinishRead(w)
      BY <1>1, <3>1, FinishReadEffect
    <3>2. CASE FinishWrite(w)
      BY <1>1, <3>2, FinishWriteEffect
    <3> QED
      BY <1>11, <3>1, <3>2
  <2> QED
    BY <1>2, <1>11, <2>1 DEF Advances, Stands
<1>12. ASSUME NEW w \in Workers,
              \/ FinishStale(w) \/ Continue(w) \/ PauseWrite(w) \/ Crash(w) \/ Raise(w)
       PROVE  Same
  BY <1>1, <1>3, <1>12, FreeEffect
<1>13. ASSUME NEW w \in Workers, RefreshJob(w) PROVE Same
  BY <1>1, <1>3, <1>4, <1>13, RefreshEffect
<1>14. ASSUME NEW w \in Workers, NEW j \in Jobs, TakeBatch(w, j) PROVE Same
  BY <1>1, <1>4, <1>14, TakeBatchEffect
<1>15. ASSUME NEW w \in Workers, NEW d \in Documents, TakeIngest(w, d) PROVE Same
  BY <1>1, <1>2, <1>15, TakeIngestEffect
<1>16. ASSUME UNCHANGED worker PROVE Same
  BY <1>16
<1>17. Same \/ Goes
  <2> HIDE DEF Same, Goes
  <2> QED
    BY <1>1, <1>6, <1>7, <1>8, <1>9, <1>10, <1>11, <1>12, <1>13, <1>14, <1>15, <1>16, Zenon
    DEF WorkerMovers
<1> QED
  BY <1>17

LEMMA OrdinarySteps ==
  ASSUME Shape, [Next]_vars, NEW x \in Workers, NEW d \in Documents, Ordinary(x, d)
  PROVE  /\ d = Current(x)
         /\ \/ worker'[x] = worker[x]
            \/ IngestClaim(x) /\ Stands(x, "work")
            \/ IngestRefused(x) \/ Publish(x) \/ FailIngestion(x) \/ Crash(x)
<1> DEFINE Same == worker'[x] = worker[x]
           Goes == \/ IngestClaim(x) /\ Stands(x, "work")
                   \/ IngestRefused(x) \/ Publish(x) \/ FailIngestion(x) \/ Crash(x)
<1>1. WorkerMovers /\ Types /\ Bound /\ None \notin Jobs
  BY Writers, Assumed DEF Footprint, Shape, Assumptions
<1>2. d = Current(x)
  BY <1>1, CurrentIn DEF Ordinary, Bound, WorkerBound
<1>3. worker[x].step \in {"ingest", "work"}
  BY <1>1 DEF Ordinary, Bound, WorkerBound, Ingesting, Batching
<1>4. ASSUME NEW w \in Workers, OnlyWorker(w), w # x PROVE Same
  BY <1>4 DEF OnlyWorker
<1>5. ASSUME NEW w \in Workers,
             \/ ClaimRead(w) \/ ClaimCommit(w) \/ FinishRead(w) \/ FinishWrite(w)
             \/ FinishStale(w) \/ RefreshJob(w) \/ Continue(w) \/ ContinueFails(w)
             \/ PauseRead(w) \/ PauseWrite(w)
      PROVE  w # x
  BY <1>3, <1>5 DEF ClaimRead, ClaimCommit, FinishRead, FinishWrite, FinishStale, RefreshJob,
     Continue, ContinueFails, PauseRead, PauseWrite
<1>6. ASSUME NEW w \in Workers, ClaimRead(w) \/ ClaimCommit(w) PROVE Same
  BY <1>1, <1>4, <1>5, <1>6, ClaimReadEffect, ClaimCommitEffect DEF Stands
<1>7. ASSUME NEW w \in Workers, FinishRead(w) \/ FinishWrite(w) PROVE Same
  BY <1>1, <1>4, <1>5, <1>7, FinishReadEffect, FinishWriteEffect DEF Advances, Stands
<1>8. ASSUME NEW w \in Workers,
             FinishStale(w) \/ Continue(w) \/ PauseWrite(w)
      PROVE  Same
  BY <1>1, <1>4, <1>5, <1>8, FreeEffect DEF Frees
<1>9. ASSUME NEW w \in Workers, RefreshJob(w) \/ ContinueFails(w) \/ PauseRead(w)
      PROVE  Same
  BY <1>1, <1>4, <1>5, <1>9, RefreshEffect, PauseEffect DEF Frees, Enters, Stands
<1>10. ASSUME NEW w \in Workers, Crash(w) PROVE Same \/ Goes
  BY <1>1, <1>4, <1>10, FreeEffect DEF Frees
<1>11. ASSUME NEW w \in Workers, Raise(w) PROVE Same
  <2>1. w # x
    BY <1>11 DEF Raise, Ordinary
  <2> QED
    BY <1>1, <1>4, <1>11, <2>1, FreeEffect DEF Frees
<1>12. ASSUME NEW w \in Workers, IngestClaim(w) PROVE Same \/ Goes
  BY <1>1, <1>4, <1>12, PauseEffect DEF Stands
<1>13. ASSUME NEW w \in Workers, IngestRefused(w) \/ Publish(w) \/ FailIngestion(w)
       PROVE  Same \/ Goes
  BY <1>1, <1>4, <1>13, IngestionEffect DEF Leaves, Frees, Stands
<1>14. ASSUME NEW w \in Workers, NEW j \in Jobs, TakeBatch(w, j) PROVE Same
  <2>1. w # x
    BY <1>14 DEF TakeBatch, Ordinary, Idle
  <2> QED
    BY <1>1, <1>4, <1>14, <2>1, TakeBatchEffect DEF Enters
<1>15. ASSUME NEW w \in Workers, NEW e \in Documents, TakeIngest(w, e) PROVE Same
  <2>1. w # x
    BY <1>15 DEF TakeIngest, Ordinary, Idle
  <2> QED
    BY <1>1, <1>4, <1>15, <2>1, TakeIngestEffect
<1>16. ASSUME UNCHANGED worker PROVE Same
  BY <1>16
<1>17. Same \/ Goes
  <2> HIDE DEF Same, Goes
  <2> QED
    BY <1>1, <1>6, <1>7, <1>8, <1>9, <1>10, <1>11, <1>12, <1>13, <1>14, <1>15, <1>16, Zenon
    DEF WorkerMovers
<1> QED
  BY <1>2, <1>17

(* Who makes a Document wait, or works on it.                              *)
LEMMA PendingSteps ==
  ASSUME Shape, [Next]_vars, NEW d \in Documents,
         status[d] # "pending", status'[d] = "pending"
  PROVE  Rewritten(d) \/ Pursued(d)'
<1>1. DocumentWriters /\ Types /\ Bound
  BY Writers DEF Footprint, Shape
<1>2. ASSUME NEW q \in Requests, RetryCommit(q)
      PROVE  Pursued(d)'
  <2>1. status \in [Documents -> Statuses]
    BY <1>1 DEF Types
  <2>2. d = Subject(q) /\ status[d] # "purged"
    BY <1>2, <2>1 DEF RetryCommit
  <2>3. request[q].documents = {d}
    BY <1>1, <1>2, <2>2, SubjectIs DEF RetryCommit, RetryPhases
  <2>4. Carries(q, "refresh", request[q].documents)
    BY <1>1, <1>2, <2>2, RetryEffect
  <2> QED
    BY <2>3, <2>4 DEF Carries, Pursued, Pursues
<1>7. ASSUME NEW q \in Requests, RetrySendFails(q) PROVE FALSE
  BY <1>1, <1>7 DEF RetrySendFails, Types
<1>3. ASSUME NEW q \in Requests, NEW e \in Documents, DeleteDocument(q, e) PROVE FALSE
  BY <1>1, <1>3 DEF DeleteDocument, Types
<1>4. ASSUME NEW w \in Workers, ClaimCommit(w) PROVE Rewritten(d)
  <2>1. chunks' = chunks /\ worker[w].step = "commit"
        /\ status'[d] = IF d \in DOMAIN worker[w].plan.documents
                          THEN worker[w].plan.documents[d] ELSE status[d]
    BY <1>4 DEF ClaimCommit, Written
  <2> QED
    BY <1>4, <2>1 DEF Rewritten
<1>5. ASSUME NEW w \in Workers, IngestClaim(w) \/ Publish(w) \/ FailIngestion(w) PROVE FALSE
  BY <1>1, <1>5 DEF IngestClaim, Publish, FailIngestion, Types, documentVars
<1>6. ASSUME NEW e \in Documents, Purge(e) PROVE FALSE
  BY <1>1, <1>6 DEF Purge, Types
<1> QED
  BY <1>1, <1>2, <1>3, <1>4, <1>5, <1>6, <1>7 DEF DocumentWriters

LEMMA ProcessingSteps ==
  ASSUME Shape, [Next]_vars, NEW d \in Documents,
         status[d] # "processing", status'[d] = "processing"
  PROVE  \E w \in Workers : IngestClaim(w) /\ d = Current(w)
<1>1. DocumentWriters /\ Types /\ Bound
  BY Writers DEF Footprint, Shape
<1>2. ASSUME NEW q \in Requests,
             \/ RetryCommit(q) \/ RetrySendFails(q)
             \/ \E e \in Documents : DeleteDocument(q, e)
      PROVE  FALSE
  BY <1>1, <1>2 DEF RetryCommit, RetrySendFails, DeleteDocument, Types
<1>3. ASSUME NEW w \in Workers, ClaimCommit(w) PROVE FALSE
  <2>1. \A e \in DOMAIN worker[w].plan.documents :
          worker[w].plan.documents[e] \in {"pending", "ready"}
    BY <1>1, <1>3, ClaimCommitItems, PlanFields
  <2>2. status'[d] = IF d \in DOMAIN worker[w].plan.documents
                       THEN worker[w].plan.documents[d] ELSE status[d]
    BY <1>3 DEF ClaimCommit, Written
  <2> QED
    BY <2>1, <2>2
<1>4. ASSUME NEW w \in Workers, IngestClaim(w) PROVE d = Current(w)
  BY <1>1, <1>4 DEF IngestClaim, Types
<1>5. ASSUME NEW w \in Workers, Publish(w) \/ FailIngestion(w) PROVE FALSE
  BY <1>1, <1>5 DEF Publish, FailIngestion, Types, documentVars
<1>6. ASSUME NEW e \in Documents, Purge(e) PROVE FALSE
  BY <1>1, <1>6 DEF Purge, Types
<1> QED
  BY <1>1, <1>2, <1>3, <1>4, <1>5, <1>6 DEF DocumentWriters

(* A message is given up only when nobody waits for it.                    *)
LEMMA QueueSteps ==
  ASSUME Shape, [Next]_vars, NEW d \in Documents
  PROVE  /\ queue[d] \in Nat /\ queue'[d] \in Nat
         /\ queue'[d] >= queue[d] \/ \E x \in Workers : TakeIngest(x, d)
<1> DEFINE More == queue'[d] \in Nat /\ queue'[d] >= queue[d]
<1>1. QueueWriters /\ Types /\ Bound /\ queue[d] \in Nat /\ queue'[d] \in Nat
  BY Writers, TypesStep DEF Footprint, Shape, Types
<1>2. ASSUME NEW q \in Requests, RetrySend(q) PROVE More
  BY <1>1, <1>2 DEF RetrySend, Types
<1>3. ASSUME NEW w \in Workers, Crash(w) \/ IngestRefused(w) PROVE More
  BY <1>1, <1>3 DEF Crash, IngestRefused, Types
<1>4. ASSUME NEW w \in Workers, NEW e \in Documents, TakeIngest(w, e)
      PROVE  More \/ TakeIngest(w, d)
  <2>1. CASE e = d
    BY <1>4, <2>1
  <2>2. CASE e # d
    <3>1. queue'[d] = queue[d]
      BY <1>1, <1>4, <2>2 DEF TakeIngest, Types
    <3> QED
      BY <1>1, <3>1
  <2> QED
    BY <2>1, <2>2
<1>5. ASSUME UNCHANGED queue PROVE More
  BY <1>1, <1>5
<1> QED
  BY <1>1, <1>2, <1>3, <1>4, <1>5 DEF QueueWriters

LEMMA TakenIsQueued ==
  ASSUME Shape, NEW x \in Workers, NEW d \in Documents, TakeIngest(x, d)
  PROVE  Queued(d)' /\ Sent(d)'
BY TakeIngestEffect DEF Shape, Queued, Sent, Ordinary

LEMMA CrashReturns ==
  ASSUME Shape, NEW x \in Workers, NEW d \in Documents, Ordinary(x, d), d = Current(x), Crash(x)
  PROVE  queue'[d] > 0
<1>1. queue \in [Documents -> Nat]
  BY DEF Shape, Types
<1> QED
  BY <1>1 DEF Crash, Ordinary

LEMMA QueuedStays ==
  ASSUME Shape, [Next]_vars, NEW d \in Documents, Queued(d), status'[d] = "pending"
  PROVE  Queued(d)'
<1>1. CASE queue[d] > 0
  BY <1>1, QueueSteps, TakenIsQueued DEF Queued
<1>2. ASSUME NEW x \in Workers, Ordinary(x, d), worker[x].step = "ingest"
      PROVE  Queued(d)'
  <2>1. status \in [Documents -> Statuses]
    BY DEF Shape, Types
  <2>2. d = Current(x)
    BY <1>2, OrdinarySteps
  <2>3. CASE worker'[x] = worker[x]
    BY <1>2, <2>3 DEF Queued, Ordinary
  <2>4. CASE IngestClaim(x)
    BY <2>1, <2>2, <2>4 DEF IngestClaim
  <2>5. CASE IngestRefused(x)
    BY <2>1, <2>2, <2>5 DEF IngestRefused, documentVars
  <2>6. CASE Publish(x) \/ FailIngestion(x)
    BY <1>2, <2>6 DEF Publish, FailIngestion
  <2>7. CASE Crash(x)
    BY <1>2, <2>2, <2>7, CrashReturns DEF Queued
  <2> QED
    BY <1>2, <2>3, <2>4, <2>5, <2>6, <2>7, OrdinarySteps
<1> QED
  BY <1>1, <1>2 DEF Queued

LEMMA SentStays ==
  ASSUME Shape, [Next]_vars, NEW d \in Documents, Sent(d), status'[d] = "processing"
  PROVE  Sent(d)'
<1>1. CASE queue[d] > 0
  BY <1>1, QueueSteps, TakenIsQueued DEF Sent
<1>2. ASSUME NEW x \in Workers, Ordinary(x, d)
      PROVE  Sent(d)'
  <2>1. status \in [Documents -> Statuses] /\ queue \in [Documents -> Nat]
    BY DEF Shape, Types
  <2>2. d = Current(x)
    BY <1>2, OrdinarySteps
  <2>3. CASE worker'[x] = worker[x]
    BY <1>2, <2>3 DEF Sent, Ordinary
  <2>4. CASE Stands(x, "work")
    BY <1>2, <2>4 DEF Sent, Ordinary, Stands, Keeps
  <2>5. CASE IngestRefused(x)
    <3>1. queue'[d] = queue[d] + 1
      BY <1>2, <2>1, <2>2, <2>5 DEF IngestRefused, Ordinary, documentVars
    <3> QED
      BY <2>1, <3>1 DEF Sent
  <2>6. CASE Publish(x) \/ FailIngestion(x)
    BY <2>1, <2>2, <2>6 DEF Publish, FailIngestion, documentVars
  <2>7. CASE Crash(x)
    BY <1>2, <2>2, <2>7, CrashReturns DEF Sent
  <2> QED
    BY <1>2, <2>3, <2>4, <2>5, <2>6, <2>7, OrdinarySteps
<1> QED
  BY <1>1, <1>2 DEF Sent

(* A retry that is going to send its message sends it, or dies, unless the *)
(* Document has failed or is gone.                                         *)
LEMMA PursuedStays ==
  ASSUME Shape, [Next]_vars, NEW d \in Documents, Pursued(d)
  PROVE  \/ Pursued(d)' \/ queue'[d] > 0
         \/ status'[d] \in {"failed", "purged"}
<1> DEFINE Goal == \/ Pursued(d)' \/ queue'[d] > 0
                   \/ status'[d] \in {"failed", "purged"}
<1>1. RequestMovers /\ Types /\ Bound
  BY Writers DEF Footprint, Shape
<1>2. PICK q \in Requests : Pursues(q) /\ d \in request[q].documents
  BY DEF Pursued
<1>3. request[q].phase \in {"refresh", "send", "dead"} /\ d = Subject(q)
  BY <1>1, <1>2, SubjectIs DEF Pursues, RetryPhases
<1>4. ASSUME request'[q] = request[q] PROVE Goal
  BY <1>2, <1>4 DEF Pursued, Pursues
<1>5. ASSUME NEW p \in Requests, OnlyRequest(p), p # q PROVE Goal
  BY <1>4, <1>5 DEF OnlyRequest
<1>6. ASSUME NEW p \in Requests,
             \/ Create(p) \/ Rollback(p) \/ Insert(p) \/ InsertFails(p)
             \/ ReadJob(p) \/ WriteJob(p) \/ Enqueue(p) \/ EnqueueFails(p) \/ GiveUp(p)
             \/ \E e \in Documents : DeleteDocument(p, e)
      PROVE  Goal
  <2>1. OnlyRequest(p)
    BY <1>1, <1>6, CreateEffect, InsertEffect, ReadJobEffect, WriteJobEffect, RequestEffect
    DEF Ends, Selects, Addresses, Proceeds
  <2>2. p # q
    BY <1>3, <1>6 DEF Create, Rollback, ReadActive, Insert, InsertFails, ReadJob, WriteJob,
       Enqueue, EnqueueFails, GiveUp, DeleteDocument
  <2> QED
    BY <1>5, <2>1, <2>2
<1>7. ASSUME NEW p \in Requests, p # q, RetrySteps(p) \/ ApiCrash(p) PROVE Goal
  <2>1. OnlyRequest(p)
    BY <1>1, <1>7, RetryMoves DEF Ends, Carries
  <2> QED
    BY <1>5, <1>7, <2>1
<1>8. ASSUME ApiCrash(q) PROVE Goal
  <2>1. Carries(q, "dead", request[q].documents)
    BY <1>1, <1>3, <1>8, RetryEffect DEF ApiCrash
  <2> QED
    BY <1>2, <2>1 DEF Carries, Pursued, Pursues
<1>9. ASSUME RetryRefresh(q) PROVE Goal
  <2>1. status' = status /\ status \in [Documents -> Statuses] /\ request \in [Requests -> RequestStates]
    BY <1>1, <1>9 DEF RetryRefresh, documentVars, Types
  <2>2. CASE status[d] \in {"failed", "purged"}
    BY <2>1, <2>2
  <2>3. CASE status[d] \notin {"failed", "purged"}
    <3> DEFINE seen == status[d] = "failed"
               new == [request[q] EXCEPT !.phase = "send", !.failed = seen]
    <3>1. request'[q] = new
      BY <1>3, <1>9, <2>1, <2>3 DEF RetryRefresh
    <3>3. request[q] \in RequestStates /\ seen = FALSE
      BY <2>1, <2>3
    <3> HIDE DEF seen
    <3>4. new.phase = "send" /\ new.failed = FALSE /\ new.documents = request[q].documents
      BY <3>3 DEF RequestStates
    <3> HIDE DEF new
    <3>2. request'[q].phase = "send" /\ ~request'[q].failed
          /\ request'[q].documents = request[q].documents
      BY <3>1, <3>4
    <3> QED
      BY <1>2, <3>2 DEF Pursued, Pursues
  <2> QED
    BY <2>2, <2>3
<1>10. ASSUME RetrySend(q) PROVE Goal
  <2>1. queue'[d] = queue[d] + 1 /\ queue[d] \in Nat
    BY <1>1, <1>3, <1>10 DEF RetrySend, Types
  <2> QED
    BY <2>1
<1>11. ASSUME RetrySendFails(q) PROVE Goal
  <2>1. ~request[q].failed
    BY <1>2, <1>11 DEF RetrySendFails, Pursues
  <2>2. status'[d] \in {"failed", "purged"}
    BY <1>1, <1>3, <1>11, <2>1 DEF RetrySendFails, Types
  <2> QED
    BY <2>2
<1>12. ~RetryCommit(q) /\ \A e \in Documents : ~RetryRead(q, e)
  BY <1>3 DEF RetryCommit, RetryRead
<1>13. ASSUME UNCHANGED request PROVE Goal
  BY <1>4, <1>13
<1>14. RetrySteps(q) => RetryRefresh(q) \/ RetrySend(q) \/ RetrySendFails(q)
  BY <1>12 DEF RetrySteps
<1> HIDE DEF Goal
<1>15. ASSUME NEW p \in Requests, RetrySteps(p) \/ ApiCrash(p) PROVE Goal
  BY <1>7, <1>8, <1>9, <1>10, <1>11, <1>14, <1>15
<1>16. Goal
  BY <1>1, <1>6, <1>13, <1>15, Zenon DEF RequestMovers
<1> QED
  BY <1>16 DEF Goal

(* What is purged stays purged: a claim writes only what it has locked.    *)
LEMMA PurgedStays ==
  ASSUME Shape, Stored, [Next]_vars, NEW d \in Documents, status[d] = "purged"
  PROVE  status'[d] = "purged"
<1>1. ASSUME Rewritten(d) PROVE FALSE
  <2>1. PICK w \in Workers : ClaimCommit(w) /\ worker[w].step = "commit"
                             /\ d \in DOMAIN worker[w].plan.documents
    BY <1>1 DEF Rewritten
  <2>2. d \in Listed(worker[w].job) /\ worker[w].job \in Jobs
    BY <2>1, ClaimCommitEffect DEF Shape, Locks, WorkerLocks
  <2> QED
    BY <2>2 DEF Stored
<1> QED
  BY <1>1, Fates DEF Fate, Stays, Published, Moves, Retried, Purged

LEMMA GoneStep ==
  ASSUME Shape, Stored, [Next]_vars, NEW v \in Workers, Gone(v)
  PROVE  Gone(v)'
<1> SUFFICES ASSUME worker'[v].job \in Jobs, NEW d \in worker'[v].todo,
                    item'[worker'[v].job][d].status = "none"
             PROVE  status'[d] = "purged"
  BY DEF Gone
<1>1. Types /\ Bound /\ Types' /\ None \notin Jobs
  BY TypesStep, Assumed DEF Shape, Assumptions
<1>2. d \in Documents
  BY <1>1 DEF Types, WorkerStates
<1>3. CASE ClaimCommit(v)
  <2>1. /\ worker'[v].job = worker[v].job /\ d \in DOMAIN worker[v].plan.items
        /\ worker[v].plan.items[d].status = "processing"
    BY <1>1, <1>3, ClaimCommitEffect DEF Begun
  <2>2. item'[worker[v].job][d] = worker[v].plan.items[d]
    BY <1>1, <1>2, <1>3, <2>1, ClaimCommitItems
  <2> QED
    BY <2>1, <2>2
<1>4. CASE ~ClaimCommit(v)
  <2>1. worker'[v].job = worker[v].job /\ d \in worker[v].todo /\ worker[v].job \in Jobs
    BY <1>1, <1>4, TodoSteps
  <2>2. ASSUME NEW q \in Requests, Insert(q) PROVE worker[v].job # InsertedJob(q)
    BY <1>1, <2>1, <2>2, InsertEffect, HasJob DEF Exists
  <2>3. CASE item[worker[v].job][d].status = "none"
    BY <1>2, <2>1, <2>3, PurgedStays DEF Gone
  <2>4. CASE Purge(d)
    BY <1>1, <1>2, <2>4 DEF Purge, Types
  <2> QED
    BY <1>2, <2>1, <2>2, <2>3, <2>4, ItemsStay
<1> QED
  BY <1>3, <1>4

LEMMA ApartStep ==
  ASSUME Shape, Attended, [Next]_vars, NEW v \in Workers, NEW w \in Workers
  PROVE  Apart(v, w)'
<1> SUFFICES ASSUME worker'[v].job \in Jobs, worker'[w].job \in Jobs,
                    worker'[v].job # worker'[w].job,
                    NEW d \in worker'[v].todo \intersect worker'[w].todo
             PROVE  d \in crossed'
  BY DEF Apart
<1>1. Types /\ Bound /\ None \notin Jobs /\ crossed \subseteq crossed'
  BY HistorySteps, Assumed DEF Shape, Assumptions
<1>2. ASSUME NEW x \in Workers, NEW y \in Workers, ClaimCommit(x), x # y,
             d \in worker'[x].todo, d \in worker'[y].todo,
             worker'[x].job # worker'[y].job, worker'[y].job \in Jobs
      PROVE  d \in crossed'
  <2>1. /\ worker'[x].job = worker[x].job /\ worker'[y] = worker[y]
        /\ d \in DOMAIN worker[x].plan.items
        /\ worker[x].plan.items[d].status = "processing"
    BY <1>1, <1>2, ClaimCommitEffect DEF Begun, OnlyWorker
  <2>2. Distant(x, y) /\ worker[x].step = "commit"
    BY <1>2 DEF Attended, ClaimCommit
  <2> QED
    BY <1>1, <1>2, <2>1, <2>2 DEF Distant
<1>3. CASE ClaimCommit(v)
  BY <1>2, <1>3
<1>4. CASE ClaimCommit(w)
  BY <1>2, <1>4
<1>5. CASE ~ClaimCommit(v) /\ ~ClaimCommit(w)
  <2>1. worker'[v].job = worker[v].job /\ d \in worker[v].todo
    BY <1>1, <1>5, TodoSteps
  <2>2. worker'[w].job = worker[w].job /\ d \in worker[w].todo
    BY <1>1, <1>5, TodoSteps
  <2> QED
    BY <1>1, <2>1, <2>2 DEF Attended, Apart
<1> QED
  BY <1>3, <1>4, <1>5

LEMMA DistantStep ==
  ASSUME Shape, Attended, [Next]_vars, NEW w \in Workers, NEW v \in Workers
  PROVE  Distant(w, v)'
<1> SUFFICES ASSUME worker'[w].step = "commit", worker'[v].job \in Jobs,
                    worker'[v].job # worker'[w].job,
                    NEW d \in DOMAIN worker'[w].plan.items,
                    \/ d \in worker'[v].todo
                    \/ worker'[v].step = "commit" /\ d \in DOMAIN worker'[v].plan.items
             PROVE  d \in crossed'
  BY DEF Distant
<1>1. Types /\ Bound /\ Types' /\ Bound' /\ None \notin Jobs /\ crossed \subseteq crossed'
  BY HistorySteps, TypesStep, BoundStep, Assumed DEF Shape, Assumptions
<1>2. v # w
  OBVIOUS
<1>3. CASE ClaimRead(w)
  <2>1. worker'[w].job = worker[w].job /\ worker'[v] = worker[v]
    BY <1>1, <1>2, <1>3, ClaimReadEffect DEF Stands, Keeps, OnlyWorker
  <2>2. Elsewhere(d, worker[w].job)
    BY <1>1, <2>1 DEF Elsewhere
  <2> QED
    BY <1>1, <1>3, <2>2, ClaimReadMarks
<1>4. CASE worker'[w] = worker[w] /\ ~ClaimCommit(w)
  <2>1. Distant(w, v)
    BY DEF Attended
  <2>2. CASE ClaimCommit(v)
    <3>1. /\ worker'[v].job = worker[v].job /\ worker[v].step = "commit"
          /\ worker'[v].todo \subseteq DOMAIN worker[v].plan.items
          /\ worker'[v].step # "commit"
      <4>1. worker[v].step = "commit"
        BY <2>2 DEF ClaimCommit
      <4> QED
        BY <1>1, <2>2, <4>1, ClaimCommitEffect DEF Begun
    <3> QED
      BY <1>1, <1>4, <2>1, <3>1 DEF Distant
  <2>3. CASE ~ClaimCommit(v) /\ d \in worker'[v].todo
    <3>1. worker'[v].job = worker[v].job /\ d \in worker[v].todo
      BY <1>1, <2>3, TodoSteps
    <3> QED
      BY <1>1, <1>4, <2>1, <3>1 DEF Distant
  <2>4. CASE worker'[v].step = "commit" /\ d \in DOMAIN worker'[v].plan.items
    <3>1. CASE worker'[v] = worker[v]
      BY <1>1, <1>4, <2>1, <2>4, <3>1 DEF Distant
    <3>2. CASE ClaimRead(v)
      <4>1. worker'[v].job = worker[v].job
        BY <1>1, <3>2, ClaimReadEffect DEF Stands, Keeps
      <4>2. worker[w].job # None
        BY <1>1, <1>4 DEF Bound, WorkerBound, Batching
      <4>3. Elsewhere(d, worker[v].job)
        BY <1>4, <4>1, <4>2 DEF Elsewhere
      <4> QED
        BY <1>1, <2>4, <3>2, <4>3, ClaimReadMarks
    <3> QED
      BY <1>1, <2>4, <3>1, <3>2, ClaimSteps
  <2> QED
    BY <2>2, <2>3, <2>4
<1> QED
  BY <1>1, <1>3, <1>4, ClaimSteps

LEMMA StartsStep ==
  ASSUME Shape, [Next]_vars, NEW w \in Workers, Starts(w)
  PROVE  Starts(w)'
<1> SUFFICES ASSUME worker'[w].step = "commit" PROVE Starts(w)'
  BY DEF Starts
<1>1. CASE worker'[w] = worker[w]
  BY <1>1 DEF Starts
<1>2. CASE ClaimRead(w)
  <2>1. worker[w].job \in Jobs /\ worker'[w].plan = ClaimPlan(worker[w].job)
    BY <1>2, ClaimReadEffect DEF Shape, Stands
  <2> QED
    BY <2>1, PlanFacts DEF Shape, Starts
<1> QED
  BY <1>1, <1>2, ClaimSteps DEF Shape

(* What a retry or a message has goes on being theirs.                     *)
LEMMA WaitingStays ==
  ASSUME Shape, [Next]_vars, NEW d \in Documents, Queued(d) \/ Pursued(d),
         status'[d] = "pending"
  PROVE  Queued(d)' \/ Pursued(d)'
<1>1. CASE Queued(d)
  BY <1>1, QueuedStays
<1>2. CASE Pursued(d)
  <2>1. Pursued(d)' \/ queue'[d] > 0
    BY <1>2, PursuedStays
  <2> QED
    BY <2>1 DEF Queued
<1> QED
  BY <1>1, <1>2

LEMMA WorkedStays ==
  ASSUME Shape, [Next]_vars, NEW d \in Documents, Sent(d) \/ Pursued(d),
         status'[d] = "processing"
  PROVE  Sent(d)' \/ Pursued(d)'
<1>1. CASE Sent(d)
  BY <1>1, SentStays
<1>2. CASE Pursued(d)
  <2>1. Pursued(d)' \/ queue'[d] > 0
    BY <1>2, PursuedStays
  <2> QED
    BY <2>1 DEF Sent
<1> QED
  BY <1>1, <1>2

(* Nobody else is at what a claim is going to take, nor going to take it.  *)
LEMMA ClaimIsAlone ==
  ASSUME Shape, Owned, Attended, NEW w \in Workers, worker[w].step = "commit",
         NEW d \in Plain, d \in DOMAIN worker[w].plan.items,
         NEW v \in Workers, v # w, worker[v].job \in Jobs
  PROVE  /\ d \notin worker[v].todo
         /\ worker[v].step = "commit" => d \notin DOMAIN worker[v].plan.items
<1>1. CASE worker[v].job = worker[w].job
  <2>1. worker[v].step # "commit"
    BY <1>1 DEF Shape, Locks, WorkerLocks, Claiming
  <2> QED
    BY <1>1, <2>1 DEF Owned, Solo, Plain
<1>2. CASE worker[v].job # worker[w].job
  BY <1>2 DEF Attended, Distant, Plain
<1> QED
  BY <1>1, <1>2

(* Nobody else works for a job on what a batch has.                        *)
LEMMA BatchIsAlone ==
  ASSUME Shape, Owned, Attended, NEW w \in Workers, worker[w].job \in Jobs,
         NEW d \in Plain, d \in worker[w].todo,
         NEW v \in Workers, v # w, worker[v].job \in Jobs
  PROVE  /\ d \notin worker[v].todo
         /\ worker[v].step = "commit" => d \notin DOMAIN worker[v].plan.items
<1>1. CASE worker[v].job = worker[w].job
  BY <1>1 DEF Owned, Alone, Solo, Plain
<1>2. CASE worker[v].job # worker[w].job
  BY <1>2 DEF Attended, Apart, Distant, Plain
<1> QED
  BY <1>1, <1>2

LEMMA PlainStays ==
  ASSUME [Next]_vars, NEW d \in Documents \ (crossed' \union shared')
  PROVE  d \in Plain
BY HistorySteps DEF Plain

(* A claim that is about to write keeps its items as they were.            *)
LEMMA AsideStep ==
  ASSUME Shape, Owned, Attended, [Next]_vars, NEW w \in Workers,
         NEW d \in Documents \ (crossed' \union shared')
  PROVE  Aside(w, d)'
<1> DEFINE j == worker[w].job
           plan == worker[w].plan
<1>1. Types /\ Bound /\ Locks /\ d \in Documents /\ d \in Plain
  BY PlainStays DEF Shape
<1> SUFFICES ASSUME worker'[w].step = "commit",
                    d \in DOMAIN worker'[w].plan.items \ DOMAIN worker'[w].plan.documents,
                    item'[worker'[w].job][d].status = "processing"
             PROVE  Minded(d)'
  BY DEF Aside
<1>2. CASE ClaimRead(w)
  <2>1. /\ j \in Jobs /\ worker'[w].job = j /\ worker'[w].plan = ClaimPlan(j)
        /\ item' = item /\ status' = status
    BY <1>1, <1>2, ClaimReadEffect DEF Stands, Keeps, ClaimRead, documentVars, jobVars
  <2>2. status'[d] \in {"ready", "deleting", "purged"}
    BY <1>1, <2>1, PlanFacts
  <2> QED
    BY <2>2 DEF Minded
<1>3. CASE worker'[w] = worker[w] /\ ~ClaimCommit(w)
  <2>1. /\ j \in Jobs /\ Exists(j) /\ Claiming(w, j) /\ WorkerLocks(w)
        /\ d \in DOMAIN plan.items /\ worker[w].step = "commit"
    BY <1>1, <1>3, HasJob DEF Batching, Claiming, Locks
  <2>2. ASSUME NEW v \in Workers, ClaimCommit(v), d \in DOMAIN worker[v].plan.items
        PROVE  FALSE
    <3>1. v # w /\ worker[v].job \in Jobs /\ worker[v].step = "commit"
      <4>1. worker[v].step = "commit"
        BY <2>2 DEF ClaimCommit
      <4>2. worker[v].job \in Jobs
        BY <1>1, <2>2, ClaimCommitEffect
      <4> QED
        BY <1>3, <2>2, <4>1, <4>2
    <3> QED
      BY <1>1, <2>1, <2>2, <3>1, ClaimIsAlone
  <2>3. item[j][d].status = "processing"
    <3>1. ASSUME NEW v \in Workers, FinishWrite(v), worker[v].job = j, d \in worker[v].todo,
                 worker'[v].todo = worker[v].todo \ {d}
          PROVE  FALSE
      <4>1. Current(v) = d
        BY <1>1, <3>1, FinishWriteEffect, FinishWriteItems DEF Advances
      <4> QED
        BY <2>1, <3>1, <4>1 DEF FinishWrite, ItemUnlocked
    <3>2. worker'[w].job = j /\ ~(item'[j][d].status = "none") /\ item'[j][d].status = "processing"
      BY <1>3
    <3>3. ~(~Exists(j) /\ job'[j].status = "queued")
      BY <2>1
    <3> HIDE DEF j
    <3> QED
      BY <1>1, <2>1, <2>2, <3>1, <3>2, <3>3, ItemSteps
  <2>4. Minded(d)
    BY <1>1, <1>3, <2>1, <2>3 DEF Attended, Aside
  <2>5. ASSUME status'[d] = "pending" PROVE Queued(d)' \/ Pursued(d)'
    <3>1. CASE status[d] = "pending"
      BY <1>1, <2>4, <2>5, <3>1, WaitingStays DEF Minded
    <3>2. CASE status[d] # "pending"
      <4>1. ~Rewritten(d)
        BY <1>1, <2>2 DEF Rewritten, Locks, WorkerLocks
      <4> QED
        BY <1>1, <2>5, <3>2, <4>1, PendingSteps
    <3> QED
      BY <3>1, <3>2
  <2>6. ASSUME status'[d] = "processing" PROVE Sent(d)' \/ Pursued(d)'
    <3>1. CASE status[d] = "processing"
      BY <1>1, <2>4, <2>6, <3>1, WorkedStays DEF Minded
    <3>2. CASE status[d] # "processing"
      <4>1. PICK v \in Workers : IngestClaim(v) /\ d = Current(v)
        BY <1>1, <2>6, <3>2, ProcessingSteps
      <4>2. d \in worker[v].todo /\ Stands(v, "work")
        BY <1>1, <4>1, CurrentIn, PauseEffect DEF IngestClaim, Bound, WorkerBound, Ingesting
      <4>3. CASE worker[v].job = None
        BY <4>2, <4>3 DEF Sent, Ordinary, Stands, Keeps
      <4>4. CASE worker[v].job # None
        <5>1. worker[v].job \in Jobs /\ v # w
          BY <1>1, <2>1, <4>1, <4>4, HasJob DEF IngestClaim
        <5> QED
          BY <1>1, <2>1, <4>2, <5>1, ClaimIsAlone
      <4> QED
        BY <4>3, <4>4
    <3> QED
      BY <3>1, <3>2
  <2> QED
    BY <2>5, <2>6 DEF Minded
<1> QED
  BY <1>1, <1>2, <1>3, ClaimSteps

LEMMA InHandStep ==
  ASSUME Shape, Owned, Attended, [Next]_vars, NEW v \in Workers,
         NEW d \in Documents \ (crossed' \union shared')
  PROVE  InHand(v, d)'
<1> SUFFICES ASSUME worker'[v].job \in Jobs, d \in worker'[v].todo
             PROVE  /\ status'[d] = "processing" =>
                         \/ Sent(d)' \/ Pursued(d)'
                         \/ worker'[v].step = "work" /\ d = Current(v)'
                    /\ status'[d] = "pending" /\ worker'[v].step \in {"work", "finish", "record"}
                         /\ d = Current(v)' => Queued(d)' \/ Pursued(d)'
  BY DEF InHand
<1> DEFINE j == worker[v].job
<1>1. /\ Types /\ Bound /\ Locks /\ None \notin Jobs /\ d \in Documents /\ d \in Plain
      /\ status \in [Documents -> Statuses]
  BY PlainStays, Assumed DEF Shape, Assumptions, Types
<1>2. CASE ClaimCommit(v)
  <2>1. d \in DOMAIN worker[v].plan.items /\ worker[v].plan.items[d].status = "processing"
    BY <1>1, <1>2, ClaimCommitEffect DEF Begun
  <2>2. /\ d \in DOMAIN worker[v].plan.documents
        /\ worker[v].plan.documents[d] = "pending"
    BY <1>2, <2>1 DEF Attended, Starts, ClaimCommit
  <2>3. status'[d] = "pending"
    BY <1>1, <1>2, <2>2 DEF ClaimCommit, Written
  <2>4. worker'[v].step \notin {"work", "finish", "record"}
    BY <1>1, <1>2, ClaimCommitEffect
  <2> QED
    BY <2>3, <2>4
<1>3. CASE ~ClaimCommit(v)
  <2>1. worker'[v].job = j /\ d \in worker[v].todo /\ j \in Jobs
    BY <1>1, <1>3, TodoSteps
  <2>2. /\ status[d] = "processing" =>
             Sent(d) \/ Pursued(d) \/ (worker[v].step = "work" /\ d = Current(v))
        /\ status[d] = "pending" /\ worker[v].step \in {"work", "finish", "record"}
             /\ d = Current(v) => Queued(d) \/ Pursued(d)
    BY <1>1, <2>1 DEF Attended, InHand
  <2>3. ASSUME NEW s, Stands(v, s)
        PROVE  worker'[v].step = s /\ Current(v)' = Current(v)
    BY <2>3 DEF Stands, Keeps, Current
  <2>4. ASSUME worker'[v] = worker[v]
        PROVE  Current(v)' = Current(v)
    BY <2>4 DEF Current
  <2>5. \/ worker'[v] = worker[v]
        \/ IngestClaim(v) /\ Stands(v, "work")
        \/ IngestRefused(v) /\ Stands(v, "finish")
        \/ (Publish(v) \/ FailIngestion(v)) /\ Stands(v, "finish")
        \/ FinishRead(v) /\ Stands(v, "record")
        \/ (FinishRead(v) \/ FinishWrite(v)) /\ Advances(v)
    BY <1>1, <1>3, BatchSteps
  <2>6. ASSUME status'[d] = "processing"
        PROVE  Sent(d)' \/ Pursued(d)' \/ (worker'[v].step = "work" /\ d = Current(v)')
    <3>1. CASE status[d] = "processing" /\ (Sent(d) \/ Pursued(d))
      BY <1>1, <2>6, <3>1, WorkedStays
    <3>2. CASE status[d] = "processing" /\ worker[v].step = "work" /\ d = Current(v)
      <4>1. CASE Publish(v) \/ FailIngestion(v)
        BY <1>1, <2>6, <3>2, <4>1 DEF Publish, FailIngestion
      <4>2. CASE worker'[v] = worker[v]
        BY <2>4, <3>2, <4>2
      <4>3. ~IngestClaim(v) /\ ~IngestRefused(v) /\ ~FinishRead(v) /\ ~FinishWrite(v)
        BY <3>2 DEF IngestClaim, IngestRefused, FinishRead, FinishWrite
      <4> QED
        BY <2>5, <4>1, <4>2, <4>3
    <3>3. CASE status[d] # "processing"
      <4>1. PICK w \in Workers : IngestClaim(w) /\ d = Current(w)
        BY <1>1, <2>6, <3>3, ProcessingSteps
      <4>2. d \in worker[w].todo /\ Stands(w, "work")
        BY <1>1, <4>1, CurrentIn, PauseEffect DEF IngestClaim, Bound, WorkerBound, Ingesting
      <4>3. CASE w = v
        BY <2>3, <4>1, <4>2, <4>3
      <4>4. CASE worker[w].job = None
        BY <4>2, <4>4 DEF Sent, Ordinary, Stands, Keeps
      <4>5. CASE w # v /\ worker[w].job # None
        <5>1. worker[w].job \in Jobs
          BY <1>1, <4>5, HasJob
        <5> QED
          BY <1>1, <2>1, <4>2, <4>5, <5>1, BatchIsAlone
      <4> QED
        BY <4>3, <4>4, <4>5
    <3> QED
      BY <2>2, <3>1, <3>2, <3>3
  <2>7. ASSUME status'[d] = "pending", worker'[v].step \in {"work", "finish", "record"},
               d = Current(v)'
        PROVE  Queued(d)' \/ Pursued(d)'
    <3>1. CASE status[d] = "pending"
      <4>1. CASE Queued(d) \/ Pursued(d)
        BY <1>1, <2>7, <4>1, WaitingStays
      <4>2. CASE worker'[v] = worker[v]
        BY <2>2, <2>4, <2>7, <3>1, <4>1, <4>2
      <4>3. CASE IngestClaim(v) /\ Stands(v, "work")
        BY <1>1, <2>3, <2>7, <4>3 DEF IngestClaim
      <4>4. CASE IngestRefused(v) /\ Stands(v, "finish")
        BY <2>3, <2>7, <3>1, <4>4 DEF IngestRefused
      <4>5. CASE (Publish(v) \/ FailIngestion(v)) /\ Stands(v, "finish")
        <5>1. worker[v].step = "work" /\ d = Current(v)
          BY <2>3, <2>7, <4>5 DEF Publish, FailIngestion
        <5> QED
          BY <2>2, <3>1, <4>1, <5>1
      <4>6. CASE FinishRead(v) /\ Stands(v, "record")
        <5>1. worker[v].step = "finish" /\ d = Current(v)
          BY <2>3, <2>7, <4>6 DEF FinishRead
        <5> QED
          BY <2>2, <3>1, <4>1, <5>1
      <4>7. CASE Advances(v)
        BY <2>7, <4>7 DEF Advances
      <4> QED
        BY <2>5, <4>2, <4>3, <4>4, <4>5, <4>6, <4>7
    <3>2. CASE status[d] # "pending" /\ Pursued(d)'
      BY <3>2
    <3>3. CASE Rewritten(d)
      <4>1. PICK w \in Workers : ClaimCommit(w) /\ worker[w].step = "commit"
                                 /\ d \in DOMAIN worker[w].plan.documents
        BY <3>3 DEF Rewritten
      <4>2. w # v /\ worker[w].job \in Jobs /\ d \in DOMAIN worker[w].plan.items
        BY <1>1, <1>3, <4>1, ClaimCommitEffect DEF Locks, WorkerLocks
      <4> QED
        BY <1>1, <2>1, <4>1, <4>2, BatchIsAlone
    <3> QED
      BY <1>1, <2>7, <3>1, <3>2, <3>3, PendingSteps
  <2> QED
    BY <2>6, <2>7
<1> QED
  BY <1>2, <1>3

(* An item that keeps a claim goes on doing so, or leaves it to a message. *)
LEMMA HoldsStep ==
  ASSUME Shape, Owned, Attended, [Next]_vars,
         NEW d \in Documents \ (crossed' \union shared'),
         NEW j \in Jobs, Holds(j, d),
         status'[d] = status[d], status[d] \in {"pending", "processing"}
  PROVE  \/ Holds(j, d)'
         \/ status[d] = "pending" /\ (Queued(d) \/ Pursued(d))
         \/ status[d] = "processing" /\ (Sent(d) \/ Pursued(d))
<1>1. /\ Types /\ Bound /\ Locks /\ d \in Documents /\ d \in Plain
      /\ status \in [Documents -> Statuses]
  BY PlainStays DEF Shape, Types
<1>2. ~Purge(d)
  BY <1>1 DEF Purge
<1>3. Exists(j) /\ item[j][d].status = "processing"
  BY <1>1 DEF Holds, Bound, Listed
<1>4. item'[j][d].status # "none"
  <2>1. ASSUME NEW q \in Requests, Insert(q) PROVE j # InsertedJob(q)
    BY <1>1, <1>3, <2>1, InsertEffect DEF Exists
  <2> QED
    BY <1>1, <1>2, <1>3, <2>1, ItemsStay
<1>5. CASE item'[j][d].status = item[j][d].status
  BY <1>3, <1>5 DEF Holds
<1>6. ASSUME NEW w \in Workers, FinishWrite(w), worker[w].job = j, d \in worker[w].todo,
             worker'[w].todo = worker[w].todo \ {d}
      PROVE  \/ status[d] = "pending" /\ (Queued(d) \/ Pursued(d))
             \/ status[d] = "processing" /\ (Sent(d) \/ Pursued(d))
  <2>1. worker[w].step = "record" /\ d = Current(w)
    BY <1>1, <1>6, FinishWriteEffect, FinishWriteItems DEF FinishWrite, Advances
  <2>2. InHand(w, d)
    BY <1>1 DEF Attended
  <2> QED
    BY <1>6, <2>1, <2>2 DEF InHand
<1>7. ASSUME NEW w \in Workers, ClaimCommit(w), worker[w].job = j,
             d \in DOMAIN worker[w].plan.items, item'[j][d] = worker[w].plan.items[d]
      PROVE  Holds(j, d)' \/ Minded(d)
  <2>1. worker[w].step = "commit"
    BY <1>7 DEF ClaimCommit
  <2>2. CASE d \in DOMAIN worker[w].plan.documents
    <3>1. status'[d] = worker[w].plan.documents[d]
      BY <1>1, <1>7, <2>2 DEF ClaimCommit, Written
    <3>2. worker[w].plan.documents[d] = "pending"
      BY <1>1, <1>7, <2>2, <3>1, ClaimCommitItems, PlanFields
    <3>3. worker[w].plan.items[d].status = "processing"
      BY <1>1, <2>1, <2>2, <3>2 DEF Locks, WorkerLocks
    <3> QED
      BY <1>7, <3>3 DEF Holds
  <2>3. CASE d \notin DOMAIN worker[w].plan.documents
    <3>1. Aside(w, d)
      BY <1>1 DEF Attended
    <3> QED
      BY <1>3, <1>7, <2>1, <2>3, <3>1 DEF Aside
  <2> QED
    BY <2>2, <2>3
<1> QED
  BY <1>3, <1>4, <1>5, <1>6, <1>7, ItemSteps DEF Minded

LEMMA KeptStep ==
  ASSUME Shape, Owned, Attended, [Next]_vars,
         NEW d \in Documents \ (crossed' \union shared')
  PROVE  Kept(d)'
<1>1. Types /\ Bound /\ Locks /\ d \in Documents /\ d \in Plain /\ Kept(d)
  BY PlainStays DEF Shape, Attended
<1>2. ASSUME status'[d] = "pending" PROVE Queued(d)' \/ Held(d)' \/ Pursued(d)'
  <2>1. CASE status[d] = "pending" /\ (Queued(d) \/ Pursued(d))
    BY <1>1, <1>2, <2>1, WaitingStays
  <2>2. CASE status[d] = "pending" /\ Held(d)
    BY <1>1, <1>2, <2>1, <2>2, HoldsStep DEF Held
  <2>3. CASE Rewritten(d)
    <3>1. PICK w \in Workers :
            /\ ClaimCommit(w) /\ worker[w].step = "commit"
            /\ d \in DOMAIN worker[w].plan.documents
            /\ status'[d] = worker[w].plan.documents[d]
      BY <2>3 DEF Rewritten
    <3>2. /\ d \in DOMAIN worker[w].plan.items
          /\ worker[w].plan.items[d].status = "processing"
      BY <1>1, <1>2, <3>1 DEF Locks, WorkerLocks
    <3>3. PICK j \in Jobs : item'[j][d] = worker[w].plan.items[d]
      BY <1>1, <3>1, <3>2, ClaimCommitEffect, ClaimCommitItems
    <3>4. Holds(j, d)'
      BY <3>2, <3>3 DEF Holds
    <3> QED
      BY <3>3, <3>4 DEF Held
  <2> QED
    BY <1>1, <1>2, <2>1, <2>2, <2>3, PendingSteps DEF Kept
<1>3. ASSUME status'[d] = "processing" PROVE Sent(d)' \/ Held(d)' \/ Pursued(d)'
  <2>1. CASE status[d] = "processing" /\ (Sent(d) \/ Pursued(d))
    BY <1>1, <1>3, <2>1, WorkedStays
  <2>2. CASE status[d] = "processing" /\ Held(d)
    BY <1>1, <1>3, <2>1, <2>2, HoldsStep DEF Held
  <2>3. CASE status[d] # "processing"
    <3>1. PICK w \in Workers : IngestClaim(w) /\ d = Current(w)
      BY <1>1, <1>3, <2>3, ProcessingSteps
    <3>2. d \in worker[w].todo /\ Stands(w, "work")
      BY <1>1, <3>1, CurrentIn, PauseEffect DEF IngestClaim, Bound, WorkerBound, Ingesting
    <3>3. CASE worker[w].job = None
      BY <3>2, <3>3 DEF Sent, Ordinary, Stands, Keeps
    <3>4. CASE worker[w].job # None
      <4>1. PICK j \in Jobs : j = worker[w].job
        BY <1>1, <3>4, HasJob
      <4>2. item[j][d].status # "none"
        <5>1. status[d] # "purged"
          BY <3>1 DEF IngestClaim
        <5> QED
          BY <3>2, <4>1, <5>1 DEF Attended, Gone
      <4>3. Holds(j, d)
        BY <1>1, <3>2, <4>1, <4>2 DEF Holds, Owned, Mine, Plain
      <4>4. item' = item
        BY <3>1 DEF IngestClaim, jobVars
      <4>5. Holds(j, d)'
        BY <4>3, <4>4 DEF Holds
      <4> QED
        BY <4>1, <4>5 DEF Held
    <3> QED
      BY <3>3, <3>4
  <2> QED
    BY <1>1, <2>1, <2>2, <2>3 DEF Kept
<1> QED
  BY <1>2, <1>3 DEF Kept

LEMMA AttendedStep ==
  ASSUME Shape, Stored, Owned, Attended, [Next]_vars
  PROVE  Attended'
<1>1. ASSUME NEW d \in Plain'
      PROVE  Kept(d)' /\ \A w \in Workers : InHand(w, d)' /\ Aside(w, d)'
  <2>1. d \in Documents \ (crossed' \union shared')
    BY <1>1 DEF Plain
  <2> QED
    BY <2>1, KeptStep, InHandStep, AsideStep
<1>2. ASSUME NEW w \in Workers PROVE Starts(w)' /\ Gone(w)'
  BY StartsStep, GoneStep DEF Attended
<1>3. ASSUME NEW v \in Workers, NEW w \in Workers PROVE Apart(v, w)' /\ Distant(w, v)'
  BY ApartStep, DistantStep
<1> QED
  BY <1>1, <1>2, <1>3 DEF Attended

-----------------------------------------------------------------------------
(* The inductive invariant, and what follows from it.                      *)

IInv == Shape /\ Counted /\ Stored /\ Driven /\ Owned /\ Attended

LEMMA IInvInit == Init => IInv
BY ShapeInit, CountedInit, StoredInit, DrivenInit, OwnedInit, AttendedInit DEF IInv

LEMMA IInvStep == IInv /\ [Next]_vars => IInv'
BY ShapeStep, CountedStep, StoredStep, DrivenStep, OwnedStep, AttendedStep DEF IInv

LEMMA Invariance == Spec => []IInv
BY IInvInit, IInvStep, PTL DEF Spec

(* Type correctness, for any number of Documents, jobs and workers: what a *)
(* claim, a request or a rollback writes is a state of the tables, and the *)
(* counters that _refresh_job writes never exceed the total of the job.    *)
THEOREM TypeCorrect == Spec => []TypeOK
<1>1. IInv => TypeOK
  BY DEF IInv, Shape, Types, Counted, TypeOK
<1> QED
  BY <1>1, Invariance, PTL

(* No Document is Ready without chunks, whatever a claim restores, calls   *)
(* back or loses: only searchable Documents are given an item.             *)
THEOREM ReadyStaysSearchable == Spec => []ReadyIsSearchable
<1>1. IInv => ReadyIsSearchable
  BY DEF IInv, Stored
<1> QED
  BY <1>1, Invariance, PTL

(* However many jobs two racing creations make active, each of them has    *)
(* its own message, request or worker until it ends, is paused or loses a  *)
(* message.                                                                *)
THEOREM JobsAreDriven == Spec => []JobIsDriven
<1>1. IInv => JobIsDriven
  <2> SUFFICES ASSUME IInv, NEW j \in Jobs, job[j].status \in Claimed, j \notin lost
               PROVE  \/ batches[j] > 0
                      \/ \E w \in Workers : Drives(w, j)
                      \/ \E q \in Requests :
                           request[q].job = j /\ request[q].phase \in {"enqueue", "giveUp"}
    BY DEF JobIsDriven
  <2>1. Pulled(j)
    BY DEF IInv, Driven
  <2>2. \A w \in Workers : Claims(w, j) => Drives(w, j)
    BY DEF Claims, Drives
  <2> QED
    BY <2>1, <2>2 DEF Pulled, Waiting
<1> QED
  BY <1>1, Invariance, PTL

(* A job that says completed has nothing left over and nothing that failed, *)
(* but for Documents that two of its workers were at, whatever the batches, *)
(* crashes, requests and deletions in between.                             *)
THEOREM CompletedIsDone == Spec => []CompletedMeansDone
<1>1. IInv => CompletedMeansDone
  BY DEF IInv, Owned, Over, Left, CompletedMeansDone
<1> QED
  BY <1>1, Invariance, PTL

(* No claim is forgotten: a Document that waits or is being worked on has a *)
(* message, a worker, a retry about to send its message, or an item that    *)
(* will grow stale and that a batch of an active job claims again.  The     *)
(* exceptions are those that the property names, each by its Document.      *)
THEOREM ClaimsAreKept == Spec => []ClaimIsKept
<1>1. IInv => ClaimIsKept
  <2> SUFFICES ASSUME IInv, NEW d \in Documents \ (shared \union crossed),
                      status[d] \in {"pending", "processing"},
                      \A j \in Jobs : ~Forsaken(j, d),
                      \A q \in Requests :
                        ~(request[q].phase = "dead" /\ d \in request[q].documents)
               PROVE  \/ queue[d] > 0
                      \/ \E w \in Workers : At(w, d)
                      \/ \E q \in Requests : /\ request[q].phase \in {"refresh", "send"}
                                             /\ d \in request[q].documents
                      \/ \E j \in Jobs : Recoverable(j, d)
    BY DEF ClaimIsKept
  <2>1. Sent(d) \/ Held(d) \/ Pursued(d)
    BY DEF IInv, Attended, Plain, Kept, Queued, Sent
  <2>2. \A w \in Workers : Ordinary(w, d) => At(w, d)
    BY DEF Ordinary, At
  <2>3. ASSUME NEW j \in Jobs, Holds(j, d) PROVE Recoverable(j, d)
    <3>1. item[j][d].status = "processing" /\ Types /\ Bound /\ Owned
      BY <2>3 DEF Holds, IInv, Shape
    <3>2. Exists(j) /\ job[j].status \in JobStatuses
      BY <3>1 DEF Bound, Listed, Types, JobRecords
    <3>3. job[j].status # "cancelled"
      BY <3>1 DEF Forsaken
    <3>4. job[j].status \notin Over
      BY <3>1 DEF Owned, Left, Where
    <3> QED
      BY <3>1, <3>2, <3>3, <3>4 DEF Exists, JobStatuses, Over, Active, Recoverable
  <2>4. ASSUME NEW q \in Requests, Pursues(q), d \in request[q].documents
        PROVE  request[q].phase \in {"refresh", "send"}
    BY <2>4 DEF Pursues
  <2> QED
    BY <2>1, <2>2, <2>3, <2>4 DEF Sent, Held, Pursued
<1> QED
  BY <1>1, Invariance, PTL

(* A Document being deleted is purged, or revived by somebody who had read  *)
(* it before and writes without having locked it: the commit of a batch, or *)
(* a retry, at its commit or when the broker refuses its message.           *)
THEOREM LateWritesAloneRevive == Spec => OnlyLateWritesRevive
<1> DEFINE ByClaim(d) == \E w \in Workers : /\ worker[w].step = "commit"
                                            /\ worker'[w] # worker[w]
                                            /\ d \in DOMAIN worker[w].plan.documents
           ByRetry(d) == \E q \in Requests : /\ request[q].phase \in {"commit", "send"}
                                             /\ request'[q] # request[q]
                                             /\ d \in request[q].documents
<1>1. ASSUME IInv, [Next]_vars, NEW d \in Documents, status[d] = "deleting",
             status'[d] # "deleting"
      PROVE  status'[d] = "purged" \/ ByClaim(d) \/ ByRetry(d)
  <2>1. Shape /\ Types /\ Bound
    BY <1>1 DEF IInv, Shape
  <2>2. CASE Rewritten(d)
    <3>1. PICK w \in Workers : ClaimCommit(w) /\ worker[w].step = "commit"
                               /\ d \in DOMAIN worker[w].plan.documents
      BY <2>2 DEF Rewritten
    <3>2. worker'[w].step # "commit"
      BY <2>1, <3>1, ClaimCommitEffect
    <3> QED
      BY <3>1, <3>2
  <2>3. CASE Retried(d)
    <3>1. PICK q \in Requests : /\ RetryCommit(q) \/ RetrySendFails(q)
                                /\ d \in request[q].documents
      BY <2>3 DEF Retried
    <3>2. request[q].phase \in {"commit", "send"}
      BY <3>1 DEF RetryCommit, RetrySendFails
    <3>3. RetryCommit(q) => Ends(q) \/ Carries(q, "refresh", request[q].documents)
      BY <2>1, RetryEffect
    <3>4. RetrySendFails(q) => Ends(q)
      BY <2>1, RetryEffect
    <3>5. request'[q].phase \in {"done", "refresh"}
      BY <3>1, <3>3, <3>4 DEF Ends, Carries, Done, Free
    <3> QED
      BY <3>1, <3>2, <3>5
  <2> QED
    BY <1>1, <2>1, <2>2, <2>3, Fates DEF Fate, Stays, Published, Moves, Purged
<1>2. IInv /\ [Next]_vars =>
        [\A d \in Documents : status[d] = "deleting" /\ status'[d] # "deleting" =>
           \/ status'[d] = "purged"
           \/ \E w \in Workers : /\ worker[w].step = "commit" /\ worker'[w] # worker[w]
                                 /\ d \in DOMAIN worker[w].plan.documents
           \/ \E q \in Requests : /\ request[q].phase \in {"commit", "send"}
                                  /\ request'[q] # request[q]
                                  /\ d \in request[q].documents]_vars
  BY <1>1
<1> QED
  BY <1>2, Invariance, PTL DEF Spec, OnlyLateWritesRevive

=============================================================================
