------------------------------ MODULE Uploads ------------------------------
(***************************************************************************)
(* Resumable uploads (api/uploads.py, uploads/): an Upload Session is a    *)
(* row and two files.  Parts are appended to the temporary file, each      *)
(* confirmed by a receipt; completion moves the file to its final place    *)
(* and inserts the Document; sweeps reconcile the files with the rows.     *)
(*                                                                         *)
(* Neither file operations nor transactions can be undone together.  The   *)
(* row lock of a session is held from the read to the commit, and each     *)
(* file operation, each transaction, is an action of its own.  The removal *)
(* of both files of one session counts as one file operation.              *)
(*                                                                         *)
(* A file is the sequence of its parts, each with the bytes the client     *)
(* declared, with others, or torn: written by half.                        *)
(***************************************************************************)
EXTENDS Naturals, Sequences, FiniteSets

CONSTANTS
  Uploads,           \* identities an Upload Session may get
  Files,             \* files, by their declared SHA-256
  Parts,             \* parts of a file
  Sent,              \* bytes a client sends for a part
  Sweepers,          \* the sweeps that run beside the requests
  Requests,          \* requests the API process handles at a time
  MaxActiveUploads,  \* settings.max_active_upload_sessions
  MaxDocuments,      \* the limit of 10,000 Documents
  PossibleFaults,    \* the kinds of fault that may happen
  MaxFaults,         \* how many of them may happen
  None               \* no file, no session, nobody

FaultKinds == {"crash",    \* the API process dies
               "sweep",    \* a sweep dies
               "commit",   \* a transaction is rolled back
               "unknown",  \* a transaction commits, but the answer is lost
               "seed"}     \* another program inserts the same Document

Bytes == {"declared", "other"}
Contents == UNION {[1..n -> Bytes \union {"torn"}] : n \in 0..Parts}

ASSUME SentAssumption == Sent \subseteq Bytes
ASSUME SweepersAssumption == Sweepers \subseteq {"startup", "hourly"}
ASSUME PartsAssumption == Parts \in Nat \ {0}
ASSUME LimitAssumption == MaxActiveUploads \in Nat /\ MaxDocuments \in Nat
ASSUME ProcessAssumption ==
  Requests \intersect {"startup", "hourly"} = {} /\ None \notin Requests \union Sweepers
ASSUME NoneAssumption == None \notin Uploads \union Files \union Bytes /\ None \notin Contents
ASSUME FiniteAssumption == IsFiniteSet(Uploads)
ASSUME UploadFaultAssumption == PossibleFaults \subseteq FaultKinds /\ MaxFaults \in Nat

VARIABLES
  status,        \* upload_sessions.status; "absent" before the INSERT,
                 \* "deleted" after the DELETE
  file,          \* declared_sha256
  receipts,      \* bytes of the parts confirmed so far; received_bytes
  safeError,     \* safe_error
  expired,       \* expires_at <= now
  temporary,     \* the file under temporary_storage_key
  final,         \* the file under final_storage_key
  young,         \* the temporary file was written less than 300 s ago
  document,      \* a Document made from the session exists
  seeded,        \* files of which another program has inserted a Document
  holder,        \* who holds the row lock
  capacityLock,  \* who holds the advisory lock UPLOAD_CAPACITY_LOCK
  documentLock,  \* who holds UPLOAD_CAPACITY_LOCK + 1
  request,       \* what each request is doing
  sweep,         \* what each sweep is doing
  booting,       \* the API process has started and not swept yet
  condemned,     \* somebody began to remove the files of the session
  undone,        \* a completion of the session did not learn that its
                 \* transaction committed, and moves the file back
  faults         \* faults so far

rowVars == <<status, file, receipts, safeError, expired>>
fileVars == <<temporary, final, young>>
lockVars == <<holder, capacityLock, documentLock>>
documentVars == <<document, seeded>>
historyVars == <<condemned, undone>>
controlVars == <<booting, faults>>
vars == <<rowVars, fileVars, documentVars, lockVars, request, sweep, historyVars,
          controlVars>>

-----------------------------------------------------------------------------
(* Vocabulary. *)

Processes == Requests \union Sweepers

Errors == {"none", "checkpoint", "missing", "mismatch", "format", "limit",
           "duplicate", "inconsistent"}
Phases == {"idle", "sweep", "look", "touch", "count", "insert",
           "append", "confirm", "verify", "admit", "move", "publish",
           "moveBack", "relock", "expire", "cancel", "fail", "deleteRow", "failRow"}

Idle == [phase |-> "idle", upload |-> None, file |-> None, bytes |-> None,
         reason |-> "none"]
Asleep == [phase |-> "idle", todo |-> {}, delete |-> {}, fail |-> {}, known |-> {}]

Declared == [i \in 1..Parts |-> "declared"]
Size(f) == IF f = None THEN 0 ELSE Len(f)

Prefix(f, n) == IF n = 0 THEN <<>> ELSE SubSeq(f, 1, n)
HasPrefix(f, s) == f # None /\ Len(f) >= Len(s) /\ Prefix(f, Len(s)) = s

HasRow(u) == status[u] \notin {"absent", "deleted"}
Open == {u \in Uploads : status[u] = "open"}
Live == {u \in Uploads : document[u]}
IsDocument(f) == f \in seeded \/ \E u \in Live : file[u] = f

Init ==
  /\ status = [u \in Uploads |-> "absent"]
  /\ file = [u \in Uploads |-> None]
  /\ receipts = [u \in Uploads |-> <<>>]
  /\ safeError = [u \in Uploads |-> "none"]
  /\ expired = [u \in Uploads |-> FALSE]
  /\ temporary = [u \in Uploads |-> None]
  /\ final = [u \in Uploads |-> None]
  /\ young = [u \in Uploads |-> FALSE]
  /\ document = [u \in Uploads |-> FALSE]
  /\ seeded = {}
  /\ holder = [u \in Uploads |-> None]
  /\ capacityLock = None
  /\ documentLock = None
  /\ request = [q \in Requests |-> Idle]
  /\ sweep = [p \in Processes |-> Asleep]
  /\ booting = FALSE
  /\ condemned = [u \in Uploads |-> FALSE]
  /\ undone = [u \in Uploads |-> FALSE]
  /\ faults = [k \in FaultKinds |-> 0]

TotalFaults == faults["crash"] + faults["sweep"] + faults["commit"]
                 + faults["unknown"] + faults["seed"]

Fault(k) ==
  /\ k \in PossibleFaults
  /\ TotalFaults < MaxFaults
  /\ faults' = [faults EXCEPT ![k] = @ + 1]

Ready(q) == request[q] = Idle /\ ~booting

GoTo(q, phase) == request' = [request EXCEPT ![q].phase = phase]
FailWith(q, reason) ==
  request' = [request EXCEPT ![q].phase = "fail", ![q].reason = reason]
Finish(q) == request' = [request EXCEPT ![q] = Idle]

(* A transaction of q begins with the row lock of u, and ends without it.  *)
Lock(q, u, phase) ==
  /\ HasRow(u)
  /\ holder[u] = None
  /\ holder' = [holder EXCEPT ![u] = q]
  /\ request' = [request EXCEPT ![q] = [Idle EXCEPT !.phase = phase, !.upload = u]]

Unlocked(P) == [u \in Uploads |-> IF holder[u] \in P THEN None ELSE holder[u]]

EndTransaction(P) ==
  /\ holder' = Unlocked(P)
  /\ capacityLock' = IF capacityLock \in P THEN None ELSE capacityLock
  /\ documentLock' = IF documentLock \in P THEN None ELSE documentLock

-----------------------------------------------------------------------------
(* Parts. *)

(* A part at any offset but the next one is answered from its receipt, or  *)
(* refused, and changes nothing.                                           *)
StartPart(q, u, b) ==
  /\ Ready(q)
  /\ status[u] = "open" /\ ~expired[u]
  /\ Len(receipts[u]) < Parts
  /\ holder[u] = None
  /\ holder' = [holder EXCEPT ![u] = q]
  /\ request' = [request EXCEPT ![q] = [Idle EXCEPT !.phase = "append",
                                                    !.upload = u, !.bytes = b]]
  /\ UNCHANGED <<rowVars, fileVars, documentVars, capacityLock, documentLock, sweep,
                 historyVars, controlVars>>

(* Whatever lies beyond the checkpoint is cut off before the part is       *)
(* written; the write may stop half-way.  Opening a file that is not there *)
(* creates it.                                                             *)
AppendPart(q) ==
  LET u == request[q].upload
      offset == Len(receipts[u]) IN
  /\ request[q].phase = "append"
  /\ IF Size(temporary[u]) < offset
       THEN /\ FailWith(q, "checkpoint")
            /\ temporary' = [temporary EXCEPT ![u] = IF @ = None THEN <<>> ELSE @]
            /\ young' = [young EXCEPT ![u] = @ \/ temporary[u] = None]
       ELSE /\ \/ /\ temporary' = [temporary EXCEPT ![u] =
                                     Append(Prefix(@, offset), request[q].bytes)]
                  /\ GoTo(q, "confirm")
               \/ /\ temporary' = [temporary EXCEPT ![u] =
                                     Append(Prefix(@, offset), "torn")]
                  /\ UNCHANGED request
            /\ young' = [young EXCEPT ![u] = TRUE]
  /\ UNCHANGED <<rowVars, final, documentVars, lockVars, sweep, historyVars, controlVars>>

Confirm(q) ==
  LET u == request[q].upload IN
  /\ request[q].phase = "confirm"
  /\ receipts' = [receipts EXCEPT ![u] = Append(@, request[q].bytes)]
  /\ expired' = [expired EXCEPT ![u] = FALSE]
  /\ EndTransaction({q})
  /\ Finish(q)
  /\ UNCHANGED <<status, file, safeError, fileVars, documentVars, sweep, historyVars,
                 controlVars>>

-----------------------------------------------------------------------------
(* Ends of a session. *)

(* _require_open finds the session expired: a part, a resumption, or, if   *)
(* it is not Completed, a completion.                                      *)
StartExpired(q, u) ==
  /\ Ready(q)
  /\ expired[u]
  /\ Lock(q, u, "expire")
  /\ UNCHANGED <<rowVars, fileVars, documentVars, capacityLock, documentLock, sweep,
                 historyVars, controlVars>>

StartCancel(q, u) ==
  /\ Ready(q)
  /\ status[u] # "completed"
  /\ Lock(q, u, "cancel")
  /\ UNCHANGED <<rowVars, fileVars, documentVars, capacityLock, documentLock, sweep,
                 historyVars, controlVars>>

(* Mutant of RemoveFiles: only the temporary file is removed. *)
RemoveTemporary(q) ==
  LET u == request[q].upload IN
  /\ request[q].phase \in {"expire", "cancel", "fail"}
  /\ temporary' = [temporary EXCEPT ![u] = None]
  /\ condemned' = [condemned EXCEPT ![u] = TRUE]
  /\ GoTo(q, IF request[q].phase = "fail" THEN "failRow" ELSE "deleteRow")
  /\ UNCHANGED <<rowVars, final, young, documentVars, lockVars, sweep, undone, controlVars>>

(* The files of u are removed; a Completed session that merely expires     *)
(* leaves its final file to the Document.                                  *)
RemoveFiles(q) ==
  LET u == request[q].upload
      keepsFinal == request[q].phase = "expire" /\ status[u] = "completed" IN
  /\ request[q].phase \in {"expire", "cancel", "fail"}
  /\ temporary' = [temporary EXCEPT ![u] = None]
  /\ final' = [final EXCEPT ![u] = IF keepsFinal THEN @ ELSE None]
  /\ condemned' = [condemned EXCEPT ![u] = TRUE]
  /\ GoTo(q, IF request[q].phase = "fail" THEN "failRow" ELSE "deleteRow")
  /\ UNCHANGED <<rowVars, young, documentVars, lockVars, sweep, undone, controlVars>>

DeleteRow(q) ==
  LET u == request[q].upload IN
  /\ request[q].phase = "deleteRow"
  /\ status' = [status EXCEPT ![u] = "deleted"]
  /\ receipts' = [receipts EXCEPT ![u] = <<>>]
  /\ EndTransaction({q})
  /\ Finish(q)
  /\ UNCHANGED <<file, safeError, expired, fileVars, documentVars, sweep, historyVars,
                 controlVars>>

(* _terminal_failure *)
FailRow(q) ==
  LET u == request[q].upload IN
  /\ request[q].phase = "failRow"
  /\ status' = [status EXCEPT ![u] = "failed"]
  /\ receipts' = [receipts EXCEPT ![u] = <<>>]
  /\ safeError' = [safeError EXCEPT ![u] = request[q].reason]
  /\ expired' = [expired EXCEPT ![u] = FALSE]
  /\ EndTransaction({q})
  /\ Finish(q)
  /\ UNCHANGED <<file, fileVars, documentVars, sweep, historyVars, controlVars>>

-----------------------------------------------------------------------------
(* Completion. *)

StartComplete(q, u) ==
  /\ Ready(q)
  /\ status[u] = "open" /\ ~expired[u]
  /\ Len(receipts[u]) = Parts
  /\ Lock(q, u, "verify")
  /\ UNCHANGED <<rowVars, fileVars, documentVars, capacityLock, documentLock, sweep,
                 historyVars, controlVars>>

(* Size and SHA-256 of the temporary file, then its format. *)
Verify(q) ==
  LET u == request[q].upload IN
  /\ request[q].phase = "verify"
  /\ \/ temporary[u] = None /\ FailWith(q, "missing")
     \/ temporary[u] \notin {None, Declared} /\ FailWith(q, "mismatch")
     \/ temporary[u] = Declared /\ (FailWith(q, "format") \/ GoTo(q, "admit"))
  /\ UNCHANGED <<rowVars, fileVars, documentVars, lockVars, sweep, historyVars, controlVars>>

(* Mutant of Admit: Documents are counted without the advisory lock. *)
AdmitUnlocked(q) ==
  /\ request[q].phase = "admit"
  /\ IF Cardinality(Live) + Cardinality(seeded) >= MaxDocuments THEN FailWith(q, "limit")
     ELSE IF IsDocument(file[request[q].upload]) THEN FailWith(q, "duplicate")
     ELSE GoTo(q, "move")
  /\ UNCHANGED <<rowVars, fileVars, documentVars, lockVars, sweep, historyVars, controlVars>>

(* Under the second advisory lock: room for a Document, and no duplicate. *)
Admit(q) ==
  /\ request[q].phase = "admit"
  /\ documentLock = None
  /\ documentLock' = q
  /\ IF Cardinality(Live) + Cardinality(seeded) >= MaxDocuments THEN FailWith(q, "limit")
     ELSE IF IsDocument(file[request[q].upload]) THEN FailWith(q, "duplicate")
     ELSE GoTo(q, "move")
  /\ UNCHANGED <<rowVars, fileVars, documentVars, holder, capacityLock, sweep, historyVars,
                 controlVars>>

MoveToFinal(q) ==
  LET u == request[q].upload IN
  /\ request[q].phase = "move"
  /\ final' = [final EXCEPT ![u] = temporary[u]]
  /\ temporary' = [temporary EXCEPT ![u] = None]
  /\ GoTo(q, "publish")
  /\ UNCHANGED <<rowVars, young, documentVars, lockVars, sweep, historyVars, controlVars>>

(* The transaction that inserts the Document commits ... *)
CommitDocument(u) ==
  /\ ~IsDocument(file[u])
  /\ document' = [document EXCEPT ![u] = TRUE]
  /\ status' = [status EXCEPT ![u] = "completed"]
  /\ safeError' = [safeError EXCEPT ![u] = "none"]
  /\ expired' = [expired EXCEPT ![u] = FALSE]
  /\ UNCHANGED <<file, receipts, seeded>>

Publish(q) ==
  /\ request[q].phase = "publish"
  /\ CommitDocument(request[q].upload)
  /\ EndTransaction({q})
  /\ Finish(q)
  /\ UNCHANGED <<fileVars, sweep, historyVars, controlVars>>

(* ... or its answer is an error: the locks are gone, and the file will be *)
(* moved back ...                                                          *)
Undo(q, reason) ==
  /\ request[q].phase = "publish"
  /\ undone' = [undone EXCEPT ![request[q].upload] = TRUE]
  /\ EndTransaction({q})
  /\ request' = [request EXCEPT ![q].phase = "moveBack", ![q].reason = reason]
  /\ UNCHANGED <<fileVars, sweep, condemned, booting>>

(* ... because of the unique index on (knowledge_base_id, sha256) ...      *)
PublishDuplicate(q) ==
  /\ Undo(q, "duplicate")
  /\ IsDocument(file[request[q].upload])
  /\ UNCHANGED <<rowVars, documentVars, faults>>

(* ... because of another failure ...                                      *)
PublishFails(q) ==
  /\ Undo(q, "none")
  /\ Fault("commit")
  /\ UNCHANGED <<rowVars, documentVars>>

(* ... or although it has committed: the connection was lost before the    *)
(* answer came.                                                            *)
PublishUnanswered(q) ==
  /\ Undo(q, "none")
  /\ Fault("unknown")
  /\ CommitDocument(request[q].upload)

(* After the rollback the file is moved back, without the row lock. *)
MoveBack(q) ==
  LET u == request[q].upload IN
  /\ request[q].phase = "moveBack"
  /\ IF final[u] = None
       THEN UNCHANGED <<temporary, final>>
       ELSE /\ temporary' = [temporary EXCEPT ![u] = final[u]]
            /\ final' = [final EXCEPT ![u] = None]
  /\ IF request[q].reason = "duplicate" THEN GoTo(q, "relock") ELSE Finish(q)
  /\ UNCHANGED <<rowVars, young, documentVars, lockVars, sweep, historyVars, controlVars>>

(* A duplicate then fails the session, whatever it has become. *)
Relock(q) ==
  LET u == request[q].upload IN
  /\ request[q].phase = "relock"
  /\ holder[u] = None
  /\ IF HasRow(u) THEN FailWith(q, "duplicate") /\ holder' = [holder EXCEPT ![u] = q]
                  ELSE Finish(q) /\ UNCHANGED holder
  /\ UNCHANGED <<rowVars, fileVars, documentVars, capacityLock, documentLock, sweep,
                 historyVars, controlVars>>

-----------------------------------------------------------------------------
(* Sweeps (reconcile_upload_sessions): one at every start of the API, one  *)
(* every hour, and one at the beginning of each creation.                  *)

(* Mutant of LockRows: the rows are read, and not locked. *)
ReadRows(p) ==
  /\ sweep[p] = Asleep
  /\ sweep' = [sweep EXCEPT ![p] = [Asleep EXCEPT !.phase = "keys",
                                                 !.todo = {u \in Uploads : HasRow(u)}]]
  /\ UNCHANGED holder

(* Every row that nobody holds is locked; the others are skipped. *)
LockRows(p) ==
  LET rows == {u \in Uploads : HasRow(u) /\ holder[u] = None} IN
  /\ sweep[p] = Asleep
  /\ holder' = [u \in Uploads |-> IF u \in rows THEN p ELSE holder[u]]
  /\ sweep' = [sweep EXCEPT ![p] = [Asleep EXCEPT !.phase = "keys", !.todo = rows]]

StartSweep(p) ==
  /\ LockRows(p)
  /\ p = "startup" => booting
  /\ UNCHANGED <<rowVars, fileVars, documentVars, capacityLock, documentLock, request,
                 historyVars, controlVars>>

(* The temporary files that are in use, as a second statement sees them. *)
ReadOpenKeys(p) ==
  /\ sweep[p].phase = "keys"
  /\ sweep' = [sweep EXCEPT ![p].phase = "rows", ![p].known = Open]
  /\ UNCHANGED <<rowVars, fileVars, documentVars, lockVars, request, historyVars, controlVars>>

(* An expired session loses its files, and its row. *)
SweepExpired(p, u) ==
  /\ expired[u]
  /\ temporary' = [temporary EXCEPT ![u] = None]
  /\ final' = [final EXCEPT ![u] = IF status[u] = "completed" THEN @ ELSE None]
  /\ condemned' = [condemned EXCEPT ![u] = TRUE]
  /\ sweep' = [sweep EXCEPT ![p].todo = @ \ {u}, ![p].delete = @ \union {u}]
  /\ UNCHANGED young

(* An ended one keeps at most the original of its Document. *)
SweepEnded(p, u) ==
  /\ ~expired[u] /\ status[u] # "open"
  /\ temporary' = [temporary EXCEPT ![u] = None]
  /\ final' = [final EXCEPT ![u] = IF status[u] = "failed" THEN None ELSE @]
  /\ sweep' = [sweep EXCEPT ![p].todo = @ \ {u}]
  /\ UNCHANGED <<young, condemned>>

(* Mutant of SweepOpen: a file in the final place is not found again. *)
SweepOpenTemporary(p, u) ==
  LET received == Len(receipts[u])
      lost == Size(temporary[u]) < received IN
  /\ ~expired[u] /\ status[u] = "open"
  /\ final' = [final EXCEPT ![u] = None]
  /\ temporary' = [temporary EXCEPT ![u] =
                     IF lost \/ @ = None THEN None ELSE Prefix(@, received)]
  /\ young' = [young EXCEPT ![u] = @ \/ Size(temporary[u]) > received]
  /\ sweep' = [sweep EXCEPT ![p].todo = @ \ {u},
                            ![p].fail = IF lost THEN @ \union {u} ELSE @]
  /\ UNCHANGED condemned

(* An open one gets its file back in the temporary place, cut down to the  *)
(* checkpoint; one whose file is too short fails.                          *)
SweepOpen(p, u) ==
  LET found == IF temporary[u] # None THEN temporary[u] ELSE final[u]
      received == Len(receipts[u])
      lost == IF found = None THEN received > 0 ELSE Len(found) < received IN
  /\ ~expired[u] /\ status[u] = "open"
  /\ final' = [final EXCEPT ![u] = None]
  /\ temporary' = [temporary EXCEPT ![u] =
                     IF lost \/ found = None THEN None ELSE Prefix(found, received)]
  /\ young' = [young EXCEPT ![u] = @ \/ Size(found) > received]
  /\ sweep' = [sweep EXCEPT ![p].todo = @ \ {u},
                            ![p].fail = IF lost THEN @ \union {u} ELSE @]
  /\ UNCHANGED condemned

SweepRow(p) ==
  /\ sweep[p].phase = "rows"
  /\ \E u \in sweep[p].todo : SweepExpired(p, u) \/ SweepEnded(p, u) \/ SweepOpen(p, u)
  /\ UNCHANGED <<rowVars, documentVars, lockVars, request, undone, controlVars>>

(* Mutants of SweepOrphans: files may be new, or no file is an orphan. *)
SweepUnknown(p) ==
  /\ sweep[p].phase = "rows" /\ sweep[p].todo = {}
  /\ sweep' = [sweep EXCEPT ![p].phase = "commit"]
  /\ temporary' = [u \in Uploads |-> IF p \in Sweepers /\ u \notin sweep[p].known
                                        THEN None ELSE temporary[u]]
  /\ UNCHANGED <<rowVars, final, young, documentVars, lockVars, request, historyVars,
                 controlVars>>

SweepNothing(p) ==
  /\ sweep[p].phase = "rows" /\ sweep[p].todo = {}
  /\ sweep' = [sweep EXCEPT ![p].phase = "commit"]
  /\ UNCHANGED <<rowVars, fileVars, documentVars, lockVars, request, historyVars,
                 controlVars>>

(* Temporary files that no open session has, and that are old enough.  A   *)
(* creation leaves them alone.                                             *)
SweepOrphans(p) ==
  LET orphans == {u \in Uploads : temporary[u] # None /\ u \notin sweep[p].known
                                  /\ ~young[u]} IN
  /\ sweep[p].phase = "rows" /\ sweep[p].todo = {}
  /\ sweep' = [sweep EXCEPT ![p].phase = "commit"]
  /\ temporary' = IF p \in Sweepers
                    THEN [u \in Uploads |-> IF u \in orphans THEN None ELSE temporary[u]]
                    ELSE temporary
  /\ UNCHANGED <<rowVars, final, young, documentVars, lockVars, request, historyVars,
                 controlVars>>

CommitSweep(p) ==
  LET s == sweep[p] IN
  /\ s.phase = "commit"
  /\ status' = [u \in Uploads |-> CASE u \in s.delete -> "deleted"
                                    [] u \in s.fail   -> "failed"
                                    [] OTHER          -> status[u]]
  /\ receipts' = [u \in Uploads |-> IF u \in s.delete \union s.fail
                                      THEN <<>> ELSE receipts[u]]
  /\ safeError' = [u \in Uploads |-> IF u \in s.fail THEN "inconsistent" ELSE safeError[u]]
  /\ expired' = [u \in Uploads |-> expired[u] /\ u \notin s.fail]
  /\ EndTransaction({p})
  /\ sweep' = [sweep EXCEPT ![p] = Asleep]
  /\ booting' = (booting /\ p # "startup")
  /\ IF p \in Requests THEN GoTo(p, "look") ELSE UNCHANGED request
  /\ UNCHANGED <<file, fileVars, documentVars, historyVars, faults>>

(* What it did to files stays; a start of the API goes on without it. *)
SweepFails(p) ==
  /\ sweep[p] # Asleep
  /\ Fault("sweep")
  /\ EndTransaction({p})
  /\ sweep' = [sweep EXCEPT ![p] = Asleep]
  /\ booting' = (booting /\ p # "startup")
  /\ IF p \in Requests THEN Finish(p) ELSE UNCHANGED request
  /\ UNCHANGED <<rowVars, fileVars, documentVars, historyVars>>

-----------------------------------------------------------------------------
(* Creation. *)

StartCreate(q, f) ==
  /\ Ready(q)
  /\ LockRows(q)
  /\ request' = [request EXCEPT ![q] = [Idle EXCEPT !.phase = "sweep", !.file = f]]
  /\ UNCHANGED <<rowVars, fileVars, documentVars, capacityLock, documentLock, historyVars,
                 controlVars>>

(* Refused if the Document exists; an open session is used again. *)
Look(q) ==
  LET f == request[q].file
      same == {u \in Open : file[u] = f} IN
  /\ request[q].phase = "look"
  /\ \/ IsDocument(f) /\ Finish(q)
     \/ /\ ~IsDocument(f) /\ same = {}
        /\ GoTo(q, "count")
     \/ /\ ~IsDocument(f)
        /\ \E u \in same : request' = [request EXCEPT ![q].phase = "touch", ![q].upload = u]
  /\ UNCHANGED <<rowVars, fileVars, documentVars, lockVars, sweep, historyVars, controlVars>>

(* Its expiry is put off, whatever it has become. *)
Touch(q) ==
  LET u == request[q].upload IN
  /\ request[q].phase = "touch"
  /\ holder[u] = None
  /\ expired' = IF HasRow(u) THEN [expired EXCEPT ![u] = FALSE] ELSE expired
  /\ Finish(q)
  /\ UNCHANGED <<status, file, receipts, safeError, fileVars, documentVars, lockVars, sweep,
                 historyVars, controlVars>>

(* Under the first advisory lock: room for a session. *)
Count(q) ==
  /\ request[q].phase = "count"
  /\ capacityLock = None
  /\ IF Cardinality(Open) >= MaxActiveUploads
       THEN Finish(q) /\ UNCHANGED capacityLock
       ELSE GoTo(q, "insert") /\ capacityLock' = q
  /\ UNCHANGED <<rowVars, fileVars, documentVars, holder, documentLock, sweep, historyVars,
                 controlVars>>

(* A session of the same file may have been opened meanwhile: the unique   *)
(* index refuses the second, and the first is answered.                    *)
Insert(q) ==
  LET f == request[q].file IN
  /\ request[q].phase = "insert"
  /\ IF \E u \in Open : file[u] = f
       THEN UNCHANGED rowVars
       ELSE \E u \in Uploads :
              /\ status[u] = "absent"
              /\ status' = [status EXCEPT ![u] = "open"]
              /\ file' = [file EXCEPT ![u] = f]
              /\ UNCHANGED <<receipts, safeError, expired>>
  /\ EndTransaction({q})
  /\ Finish(q)
  /\ UNCHANGED <<fileVars, documentVars, sweep, historyVars, controlVars>>

-----------------------------------------------------------------------------
(* The rest of the world. *)

(* run_purge, at the end of a deletion. *)
PurgeDocument(u) ==
  /\ document[u]
  /\ document' = [document EXCEPT ![u] = FALSE]
  /\ final' = [final EXCEPT ![u] = None]
  /\ UNCHANGED <<rowVars, temporary, young, seeded, lockVars, request, sweep, historyVars,
                 controlVars>>

PurgeSeeded(f) ==
  /\ f \in seeded
  /\ seeded' = seeded \ {f}
  /\ UNCHANGED <<rowVars, fileVars, document, lockVars, request, sweep, historyVars,
                 controlVars>>

SeedDocument(f) ==
  /\ ~IsDocument(f)
  /\ Fault("seed")
  /\ seeded' = seeded \union {f}
  /\ UNCHANGED <<rowVars, fileVars, document, lockVars, request, sweep, historyVars, booting>>

Expire(u) ==
  /\ HasRow(u) /\ ~expired[u]
  /\ expired' = [expired EXCEPT ![u] = TRUE]
  /\ UNCHANGED <<status, file, receipts, safeError, fileVars, documentVars, lockVars, request,
                 sweep, historyVars, controlVars>>

(* A sweep takes less time than a file takes to be old: none is under way  *)
(* that read the keys before the file was written.                         *)
GrowOld(u) ==
  /\ young[u]
  /\ \A p \in Sweepers : sweep[p].phase \in {"rows", "commit"} => u \in sweep[p].known
  /\ young' = [young EXCEPT ![u] = FALSE]
  /\ UNCHANGED <<rowVars, temporary, final, documentVars, lockVars, request, sweep, historyVars,
                 controlVars>>

(* A request's transaction is rolled back, and the request ends. *)
CommitFails(q) ==
  /\ request[q].phase \in {"confirm", "deleteRow", "failRow", "touch", "insert"}
  /\ Fault("commit")
  /\ EndTransaction({q})
  /\ Finish(q)
  /\ UNCHANGED <<rowVars, fileVars, documentVars, sweep, historyVars, booting>>

(* All requests die, and PostgreSQL rolls their transactions back. *)
Crash ==
  /\ Fault("crash")
  /\ booting' = TRUE
  /\ EndTransaction(Requests \union {"startup"})
  /\ request' = [q \in Requests |-> Idle]
  /\ sweep' = [p \in Processes |-> IF p = "hourly" THEN sweep[p] ELSE Asleep]
  /\ UNCHANGED <<rowVars, fileVars, documentVars, historyVars>>

-----------------------------------------------------------------------------
Begin(q) ==
  \/ \E u \in Uploads : StartExpired(q, u) \/ StartCancel(q, u) \/ StartComplete(q, u)
  \/ \E u \in Uploads, b \in Sent : StartPart(q, u, b)
  \/ \E f \in Files : StartCreate(q, f)

Continue(q) ==
  \/ AppendPart(q) \/ Confirm(q) \/ RemoveFiles(q) \/ DeleteRow(q) \/ FailRow(q)
  \/ Verify(q) \/ Admit(q) \/ MoveToFinal(q) \/ Publish(q) \/ PublishDuplicate(q)
  \/ MoveBack(q) \/ Relock(q) \/ Look(q) \/ Touch(q) \/ Count(q) \/ Insert(q)

Sweep(p) == ReadOpenKeys(p) \/ SweepRow(p) \/ SweepOrphans(p) \/ CommitSweep(p)

Next ==
  \/ \E q \in Requests : \/ Begin(q) \/ Continue(q)
                         \/ PublishFails(q) \/ PublishUnanswered(q) \/ CommitFails(q)
  \/ \E p \in Sweepers : StartSweep(p)
  \/ \E p \in Processes : Sweep(p) \/ SweepFails(p)
  \/ \E u \in Uploads : PurgeDocument(u) \/ Expire(u) \/ GrowOld(u)
  \/ \E f \in Files : SeedDocument(f) \/ PurgeSeeded(f)
  \/ Crash

Spec == Init /\ [][Next]_vars

(***************************************************************************)
(* Fairness.  A request whose process lives reaches its end, a sweep too;  *)
(* the hourly sweep is started again and again; a file that is left alone  *)
(* grows old, in the time between two sweeps.                              *)
(***************************************************************************)
Fairness ==
  /\ \A q \in Requests : WF_vars(Continue(q))
  /\ \A p \in Processes : WF_vars(Sweep(p))
  /\ \A p \in Sweepers : WF_vars(StartSweep(p))
  /\ \A u \in Uploads : SF_vars(GrowOld(u))

FairSpec == Spec /\ Fairness

-----------------------------------------------------------------------------
(* Properties. *)

RequestStates == [phase  : Phases,
                  upload : Uploads \union {None},
                  file   : Files \union {None},
                  bytes  : Bytes \union {None},
                  reason : Errors]

SweepStates == [phase  : {"idle", "keys", "rows", "commit"},
                todo   : SUBSET Uploads, delete : SUBSET Uploads,
                fail   : SUBSET Uploads, known  : SUBSET Uploads]

(* Every variable has its type. *)
TypeOK ==
  /\ status \in [Uploads -> {"absent", "open", "completed", "failed", "deleted"}]
  /\ file \in [Uploads -> Files \union {None}]
  /\ receipts \in [Uploads -> Contents]
  /\ safeError \in [Uploads -> Errors]
  /\ expired \in [Uploads -> BOOLEAN]
  /\ temporary \in [Uploads -> Contents \union {None}]
  /\ final \in [Uploads -> Contents \union {None}]
  /\ young \in [Uploads -> BOOLEAN]
  /\ document \in [Uploads -> BOOLEAN]
  /\ seeded \in SUBSET Files
  /\ holder \in [Uploads -> Processes \union {None}]
  /\ capacityLock \in Requests \union {None}
  /\ documentLock \in Requests \union {None}
  /\ request \in [Requests -> RequestStates]
  /\ sweep \in [Processes -> SweepStates]
  /\ booting \in BOOLEAN
  /\ condemned \in [Uploads -> BOOLEAN]
  /\ undone \in [Uploads -> BOOLEAN]
  /\ faults \in [FaultKinds -> Nat]

(* A client's view of its session and of the Document made of it. *)
Life == [u \in Uploads |-> IF status[u] \in {"absent", "open"} THEN status[u] ELSE "over"]
Original == [u \in Uploads |-> IF document[u] /\ ~undone[u] THEN final[u] ELSE None]
Loose == {u \in Live : undone[u]}

Resumable == INSTANCE ResumableFile
  WITH life <- Life, received <- receipts, original <- Original, loose <- Loose

(* Whatever requests, sweeps and crashes do beside each other, a client    *)
(* sees a file that grows part by part and becomes at most one Document,   *)
(* with exactly the bytes confirmed to it; and a Document keeps them,      *)
(* unless a completion has moved them back without the row lock.           *)
FileSpec == Resumable!Spec

(* The confirmed bytes of an open session are on disk, whatever has died   *)
(* or failed in the meantime, unless somebody began to remove its files.   *)
CheckpointOnDisk ==
  \A u \in Open :
    ~condemned[u] /\ receipts[u] # <<>>
      => HasPrefix(temporary[u], receipts[u]) \/ HasPrefix(final[u], receipts[u])

(* A Document always has its original, and it is the file that was         *)
(* declared, unless a completion has moved it back without the row lock.   *)
OriginalIntact == \A u \in Live : final[u] = Declared \/ undone[u]

(* Bytes that were confirmed are never found missing, neither by a part,   *)
(* by a completion nor by a sweep, however often requests die on the way:  *)
(* that takes a removal that was interrupted, a completion that moved the  *)
(* file back without the row lock, or a sweep that failed after a start.   *)
NoCheckpointLost ==
  LET excused(u) == condemned[u] \/ undone[u] \/ faults["sweep"] > 0 IN
  /\ \A q \in Requests :
       request[q].phase = "fail" /\ request[q].reason \in {"checkpoint", "missing"}
         => excused(request[q].upload)
  /\ \A p \in Processes : \A u \in sweep[p].fail : excused(u)

(* The final file always belongs to a session or to a Document: no other   *)
(* place of the program would ever look for it again.                      *)
NoStrayOriginal ==
  \A u \in Uploads : final[u] # None => HasRow(u) \/ document[u]

(* Never more Documents than allowed come from uploads, although many      *)
(* completions may count them at once.                                     *)
DocumentLimitHolds == Cardinality(Live) <= MaxDocuments

(* Under fairness: the temporary file of a session that has ended vanishes.*)
TemporaryFilesVanish ==
  \A u \in Uploads :
    status[u] \notin {"absent", "open"} ~> temporary[u] = None

=============================================================================
