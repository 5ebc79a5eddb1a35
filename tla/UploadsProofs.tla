---------------------------- MODULE UploadsProofs ----------------------------
(***************************************************************************)
(* What holds of Uploads for any number of sessions, files, parts,         *)
(* requests and faults.                                                    *)
(*                                                                         *)
(* The inductive invariant has three parts beside the types.  Control says *)
(* which lock a request or a sweep holds at each of its steps.  Reliable   *)
(* says what the two files of a session may be, and what those that hold   *)
(* its row have seen of them.  Room bounds the Documents.  A fourth part,  *)
(* Matched, compares the files with the confirmed bytes; it is what the    *)
(* refinement of ResumableFile takes.                                      *)
(*                                                                         *)
(* A step is a step of some processes, on some of the sessions they hold.  *)
(* Leaves says what it leaves to everybody else, and there is one lemma on *)
(* what that suffices for; what remains of each action is what it does to  *)
(* the sessions it works on.                                               *)
(***************************************************************************)
EXTENDS Uploads, FiniteSetTheorems, SequenceTheorems, TLAPS

(* A request holds the row of its session at these steps, and a sweep the  *)
(* rows it has not dealt with and those it will write.                     *)
Completing == {"verify", "admit", "move", "publish"}
Locking == {"append", "confirm", "expire", "cancel", "fail", "deleteRow", "failRow"}
             \union Completing

Kept(u) == receipts[u] # <<>> => HasPrefix(temporary[u], receipts[u])
                                   \/ HasPrefix(final[u], receipts[u])
Excused(u) == condemned[u] \/ undone[u] \/ faults["sweep"] > 0
OnDisk(u) == temporary[u] # None \/ final[u] # None

RequestHolds(q) ==
  LET r == request[q]
      u == r.upload IN
  /\ r.phase \in Locking => u \in Uploads /\ holder[u] = q /\ HasRow(u)
  /\ r.phase \in {"append", "confirm"} =>
       status[u] = "open" /\ Len(receipts[u]) < Parts /\ r.bytes \in Bytes
  /\ r.phase \in Completing => status[u] = "open" /\ Len(receipts[u]) = Parts
  /\ r.phase = "cancel" => status[u] # "completed"
  /\ r.phase \in {"fail", "failRow"} => status[u] = "open" \/ undone[u]
  /\ r.phase \in {"moveBack", "relock"} =>
       u \in Uploads /\ undone[u] /\ status[u] # "absent"
  /\ r.phase = "touch" => u \in Uploads

SweepHolds(p) ==
  LET s == sweep[p] IN
  /\ s.phase = "idle" => s = Asleep
  /\ s.phase = "commit" => s.todo = {}
  /\ \A u \in s.todo \union s.delete \union s.fail : holder[u] = p /\ HasRow(u)
  /\ \A u \in s.fail : status[u] = "open"
  /\ p \in Requests => s = Asleep \/ request[p].phase = "sweep"

Control ==
  /\ \A q \in Requests : RequestHolds(q)
  /\ \A p \in Processes : SweepHolds(p)
  /\ booting => \A q \in Requests : request[q] = Idle

(* What the two files of a session may be.                                 *)
Disk(u) ==
  /\ temporary[u] = None \/ final[u] = None
  /\ status[u] = "absent" => temporary[u] = None /\ final[u] = None /\ receipts[u] = <<>>
  /\ status[u] = "open" /\ final[u] # None => Len(receipts[u]) = Parts
  /\ final[u] # None => status[u] = "open" \/ document[u]
  /\ document[u] => \/ status[u] \in {"completed", "deleted"}
                    \/ status[u] = "failed" /\ undone[u]
  /\ document[u] => final[u] = Declared \/ undone[u]
  /\ status[u] = "open" /\ ~condemned[u] => Kept(u)

(* What a request has seen of the files, or has made of them.              *)
RequestRelies(q) ==
  LET r == request[q]
      u == r.upload IN
  /\ r.phase = "confirm" => condemned[u] \/ temporary[u] = Append(receipts[u], r.bytes)
  /\ r.phase \in {"admit", "move"} => temporary[u] = Declared
  /\ r.phase = "publish" => final[u] = Declared \/ undone[u]
  /\ r.phase = "deleteRow" => final[u] = None \/ document[u]
  /\ r.phase = "failRow" => final[u] = None
  /\ r.phase = "fail" /\ r.reason \in {"checkpoint", "missing"} => Excused(u)

SweepRelies(p) ==
  /\ \A u \in sweep[p].delete : final[u] = None \/ document[u]
  /\ \A u \in sweep[p].fail : final[u] = None /\ Excused(u)

(* The temporary files that a sweep does not know are those of sessions    *)
(* that have ended, or they are new.                                       *)
SweepKnows(p) ==
  p \in Sweepers /\ sweep[p].phase = "rows" =>
    \A u \in Uploads \ sweep[p].known : status[u] = "open" /\ OnDisk(u) => young[u]

(* An open session whose file is in the final place is being completed, or *)
(* somebody will find the file there.                                      *)
AttendedBy(x, u) ==
  \/ u \in sweep[x].todo
  \/ x \in Requests /\ request[x].phase \in Locking /\ request[x].upload = u
Attended(u) == \E x \in Processes : AttendedBy(x, u)
Swept(u) == \E p \in Processes : u \in sweep[p].todo
Published(u) == \E q \in Requests : request[q].phase = "publish" /\ request[q].upload = u
Starting == booting /\ \A p \in Processes : p = "startup" => sweep[p] = Asleep
Found(u) == undone[u] \/ faults["sweep"] > 0 \/ Swept(u) \/ Published(u) \/ Starting
Recovered(u) ==
  status[u] = "open" /\ final[u] # None => Found(u) /\ (holder[u] # None => Attended(u))

Reliable ==
  /\ \A u \in Uploads : Disk(u) /\ Recovered(u)
  /\ \A q \in Requests : RequestRelies(q)
  /\ \A p \in Processes : SweepRelies(p) /\ SweepKnows(p)

(* Room for a Document, under the second advisory lock.                    *)
Room ==
  /\ IsFiniteSet(seeded) /\ Cardinality(Live) <= MaxDocuments
  /\ \A q \in Requests : request[q].phase \in {"move", "publish"} =>
       documentLock = q /\ Cardinality(Live) < MaxDocuments

-----------------------------------------------------------------------------
(* Sequences of parts.                                                     *)


LEMMA ContentsAreSequences ==
  ASSUME NEW s
  PROVE  s \in Contents <=> s \in Seq(Bytes \union {"torn"}) /\ Len(s) \in 0..Parts
<1>1. Parts \in Nat \ {0}
  BY PartsAssumption
<1>2. ASSUME s \in Contents
      PROVE  s \in Seq(Bytes \union {"torn"}) /\ Len(s) \in 0..Parts
  <2>1. PICK n \in 0..Parts : s \in [1..n -> Bytes \union {"torn"}]
    BY <1>2 DEF Contents
  <2> QED
    BY <1>1, <2>1
<1>3. ASSUME s \in Seq(Bytes \union {"torn"}), Len(s) \in 0..Parts
      PROVE  s \in Contents
  BY <1>3, LenProperties DEF Contents
<1> QED
  BY <1>2, <1>3

LEMMA PrefixFacts ==
  ASSUME NEW s \in Contents, NEW n \in 0..Len(s)
  PROVE  /\ Prefix(s, n) \in Contents /\ Len(Prefix(s, n)) = n
         /\ Prefix(s, Len(s)) = s
<1>1. /\ s \in Seq(Bytes \union {"torn"}) /\ Len(s) \in 0..Parts
      /\ Parts \in Nat /\ n \in Nat /\ n <= Len(s)
  BY ContentsAreSequences, PartsAssumption
<1>2. <<>> \in Seq(Bytes \union {"torn"}) /\ Len(<<>>) = 0
  BY EmptySeq
<1>3. Prefix(s, n) \in Seq(Bytes \union {"torn"}) /\ Len(Prefix(s, n)) = n
  <2>1. CASE n = 0
    BY <1>2, <2>1 DEF Prefix
  <2>2. CASE n # 0
    <3>1. \A i \in 1..n : s[i] \in Bytes \union {"torn"}
      BY <1>1, ElementOfSeq
    <3>2. /\ SubSeq(s, 1, n) \in Seq(Bytes \union {"torn"})
          /\ Len(SubSeq(s, 1, n)) = IF 1 <= n THEN n - 1 + 1 ELSE 0
      BY <1>1, <3>1, SubSeqProperties
    <3> QED
      BY <1>1, <2>2, <3>2 DEF Prefix
  <2> QED
    BY <2>1, <2>2
<1>4. Prefix(s, Len(s)) = s
  <2>1. CASE Len(s) = 0
    BY <1>1, <2>1, EmptySeq DEF Prefix
  <2>2. CASE Len(s) # 0
    BY <1>1, <2>2, SubSeqFull DEF Prefix
  <2> QED
    BY <2>1, <2>2
<1> QED
  BY <1>1, <1>3, <1>4, ContentsAreSequences

LEMMA AppendFacts ==
  ASSUME NEW s \in Contents, Len(s) < Parts, NEW b \in Bytes \union {"torn"}
  PROVE  /\ Append(s, b) \in Contents /\ Len(Append(s, b)) = Len(s) + 1
         /\ Prefix(Append(s, b), Len(s)) = s
<1>1. s \in Seq(Bytes \union {"torn"}) /\ Len(s) \in 0..Parts /\ Parts \in Nat
  BY ContentsAreSequences, PartsAssumption
<1> DEFINE t == Append(s, b)
<1>2. /\ t \in Seq(Bytes \union {"torn"}) /\ Len(t) = Len(s) + 1
      /\ \A i \in 1..Len(s) : t[i] = s[i]
  BY <1>1, AppendProperties
<1> HIDE DEF t
<1>3. t \in Contents
  <2>1. Len(t) \in 0..Parts
    BY <1>1, <1>2
  <2> QED
    BY <1>2, <2>1, ContentsAreSequences
<1>4. Prefix(t, Len(s)) = s
  <2>1. CASE Len(s) = 0
    BY <1>1, <2>1, EmptySeq DEF Prefix
  <2>2. CASE Len(s) # 0
    <3>1. \A i \in 1..Len(s) : t[i] \in Bytes \union {"torn"}
      BY <1>1, <1>2, ElementOfSeq
    <3>2. /\ SubSeq(t, 1, Len(s)) \in Seq(Bytes \union {"torn"})
          /\ Len(SubSeq(t, 1, Len(s))) = IF 1 <= Len(s) THEN Len(s) - 1 + 1 ELSE 0
          /\ \A i \in 1..(Len(s) - 1 + 1) : SubSeq(t, 1, Len(s))[i] = t[1 + i - 1]
      BY <1>1, <3>1, SubSeqProperties
    <3>3. Len(SubSeq(t, 1, Len(s))) = Len(s)
      BY <1>1, <2>2, <3>2
    <3>4. \A i \in 1..Len(s) : SubSeq(t, 1, Len(s))[i] = s[i]
      BY <1>1, <1>2, <3>2
    <3>5. SubSeq(t, 1, Len(s)) = s
      BY <1>1, <3>2, <3>3, <3>4, SeqEqual
    <3> QED
      BY <2>2, <3>5 DEF Prefix
  <2> QED
    BY <2>1, <2>2
<1> QED
  BY <1>2, <1>3, <1>4 DEF t

LEMMA SizeFacts ==
  ASSUME NEW s \in Contents
  PROVE  /\ Len(s) \in Nat /\ Len(s) <= Parts /\ s # None
         /\ Len(s) = 0 <=> s = <<>>
<1>1. s \in Seq(Bytes \union {"torn"}) /\ Len(s) \in 0..Parts /\ Parts \in Nat
  BY ContentsAreSequences, PartsAssumption
<1> QED
  BY <1>1, EmptySeq, NoneAssumption

LEMMA EmptyFacts == <<>> \in Contents /\ Len(<<>>) = 0
<1>1. <<>> \in Seq(Bytes \union {"torn"}) /\ Len(<<>>) = 0
  BY EmptySeq
<1>2. 0 \in 0..Parts
  BY PartsAssumption
<1> QED
  BY <1>1, <1>2, ContentsAreSequences

LEMMA DeclaredFacts == Declared \in Contents /\ Len(Declared) = Parts
<1>1. Parts \in Nat \ {0}
  BY PartsAssumption
<1>2. Declared \in [1..Parts -> Bytes \union {"torn"}]
  BY DEF Declared, Bytes
<1>3. Declared \in Contents
  BY <1>1, <1>2 DEF Contents
<1>4. Len(Declared) = Parts
  BY <1>1 DEF Declared
<1> QED
  BY <1>3, <1>4


-----------------------------------------------------------------------------
(* What a step does to the state of the request or sweep that takes it, and *)
(* to the locks.                                                            *)

OnlyRequest(q) ==
  /\ request' \in [Requests -> RequestStates]
  /\ \A r \in Requests : r # q => request'[r] = request[r]

Proceeds(q, phase) ==
  /\ OnlyRequest(q) /\ request'[q].phase = phase
  /\ request'[q].upload = request[q].upload /\ request'[q].file = request[q].file
  /\ request'[q].bytes = request[q].bytes /\ request'[q].reason = request[q].reason

Fails(q, reason) ==
  /\ OnlyRequest(q) /\ request'[q].phase = "fail" /\ request'[q].reason = reason
  /\ request'[q].upload = request[q].upload

Ends(q) == OnlyRequest(q) /\ request'[q] = Idle

Enters(q, phase, u) ==
  /\ OnlyRequest(q) /\ request'[q].phase = phase /\ request'[q].upload = u
  /\ request'[q].reason = "none"

OnlySweep(p) ==
  /\ sweep' \in [Processes -> SweepStates]
  /\ \A r \in Processes : r # p => sweep'[r] = sweep[r]

Locks(q, u) ==
  /\ HasRow(u) /\ holder[u] = None
  /\ holder' \in [Uploads -> Processes \union {None}]
  /\ holder'[u] = q
  /\ \A v \in Uploads : v # u => holder'[v] = holder[v]

Releases(P) ==
  /\ holder' \in [Uploads -> Processes \union {None}]
  /\ \A v \in Uploads : holder'[v] = IF holder[v] \in P THEN None ELSE holder[v]
  /\ documentLock' = IF documentLock \in P THEN None ELSE documentLock

LEMMA RequestWritten ==
  ASSUME TypeOK, NEW q \in Requests, NEW r \in RequestStates,
         request' = [request EXCEPT ![q] = r]
  PROVE  OnlyRequest(q) /\ request'[q] = r
BY DEF TypeOK, OnlyRequest

LEMMA SweepWritten ==
  ASSUME TypeOK, NEW p \in Processes, NEW s \in SweepStates,
         sweep' = [sweep EXCEPT ![p] = s]
  PROVE  OnlySweep(p) /\ sweep'[p] = s
BY DEF TypeOK, OnlySweep

LEMMA IdleIsAState == Idle \in RequestStates /\ Asleep \in SweepStates
BY DEF Idle, RequestStates, Phases, Errors, Asleep, SweepStates

LEMMA GoToProceeds ==
  ASSUME TypeOK, NEW q \in Requests, NEW phase \in Phases, GoTo(q, phase)
  PROVE  Proceeds(q, phase)
<1>1. request[q] \in RequestStates
  BY DEF TypeOK
<1>2. [request[q] EXCEPT !.phase = phase] \in RequestStates
  BY <1>1 DEF RequestStates
<1>3. request' = [request EXCEPT ![q] = [request[q] EXCEPT !.phase = phase]]
  BY DEF GoTo
<1>4. OnlyRequest(q) /\ request'[q] = [request[q] EXCEPT !.phase = phase]
  BY <1>2, <1>3, RequestWritten
<1> QED
  BY <1>1, <1>4 DEF Proceeds, RequestStates

LEMMA FailWithFails ==
  ASSUME TypeOK, NEW q \in Requests, NEW reason \in Errors, FailWith(q, reason)
  PROVE  Fails(q, reason)
<1>1. request[q] \in RequestStates
  BY DEF TypeOK
<1>2. [request[q] EXCEPT !.phase = "fail", !.reason = reason] \in RequestStates
  BY <1>1 DEF RequestStates, Phases
<1>3. request' = [request EXCEPT ![q] =
                    [request[q] EXCEPT !.phase = "fail", !.reason = reason]]
  BY DEF FailWith
<1>4. /\ OnlyRequest(q)
      /\ request'[q] = [request[q] EXCEPT !.phase = "fail", !.reason = reason]
  BY <1>2, <1>3, RequestWritten
<1> QED
  BY <1>1, <1>4 DEF Fails, RequestStates

LEMMA FinishEnds ==
  ASSUME TypeOK, NEW q \in Requests, Finish(q)
  PROVE  Ends(q)
BY IdleIsAState, RequestWritten DEF Finish, Ends

LEMMA LockLocks ==
  ASSUME TypeOK, NEW q \in Requests, NEW u \in Uploads, NEW phase \in Phases,
         Lock(q, u, phase)
  PROVE  Enters(q, phase, u) /\ Locks(q, u)
<1> DEFINE new == [Idle EXCEPT !.phase = phase, !.upload = u]
<1>1. /\ new \in RequestStates /\ new.phase = phase /\ new.upload = u
      /\ new.reason = "none"
  BY DEF Idle, RequestStates, Errors
<1>2. request' = [request EXCEPT ![q] = new]
  BY DEF Lock
<1> HIDE DEF new
<1>3. OnlyRequest(q) /\ request'[q] = new
  BY <1>1, <1>2, RequestWritten
<1>4. Locks(q, u)
  BY DEF Lock, Locks, TypeOK, Processes
<1> QED
  BY <1>1, <1>3, <1>4 DEF Enters

LEMMA EndReleases ==
  ASSUME TypeOK, NEW P, EndTransaction(P)
  PROVE  /\ Releases(P)
         /\ capacityLock' \in Requests \union {None}
         /\ documentLock' \in Requests \union {None}
BY DEF TypeOK, EndTransaction, Unlocked, Releases

LEMMA LockRowsLocks ==
  ASSUME TypeOK, NEW p \in Processes, LockRows(p)
  PROVE  /\ holder' \in [Uploads -> Processes \union {None}]
         /\ \A u \in Uploads :
              holder'[u] = IF HasRow(u) /\ holder[u] = None THEN p ELSE holder[u]
         /\ sweep[p] = Asleep /\ OnlySweep(p)
         /\ sweep'[p].phase = "keys" /\ sweep'[p].delete = {} /\ sweep'[p].fail = {}
         /\ sweep'[p].todo = {u \in Uploads : HasRow(u) /\ holder[u] = None}
<1> DEFINE rows == {u \in Uploads : HasRow(u) /\ holder[u] = None}
           new == [Asleep EXCEPT !.phase = "keys", !.todo = rows]
<1>1. /\ new \in SweepStates /\ new.phase = "keys" /\ new.todo = rows
      /\ new.delete = {} /\ new.fail = {}
  BY DEF Asleep, SweepStates
<1>2. sweep[p] = Asleep /\ sweep' = [sweep EXCEPT ![p] = new]
  BY DEF LockRows
<1>3. /\ holder' \in [Uploads -> Processes \union {None}]
      /\ \A u \in Uploads :
           holder'[u] = IF HasRow(u) /\ holder[u] = None THEN p ELSE holder[u]
  BY DEF LockRows, TypeOK
<1> HIDE DEF new
<1>4. OnlySweep(p) /\ sweep'[p] = new
  BY <1>1, <1>2, SweepWritten
<1> QED
  BY <1>1, <1>2, <1>3, <1>4

LEMMA FaultCounts ==
  ASSUME TypeOK, NEW k, Fault(k)
  PROVE  /\ faults' \in [FaultKinds -> Nat]
         /\ faults["sweep"] > 0 => faults'["sweep"] > 0
         /\ k = "sweep" => faults'["sweep"] > 0
<1>1. faults \in [FaultKinds -> Nat] /\ "sweep" \in FaultKinds
  BY DEF TypeOK, FaultKinds
<1>2. k \in FaultKinds /\ faults' = [faults EXCEPT ![k] = faults[k] + 1]
  BY UploadFaultAssumption DEF Fault
<1> QED
  BY <1>1, <1>2

(* A part begins, a creation begins.                                       *)
LEMMA PartEnters ==
  ASSUME TypeOK, NEW q \in Requests, NEW u \in Uploads, NEW b \in Sent, StartPart(q, u, b)
  PROVE  Enters(q, "append", u) /\ request'[q].bytes = b /\ Locks(q, u)
<1> DEFINE new == [Idle EXCEPT !.phase = "append", !.upload = u, !.bytes = b]
<1>1. b \in Bytes
  BY SentAssumption
<1>2. /\ new \in RequestStates /\ new.phase = "append" /\ new.upload = u
      /\ new.reason = "none" /\ new.bytes = b
  BY <1>1 DEF Idle, RequestStates, Errors, Phases
<1>3. request' = [request EXCEPT ![q] = new]
  BY DEF StartPart
<1> HIDE DEF new
<1>4. OnlyRequest(q) /\ request'[q] = new
  BY <1>2, <1>3, RequestWritten
<1>5. Locks(q, u)
  BY DEF StartPart, HasRow, Locks, TypeOK, Processes
<1> QED
  BY <1>2, <1>4, <1>5 DEF Enters

LEMMA CreateEnters ==
  ASSUME TypeOK, NEW q \in Requests, NEW f \in Files, StartCreate(q, f)
  PROVE  Enters(q, "sweep", None)
<1> DEFINE new == [Idle EXCEPT !.phase = "sweep", !.file = f]
<1>1. /\ new \in RequestStates /\ new.phase = "sweep" /\ new.upload = None
      /\ new.reason = "none"
  BY DEF Idle, RequestStates, Errors, Phases
<1>2. request' = [request EXCEPT ![q] = new]
  BY DEF StartCreate
<1> HIDE DEF new
<1>3. OnlyRequest(q) /\ request'[q] = new
  BY <1>1, <1>2, RequestWritten
<1> QED
  BY <1>1, <1>3 DEF Enters

(* A completion is to be undone.                                           *)
LEMMA UndoGoesOn ==
  ASSUME TypeOK, NEW q \in Requests, NEW reason \in Errors, Undo(q, reason)
  PROVE  /\ OnlyRequest(q) /\ request'[q].phase = "moveBack"
         /\ request'[q].upload = request[q].upload
<1> DEFINE new == [request[q] EXCEPT !.phase = "moveBack", !.reason = reason]
<1>1. request[q] \in RequestStates
  BY DEF TypeOK
<1>2. new \in RequestStates /\ new.phase = "moveBack" /\ new.upload = request[q].upload
  BY <1>1 DEF RequestStates, Phases
<1>3. request' = [request EXCEPT ![q] = new]
  BY DEF Undo
<1> HIDE DEF new
<1>4. OnlyRequest(q) /\ request'[q] = new
  BY <1>2, <1>3, RequestWritten
<1> QED
  BY <1>2, <1>4

(* A creation has looked for the Document and for an open session.         *)
LEMMA LookGoesOn ==
  ASSUME TypeOK, NEW q \in Requests, Look(q)
  PROVE  /\ OnlyRequest(q) /\ request[q].phase = "look"
         /\ \/ Ends(q)
            \/ Proceeds(q, "count")
            \/ request'[q].phase = "touch" /\ request'[q].upload \in Uploads
<1>1. CASE Finish(q)
  BY <1>1, FinishEnds DEF Ends, Look
<1>2. CASE GoTo(q, "count")
  BY <1>2, GoToProceeds DEF Proceeds, Look, Phases
<1>3. ASSUME NEW u \in Uploads,
             request' = [request EXCEPT ![q].phase = "touch", ![q].upload = u]
      PROVE  OnlyRequest(q) /\ request'[q].phase = "touch" /\ request'[q].upload \in Uploads
  <2> DEFINE new == [request[q] EXCEPT !.phase = "touch", !.upload = u]
  <2>1. request[q] \in RequestStates
    BY DEF TypeOK
  <2>2. new \in RequestStates /\ new.phase = "touch" /\ new.upload = u
    BY <2>1 DEF RequestStates, Phases
  <2>3. request' = [request EXCEPT ![q] = new]
    BY <1>3
  <2> HIDE DEF new
  <2>4. OnlyRequest(q) /\ request'[q] = new
    BY <2>2, <2>3, RequestWritten
  <2> QED
    BY <2>2, <2>4
<1> QED
  BY <1>1, <1>2, <1>3 DEF Look, Open

(* A sweep has read the keys, dealt with one row, or with the orphans.     *)
LEMMA KeysRead ==
  ASSUME TypeOK, NEW p \in Processes, ReadOpenKeys(p)
  PROVE  /\ OnlySweep(p) /\ sweep[p].phase = "keys" /\ sweep'[p].phase = "rows"
         /\ sweep'[p].known = Open /\ sweep'[p].todo = sweep[p].todo
         /\ sweep'[p].delete = sweep[p].delete /\ sweep'[p].fail = sweep[p].fail
<1> DEFINE new == [sweep[p] EXCEPT !.phase = "rows", !.known = Open]
<1>1. sweep[p] \in SweepStates /\ Open \in SUBSET Uploads
  BY DEF TypeOK, Open
<1>2. /\ new \in SweepStates /\ new.phase = "rows" /\ new.known = Open
      /\ new.todo = sweep[p].todo /\ new.delete = sweep[p].delete
      /\ new.fail = sweep[p].fail
  BY <1>1 DEF SweepStates
<1>3. sweep[p].phase = "keys" /\ sweep' = [sweep EXCEPT ![p] = new]
  BY DEF ReadOpenKeys
<1> HIDE DEF new
<1>4. OnlySweep(p) /\ sweep'[p] = new
  BY <1>2, <1>3, SweepWritten
<1> QED
  BY <1>2, <1>3, <1>4

LEMMA OrphansSwept ==
  ASSUME TypeOK, NEW p \in Processes, SweepOrphans(p)
  PROVE  /\ OnlySweep(p) /\ sweep[p].phase = "rows" /\ sweep[p].todo = {}
         /\ sweep'[p].phase = "commit" /\ sweep'[p].todo = {}
         /\ sweep'[p].delete = sweep[p].delete /\ sweep'[p].fail = sweep[p].fail
<1> DEFINE new == [sweep[p] EXCEPT !.phase = "commit"]
<1>1. sweep[p] \in SweepStates
  BY DEF TypeOK
<1>2. /\ new \in SweepStates /\ new.phase = "commit" /\ new.todo = sweep[p].todo
      /\ new.delete = sweep[p].delete /\ new.fail = sweep[p].fail
  BY <1>1 DEF SweepStates
<1>3. /\ sweep[p].phase = "rows" /\ sweep[p].todo = {}
      /\ sweep' = [sweep EXCEPT ![p] = new]
  BY DEF SweepOrphans
<1> HIDE DEF new
<1>4. OnlySweep(p) /\ sweep'[p] = new
  BY <1>2, <1>3, SweepWritten
<1> QED
  BY <1>2, <1>3, <1>4

(* One row of a sweep: what it does to the sweep, and to the files.        *)
RowDone(p, u) ==
  /\ OnlySweep(p) /\ sweep'[p].phase = sweep[p].phase
  /\ sweep'[p].known = sweep[p].known /\ sweep'[p].todo = sweep[p].todo \ {u}
  /\ temporary' \in [Uploads -> Contents \union {None}]
  /\ final' \in [Uploads -> Contents \union {None}]
  /\ young' \in [Uploads -> BOOLEAN] /\ condemned' \in [Uploads -> BOOLEAN]
  /\ \A v \in Uploads : v # u =>
       /\ temporary'[v] = temporary[v] /\ final'[v] = final[v]
       /\ young'[v] = young[v] /\ condemned'[v] = condemned[v]

LEMMA ExpiredSwept ==
  ASSUME TypeOK, NEW p \in Processes, NEW u \in Uploads, SweepExpired(p, u)
  PROVE  /\ RowDone(p, u)
         /\ sweep'[p].delete = sweep[p].delete \union {u}
         /\ sweep'[p].fail = sweep[p].fail
         /\ temporary'[u] = None /\ condemned'[u]
         /\ final'[u] = IF status[u] = "completed" THEN final[u] ELSE None
<1> DEFINE new == [sweep[p] EXCEPT !.todo = @ \ {u}, !.delete = @ \union {u}]
<1>1. sweep[p] \in SweepStates
  BY DEF TypeOK
<1>2. /\ new \in SweepStates /\ new.phase = sweep[p].phase
      /\ new.known = sweep[p].known /\ new.todo = sweep[p].todo \ {u}
      /\ new.delete = sweep[p].delete \union {u} /\ new.fail = sweep[p].fail
  BY <1>1 DEF SweepStates
<1>3. sweep' = [sweep EXCEPT ![p] = new]
  BY DEF SweepExpired
<1> HIDE DEF new
<1>4. OnlySweep(p) /\ sweep'[p] = new
  BY <1>2, <1>3, SweepWritten
<1>5. /\ temporary' \in [Uploads -> Contents \union {None}]
      /\ final' \in [Uploads -> Contents \union {None}]
      /\ young' \in [Uploads -> BOOLEAN] /\ condemned' \in [Uploads -> BOOLEAN]
      /\ temporary'[u] = None /\ condemned'[u]
      /\ final'[u] = IF status[u] = "completed" THEN final[u] ELSE None
      /\ \A v \in Uploads : v # u =>
           /\ temporary'[v] = temporary[v] /\ final'[v] = final[v]
           /\ young'[v] = young[v] /\ condemned'[v] = condemned[v]
  BY DEF TypeOK, SweepExpired
<1> QED
  BY <1>2, <1>4, <1>5 DEF RowDone

LEMMA EndedSwept ==
  ASSUME TypeOK, NEW p \in Processes, NEW u \in Uploads, SweepEnded(p, u)
  PROVE  /\ RowDone(p, u)
         /\ sweep'[p].delete = sweep[p].delete /\ sweep'[p].fail = sweep[p].fail
         /\ temporary'[u] = None /\ condemned'[u] = condemned[u]
         /\ final'[u] = IF status[u] = "failed" THEN None ELSE final[u]
         /\ status[u] # "open"
<1> DEFINE new == [sweep[p] EXCEPT !.todo = @ \ {u}]
<1>1. sweep[p] \in SweepStates
  BY DEF TypeOK
<1>2. /\ new \in SweepStates /\ new.phase = sweep[p].phase
      /\ new.known = sweep[p].known /\ new.todo = sweep[p].todo \ {u}
      /\ new.delete = sweep[p].delete /\ new.fail = sweep[p].fail
  BY <1>1 DEF SweepStates
<1>3. sweep' = [sweep EXCEPT ![p] = new]
  BY DEF SweepEnded
<1> HIDE DEF new
<1>4. OnlySweep(p) /\ sweep'[p] = new
  BY <1>2, <1>3, SweepWritten
<1>5. /\ temporary' \in [Uploads -> Contents \union {None}]
      /\ final' \in [Uploads -> Contents \union {None}]
      /\ young' \in [Uploads -> BOOLEAN] /\ condemned' \in [Uploads -> BOOLEAN]
      /\ temporary'[u] = None /\ condemned'[u] = condemned[u] /\ status[u] # "open"
      /\ final'[u] = IF status[u] = "failed" THEN None ELSE final[u]
      /\ \A v \in Uploads : v # u =>
           /\ temporary'[v] = temporary[v] /\ final'[v] = final[v]
           /\ young'[v] = young[v] /\ condemned'[v] = condemned[v]
  BY DEF TypeOK, SweepEnded
<1> QED
  BY <1>2, <1>4, <1>5 DEF RowDone

(* The file that the sweep finds of an open session.                       *)
FoundFile(u) == IF temporary[u] # None THEN temporary[u] ELSE final[u]
TooShort(u) == IF FoundFile(u) = None THEN Len(receipts[u]) > 0
                                      ELSE Len(FoundFile(u)) < Len(receipts[u])

LEMMA OpenSwept ==
  ASSUME TypeOK, NEW p \in Processes, NEW u \in Uploads, SweepOpen(p, u)
  PROVE  /\ RowDone(p, u)
         /\ sweep'[p].delete = sweep[p].delete
         /\ sweep'[p].fail = IF TooShort(u) THEN sweep[p].fail \union {u}
                                            ELSE sweep[p].fail
         /\ condemned'[u] = condemned[u] /\ status[u] = "open" /\ final'[u] = None
         /\ temporary'[u] = IF TooShort(u) \/ FoundFile(u) = None THEN None
                            ELSE Prefix(FoundFile(u), Len(receipts[u]))
         /\ young[u] => young'[u]
<1> DEFINE failed == IF TooShort(u) THEN sweep[p].fail \union {u} ELSE sweep[p].fail
           new == [sweep[p] EXCEPT !.todo = @ \ {u}, !.fail = failed]
           kept == IF TooShort(u) \/ FoundFile(u) = None THEN None
                   ELSE Prefix(FoundFile(u), Len(receipts[u]))
<1>1. sweep[p] \in SweepStates
  BY DEF TypeOK
<1>2. /\ new \in SweepStates /\ new.phase = sweep[p].phase
      /\ new.known = sweep[p].known /\ new.todo = sweep[p].todo \ {u}
      /\ new.delete = sweep[p].delete /\ new.fail = failed
  BY <1>1 DEF SweepStates
<1>3. sweep' = [sweep EXCEPT ![p] = new]
  BY DEF SweepOpen, FoundFile, TooShort
<1>4. kept \in Contents \union {None}
  <2>1. /\ temporary[u] \in Contents \union {None} /\ final[u] \in Contents \union {None}
        /\ receipts[u] \in Contents
    BY DEF TypeOK
  <2>2. FoundFile(u) \in Contents \union {None}
    BY <2>1 DEF FoundFile
  <2>3. CASE TooShort(u) \/ FoundFile(u) = None
    BY <2>3
  <2>4. CASE ~TooShort(u) /\ FoundFile(u) # None
    <3>1. Len(receipts[u]) \in 0..Len(FoundFile(u)) /\ FoundFile(u) \in Contents
      BY <2>1, <2>2, <2>4, SizeFacts DEF TooShort
    <3> QED
      BY <2>4, <3>1, PrefixFacts
  <2> QED
    BY <2>3, <2>4
<1>5. temporary' = [temporary EXCEPT ![u] = kept]
  BY DEF SweepOpen, FoundFile, TooShort, TypeOK
<1>6. /\ final' = [final EXCEPT ![u] = None]
      /\ young' = [young EXCEPT ![u] = young[u] \/ Size(FoundFile(u)) > Len(receipts[u])]
      /\ condemned' = condemned /\ status[u] = "open"
  BY DEF SweepOpen, FoundFile
<1> HIDE DEF new, kept, failed
<1>7. OnlySweep(p) /\ sweep'[p] = new
  BY <1>2, <1>3, SweepWritten
<1>8. /\ temporary' \in [Uploads -> Contents \union {None}] /\ temporary'[u] = kept
      /\ final' \in [Uploads -> Contents \union {None}] /\ final'[u] = None
      /\ young' \in [Uploads -> BOOLEAN] /\ condemned' \in [Uploads -> BOOLEAN]
      /\ young[u] => young'[u]
      /\ condemned'[u] = condemned[u]
      /\ \A v \in Uploads : v # u =>
           /\ temporary'[v] = temporary[v] /\ final'[v] = final[v]
           /\ young'[v] = young[v] /\ condemned'[v] = condemned[v]
  BY <1>4, <1>5, <1>6 DEF TypeOK
<1> QED
  BY <1>2, <1>6, <1>7, <1>8 DEF RowDone, failed, kept

LEMMA RowSwept ==
  ASSUME TypeOK, NEW p \in Processes, SweepRow(p)
  PROVE  \E u \in sweep[p].todo : u \in Uploads /\ RowDone(p, u)
<1>1. PICK u \in sweep[p].todo : SweepExpired(p, u) \/ SweepEnded(p, u) \/ SweepOpen(p, u)
  BY DEF SweepRow
<1>2. u \in Uploads
  BY <1>1 DEF TypeOK, SweepStates
<1> QED
  BY <1>1, <1>2, ExpiredSwept, EndedSwept, OpenSwept

(* A sweep is over, well or not.                                           *)
LEMMA SweepOver ==
  ASSUME TypeOK, NEW p \in Processes, CommitSweep(p) \/ SweepFails(p)
  PROVE  /\ OnlySweep(p) /\ sweep'[p] = Asleep
         /\ p \in Requests => OnlyRequest(p)
         /\ p \notin Requests => UNCHANGED request
         /\ CommitSweep(p) /\ p \in Requests => request'[p].phase = "look"
         /\ SweepFails(p) /\ p \in Requests => request'[p] = Idle
<1>1. sweep' = [sweep EXCEPT ![p] = Asleep]
  BY DEF CommitSweep, SweepFails
<1>2. OnlySweep(p) /\ sweep'[p] = Asleep
  BY <1>1, IdleIsAState, SweepWritten
<1>3. CASE p \notin Requests
  BY <1>2, <1>3 DEF CommitSweep, SweepFails
<1>4. CASE p \in Requests
  <2>1. ASSUME CommitSweep(p) PROVE OnlyRequest(p) /\ request'[p].phase = "look"
    <3>1. GoTo(p, "look")
      BY <1>4, <2>1 DEF CommitSweep
    <3> QED
      BY <1>4, <3>1, GoToProceeds DEF Proceeds, Phases
  <2>2. ASSUME SweepFails(p) PROVE OnlyRequest(p) /\ request'[p] = Idle
    <3>1. Finish(p)
      BY <1>4, <2>2 DEF SweepFails
    <3> QED
      BY <1>4, <3>1, FinishEnds DEF Ends
  <2> QED
    BY <1>2, <1>4, <2>1, <2>2
<1> QED
  BY <1>3, <1>4

LEMMA CrashEffect ==
  ASSUME TypeOK, Crash
  PROVE  /\ request' \in [Requests -> RequestStates]
         /\ sweep' \in [Processes -> SweepStates]
         /\ \A q \in Requests : request'[q] = Idle
         /\ \A p \in Processes : sweep'[p] = IF p = "hourly" THEN sweep[p] ELSE Asleep
BY IdleIsAState DEF TypeOK, Crash

-----------------------------------------------------------------------------
(* Types, group by group.                                                  *)

RowsTyped ==
  /\ status \in [Uploads -> {"absent", "open", "completed", "failed", "deleted"}]
  /\ file \in [Uploads -> Files \union {None}]
  /\ receipts \in [Uploads -> Contents]
  /\ safeError \in [Uploads -> Errors]
  /\ expired \in [Uploads -> BOOLEAN]
FilesTyped ==
  /\ temporary \in [Uploads -> Contents \union {None}]
  /\ final \in [Uploads -> Contents \union {None}]
  /\ young \in [Uploads -> BOOLEAN]
DocumentsTyped == document \in [Uploads -> BOOLEAN] /\ seeded \in SUBSET Files
LocksTyped ==
  /\ holder \in [Uploads -> Processes \union {None}]
  /\ capacityLock \in Requests \union {None}
  /\ documentLock \in Requests \union {None}
ProcessesTyped ==
  request \in [Requests -> RequestStates] /\ sweep \in [Processes -> SweepStates]
HistoryTyped == condemned \in [Uploads -> BOOLEAN] /\ undone \in [Uploads -> BOOLEAN]
ControlTyped == booting \in BOOLEAN /\ faults \in [FaultKinds -> Nat]

LEMMA TypeParts ==
  TypeOK <=> /\ RowsTyped /\ FilesTyped /\ DocumentsTyped /\ LocksTyped
             /\ ProcessesTyped /\ HistoryTyped /\ ControlTyped
BY DEF TypeOK, RowsTyped, FilesTyped, DocumentsTyped, LocksTyped, ProcessesTyped,
       HistoryTyped, ControlTyped

(* What a step leaves alone keeps its type.                                *)
LEMMA TypesKept ==
  ASSUME TypeOK
  PROVE  /\ UNCHANGED rowVars => RowsTyped'
         /\ UNCHANGED fileVars => FilesTyped'
         /\ UNCHANGED documentVars => DocumentsTyped'
         /\ UNCHANGED lockVars => LocksTyped'
         /\ UNCHANGED <<request, sweep>> => ProcessesTyped'
         /\ UNCHANGED historyVars => HistoryTyped'
         /\ UNCHANGED controlVars => ControlTyped'
BY DEF TypeOK, RowsTyped, FilesTyped, DocumentsTyped, LocksTyped, ProcessesTyped,
       HistoryTyped, ControlTyped, rowVars, fileVars, documentVars, lockVars,
       historyVars, controlVars

LEMMA TypesJoined ==
  ASSUME RowsTyped', FilesTyped', DocumentsTyped', LocksTyped', ProcessesTyped',
         HistoryTyped', ControlTyped'
  PROVE  TypeOK'
BY DEF TypeOK, RowsTyped, FilesTyped, DocumentsTyped, LocksTyped, ProcessesTyped,
       HistoryTyped, ControlTyped

(* One process moves on, and nothing else does; locks are released.        *)
LEMMA RequestTyped ==
  ASSUME TypeOK, NEW q \in Requests, OnlyRequest(q), UNCHANGED sweep
  PROVE  ProcessesTyped'
BY DEF TypeOK, OnlyRequest, ProcessesTyped

LEMMA SweepTyped ==
  ASSUME TypeOK, NEW p \in Processes, OnlySweep(p), UNCHANGED request
  PROVE  ProcessesTyped'
BY DEF TypeOK, OnlySweep, ProcessesTyped

LEMMA ReleaseTyped ==
  ASSUME TypeOK, NEW P, EndTransaction(P)
  PROVE  LocksTyped'
BY EndReleases DEF Releases, LocksTyped

LEMMA LockTyped ==
  ASSUME TypeOK, NEW q \in Requests, NEW u \in Uploads, Locks(q, u),
         UNCHANGED <<capacityLock, documentLock>>
  PROVE  LocksTyped'
BY DEF TypeOK, LocksTyped, Locks

(***************************************************************************)
(* Every step keeps the types.                                             *)
(***************************************************************************)
LEMMA TypesStep ==
  ASSUME TypeOK, Control, [Next]_vars
  PROVE  TypeOK'
<1>1. ASSUME NEW q \in Requests, NEW u \in Uploads, StartExpired(q, u) PROVE TypeOK'
  <2>1. LocksTyped'
    BY <1>1, LockLocks, LockTyped DEF StartExpired, Phases, LocksTyped, TypeOK, lockVars
  <2>2. ProcessesTyped'
    BY <1>1, LockLocks, RequestTyped DEF StartExpired, Enters, Phases
  <2> QED
    BY <1>1, <2>1, <2>2, TypesKept, TypesJoined DEF StartExpired
<1>2. ASSUME NEW q \in Requests, NEW u \in Uploads, StartCancel(q, u) PROVE TypeOK'
  <2>1. LocksTyped'
    BY <1>2, LockLocks, LockTyped DEF StartCancel, Phases, LocksTyped, TypeOK, lockVars
  <2>2. ProcessesTyped'
    BY <1>2, LockLocks, RequestTyped DEF StartCancel, Enters, Phases
  <2> QED
    BY <1>2, <2>1, <2>2, TypesKept, TypesJoined DEF StartCancel
<1>3. ASSUME NEW q \in Requests, NEW u \in Uploads, StartComplete(q, u) PROVE TypeOK'
  <2>1. LocksTyped'
    BY <1>3, LockLocks, LockTyped DEF StartComplete, Phases, LocksTyped, TypeOK, lockVars
  <2>2. ProcessesTyped'
    BY <1>3, LockLocks, RequestTyped DEF StartComplete, Enters, Phases
  <2> QED
    BY <1>3, <2>1, <2>2, TypesKept, TypesJoined DEF StartComplete
<1>4. ASSUME NEW q \in Requests, NEW u \in Uploads, NEW b \in Sent, StartPart(q, u, b)
   PROVE TypeOK'
  <2>1. LocksTyped'
    BY <1>4, PartEnters, LockTyped DEF StartPart, LocksTyped, TypeOK, lockVars
  <2>2. ProcessesTyped'
    BY <1>4, PartEnters, RequestTyped DEF StartPart, Enters
  <2> QED
    BY <1>4, <2>1, <2>2, TypesKept, TypesJoined DEF StartPart
<1>5. ASSUME NEW q \in Requests, NEW f \in Files, StartCreate(q, f) PROVE TypeOK'
  <2>1. LocksTyped'
    BY <1>5, LockRowsLocks DEF StartCreate, LocksTyped, TypeOK, Processes, lockVars
  <2>2. ProcessesTyped'
    BY <1>5, CreateEnters, LockRowsLocks DEF StartCreate, Enters, OnlyRequest, OnlySweep,
       ProcessesTyped, Processes
  <2> QED
    BY <1>5, <2>1, <2>2, TypesKept, TypesJoined DEF StartCreate
<1>6. ASSUME NEW q \in Requests, AppendPart(q) PROVE TypeOK'
  <2>1. FilesTyped'
    <3> DEFINE u == request[q].upload
               r == receipts[u]
               t == temporary[u]
               cut == Prefix(t, Len(r))
    <3>1. /\ u \in Uploads /\ Len(r) < Parts /\ request[q].bytes \in Bytes
          /\ r \in Contents /\ t \in Contents \union {None}
      BY <1>6 DEF AppendPart, Control, RequestHolds, Locking, TypeOK
    <3>2. ASSUME ~(Size(t) < Len(r)), NEW b \in Bytes \union {"torn"}
          PROVE  Append(cut, b) \in Contents
      <4>1. CASE t = None
        <5>1. Len(r) = 0
          BY <3>1, <3>2, <4>1, SizeFacts DEF Size
        <5>2. cut = <<>>
          BY <5>1 DEF Prefix
        <5> QED
          BY <3>1, <5>1, <5>2, EmptyFacts, AppendFacts
      <4>2. CASE t # None
        <5>1. Len(r) \in 0..Len(t)
          BY <3>1, <3>2, <4>2, SizeFacts DEF Size
        <5>2. cut \in Contents /\ Len(cut) < Parts
          BY <3>1, <4>2, <5>1, PrefixFacts
        <5> QED
          BY <5>2, AppendFacts
      <4> QED
        BY <4>1, <4>2
    <3>3. CASE Size(t) < Len(r)
      <4>1. temporary' = [temporary EXCEPT ![u] = IF t = None THEN <<>> ELSE t]
        BY <1>6, <3>3, <3>1 DEF AppendPart, TypeOK
      <4>2. (IF t = None THEN <<>> ELSE t) \in Contents \union {None}
        BY <3>1, EmptyFacts
      <4>3. /\ young' = [young EXCEPT ![u] = young[u] \/ t = None]
            /\ UNCHANGED final
        BY <1>6, <3>3 DEF AppendPart
      <4> QED
        BY <4>1, <4>2, <4>3 DEF FilesTyped, TypeOK
    <3>4. CASE ~(Size(t) < Len(r))
      <4>1. PICK b \in Bytes \union {"torn"} :
              temporary' = [temporary EXCEPT ![u] = Append(cut, b)]
        BY <1>6, <3>4, <3>1 DEF AppendPart, TypeOK
      <4>2. young' = [young EXCEPT ![u] = TRUE] /\ UNCHANGED final
        BY <1>6, <3>4 DEF AppendPart
      <4> QED
        BY <3>2, <3>4, <4>1, <4>2 DEF FilesTyped, TypeOK
    <3> QED
      BY <3>3, <3>4
  <2>2. ProcessesTyped'
    BY <1>6, GoToProceeds, FailWithFails, RequestTyped DEF AppendPart, Proceeds, Fails,
       Phases, Errors, TypeOK, ProcessesTyped
  <2> QED
    BY <1>6, <2>1, <2>2, TypesKept, TypesJoined DEF AppendPart
<1>7. ASSUME NEW q \in Requests, Confirm(q) PROVE TypeOK'
  <2>1. RowsTyped'
    <3> DEFINE u == request[q].upload
    <3>1. /\ u \in Uploads /\ Len(receipts[u]) < Parts /\ request[q].bytes \in Bytes
          /\ receipts[u] \in Contents
      BY <1>7 DEF Confirm, Control, RequestHolds, Locking, TypeOK
    <3>2. Append(receipts[u], request[q].bytes) \in Contents
      BY <3>1, AppendFacts
    <3> QED
      BY <1>7, <3>2 DEF Confirm, RowsTyped, TypeOK
  <2>2. LocksTyped'
    BY <1>7, ReleaseTyped DEF Confirm, LocksTyped, TypeOK, lockVars
  <2>3. ProcessesTyped'
    BY <1>7, FinishEnds, RequestTyped DEF Confirm, Ends
  <2> QED
    BY <1>7, <2>1, <2>2, <2>3, TypesKept, TypesJoined DEF Confirm
<1>8. ASSUME NEW q \in Requests, RemoveFiles(q) PROVE TypeOK'
  <2>1. FilesTyped'
    BY <1>8 DEF RemoveFiles, FilesTyped, TypeOK
  <2>2. ProcessesTyped'
    BY <1>8, GoToProceeds, RequestTyped DEF RemoveFiles, Proceeds, Phases
  <2>3. HistoryTyped'
    BY <1>8 DEF RemoveFiles, HistoryTyped, TypeOK, historyVars
  <2> QED
    BY <1>8, <2>1, <2>2, <2>3, TypesKept, TypesJoined DEF RemoveFiles
<1>9. ASSUME NEW q \in Requests, DeleteRow(q) PROVE TypeOK'
  <2>1. RowsTyped'
    BY <1>9, EmptyFacts DEF DeleteRow, RowsTyped, TypeOK, Errors, rowVars
  <2>2. LocksTyped'
    BY <1>9, ReleaseTyped DEF DeleteRow, LocksTyped, TypeOK, lockVars
  <2>3. ProcessesTyped'
    BY <1>9, FinishEnds, RequestTyped DEF DeleteRow, Ends
  <2> QED
    BY <1>9, <2>1, <2>2, <2>3, TypesKept, TypesJoined DEF DeleteRow
<1>10. ASSUME NEW q \in Requests, FailRow(q) PROVE TypeOK'
  <2>1. RowsTyped'
    <3>1. request[q].reason \in Errors /\ <<>> \in Contents
      BY EmptyFacts DEF TypeOK, RequestStates
    <3> QED
      BY <1>10, <3>1 DEF FailRow, RowsTyped, TypeOK
  <2>2. LocksTyped'
    BY <1>10, ReleaseTyped DEF FailRow, LocksTyped, TypeOK, lockVars
  <2>3. ProcessesTyped'
    BY <1>10, FinishEnds, RequestTyped DEF FailRow, Ends
  <2> QED
    BY <1>10, <2>1, <2>2, <2>3, TypesKept, TypesJoined DEF FailRow
<1>11. ASSUME NEW q \in Requests, Verify(q) PROVE TypeOK'
  <2>1. ProcessesTyped'
    BY <1>11, GoToProceeds, FailWithFails, RequestTyped DEF Verify, Proceeds, Fails,
       Phases, Errors
  <2> QED
    BY <1>11, <2>1, TypesKept, TypesJoined DEF Verify
<1>12. ASSUME NEW q \in Requests, Admit(q) PROVE TypeOK'
  <2>1. LocksTyped'
    BY <1>12 DEF Admit, LocksTyped, TypeOK, lockVars
  <2>2. ProcessesTyped'
    BY <1>12, GoToProceeds, FailWithFails, RequestTyped DEF Admit, Proceeds, Fails,
       Phases, Errors
  <2> QED
    BY <1>12, <2>1, <2>2, TypesKept, TypesJoined DEF Admit
<1>13. ASSUME NEW q \in Requests, MoveToFinal(q) PROVE TypeOK'
  <2>1. FilesTyped'
    BY <1>13 DEF MoveToFinal, FilesTyped, TypeOK
  <2>2. ProcessesTyped'
    BY <1>13, GoToProceeds, RequestTyped DEF MoveToFinal, Proceeds, Phases
  <2> QED
    BY <1>13, <2>1, <2>2, TypesKept, TypesJoined DEF MoveToFinal
<1>14. ASSUME NEW q \in Requests, Publish(q) PROVE TypeOK'
  <2>1. RowsTyped'
    BY <1>14 DEF Publish, CommitDocument, RowsTyped, TypeOK, Errors, rowVars
  <2>2. DocumentsTyped'
    BY <1>14 DEF Publish, CommitDocument, DocumentsTyped, TypeOK
  <2>3. LocksTyped'
    BY <1>14, ReleaseTyped DEF Publish, LocksTyped, TypeOK, lockVars
  <2>4. ProcessesTyped'
    BY <1>14, FinishEnds, RequestTyped DEF Publish, Ends
  <2> QED
    BY <1>14, <2>1, <2>2, <2>3, <2>4, TypesKept, TypesJoined DEF Publish
<1>15. ASSUME NEW q \in Requests, PublishDuplicate(q) PROVE TypeOK'
  <2>1. LocksTyped'
    BY <1>15, ReleaseTyped DEF PublishDuplicate, Undo, LocksTyped, TypeOK, lockVars
  <2>2. ProcessesTyped'
    BY <1>15, UndoGoesOn, RequestTyped DEF PublishDuplicate, Undo, Errors
  <2>3. HistoryTyped'
    BY <1>15 DEF PublishDuplicate, Undo, HistoryTyped, TypeOK, historyVars
  <2>4. ControlTyped'
    BY <1>15 DEF PublishDuplicate, Undo, ControlTyped, TypeOK, controlVars
  <2> QED
    BY <1>15, <2>1, <2>2, <2>3, <2>4, TypesKept, TypesJoined DEF PublishDuplicate, Undo
<1>16. ASSUME NEW q \in Requests, PublishFails(q) PROVE TypeOK'
  <2>1. LocksTyped'
    BY <1>16, ReleaseTyped DEF PublishFails, Undo, LocksTyped, TypeOK, lockVars
  <2>2. ProcessesTyped'
    BY <1>16, UndoGoesOn, RequestTyped DEF PublishFails, Undo, Errors
  <2>3. HistoryTyped'
    BY <1>16 DEF PublishFails, Undo, HistoryTyped, TypeOK, historyVars
  <2>4. ControlTyped'
    BY <1>16, FaultCounts DEF PublishFails, Undo, ControlTyped, TypeOK, controlVars
  <2> QED
    BY <1>16, <2>1, <2>2, <2>3, <2>4, TypesKept, TypesJoined DEF PublishFails, Undo
<1>17. ASSUME NEW q \in Requests, PublishUnanswered(q) PROVE TypeOK'
  <2>1. RowsTyped'
    BY <1>17 DEF PublishUnanswered, CommitDocument, RowsTyped, TypeOK, Errors, rowVars
  <2>2. DocumentsTyped'
    BY <1>17 DEF PublishUnanswered, CommitDocument, DocumentsTyped, TypeOK
  <2>3. LocksTyped'
    BY <1>17, ReleaseTyped DEF PublishUnanswered, Undo, LocksTyped, TypeOK, lockVars
  <2>4. ProcessesTyped'
    BY <1>17, UndoGoesOn, RequestTyped DEF PublishUnanswered, Undo, Errors
  <2>5. HistoryTyped'
    BY <1>17 DEF PublishUnanswered, Undo, HistoryTyped, TypeOK, historyVars
  <2>6. ControlTyped'
    BY <1>17, FaultCounts DEF PublishUnanswered, Undo, ControlTyped, TypeOK, controlVars
  <2> QED
    BY <1>17, <2>1, <2>2, <2>3, <2>4, <2>5, <2>6, TypesKept, TypesJoined DEF
       PublishUnanswered, Undo
<1>18. ASSUME NEW q \in Requests, MoveBack(q) PROVE TypeOK'
  <2>1. FilesTyped'
    BY <1>18 DEF MoveBack, FilesTyped, TypeOK
  <2>2. ProcessesTyped'
    BY <1>18, GoToProceeds, FinishEnds, RequestTyped DEF MoveBack, Proceeds, Ends, Phases
  <2> QED
    BY <1>18, <2>1, <2>2, TypesKept, TypesJoined DEF MoveBack
<1>19. ASSUME NEW q \in Requests, Relock(q) PROVE TypeOK'
  <2>1. LocksTyped'
    BY <1>19 DEF Relock, Processes, LocksTyped, TypeOK, lockVars
  <2>2. ProcessesTyped'
    BY <1>19, FailWithFails, FinishEnds, RequestTyped DEF Relock, Fails, Ends, Errors
  <2> QED
    BY <1>19, <2>1, <2>2, TypesKept, TypesJoined DEF Relock
<1>20. ASSUME NEW q \in Requests, Look(q) PROVE TypeOK'
  <2>1. ProcessesTyped'
    BY <1>20, LookGoesOn, RequestTyped DEF Look
  <2> QED
    BY <1>20, <2>1, TypesKept, TypesJoined DEF Look
<1>21. ASSUME NEW q \in Requests, Touch(q) PROVE TypeOK'
  <2>1. RowsTyped'
    BY <1>21 DEF Touch, RowsTyped, TypeOK, Errors, rowVars
  <2>2. ProcessesTyped'
    BY <1>21, FinishEnds, RequestTyped DEF Touch, Ends
  <2> QED
    BY <1>21, <2>1, <2>2, TypesKept, TypesJoined DEF Touch
<1>22. ASSUME NEW q \in Requests, Count(q) PROVE TypeOK'
  <2>1. LocksTyped'
    BY <1>22 DEF Count, LocksTyped, TypeOK, lockVars
  <2>2. ProcessesTyped'
    BY <1>22, GoToProceeds, FinishEnds, RequestTyped DEF Count, Proceeds, Ends, Phases
  <2> QED
    BY <1>22, <2>1, <2>2, TypesKept, TypesJoined DEF Count
<1>23. ASSUME NEW q \in Requests, Insert(q) PROVE TypeOK'
  <2>1. RowsTyped'
    <3>1. CASE UNCHANGED rowVars
      BY <3>1, TypesKept
    <3>2. ASSUME NEW u \in Uploads, NEW f \in Files \union {None},
                 status' = [status EXCEPT ![u] = "open"],
                 file' = [file EXCEPT ![u] = f],
                 UNCHANGED <<receipts, safeError, expired>>
          PROVE  RowsTyped'
      BY <3>2 DEF RowsTyped, TypeOK
    <3>3. request[q].file \in Files \union {None}
      BY DEF TypeOK, RequestStates
    <3> QED
      BY <1>23, <3>1, <3>2, <3>3 DEF Insert
  <2>2. LocksTyped'
    BY <1>23, ReleaseTyped DEF Insert, LocksTyped, TypeOK, lockVars
  <2>3. ProcessesTyped'
    BY <1>23, FinishEnds, RequestTyped DEF Insert, Ends
  <2> QED
    BY <1>23, <2>1, <2>2, <2>3, TypesKept, TypesJoined DEF Insert
<1>24. ASSUME NEW q \in Requests, CommitFails(q) PROVE TypeOK'
  <2>1. LocksTyped'
    BY <1>24, ReleaseTyped DEF CommitFails, LocksTyped, TypeOK, lockVars
  <2>2. ProcessesTyped'
    BY <1>24, FinishEnds, RequestTyped DEF CommitFails, Ends
  <2>3. ControlTyped'
    BY <1>24, FaultCounts DEF CommitFails, ControlTyped, TypeOK, controlVars
  <2> QED
    BY <1>24, <2>1, <2>2, <2>3, TypesKept, TypesJoined DEF CommitFails
<1>25. ASSUME NEW p \in Sweepers, StartSweep(p) PROVE TypeOK'
  <2>1. LocksTyped'
    BY <1>25, LockRowsLocks DEF StartSweep, LocksTyped, TypeOK, Processes, lockVars
  <2>2. ProcessesTyped'
    BY <1>25, LockRowsLocks, SweepTyped DEF StartSweep, Processes
  <2> QED
    BY <1>25, <2>1, <2>2, TypesKept, TypesJoined DEF StartSweep
<1>26. ASSUME NEW p \in Processes, ReadOpenKeys(p) PROVE TypeOK'
  <2>1. ProcessesTyped'
    BY <1>26, KeysRead, SweepTyped DEF ReadOpenKeys
  <2> QED
    BY <1>26, <2>1, TypesKept, TypesJoined DEF ReadOpenKeys
<1>27. ASSUME NEW p \in Processes, SweepRow(p) PROVE TypeOK'
  <2>1. FilesTyped'
    BY <1>27, RowSwept DEF SweepRow, RowDone, FilesTyped, TypeOK
  <2>2. ProcessesTyped'
    BY <1>27, RowSwept, SweepTyped DEF SweepRow, RowDone
  <2>3. HistoryTyped'
    BY <1>27, RowSwept DEF SweepRow, RowDone, HistoryTyped, TypeOK, historyVars
  <2> QED
    BY <1>27, <2>1, <2>2, <2>3, TypesKept, TypesJoined DEF SweepRow
<1>28. ASSUME NEW p \in Processes, SweepOrphans(p) PROVE TypeOK'
  <2>1. FilesTyped'
    BY <1>28 DEF SweepOrphans, FilesTyped, TypeOK
  <2>2. ProcessesTyped'
    BY <1>28, OrphansSwept, SweepTyped DEF SweepOrphans
  <2> QED
    BY <1>28, <2>1, <2>2, TypesKept, TypesJoined DEF SweepOrphans
<1>29. ASSUME NEW p \in Processes, CommitSweep(p) PROVE TypeOK'
  <2>1. RowsTyped'
    BY <1>29, EmptyFacts DEF CommitSweep, RowsTyped, TypeOK, Errors, rowVars
  <2>2. LocksTyped'
    BY <1>29, ReleaseTyped DEF CommitSweep, LocksTyped, TypeOK, lockVars
  <2>3. ProcessesTyped'
    BY <1>29, SweepOver DEF CommitSweep, OnlySweep, OnlyRequest, TypeOK, ProcessesTyped
  <2>4. ControlTyped'
    BY <1>29 DEF CommitSweep, ControlTyped, TypeOK, controlVars
  <2> QED
    BY <1>29, <2>1, <2>2, <2>3, <2>4, TypesKept, TypesJoined DEF CommitSweep
<1>30. ASSUME NEW p \in Processes, SweepFails(p) PROVE TypeOK'
  <2>1. LocksTyped'
    BY <1>30, ReleaseTyped DEF SweepFails, LocksTyped, TypeOK, lockVars
  <2>2. ProcessesTyped'
    BY <1>30, SweepOver DEF SweepFails, OnlySweep, OnlyRequest, TypeOK, ProcessesTyped
  <2>3. ControlTyped'
    BY <1>30, FaultCounts DEF SweepFails, ControlTyped, TypeOK, controlVars
  <2> QED
    BY <1>30, <2>1, <2>2, <2>3, TypesKept, TypesJoined DEF SweepFails
<1>31. ASSUME NEW u \in Uploads, PurgeDocument(u) PROVE TypeOK'
  <2>1. FilesTyped'
    BY <1>31 DEF PurgeDocument, FilesTyped, TypeOK
  <2>2. DocumentsTyped'
    BY <1>31 DEF PurgeDocument, DocumentsTyped, TypeOK
  <2> QED
    BY <1>31, <2>1, <2>2, TypesKept, TypesJoined DEF PurgeDocument
<1>32. ASSUME NEW u \in Uploads, Expire(u) PROVE TypeOK'
  <2>1. RowsTyped'
    BY <1>32 DEF Expire, RowsTyped, TypeOK, Errors, rowVars
  <2> QED
    BY <1>32, <2>1, TypesKept, TypesJoined DEF Expire
<1>33. ASSUME NEW u \in Uploads, GrowOld(u) PROVE TypeOK'
  <2>1. FilesTyped'
    BY <1>33 DEF GrowOld, FilesTyped, TypeOK
  <2> QED
    BY <1>33, <2>1, TypesKept, TypesJoined DEF GrowOld
<1>34. ASSUME NEW f \in Files, SeedDocument(f) PROVE TypeOK'
  <2>1. DocumentsTyped'
    BY <1>34 DEF SeedDocument, DocumentsTyped, TypeOK
  <2>2. ControlTyped'
    BY <1>34, FaultCounts DEF SeedDocument, ControlTyped, TypeOK, controlVars
  <2> QED
    BY <1>34, <2>1, <2>2, TypesKept, TypesJoined DEF SeedDocument
<1>35. ASSUME NEW f \in Files, PurgeSeeded(f) PROVE TypeOK'
  <2>1. DocumentsTyped'
    BY <1>35 DEF PurgeSeeded, DocumentsTyped, TypeOK
  <2> QED
    BY <1>35, <2>1, TypesKept, TypesJoined DEF PurgeSeeded
<1>36. ASSUME Crash PROVE TypeOK'
  <2>1. LocksTyped'
    BY <1>36, ReleaseTyped DEF Crash, LocksTyped, TypeOK, lockVars
  <2>2. ProcessesTyped'
    BY <1>36, CrashEffect DEF Crash, ProcessesTyped
  <2>3. ControlTyped'
    BY <1>36, FaultCounts DEF Crash, ControlTyped, TypeOK, controlVars
  <2> QED
    BY <1>36, <2>1, <2>2, <2>3, TypesKept, TypesJoined DEF Crash
<1>37. CASE UNCHANGED vars
  BY <1>37 DEF vars, TypeOK, rowVars, fileVars, documentVars, lockVars, historyVars,
     controlVars
<1> QED
  BY <1>1, <1>2, <1>3, <1>4, <1>5, <1>6, <1>7, <1>8, <1>9, <1>10, <1>11, <1>12, <1>13,
     <1>14, <1>15, <1>16, <1>17, <1>18, <1>19, <1>20, <1>21, <1>22, <1>23, <1>24, <1>25,
     <1>26, <1>27, <1>28, <1>29, <1>30, <1>31, <1>32, <1>33, <1>34, <1>35, <1>36, <1>37
     DEF Next, Begin, Continue, Sweep, Processes


-----------------------------------------------------------------------------
(* Whatever happens to a session that the step does not work on: a         *)
(* creation opens it, a completion moves its file back without the lock, a *)
(* sweep removes an orphan, the Document is purged; or nothing.            *)
MovedBack(v) ==
  /\ undone[v] /\ final[v] # None
  /\ temporary'[v] = final[v] /\ final'[v] = None /\ document'[v] = document[v]
Orphaned(v) ==
  /\ status[v] # "open"
  /\ temporary'[v] = None /\ final'[v] = final[v] /\ document'[v] = document[v]
Purged(v) ==
  /\ document[v] /\ ~document'[v]
  /\ temporary'[v] = temporary[v] /\ final'[v] = None
FilesStay(v) ==
  temporary'[v] = temporary[v] /\ final'[v] = final[v] /\ document'[v] = document[v]

Outside(v) ==
  /\ receipts'[v] = receipts[v]
  /\ status'[v] = status[v] \/ (status[v] = "absent" /\ status'[v] = "open")
  /\ condemned'[v] = condemned[v] /\ undone'[v] = undone[v]
  /\ FilesStay(v) \/ MovedBack(v) \/ Orphaned(v) \/ Purged(v)

(* A file is new when it is made, and grows old when every sweep knows it. *)
Ages(v) ==
  status'[v] = "open" /\ (temporary'[v] # None \/ final'[v] # None) =>
    \/ young'[v]
    \/ /\ status[v] = "open" /\ OnDisk(v)
       /\ young[v] => \A p \in Sweepers : sweep[p].phase = "rows" => v \in sweep[p].known

Marks(v) ==
  /\ condemned[v] => condemned'[v]
  /\ undone[v] => undone'[v]
  /\ status[v] # "absent" => status'[v] # "absent"

(* A step of the processes A, on the sessions W that they hold.            *)
Leaves(A, W) ==
  /\ \A q \in Requests \ A : request'[q] = request[q]
  /\ \A p \in Processes \ A : sweep'[p] = sweep[p]
  /\ \A v \in Uploads : holder[v] \notin A \union {None} => holder'[v] = holder[v]
  /\ documentLock \notin A \union {None} => documentLock' = documentLock
  /\ \A v \in Uploads : Marks(v) /\ Ages(v)
  /\ \A v \in Uploads \ W : Outside(v)
  /\ \A w \in W : holder[w] \in A
  /\ faults["sweep"] > 0 => faults'["sweep"] > 0

LEMMA RequestsKept ==
  ASSUME TypeOK, Control, Reliable, NEW A, NEW W \in SUBSET Uploads, Leaves(A, W),
         NEW r \in Requests, r \notin A
  PROVE  RequestHolds(r)' /\ RequestRelies(r)'
<1> DEFINE u == request[r].upload
<1>1. request'[r] = request[r] /\ r # None
  BY ProcessAssumption DEF Leaves
<1>2. RequestHolds(r) /\ RequestRelies(r)
  BY DEF Control, Reliable
<1>3. u \in Uploads => Marks(u)
  BY DEF Leaves
<1>4. CASE request[r].phase \in Locking
  <2>1. u \in Uploads /\ holder[u] = r /\ HasRow(u)
    BY <1>2, <1>4 DEF RequestHolds
  <2>2. Outside(u) /\ holder'[u] = r
    BY <1>1, <2>1 DEF Leaves
  <2>3. status'[u] = status[u] /\ receipts'[u] = receipts[u]
    BY <2>1, <2>2 DEF Outside, HasRow
  <2>4. RequestHolds(r)'
    BY <1>1, <1>2, <1>3, <2>1, <2>2, <2>3
       DEF RequestHolds, HasRow, Marks, Locking, Completing
  <2>5. /\ Disk(u) /\ condemned'[u] = condemned[u] /\ undone'[u] = undone[u]
        /\ faults["sweep"] > 0 => faults'["sweep"] > 0
    BY <2>1, <2>2 DEF Reliable, Outside, Leaves
  <2>6. CASE FilesStay(u)
    BY <1>1, <1>2, <2>3, <2>5, <2>6, <2>4 DEF RequestRelies, FilesStay, Excused
  <2>7. CASE MovedBack(u)
    <3>1. temporary[u] = None
      BY <2>5, <2>7 DEF Disk, MovedBack
    <3>2. request[r].phase \notin {"admit", "move"}
      BY <1>2, <3>1, DeclaredFacts, SizeFacts DEF RequestRelies
    <3>3. request[r].phase # "confirm"
      BY <1>2, <2>5, <2>7 DEF RequestHolds, Disk, MovedBack
    <3> QED
      BY <1>1, <1>2, <2>3, <2>5, <2>7, <3>2, <3>3, <2>4
      DEF RequestRelies, MovedBack, Excused
  <2>8. CASE Orphaned(u)
    <3>1. request[r].phase \notin {"confirm", "admit", "move", "publish"}
      BY <1>2, <2>8 DEF RequestHolds, Completing, Orphaned
    <3> QED
      BY <1>1, <1>2, <2>3, <2>5, <2>8, <3>1, <2>4 DEF RequestRelies, Orphaned, Excused
  <2>9. CASE Purged(u)
    <3>1. request[r].phase # "publish"
      BY <1>2, <2>5, <2>9 DEF RequestHolds, Completing, Disk, Purged
    <3> QED
      BY <1>1, <1>2, <2>3, <2>5, <2>9, <3>1, <2>4 DEF RequestRelies, Purged, Excused
  <2> QED
    BY <2>2, <2>4, <2>6, <2>7, <2>8, <2>9 DEF Outside
<1>5. CASE request[r].phase \notin Locking
  <2>1. RequestHolds(r)'
    BY <1>1, <1>2, <1>3, <1>5 DEF RequestHolds, Marks, Locking, Completing
  <2>2. RequestRelies(r)'
    BY <1>1, <1>5 DEF RequestRelies, Locking, Completing
  <2> QED
    BY <2>1, <2>2
<1> QED
  BY <1>4, <1>5

LEMMA SweepsKept ==
  ASSUME TypeOK, Control, Reliable, NEW A, NEW W \in SUBSET Uploads, Leaves(A, W),
         NEW p \in Processes, p \notin A
  PROVE  SweepHolds(p)' /\ SweepRelies(p)'
<1>1. sweep'[p] = sweep[p] /\ p # None /\ (p \in Requests => request'[p] = request[p])
  BY ProcessAssumption DEF Leaves, Processes
<1>2. SweepHolds(p) /\ SweepRelies(p) /\ sweep[p] \in SweepStates
  BY DEF Control, Reliable, TypeOK
<1>3. ASSUME NEW u \in sweep[p].todo \union sweep[p].delete \union sweep[p].fail
      PROVE  /\ u \in Uploads /\ holder'[u] = p /\ status'[u] = status[u] /\ HasRow(u)
             /\ Outside(u)
  <2>1. u \in Uploads /\ holder[u] = p /\ HasRow(u)
    BY <1>2, <1>3 DEF SweepHolds, SweepStates
  <2>2. Outside(u) /\ holder'[u] = p
    BY <1>1, <2>1 DEF Leaves
  <2> QED
    BY <2>1, <2>2 DEF Outside, HasRow
<1>4. SweepHolds(p)'
  BY <1>1, <1>2, <1>3 DEF SweepHolds, HasRow
<1>5. ASSUME NEW u \in sweep[p].delete
      PROVE  final'[u] = None \/ document'[u]
  BY <1>2, <1>3, <1>5
     DEF SweepRelies, Outside, FilesStay, MovedBack, Orphaned, Purged
<1>6. ASSUME NEW u \in sweep[p].fail
      PROVE  final'[u] = None /\ Excused(u)'
  <2>1. final'[u] = None
    BY <1>2, <1>3, <1>6
       DEF SweepRelies, Outside, FilesStay, MovedBack, Orphaned, Purged
  <2>2. Excused(u)'
    BY <1>2, <1>3, <1>6 DEF SweepRelies, Outside, Excused, Leaves
  <2> QED
    BY <2>1, <2>2
<1> QED
  BY <1>1, <1>4, <1>5, <1>6 DEF SweepRelies

LEMMA DiskKept ==
  ASSUME TypeOK, NEW v \in Uploads, Disk(v), Outside(v)
  PROVE  Disk(v)'
<1>1. CASE FilesStay(v)
  <2>1. Kept(v) => Kept(v)'
    BY <1>1 DEF Kept, HasPrefix, Outside, FilesStay
  <2>2. status[v] = "absent" => receipts[v] = <<>> /\ final[v] = None
    BY DEF Disk
  <2>3. receipts'[v] = <<>> => Kept(v)'
    BY DEF Kept
  <2> QED
    BY <1>1, <2>1, <2>2, <2>3 DEF Disk, Outside, FilesStay
<1>2. CASE MovedBack(v)
  <2>1. status'[v] = status[v] /\ temporary[v] = None
    BY <1>2 DEF Disk, Outside, MovedBack
  <2>2. Kept(v) => Kept(v)'
    BY <1>2, <2>1 DEF Kept, HasPrefix, Outside, MovedBack
  <2> QED
    BY <1>2, <2>1, <2>2 DEF Disk, Outside, MovedBack
<1>3. CASE Orphaned(v)
  <2>1. status[v] = "absent" => receipts[v] = <<>> /\ final[v] = None
    BY DEF Disk
  <2>2. receipts'[v] = <<>> => Kept(v)'
    BY DEF Kept
  <2> QED
    BY <1>3, <2>1, <2>2 DEF Disk, Outside, Orphaned
<1>4. CASE Purged(v)
  BY <1>4 DEF Disk, Outside, Purged
<1> QED
  BY <1>1, <1>2, <1>3, <1>4 DEF Outside

LEMMA KnowsKept ==
  ASSUME TypeOK, Reliable, NEW A, NEW W, Leaves(A, W), NEW p \in Processes,
         \/ sweep'[p].phase # "rows"
         \/ sweep'[p].phase = sweep[p].phase /\ sweep'[p].known = sweep[p].known
  PROVE  SweepKnows(p)'
<1> SUFFICES ASSUME p \in Sweepers, sweep'[p].phase = "rows", NEW u \in Uploads,
                    u \notin sweep'[p].known, status'[u] = "open",
                    temporary'[u] # None \/ final'[u] # None
             PROVE  young'[u]
  BY DEF SweepKnows, OnDisk
<1>1. sweep[p].phase = "rows" /\ u \notin sweep[p].known
  OBVIOUS
<1>2. Ages(u) /\ SweepKnows(p)
  BY DEF Leaves, Reliable
<1>3. status[u] = "open" /\ OnDisk(u) => young[u]
  BY <1>1, <1>2 DEF SweepKnows
<1> QED
  BY <1>1, <1>2, <1>3 DEF Ages

(* A session on which the step does not work is attended and found as      *)
(* before, if what the processes of the step did for it is made good.      *)
LEMMA RecoveredKept ==
  ASSUME TypeOK, Control, Reliable, NEW A, NEW W \in SUBSET Uploads, Leaves(A, W),
         NEW v \in Uploads, v \notin W,
         holder'[v] # None
           /\ (\/ holder[v] = None
               \/ \E x \in Processes : x \in A /\ AttendedBy(x, v))
           => Attended(v)',
         \A p \in Processes : p \in A /\ v \in sweep[p].todo => Found(v)',
         \A q \in Requests :
           q \in A /\ request[q].phase = "publish" /\ request[q].upload = v => Found(v)',
         Starting /\ status[v] = "open" /\ (holder[v] # None => Attended(v)) => Found(v)'
  PROVE  Recovered(v)'
<1> SUFFICES ASSUME status'[v] = "open", final'[v] # None
             PROVE  Found(v)' /\ (holder'[v] # None => Attended(v)')
  BY DEF Recovered
<1>1. Outside(v) /\ Disk(v) /\ Recovered(v)
  BY DEF Leaves, Reliable
<1>2. status[v] = "open" /\ final[v] # None
  BY <1>1 DEF Outside, Disk, FilesStay, MovedBack, Orphaned, Purged
<1>3. Found(v) /\ (holder[v] # None => Attended(v))
  BY <1>1, <1>2 DEF Recovered
<1>4. Found(v)'
  <2>1. CASE undone[v] \/ faults["sweep"] > 0
    BY <1>1, <2>1 DEF Outside, Leaves, Found
  <2>2. ASSUME NEW p \in Processes, p \notin A, v \in sweep[p].todo
        PROVE  Found(v)'
    <3>1. v \in sweep'[p].todo
      BY <2>2 DEF Leaves
    <3> QED
      BY <3>1 DEF Found, Swept
  <2>3. ASSUME NEW q \in Requests, q \notin A,
               request[q].phase = "publish", request[q].upload = v
        PROVE  Found(v)'
    <3>1. request'[q].phase = "publish" /\ request'[q].upload = v
      BY <2>3 DEF Leaves
    <3> QED
      BY <3>1 DEF Found, Published
  <2>4. CASE Swept(v)
    BY <2>2, <2>4 DEF Swept
  <2>5. CASE Published(v)
    BY <2>3, <2>5 DEF Published
  <2>6. CASE Starting
    BY <1>2, <1>3, <2>6
  <2> QED
    BY <1>3, <2>1, <2>4, <2>5, <2>6 DEF Found
<1>5. ASSUME holder'[v] # None PROVE Attended(v)'
  <2>1. CASE holder[v] = None
    BY <1>5, <2>1
  <2>2. CASE holder[v] # None
    <3>1. PICK x \in Processes : AttendedBy(x, v)
      BY <1>3, <2>2 DEF Attended
    <3>2. CASE x \in A
      BY <1>5, <3>1, <3>2
    <3>3. CASE x \notin A
      <4>1. AttendedBy(x, v)'
        BY <3>1, <3>3 DEF AttendedBy, Leaves
      <4> QED
        BY <4>1 DEF Attended
    <3> QED
      BY <3>2, <3>3
  <2> QED
    BY <2>1, <2>2
<1> QED
  BY <1>4, <1>5

(* What suffices for a step.                                               *)
LEMMA StepJoined ==
  ASSUME TypeOK, Control, Reliable, NEW A, NEW W \in SUBSET Uploads, Leaves(A, W),
         \A q \in Requests : q \in A => RequestHolds(q)' /\ RequestRelies(q)',
         \A p \in Processes :
           p \in A => SweepHolds(p)' /\ SweepRelies(p)' /\ SweepKnows(p)',
         \A w \in W : Disk(w)',
         \A v \in Uploads : Recovered(v)',
         booting' => \A q \in Requests : request'[q] = Idle
  PROVE  Control' /\ Reliable'
<1>1. \A q \in Requests : RequestHolds(q)' /\ RequestRelies(q)'
  BY RequestsKept
<1>2. \A p \in Processes : SweepHolds(p)' /\ SweepRelies(p)'
  BY SweepsKept
<1>3. ASSUME NEW p \in Processes PROVE SweepKnows(p)'
  <2>1. p \notin A => sweep'[p] = sweep[p]
    BY DEF Leaves
  <2> QED
    BY <2>1, KnowsKept
<1>4. ASSUME NEW v \in Uploads PROVE Disk(v)'
  <2>1. v \notin W => Outside(v)
    BY DEF Leaves
  <2>2. Disk(v)
    BY DEF Reliable
  <2> QED
    BY <2>1, <2>2, DiskKept
<1>5. Control'
  BY <1>1, <1>2 DEF Control
<1>6. Reliable'
  BY <1>1, <1>2, <1>3, <1>4 DEF Reliable
<1> QED
  BY <1>5, <1>6

(* A request that works, or starts to: nothing sweeps on its behalf.       *)
LEMMA AsleepIsFine ==
  ASSUME NEW p \in Processes, sweep'[p] = Asleep
  PROVE  SweepHolds(p)' /\ SweepRelies(p)' /\ SweepKnows(p)'
BY DEF SweepHolds, SweepRelies, SweepKnows, Asleep

LEMMA NotSweeping ==
  ASSUME Control, NEW q \in Requests, request[q].phase # "sweep"
  PROVE  sweep[q] = Asleep
BY DEF Control, SweepHolds, Processes

LEMMA NotBooting ==
  ASSUME Control, NEW q \in Requests, request[q].phase # "idle"
  PROVE  ~booting
BY DEF Control, Idle

LEMMA RequestJoined ==
  ASSUME TypeOK, Control, Reliable, NEW q \in Requests, NEW W \in SUBSET Uploads,
         Leaves({q}, W), UNCHANGED <<sweep, booting>>,
         request[q].phase # "sweep", ~booting,
         request[q].phase = "publish" => request[q].upload \in W,
         \A v \in Uploads \ W :
           holder'[v] # None /\ (holder[v] = None \/ AttendedBy(q, v)) => Attended(v)',
         RequestHolds(q)', RequestRelies(q)',
         \A w \in W : Disk(w)' /\ Recovered(w)'
  PROVE  Control' /\ Reliable'
<1>1. sweep[q] = Asleep /\ sweep'[q] = Asleep /\ q \in Processes
  BY NotSweeping DEF Processes
<1>2. SweepHolds(q)' /\ SweepRelies(q)' /\ SweepKnows(q)'
  BY <1>1, AsleepIsFine
<1>3. ASSUME NEW v \in Uploads, v \notin W PROVE Recovered(v)'
  <2>1. \A p \in Processes : p \in {q} => v \notin sweep[p].todo
    BY <1>1 DEF Asleep
  <2>2. \A r \in Requests : r \in {q} =>
          ~(request[r].phase = "publish" /\ request[r].upload = v)
    BY <1>3
  <2>3. ~Starting
    BY DEF Starting
  <2>4. holder'[v] # None
          /\ (\/ holder[v] = None
              \/ \E x \in Processes : x \in {q} /\ AttendedBy(x, v))
          => Attended(v)'
    BY <1>3
  <2> QED
    BY <1>3, <2>1, <2>2, <2>3, <2>4, RecoveredKept
<1> QED
  BY <1>2, <1>3, StepJoined

-----------------------------------------------------------------------------
(* Steps that change no file, no status and no Document.                   *)

LEMMA QuietLeaves ==
  ASSUME NEW A,
         UNCHANGED <<status, receipts, temporary, final, young, document, historyVars>>,
         \A q \in Requests \ A : request'[q] = request[q],
         \A p \in Processes \ A : sweep'[p] = sweep[p],
         \A v \in Uploads : holder[v] \notin A \union {None} => holder'[v] = holder[v],
         documentLock \notin A \union {None} => documentLock' = documentLock,
         faults["sweep"] > 0 => faults'["sweep"] > 0
  PROVE  Leaves(A, {})
<1>0. UNCHANGED <<condemned, undone>>
  BY DEF historyVars
<1>1. ASSUME NEW v \in Uploads PROVE Marks(v) /\ Outside(v)
  <2>1. Marks(v)
    BY <1>0 DEF Marks
  <2>2. FilesStay(v)
    BY DEF FilesStay
  <2>3. Outside(v)
    BY <1>0, <2>2 DEF Outside
  <2> QED
    BY <2>1, <2>3
<1>2. ASSUME NEW v \in Uploads PROVE Ages(v)
  BY DEF Ages, OnDisk
<1> QED
  BY <1>1, <1>2 DEF Leaves

LEMMA Unbound ==
  ASSUME NEW q \in Requests,
         request'[q].phase \in {"idle", "sweep", "look", "count", "insert"}
  PROVE  RequestHolds(q)' /\ RequestRelies(q)'
<1>1. RequestHolds(q)'
  BY DEF RequestHolds, Locking, Completing
<1>2. RequestRelies(q)'
  BY DEF RequestRelies
<1> QED
  BY <1>1, <1>2

LEMMA IdlePhase == Idle.phase = "idle"
BY DEF Idle

(* Who ends its transaction attends nothing any more, and holds nothing.   *)
LEMMA ReleasedAttends ==
  ASSUME Control, NEW P, Releases(P), NEW x \in Processes, x \in P, NEW v \in Uploads,
         holder[v] = None \/ AttendedBy(x, v)
  PROVE  holder'[v] = None
<1>1. CASE holder[v] = None
  BY <1>1 DEF Releases
<1>2. CASE v \in sweep[x].todo
  BY <1>2 DEF Control, SweepHolds, Releases
<1>3. CASE x \in Requests /\ request[x].phase \in Locking /\ request[x].upload = v
  BY <1>3 DEF Control, RequestHolds, Releases
<1> QED
  BY <1>1, <1>2, <1>3 DEF AttendedBy

(* A transaction begins with the lock of a row.                            *)
LEMMA StartStep ==
  ASSUME TypeOK, Control, Reliable, NEW q \in Requests, NEW u \in Uploads,
         NEW phase \in {"append", "expire", "cancel", "verify"},
         Ready(q), Enters(q, phase, u), Locks(q, u),
         RequestHolds(q)',
         UNCHANGED <<rowVars, fileVars, documentVars, documentLock, sweep, historyVars,
                     controlVars>>
  PROVE  Control' /\ Reliable'
<1> USE DEF rowVars, fileVars, documentVars, historyVars, controlVars
<1>1. request[q].phase = "idle" /\ ~booting
  BY DEF Ready, Idle
<1>2. Leaves({q}, {})
  <2>1. \A v \in Uploads : holder[v] \notin {q} \union {None} => holder'[v] = holder[v]
    BY DEF Locks
  <2> QED
    BY <2>1, QuietLeaves DEF Enters, OnlyRequest
<1>3. /\ request'[q].phase = phase /\ request'[q].upload = u /\ holder'[u] = q
      /\ HasRow(u) /\ request'[q].reason = "none"
  BY DEF Enters, Locks
<1>5. RequestRelies(q)'
  BY <1>3 DEF RequestRelies
<1>6. ASSUME NEW v \in Uploads, holder'[v] # None, holder[v] = None \/ AttendedBy(q, v)
      PROVE  Attended(v)'
  <2>1. ~AttendedBy(q, v)
    BY <1>1, NotSweeping DEF AttendedBy, Locking, Completing, Asleep
  <2>2. v = u
    BY <1>6, <2>1 DEF Locks
  <2> QED
    BY <1>3, <2>2 DEF Attended, AttendedBy, Locking, Completing, Processes
<1> QED
  BY <1>1, <1>2, <1>5, <1>6, RequestJoined

LEMMA StartsStep ==
  ASSUME TypeOK, Control, Reliable, NEW q \in Requests, NEW u \in Uploads,
         \/ StartExpired(q, u)
         \/ StartCancel(q, u)
         \/ StartComplete(q, u)
         \/ \E b \in Sent : StartPart(q, u, b)
  PROVE  Control' /\ Reliable'
<1>1. CASE StartExpired(q, u)
  <2>1. Enters(q, "expire", u) /\ Locks(q, u)
    BY <1>1, LockLocks DEF StartExpired, Phases
  <2>2. RequestHolds(q)'
    BY <1>1, <2>1
       DEF StartExpired, RequestHolds, Enters, Locks, HasRow, Locking, Completing, rowVars,
           historyVars
  <2> QED
    BY <1>1, <2>1, <2>2, StartStep DEF StartExpired
<1>2. CASE StartCancel(q, u)
  <2>1. Enters(q, "cancel", u) /\ Locks(q, u)
    BY <1>2, LockLocks DEF StartCancel, Phases
  <2>2. RequestHolds(q)'
    BY <1>2, <2>1
       DEF StartCancel, RequestHolds, Enters, Locks, HasRow, Locking, Completing, rowVars,
           historyVars
  <2> QED
    BY <1>2, <2>1, <2>2, StartStep DEF StartCancel
<1>3. CASE StartComplete(q, u)
  <2>1. Enters(q, "verify", u) /\ Locks(q, u)
    BY <1>3, LockLocks DEF StartComplete, Phases
  <2>2. RequestHolds(q)'
    BY <1>3, <2>1
       DEF StartComplete, RequestHolds, Enters, Locks, HasRow, Locking, Completing, rowVars,
           historyVars
  <2> QED
    BY <1>3, <2>1, <2>2, StartStep DEF StartComplete
<1>4. ASSUME NEW b \in Sent, StartPart(q, u, b)
      PROVE  Control' /\ Reliable'
  <2>1. Enters(q, "append", u) /\ Locks(q, u) /\ request'[q].bytes \in Bytes
    BY <1>4, PartEnters, SentAssumption
  <2>2. RequestHolds(q)'
    BY <1>4, <2>1
       DEF StartPart, RequestHolds, Enters, Locks, HasRow, Locking, Completing, rowVars,
           historyVars
  <2> QED
    BY <1>4, <2>1, <2>2, StartStep DEF StartPart
<1> QED
  BY <1>1, <1>2, <1>3, <1>4

(* Bytes that the receipts of an open session promise are found missing    *)
(* only of a session that is excused: a request that holds the row sees    *)
(* what Disk says of it, and a file in the final place waits for a sweep.  *)
LEMMA VerifyStep ==
  ASSUME TypeOK, Control, Reliable, NEW q \in Requests, Verify(q)
  PROVE  Control' /\ Reliable'
<1> DEFINE u == request[q].upload
<1> USE DEF rowVars, fileVars, documentVars, lockVars, historyVars, controlVars
<1>1. request[q].phase = "verify" /\ ~booting
  BY NotBooting DEF Verify
<1>2. /\ u \in Uploads /\ holder[u] = q /\ HasRow(u) /\ status[u] = "open"
      /\ Len(receipts[u]) = Parts
  BY <1>1 DEF Control, RequestHolds, Locking, Completing
<1>3. \/ Fails(q, "missing") /\ temporary[u] = None
      \/ Fails(q, "mismatch") \/ Fails(q, "format")
      \/ Proceeds(q, "admit") /\ temporary[u] = Declared
  BY FailWithFails, GoToProceeds DEF Verify, Phases, Errors
<1>4. OnlyRequest(q) /\ request'[q].upload = u /\ request'[q].phase \in {"fail", "admit"}
  BY <1>3 DEF Fails, Proceeds
<1>5. Leaves({q}, {})
  BY <1>4, QuietLeaves DEF OnlyRequest, Verify
<1>6. UNCHANGED <<status, receipts, temporary, final, undone, condemned, holder, faults>>
  BY DEF Verify
<1>7. RequestHolds(q)'
  BY <1>2, <1>4, <1>6 DEF RequestHolds, Locking, Completing, HasRow
<1>8. temporary[u] = None => Excused(u)
  <2> SUFFICES ASSUME temporary[u] = None, ~condemned[u]
               PROVE  undone[u] \/ faults["sweep"] > 0
    BY DEF Excused
  <2>1. Disk(u) /\ Recovered(u)
    BY <1>2 DEF Reliable
  <2>2. receipts[u] # <<>>
    BY <1>2, EmptyFacts, PartsAssumption
  <2>3. final[u] # None
    BY <1>2, <2>1, <2>2 DEF Disk, Kept, HasPrefix
  <2>4. Found(u)
    BY <1>2, <2>1, <2>3 DEF Recovered
  <2>5. ~Swept(u)
    <3>1. \A p \in Processes : u \in sweep[p].todo => p = q
      BY <1>2 DEF Control, SweepHolds
    <3>2. sweep[q] = Asleep
      BY <1>1, NotSweeping
    <3> QED
      BY <3>1, <3>2 DEF Swept, Asleep
  <2>6. ~Published(u)
    BY <1>1, <1>2 DEF Control, RequestHolds, Locking, Completing, Published
  <2> QED
    BY <1>1, <2>4, <2>5, <2>6 DEF Found, Starting
<1>9. RequestRelies(q)'
  <2>1. temporary[u] = None => Excused(request[q].upload)'
    BY <1>4, <1>6, <1>8 DEF Excused
  <2> QED
    BY <1>3, <1>4, <1>6, <2>1 DEF RequestRelies, Fails, Proceeds
<1>10. ASSUME NEW v \in Uploads, holder'[v] # None, holder[v] = None \/ AttendedBy(q, v)
       PROVE  Attended(v)'
  <2>1. AttendedBy(q, v)
    BY <1>6, <1>10
  <2>2. AttendedBy(q, v)'
    BY <1>4, <2>1 DEF AttendedBy, Verify, Locking, Completing
  <2> QED
    BY <2>2 DEF Attended, Processes
<1> QED
  BY <1>1, <1>5, <1>7, <1>9, <1>10, RequestJoined DEF Verify

LEMMA AdmitStep ==
  ASSUME TypeOK, Control, Reliable, NEW q \in Requests, Admit(q)
  PROVE  Control' /\ Reliable'
<1> DEFINE u == request[q].upload
<1> USE DEF rowVars, fileVars, documentVars, historyVars, controlVars
<1>1. request[q].phase = "admit" /\ ~booting
  BY NotBooting DEF Admit
<1>2. /\ u \in Uploads /\ holder[u] = q /\ HasRow(u) /\ status[u] = "open"
      /\ Len(receipts[u]) = Parts /\ temporary[u] = Declared
  BY <1>1 DEF Control, RequestHolds, Locking, Completing, Reliable, RequestRelies
<1>3. Fails(q, "limit") \/ Fails(q, "duplicate") \/ Proceeds(q, "move")
  BY FailWithFails, GoToProceeds DEF Admit, Phases, Errors
<1>4. OnlyRequest(q) /\ request'[q].upload = u /\ request'[q].phase \in {"fail", "move"}
  BY <1>3 DEF Fails, Proceeds
<1>5. Leaves({q}, {})
  BY <1>4, QuietLeaves DEF OnlyRequest, Admit
<1>6. UNCHANGED <<status, receipts, temporary, final, undone, condemned, holder, faults>>
  BY DEF Admit
<1>7. RequestHolds(q)'
  BY <1>2, <1>4, <1>6 DEF RequestHolds, Locking, Completing, HasRow
<1>8. RequestRelies(q)'
  BY <1>2, <1>3, <1>4, <1>6 DEF RequestRelies, Fails, Proceeds
<1>9. ASSUME NEW v \in Uploads, holder'[v] # None, holder[v] = None \/ AttendedBy(q, v)
      PROVE  Attended(v)'
  <2>1. AttendedBy(q, v)
    BY <1>6, <1>9
  <2>2. AttendedBy(q, v)'
    BY <1>4, <2>1 DEF AttendedBy, Admit, Locking, Completing
  <2> QED
    BY <2>2 DEF Attended, Processes
<1> QED
  BY <1>1, <1>5, <1>7, <1>8, <1>9, RequestJoined DEF Admit

(* A creation holds no row, and a duplicate takes its row again.           *)
LEMMA RelockStep ==
  ASSUME TypeOK, Control, Reliable, NEW q \in Requests, Relock(q)
  PROVE  Control' /\ Reliable'
<1> DEFINE u == request[q].upload
<1> USE DEF rowVars, fileVars, documentVars, historyVars, controlVars
<1>1. request[q].phase = "relock" /\ ~booting
  BY NotBooting DEF Relock
<1>2. u \in Uploads /\ undone[u]
  BY <1>1 DEF Control, RequestHolds
<1>3. \/ HasRow(u) /\ Fails(q, "duplicate") /\ Locks(q, u)
      \/ Ends(q) /\ UNCHANGED holder
  <2>1. HasRow(u) => Locks(q, u)
    BY <1>2 DEF Relock, Locks, TypeOK, Processes
  <2> QED
    BY <2>1, FailWithFails, FinishEnds DEF Relock, Errors
<1>4. Leaves({q}, {})
  <2>1. \A v \in Uploads : holder[v] \notin {q} \union {None} => holder'[v] = holder[v]
    BY <1>3 DEF Locks
  <2> QED
    BY <1>3, <2>1, QuietLeaves DEF OnlyRequest, Relock, Fails, Ends
<1>5. RequestHolds(q)' /\ RequestRelies(q)'
  <2>1. CASE Ends(q)
    BY <2>1, IdlePhase, Unbound DEF Ends
  <2>2. CASE HasRow(u) /\ Fails(q, "duplicate") /\ Locks(q, u)
    <3>1. /\ request'[q].phase = "fail" /\ request'[q].upload = u /\ holder'[u] = q
          /\ request'[q].reason = "duplicate" /\ HasRow(u)
      BY <2>2 DEF Fails, Locks
    <3>2. RequestHolds(q)'
      BY <1>2, <3>1 DEF RequestHolds, Locking, Completing, HasRow, Relock
    <3>3. RequestRelies(q)'
      BY <3>1 DEF RequestRelies
    <3> QED
      BY <3>2, <3>3
  <2> QED
    BY <1>3, <2>1, <2>2
<1>6. ASSUME NEW v \in Uploads, holder'[v] # None, holder[v] = None \/ AttendedBy(q, v)
      PROVE  Attended(v)'
  <2>1. ~AttendedBy(q, v)
    BY <1>1, NotSweeping DEF AttendedBy, Locking, Completing, Asleep
  <2>2. v = u /\ Fails(q, "duplicate")
    BY <1>3, <1>6, <2>1 DEF Locks
  <2> QED
    BY <2>2 DEF Attended, AttendedBy, Locking, Processes, Fails
<1> QED
  BY <1>1, <1>4, <1>5, <1>6, RequestJoined DEF Relock

LEMMA LooksStep ==
  ASSUME TypeOK, Control, Reliable, NEW q \in Requests, Look(q) \/ Touch(q) \/ Count(q)
  PROVE  Control' /\ Reliable'
<1> USE DEF rowVars, fileVars, documentVars, lockVars, historyVars, controlVars
<1>1. request[q].phase \in {"look", "touch", "count"} /\ ~booting
  BY NotBooting DEF Look, Touch, Count
<1>2. /\ OnlyRequest(q)
      /\ \/ request'[q].phase \in {"idle", "count", "insert"}
         \/ request'[q].phase = "touch" /\ request'[q].upload \in Uploads
  BY LookGoesOn, FinishEnds, GoToProceeds, IdlePhase
     DEF Ends, Proceeds, Touch, Count, Phases
<1>3. UNCHANGED <<holder, documentLock, faults, sweep, booting>>
  BY DEF Look, Touch, Count
<1>4. Leaves({q}, {})
  BY <1>2, <1>3, QuietLeaves DEF OnlyRequest, Look, Touch, Count
<1>5. RequestHolds(q)' /\ RequestRelies(q)'
  <2>1. CASE request'[q].phase \in {"idle", "count", "insert"}
    BY <2>1, Unbound
  <2>2. CASE request'[q].phase = "touch" /\ request'[q].upload \in Uploads
    BY <2>2 DEF RequestHolds, RequestRelies, Locking, Completing
  <2> QED
    BY <1>2, <2>1, <2>2
<1>6. ASSUME NEW v \in Uploads, holder'[v] # None, holder[v] = None \/ AttendedBy(q, v)
      PROVE  Attended(v)'
  BY <1>1, <1>3, <1>6, NotSweeping DEF AttendedBy, Locking, Completing, Asleep
<1> QED
  BY <1>1, <1>3, <1>4, <1>5, <1>6, RequestJoined

LEMMA CommitFailsStep ==
  ASSUME TypeOK, Control, Reliable, NEW q \in Requests, CommitFails(q)
  PROVE  Control' /\ Reliable'
<1> USE DEF rowVars, fileVars, documentVars, historyVars
<1>1. /\ request[q].phase \in {"confirm", "deleteRow", "failRow", "touch", "insert"}
      /\ ~booting
  BY NotBooting DEF CommitFails
<1>2. Ends(q) /\ Releases({q})
  BY FinishEnds, EndReleases DEF CommitFails
<1>3. faults["sweep"] > 0 => faults'["sweep"] > 0
  BY FaultCounts DEF CommitFails
<1>4. Leaves({q}, {})
  BY <1>2, <1>3, QuietLeaves DEF Ends, OnlyRequest, CommitFails, Releases
<1>5. RequestHolds(q)' /\ RequestRelies(q)'
  BY <1>2, IdlePhase, Unbound DEF Ends
<1>6. ASSUME NEW v \in Uploads, holder'[v] # None, holder[v] = None \/ AttendedBy(q, v)
      PROVE  Attended(v)'
  BY <1>2, <1>6, ReleasedAttends DEF Processes
<1> QED
  BY <1>1, <1>4, <1>5, <1>6, RequestJoined DEF CommitFails

-----------------------------------------------------------------------------
(* Steps of a request that change a session.                               *)

Stays(v) ==
  /\ status'[v] = status[v] /\ receipts'[v] = receipts[v]
  /\ FilesStay(v) /\ young'[v] = young[v]
  /\ condemned'[v] = condemned[v] /\ undone'[v] = undone[v]

LEMMA StaysOutside ==
  ASSUME NEW v \in Uploads, Stays(v)
  PROVE  Marks(v) /\ Ages(v) /\ Outside(v)
<1>1. Marks(v)
  BY DEF Stays, Marks
<1>2. Outside(v)
  BY DEF Stays, Outside
<1>3. Ages(v)
  BY DEF Stays, FilesStay, Ages, OnDisk
<1> QED
  BY <1>1, <1>2, <1>3

LEMMA WorkLeaves ==
  ASSUME NEW q \in Requests, NEW u \in Uploads, holder[u] = q,
         OnlyRequest(q), UNCHANGED sweep,
         \A v \in Uploads : holder[v] \notin {q} \union {None} => holder'[v] = holder[v],
         documentLock \notin {q} \union {None} => documentLock' = documentLock,
         faults["sweep"] > 0 => faults'["sweep"] > 0,
         Marks(u), Ages(u), \A v \in Uploads : v # u => Stays(v)
  PROVE  Leaves({q}, {u})
BY StaysOutside DEF Leaves, OnlyRequest

(* A request that works on its session and keeps its lock, or ends.        *)
LEMMA WorkJoined ==
  ASSUME TypeOK, Control, Reliable, NEW q \in Requests, NEW u \in Uploads,
         Leaves({q}, {u}), UNCHANGED <<sweep, booting>>,
         request[q].phase \in Locking, request[q].upload = u,
         holder' = holder \/ Releases({q}),
         RequestHolds(q)', RequestRelies(q)', Disk(u)', Recovered(u)'
  PROVE  Control' /\ Reliable'
<1>1. request[q].phase # "sweep" /\ ~booting
  BY NotBooting DEF Locking, Completing
<1>2. ASSUME NEW v \in Uploads, v # u, holder'[v] # None,
             holder[v] = None \/ AttendedBy(q, v)
      PROVE  Attended(v)'
  <2>1. ~AttendedBy(q, v)
    BY <1>1, <1>2, NotSweeping DEF AttendedBy, Asleep
  <2> QED
    BY <1>2, <2>1 DEF Releases
<1> QED
  BY <1>1, <1>2, RequestJoined

LEMMA AppendPartStep ==
  ASSUME TypeOK, Control, Reliable, NEW q \in Requests, AppendPart(q)
  PROVE  Control' /\ Reliable'
<1> USE DEF rowVars, documentVars, lockVars, historyVars, controlVars
<1>1. PICK u \in Uploads :
        /\ request[q].phase = "append" /\ request[q].upload = u
        /\ holder[u] = q /\ HasRow(u)
        /\ status[u] = "open" /\ Len(receipts[u]) < Parts /\ request[q].bytes \in Bytes
  BY DEF AppendPart, Control, RequestHolds, Locking
<1> DEFINE r == receipts[u]
           t == temporary[u]
           cut == Prefix(t, Len(r))
<1>2. r \in Contents /\ t \in Contents \union {None} /\ Disk(u)
  BY <1>1 DEF TypeOK, Reliable
<1>3. final[u] = None
  BY <1>1, <1>2, PartsAssumption, SizeFacts DEF Disk
<1>4. ~condemned[u] => Len(r) = 0 \/ HasPrefix(t, r)
  BY <1>1, <1>2, <1>3, EmptyFacts DEF Disk, Kept, HasPrefix
<1>5. UNCHANGED <<status, receipts, final, document, condemned, undone, holder,
                  documentLock, sweep, booting, faults>>
  BY DEF AppendPart
<1>6. CASE Size(t) < Len(r)
  <2>1. /\ Fails(q, "checkpoint") /\ temporary'[u] = IF t = None THEN <<>> ELSE t
        /\ young'[u] = (young[u] \/ t = None)
        /\ \A v \in Uploads : v # u => temporary'[v] = temporary[v] /\ young'[v] = young[v]
    BY <1>1, <1>6, FailWithFails DEF AppendPart, TypeOK, Errors
  <2>2. condemned[u]
    BY <1>2, <1>4, <1>6, SizeFacts DEF Size, HasPrefix
  <2>3. Leaves({q}, {u})
    <3>1. Marks(u) /\ Ages(u)
      BY <1>1, <1>5, <2>1 DEF Marks, Ages, OnDisk
    <3>2. \A v \in Uploads : v # u => Stays(v)
      BY <1>5, <2>1 DEF Stays, FilesStay
    <3> QED
      BY <1>1, <1>5, <2>1, <3>1, <3>2, WorkLeaves DEF Fails
  <2>4. RequestHolds(q)'
    BY <1>1, <1>5, <2>1 DEF Fails, RequestHolds, Locking, Completing, HasRow
  <2>5. RequestRelies(q)'
    BY <1>1, <1>5, <2>1, <2>2 DEF Fails, RequestRelies, Excused
  <2>6. Disk(u)' /\ Recovered(u)'
    <3>1. Disk(u)'
      BY <1>1, <1>2, <1>3, <1>5, <2>2 DEF Disk
    <3> QED
      BY <1>3, <1>5, <3>1 DEF Recovered
  <2> QED
    BY <1>1, <1>5, <2>3, <2>4, <2>5, <2>6, WorkJoined DEF Locking
<1>7. CASE ~(Size(t) < Len(r))
  <2>1. PICK b \in Bytes \union {"torn"} :
          /\ temporary' = [temporary EXCEPT ![u] = Append(cut, b)]
          /\ \/ b = request[q].bytes /\ GoTo(q, "confirm")
             \/ UNCHANGED request
    BY <1>1, <1>7 DEF AppendPart, TypeOK
  <2>2. /\ temporary'[u] = Append(cut, b) /\ young'[u]
        /\ \A v \in Uploads : v # u => temporary'[v] = temporary[v] /\ young'[v] = young[v]
    BY <1>1, <1>7, <2>1 DEF AppendPart, TypeOK
  <2>3. OnlyRequest(q) /\ (Proceeds(q, "confirm") \/ UNCHANGED request)
    BY <2>1, GoToProceeds DEF Proceeds, Phases, OnlyRequest, TypeOK
  <2>4. ~condemned[u] => cut = r
    <3>1. CASE Len(r) = 0
      BY <1>2, <3>1, SizeFacts DEF Prefix
    <3>2. CASE Len(r) # 0
      BY <1>4, <3>2 DEF HasPrefix
    <3> QED
      BY <3>1, <3>2
  <2>5. Leaves({q}, {u})
    <3>1. Marks(u) /\ Ages(u)
      BY <1>1, <1>5, <2>2 DEF Marks, Ages
    <3>2. \A v \in Uploads : v # u => Stays(v)
      BY <1>5, <2>2 DEF Stays, FilesStay
    <3> QED
      BY <1>1, <1>5, <2>3, <3>1, <3>2, WorkLeaves
  <2>6. RequestHolds(q)'
    BY <1>1, <1>5, <2>3 DEF Proceeds, RequestHolds, Locking, Completing, HasRow
  <2>7. RequestRelies(q)'
    <3>1. CASE UNCHANGED request
      BY <1>1, <3>1 DEF RequestRelies
    <3>2. CASE b = request[q].bytes /\ GoTo(q, "confirm")
      <4>1. Proceeds(q, "confirm")
        BY <3>2, GoToProceeds DEF Phases
      <4>2. condemned[u] \/ temporary'[u] = Append(r, request[q].bytes)
        BY <2>2, <2>4, <3>2
      <4> QED
        BY <1>1, <1>5, <4>1, <4>2 DEF Proceeds, RequestRelies
    <3> QED
      BY <2>1, <3>1, <3>2
  <2>8. Disk(u)' /\ Recovered(u)'
    <3>1. ~condemned[u] => HasPrefix(temporary'[u], r)
      <4> SUFFICES ASSUME ~condemned[u] PROVE HasPrefix(Append(r, b), r)
        BY <2>2, <2>4
      <4>1. /\ Append(r, b) \in Contents /\ Len(Append(r, b)) = Len(r) + 1
            /\ Prefix(Append(r, b), Len(r)) = r /\ Len(r) \in Nat
        BY <1>1, <1>2, AppendFacts, SizeFacts
      <4>2. Append(r, b) # None
        BY <4>1, SizeFacts
      <4> QED
        BY <4>1, <4>2 DEF HasPrefix
    <3>2. Disk(u)'
      BY <1>1, <1>2, <1>3, <1>5, <3>1 DEF Disk, Kept
    <3> QED
      BY <1>3, <1>5, <3>2 DEF Recovered
  <2> QED
    BY <1>1, <1>5, <2>5, <2>6, <2>7, <2>8, WorkJoined DEF Locking
<1> QED
  BY <1>6, <1>7

LEMMA ConfirmStep ==
  ASSUME TypeOK, Control, Reliable, NEW q \in Requests, Confirm(q)
  PROVE  Control' /\ Reliable'
<1> USE DEF fileVars, documentVars, historyVars, controlVars
<1>1. PICK u \in Uploads, b \in Bytes :
        /\ request[q].phase = "confirm" /\ request[q].upload = u /\ holder[u] = q
        /\ HasRow(u) /\ status[u] = "open" /\ Len(receipts[u]) < Parts
        /\ b = request[q].bytes
        /\ condemned[u] \/ temporary[u] = Append(receipts[u], b)
  BY DEF Confirm, Control, Reliable, RequestHolds, RequestRelies, Locking
<1> DEFINE r == receipts[u]
<1>2. r \in Contents /\ Disk(u)
  BY <1>1 DEF TypeOK, Reliable
<1>3. final[u] = None
  BY <1>1, <1>2, PartsAssumption, SizeFacts DEF Disk
<1>4. /\ receipts'[u] = Append(r, b)
      /\ \A v \in Uploads : v # u => receipts'[v] = receipts[v]
      /\ UNCHANGED <<status, fileVars, documentVars, historyVars, sweep, controlVars>>
  BY <1>1 DEF Confirm, TypeOK
<1>5. Ends(q) /\ Releases({q})
  BY FinishEnds, EndReleases DEF Confirm
<1>6. Leaves({q}, {u})
  <2>1. Marks(u) /\ Ages(u)
    <3>1. Marks(u)
      BY <1>4 DEF Marks
    <3> QED
      BY <1>4, <3>1 DEF Ages, OnDisk
  <2>2. \A v \in Uploads : v # u => Stays(v)
    BY <1>4 DEF Stays, FilesStay
  <2> QED
    BY <1>1, <1>4, <1>5, <2>1, <2>2, WorkLeaves DEF Ends, Releases
<1>7. RequestHolds(q)' /\ RequestRelies(q)'
  BY <1>5, IdlePhase, Unbound DEF Ends
<1>8. Disk(u)'
  <2>1. ~condemned[u] => HasPrefix(temporary[u], Append(r, b))
    <3> SUFFICES ASSUME ~condemned[u] PROVE HasPrefix(Append(r, b), Append(r, b))
      BY <1>1
    <3>1. Append(r, b) \in Contents
      BY <1>1, <1>2, AppendFacts
    <3> DEFINE s == Append(r, b)
    <3>2. s \in Contents
      BY <3>1
    <3> HIDE DEF s
    <3>3. Len(s) \in Nat /\ s # None
      BY <3>2, SizeFacts
    <3>4. Len(s) \in 0..Len(s)
      BY <3>3
    <3>5. Prefix(s, Len(s)) = s
      BY <3>2, <3>4, PrefixFacts
    <3> QED
      BY <3>3, <3>5 DEF HasPrefix, s
  <2> QED
    BY <1>1, <1>2, <1>3, <1>4, <2>1 DEF Disk, Kept
<1>9. Recovered(u)'
  BY <1>3, <1>4 DEF Recovered
<1> QED
  BY <1>1, <1>4, <1>5, <1>6, <1>7, <1>8, <1>9, WorkJoined DEF Locking

LEMMA RemoveFilesStep ==
  ASSUME TypeOK, Control, Reliable, NEW q \in Requests, RemoveFiles(q)
  PROVE  Control' /\ Reliable'
<1> USE DEF rowVars, documentVars, lockVars, controlVars
<1>1. PICK u \in Uploads :
        /\ request[q].phase \in {"expire", "cancel", "fail"} /\ request[q].upload = u
        /\ holder[u] = q /\ HasRow(u)
        /\ request[q].phase = "cancel" => status[u] # "completed"
        /\ request[q].phase = "fail" => status[u] = "open" \/ undone[u]
  BY DEF RemoveFiles, Control, RequestHolds, Locking
<1> DEFINE keepsFinal == request[q].phase = "expire" /\ status[u] = "completed"
           next == IF request[q].phase = "fail" THEN "failRow" ELSE "deleteRow"
<1>2. Disk(u)
  BY DEF Reliable
<1>3. Proceeds(q, next)
  BY <1>1, GoToProceeds DEF RemoveFiles, Phases
<1>4. /\ temporary'[u] = None /\ final'[u] = (IF keepsFinal THEN final[u] ELSE None)
      /\ condemned'[u]
      /\ \A v \in Uploads : v # u =>
           /\ temporary'[v] = temporary[v] /\ final'[v] = final[v]
           /\ condemned'[v] = condemned[v]
      /\ UNCHANGED <<status, receipts, document, young, undone, holder, documentLock, sweep,
                     booting, faults>>
  BY <1>1 DEF RemoveFiles, TypeOK
<1>5. Leaves({q}, {u})
  <2>1. Marks(u) /\ Ages(u)
    BY <1>4 DEF Marks, Ages
  <2>2. \A v \in Uploads : v # u => Stays(v)
    BY <1>4 DEF Stays, FilesStay
  <2> QED
    BY <1>1, <1>3, <1>4, <2>1, <2>2, WorkLeaves DEF Proceeds
<1>6. RequestHolds(q)'
  BY <1>1, <1>3, <1>4 DEF Proceeds, RequestHolds, Locking, Completing, HasRow
<1>7. final'[u] # None =>
        status[u] = "completed" /\ document[u] /\ request[q].phase = "expire"
  BY <1>2, <1>4 DEF Disk
<1>8. RequestRelies(q)'
  BY <1>1, <1>3, <1>4, <1>7 DEF Proceeds, RequestRelies
<1>9. Disk(u)'
  <2>1. document[u] => keepsFinal \/ undone[u]
    BY <1>1, <1>2 DEF Disk, HasRow
  <2> QED
    BY <1>1, <1>2, <1>4, <1>7, <2>1 DEF Disk, HasRow
<1>10. Recovered(u)'
  BY <1>4, <1>7 DEF Recovered
<1> QED
  BY <1>1, <1>4, <1>5, <1>6, <1>8, <1>9, <1>10, WorkJoined DEF Locking

LEMMA DeleteRowStep ==
  ASSUME TypeOK, Control, Reliable, NEW q \in Requests, DeleteRow(q)
  PROVE  Control' /\ Reliable'
<1> USE DEF fileVars, documentVars, historyVars, controlVars
<1>1. PICK u \in Uploads :
        /\ request[q].phase = "deleteRow" /\ request[q].upload = u /\ holder[u] = q
        /\ HasRow(u) /\ (final[u] = None \/ document[u])
  BY DEF DeleteRow, Control, Reliable, RequestHolds, RequestRelies, Locking
<1>2. Disk(u)
  BY DEF Reliable
<1>3. /\ status'[u] = "deleted" /\ receipts'[u] = <<>>
      /\ \A v \in Uploads : v # u => status'[v] = status[v] /\ receipts'[v] = receipts[v]
      /\ UNCHANGED <<fileVars, documentVars, historyVars, sweep, controlVars>>
  BY <1>1 DEF DeleteRow, TypeOK
<1>4. Ends(q) /\ Releases({q})
  BY FinishEnds, EndReleases DEF DeleteRow
<1>5. Leaves({q}, {u})
  <2>1. Marks(u) /\ Ages(u)
    BY <1>3 DEF Marks, Ages
  <2>2. \A v \in Uploads : v # u => Stays(v)
    BY <1>3 DEF Stays, FilesStay
  <2> QED
    BY <1>1, <1>3, <1>4, <2>1, <2>2, WorkLeaves DEF Ends, Releases
<1>6. RequestHolds(q)' /\ RequestRelies(q)'
  BY <1>4, IdlePhase, Unbound DEF Ends
<1>7. Disk(u)' /\ Recovered(u)'
  BY <1>1, <1>2, <1>3 DEF Disk, Recovered
<1> QED
  BY <1>1, <1>3, <1>4, <1>5, <1>6, <1>7, WorkJoined DEF Locking

LEMMA FailRowStep ==
  ASSUME TypeOK, Control, Reliable, NEW q \in Requests, FailRow(q)
  PROVE  Control' /\ Reliable'
<1> USE DEF fileVars, documentVars, historyVars, controlVars
<1>1. PICK u \in Uploads :
        /\ request[q].phase = "failRow" /\ request[q].upload = u /\ holder[u] = q
        /\ HasRow(u) /\ final[u] = None /\ (status[u] = "open" \/ undone[u])
  BY DEF FailRow, Control, Reliable, RequestHolds, RequestRelies, Locking
<1>2. Disk(u)
  BY DEF Reliable
<1>3. /\ status'[u] = "failed" /\ receipts'[u] = <<>>
      /\ \A v \in Uploads : v # u => status'[v] = status[v] /\ receipts'[v] = receipts[v]
      /\ UNCHANGED <<fileVars, documentVars, historyVars, sweep, controlVars>>
  BY <1>1 DEF FailRow, TypeOK
<1>4. Ends(q) /\ Releases({q})
  BY FinishEnds, EndReleases DEF FailRow
<1>5. Leaves({q}, {u})
  <2>1. Marks(u) /\ Ages(u)
    BY <1>3 DEF Marks, Ages
  <2>2. \A v \in Uploads : v # u => Stays(v)
    BY <1>3 DEF Stays, FilesStay
  <2> QED
    BY <1>1, <1>3, <1>4, <2>1, <2>2, WorkLeaves DEF Ends, Releases
<1>6. RequestHolds(q)' /\ RequestRelies(q)'
  BY <1>4, IdlePhase, Unbound DEF Ends
<1>7. Disk(u)' /\ Recovered(u)'
  <2>1. document[u] => undone[u]
    BY <1>1, <1>2 DEF Disk
  <2> QED
    BY <1>1, <1>2, <1>3, <2>1 DEF Disk, Recovered
<1> QED
  BY <1>1, <1>3, <1>4, <1>5, <1>6, <1>7, WorkJoined DEF Locking

LEMMA MoveToFinalStep ==
  ASSUME TypeOK, Control, Reliable, NEW q \in Requests, MoveToFinal(q)
  PROVE  Control' /\ Reliable'
<1> USE DEF rowVars, documentVars, lockVars, historyVars, controlVars
<1>1. PICK u \in Uploads :
        /\ request[q].phase = "move" /\ request[q].upload = u /\ holder[u] = q
        /\ HasRow(u) /\ status[u] = "open" /\ Len(receipts[u]) = Parts
        /\ temporary[u] = Declared
  BY DEF MoveToFinal, Control, Reliable, RequestHolds, RequestRelies, Locking, Completing
<1>2. Disk(u) /\ Declared # None
  BY DeclaredFacts, SizeFacts DEF Reliable
<1>3. final[u] = None /\ ~document[u]
  BY <1>1, <1>2 DEF Disk
<1>4. Proceeds(q, "publish")
  BY GoToProceeds DEF MoveToFinal, Phases
<1>5. /\ temporary'[u] = None /\ final'[u] = Declared
      /\ \A v \in Uploads : v # u => temporary'[v] = temporary[v] /\ final'[v] = final[v]
      /\ UNCHANGED <<status, receipts, document, young, condemned, undone, holder,
                     documentLock, sweep, booting, faults>>
  BY <1>1 DEF MoveToFinal, TypeOK
<1>6. Leaves({q}, {u})
  <2>1. Marks(u) /\ Ages(u)
    <3>1. Marks(u)
      BY <1>5 DEF Marks
    <3> QED
      BY <1>1, <1>2, <1>5, <3>1 DEF Ages, OnDisk
  <2>2. \A v \in Uploads : v # u => Stays(v)
    BY <1>5 DEF Stays, FilesStay
  <2> QED
    BY <1>1, <1>4, <1>5, <2>1, <2>2, WorkLeaves DEF Proceeds
<1>7. RequestHolds(q)'
  BY <1>1, <1>4, <1>5 DEF Proceeds, RequestHolds, Locking, Completing, HasRow
<1>8. RequestRelies(q)'
  BY <1>1, <1>4, <1>5 DEF Proceeds, RequestRelies
<1>9. Disk(u)'
  BY <1>1, <1>2, <1>3, <1>5 DEF Disk, Kept, HasPrefix
<1>10. Recovered(u)'
  <2>1. Published(u)'
    BY <1>1, <1>4 DEF Proceeds, Published
  <2>2. Attended(u)'
    BY <1>1, <1>4 DEF Proceeds, Attended, AttendedBy, Processes, Locking, Completing
  <2> QED
    BY <2>1, <2>2 DEF Recovered, Found
<1> QED
  BY <1>1, <1>5, <1>6, <1>7, <1>8, <1>9, <1>10, WorkJoined DEF Locking, Completing

(* The Document is inserted, and the answer comes ...                      *)
LEMMA PublishStep ==
  ASSUME TypeOK, Control, Reliable, NEW q \in Requests, Publish(q)
  PROVE  Control' /\ Reliable'
<1> USE DEF fileVars, historyVars, controlVars
<1>1. PICK u \in Uploads :
        /\ request[q].phase = "publish" /\ request[q].upload = u /\ holder[u] = q
        /\ HasRow(u) /\ status[u] = "open" /\ (final[u] = Declared \/ undone[u])
  BY DEF Publish, Control, Reliable, RequestHolds, RequestRelies, Locking, Completing
<1>2. Disk(u)
  BY DEF Reliable
<1>3. /\ status'[u] = "completed" /\ document'[u]
      /\ \A v \in Uploads : v # u => status'[v] = status[v] /\ document'[v] = document[v]
      /\ UNCHANGED <<receipts, fileVars, historyVars, sweep, controlVars>>
  BY <1>1 DEF Publish, CommitDocument, TypeOK
<1>4. Ends(q) /\ Releases({q})
  BY FinishEnds, EndReleases DEF Publish
<1>5. Leaves({q}, {u})
  <2>1. Marks(u) /\ Ages(u)
    BY <1>3 DEF Marks, Ages
  <2>2. \A v \in Uploads : v # u => Stays(v)
    BY <1>3 DEF Stays, FilesStay
  <2> QED
    BY <1>1, <1>3, <1>4, <2>1, <2>2, WorkLeaves DEF Ends, Releases
<1>6. RequestHolds(q)' /\ RequestRelies(q)'
  BY <1>4, IdlePhase, Unbound DEF Ends
<1>7. Disk(u)' /\ Recovered(u)'
  BY <1>1, <1>2, <1>3 DEF Disk, Recovered
<1> QED
  BY <1>1, <1>3, <1>4, <1>5, <1>6, <1>7, WorkJoined DEF Locking, Completing

(* ... or an error comes in its place, whether it is inserted or not.      *)
LEMMA UndoStep ==
  ASSUME TypeOK, Control, Reliable, NEW q \in Requests, NEW reason \in Errors,
         Undo(q, reason), UNCHANGED receipts,
         faults["sweep"] > 0 => faults'["sweep"] > 0,
         \/ UNCHANGED <<status, document>>
         \/ CommitDocument(request[q].upload)
  PROVE  Control' /\ Reliable'
<1> USE DEF fileVars
<1>1. PICK u \in Uploads :
        /\ request[q].phase = "publish" /\ request[q].upload = u /\ holder[u] = q
        /\ HasRow(u) /\ status[u] = "open"
  BY DEF Undo, Control, RequestHolds, Locking, Completing
<1>2. Disk(u)
  BY DEF Reliable
<1>3. /\ \/ status'[u] = status[u] /\ document'[u] = document[u]
         \/ status'[u] = "completed" /\ document'[u]
      /\ \A v \in Uploads : v # u => status'[v] = status[v] /\ document'[v] = document[v]
  BY <1>1 DEF CommitDocument, TypeOK
<1>4. /\ undone'[u] /\ \A v \in Uploads : v # u => undone'[v] = undone[v]
      /\ UNCHANGED <<fileVars, sweep, condemned, booting>>
  BY <1>1 DEF Undo, TypeOK
<1>5. Releases({q})
  BY EndReleases DEF Undo
<1>6. /\ OnlyRequest(q) /\ request'[q].phase = "moveBack" /\ request'[q].upload = u
  BY <1>1, UndoGoesOn
<1>7. Leaves({q}, {u})
  <2>1. Marks(u)
    BY <1>1, <1>3, <1>4 DEF Marks
  <2>2. Ages(u)
    BY <1>1, <1>3, <1>4 DEF Ages, OnDisk
  <2>3. \A v \in Uploads : v # u => Stays(v)
    BY <1>3, <1>4 DEF Stays, FilesStay
  <2> QED
    BY <1>1, <1>4, <1>5, <1>6, <2>1, <2>2, <2>3, WorkLeaves DEF Releases
<1>8. RequestHolds(q)'
  BY <1>1, <1>3, <1>4, <1>6 DEF RequestHolds, Locking, Completing
<1>9. RequestRelies(q)'
  BY <1>6 DEF RequestRelies
<1>10. Disk(u)'
  <2>1. Kept(u) => Kept(u)'
    BY <1>4 DEF Kept, HasPrefix
  <2> QED
    BY <1>1, <1>2, <1>3, <1>4, <2>1 DEF Disk
<1>11. Recovered(u)'
  <2>1. holder'[u] = None
    BY <1>1, <1>5 DEF Releases
  <2> QED
    BY <1>4, <2>1 DEF Recovered, Found
<1> QED
  BY <1>1, <1>4, <1>5, <1>7, <1>8, <1>9, <1>10, <1>11, WorkJoined DEF Locking, Completing

LEMMA UndosStep ==
  ASSUME TypeOK, Control, Reliable, NEW q \in Requests,
         PublishDuplicate(q) \/ PublishFails(q) \/ PublishUnanswered(q)
  PROVE  Control' /\ Reliable'
<1>1. CASE PublishDuplicate(q)
  BY <1>1, UndoStep DEF PublishDuplicate, Errors, rowVars, documentVars
<1>2. CASE PublishFails(q)
  <2>1. faults["sweep"] > 0 => faults'["sweep"] > 0
    BY <1>2, FaultCounts DEF PublishFails
  <2> QED
    BY <1>2, <2>1, UndoStep DEF PublishFails, Errors, rowVars, documentVars
<1>3. CASE PublishUnanswered(q)
  <2>1. faults["sweep"] > 0 => faults'["sweep"] > 0
    BY <1>3, FaultCounts DEF PublishUnanswered
  <2>2. UNCHANGED receipts
    BY <1>3 DEF PublishUnanswered, CommitDocument
  <2> QED
    BY <1>3, <2>1, <2>2, UndoStep DEF PublishUnanswered, Errors
<1> QED
  BY <1>1, <1>2, <1>3

LEMMA MoveBackStep ==
  ASSUME TypeOK, Control, Reliable, NEW q \in Requests, MoveBack(q)
  PROVE  Control' /\ Reliable'
<1> USE DEF rowVars, documentVars, lockVars, historyVars, controlVars
<1>1. PICK u \in Uploads :
        /\ request[q].phase = "moveBack" /\ request[q].upload = u
        /\ undone[u] /\ status[u] # "absent"
  BY DEF MoveBack, Control, RequestHolds
<1>2. Ends(q) \/ Proceeds(q, "relock")
  BY FinishEnds, GoToProceeds DEF MoveBack, Phases
<1>3. UNCHANGED <<status, receipts, document, young, condemned, undone, holder,
                  documentLock, sweep, booting, faults>>
  BY DEF MoveBack
<1>4. ASSUME NEW v \in Uploads
      PROVE  Marks(v) /\ Ages(v) /\ Outside(v)
  <2>1. CASE v = u /\ final[u] # None
    <3>1. MovedBack(v)
      BY <1>1, <1>3, <2>1 DEF MoveBack, MovedBack, TypeOK
    <3>2. Marks(v) /\ Ages(v)
      BY <1>3, <2>1 DEF Marks, Ages, OnDisk
    <3> QED
      BY <1>3, <3>1, <3>2 DEF Outside
  <2>2. CASE ~(v = u /\ final[u] # None)
    <3>1. Stays(v)
      BY <1>1, <1>3, <2>2 DEF MoveBack, Stays, FilesStay, TypeOK
    <3> QED
      BY <3>1, StaysOutside
  <2> QED
    BY <2>1, <2>2
<1>5. Leaves({q}, {})
  BY <1>2, <1>3, <1>4 DEF Leaves, Ends, Proceeds, OnlyRequest
<1>6. RequestHolds(q)' /\ RequestRelies(q)'
  <2>1. CASE Ends(q)
    BY <2>1, IdlePhase, Unbound DEF Ends
  <2>2. CASE Proceeds(q, "relock")
    BY <1>1, <1>3, <2>2 DEF Proceeds, RequestHolds, RequestRelies, Locking, Completing
  <2> QED
    BY <1>2, <2>1, <2>2
<1>7. request[q].phase # "sweep" /\ ~booting
  BY <1>1, NotBooting
<1>8. ASSUME NEW v \in Uploads, holder'[v] # None, holder[v] = None \/ AttendedBy(q, v)
      PROVE  Attended(v)'
  BY <1>1, <1>3, <1>8, NotSweeping DEF AttendedBy, Locking, Completing, Asleep
<1> QED
  BY <1>1, <1>3, <1>5, <1>6, <1>7, <1>8, RequestJoined

LEMMA InsertStep ==
  ASSUME TypeOK, Control, Reliable, NEW q \in Requests, Insert(q)
  PROVE  Control' /\ Reliable'
<1> USE DEF rowVars, fileVars, documentVars, historyVars, controlVars
<1>1. request[q].phase = "insert" /\ ~booting
  BY NotBooting DEF Insert
<1>2. Ends(q) /\ Releases({q})
  BY FinishEnds, EndReleases DEF Insert
<1>3. UNCHANGED <<receipts, fileVars, documentVars, historyVars, sweep, controlVars>>
  BY DEF Insert
<1>4. ASSUME NEW v \in Uploads
      PROVE  status'[v] = status[v] \/ (status[v] = "absent" /\ status'[v] = "open")
  BY DEF Insert, TypeOK
<1>5. ASSUME NEW v \in Uploads
      PROVE  Marks(v) /\ Ages(v) /\ Outside(v)
  <2>1. Marks(v)
    BY <1>3, <1>4 DEF Marks
  <2>2. FilesStay(v)
    BY <1>3 DEF FilesStay
  <2>3. Outside(v)
    BY <1>3, <1>4, <2>2 DEF Outside
  <2>4. status[v] = "absent" => temporary[v] = None /\ final[v] = None
    BY DEF Reliable, Disk
  <2>5. Ages(v)
    BY <1>3, <1>4, <2>4 DEF Ages, OnDisk
  <2> QED
    BY <2>1, <2>3, <2>5
<1>6. Leaves({q}, {})
  BY <1>2, <1>3, <1>5 DEF Leaves, Ends, OnlyRequest, Releases
<1>7. RequestHolds(q)' /\ RequestRelies(q)'
  BY <1>2, IdlePhase, Unbound DEF Ends
<1>8. ASSUME NEW v \in Uploads, holder'[v] # None, holder[v] = None \/ AttendedBy(q, v)
      PROVE  Attended(v)'
  BY <1>2, <1>8, ReleasedAttends DEF Processes
<1> QED
  BY <1>1, <1>3, <1>6, <1>7, <1>8, RequestJoined

-----------------------------------------------------------------------------
(* Steps of a sweep.                                                       *)

LEMMA SweepJoined ==
  ASSUME TypeOK, Control, Reliable, NEW p \in Processes, NEW W \in SUBSET Uploads,
         Leaves({p}, W), UNCHANGED <<request, booting>>,
         sweep[p] # Asleep, holder' = holder,
         \A v \in Uploads \ W : v \in sweep[p].todo => v \in sweep'[p].todo,
         SweepHolds(p)', SweepRelies(p)', SweepKnows(p)',
         \A w \in W : Disk(w)' /\ Recovered(w)'
  PROVE  Control' /\ Reliable'
<1>1. p \in Requests => request[p].phase = "sweep"
  BY DEF Control, SweepHolds
<1>2. ASSUME p \in Requests
      PROVE  RequestHolds(p)' /\ RequestRelies(p)'
  BY <1>1, <1>2, Unbound
<1>3. ASSUME NEW v \in Uploads, v \notin W PROVE Recovered(v)'
  <2>1. v \in sweep[p].todo => v \in sweep'[p].todo
    BY <1>3
  <2>2. AttendedBy(p, v) => Attended(v)'
    BY <2>1 DEF AttendedBy, Attended
  <2>3. v \in sweep[p].todo => Found(v)'
    BY <2>1 DEF Found, Swept
  <2>4. ~(p \in Requests /\ request[p].phase = "publish" /\ request[p].upload = v)
    BY <1>1
  <2>5. Starting => Found(v)'
    <3>1. ASSUME Starting PROVE Starting'
      BY <3>1 DEF Starting, Leaves
    <3> QED
      BY <3>1 DEF Found
  <2>6. /\ \A x \in Processes : x \in {p} => x = p
        /\ \A x \in Requests : x \in {p} => x = p
    OBVIOUS
  <2> QED
    BY <1>3, <2>2, <2>3, <2>4, <2>5, <2>6, RecoveredKept
<1>4. booting' => \A q \in Requests : request'[q] = Idle
  BY DEF Control
<1> QED
  BY <1>2, <1>3, <1>4, StepJoined

LEMMA KeysStep ==
  ASSUME TypeOK, Control, Reliable, NEW p \in Processes, ReadOpenKeys(p)
  PROVE  Control' /\ Reliable'
<1> USE DEF rowVars, fileVars, documentVars, lockVars, historyVars, controlVars
<1>1. /\ OnlySweep(p) /\ sweep[p].phase = "keys" /\ sweep'[p].phase = "rows"
      /\ sweep'[p].known = Open /\ sweep'[p].todo = sweep[p].todo
      /\ sweep'[p].delete = sweep[p].delete /\ sweep'[p].fail = sweep[p].fail
  BY KeysRead
<1>2. /\ UNCHANGED <<rowVars, fileVars, documentVars, lockVars, request, historyVars,
                     controlVars>>
      /\ sweep[p] # Asleep
  BY <1>1 DEF ReadOpenKeys, Asleep
<1>3. Leaves({p}, {})
  BY <1>1, <1>2, QuietLeaves DEF OnlySweep
<1>4. SweepHolds(p) /\ SweepRelies(p)
  BY DEF Control, Reliable
<1>5. SweepHolds(p)'
  BY <1>1, <1>2, <1>4 DEF SweepHolds, HasRow
<1>6. SweepRelies(p)'
  BY <1>1, <1>2, <1>4 DEF SweepRelies, Excused
<1>7. SweepKnows(p)'
  BY <1>1, <1>2 DEF SweepKnows, Open
<1> QED
  BY <1>1, <1>2, <1>3, <1>5, <1>6, <1>7, SweepJoined

(* The temporary file of an open session is either known to the sweep or   *)
(* new: only files of sessions that have ended are orphans.                *)
LEMMA OrphansStep ==
  ASSUME TypeOK, Control, Reliable, NEW p \in Processes, SweepOrphans(p)
  PROVE  Control' /\ Reliable'
<1> USE DEF rowVars, documentVars, lockVars, historyVars, controlVars
<1>1. /\ OnlySweep(p) /\ sweep[p].phase = "rows" /\ sweep[p].todo = {}
      /\ sweep'[p].phase = "commit" /\ sweep'[p].todo = {}
      /\ sweep'[p].delete = sweep[p].delete /\ sweep'[p].fail = sweep[p].fail
  BY OrphansSwept
<1>2. /\ UNCHANGED <<rowVars, final, young, documentVars, lockVars, request, historyVars,
                     controlVars>>
      /\ sweep[p] # Asleep
  BY <1>1 DEF SweepOrphans, Asleep
<1>3. ASSUME NEW v \in Uploads
      PROVE  Marks(v) /\ Ages(v) /\ Outside(v)
  <2>1. CASE /\ p \in Sweepers /\ temporary[v] # None
             /\ v \notin sweep[p].known /\ ~young[v]
    <3>1. temporary'[v] = None
      BY <2>1 DEF SweepOrphans
    <3>2. status[v] # "open"
      BY <1>1, <2>1 DEF Reliable, SweepKnows, OnDisk
    <3>3. Orphaned(v)
      BY <1>2, <3>1, <3>2 DEF Orphaned
    <3>4. Outside(v)
      BY <1>2, <3>3 DEF Outside
    <3> QED
      BY <1>2, <3>2, <3>4 DEF Marks, Ages
  <2>2. CASE ~(/\ p \in Sweepers /\ temporary[v] # None /\ v \notin sweep[p].known
               /\ ~young[v])
    <3>1. temporary'[v] = temporary[v]
      BY <2>2 DEF SweepOrphans
    <3>2. Stays(v)
      BY <1>2, <3>1 DEF Stays, FilesStay
    <3> QED
      BY <3>2, StaysOutside
  <2> QED
    BY <2>1, <2>2
<1>4. Leaves({p}, {})
  BY <1>1, <1>2, <1>3 DEF Leaves, OnlySweep
<1>5. SweepHolds(p) /\ SweepRelies(p)
  BY DEF Control, Reliable
<1>6. SweepHolds(p)'
  BY <1>1, <1>2, <1>5 DEF SweepHolds, HasRow
<1>7. SweepRelies(p)'
  BY <1>1, <1>2, <1>5 DEF SweepRelies, Excused
<1>8. SweepKnows(p)'
  BY <1>1 DEF SweepKnows
<1> QED
  BY <1>1, <1>2, <1>4, <1>6, <1>7, <1>8, SweepJoined

(* One row of a sweep.                                                     *)
LEMMA RowJoined ==
  ASSUME TypeOK, Control, Reliable, NEW p \in Processes, NEW u \in Uploads,
         sweep[p].phase = "rows", u \in sweep[p].todo, RowDone(p, u),
         UNCHANGED <<rowVars, documentVars, lockVars, request, undone, controlVars>>,
         \/ sweep'[p].delete = sweep[p].delete
         \/ /\ sweep'[p].delete = sweep[p].delete \union {u}
            /\ final'[u] = None \/ document[u],
         \/ sweep'[p].fail = sweep[p].fail
         \/ /\ sweep'[p].fail = sweep[p].fail \union {u}
            /\ status[u] = "open" /\ condemned[u],
         condemned[u] => condemned'[u],
         final'[u] = None \/ final'[u] = final[u],
         status[u] = "open" => final'[u] = None,
         Ages(u), Disk(u)'
  PROVE  Control' /\ Reliable'
<1> USE DEF rowVars, documentVars, lockVars, controlVars
<1>1. SweepHolds(p) /\ SweepRelies(p) /\ sweep[p] \in SweepStates
  BY DEF Control, Reliable, TypeOK
<1>2. holder[u] = p /\ HasRow(u)
  BY <1>1 DEF SweepHolds
<1>3. /\ OnlySweep(p) /\ sweep'[p].phase = "rows" /\ sweep'[p].todo = sweep[p].todo \ {u}
      /\ sweep'[p].known = sweep[p].known /\ sweep[p] # Asleep
      /\ \A v \in Uploads : v # u =>
           /\ temporary'[v] = temporary[v] /\ final'[v] = final[v]
           /\ young'[v] = young[v] /\ condemned'[v] = condemned[v]
  BY DEF RowDone, Asleep
<1>4. Leaves({p}, {u})
  <2>1. \A v \in Uploads : v # u => Stays(v)
    BY <1>3 DEF Stays, FilesStay
  <2>2. Marks(u)
    BY DEF Marks
  <2> QED
    BY <1>2, <1>3, <2>1, <2>2, StaysOutside DEF Leaves, OnlySweep
<1>5. SweepHolds(p)'
  <2>1. ASSUME NEW v \in sweep'[p].todo \union sweep'[p].delete \union sweep'[p].fail
        PROVE  holder[v] = p /\ HasRow(v)
    BY <1>1, <1>2, <1>3, <2>1 DEF SweepHolds
  <2>2. \A v \in sweep'[p].fail : status[v] = "open"
    BY <1>1 DEF SweepHolds
  <2>3. p \in Requests => request[p].phase = "sweep"
    BY <1>1, <1>3 DEF SweepHolds
  <2> QED
    BY <1>3, <2>1, <2>2, <2>3 DEF SweepHolds, HasRow
<1>6. SweepRelies(p)'
  <2>1. ASSUME NEW v \in sweep'[p].delete PROVE final'[v] = None \/ document[v]
    <3>1. CASE v = u
      BY <1>1, <2>1, <3>1 DEF SweepRelies
    <3>2. CASE v # u
      BY <1>1, <1>3, <2>1, <3>2 DEF SweepRelies, SweepStates
    <3> QED
      BY <3>1, <3>2
  <2>2. ASSUME NEW v \in sweep'[p].fail PROVE final'[v] = None /\ Excused(v)'
    <3>1. CASE v = u
      <4>1. Excused(u)
        BY <1>1, <2>2, <3>1 DEF SweepRelies, Excused
      <4>2. status[u] = "open"
        BY <1>1, <2>2, <3>1 DEF SweepHolds
      <4> QED
        BY <3>1, <4>1, <4>2 DEF Excused
    <3>2. CASE v # u
      BY <1>1, <1>3, <2>2, <3>2 DEF SweepRelies, SweepStates, Excused
    <3> QED
      BY <3>1, <3>2
  <2> QED
    BY <2>1, <2>2 DEF SweepRelies
<1>7. SweepKnows(p)'
  BY <1>3, <1>4, KnowsKept
<1>8. Recovered(u)'
  BY DEF Recovered
<1> QED
  BY <1>3, <1>4, <1>5, <1>6, <1>7, <1>8, SweepJoined

LEMMA SweepRowStep ==
  ASSUME TypeOK, Control, Reliable, NEW p \in Processes, SweepRow(p)
  PROVE  Control' /\ Reliable'
<1>1. PICK u \in sweep[p].todo : SweepExpired(p, u) \/ SweepEnded(p, u) \/ SweepOpen(p, u)
  BY DEF SweepRow
<1>2. u \in Uploads /\ HasRow(u) /\ Disk(u) /\ receipts[u] \in Contents
  BY DEF TypeOK, SweepStates, Control, SweepHolds, Reliable
<1>3. /\ sweep[p].phase = "rows"
      /\ UNCHANGED <<rowVars, documentVars, lockVars, request, undone, controlVars>>
  BY DEF SweepRow
<1>4. UNCHANGED <<status, receipts, document, undone>>
  BY <1>3 DEF rowVars, documentVars
<1>5. CASE SweepExpired(p, u)
  <2>1. /\ RowDone(p, u) /\ sweep'[p].delete = sweep[p].delete \union {u}
        /\ sweep'[p].fail = sweep[p].fail
        /\ temporary'[u] = None /\ condemned'[u]
        /\ final'[u] = IF status[u] = "completed" THEN final[u] ELSE None
    BY <1>2, <1>5, ExpiredSwept
  <2>2. final'[u] = None \/ document[u]
    BY <1>2, <2>1 DEF Disk
  <2>3. Disk(u)'
    BY <1>2, <1>4, <2>1 DEF Disk, HasRow
  <2>4. Ages(u)
    BY <1>4, <2>1 DEF Ages
  <2>5. final'[u] = None \/ final'[u] = final[u]
    BY <2>1
  <2>6. status[u] = "open" => final'[u] = None
    BY <2>1
  <2> QED
    BY <1>1, <1>2, <1>3, <2>1, <2>2, <2>3, <2>4, <2>5, <2>6, RowJoined
<1>6. CASE SweepEnded(p, u)
  <2>1. /\ RowDone(p, u) /\ sweep'[p].delete = sweep[p].delete
        /\ sweep'[p].fail = sweep[p].fail
        /\ temporary'[u] = None /\ condemned'[u] = condemned[u]
        /\ final'[u] = IF status[u] = "failed" THEN None ELSE final[u]
        /\ status[u] # "open"
    BY <1>2, <1>6, EndedSwept
  <2>2. Disk(u)'
    BY <1>2, <1>4, <2>1 DEF Disk, HasRow
  <2>3. Ages(u)
    BY <1>4, <2>1 DEF Ages
  <2>4. final'[u] = None \/ final'[u] = final[u]
    BY <2>1
  <2> QED
    BY <1>1, <1>2, <1>3, <2>1, <2>2, <2>3, <2>4, RowJoined
<1>7. CASE SweepOpen(p, u)
  <2> DEFINE found == FoundFile(u)
  <2>1. /\ RowDone(p, u) /\ sweep'[p].delete = sweep[p].delete
        /\ sweep'[p].fail = IF TooShort(u) THEN sweep[p].fail \union {u} ELSE sweep[p].fail
        /\ condemned'[u] = condemned[u] /\ status[u] = "open" /\ final'[u] = None
        /\ temporary'[u] = IF TooShort(u) \/ found = None THEN None
                           ELSE Prefix(found, Len(receipts[u]))
        /\ young[u] => young'[u]
    BY <1>2, <1>7, OpenSwept
  <2>2. ~condemned[u] /\ receipts[u] # <<>> => HasPrefix(found, receipts[u])
    BY <1>2, <2>1 DEF Disk, Kept, FoundFile, HasPrefix
  <2>3. found \in Contents \union {None}
    BY <1>2 DEF FoundFile, TypeOK
  <2>4. TooShort(u) => condemned[u]
    <3> SUFFICES ASSUME ~condemned[u] PROVE ~TooShort(u)
      OBVIOUS
    <3>1. CASE receipts[u] = <<>>
      BY <2>3, <3>1, EmptyFacts, SizeFacts DEF TooShort
    <3>2. CASE receipts[u] # <<>>
      BY <1>2, <2>2, <2>3, <3>2, SizeFacts DEF TooShort, HasPrefix
    <3> QED
      BY <3>1, <3>2
  <2>5. ~condemned[u] => (receipts[u] # <<>> => HasPrefix(temporary'[u], receipts[u]))
    <3> SUFFICES ASSUME ~condemned[u], receipts[u] # <<>>
                 PROVE  HasPrefix(temporary'[u], receipts[u])
      OBVIOUS
    <3>1. HasPrefix(found, receipts[u])
      BY <2>2
    <3>2. temporary'[u] = receipts[u]
      BY <2>1, <2>4, <3>1 DEF HasPrefix
    <3>3. Len(receipts[u]) \in 0..Len(receipts[u]) /\ receipts[u] # None
      BY <1>2, SizeFacts
    <3>4. Prefix(receipts[u], Len(receipts[u])) = receipts[u]
      BY <1>2, <3>3, PrefixFacts
    <3> QED
      BY <3>2, <3>3, <3>4 DEF HasPrefix
  <2>6. Disk(u)'
    BY <1>2, <1>4, <2>1, <2>5 DEF Disk, Kept
  <2>7. Ages(u)
    BY <1>4, <2>1 DEF Ages, OnDisk, FoundFile
  <2>8. \/ sweep'[p].fail = sweep[p].fail
        \/ /\ sweep'[p].fail = sweep[p].fail \union {u}
           /\ status[u] = "open" /\ condemned[u]
    BY <2>1, <2>4
  <2>9. condemned[u] => condemned'[u]
    BY <2>1
  <2> QED
    BY <1>1, <1>2, <1>3, <2>1, <2>6, <2>7, <2>8, <2>9, RowJoined
<1> QED
  BY <1>1, <1>5, <1>6, <1>7

(* A sweep begins: what waits for one at a start is found by it, for it    *)
(* locks every row that nobody holds.                                      *)
LEMMA LockRowsStep ==
  ASSUME TypeOK, Control, Reliable, NEW p \in Processes, LockRows(p),
         UNCHANGED <<rowVars, fileVars, documentVars>>,
         UNCHANGED <<documentLock, historyVars, controlVars>>,
         \/ p \in Requests /\ ~booting /\ request[p] = Idle /\ Enters(p, "sweep", None)
         \/ p \notin Requests /\ UNCHANGED request
  PROVE  Control' /\ Reliable'
<1> USE DEF rowVars, fileVars, documentVars, historyVars, controlVars
<1>1. /\ holder' \in [Uploads -> Processes \union {None}]
      /\ \A u \in Uploads :
           holder'[u] = IF HasRow(u) /\ holder[u] = None THEN p ELSE holder[u]
      /\ sweep[p] = Asleep /\ OnlySweep(p)
      /\ sweep'[p].phase = "keys" /\ sweep'[p].delete = {} /\ sweep'[p].fail = {}
      /\ sweep'[p].todo = {u \in Uploads : HasRow(u) /\ holder[u] = None}
  BY LockRowsLocks
<1>2. Leaves({p}, {})
  <2>1. \A q \in Requests \ {p} : request'[q] = request[q]
    BY DEF Enters, OnlyRequest
  <2>2. \A r \in Processes \ {p} : sweep'[r] = sweep[r]
    BY <1>1 DEF OnlySweep
  <2>3. \A v \in Uploads : holder[v] \notin {p} \union {None} => holder'[v] = holder[v]
    BY <1>1
  <2> QED
    BY <2>1, <2>2, <2>3, QuietLeaves
<1>3. p \in Requests => request'[p].phase = "sweep"
  BY DEF Enters
<1>4. p \in Requests => RequestHolds(p)' /\ RequestRelies(p)'
  BY <1>3, Unbound
<1>5. SweepHolds(p)'
  <2>1. \A v \in sweep'[p].todo \union sweep'[p].delete \union sweep'[p].fail :
          holder'[v] = p /\ HasRow(v)
    BY <1>1
  <2> QED
    BY <1>1, <1>3, <2>1 DEF SweepHolds, HasRow
<1>6. SweepRelies(p)' /\ SweepKnows(p)'
  BY <1>1 DEF SweepRelies, SweepKnows
<1>7. ASSUME NEW v \in Uploads PROVE Recovered(v)'
  <2>1. ~AttendedBy(p, v)
    <3>1. request[p].phase \notin Locking \/ p \notin Requests
      BY IdlePhase DEF Locking, Completing
    <3> QED
      BY <1>1, <3>1 DEF AttendedBy, Asleep
  <2>2. holder'[v] # None /\ holder[v] = None => Attended(v)'
    BY <1>1 DEF Attended, AttendedBy
  <2>3. v \notin sweep[p].todo
    BY <1>1 DEF Asleep
  <2>4. ~(p \in Requests /\ request[p].phase = "publish" /\ request[p].upload = v)
    BY IdlePhase
  <2>5. ASSUME Starting, status[v] = "open", holder[v] # None => Attended(v)
        PROVE  Found(v)'
    <3>1. p \notin Requests /\ \A q \in Requests : request[q] = Idle
      BY <2>5 DEF Starting, Control
    <3>2. CASE p # "startup"
      <4>1. Starting'
        BY <1>1, <2>5, <3>2 DEF Starting, OnlySweep
      <4> QED
        BY <4>1 DEF Found
    <3>3. CASE holder[v] = None
      <4>1. v \in sweep'[p].todo
        BY <1>1, <2>5, <3>3 DEF HasRow
      <4> QED
        BY <4>1 DEF Found, Swept
    <3>4. CASE holder[v] # None
      <4>1. PICK x \in Processes : AttendedBy(x, v)
        BY <2>5, <3>4 DEF Attended
      <4>2. v \in sweep[x].todo
        BY <3>1, <4>1, IdlePhase DEF AttendedBy, Locking, Completing
      <4>3. x # p
        BY <2>3, <4>2
      <4>4. v \in sweep'[x].todo
        BY <1>1, <4>2, <4>3 DEF OnlySweep
      <4> QED
        BY <4>4 DEF Found, Swept
    <3> QED
      BY <3>2, <3>3, <3>4
  <2>6. /\ \A x \in Processes : x \in {p} => x = p
        /\ \A x \in Requests : x \in {p} => x = p
    OBVIOUS
  <2> QED
    BY <1>2, <2>1, <2>2, <2>3, <2>4, <2>5, <2>6, RecoveredKept
<1>8. booting' => \A q \in Requests : request'[q] = Idle
  BY DEF Control
<1> QED
  BY <1>2, <1>4, <1>5, <1>6, <1>7, <1>8, StepJoined

LEMMA SweepBeginsStep ==
  ASSUME TypeOK, Control, Reliable,
         \/ \E p \in Sweepers : StartSweep(p)
         \/ \E q \in Requests, f \in Files : StartCreate(q, f)
  PROVE  Control' /\ Reliable'
<1>1. ASSUME NEW p \in Sweepers, StartSweep(p) PROVE Control' /\ Reliable'
  <2>1. p \in Processes /\ p \notin Requests
    BY SweepersAssumption, ProcessAssumption DEF Processes
  <2> QED
    BY <1>1, <2>1, LockRowsStep DEF StartSweep
<1>2. ASSUME NEW q \in Requests, NEW f \in Files, StartCreate(q, f)
      PROVE  Control' /\ Reliable'
  BY <1>2, CreateEnters, LockRowsStep DEF StartCreate, Ready, Processes
<1> QED
  BY <1>1, <1>2

LEMMA CommitSweepStep ==
  ASSUME TypeOK, Control, Reliable, NEW p \in Processes, CommitSweep(p)
  PROVE  Control' /\ Reliable'
<1> DEFINE W == sweep[p].delete \union sweep[p].fail
<1> USE DEF fileVars, documentVars, historyVars
<1>1. /\ sweep[p].phase = "commit" /\ sweep[p].todo = {} /\ sweep[p] # Asleep
      /\ W \in SUBSET Uploads
      /\ p \in Requests => request[p].phase = "sweep"
      /\ \A u \in W : holder[u] = p /\ HasRow(u)
      /\ \A u \in sweep[p].delete : final[u] = None \/ document[u]
      /\ \A u \in sweep[p].fail : status[u] = "open" /\ final[u] = None
  BY
  DEF CommitSweep, Control, Reliable, SweepHolds, SweepRelies, TypeOK, SweepStates, Asleep
<1>2. /\ OnlySweep(p) /\ sweep'[p] = Asleep
      /\ p \in Requests => OnlyRequest(p) /\ request'[p].phase = "look"
      /\ p \notin Requests => UNCHANGED request
  BY SweepOver
<1>3. Releases({p})
  BY EndReleases DEF CommitSweep
<1>4. /\ UNCHANGED <<fileVars, documentVars, historyVars, faults>>
      /\ booting' = (booting /\ p # "startup")
      /\ \A u \in W : status'[u] \in {"deleted", "failed"} /\ receipts'[u] = <<>>
      /\ \A u \in W : status'[u] = "failed" => u \in sweep[p].fail
      /\ \A u \in Uploads \ W : status'[u] = status[u] /\ receipts'[u] = receipts[u]
  BY <1>1 DEF CommitSweep
<1>5. Leaves({p}, W)
  <2>1. ASSUME NEW v \in Uploads PROVE Marks(v) /\ Ages(v) /\ (v \notin W => Outside(v))
    <3>1. CASE v \in W
      BY <1>4, <3>1 DEF Marks, Ages
    <3>2. CASE v \notin W
      <4>1. Stays(v)
        BY <1>4, <3>2 DEF Stays, FilesStay
      <4> QED
        BY <4>1, StaysOutside
    <3> QED
      BY <3>1, <3>2
  <2>2. \A q \in Requests \ {p} : request'[q] = request[q]
    BY <1>2 DEF OnlyRequest
  <2> QED
    BY <1>1, <1>2, <1>3, <1>4, <2>1, <2>2 DEF Leaves, OnlySweep, Releases
<1>6. SweepHolds(p)' /\ SweepRelies(p)' /\ SweepKnows(p)'
  BY <1>2, AsleepIsFine
<1>7. p \in Requests => RequestHolds(p)' /\ RequestRelies(p)'
  BY <1>2, Unbound
<1>8. ASSUME NEW w \in W PROVE Disk(w)' /\ Recovered(w)'
  <2>1. Disk(w)
    BY <1>1 DEF Reliable
  <2>2. document[w] => status'[w] = "deleted"
    BY <1>1, <1>4, <2>1 DEF Disk
  <2>3. final[w] # None => document[w]
    BY <1>1
  <2> QED
    BY <1>4, <2>1, <2>2, <2>3 DEF Disk, Recovered
<1>9. ASSUME NEW v \in Uploads, v \notin W PROVE Recovered(v)'
  <2>1. holder'[v] # None => ~(holder[v] = None \/ AttendedBy(p, v))
    BY <1>3, ReleasedAttends
  <2>2. v \notin sweep[p].todo
    BY <1>1
  <2>3. ~(p \in Requests /\ request[p].phase = "publish" /\ request[p].upload = v)
    BY <1>1
  <2>4. Starting => Found(v)'
    <3>1. ASSUME Starting PROVE Starting'
      <4>1. booting /\ p # "startup"
        BY <1>1, <3>1 DEF Starting
      <4>2. booting'
        BY <1>4, <4>1
      <4>3. \A r \in Processes : r = "startup" => sweep'[r] = Asleep
        BY <1>2, <3>1 DEF Starting, OnlySweep
      <4> QED
        BY <4>2, <4>3 DEF Starting
    <3> QED
      BY <3>1 DEF Found
  <2>5. /\ \A x \in Processes : x \in {p} => x = p
        /\ \A x \in Requests : x \in {p} => x = p
    OBVIOUS
  <2> HIDE DEF W
  <2> QED
    BY <1>1, <1>5, <1>9, <2>1, <2>2, <2>3, <2>4, <2>5, RecoveredKept
<1>10. booting' => \A q \in Requests : request'[q] = Idle
  BY <1>1, <1>2, <1>4, IdlePhase DEF Control
<1> HIDE DEF W
<1> QED
  BY <1>1, <1>5, <1>6, <1>7, <1>8, <1>9, <1>10, StepJoined

LEMMA SweepFailsStep ==
  ASSUME TypeOK, Control, Reliable, NEW p \in Processes, SweepFails(p)
  PROVE  Control' /\ Reliable'
<1> USE DEF rowVars, fileVars, documentVars, historyVars
<1>1. /\ OnlySweep(p) /\ sweep'[p] = Asleep
      /\ p \in Requests => OnlyRequest(p) /\ request'[p] = Idle
      /\ p \notin Requests => UNCHANGED request
  BY SweepOver
<1>2. Releases({p})
  BY EndReleases DEF SweepFails
<1>3. faults'["sweep"] > 0
  BY FaultCounts DEF SweepFails
<1>4. Leaves({p}, {})
  <2>1. \A q \in Requests \ {p} : request'[q] = request[q]
    BY <1>1 DEF OnlyRequest
  <2> QED
    BY <1>1, <1>2, <1>3, <2>1, QuietLeaves DEF SweepFails, OnlySweep, Releases
<1>5. SweepHolds(p)' /\ SweepRelies(p)' /\ SweepKnows(p)'
  BY <1>1, AsleepIsFine
<1>6. p \in Requests => RequestHolds(p)' /\ RequestRelies(p)'
  BY <1>1, IdlePhase, Unbound
<1>7. ASSUME NEW v \in Uploads PROVE Recovered(v)'
  <2>1. holder'[v] # None => ~(holder[v] = None \/ AttendedBy(p, v))
    BY <1>2, ReleasedAttends
  <2>2. Found(v)'
    BY <1>3 DEF Found
  <2>3. /\ \A x \in Processes : x \in {p} => x = p
        /\ \A x \in Requests : x \in {p} => x = p
    OBVIOUS
  <2> QED
    BY <1>4, <2>1, <2>2, <2>3, RecoveredKept
<1>8. booting' => \A q \in Requests : request'[q] = Idle
  BY <1>1 DEF Control, SweepFails, OnlyRequest
<1> QED
  BY <1>4, <1>5, <1>6, <1>7, <1>8, StepJoined

(* All requests die, and the startup sweep: the hourly one goes on.        *)
LEMMA CrashStep ==
  ASSUME TypeOK, Control, Reliable, Crash
  PROVE  Control' /\ Reliable'
<1> DEFINE A == Requests \union {"startup"}
<1> USE DEF rowVars, fileVars, documentVars, historyVars
<1>1. /\ \A q \in Requests : request'[q] = Idle
      /\ \A p \in Processes : sweep'[p] = IF p = "hourly" THEN sweep[p] ELSE Asleep
      /\ booting'
  BY CrashEffect DEF Crash
<1>2. Releases(A)
  BY EndReleases DEF Crash
<1>3. \A p \in Processes : p \notin A <=> p = "hourly"
  BY SweepersAssumption, ProcessAssumption DEF Processes
<1>4. Leaves(A, {})
  <2>1. faults["sweep"] > 0 => faults'["sweep"] > 0
    BY FaultCounts DEF Crash
  <2>2. \A p \in Processes \ A : sweep'[p] = sweep[p]
    BY <1>1, <1>3
  <2>3. \A q \in Requests \ A : request'[q] = request[q]
    OBVIOUS
  <2>4. /\ \A v \in Uploads : holder[v] \notin A \union {None} => holder'[v] = holder[v]
        /\ documentLock \notin A \union {None} => documentLock' = documentLock
    BY <1>2 DEF Releases
  <2> HIDE DEF A
  <2> QED
    BY <2>1, <2>2, <2>3, <2>4, QuietLeaves DEF Crash
<1>5. ASSUME NEW p \in Processes, p \in A
      PROVE  SweepHolds(p)' /\ SweepRelies(p)' /\ SweepKnows(p)'
  BY <1>1, <1>3, <1>5, AsleepIsFine
<1>6. \A q \in Requests : RequestHolds(q)' /\ RequestRelies(q)'
  BY <1>1, IdlePhase, Unbound
<1>7. Starting'
  <2>1. \A p \in Processes : p = "startup" => sweep'[p] = Asleep
    BY <1>1
  <2> QED
    BY <1>1, <2>1 DEF Starting
<1> HIDE DEF A
<1>8. ASSUME NEW v \in Uploads PROVE Recovered(v)'
  <2>1. ASSUME NEW x \in Processes, x \in A, holder'[v] # None
        PROVE  ~(holder[v] = None \/ AttendedBy(x, v))
    BY <1>2, <2>1, ReleasedAttends
  <2>2. holder'[v] # None => holder[v] # None
    BY <1>2 DEF Releases
  <2>3. Found(v)'
    BY <1>7 DEF Found
  <2> QED
    BY <1>4, <2>1, <2>2, <2>3, RecoveredKept
<1> QED
  BY <1>1, <1>4, <1>5, <1>6, <1>8, StepJoined

-----------------------------------------------------------------------------
(* The rest of the world.                                                  *)

LEMMA WorldStep ==
  ASSUME TypeOK, Control, Reliable,
         \/ \E u \in Uploads : PurgeDocument(u) \/ Expire(u) \/ GrowOld(u)
         \/ \E f \in Files : SeedDocument(f) \/ PurgeSeeded(f)
         \/ UNCHANGED vars
  PROVE  Control' /\ Reliable'
<1> USE DEF rowVars, fileVars, documentVars, lockVars, historyVars, controlVars
<1>1. /\ UNCHANGED <<status, receipts, temporary, holder, documentLock, request, sweep,
                     historyVars, booting>>
      /\ faults["sweep"] > 0 => faults'["sweep"] > 0
  BY FaultCounts DEF PurgeDocument, Expire, GrowOld, SeedDocument, PurgeSeeded, vars
<1>2. ASSUME NEW v \in Uploads
      PROVE  Marks(v) /\ Ages(v) /\ Outside(v)
  <2>1. CASE UNCHANGED <<final, young, document>>
    BY <1>1, <2>1, StaysOutside DEF Stays, FilesStay
  <2>2. ASSUME NEW u \in Uploads, PurgeDocument(u)
        PROVE  Marks(v) /\ Ages(v) /\ Outside(v)
    <3>1. CASE v = u
      <4>1. Purged(v)
        BY <1>1, <2>2, <3>1 DEF PurgeDocument, Purged, TypeOK
      <4>2. Marks(v) /\ Ages(v)
        BY <1>1, <2>2, <4>1 DEF PurgeDocument, Purged, Marks, Ages, OnDisk
      <4> QED
        BY <1>1, <4>1, <4>2 DEF Outside
    <3>2. CASE v # u
      <4>1. Stays(v)
        BY <1>1, <2>2, <3>2 DEF PurgeDocument, Stays, FilesStay
      <4> QED
        BY <4>1, StaysOutside
    <3> QED
      BY <3>1, <3>2
  <2>3. ASSUME NEW u \in Uploads, GrowOld(u)
        PROVE  Marks(v) /\ Ages(v) /\ Outside(v)
    <3>1. CASE v = u
      <4>1. FilesStay(v)
        BY <1>1, <2>3 DEF GrowOld, FilesStay
      <4>2. Outside(v) /\ Marks(v)
        BY <1>1, <4>1 DEF Outside, Marks
      <4>3. Ages(v)
        BY <1>1, <2>3, <3>1, <4>1 DEF GrowOld, Ages, OnDisk, FilesStay
      <4> QED
        BY <4>2, <4>3
    <3>2. CASE v # u
      <4>1. Stays(v)
        BY <1>1, <2>3, <3>2 DEF GrowOld, Stays, FilesStay
      <4> QED
        BY <4>1, StaysOutside
    <3> QED
      BY <3>1, <3>2
  <2> QED
    BY <2>1, <2>2, <2>3 DEF Expire, SeedDocument, PurgeSeeded, vars
<1>3. Leaves({}, {})
  BY <1>1, <1>2 DEF Leaves
<1>4. ASSUME NEW v \in Uploads PROVE Recovered(v)'
  <2>1. Starting => Found(v)'
    BY <1>1 DEF Starting, Found
  <2>2. holder'[v] = holder[v]
    BY <1>1
  <2>3. holder'[v] # None /\ holder[v] = None => Attended(v)'
    BY <2>2
  <2> QED
    BY <1>3, <2>1, <2>3, RecoveredKept
<1>5. booting' => \A q \in Requests : request'[q] = Idle
  BY <1>1 DEF Control
<1> QED
  BY <1>3, <1>4, <1>5, StepJoined

LEMMA FilesStep ==
  ASSUME TypeOK, Control, Reliable, [Next]_vars
  PROVE  Control' /\ Reliable'
<1>1. ASSUME NEW q \in Requests, Begin(q) PROVE Control' /\ Reliable'
  BY <1>1, StartsStep, SweepBeginsStep DEF Begin
<1>2. ASSUME NEW q \in Requests, Continue(q) PROVE Control' /\ Reliable'
  BY <1>2, AppendPartStep, ConfirmStep, RemoveFilesStep, DeleteRowStep, FailRowStep,
     VerifyStep, AdmitStep, MoveToFinalStep, PublishStep, UndosStep, MoveBackStep,
     RelockStep, LooksStep, InsertStep DEF Continue
<1>3. ASSUME NEW q \in Requests,
             PublishFails(q) \/ PublishUnanswered(q) \/ CommitFails(q)
      PROVE  Control' /\ Reliable'
  BY <1>3, UndosStep, CommitFailsStep
<1>4. ASSUME NEW p \in Processes, Sweep(p) \/ SweepFails(p) PROVE Control' /\ Reliable'
  BY <1>4, KeysStep, SweepRowStep, OrphansStep, CommitSweepStep, SweepFailsStep DEF Sweep
<1> QED
  BY <1>1, <1>2, <1>3, <1>4, SweepBeginsStep, CrashStep, WorldStep DEF Next

-----------------------------------------------------------------------------
(* Room for a Document.                                                    *)

Admitted(q) == request[q].phase \in {"move", "publish"}

(* A request that is not admitted by this step, or not any more.           *)
Quits(q) ==
  /\ OnlyRequest(q) /\ request'[q].phase \notin {"move", "publish"}
  /\ \/ documentLock' = documentLock
     \/ documentLock' = IF documentLock \in {q} THEN None ELSE documentLock

LEMMA LiveFacts ==
  /\ IsFiniteSet(Live) /\ Cardinality(Live) \in Nat
  /\ IsFiniteSet(Live') /\ Cardinality(Live') \in Nat
  /\ Live' \subseteq Live => Cardinality(Live') <= Cardinality(Live)
<1>1. IsFiniteSet(Live) /\ IsFiniteSet(Live')
  BY FiniteAssumption, FS_Subset DEF Live
<1> QED
  BY <1>1, FS_CardinalityType, FS_Subset

LEMMA SameLive ==
  ASSUME UNCHANGED document
  PROVE  Live' \subseteq Live
BY DEF Live

LEMMA QuitsKeep ==
  ASSUME Room, NEW q \in Requests, Quits(q), Live' \subseteq Live, UNCHANGED seeded
  PROVE  Room'
<1>1. ASSUME NEW r \in Requests, Admitted(r)'
      PROVE  r # q /\ Admitted(r) /\ documentLock = r
  BY <1>1 DEF Quits, OnlyRequest, Admitted, Room
<1>2. \A r \in Requests : Admitted(r)' => documentLock' = r
  BY <1>1 DEF Quits
<1>3. \A r \in Requests : Admitted(r)' => Cardinality(Live) < MaxDocuments
  BY <1>1 DEF Room, Admitted
<1>4. Cardinality(Live') <= Cardinality(Live) /\ MaxDocuments \in Nat
  BY LiveFacts, LimitAssumption
<1>5. Cardinality(Live) <= MaxDocuments /\ IsFiniteSet(seeded)
  BY DEF Room
<1>6. Cardinality(Live') <= MaxDocuments
  BY <1>4, <1>5, LiveFacts
<1>7. \A r \in Requests : Admitted(r)' => Cardinality(Live') < MaxDocuments
  BY <1>3, <1>4, LiveFacts
<1> QED
  BY <1>2, <1>5, <1>6, <1>7 DEF Room, Admitted

(* Nobody else is admitted while a Document is inserted.                   *)
LEMMA PublishKeeps ==
  ASSUME TypeOK, Control, Room, NEW q \in Requests, Quits(q),
         request[q].phase = "publish", CommitDocument(request[q].upload)
  PROVE  Room'
<1> DEFINE u == request[q].upload
<1>1. u \in Uploads /\ documentLock = q /\ Cardinality(Live) < MaxDocuments
  BY DEF Control, RequestHolds, Locking, Completing, Room
<1>2. ~ \E r \in Requests : Admitted(r)'
  BY <1>1 DEF Quits, OnlyRequest, Admitted, Room
<1>3. Live' \subseteq Live \union {u}
  BY <1>1 DEF CommitDocument, TypeOK, Live
<1>4. /\ IsFiniteSet(Live \union {u})
      /\ Cardinality(Live \union {u}) <= Cardinality(Live) + 1
      /\ Cardinality(Live \union {u}) \in Nat
  <2>1. /\ IsFiniteSet(Live \union {u})
        /\ Cardinality(Live \union {u}) = IF u \in Live THEN Cardinality(Live)
                                          ELSE Cardinality(Live) + 1
    BY LiveFacts, FS_AddElement
  <2> QED
    BY <2>1, LiveFacts
<1>5. Cardinality(Live') <= Cardinality(Live \union {u})
  BY <1>3, <1>4, FS_Subset
<1>6. Cardinality(Live') <= MaxDocuments
  BY <1>1, <1>4, <1>5, LiveFacts, LimitAssumption
<1>7. IsFiniteSet(seeded')
  BY DEF Room, CommitDocument
<1> QED
  BY <1>2, <1>6, <1>7 DEF Room, Admitted

LEMMA AdmitKeeps ==
  ASSUME TypeOK, Room, NEW q \in Requests, Admit(q)
  PROVE  Room'
<1> USE DEF rowVars, fileVars, documentVars, historyVars, controlVars
<1>1. OnlyRequest(q) /\ documentLock = None /\ documentLock' = q /\ UNCHANGED documentVars
  BY FailWithFails, GoToProceeds DEF Admit, Fails, Proceeds, Phases, Errors
<1>2. request'[q].phase \in {"move", "publish"} => Cardinality(Live) < MaxDocuments
  <2> SUFFICES ASSUME request'[q].phase \in {"move", "publish"}
               PROVE  Cardinality(Live) < MaxDocuments
    OBVIOUS
  <2>1. ~FailWith(q, "limit")
    BY FailWithFails DEF Fails, Errors
  <2>2. ~(Cardinality(Live) + Cardinality(seeded) >= MaxDocuments)
    BY <2>1 DEF Admit
  <2>3. Cardinality(seeded) \in Nat
    BY FS_CardinalityType DEF Room
  <2> QED
    BY <2>2, <2>3, LiveFacts, LimitAssumption
<1>3. \A r \in Requests : r # q => ~Admitted(r)'
  <2>1. \A r \in Requests : ~Admitted(r)
    BY <1>1, ProcessAssumption DEF Room, Admitted
  <2> QED
    BY <1>1, <2>1 DEF OnlyRequest, Admitted
<1>4. Live' = Live
  BY <1>1 DEF Live
<1> QED
  BY <1>1, <1>2, <1>3, <1>4 DEF Room, Admitted

LEMMA MoveKeeps ==
  ASSUME TypeOK, Room, NEW q \in Requests, MoveToFinal(q)
  PROVE  Room'
<1> USE DEF rowVars, documentVars, lockVars, historyVars, controlVars
<1>1. /\ OnlyRequest(q) /\ request[q].phase = "move"
      /\ UNCHANGED <<documentLock, documentVars>>
  BY GoToProceeds DEF MoveToFinal, Proceeds, Phases
<1>2. \A r \in Requests : Admitted(r)' => Admitted(r)
  BY <1>1 DEF OnlyRequest, Admitted
<1>3. Live' = Live
  BY <1>1 DEF Live
<1> QED
  BY <1>1, <1>2, <1>3 DEF Room, Admitted

(* Steps that admit nobody and touch no advisory lock.                     *)
LEMMA StillKeeps ==
  ASSUME Room, UNCHANGED <<request, documentLock, seeded>>, Live' \subseteq Live
  PROVE  Room'
<1>1. Cardinality(Live') <= Cardinality(Live) /\ MaxDocuments \in Nat
  BY LiveFacts, LimitAssumption
<1>2. Cardinality(Live') <= MaxDocuments
  BY <1>1, LiveFacts DEF Room
<1>3. \A r \in Requests : Admitted(r)' =>
        documentLock' = r /\ Cardinality(Live') < MaxDocuments
  BY <1>1, LiveFacts DEF Room, Admitted
<1> QED
  BY <1>2, <1>3 DEF Room, Admitted

LEMMA BeginQuits ==
  ASSUME TypeOK, NEW q \in Requests, Begin(q)
  PROVE  Quits(q) /\ UNCHANGED documentVars
<1>1. ASSUME NEW u \in Uploads,
             StartExpired(q, u) \/ StartCancel(q, u) \/ StartComplete(q, u)
      PROVE  Quits(q) /\ UNCHANGED documentVars
  <2>1. PICK phase \in {"expire", "cancel", "verify"} : Lock(q, u, phase)
    BY <1>1 DEF StartExpired, StartCancel, StartComplete
  <2>2. Enters(q, phase, u)
    BY <2>1, LockLocks DEF Phases
  <2> QED
    BY <1>1, <2>2 DEF StartExpired, StartCancel, StartComplete, Enters, Quits
<1>2. ASSUME NEW u \in Uploads, NEW b \in Sent, StartPart(q, u, b)
      PROVE  Quits(q) /\ UNCHANGED documentVars
  BY <1>2, PartEnters DEF StartPart, Enters, Quits
<1>3. ASSUME NEW f \in Files, StartCreate(q, f)
      PROVE  Quits(q) /\ UNCHANGED documentVars
  BY <1>3, CreateEnters DEF StartCreate, Enters, Quits
<1> QED
  BY <1>1, <1>2, <1>3 DEF Begin

LEMMA ContinueQuits ==
  ASSUME TypeOK, NEW q \in Requests,
         \/ AppendPart(q) \/ Confirm(q) \/ RemoveFiles(q) \/ DeleteRow(q) \/ FailRow(q)
         \/ Verify(q) \/ MoveBack(q) \/ Relock(q) \/ Look(q) \/ Touch(q) \/ Count(q)
         \/ Insert(q) \/ CommitFails(q) \/ PublishDuplicate(q) \/ PublishFails(q)
  PROVE  Quits(q) /\ UNCHANGED documentVars
<1> USE DEF Quits
<1>1. CASE AppendPart(q)
  <2>1. Fails(q, "checkpoint") \/ Proceeds(q, "confirm") \/ UNCHANGED request
    BY <1>1, FailWithFails, GoToProceeds DEF AppendPart, Phases, Errors
  <2>2. OnlyRequest(q) /\ request'[q].phase \in {"fail", "confirm", "append"}
    BY <1>1, <2>1 DEF Fails, Proceeds, AppendPart, OnlyRequest, TypeOK
  <2> QED
    BY <1>1, <2>2 DEF AppendPart, lockVars
<1>2. CASE Confirm(q) \/ DeleteRow(q) \/ FailRow(q) \/ Insert(q) \/ CommitFails(q)
  <2>1. Ends(q) /\ EndTransaction({q}) /\ UNCHANGED documentVars
    BY <1>2, FinishEnds DEF Confirm, DeleteRow, FailRow, Insert, CommitFails
  <2> QED
    BY <2>1, IdlePhase DEF Ends, EndTransaction
<1>3. CASE RemoveFiles(q)
  <2>1. Proceeds(q, "failRow") \/ Proceeds(q, "deleteRow")
    BY <1>3, GoToProceeds DEF RemoveFiles, Phases
  <2> QED
    BY <1>3, <2>1 DEF RemoveFiles, lockVars, Proceeds
<1>4. CASE Verify(q)
  <2>1. \/ Fails(q, "missing") \/ Fails(q, "mismatch") \/ Fails(q, "format")
        \/ Proceeds(q, "admit")
    BY <1>4, FailWithFails, GoToProceeds DEF Verify, Phases, Errors
  <2> QED
    BY <1>4, <2>1 DEF Verify, lockVars, Proceeds, Fails
<1>5. CASE MoveBack(q)
  <2>1. Ends(q) \/ Proceeds(q, "relock")
    BY <1>5, FinishEnds, GoToProceeds DEF MoveBack, Phases
  <2> QED
    BY <1>5, <2>1, IdlePhase DEF MoveBack, lockVars, Proceeds, Ends
<1>6. CASE Relock(q)
  <2>1. Ends(q) \/ Fails(q, "duplicate")
    BY <1>6, FinishEnds, FailWithFails DEF Relock, Errors
  <2> QED
    BY <1>6, <2>1, IdlePhase DEF Relock, Fails, Ends
<1>7. CASE Look(q)
  <2>1. OnlyRequest(q) /\ request'[q].phase \in {"idle", "count", "touch"}
    BY <1>7, LookGoesOn, IdlePhase DEF Ends, Proceeds
  <2> QED
    BY <1>7, <2>1 DEF Look, lockVars
<1>8. CASE Touch(q) \/ Count(q)
  <2>1. Ends(q) \/ Proceeds(q, "insert")
    BY <1>8, FinishEnds, GoToProceeds DEF Touch, Count, Phases
  <2> QED
    BY <1>8, <2>1, IdlePhase DEF Touch, Count, lockVars, Proceeds, Ends
<1>9. CASE PublishDuplicate(q) \/ PublishFails(q)
  <2>1. PICK reason \in Errors : Undo(q, reason)
    BY <1>9 DEF PublishDuplicate, PublishFails, Errors
  <2>2. OnlyRequest(q) /\ request'[q].phase = "moveBack"
    BY <2>1, UndoGoesOn
  <2> QED
    BY <1>9, <2>1, <2>2 DEF PublishDuplicate, PublishFails, Undo, EndTransaction
<1> QED
  BY <1>1, <1>2, <1>3, <1>4, <1>5, <1>6, <1>7, <1>8, <1>9

LEMMA RoomStep ==
  ASSUME TypeOK, Control, Room, [Next]_vars
  PROVE  Room'
<1> USE DEF documentVars
<1>1. ASSUME NEW q \in Requests, Quits(q) /\ UNCHANGED documentVars PROVE Room'
  BY <1>1, SameLive, QuitsKeep
<1>2. ASSUME NEW q \in Requests, Begin(q) PROVE Room'
  BY <1>1, <1>2, BeginQuits
<1>3. ASSUME NEW q \in Requests, Publish(q) \/ PublishUnanswered(q) PROVE Room'
  <2>1. request[q].phase = "publish" /\ CommitDocument(request[q].upload)
    BY <1>3 DEF Publish, PublishUnanswered, Undo
  <2>2. CASE Publish(q)
    BY <2>1, <2>2, FinishEnds, IdlePhase, PublishKeeps
       DEF Publish, Ends, Quits, EndTransaction
  <2>3. CASE PublishUnanswered(q)
    <3>1. Undo(q, "none")
      BY <2>3 DEF PublishUnanswered
    <3>2. Quits(q)
      BY <3>1, UndoGoesOn DEF Undo, Quits, EndTransaction, Errors
    <3> QED
      BY <2>1, <3>2, PublishKeeps
  <2> QED
    BY <1>3, <2>2, <2>3
<1>4. ASSUME NEW q \in Requests,
             Continue(q) \/ PublishFails(q) \/ PublishUnanswered(q) \/ CommitFails(q)
      PROVE  Room'
  BY <1>1, <1>3, <1>4, ContinueQuits, AdmitKeeps, MoveKeeps DEF Continue
<1>5. ASSUME NEW p \in Processes, Sweep(p) \/ SweepFails(p) PROVE Room'
  <2>1. CASE ReadOpenKeys(p) \/ SweepRow(p) \/ SweepOrphans(p)
    BY <2>1, SameLive, StillKeeps DEF ReadOpenKeys, SweepRow, SweepOrphans, lockVars
  <2>2. CASE CommitSweep(p) \/ SweepFails(p)
    <3>1. UNCHANGED documentVars /\ EndTransaction({p})
      BY <2>2 DEF CommitSweep, SweepFails
    <3>2. CASE p \in Requests
      <4>1. OnlyRequest(p) /\ request'[p].phase \in {"look", "idle"}
        BY <2>2, <3>2, SweepOver, IdlePhase
      <4> QED
        BY <1>1, <3>1, <3>2, <4>1 DEF Quits, EndTransaction
    <3>3. CASE p \notin Requests
      <4>1. UNCHANGED <<request, documentLock>>
        BY <2>2, <3>1, <3>3, SweepOver, ProcessAssumption
        DEF EndTransaction, TypeOK, Processes
      <4> QED
        BY <3>1, <4>1, SameLive, StillKeeps
    <3> QED
      BY <3>2, <3>3
  <2> QED
    BY <1>5, <2>1, <2>2 DEF Sweep
<1>6. ASSUME NEW p \in Sweepers, StartSweep(p) PROVE Room'
  BY <1>6, SameLive, StillKeeps DEF StartSweep
<1>7. ASSUME NEW u \in Uploads, PurgeDocument(u) \/ Expire(u) \/ GrowOld(u) PROVE Room'
  <2>1. Live' \subseteq Live
    BY <1>7 DEF PurgeDocument, Expire, GrowOld, Live, TypeOK
  <2> QED
    BY <1>7, <2>1, StillKeeps DEF PurgeDocument, Expire, GrowOld, lockVars
<1>8. ASSUME NEW f \in Files, SeedDocument(f) \/ PurgeSeeded(f) PROVE Room'
  <2>1. IsFiniteSet(seeded')
    BY <1>8, FS_AddElement, FS_Subset DEF SeedDocument, PurgeSeeded, Room
  <2>2. UNCHANGED <<request, documentLock, document>>
    BY <1>8 DEF SeedDocument, PurgeSeeded, lockVars
  <2>3. Live' = Live
    BY <2>2 DEF Live
  <2> QED
    BY <2>1, <2>2, <2>3 DEF Room
<1>9. CASE Crash
  <2>1. \A q \in Requests : ~Admitted(q)'
    BY <1>9, CrashEffect, IdlePhase DEF Admitted
  <2>2. UNCHANGED documentVars
    BY <1>9 DEF Crash
  <2>3. Live' = Live
    BY <2>2 DEF Live
  <2> QED
    BY <2>1, <2>2, <2>3 DEF Room, Admitted
<1>10. CASE UNCHANGED vars
  BY <1>10, SameLive, StillKeeps DEF vars, lockVars
<1> QED
  BY <1>2, <1>4, <1>5, <1>6, <1>7, <1>8, <1>9, <1>10 DEF Next

-----------------------------------------------------------------------------
(* The bytes of a file are those that were confirmed, as far as both go.    *)

Agree(f, s) == f = None \/ \A i \in 1..Len(f) : i <= Len(s) => f[i] = s[i]

(* What is left of a file.                                                  *)
CutOf(f, g) == g = None \/ g = f \/ (f # None /\ \E n \in 0..Len(f) : g = Prefix(f, n))

Agreed(u) ==
  status[u] = "open" => Agree(temporary[u], receipts[u]) /\ Agree(final[u], receipts[u])

(* A part that will be confirmed follows the confirmed ones, and a session *)
(* that will be published was confirmed as it was declared.                *)
Carries(q) ==
  LET r == request[q] IN
  /\ r.phase = "confirm" => temporary[r.upload] = Append(receipts[r.upload], r.bytes)
  /\ r.phase = "publish" => receipts[r.upload] = Declared

Matched ==
  /\ \A u \in Uploads : Agreed(u)
  /\ \A q \in Requests : Carries(q)

LEMMA PrefixElements ==
  ASSUME NEW s \in Contents, NEW n \in 0..Len(s), NEW i \in 1..n
  PROVE  Prefix(s, n)[i] = s[i]
<1>1. /\ s \in Seq(Bytes \union {"torn"}) /\ Len(s) \in Nat
      /\ n \in Nat /\ n <= Len(s) /\ n # 0
  BY ContentsAreSequences
<1>2. \A k \in 1..n : s[k] \in Bytes \union {"torn"}
  BY <1>1, ElementOfSeq
<1>3. \A k \in 1..(n - 1 + 1) : SubSeq(s, 1, n)[k] = s[1 + k - 1]
  BY <1>1, <1>2, SubSeqProperties
<1> QED
  BY <1>1, <1>3 DEF Prefix

LEMMA AgreeOnEqual ==
  ASSUME NEW f \in Contents, NEW s \in Contents, Agree(f, s), Len(f) = Len(s)
  PROVE  f = s
<1>1. /\ f \in Seq(Bytes \union {"torn"}) /\ s \in Seq(Bytes \union {"torn"})
      /\ Len(f) \in Nat /\ f # None
  BY ContentsAreSequences, SizeFacts
<1>2. \A i \in 1..Len(f) : f[i] = s[i]
  BY <1>1 DEF Agree
<1> QED
  BY <1>1, <1>2, SeqEqual

LEMMA AgreeOnCut ==
  ASSUME NEW f \in Contents \union {None}, NEW g, NEW s \in Contents, Agree(f, s), CutOf(f, g)
  PROVE  Agree(g, s)
<1>1. CASE g = None \/ g = f
  BY <1>1 DEF Agree
<1>2. CASE f # None /\ \E n \in 0..Len(f) : g = Prefix(f, n)
  <2>1. PICK n \in 0..Len(f) : g = Prefix(f, n)
    BY <1>2
  <2>2. f \in Contents /\ Len(f) \in Nat /\ Len(g) = n
    BY <1>2, <2>1, PrefixFacts, SizeFacts
  <2>3. \A i \in 1..n : g[i] = f[i] /\ i \in 1..Len(f)
    BY <2>1, <2>2, PrefixElements
  <2> QED
    BY <1>2, <2>2, <2>3 DEF Agree
<1> QED
  BY <1>1, <1>2 DEF CutOf

LEMMA AgreeOnPrefix ==
  ASSUME NEW f \in Contents, NEW s \in Contents, Agree(f, s), Len(s) <= Len(f)
  PROVE  Prefix(f, Len(s)) = s
<1>1. Len(s) \in 0..Len(f)
  BY SizeFacts
<1>2. Prefix(f, Len(s)) \in Contents /\ Len(Prefix(f, Len(s))) = Len(s)
  BY <1>1, PrefixFacts
<1>3. Agree(Prefix(f, Len(s)), s)
  BY <1>1, AgreeOnCut, SizeFacts DEF CutOf
<1> QED
  BY <1>2, <1>3, AgreeOnEqual

LEMMA AgreeOnAppend ==
  ASSUME NEW s \in Contents, Len(s) < Parts, NEW b \in Bytes \union {"torn"}
  PROVE  Agree(Append(s, b), s)
<1>1. s \in Seq(Bytes \union {"torn"}) /\ Len(s) \in Nat
  BY ContentsAreSequences
<1> QED
  BY <1>1, AppendProperties DEF Agree

(* No action writes both the rows and the files of sessions.               *)
FileWork ==
  \/ \E q \in Requests : AppendPart(q) \/ RemoveFiles(q) \/ MoveToFinal(q) \/ MoveBack(q)
  \/ \E p \in Processes : SweepRow(p) \/ SweepOrphans(p)
  \/ \E u \in Uploads : PurgeDocument(u)
RowWork ==
  \/ \E q \in Requests : \/ Confirm(q) \/ DeleteRow(q) \/ FailRow(q) \/ Publish(q)
                         \/ PublishUnanswered(q) \/ Insert(q)
  \/ \E p \in Processes : CommitSweep(p)

LEMMA WorkIsApart ==
  ASSUME [Next]_vars
  PROVE  /\ FileWork \/ UNCHANGED <<temporary, final>>
         /\ RowWork \/ UNCHANGED <<status, receipts>>
<1> USE DEF rowVars, fileVars
<1>1. ASSUME NEW q \in Requests, Begin(q)
      PROVE  UNCHANGED <<temporary, final, status, receipts>>
  BY <1>1 DEF Begin, StartExpired, StartCancel, StartComplete, StartPart, StartCreate
<1>2. ASSUME NEW q \in Requests,
             \/ Continue(q) \/ PublishFails(q) \/ PublishUnanswered(q) \/ CommitFails(q)
      PROVE  /\ FileWork \/ UNCHANGED <<temporary, final>>
             /\ RowWork \/ UNCHANGED <<status, receipts>>
  BY <1>2 DEF Continue, AppendPart, Confirm, RemoveFiles, DeleteRow, FailRow, Verify, Admit,
     MoveToFinal, Publish, PublishDuplicate, MoveBack, Relock, Look, Touch, Count, Insert,
     PublishFails, PublishUnanswered, CommitFails, Undo, FileWork, RowWork
<1>3. ASSUME NEW p \in Processes, Sweep(p) \/ SweepFails(p)
      PROVE  /\ FileWork \/ UNCHANGED <<temporary, final>>
             /\ RowWork \/ UNCHANGED <<status, receipts>>
  BY <1>3 DEF Sweep, SweepFails, ReadOpenKeys, SweepRow, SweepOrphans, CommitSweep,
     FileWork, RowWork
<1>4. ASSUME NEW u \in Uploads, PurgeDocument(u) \/ Expire(u) \/ GrowOld(u)
      PROVE  /\ FileWork \/ UNCHANGED <<temporary, final>>
             /\ UNCHANGED <<status, receipts>>
  BY <1>4 DEF PurgeDocument, Expire, GrowOld, FileWork
<1>5. ASSUME \/ \E p \in Sweepers : StartSweep(p)
             \/ \E f \in Files : SeedDocument(f) \/ PurgeSeeded(f)
             \/ Crash
             \/ UNCHANGED vars
      PROVE  UNCHANGED <<temporary, final, status, receipts>>
  BY <1>5 DEF StartSweep, SeedDocument, PurgeSeeded, Crash, vars
<1> QED
  BY <1>1, <1>2, <1>3, <1>4, <1>5 DEF Next

LEMMA FileWorkKeepsRows ==
  ASSUME FileWork
  PROVE  UNCHANGED <<status, receipts>>
BY DEF FileWork, AppendPart, RemoveFiles, MoveToFinal, MoveBack, SweepRow, SweepOrphans,
       PurgeDocument, rowVars

LEMMA RowWorkKeepsFiles ==
  ASSUME RowWork
  PROVE  UNCHANGED <<temporary, final>>
BY DEF RowWork, Confirm, DeleteRow, FailRow, Publish, PublishUnanswered, Undo, Insert,
       CommitSweep, fileVars


(* What happens to files: a part is appended, or nothing is added.          *)
Appends(q, u) ==
  LET r == receipts[u]
      t == temporary[u] IN
  /\ request[q].phase = "append" /\ request[q].upload = u /\ holder[u] = q
  /\ status[u] = "open" /\ Len(r) < Parts /\ request[q].bytes \in Bytes
  /\ final'[u] = final[u]
  /\ \/ /\ Size(t) < Len(r) /\ request'[q].phase = "fail"
        /\ temporary'[u] = IF t = None THEN <<>> ELSE t
     \/ \E b \in Bytes \union {"torn"} :
          /\ ~(Size(t) < Len(r)) /\ temporary'[u] = Append(Prefix(t, Len(r)), b)
          /\ \/ request'[q].phase = "append"
             \/ b = request[q].bytes /\ Proceeds(q, "confirm")

Shrinks(u) ==
  \E f \in {temporary[u], final[u]}, g \in {temporary[u], final[u]} :
    CutOf(f, temporary'[u]) /\ CutOf(g, final'[u])

LEMMA AppendEffect ==
  ASSUME TypeOK, Control, NEW q \in Requests, AppendPart(q)
  PROVE  \E u \in Uploads :
           /\ Appends(q, u)
           /\ \A v \in Uploads : v # u => temporary'[v] = temporary[v] /\ final'[v] = final[v]
<1> DEFINE u == request[q].upload
           r == receipts[u]
           t == temporary[u]
<1>1. /\ request[q].phase = "append" /\ u \in Uploads /\ holder[u] = q
      /\ status[u] = "open" /\ Len(r) < Parts /\ request[q].bytes \in Bytes
  BY DEF AppendPart, Control, RequestHolds, Locking
<1>2. UNCHANGED final
  BY DEF AppendPart
<1>3. CASE Size(t) < Len(r)
  <2>1. Fails(q, "checkpoint")
    BY <1>3, FailWithFails DEF AppendPart, Errors
  <2>2. temporary' = [temporary EXCEPT ![u] = IF t = None THEN <<>> ELSE t]
    BY <1>3 DEF AppendPart
  <2>3. /\ temporary'[u] = IF t = None THEN <<>> ELSE t
        /\ \A v \in Uploads : v # u => temporary'[v] = temporary[v]
    BY <1>1, <2>2 DEF TypeOK
  <2> QED
    BY <1>1, <1>2, <1>3, <2>1, <2>3 DEF Appends, Fails
<1>4. CASE ~(Size(t) < Len(r))
  <2>1. PICK b \in Bytes \union {"torn"} :
          /\ temporary' = [temporary EXCEPT ![u] = Append(Prefix(t, Len(r)), b)]
          /\ (b = request[q].bytes /\ GoTo(q, "confirm")) \/ UNCHANGED request
    BY <1>1, <1>4 DEF AppendPart
  <2>2. /\ temporary'[u] = Append(Prefix(t, Len(r)), b)
        /\ \A v \in Uploads : v # u => temporary'[v] = temporary[v]
    BY <1>1, <2>1 DEF TypeOK
  <2>3. request'[q].phase = "append" \/ (b = request[q].bytes /\ Proceeds(q, "confirm"))
    BY <1>1, <2>1, GoToProceeds DEF Phases
  <2> QED
    BY <1>1, <1>2, <1>4, <2>2, <2>3 DEF Appends
<1> QED
  BY <1>3, <1>4

LEMMA RowShrinks ==
  ASSUME TypeOK, NEW p \in Processes, SweepRow(p), NEW u \in Uploads
  PROVE  Shrinks(u)
<1>1. PICK v \in sweep[p].todo :
        v \in Uploads /\ (SweepExpired(p, v) \/ SweepEnded(p, v) \/ SweepOpen(p, v))
  BY DEF SweepRow, TypeOK, SweepStates
<1>2. CASE u # v
  <2>1. temporary'[u] = temporary[u] /\ final'[u] = final[u]
    BY <1>1, <1>2 DEF SweepExpired, SweepEnded, SweepOpen, TypeOK
  <2> QED
    BY <2>1 DEF Shrinks, CutOf
<1>3. CASE u = v /\ (SweepExpired(p, v) \/ SweepEnded(p, v))
  <2>1. temporary'[u] = None /\ final'[u] \in {None, final[u]}
    BY <1>1, <1>3 DEF SweepExpired, SweepEnded, TypeOK
  <2> QED
    BY <2>1 DEF Shrinks, CutOf
<1>4. CASE u = v /\ SweepOpen(p, v)
  <2>1. /\ final'[u] = None
        /\ temporary'[u] = IF TooShort(u) \/ FoundFile(u) = None THEN None
                           ELSE Prefix(FoundFile(u), Len(receipts[u]))
    BY <1>1, <1>4, OpenSwept
  <2>2. CASE TooShort(u) \/ FoundFile(u) = None
    BY <2>1, <2>2 DEF Shrinks, CutOf
  <2>3. CASE ~TooShort(u) /\ FoundFile(u) # None
    <3>1. FoundFile(u) \in {temporary[u], final[u]} /\ FoundFile(u) \in Contents
      BY <2>3 DEF FoundFile, TypeOK
    <3>2. ~(Len(FoundFile(u)) < Len(receipts[u]))
      BY <2>3 DEF TooShort
    <3>3. Len(receipts[u]) \in 0..Len(FoundFile(u))
      BY <3>1, <3>2, SizeFacts DEF TypeOK
    <3>4. CutOf(FoundFile(u), temporary'[u]) /\ CutOf(final[u], final'[u])
      BY <2>1, <2>3, <3>3 DEF CutOf
    <3> QED
      BY <3>1, <3>4 DEF Shrinks
  <2> QED
    BY <2>2, <2>3
<1> QED
  BY <1>1, <1>2, <1>3, <1>4

LEMMA FileFates ==
  ASSUME TypeOK, Control, [Next]_vars, NEW u \in Uploads
  PROVE  (\E q \in Requests : Appends(q, u)) \/ Shrinks(u)
<1>1. CASE UNCHANGED <<temporary, final>>
  BY <1>1 DEF Shrinks, CutOf
<1>2. ASSUME NEW q \in Requests, AppendPart(q)
      PROVE  Appends(q, u) \/ Shrinks(u)
  <2>1. Appends(q, u) \/ (temporary'[u] = temporary[u] /\ final'[u] = final[u])
    BY <1>2, AppendEffect
  <2> QED
    BY <2>1 DEF Shrinks, CutOf
<1>3. ASSUME NEW q \in Requests, RemoveFiles(q)
      PROVE  Shrinks(u)
  <2>1. temporary'[u] \in {None, temporary[u]} /\ final'[u] \in {None, final[u]}
    BY <1>3 DEF RemoveFiles, TypeOK
  <2> QED
    BY <2>1 DEF Shrinks, CutOf
<1>4. ASSUME NEW q \in Requests, MoveToFinal(q)
      PROVE  Shrinks(u)
  <2>1. \/ temporary'[u] = None /\ final'[u] = temporary[u]
        \/ temporary'[u] = temporary[u] /\ final'[u] = final[u]
    BY <1>4 DEF MoveToFinal, TypeOK
  <2> QED
    BY <2>1 DEF Shrinks, CutOf
<1>5. ASSUME NEW q \in Requests, MoveBack(q)
      PROVE  Shrinks(u)
  <2>1. \/ temporary'[u] = final[u] /\ final'[u] = None
        \/ temporary'[u] = temporary[u] /\ final'[u] = final[u]
    BY <1>5 DEF MoveBack, TypeOK
  <2> QED
    BY <2>1 DEF Shrinks, CutOf
<1>6. ASSUME NEW p \in Processes, SweepOrphans(p)
      PROVE  Shrinks(u)
  <2>1. temporary'[u] \in {None, temporary[u]} /\ final'[u] = final[u]
    BY <1>6 DEF SweepOrphans, TypeOK
  <2> QED
    BY <2>1 DEF Shrinks, CutOf
<1>7. ASSUME NEW v \in Uploads, PurgeDocument(v)
      PROVE  Shrinks(u)
  <2>1. temporary'[u] = temporary[u] /\ final'[u] \in {None, final[u]}
    BY <1>7 DEF PurgeDocument, TypeOK
  <2> QED
    BY <2>1 DEF Shrinks, CutOf
<1> QED
  BY <1>1, <1>2, <1>3, <1>4, <1>5, <1>6, <1>7, RowShrinks, WorkIsApart DEF FileWork


(* What happens to rows: a session is opened, gets a part, becomes a        *)
(* Document or is closed.                                                   *)
Opens(u) == status[u] = "absent" /\ status'[u] = "open" /\ receipts'[u] = receipts[u]

Confirms(q, u) ==
  /\ request[q].phase = "confirm" /\ request[q].upload = u /\ holder[u] = q
  /\ status[u] = "open" /\ status'[u] = "open"
  /\ receipts'[u] = Append(receipts[u], request[q].bytes) /\ request'[q] = Idle

Completes(u) ==
  status[u] = "open" /\ status'[u] = "completed" /\ receipts'[u] = receipts[u]

ClosedBy(x, u) ==
  /\ status[u] # "absent" /\ holder[u] = x
  /\ status'[u] \in {"deleted", "failed"} /\ receipts'[u] = <<>>
  /\ \/ x \in Requests /\ request[x].phase \in {"deleteRow", "failRow"}
     \/ sweep[x].phase = "commit"

LEMMA ConfirmEffect ==
  ASSUME TypeOK, Control, NEW q \in Requests, Confirm(q)
  PROVE  \E u \in Uploads :
           /\ Confirms(q, u) /\ Len(receipts[u]) < Parts /\ request[q].bytes \in Bytes
           /\ \A v \in Uploads : v # u => receipts'[v] = receipts[v]
           /\ UNCHANGED <<status, document, undone>>
<1> DEFINE u == request[q].upload
<1>1. /\ request[q].phase = "confirm" /\ u \in Uploads /\ holder[u] = q
      /\ status[u] = "open" /\ Len(receipts[u]) < Parts /\ request[q].bytes \in Bytes
  BY DEF Confirm, Control, RequestHolds, Locking
<1>2. /\ receipts'[u] = Append(receipts[u], request[q].bytes)
      /\ \A v \in Uploads : v # u => receipts'[v] = receipts[v]
  BY <1>1 DEF Confirm, TypeOK
<1>3. UNCHANGED <<status, document, undone>> /\ request'[q] = Idle
  BY FinishEnds DEF Confirm, documentVars, historyVars, Ends
<1> QED
  BY <1>1, <1>2, <1>3 DEF Confirms

LEMMA RowClosed ==
  ASSUME TypeOK, Control, NEW q \in Requests, DeleteRow(q) \/ FailRow(q)
  PROVE  \E u \in Uploads :
           /\ ClosedBy(q, u)
           /\ \A v \in Uploads : v # u => status'[v] = status[v] /\ receipts'[v] = receipts[v]
           /\ UNCHANGED <<document, undone>>
<1> DEFINE u == request[q].upload
<1>1. /\ request[q].phase \in {"deleteRow", "failRow"} /\ u \in Uploads /\ holder[u] = q
      /\ HasRow(u)
  BY DEF DeleteRow, FailRow, Control, RequestHolds, Locking
<1>2. /\ status'[u] \in {"deleted", "failed"} /\ receipts'[u] = <<>>
      /\ \A v \in Uploads : v # u => status'[v] = status[v] /\ receipts'[v] = receipts[v]
  BY <1>1 DEF DeleteRow, FailRow, TypeOK
<1>3. UNCHANGED <<document, undone>>
  BY DEF DeleteRow, FailRow, documentVars, historyVars
<1> QED
  BY <1>1, <1>2, <1>3 DEF ClosedBy, HasRow

LEMMA SweepCloses ==
  ASSUME TypeOK, Control, NEW p \in Processes, CommitSweep(p)
  PROVE  /\ \A u \in sweep[p].delete \union sweep[p].fail : u \in Uploads /\ ClosedBy(p, u)
         /\ \A v \in Uploads : v \notin sweep[p].delete \union sweep[p].fail =>
              status'[v] = status[v] /\ receipts'[v] = receipts[v]
         /\ UNCHANGED <<document, undone>>
<1> DEFINE over == sweep[p].delete \union sweep[p].fail
<1>1. sweep[p].phase = "commit" /\ over \in SUBSET Uploads
  BY DEF CommitSweep, TypeOK, SweepStates
<1>2. \A u \in over : holder[u] = p /\ HasRow(u)
  BY DEF Control, SweepHolds
<1>3. \A v \in Uploads :
        /\ receipts'[v] = IF v \in over THEN <<>> ELSE receipts[v]
        /\ v \notin over => status'[v] = status[v]
        /\ v \in over => status'[v] \in {"deleted", "failed"}
  BY DEF CommitSweep
<1>4. UNCHANGED <<document, undone>>
  BY DEF CommitSweep, documentVars, historyVars
<1> QED
  BY <1>1, <1>2, <1>3, <1>4 DEF ClosedBy, HasRow

LEMMA PublishEffect ==
  ASSUME TypeOK, Control, NEW q \in Requests, Publish(q) \/ PublishUnanswered(q)
  PROVE  \E u \in Uploads :
           /\ request[q].phase = "publish" /\ request[q].upload = u /\ Completes(u)
           /\ document' = [document EXCEPT ![u] = TRUE]
           /\ undone' = undone \/ undone' = [undone EXCEPT ![u] = TRUE]
           /\ \A v \in Uploads : v # u => status'[v] = status[v]
           /\ UNCHANGED receipts
<1> DEFINE u == request[q].upload
<1>1. request[q].phase = "publish" /\ u \in Uploads /\ status[u] = "open"
  BY DEF Publish, PublishUnanswered, Undo, Control, RequestHolds, Locking, Completing
<1>2. CommitDocument(u)
  BY DEF Publish, PublishUnanswered
<1>3. /\ UNCHANGED receipts /\ document' = [document EXCEPT ![u] = TRUE]
      /\ status'[u] = "completed"
      /\ \A v \in Uploads : v # u => status'[v] = status[v]
  BY <1>1, <1>2 DEF CommitDocument, TypeOK
<1>4. undone' = undone \/ undone' = [undone EXCEPT ![u] = TRUE]
  BY DEF Publish, PublishUnanswered, Undo, historyVars
<1> QED
  BY <1>1, <1>3, <1>4 DEF Completes

LEMMA InsertEffect ==
  ASSUME TypeOK, NEW q \in Requests, Insert(q)
  PROVE  /\ \/ UNCHANGED <<status, receipts>>
            \/ \E u \in Uploads :
                 Opens(u) /\ status' = [status EXCEPT ![u] = "open"] /\ UNCHANGED receipts
         /\ UNCHANGED <<document, undone>>
<1>1. UNCHANGED <<document, undone>>
  BY DEF Insert, documentVars, historyVars
<1>2. \/ UNCHANGED <<status, receipts>>
      \/ \E u \in Uploads : /\ status[u] = "absent"
                            /\ status' = [status EXCEPT ![u] = "open"]
                            /\ UNCHANGED receipts
  BY DEF Insert, rowVars
<1>3. ASSUME NEW u \in Uploads, status[u] = "absent",
             status' = [status EXCEPT ![u] = "open"], UNCHANGED receipts
      PROVE  Opens(u)
  BY <1>3 DEF Opens, TypeOK
<1> QED
  BY <1>1, <1>2, <1>3

LEMMA RowFates ==
  ASSUME TypeOK, Control, [Next]_vars, NEW u \in Uploads
  PROVE  \/ status'[u] = status[u] /\ receipts'[u] = receipts[u]
         \/ Opens(u) \/ Completes(u)
         \/ \E q \in Requests : Confirms(q, u)
         \/ \E x \in Processes : ClosedBy(x, u)
<1>1. Requests \subseteq Processes
  BY DEF Processes
<1>2. CASE UNCHANGED <<status, receipts>>
  BY <1>2
<1>3. ASSUME NEW q \in Requests, Confirm(q)
      PROVE  Confirms(q, u) \/ (status'[u] = status[u] /\ receipts'[u] = receipts[u])
  BY <1>3, ConfirmEffect
<1>4. ASSUME NEW q \in Requests, DeleteRow(q) \/ FailRow(q)
      PROVE  ClosedBy(q, u) \/ (status'[u] = status[u] /\ receipts'[u] = receipts[u])
  BY <1>4, RowClosed
<1>5. ASSUME NEW q \in Requests, Publish(q) \/ PublishUnanswered(q)
      PROVE  Completes(u) \/ (status'[u] = status[u] /\ receipts'[u] = receipts[u])
  BY <1>5, PublishEffect
<1>6. ASSUME NEW q \in Requests, Insert(q)
      PROVE  Opens(u) \/ (status'[u] = status[u] /\ receipts'[u] = receipts[u])
  BY <1>6, InsertEffect DEF TypeOK
<1>7. ASSUME NEW p \in Processes, CommitSweep(p)
      PROVE  ClosedBy(p, u) \/ (status'[u] = status[u] /\ receipts'[u] = receipts[u])
  BY <1>7, SweepCloses
<1> QED
  BY <1>1, <1>2, <1>3, <1>4, <1>5, <1>6, <1>7, WorkIsApart DEF RowWork


LEMMA AgreedStep ==
  ASSUME TypeOK, Control, Reliable, Matched, [Next]_vars, NEW u \in Uploads
  PROVE  Agreed(u)'
<1> SUFFICES ASSUME status'[u] = "open"
             PROVE  Agree(temporary'[u], receipts'[u]) /\ Agree(final'[u], receipts'[u])
  BY DEF Agreed
<1>1. /\ receipts[u] \in Contents /\ Disk(u) /\ Agreed(u)
      /\ temporary[u] \in Contents \union {None} /\ final[u] \in Contents \union {None}
  BY DEF TypeOK, Reliable, Matched
<1>2. CASE RowWork
  <2>1. temporary'[u] = temporary[u] /\ final'[u] = final[u]
    BY <1>2, RowWorkKeepsFiles
  <2>2. CASE status'[u] = status[u] /\ receipts'[u] = receipts[u]
    BY <1>1, <2>1, <2>2 DEF Agreed
  <2>3. CASE Opens(u)
    BY <1>1, <2>1, <2>3 DEF Opens, Disk, Agree
  <2>4. ASSUME NEW q \in Requests, Confirms(q, u)
        PROVE  Agree(temporary'[u], receipts'[u]) /\ Agree(final'[u], receipts'[u])
    <3>1. temporary[u] = receipts'[u] /\ Len(receipts[u]) < Parts
      BY <2>4 DEF Confirms, Matched, Carries, Control, RequestHolds
    <3>2. final[u] = None
      BY <1>1, <2>4, <3>1, SizeFacts, PartsAssumption DEF Disk, Confirms
    <3> QED
      BY <2>1, <3>1, <3>2 DEF Agree
  <2> QED
    BY <2>2, <2>3, <2>4, RowFates DEF Completes, ClosedBy
<1>3. CASE ~RowWork
  <2>1. status[u] = "open" /\ receipts'[u] = receipts[u]
    BY <1>3, WorkIsApart
  <2>2. Agree(temporary[u], receipts[u]) /\ Agree(final[u], receipts[u])
    BY <1>1, <2>1 DEF Agreed
  <2>3. CASE Shrinks(u)
    <3>1. PICK f \in {temporary[u], final[u]}, g \in {temporary[u], final[u]} :
            CutOf(f, temporary'[u]) /\ CutOf(g, final'[u])
      BY <2>3 DEF Shrinks
    <3>2. f \in Contents \union {None} /\ g \in Contents \union {None}
      BY <1>1
    <3>3. Agree(f, receipts[u]) /\ Agree(g, receipts[u])
      BY <2>2
    <3> QED
      BY <1>1, <2>1, <3>1, <3>2, <3>3, AgreeOnCut
  <2>4. ASSUME NEW q \in Requests, Appends(q, u)
        PROVE  Agree(temporary'[u], receipts'[u]) /\ Agree(final'[u], receipts'[u])
    <3> DEFINE r == receipts[u]
               t == temporary[u]
    <3>1. final'[u] = final[u] /\ Len(r) < Parts
      BY <2>4 DEF Appends
    <3>2. CASE temporary'[u] = IF t = None THEN <<>> ELSE t
      BY <2>1, <2>2, <3>1, <3>2, EmptyFacts DEF Agree
    <3>3. ASSUME NEW b \in Bytes \union {"torn"}, ~(Size(t) < Len(r)),
                 temporary'[u] = Append(Prefix(t, Len(r)), b)
          PROVE  Agree(temporary'[u], r)
      <4>1. Prefix(t, Len(r)) = r
        <5>1. CASE t = None
          BY <1>1, <3>3, <5>1, SizeFacts DEF Size, Prefix
        <5>2. CASE t # None
          <6>1. t \in Contents /\ ~(Len(t) < Len(r)) /\ Agree(t, r)
            BY <1>1, <2>2, <3>3, <5>2 DEF Size
          <6>2. Len(r) <= Len(t)
            BY <1>1, <6>1, SizeFacts
          <6> QED
            BY <1>1, <6>1, <6>2, AgreeOnPrefix
        <5> QED
          BY <5>1, <5>2
      <4> QED
        BY <1>1, <3>1, <3>3, <4>1, AgreeOnAppend
    <3> QED
      BY <2>1, <2>2, <2>4, <3>1, <3>2, <3>3 DEF Appends
  <2> QED
    BY <2>3, <2>4, FileFates
<1> QED
  BY <1>2, <1>3

(* Who comes to confirm a part or to publish a session comes from writing  *)
(* the part, or from moving the file.                                      *)
Carrying == {"confirm", "publish"}

LEMMA BeginCarries ==
  ASSUME TypeOK, NEW q \in Requests, Begin(q)
  PROVE  OnlyRequest(q) /\ request'[q].phase \notin Carrying
<1>1. ASSUME NEW u \in Uploads,
             StartExpired(q, u) \/ StartCancel(q, u) \/ StartComplete(q, u)
      PROVE  OnlyRequest(q) /\ request'[q].phase \notin Carrying
  <2>1. PICK phase \in {"expire", "cancel", "verify"} : Lock(q, u, phase)
    BY <1>1 DEF StartExpired, StartCancel, StartComplete
  <2> QED
    BY <2>1, LockLocks DEF Phases, Enters, Carrying
<1> QED
  BY <1>1, PartEnters, CreateEnters DEF Begin, Enters, Carrying

LEMMA ContinueCarries ==
  ASSUME TypeOK, NEW q \in Requests,
         \/ Continue(q) \/ PublishFails(q) \/ PublishUnanswered(q) \/ CommitFails(q)
  PROVE  /\ OnlyRequest(q)
         /\ request'[q].phase \in Carrying => AppendPart(q) \/ MoveToFinal(q)
<1> USE DEF Carrying
<1>1. CASE AppendPart(q)
  BY <1>1, FailWithFails, GoToProceeds
     DEF AppendPart, Fails, Proceeds, Phases, Errors, OnlyRequest, TypeOK
<1>2. CASE MoveToFinal(q)
  BY <1>2, GoToProceeds DEF MoveToFinal, Proceeds, Phases
<1>3. CASE \/ Confirm(q) \/ DeleteRow(q) \/ FailRow(q) \/ Insert(q) \/ CommitFails(q)
           \/ Publish(q) \/ Touch(q)
  <2>1. Ends(q)
    BY <1>3, FinishEnds
       DEF Confirm, DeleteRow, FailRow, Insert, CommitFails, Publish, Touch
  <2> QED
    BY <2>1, IdlePhase DEF Ends
<1>4. CASE Verify(q) \/ Admit(q)
  <2>1. \/ \E reason \in Errors : Fails(q, reason)
        \/ \E phase \in {"admit", "move"} : Proceeds(q, phase)
    BY <1>4, FailWithFails, GoToProceeds DEF Verify, Admit, Phases, Errors
  <2> QED
    BY <2>1 DEF Fails, Proceeds
<1>5. CASE RemoveFiles(q) \/ Count(q) \/ MoveBack(q)
  <2>1. \/ Ends(q)
        \/ \E phase \in {"failRow", "deleteRow", "insert", "relock"} : Proceeds(q, phase)
    BY <1>5, FinishEnds, GoToProceeds DEF RemoveFiles, Count, MoveBack, Phases
  <2> QED
    BY <2>1, IdlePhase DEF Ends, Proceeds
<1>6. CASE Relock(q)
  <2>1. Ends(q) \/ Fails(q, "duplicate")
    BY <1>6, FinishEnds, FailWithFails DEF Relock, Errors
  <2> QED
    BY <2>1, IdlePhase DEF Ends, Fails
<1>7. CASE Look(q)
  BY <1>7, LookGoesOn, IdlePhase DEF Ends, Proceeds
<1>8. CASE PublishDuplicate(q) \/ PublishFails(q) \/ PublishUnanswered(q)
  <2>1. PICK reason \in Errors : Undo(q, reason)
    BY <1>8 DEF PublishDuplicate, PublishFails, PublishUnanswered, Errors
  <2> QED
    BY <2>1, UndoGoesOn
<1> QED
  BY <1>1, <1>2, <1>3, <1>4, <1>5, <1>6, <1>7, <1>8 DEF Continue

LEMMA Carriers ==
  ASSUME TypeOK, [Next]_vars, NEW q \in Requests, request'[q].phase \in Carrying
  PROVE  request'[q] = request[q] \/ AppendPart(q) \/ MoveToFinal(q)
<1>1. ASSUME NEW r \in Requests,
             \/ Begin(r) \/ Continue(r) \/ PublishFails(r) \/ PublishUnanswered(r)
             \/ CommitFails(r)
      PROVE  request'[q] = request[q] \/ AppendPart(q) \/ MoveToFinal(q)
  BY <1>1, BeginCarries, ContinueCarries DEF OnlyRequest
<1>2. ASSUME NEW p \in Processes, Sweep(p) \/ SweepFails(p)
      PROVE  request'[q] = request[q]
  <2>1. CASE CommitSweep(p) \/ SweepFails(p)
    BY <2>1, SweepOver, IdlePhase DEF OnlyRequest, Carrying
  <2>2. CASE ReadOpenKeys(p) \/ SweepRow(p) \/ SweepOrphans(p)
    BY <2>2 DEF ReadOpenKeys, SweepRow, SweepOrphans
  <2> QED
    BY <1>2, <2>1, <2>2 DEF Sweep
<1>3. CASE Crash
  BY <1>3, CrashEffect, IdlePhase DEF Carrying
<1>4. ASSUME \/ \E p \in Sweepers : StartSweep(p)
             \/ \E u \in Uploads : PurgeDocument(u) \/ Expire(u) \/ GrowOld(u)
             \/ \E f \in Files : SeedDocument(f) \/ PurgeSeeded(f)
             \/ UNCHANGED vars
      PROVE  request'[q] = request[q]
  BY <1>4 DEF StartSweep, PurgeDocument, Expire, GrowOld, SeedDocument, PurgeSeeded, vars
<1> QED
  BY <1>1, <1>2, <1>3, <1>4 DEF Next


(* What a request holds, nobody else confirms, closes or writes to.         *)
LEMMA HeldStays ==
  ASSUME TypeOK, Control, Reliable, [Next]_vars, NEW q \in Requests, NEW u \in Uploads,
         request[q].phase \in Carrying, request[q].upload = u, request'[q] = request[q]
  PROVE  /\ receipts'[u] = receipts[u]
         /\ request[q].phase = "confirm" => temporary'[u] = temporary[u]
<1>1. holder[u] = q /\ HasRow(u) /\ sweep[q] = Asleep /\ q \in Processes
  BY NotSweeping DEF Control, RequestHolds, Locking, Completing, Carrying, Processes
<1>2. receipts'[u] = receipts[u]
  <2>1. ~Opens(u)
    BY <1>1 DEF Opens, HasRow
  <2>2. ASSUME NEW r \in Requests, Confirms(r, u) PROVE FALSE
    BY <1>1, <2>2, IdlePhase DEF Confirms, Carrying
  <2>3. ASSUME NEW x \in Processes, ClosedBy(x, u) PROVE FALSE
    BY <1>1, <2>3 DEF ClosedBy, Carrying, Asleep
  <2> QED
    BY <2>1, <2>2, <2>3, RowFates DEF Completes
<1>3. ASSUME request[q].phase = "confirm"
      PROVE  temporary'[u] = temporary[u]
  <2>1. /\ status[u] = "open" /\ Len(receipts[u]) < Parts /\ receipts[u] \in Contents
        /\ Disk(u) /\ temporary[u] \in Contents \union {None}
    BY <1>3 DEF Control, RequestHolds, TypeOK, Reliable
  <2>2. final[u] = None
    BY <2>1, SizeFacts, PartsAssumption DEF Disk
  <2>3. ASSUME NEW r \in Requests, AppendPart(r) \/ RemoveFiles(r) \/ MoveToFinal(r)
        PROVE  temporary'[u] = temporary[u]
    <3>1. /\ request[r].phase \in {"append", "expire", "cancel", "fail", "move"}
          /\ holder[request[r].upload] = r
      BY <2>3 DEF AppendPart, RemoveFiles, MoveToFinal, Control, RequestHolds, Locking,
         Completing
    <3>2. request[r].upload # u
      BY <1>1, <1>3, <3>1
    <3>3. \A v \in Uploads : v # request[r].upload => temporary'[v] = temporary[v]
      BY <2>3 DEF AppendPart, RemoveFiles, MoveToFinal, TypeOK
    <3> QED
      BY <3>2, <3>3
  <2>4. ASSUME NEW r \in Requests, MoveBack(r)
        PROVE  temporary'[u] = temporary[u]
    BY <2>2, <2>4 DEF MoveBack, TypeOK
  <2>5. ASSUME NEW p \in Processes, SweepRow(p)
        PROVE  temporary'[u] = temporary[u]
    <3>1. PICK v \in sweep[p].todo : v \in Uploads /\ RowDone(p, v)
      BY <2>5, RowSwept
    <3>2. holder[v] = p
      BY <3>1 DEF Control, SweepHolds
    <3>3. u # v
      BY <1>1, <3>1, <3>2 DEF Asleep
    <3> QED
      BY <3>1, <3>3 DEF RowDone
  <2>6. ASSUME NEW p \in Processes, SweepOrphans(p)
        PROVE  temporary'[u] = temporary[u]
    <3>1. SweepKnows(p) /\ sweep[p].phase = "rows"
      BY <2>6 DEF Reliable, SweepOrphans
    <3>2. CASE temporary[u] = None
      BY <2>6, <3>2 DEF SweepOrphans, TypeOK
    <3>3. CASE temporary[u] # None
      <4>1. p \in Sweepers => u \in sweep[p].known \/ young[u]
        BY <2>1, <3>1, <3>3 DEF SweepKnows, OnDisk
      <4> QED
        BY <2>6, <4>1 DEF SweepOrphans
    <3> QED
      BY <3>2, <3>3
  <2>7. ASSUME NEW v \in Uploads, PurgeDocument(v)
        PROVE  temporary'[u] = temporary[u]
    BY <2>7 DEF PurgeDocument
  <2> QED
    BY <2>3, <2>4, <2>5, <2>6, <2>7, WorkIsApart DEF FileWork
<1> QED
  BY <1>2, <1>3

LEMMA CarriesStep ==
  ASSUME TypeOK, Control, Reliable, Matched, [Next]_vars, NEW q \in Requests
  PROVE  Carries(q)'
<1> SUFFICES ASSUME request'[q].phase \in Carrying
             PROVE  Carries(q)'
  BY DEF Carries, Carrying
<1>1. CASE request'[q] = request[q]
  <2>1. PICK u \in Uploads : request[q].upload = u
    BY <1>1 DEF Control, RequestHolds, Locking, Completing, Carrying
  <2>2. /\ receipts'[u] = receipts[u]
        /\ request[q].phase = "confirm" => temporary'[u] = temporary[u]
    BY <1>1, <2>1, HeldStays
  <2> QED
    BY <1>1, <2>1, <2>2 DEF Matched, Carries
<1>2. CASE AppendPart(q)
  <2>1. PICK u \in Uploads : Appends(q, u)
    BY <1>2, AppendEffect
  <2> DEFINE r == receipts[u]
             t == temporary[u]
  <2>2. PICK b \in Bytes \union {"torn"} :
          /\ ~(Size(t) < Len(r)) /\ temporary'[u] = Append(Prefix(t, Len(r)), b)
          /\ b = request[q].bytes /\ Proceeds(q, "confirm")
    BY <2>1 DEF Appends, Carrying
  <2>3. /\ r \in Contents /\ t \in Contents \union {None} /\ Agree(t, r)
        /\ request[q].upload = u /\ receipts'[u] = r
    BY <1>2, <2>1 DEF Appends, TypeOK, Matched, Agreed, AppendPart, rowVars
  <2>4. Prefix(t, Len(r)) = r
    <3>1. CASE t = None
      BY <2>2, <2>3, <3>1, SizeFacts DEF Size, Prefix
    <3>2. CASE t # None
      <4>1. Len(r) <= Len(t)
        BY <2>2, <2>3, <3>2, SizeFacts DEF Size
      <4> QED
        BY <2>3, <3>2, <4>1, AgreeOnPrefix
    <3> QED
      BY <3>1, <3>2
  <2> QED
    BY <2>2, <2>3, <2>4 DEF Proceeds, Carries
<1>3. CASE MoveToFinal(q)
  <2>1. PICK u \in Uploads :
          /\ request[q].phase = "move" /\ request[q].upload = u /\ status[u] = "open"
          /\ Len(receipts[u]) = Parts /\ temporary[u] = Declared
    BY <1>3 DEF MoveToFinal, Control, RequestHolds, Reliable, RequestRelies, Locking, Completing
  <2>2. receipts[u] = Declared
    BY <2>1, AgreeOnEqual, DeclaredFacts DEF Matched, Agreed, TypeOK
  <2>3. Proceeds(q, "publish") /\ UNCHANGED receipts
    BY <1>3, GoToProceeds DEF MoveToFinal, Phases, rowVars
  <2> QED
    BY <2>1, <2>2, <2>3 DEF Proceeds, Carries
<1> QED
  BY <1>1, <1>2, <1>3, Carriers

LEMMA MatchedStep ==
  ASSUME TypeOK, Control, Reliable, Matched, [Next]_vars
  PROVE  Matched'
BY AgreedStep, CarriesStep DEF Matched

LEMMA MatchedInit == Init => Matched
BY DEF Init, Matched, Agreed, Carries, Idle

-----------------------------------------------------------------------------
(* The client's view.                                                      *)

LEMMA OriginalAs ==
  ASSUME Reliable
  PROVE  Original = [u \in Uploads |-> IF document[u] /\ ~undone[u] THEN Declared ELSE None]
BY DEF Reliable, Disk, Original

LEMMA OriginalNext ==
  ASSUME Reliable'
  PROVE  Original' = [u \in Uploads |-> IF document'[u] /\ ~undone'[u] THEN Declared ELSE None]
BY DEF Reliable, Disk, Original

LEMMA SameView ==
  ASSUME Reliable, Reliable', UNCHANGED document,
         \A u \in Uploads : document[u] => undone'[u] = undone[u]
  PROVE  UNCHANGED <<Original, Loose>>
<1>1. UNCHANGED Original
  BY OriginalAs, OriginalNext
<1>2. UNCHANGED Loose
  BY DEF Loose, Live
<1> QED
  BY <1>1, <1>2

LEMMA UndoneStays ==
  ASSUME TypeOK, Control, Reliable, NEW q \in Requests,
         \E reason \in Errors : Undo(q, reason)
  PROVE  \A u \in Uploads : document[u] => undone'[u] = undone[u]
<1> DEFINE u == request[q].upload
<1>1. u \in Uploads /\ status[u] = "open" /\ Disk(u)
  BY DEF Undo, Control, RequestHolds, Locking, Completing, Reliable
<1>2. ~document[u]
  BY <1>1 DEF Disk
<1>3. \A v \in Uploads : v # u => undone'[v] = undone[v]
  BY <1>1 DEF Undo, TypeOK
<1> QED
  BY <1>2, <1>3

LEMMA WorkOrQuiet ==
  ASSUME TypeOK, Control, Reliable, [Next]_vars
  PROVE  \/ RowWork
         \/ \E u \in Uploads : PurgeDocument(u)
         \/ /\ UNCHANGED <<status, receipts, document>>
            /\ \A u \in Uploads : document[u] => undone'[u] = undone[u]
<1> USE DEF documentVars, historyVars
<1> DEFINE Quiet == /\ UNCHANGED document
                    /\ \A u \in Uploads : document[u] => undone'[u] = undone[u]
<1>1. ASSUME NEW q \in Requests, Begin(q)
      PROVE  Quiet
  BY <1>1 DEF Begin, StartExpired, StartCancel, StartComplete, StartPart, StartCreate
<1>2. ASSUME NEW q \in Requests,
             Continue(q) \/ PublishFails(q) \/ PublishUnanswered(q) \/ CommitFails(q)
      PROVE  RowWork \/ Quiet
  <2>1. CASE PublishDuplicate(q) \/ PublishFails(q)
    <3>1. \E reason \in Errors : Undo(q, reason)
      BY <2>1 DEF PublishDuplicate, PublishFails, Errors
    <3> QED
      BY <2>1, <3>1, UndoneStays DEF PublishDuplicate, PublishFails
  <2>2. CASE \/ AppendPart(q) \/ RemoveFiles(q) \/ Verify(q) \/ Admit(q) \/ MoveToFinal(q)
             \/ MoveBack(q) \/ Relock(q) \/ Look(q) \/ Touch(q) \/ Count(q) \/ CommitFails(q)
    BY <2>2 DEF AppendPart, RemoveFiles, Verify, Admit, MoveToFinal, MoveBack, Relock,
       Look, Touch, Count, CommitFails
  <2> QED
    BY <1>2, <2>1, <2>2 DEF Continue, RowWork
<1>3. ASSUME NEW p \in Processes, Sweep(p) \/ SweepFails(p)
      PROVE  RowWork \/ Quiet
  BY <1>3 DEF Sweep, SweepFails, ReadOpenKeys, SweepRow, SweepOrphans, RowWork
<1>4. ASSUME \/ \E p \in Sweepers : StartSweep(p)
             \/ \E u \in Uploads : Expire(u) \/ GrowOld(u)
             \/ \E f \in Files : SeedDocument(f) \/ PurgeSeeded(f)
             \/ Crash
             \/ UNCHANGED vars
      PROVE  Quiet
  BY <1>4 DEF StartSweep, Expire, GrowOld, SeedDocument, PurgeSeeded, Crash, vars
<1> QED
  BY <1>1, <1>2, <1>3, <1>4, WorkIsApart DEF Next

LEMMA ClosesView ==
  ASSUME Reliable, Reliable', NEW S \in SUBSET Uploads,
         \A u \in S : \E x : ClosedBy(x, u),
         \A v \in Uploads : v \notin S => status'[v] = status[v] /\ receipts'[v] = receipts[v],
         TypeOK, TypeOK', UNCHANGED <<document, undone>>
  PROVE  Resumable!Close(S)
<1>1. UNCHANGED <<Original, Loose>>
  BY SameView
<1>2. \A u \in S : Life[u] # "absent"
  BY DEF Life, ClosedBy
<1>3. Life' = [u \in Uploads |-> IF u \in S THEN "over" ELSE Life[u]]
  BY DEF Life, ClosedBy
<1>4. receipts' = [u \in Uploads |-> IF u \in S THEN <<>> ELSE receipts[u]]
  BY DEF ClosedBy, TypeOK
<1> QED
  BY <1>1, <1>2, <1>3, <1>4 DEF Resumable!Close

LEMMA ConfirmView ==
  ASSUME TypeOK, TypeOK', Control, Reliable, Reliable', NEW q \in Requests, Confirm(q)
  PROVE  \E u \in Uploads, b \in Bytes : Resumable!Receive(u, b)
<1>1. PICK u \in Uploads :
        /\ Confirms(q, u) /\ Len(receipts[u]) < Parts /\ request[q].bytes \in Bytes
        /\ \A v \in Uploads : v # u => receipts'[v] = receipts[v]
        /\ UNCHANGED <<status, document, undone>>
  BY ConfirmEffect
<1> DEFINE b == request[q].bytes
<1>2. UNCHANGED <<Original, Loose>>
  BY <1>1, SameView
<1>3. UNCHANGED Life /\ Life[u] = "open"
  BY <1>1 DEF Life, Confirms
<1>4. receipts' = [receipts EXCEPT ![u] = Append(receipts[u], b)]
  BY <1>1 DEF Confirms, TypeOK
<1>5. Resumable!Receive(u, b)
  BY <1>1, <1>2, <1>3, <1>4, DeclaredFacts DEF Resumable!Receive
<1> QED
  BY <1>1, <1>5

LEMMA PublishView ==
  ASSUME TypeOK, TypeOK', Control, Reliable, Reliable', Matched, NEW q \in Requests,
         Publish(q) \/ PublishUnanswered(q)
  PROVE  \E u \in Uploads : Resumable!Keep(u)
<1>1. PICK u \in Uploads :
        /\ request[q].phase = "publish" /\ request[q].upload = u /\ Completes(u)
        /\ document' = [document EXCEPT ![u] = TRUE]
        /\ undone' = undone \/ undone' = [undone EXCEPT ![u] = TRUE]
        /\ \A v \in Uploads : v # u => status'[v] = status[v]
        /\ UNCHANGED receipts
  BY PublishEffect
<1>2. receipts[u] = Declared
  BY <1>1 DEF Matched, Carries
<1>3. Life[u] = "open" /\ Life' = [Life EXCEPT ![u] = "over"]
  <2>1. Life[u] = "open" /\ \A v \in Uploads : Life'[v] = IF v = u THEN "over" ELSE Life[v]
    BY <1>1 DEF Life, Completes
  <2> QED
    BY <2>1 DEF Life
<1>4. ~document[u] /\ Original[u] = None
  BY <1>1 DEF Reliable, Disk, Completes, Original
<1>5. document'[u] /\ \A v \in Uploads : v # u => document'[v] = document[v]
  BY <1>1 DEF TypeOK
<1>6. \A v \in Uploads : v # u => undone'[v] = undone[v]
  BY <1>1 DEF TypeOK
<1>7. CASE undone'[u]
  <2>1. Original' = Original
    BY <1>4, <1>5, <1>6, <1>7, OriginalAs, OriginalNext
  <2>2. Loose' = Loose \union {u}
    BY <1>5, <1>6, <1>7 DEF Loose, Live
  <2> QED
    BY <1>1, <1>2, <1>3, <2>1, <2>2 DEF Resumable!Keep
<1>8. CASE ~undone'[u]
  <2>1. Original' = [Original EXCEPT ![u] = receipts[u]]
    BY <1>2, <1>5, <1>6, <1>8, OriginalAs, OriginalNext
  <2>2. Loose' = Loose
    BY <1>4, <1>5, <1>6, <1>8 DEF Loose, Live
  <2> QED
    BY <1>1, <1>2, <1>3, <2>1, <2>2 DEF Resumable!Keep
<1> QED
  BY <1>7, <1>8

LEMMA PurgeView ==
  ASSUME TypeOK, Reliable, Reliable', NEW u \in Uploads, PurgeDocument(u)
  PROVE  Resumable!Delete(u)
<1>1. /\ document[u] /\ ~document'[u] /\ UNCHANGED <<status, receipts, undone>>
      /\ \A v \in Uploads : v # u => document'[v] = document[v]
  BY DEF PurgeDocument, TypeOK, rowVars, historyVars
<1>2. Original[u] # None \/ u \in Loose
  <2>1. Declared # None
    BY DeclaredFacts, SizeFacts
  <2> QED
    BY <1>1, <2>1, OriginalAs DEF Loose, Live
<1>3. Original' = [Original EXCEPT ![u] = None]
  BY <1>1, OriginalAs, OriginalNext
<1>4. Loose' = Loose \ {u}
  BY <1>1 DEF Loose, Live
<1>5. UNCHANGED Life
  BY <1>1 DEF Life
<1> QED
  BY <1>1, <1>2, <1>3, <1>4, <1>5 DEF Resumable!Delete

LEMMA InsertView ==
  ASSUME TypeOK, Reliable, Reliable', NEW q \in Requests, Insert(q)
  PROVE  \/ UNCHANGED <<Life, receipts, Original, Loose>>
         \/ \E u \in Uploads : Resumable!Open(u)
<1>1. /\ \/ UNCHANGED <<status, receipts>>
         \/ \E u \in Uploads :
              Opens(u) /\ status' = [status EXCEPT ![u] = "open"] /\ UNCHANGED receipts
      /\ UNCHANGED <<document, undone>>
  BY InsertEffect
<1>2. UNCHANGED <<Original, Loose>>
  BY <1>1, SameView
<1>3. CASE UNCHANGED <<status, receipts>>
  BY <1>2, <1>3 DEF Life
<1>4. ASSUME NEW u \in Uploads, Opens(u), status' = [status EXCEPT ![u] = "open"],
             UNCHANGED receipts
      PROVE  Resumable!Open(u)
  <2>1. Life[u] = "absent" /\ Life' = [Life EXCEPT ![u] = "open"]
    BY <1>4 DEF Life, Opens, TypeOK
  <2> QED
    BY <1>2, <1>4, <2>1 DEF Resumable!Open
<1> QED
  BY <1>1, <1>3, <1>4

LEMMA ResumableStep ==
  ASSUME TypeOK, TypeOK', Control, Reliable, Reliable', Matched, [Next]_vars
  PROVE  [Resumable!Next]_(Resumable!vars)
<1>1. CASE RowWork
  <2>1. ASSUME NEW q \in Requests, DeleteRow(q) \/ FailRow(q)
        PROVE  \E S \in SUBSET Uploads : Resumable!Close(S)
    <3>1. PICK u \in Uploads :
            /\ ClosedBy(q, u)
            /\ \A v \in Uploads : v # u => status'[v] = status[v] /\ receipts'[v] = receipts[v]
            /\ UNCHANGED <<document, undone>>
      BY <2>1, RowClosed
    <3>2. Resumable!Close({u})
      BY <3>1, ClosesView
    <3> QED
      BY <3>2
  <2>2. ASSUME NEW p \in Processes, CommitSweep(p)
        PROVE  \E S \in SUBSET Uploads : Resumable!Close(S)
    <3> DEFINE S == sweep[p].delete \union sweep[p].fail
    <3>1. /\ \A u \in S : u \in Uploads /\ ClosedBy(p, u)
          /\ \A v \in Uploads : v \notin S =>
               status'[v] = status[v] /\ receipts'[v] = receipts[v]
          /\ UNCHANGED <<document, undone>>
      BY <2>2, SweepCloses
    <3>2. S \in SUBSET Uploads
      BY <3>1
    <3> HIDE DEF S
    <3>3. Resumable!Close(S)
      BY <3>1, <3>2, ClosesView
    <3> QED
      BY <3>2, <3>3
  <2>3. ASSUME NEW q \in Requests, Insert(q)
        PROVE  [Resumable!Next]_(Resumable!vars)
    BY <2>3, InsertView DEF Resumable!Next, Resumable!vars
  <2> QED
    BY <1>1, <2>1, <2>2, <2>3, ConfirmView, PublishView DEF RowWork, Resumable!Next
<1>2. ASSUME NEW u \in Uploads, PurgeDocument(u)
      PROVE  [Resumable!Next]_(Resumable!vars)
  BY <1>2, PurgeView DEF Resumable!Next
<1>3. CASE /\ UNCHANGED <<status, receipts, document>>
           /\ \A u \in Uploads : document[u] => undone'[u] = undone[u]
  <2>1. UNCHANGED <<Original, Loose>>
    BY <1>3, SameView
  <2> QED
    BY <1>3, <2>1 DEF Life, Resumable!vars
<1> QED
  BY <1>1, <1>2, <1>3, WorkOrQuiet

-----------------------------------------------------------------------------
(* The theorems.                                                           *)

LEMMA Initially ==
  ASSUME Init
  PROVE  TypeOK /\ Control /\ Reliable /\ Room
<1>1. TypeOK
  BY IdleIsAState, EmptyFacts DEF Init, TypeOK, Errors, FaultKinds, Processes
<1>2. Control
  BY DEF Init, Control, RequestHolds, SweepHolds, Idle, Asleep, Locking, Completing
<1>3. Reliable
  <2>1. \A u \in Uploads : Disk(u) /\ Recovered(u)
    BY DEF Init, Disk, Recovered
  <2>2. \A q \in Requests : RequestRelies(q)
    BY DEF Init, RequestRelies, Idle
  <2>3. \A p \in Processes : SweepRelies(p) /\ SweepKnows(p)
    BY DEF Init, SweepRelies, SweepKnows, Asleep
  <2> QED
    BY <2>1, <2>2, <2>3 DEF Reliable
<1>4. Room
  <2>1. Live = {} /\ seeded = {}
    BY DEF Init, Live
  <2>2. \A q \in Requests : request[q].phase = "idle"
    BY DEF Init, Idle
  <2> QED
    BY <2>1, <2>2, FS_EmptySet, LimitAssumption DEF Room
<1> QED
  BY <1>1, <1>2, <1>3, <1>4

(* Every variable keeps its type: no part, no completion and no sweep makes *)
(* a file longer than the file that was declared.                          *)
THEOREM TypeCorrect == Spec => []TypeOK
<1>1. Init => TypeOK /\ Control /\ Reliable
  BY Initially
<1>2. TypeOK /\ Control /\ Reliable /\ [Next]_vars => (TypeOK /\ Control /\ Reliable)'
  BY TypesStep, FilesStep
<1> QED
  BY <1>1, <1>2, PTL DEF Spec

(* The locks are held as the code means them to be, the files are what     *)
(* those who hold a row have seen, and there is room for a Document        *)
(* whenever one is inserted.                                               *)
THEOREM Inductive == Spec => [](TypeOK /\ Control /\ Reliable /\ Room)
<1>1. Init => TypeOK /\ Control /\ Reliable /\ Room
  BY Initially
<1>2. TypeOK /\ Control /\ Reliable /\ Room /\ [Next]_vars
        => (TypeOK /\ Control /\ Reliable /\ Room)'
  BY TypesStep, FilesStep, RoomStep
<1> QED
  BY <1>1, <1>2, PTL DEF Spec

(* The confirmed bytes of an open session are on disk in every state, also *)
(* between any two file operations of anybody, unless somebody began to    *)
(* remove its files.                                                       *)
THEOREM CheckpointSurvives == Spec => []CheckpointOnDisk
<1>1. Reliable => CheckpointOnDisk
  BY DEF Reliable, Disk, Kept, CheckpointOnDisk, Open
<1> QED
  BY <1>1, Inductive, PTL

(* No Document lacks its original, and no original is another file than    *)
(* the one that was declared, whoever completes, sweeps, cancels or purges *)
(* at the same time.                                                       *)
THEOREM OriginalStays == Spec => []OriginalIntact
<1>1. Reliable => OriginalIntact
  BY DEF Reliable, Disk, OriginalIntact, Live
<1> QED
  BY <1>1, Inductive, PTL

(* No part, no completion and no sweep ever finds confirmed bytes missing, *)
(* however often requests die on the way.                                  *)
THEOREM CheckpointsAreFound == Spec => []NoCheckpointLost
<1>1. Reliable => NoCheckpointLost
  BY DEF Reliable, RequestRelies, SweepRelies, Excused, NoCheckpointLost
<1> QED
  BY <1>1, Inductive, PTL

(* A final file belongs to a session or to a Document.                     *)
THEOREM FinalFilesBelong == Spec => []NoStrayOriginal
<1>1. Reliable => NoStrayOriginal
  BY DEF Reliable, Disk, NoStrayOriginal, HasRow
<1> QED
  BY <1>1, Inductive, PTL

(* However many completions count the Documents at once, uploads make no   *)
(* more of them than allowed.                                              *)
THEOREM UploadsAreLimited == Spec => []DocumentLimitHolds
<1>1. Room => DocumentLimitHolds
  BY DEF Room, DocumentLimitHolds
<1> QED
  BY <1>1, Inductive, PTL

(* A client's file is never more, nor less, than was confirmed to it, and  *)
(* becomes one Document at most, whose original nothing touches: a part is *)
(* appended, the file moved and the row written by different steps, any of *)
(* which may fail.                                                         *)
THEOREM UploadsAreResumable == Spec => FileSpec
<1>1. Init => Resumable!Init
  <2> SUFFICES ASSUME Init PROVE Resumable!Init
    OBVIOUS
  <2>1. Loose = {} /\ Life = [u \in Uploads |-> "absent"]
        /\ Original = [u \in Uploads |-> None]
    BY DEF Init, Loose, Live, Life, Original
  <2> QED
    BY <2>1 DEF Init, Resumable!Init
<1>2. Init => TypeOK /\ Control /\ Reliable /\ Matched
  BY Initially, MatchedInit
<1>3. TypeOK /\ Control /\ Reliable /\ Matched /\ [Next]_vars
        => (TypeOK /\ Control /\ Reliable /\ Matched)'
  BY TypesStep, FilesStep, MatchedStep
<1>4. TypeOK /\ Control /\ Reliable /\ Matched /\ [Next]_vars
        => [Resumable!Next]_(Resumable!vars)
  BY <1>3, ResumableStep
<1> QED
  BY <1>1, <1>2, <1>3, <1>4, PTL DEF Spec, FileSpec, Resumable!Spec

=============================================================================
