------------------------ MODULE RetrievalCacheProofs ------------------------
(***************************************************************************)
(* What holds of RetrievalCache for any number of Documents, turns, filters *)
(* and changes.                                                            *)
(***************************************************************************)
EXTENDS RetrievalCache, FiniteSetTheorems, TLAPS

(* A Document that is searchable has been given a batch. *)
BatchInv == \A d \in Documents : document[d].status = "ready" => document[d].batch > 0

(* A turn under way has seen everything that is searchable now, and what   *)
(* it has found was searchable, within its filters.                        *)
LivedInv ==
  /\ \A t \in Running : Live \subseteq turn[t].lived
  /\ \A t \in Turns : turn[t].evidence \subseteq Of(turn[t].lived, Admitted[turn[t].filters])

(* Only a finished turn is a hit, and it was served one batch a Document. *)
HitInv ==
  \A t \in Turns : turn[t].hit =>
    /\ turn[t].step = "done"
    /\ \A c1, c2 \in turn[t].evidence : c1[1] = c2[1] => c1 = c2

(* What was searchable all along, except what was restored meanwhile. *)
Unrestored(chunks, docs) == {c \in chunks : c[1] \notin docs}

(* What a turn has seen all along. Two turns of one generation saw the     *)
(* same, up to what was restored before the later of them began.           *)
SteadyInv ==
  /\ \A t \in Running : turn[t].steady \subseteq Live /\ turn[t].generation <= generation
  /\ \A t \in Running : turn[t].generation = generation =>
       Unrestored(Live, restored) \subseteq turn[t].steady
  /\ \A t, u \in Running : turn[t].generation = turn[u].generation =>
       Unrestored(turn[t].steady, turn[t].restored) \subseteq turn[u].steady

(* [chunks] has all of [seen] that filters of the key of [f] let through. *)
Covers(chunks, seen, f) == \E g \in Alike(f) : Of(seen, Admitted[g]) \subseteq chunks

(* What a turn must not overlook. *)
SeenBy(t) == Unrestored(turn[t].steady, turn[t].restored)

(* What the entries hold: all of what is searchable now, if they are of    *)
(* the present generation, and all of what a turn that reads one saw.      *)
EntryInv ==
  /\ \A k \in DOMAIN cache : k[1] <= generation
  /\ \A f \in Filters : <<generation, Normalized[f]>> \in DOMAIN cache =>
       Covers(cache[<<generation, Normalized[f]>>].chunks, Unrestored(Live, restored), f)
  /\ \A t \in Running : Key(t) \in DOMAIN cache =>
       Covers(cache[Key(t)].chunks, SeenBy(t), turn[t].filters)

(* What the turns have found by now. *)
FoundInv ==
  /\ \A t \in Turns : turn[t].step \in {"lexical", "write"} =>
       Of(turn[t].steady, Admitted[turn[t].filters]) \subseteq turn[t].evidence
  /\ \A t \in Turns : turn[t].step = "load" =>
       Covers(turn[t].payload.chunks, SeenBy(t), turn[t].filters)
  /\ \A t \in Turns : turn[t].step = "done" =>
       IF turn[t].hit
       THEN Covers(turn[t].evidence, SeenBy(t), turn[t].filters)
       ELSE Of(SeenBy(t), Admitted[turn[t].filters]) \subseteq turn[t].evidence

Shape ==
  /\ TypeOK /\ BatchInv
  /\ \A t \in Turns : turn[t].step # "idle" => turn[t].filters \in Filters
  /\ \A t \in Turns : turn[t].step = "load" => turn[t].payload \in Entries

IInv == Shape /\ LivedInv /\ HitInv /\ SteadyInv /\ EntryInv /\ FoundInv

-----------------------------------------------------------------------------
(* Sets of chunks. *)

LEMMA LiveIsStored ==
  ASSUME TypeOK, BatchInv
  PROVE  Live \subseteq Chunks
BY DEF TypeOK, BatchInv, Live, LiveIn, ChunkOf, Chunks

(* No two chunks that are searchable are of one Document. *)
LEMMA LiveIsOneBatch ==
  ASSUME NEW c1 \in Live, NEW c2 \in Live, c1[1] = c2[1]
  PROVE  c1 = c2
BY DEF Live, LiveIn, ChunkOf

LEMMA OfMonotone ==
  ASSUME NEW c, NEW d, c \subseteq d, NEW s
  PROVE  Of(c, s) \subseteq Of(d, s)
BY DEF Of

LEMMA OfUnrestored ==
  ASSUME NEW c, NEW d, NEW s
  PROVE  Of(Unrestored(c, d), s) = Of(c, s \ d)
BY DEF Of, Unrestored

(* What covers more covers less, ... *)
LEMMA CoversLess ==
  ASSUME NEW c, NEW seen, NEW less, less \subseteq seen, NEW f, Covers(c, seen, f)
  PROVE  Covers(c, less, f)
BY DEF Covers, Of

(* ... for all filters of a key, ... *)
LEMMA CoversAlike ==
  ASSUME NEW c, NEW seen, NEW f, NEW g, Normalized[f] = Normalized[g], Covers(c, seen, f)
  PROVE  Covers(c, seen, g)
BY DEF Covers, Alike

(* ... and what has all that some filters let through does for them. *)
LEMMA CoversOwn ==
  ASSUME NEW c, NEW seen, NEW f \in Filters, Of(seen, Admitted[f]) \subseteq c
  PROVE  Covers(c, seen, f)
BY DEF Covers, Alike

-----------------------------------------------------------------------------
(* The steps, seen as changes to the Documents or to one turn. *)

(* A change to the Documents makes searchable only what is of a new        *)
(* generation, or is remembered as restored.                               *)
DocumentStep ==
  /\ Witness /\ UNCHANGED <<cache, rounds>>
  /\ changes' \in 0..MaxChanges
  /\ \/ generation' = generation + 1 /\ restored' = {}
     \/ /\ generation' = generation
        /\ restored \subseteq restored' /\ restored' \subseteq Documents
        /\ Unrestored(LiveIn(document'), restored') \subseteq Live

LEMMA ChangesType ==
  ASSUME TypeOK, NEW d \in Documents, NEW row, Changes([document EXCEPT ![d] = row]),
         row \in [status : {"ready", "hidden", "deleting", "gone"}, batch : 0..MaxBatches],
         row.status = "ready" => row.batch > 0, BatchInv
  PROVE  /\ document' \in [Documents -> [status : {"ready", "hidden", "deleting", "gone"},
                                         batch : 0..MaxBatches]]
         /\ BatchInv'
         /\ changes' \in 0..MaxChanges
         /\ \A e \in Documents : e # d => document'[e] = document[e]
         /\ document'[d] = row
BY RetrievalCacheAssumption DEF TypeOK, BatchInv, Changes

LEMMA DocumentStepType ==
  ASSUME Shape, NEW d \in Documents,
         Publish(d) \/ Hide(d) \/ Restore(d) \/ Delete(d) \/ Purge(d)
  PROVE  /\ DocumentStep
         /\ document' \in [Documents -> [status : {"ready", "hidden", "deleting", "gone"},
                                         batch : 0..MaxBatches]]
         /\ BatchInv'
<1> DEFINE Becoming(status) == [document EXCEPT ![d] = [document[d] EXCEPT !.status = status]]
<1>1. document[d] \in [status : {"ready", "hidden", "deleting", "gone"}, batch : 0..MaxBatches]
  BY DEF Shape, TypeOK
<1>2. TypeOK /\ BatchInv
  BY DEF Shape
<1>3. CASE Publish(d)
  <2> DEFINE row == [status |-> "ready", batch |-> document[d].batch + 1]
  <2>1. row \in [status : {"ready", "hidden", "deleting", "gone"}, batch : 0..MaxBatches]
        /\ row.batch > 0
    BY <1>1, <1>3, RetrievalCacheAssumption DEF Publish
  <2>2. Changes([document EXCEPT ![d] = row]) /\ Bump
    BY <1>3 DEF Publish
  <2> HIDE DEF row
  <2>3. QED
    BY <1>2, <2>1, <2>2, ChangesType DEF DocumentStep, Changes, Bump
<1>4. ASSUME NEW status \in {"hidden", "deleting", "gone"}, Becomes(d, status)
      PROVE  /\ Changes([document EXCEPT ![d] = [document[d] EXCEPT !.status = status]])
             /\ document' \in [Documents -> [status : {"ready", "hidden", "deleting", "gone"},
                                             batch : 0..MaxBatches]]
             /\ BatchInv'
             /\ changes' \in 0..MaxChanges
             /\ LiveIn(document') \subseteq Live
  <2> DEFINE row == [document[d] EXCEPT !.status = status]
  <2>1. row \in [status : {"ready", "hidden", "deleting", "gone"}, batch : 0..MaxBatches]
        /\ row.status = status
    BY <1>1
  <2>2. Changes([document EXCEPT ![d] = row])
    BY <1>4, <1>2 DEF Becomes, TypeOK
  <2> HIDE DEF row
  <2>3. /\ document' \in [Documents -> [status : {"ready", "hidden", "deleting", "gone"},
                                        batch : 0..MaxBatches]]
        /\ BatchInv' /\ changes' \in 0..MaxChanges
        /\ \A e \in Documents : e # d => document'[e] = document[e]
        /\ document'[d] = row
    BY <1>2, <2>1, <2>2, ChangesType
  <2>4. LiveIn(document') \subseteq Live
    BY <2>1, <2>3 DEF Live, LiveIn, ChunkOf
  <2>5. QED
    BY <2>2, <2>3, <2>4 DEF row
<1>5. CASE Hide(d)
  BY <1>4, <1>5, <1>2 DEF Hide, DocumentStep, Changes, Unrestored, TypeOK
<1>6. CASE Delete(d)
  BY <1>4, <1>6 DEF Delete, DocumentStep, Changes, Bump
<1>7. CASE Purge(d)
  BY <1>4, <1>7 DEF Purge, DocumentStep, Changes, Bump
<1>8. CASE Restore(d)
  <2> DEFINE row == [document[d] EXCEPT !.status = "ready"]
  <2>1. row \in [status : {"ready", "hidden", "deleting", "gone"}, batch : 0..MaxBatches]
        /\ row.batch > 0
    BY <1>1, <1>8 DEF Restore
  <2>2. Changes([document EXCEPT ![d] = row])
    BY <1>8, <1>2 DEF Restore, Becomes, TypeOK
  <2> HIDE DEF row
  <2>3. /\ document' \in [Documents -> [status : {"ready", "hidden", "deleting", "gone"},
                                        batch : 0..MaxBatches]]
        /\ BatchInv' /\ changes' \in 0..MaxChanges
        /\ \A e \in Documents : e # d => document'[e] = document[e]
    BY <1>2, <2>1, <2>2, ChangesType
  <2>4. Unrestored(LiveIn(document'), restored') \subseteq Live
    BY <2>3, <1>8 DEF Restore, Unrestored, Live, LiveIn, ChunkOf
  <2>5. restored' = restored \cup {d} /\ generation' = generation /\ restored \subseteq Documents
    BY <1>8, <1>2 DEF Restore, TypeOK
  <2>6. QED
    BY <2>2, <2>3, <2>4, <2>5 DEF DocumentStep, Changes
<1>9. QED
  BY <1>3, <1>5, <1>6, <1>7, <1>8

(* The turns under such a step: only what they remember of it changes. *)
LEMMA WitnessEffect ==
  ASSUME TypeOK, Witness, document' \in [Documents -> [status : {"ready", "hidden", "deleting", "gone"},
                                                       batch : 0..MaxBatches]], BatchInv'
  PROVE  /\ turn' \in [Turns -> TurnStates]
         /\ Running' = Running
         /\ \A t \in Turns \ Running : turn'[t] = turn[t]
         /\ \A t \in Running : /\ turn'[t].lived = turn[t].lived \cup Live'
                               /\ turn'[t].steady = turn[t].steady \cap Live'
         /\ \A t \in Turns :
              /\ turn'[t].step = turn[t].step /\ turn'[t].filters = turn[t].filters
              /\ turn'[t].generation = turn[t].generation
              /\ turn'[t].payload = turn[t].payload
              /\ turn'[t].evidence = turn[t].evidence
              /\ turn'[t].sufficient = turn[t].sufficient
              /\ turn'[t].hit = turn[t].hit /\ turn'[t].restored = turn[t].restored
<1>1. LiveIn(document') = Live' /\ Live' \subseteq Chunks
  BY DEF Live, LiveIn, ChunkOf, Chunks, BatchInv
<1> DEFINE now(t) == [turn[t] EXCEPT !.lived = turn[t].lived \cup LiveIn(document'),
                                     !.steady = turn[t].steady \cap LiveIn(document')]
<1>2. ASSUME NEW t \in Turns
      PROVE  /\ turn[t] \in TurnStates
             /\ t \in Running => turn'[t] = now(t)
             /\ t \notin Running => turn'[t] = turn[t]
  BY DEF TypeOK, Witness
<1>3. ASSUME NEW t \in Turns, t \in Running
      PROVE  /\ turn'[t] \in TurnStates
             /\ turn'[t].lived = turn[t].lived \cup Live'
             /\ turn'[t].steady = turn[t].steady \cap Live'
             /\ turn'[t].step = turn[t].step /\ turn'[t].filters = turn[t].filters
             /\ turn'[t].generation = turn[t].generation
             /\ turn'[t].payload = turn[t].payload
             /\ turn'[t].evidence = turn[t].evidence
             /\ turn'[t].sufficient = turn[t].sufficient
             /\ turn'[t].hit = turn[t].hit /\ turn'[t].restored = turn[t].restored
  <2>1. turn[t] \in TurnStates /\ turn'[t] = now(t)
    BY <1>2, <1>3
  <2>2. QED
    BY <2>1, <1>1 DEF TurnStates
<1>4. DOMAIN turn' = Turns /\ turn' = [t \in Turns |-> turn'[t]]
  BY DEF Witness
<1>5. turn' \in [Turns -> TurnStates]
  BY <1>2, <1>3, <1>4
<1>6. Running' = Running
  BY <1>2, <1>3 DEF Running
<1>7. QED
  BY <1>2, <1>3, <1>5, <1>6 DEF Running

(* A step of one turn; [changed] is what the turn becomes. *)
TurnStep(t, changed) ==
  /\ turn' = [turn EXCEPT ![t] = changed]
  /\ UNCHANGED <<document, generation, changes, restored>>

LEMMA TurnStepEffect ==
  ASSUME TypeOK, NEW t \in Turns, NEW changed, TurnStep(t, changed)
  PROVE  /\ turn'[t] = changed
         /\ \A u \in Turns : u # t => turn'[u] = turn[u]
         /\ changed \in TurnStates => turn' \in [Turns -> TurnStates]
         /\ Live' = Live
BY DEF TypeOK, TurnStep, Live, LiveIn, ChunkOf

(* What each step makes of the turn. *)
LEMMA TurnSteps ==
  ASSUME TypeOK, NEW t \in Turns
  PROVE  /\ \A f \in Filters : Begin(t, f) =>
              TurnStep(t, [Idle EXCEPT !.step = "get", !.filters = f, !.generation = generation,
                             !.lived = Live, !.steady = Live, !.restored = restored])
         /\ Hit(t) => TurnStep(t, [turn[t] EXCEPT !.step = "load", !.payload = cache[Key(t)]])
         /\ Miss(t) \/ EntryIsStale(t) =>
              TurnStep(t, [turn[t] EXCEPT !.step = "semantic", !.payload = None])
         /\ LoadCached(t) =>
              TurnStep(t, [turn[t] EXCEPT !.step = "done", !.payload = None, !.hit = TRUE,
                             !.evidence = turn[t].payload.chunks,
                             !.sufficient = turn[t].payload.sufficient])
         /\ Semantic(t) =>
              TurnStep(t, [turn[t] EXCEPT !.step = "lexical", !.evidence = SemanticRows(t)])
         /\ Lexical(t) =>
              TurnStep(t, [turn[t] EXCEPT !.step = "write",
                             !.evidence = turn[t].evidence \cup LexicalRows(t),
                             !.sufficient = IsSufficient(turn[t].evidence \cup LexicalRows(t))])
         /\ LexicalRaises(t) => TurnStep(t, Idle)
         /\ Write(t) => TurnStep(t, [turn[t] EXCEPT !.step = "done"])
         /\ WriteNothing(t) => TurnStep(t, [turn[t] EXCEPT !.step = "done", !.payload = None])
BY DEF TypeOK, TurnStep, Begin, Hit, Miss, EntryIsStale, LoadCached, Semantic, Lexical,
       LexicalRaises, Write, WriteNothing, Goes

(* What a step within a retrieval leaves alone of its turn. *)
SameRetrieval(t) ==
  /\ turn'[t].filters = turn[t].filters /\ turn'[t].generation = turn[t].generation
  /\ turn'[t].lived = turn[t].lived /\ turn'[t].steady = turn[t].steady
  /\ turn'[t].restored = turn[t].restored

Frame(t) ==
  /\ \A u \in Turns : u # t => turn'[u] = turn[u]
  /\ Live' = Live /\ UNCHANGED <<document, generation, changes, restored>>

LEMMA BeginEffect ==
  ASSUME Shape, NEW t \in Turns, NEW f \in Filters, Begin(t, f)
  PROVE  /\ turn' \in [Turns -> TurnStates] /\ Frame(t) /\ cache' = cache
         /\ t \notin Running
         /\ turn'[t].step = "get" /\ turn'[t].filters = f
         /\ turn'[t].generation = generation /\ turn'[t].payload = None
         /\ turn'[t].evidence = {} /\ turn'[t].hit = FALSE
         /\ turn'[t].lived = Live /\ turn'[t].steady = Live
         /\ turn'[t].restored = restored
         /\ rounds' \in 0..MaxRounds
<1> DEFINE new == [Idle EXCEPT !.step = "get", !.filters = f, !.generation = generation,
                               !.lived = Live, !.steady = Live, !.restored = restored]
<1>1. TypeOK /\ BatchInv
  BY DEF Shape
<1>2. new \in TurnStates
  BY <1>1, LiveIsStored DEF TypeOK, TurnStates, Idle, Steps
<1>3. TurnStep(t, new)
  BY <1>1, TurnSteps
<1>4. cache' = cache /\ rounds' \in 0..MaxRounds /\ t \notin Running
  BY <1>1, RetrievalCacheAssumption DEF Begin, TypeOK, Running
<1>5. /\ turn'[t] = new /\ turn' \in [Turns -> TurnStates] /\ Frame(t)
  BY <1>1, <1>2, <1>3, TurnStepEffect DEF Frame, TurnStep
<1>6. QED
  BY <1>4, <1>5 DEF Idle

LEMMA HitEffect ==
  ASSUME Shape, NEW t \in Turns, Hit(t)
  PROVE  /\ turn' \in [Turns -> TurnStates] /\ Frame(t) /\ SameRetrieval(t) /\ UNCHANGED <<cache, rounds>>
         /\ turn[t].step = "get" /\ turn'[t].step = "load" /\ Key(t) \in DOMAIN cache
         /\ turn'[t].payload = cache[Key(t)] /\ cache[Key(t)] \in Entries
         /\ turn'[t].evidence = turn[t].evidence /\ turn'[t].hit = turn[t].hit
<1>1. TypeOK /\ turn[t] \in TurnStates
  BY DEF Shape, TypeOK
<1>2. /\ turn[t].step = "get" /\ Key(t) \in DOMAIN cache /\ cache[Key(t)] \in Entries
      /\ UNCHANGED <<cache, rounds>>
  BY <1>1 DEF Hit, TypeOK
<1>3. TurnStep(t, [turn[t] EXCEPT !.step = "load", !.payload = cache[Key(t)]])
  BY <1>1, TurnSteps
<1>4. [turn[t] EXCEPT !.step = "load", !.payload = cache[Key(t)]] \in TurnStates
  BY <1>1, <1>2 DEF TurnStates, Steps
<1>5. /\ turn'[t] = [turn[t] EXCEPT !.step = "load", !.payload = cache[Key(t)]]
      /\ turn' \in [Turns -> TurnStates] /\ Frame(t)
  BY <1>1, <1>3, <1>4, TurnStepEffect DEF Frame, TurnStep
<1>6. QED
  BY <1>1, <1>2, <1>5 DEF SameRetrieval, TurnStates

LEMMA SearchEffect ==
  ASSUME Shape, NEW t \in Turns, Miss(t) \/ EntryIsStale(t)
  PROVE  /\ turn' \in [Turns -> TurnStates] /\ Frame(t) /\ SameRetrieval(t) /\ UNCHANGED <<cache, rounds>>
         /\ turn[t].step \in {"get", "load"} /\ turn'[t].step = "semantic"
         /\ turn'[t].evidence = turn[t].evidence /\ turn'[t].hit = turn[t].hit
<1>1. TypeOK /\ turn[t] \in TurnStates
  BY DEF Shape, TypeOK
<1>2. turn[t].step \in {"get", "load"} /\ UNCHANGED <<cache, rounds>>
  BY DEF Miss, EntryIsStale, Goes
<1>3. TurnStep(t, [turn[t] EXCEPT !.step = "semantic", !.payload = None])
  BY <1>1, TurnSteps
<1>4. [turn[t] EXCEPT !.step = "semantic", !.payload = None] \in TurnStates
  BY <1>1 DEF TurnStates, Steps
<1>5. /\ turn'[t] = [turn[t] EXCEPT !.step = "semantic", !.payload = None]
      /\ turn' \in [Turns -> TurnStates] /\ Frame(t)
  BY <1>1, <1>3, <1>4, TurnStepEffect DEF Frame, TurnStep
<1>6. QED
  BY <1>1, <1>2, <1>5 DEF SameRetrieval, TurnStates

LEMMA LoadCachedEffect ==
  ASSUME Shape, NEW t \in Turns, LoadCached(t)
  PROVE  /\ turn' \in [Turns -> TurnStates] /\ Frame(t) /\ SameRetrieval(t) /\ UNCHANGED <<cache, rounds>>
         /\ turn[t].step = "load" /\ turn'[t].step = "done" /\ turn'[t].hit = TRUE
         /\ turn'[t].evidence = turn[t].payload.chunks
         /\ turn[t].payload.chunks \subseteq Of(Live, Admitted[turn[t].filters])
<1>1. TypeOK /\ turn[t] \in TurnStates
  BY DEF Shape, TypeOK
<1>2. /\ turn[t].step = "load" /\ turn[t].payload \in Entries
      /\ turn[t].payload.chunks \subseteq Of(Live, Admitted[turn[t].filters])
      /\ UNCHANGED <<cache, rounds>>
  BY DEF LoadCached, Loadable, Shape
<1> DEFINE new == [turn[t] EXCEPT !.step = "done", !.payload = None, !.hit = TRUE,
                     !.evidence = turn[t].payload.chunks,
                     !.sufficient = turn[t].payload.sufficient]
<1>3. TurnStep(t, new)
  BY <1>1, TurnSteps
<1>4. new \in TurnStates
  BY <1>1, <1>2 DEF TurnStates, Steps, Entries
<1>5. turn'[t] = new /\ turn' \in [Turns -> TurnStates] /\ Frame(t)
  BY <1>1, <1>3, <1>4, TurnStepEffect DEF Frame, TurnStep
<1>6. QED
  BY <1>1, <1>2, <1>5 DEF SameRetrieval, TurnStates

LEMMA SemanticEffect ==
  ASSUME Shape, NEW t \in Turns, Semantic(t)
  PROVE  /\ turn' \in [Turns -> TurnStates] /\ Frame(t) /\ SameRetrieval(t) /\ UNCHANGED <<cache, rounds>>
         /\ turn[t].step = "semantic" /\ turn'[t].step = "lexical"
         /\ turn'[t].evidence = Of(Live, Admitted[turn[t].filters]) /\ turn'[t].hit = turn[t].hit
<1>1. TypeOK /\ BatchInv /\ turn[t] \in TurnStates
  BY DEF Shape, TypeOK
<1>2. turn[t].step = "semantic" /\ UNCHANGED <<cache, rounds>>
  BY DEF Semantic
<1> DEFINE new == [turn[t] EXCEPT !.step = "lexical", !.evidence = SemanticRows(t)]
<1>3. TurnStep(t, new)
  BY <1>1, <1>2, TurnSteps
<1>4. SemanticRows(t) \subseteq Chunks /\ SemanticRows(t) = Of(Live, Admitted[turn[t].filters])
  BY <1>1, LiveIsStored DEF SemanticRows, Of
<1>5. new \in TurnStates
  BY <1>1, <1>4 DEF TurnStates, Steps
<1>6. turn'[t] = new /\ turn' \in [Turns -> TurnStates] /\ Frame(t)
  BY <1>1, <1>3, <1>5, TurnStepEffect DEF Frame, TurnStep
<1>7. QED
  BY <1>1, <1>2, <1>4, <1>6 DEF SameRetrieval, TurnStates

LEMMA LexicalEffect ==
  ASSUME Shape, NEW t \in Turns, Lexical(t)
  PROVE  /\ turn' \in [Turns -> TurnStates] /\ Frame(t) /\ SameRetrieval(t) /\ UNCHANGED <<cache, rounds>>
         /\ turn[t].step = "lexical" /\ turn'[t].step = "write"
         /\ turn[t].evidence \subseteq turn'[t].evidence
         /\ turn'[t].evidence \subseteq turn[t].evidence \cup Of(Live, Admitted[turn[t].filters])
         /\ turn'[t].hit = turn[t].hit
<1>1. TypeOK /\ BatchInv /\ turn[t] \in TurnStates
  BY DEF Shape, TypeOK
<1>2. turn[t].step = "lexical" /\ UNCHANGED <<cache, rounds>>
  BY DEF Lexical
<1> DEFINE found == turn[t].evidence \cup LexicalRows(t)
           new == [turn[t] EXCEPT !.step = "write", !.evidence = found,
                                  !.sufficient = IsSufficient(found)]
<1>3. TurnStep(t, new)
  BY <1>1, <1>2, TurnSteps
<1>4. LexicalRows(t) \subseteq Chunks /\ LexicalRows(t) \subseteq Of(Live, Admitted[turn[t].filters])
  BY <1>1, LiveIsStored DEF LexicalRows, Of
<1>5. new \in TurnStates
  BY <1>1, <1>4 DEF TurnStates, Steps, IsSufficient
<1>6. turn'[t] = new /\ turn' \in [Turns -> TurnStates] /\ Frame(t)
  BY <1>1, <1>3, <1>5, TurnStepEffect DEF Frame, TurnStep
<1>7. QED
  BY <1>1, <1>2, <1>4, <1>6 DEF SameRetrieval, TurnStates

LEMMA LexicalRaisesEffect ==
  ASSUME Shape, NEW t \in Turns, LexicalRaises(t)
  PROVE  /\ turn' \in [Turns -> TurnStates] /\ Frame(t) /\ UNCHANGED <<cache, rounds>>
         /\ turn'[t] = Idle
<1>1. TypeOK
  BY DEF Shape
<1>2. UNCHANGED <<cache, rounds>>
  BY DEF LexicalRaises
<1>3. TurnStep(t, Idle)
  BY <1>1, TurnSteps
<1>4. Idle \in TurnStates
  BY DEF TurnStates, Steps, Idle
<1>5. QED
  BY <1>1, <1>2, <1>3, <1>4, TurnStepEffect DEF Frame, TurnStep

LEMMA WriteEffect ==
  ASSUME Shape, NEW t \in Turns, Write(t) \/ WriteNothing(t)
  PROVE  /\ turn' \in [Turns -> TurnStates] /\ Frame(t) /\ SameRetrieval(t) /\ rounds' = rounds
         /\ turn[t].step = "write" /\ turn'[t].step = "done"
         /\ turn'[t].evidence = turn[t].evidence /\ turn'[t].hit = turn[t].hit
         /\ \/ cache' = cache
            \/ cache' = Put(Key(t), [chunks |-> turn[t].evidence,
                                     sufficient |-> turn[t].sufficient])
<1>1. TypeOK /\ turn[t] \in TurnStates
  BY DEF Shape, TypeOK
<1>2. turn[t].step = "write" /\ rounds' = rounds
  BY DEF Write, WriteNothing, Goes
<1>3. \/ cache' = cache
      \/ cache' = Put(Key(t), [chunks |-> turn[t].evidence,
                               sufficient |-> turn[t].sufficient])
  BY DEF Write, WriteNothing, Goes
<1>4. \/ TurnStep(t, [turn[t] EXCEPT !.step = "done"])
      \/ TurnStep(t, [turn[t] EXCEPT !.step = "done", !.payload = None])
  BY <1>1, TurnSteps
<1>5. /\ [turn[t] EXCEPT !.step = "done"] \in TurnStates
      /\ [turn[t] EXCEPT !.step = "done", !.payload = None] \in TurnStates
  BY <1>1 DEF TurnStates, Steps
<1>6. /\ \/ turn'[t] = [turn[t] EXCEPT !.step = "done"]
         \/ turn'[t] = [turn[t] EXCEPT !.step = "done", !.payload = None]
      /\ turn' \in [Turns -> TurnStates] /\ Frame(t)
  BY <1>1, <1>4, <1>5, TurnStepEffect DEF Frame, TurnStep
<1>7. /\ SameRetrieval(t) /\ turn'[t].step = "done"
      /\ turn'[t].evidence = turn[t].evidence /\ turn'[t].hit = turn[t].hit
  BY <1>1, <1>6 DEF SameRetrieval, TurnStates
<1>8. QED
  BY <1>2, <1>3, <1>6, <1>7

(* The cases of a step. *)
LEMMA NextCases ==
  ASSUME Shape, Next
  PROVE  \/ \E d \in Documents : Publish(d) \/ Hide(d) \/ Restore(d) \/ Delete(d) \/ Purge(d)
         \/ \E t \in Turns, f \in Filters : Begin(t, f)
         \/ \E t \in Turns :
              \/ Hit(t) \/ Miss(t) \/ EntryIsStale(t) \/ LoadCached(t) \/ Semantic(t)
              \/ Lexical(t) \/ LexicalRaises(t) \/ Write(t) \/ WriteNothing(t)
BY DEF Next

-----------------------------------------------------------------------------
(* Types and shapes. *)

LEMMA PutType ==
  ASSUME TypeOK, NEW k \in Keys, NEW e \in Entries, cache' = Put(k, e)
  PROVE  /\ DOMAIN cache' = DOMAIN cache \cup {k}
         /\ cache'[k] = e
         /\ \A j \in DOMAIN cache : j # k => cache'[j] = cache[j]
         /\ DOMAIN cache' \subseteq Keys /\ \A j \in DOMAIN cache' : cache'[j] \in Entries
BY DEF TypeOK, Put

LEMMA InitShape ==
  ASSUME Init PROVE Shape
<1>1. document \in [Documents -> [status : {"ready", "hidden", "deleting", "gone"},
                                  batch : 0..MaxBatches]] /\ BatchInv
  <2>1. [status |-> "hidden", batch |-> 0] \in
          [status : {"ready", "hidden", "deleting", "gone"}, batch : 0..MaxBatches]
    BY RetrievalCacheAssumption
  <2>2. [status |-> "ready", batch |-> 1] \in
          [status : {"ready", "hidden", "deleting", "gone"}, batch : 0..MaxBatches]
    BY RetrievalCacheAssumption
  <2>3. QED
    BY <2>1, <2>2 DEF Init, BatchInv
<1>2. generation \in Nat
  <2>1. IsFiniteSet({d \in Documents : document[d].batch = 1})
    BY RetrievalCacheAssumption, FS_Subset
  <2>2. QED
    BY <2>1, FS_CardinalityType DEF Init
<1>3. Idle \in TurnStates /\ Idle.step = "idle"
  BY DEF Idle, TurnStates, Steps
<1>4. DOMAIN cache = {}
  BY DEF Init
<1>5. rounds \in 0..MaxRounds /\ changes \in 0..MaxChanges
  BY RetrievalCacheAssumption DEF Init
<1>6. turn = [t \in Turns |-> Idle] /\ restored = {}
  BY DEF Init
<1>7. TypeOK
  BY <1>1, <1>2, <1>3, <1>4, <1>5, <1>6 DEF TypeOK
<1>8. QED
  BY <1>1, <1>3, <1>6, <1>7 DEF Shape

LEMMA NextShape ==
  ASSUME Shape, [Next]_vars PROVE Shape'
<1>1. TypeOK /\ BatchInv
  BY DEF Shape
<1>2. CASE UNCHANGED vars
  BY <1>2 DEF Shape, TypeOK, BatchInv, vars
<1>3. CASE \E d \in Documents : Publish(d) \/ Hide(d) \/ Restore(d) \/ Delete(d) \/ Purge(d)
  <2>1. DocumentStep /\ BatchInv'
        /\ document' \in [Documents -> [status : {"ready", "hidden", "deleting", "gone"},
                                        batch : 0..MaxBatches]]
    BY <1>3, DocumentStepType
  <2>2. /\ turn' \in [Turns -> TurnStates]
        /\ \A t \in Turns : turn'[t].step = turn[t].step /\ turn'[t].filters = turn[t].filters
                            /\ turn'[t].payload = turn[t].payload
    BY <1>1, <2>1, WitnessEffect DEF DocumentStep
  <2>3. generation' \in Nat /\ restored' \subseteq Documents /\ changes' \in 0..MaxChanges
        /\ UNCHANGED <<cache, rounds>>
    BY <1>1, <2>1 DEF TypeOK, DocumentStep
  <2>4. TypeOK'
    BY <1>1, <2>1, <2>2, <2>3 DEF TypeOK
  <2>5. QED
    BY <2>1, <2>2, <2>4 DEF Shape
<1>4. ASSUME NEW t \in Turns, turn' \in [Turns -> TurnStates], Frame(t),
             DOMAIN cache' \subseteq Keys, \A j \in DOMAIN cache' : cache'[j] \in Entries,
             rounds' \in 0..MaxRounds,
             turn'[t].step # "idle" => turn'[t].filters \in Filters,
             turn'[t].step = "load" => turn'[t].payload \in Entries
      PROVE  Shape'
  <2>1. TypeOK'
    BY <1>1, <1>4 DEF TypeOK, Frame
  <2>2. BatchInv'
    BY <1>1, <1>4 DEF BatchInv, Frame
  <2>3. QED
    BY <2>1, <2>2, <1>4 DEF Shape, Frame
<1>5. CASE \E t \in Turns, f \in Filters : Begin(t, f)
  <2>1. PICK t \in Turns, f \in Filters : Begin(t, f)
    BY <1>5
  <2>2. QED
    BY <1>1, <1>4, <2>1, BeginEffect DEF TypeOK
<1>6. ASSUME NEW t \in Turns,
             \/ Hit(t) \/ Miss(t) \/ EntryIsStale(t) \/ LoadCached(t) \/ Semantic(t)
             \/ Lexical(t) \/ LexicalRaises(t) \/ Write(t) \/ WriteNothing(t)
      PROVE  Shape'
  <2>0. /\ rounds \in 0..MaxRounds /\ DOMAIN cache \subseteq Keys
        /\ \A j \in DOMAIN cache : cache[j] \in Entries
        /\ turn[t].step # "idle" => turn[t].filters \in Filters
    BY DEF Shape, TypeOK
  <2>1. CASE Hit(t)
    BY <1>4, <2>0, <2>1, HitEffect DEF SameRetrieval
  <2>2. CASE Miss(t) \/ EntryIsStale(t)
    BY <1>4, <2>0, <2>2, SearchEffect DEF SameRetrieval
  <2>3. CASE LoadCached(t)
    BY <1>4, <2>0, <2>3, LoadCachedEffect DEF SameRetrieval
  <2>4. CASE Semantic(t)
    BY <1>4, <2>0, <2>4, SemanticEffect DEF SameRetrieval
  <2>5. CASE Lexical(t)
    BY <1>4, <2>0, <2>5, LexicalEffect DEF SameRetrieval
  <2>6. CASE LexicalRaises(t)
    BY <1>4, <2>0, <2>6, LexicalRaisesEffect DEF Idle
  <2>7. CASE Write(t) \/ WriteNothing(t)
    <3>1. turn[t] \in TurnStates
      BY DEF Shape, TypeOK
    <3>2. turn[t].step = "write"
      BY <2>7, WriteEffect
    <3>3. Key(t) \in Keys
      BY <3>1, <3>2, <2>0 DEF Key, Keys, TurnStates
    <3>4. [chunks |-> turn[t].evidence, sufficient |-> turn[t].sufficient] \in Entries
      BY <3>1 DEF TurnStates, Entries
    <3>5. DOMAIN cache' \subseteq Keys /\ \A j \in DOMAIN cache' : cache'[j] \in Entries
      BY <1>1, <2>0, <2>7, <3>3, <3>4, WriteEffect, PutType
    <3>6. QED
      BY <1>4, <2>0, <2>7, <3>2, <3>5, WriteEffect DEF SameRetrieval
  <2>8. QED
    BY <1>6, <2>1, <2>2, <2>3, <2>4, <2>5, <2>6, <2>7
<1>7. QED
  BY <1>2, <1>3, <1>5, <1>6, NextCases

(* Every variable keeps its type. *)
THEOREM TypeCorrect == Spec => []TypeOK
<1>1. Spec => []Shape
  BY InitShape, NextShape, PTL DEF Spec
<1>2. Shape => TypeOK
  BY DEF Shape
<1>3. QED
  BY <1>1, <1>2, PTL

-----------------------------------------------------------------------------
(* Whatever a turn is given was searchable. *)

LEMMA InitLived ==
  ASSUME Init PROVE LivedInv /\ HitInv
BY DEF Init, LivedInv, HitInv, Running, Idle, Of

LEMMA NextLived ==
  ASSUME Shape, LivedInv, [Next]_vars PROVE LivedInv'
<1>1. TypeOK /\ BatchInv
  BY DEF Shape
<1>2. CASE UNCHANGED vars
  BY <1>2 DEF LivedInv, vars, Running, Live, LiveIn, ChunkOf
<1>3. CASE \E d \in Documents : Publish(d) \/ Hide(d) \/ Restore(d) \/ Delete(d) \/ Purge(d)
  <2>1. DocumentStep /\ BatchInv'
        /\ document' \in [Documents -> [status : {"ready", "hidden", "deleting", "gone"},
                                        batch : 0..MaxBatches]]
    BY <1>3, DocumentStepType
  <2>2. /\ Running' = Running /\ Running \subseteq Turns
        /\ \A t \in Turns \ Running : turn'[t] = turn[t]
        /\ \A t \in Running : turn'[t].lived = turn[t].lived \cup Live'
        /\ \A t \in Turns : turn'[t].evidence = turn[t].evidence
                            /\ turn'[t].filters = turn[t].filters
    BY <1>1, <2>1, WitnessEffect DEF DocumentStep, Running
  <2>3. ASSUME NEW t \in Turns PROVE turn[t].lived \subseteq turn'[t].lived
    BY <2>2
  <2>4. \A t \in Turns : turn'[t].evidence \subseteq Of(turn'[t].lived, Admitted[turn'[t].filters])
    BY <2>2, <2>3 DEF LivedInv, Of
  <2>5. QED
    BY <2>2, <2>4 DEF LivedInv
<1>4. ASSUME NEW t \in Turns, Frame(t),
             t \in Running' => Live \subseteq turn'[t].lived,
             turn'[t].evidence \subseteq Of(turn'[t].lived, Admitted[turn'[t].filters])
      PROVE  LivedInv'
  BY <1>4 DEF LivedInv, Frame, Running
<1>5. CASE \E t \in Turns, f \in Filters : Begin(t, f)
  <2>1. PICK t \in Turns, f \in Filters : Begin(t, f)
    BY <1>5
  <2>2. QED
    BY <1>4, <2>1, BeginEffect
<1>6. ASSUME NEW t \in Turns,
             \/ Hit(t) \/ Miss(t) \/ EntryIsStale(t) \/ LoadCached(t) \/ Semantic(t)
             \/ Lexical(t) \/ LexicalRaises(t) \/ Write(t) \/ WriteNothing(t)
      PROVE  LivedInv'
  <2>0. /\ t \in Running => Live \subseteq turn[t].lived
        /\ turn[t].evidence \subseteq Of(turn[t].lived, Admitted[turn[t].filters])
    BY DEF LivedInv
  <2>1. CASE Hit(t)
    BY <1>4, <2>0, <2>1, HitEffect DEF SameRetrieval, Running
  <2>2. CASE Miss(t) \/ EntryIsStale(t)
    BY <1>4, <2>0, <2>2, SearchEffect DEF SameRetrieval, Running
  <2>3. CASE LoadCached(t)
    BY <1>4, <2>0, <2>3, LoadCachedEffect DEF SameRetrieval, Running, Of
  <2>4. CASE Semantic(t)
    BY <1>4, <2>0, <2>4, SemanticEffect DEF SameRetrieval, Running, Of
  <2>5. CASE Lexical(t)
    BY <1>4, <2>0, <2>5, LexicalEffect DEF SameRetrieval, Running, Of
  <2>6. CASE LexicalRaises(t)
    BY <1>4, <2>6, LexicalRaisesEffect DEF Idle, Running
  <2>7. CASE Write(t) \/ WriteNothing(t)
    BY <1>4, <2>0, <2>7, WriteEffect DEF SameRetrieval, Running
  <2>8. QED
    BY <1>6, <2>1, <2>2, <2>3, <2>4, <2>5, <2>6, <2>7
<1>7. QED
  BY <1>2, <1>3, <1>5, <1>6, NextCases

LEMMA NextHit ==
  ASSUME Shape, HitInv, [Next]_vars PROVE HitInv'
<1>1. TypeOK /\ BatchInv
  BY DEF Shape
<1>2. CASE UNCHANGED vars
  BY <1>2 DEF HitInv, vars
<1>3. CASE \E d \in Documents : Publish(d) \/ Hide(d) \/ Restore(d) \/ Delete(d) \/ Purge(d)
  <2>1. DocumentStep /\ BatchInv'
        /\ document' \in [Documents -> [status : {"ready", "hidden", "deleting", "gone"},
                                        batch : 0..MaxBatches]]
    BY <1>3, DocumentStepType
  <2>2. \A t \in Turns : /\ turn'[t].evidence = turn[t].evidence
                         /\ turn'[t].hit = turn[t].hit /\ turn'[t].step = turn[t].step
    BY <1>1, <2>1, WitnessEffect DEF DocumentStep
  <2>3. QED
    BY <2>2 DEF HitInv
<1>4. ASSUME NEW t \in Turns, Frame(t),
             turn'[t].hit =>
               /\ turn'[t].step = "done"
               /\ \A c1, c2 \in turn'[t].evidence : c1[1] = c2[1] => c1 = c2
      PROVE  HitInv'
  BY <1>4 DEF HitInv, Frame
<1>5. CASE \E t \in Turns, f \in Filters : Begin(t, f)
  <2>1. PICK t \in Turns, f \in Filters : Begin(t, f)
    BY <1>5
  <2>2. QED
    BY <1>4, <2>1, BeginEffect
<1>6. ASSUME NEW t \in Turns,
             \/ Hit(t) \/ Miss(t) \/ EntryIsStale(t) \/ LoadCached(t) \/ Semantic(t)
             \/ Lexical(t) \/ LexicalRaises(t) \/ Write(t) \/ WriteNothing(t)
      PROVE  HitInv'
  <2>0. turn[t].hit => turn[t].step = "done"
    BY DEF HitInv
  <2>1. CASE Hit(t)
    BY <1>4, <2>0, <2>1, HitEffect
  <2>2. CASE Miss(t) \/ EntryIsStale(t)
    BY <1>4, <2>0, <2>2, SearchEffect
  <2>3. CASE LoadCached(t)
    <3>1. turn'[t].evidence \subseteq Live /\ turn'[t].step = "done" /\ Frame(t)
      BY <2>3, LoadCachedEffect DEF Of
    <3>2. \A c1, c2 \in turn'[t].evidence : c1[1] = c2[1] => c1 = c2
      BY <3>1, LiveIsOneBatch
    <3>3. QED
      BY <1>4, <3>1, <3>2
  <2>4. CASE Semantic(t)
    BY <1>4, <2>0, <2>4, SemanticEffect
  <2>5. CASE Lexical(t)
    BY <1>4, <2>0, <2>5, LexicalEffect
  <2>6. CASE LexicalRaises(t)
    BY <1>4, <2>6, LexicalRaisesEffect DEF Idle
  <2>7. CASE Write(t) \/ WriteNothing(t)
    BY <1>4, <2>0, <2>7, WriteEffect
  <2>8. QED
    BY <1>6, <2>1, <2>2, <2>3, <2>4, <2>5, <2>6, <2>7
<1>7. QED
  BY <1>2, <1>3, <1>5, <1>6, NextCases

(* For any number of turns, Documents and changes, a turn is given nothing *)
(* that was not searchable, within its filters, while it ran: neither what *)
(* a cached entry still holds of a deleted Document, nor an older batch.   *)
THEOREM OnlyLiveEvidence == Spec => []EvidenceWasLive
<1>1. Init => Shape /\ LivedInv
  BY InitShape, InitLived
<1>2. Shape /\ LivedInv /\ [Next]_vars => (Shape /\ LivedInv)'
  BY NextShape, NextLived
<1>3. LivedInv => EvidenceWasLive
  BY DEF LivedInv, EvidenceWasLive, Done
<1>4. QED
  BY <1>1, <1>2, <1>3, PTL DEF Spec

(* The two legs of a retrieval may see two batches of a Document and write *)
(* both to the cache: no turn that is served from the cache ever has two.  *)
THEOREM HitsAreOneBatch == Spec => []HitIsOneBatch
<1>1. Init => Shape /\ HitInv
  BY InitShape, InitLived
<1>2. Shape /\ HitInv /\ [Next]_vars => (Shape /\ HitInv)'
  BY NextShape, NextHit
<1>3. HitInv => HitIsOneBatch
  BY DEF HitInv, HitIsOneBatch, Done
<1>4. QED
  BY <1>1, <1>2, <1>3, PTL DEF Spec

-----------------------------------------------------------------------------
(* Nothing that was searchable all along is overlooked. *)

SeenInv == SteadyInv /\ EntryInv /\ FoundInv

LEMMA InitSeen ==
  ASSUME Init PROVE SeenInv
BY DEF Init, SeenInv, SteadyInv, EntryInv, FoundInv, Running, Idle

(* A change to the Documents: the turns lose what is hidden, and a new     *)
(* generation has no entries yet.                                          *)
LEMMA DocumentStepSeen ==
  ASSUME Shape, SeenInv, NEW d \in Documents,
         Publish(d) \/ Hide(d) \/ Restore(d) \/ Delete(d) \/ Purge(d)
  PROVE  SeenInv'
<1>1. TypeOK /\ BatchInv /\ generation \in Nat
  BY DEF Shape, TypeOK
<1>2. DocumentStep /\ BatchInv'
      /\ document' \in [Documents -> [status : {"ready", "hidden", "deleting", "gone"},
                                      batch : 0..MaxBatches]]
  BY DocumentStepType
<1>3. /\ Running' = Running
      /\ \A t \in Turns \ Running : turn'[t] = turn[t]
      /\ \A t \in Running : turn'[t].steady = turn[t].steady \cap Live'
      /\ \A t \in Turns :
           /\ turn'[t].step = turn[t].step /\ turn'[t].filters = turn[t].filters
           /\ turn'[t].generation = turn[t].generation
           /\ turn'[t].payload = turn[t].payload
           /\ turn'[t].evidence = turn[t].evidence /\ turn'[t].hit = turn[t].hit
           /\ turn'[t].restored = turn[t].restored
  BY <1>1, <1>2, WitnessEffect DEF DocumentStep
<1>4. cache' = cache /\ Running \subseteq Turns /\ LiveIn(document') = Live'
  BY <1>2 DEF DocumentStep, Running, Live, LiveIn, ChunkOf
<1>5. \/ generation' = generation + 1 /\ restored' = {}
      \/ /\ generation' = generation /\ restored \subseteq restored'
         /\ Unrestored(Live', restored') \subseteq Live
  BY <1>2, <1>4 DEF DocumentStep
<1>6. \A t \in Running : turn[t].generation \in Nat
  BY <1>1, <1>4 DEF TypeOK, TurnStates
<1>7. \A t \in Turns : turn'[t].steady \subseteq turn[t].steady /\ SeenBy(t)' \subseteq SeenBy(t)
  BY <1>3 DEF SeenBy, Unrestored
<1>8. SteadyInv'
  <2>1. \A t \in Running : turn'[t].steady \subseteq Live' /\ turn'[t].generation <= generation'
    BY <1>1, <1>3, <1>4, <1>5, <1>6 DEF SeenInv, SteadyInv
  <2>2. ASSUME NEW t \in Running, turn'[t].generation = generation'
        PROVE  Unrestored(Live', restored') \subseteq turn'[t].steady
    <3>1. turn[t].generation <= generation
      BY DEF SeenInv, SteadyInv
    <3>2. /\ generation' = generation /\ restored \subseteq restored'
          /\ Unrestored(Live', restored') \subseteq Live /\ turn[t].generation = generation
      BY <1>1, <1>3, <1>4, <1>5, <1>6, <2>2, <3>1
    <3>3. Unrestored(Live, restored) \subseteq turn[t].steady
      BY <3>2 DEF SeenInv, SteadyInv
    <3>4. QED
      BY <1>3, <3>2, <3>3 DEF Unrestored
  <2>3. ASSUME NEW t \in Running, NEW u \in Running,
               turn'[t].generation = turn'[u].generation
        PROVE  Unrestored(turn'[t].steady, turn'[t].restored) \subseteq turn'[u].steady
    <3>1. Unrestored(turn[t].steady, turn[t].restored) \subseteq turn[u].steady
      BY <1>3, <1>4, <2>3 DEF SeenInv, SteadyInv
    <3>2. QED
      BY <1>3, <1>4, <3>1 DEF Unrestored
  <2>4. QED
    BY <1>3, <2>1, <2>2, <2>3 DEF SteadyInv
<1>9. EntryInv'
  <2>0. \A k \in DOMAIN cache : k[1] <= generation
    BY DEF SeenInv, EntryInv
  <2>1. \A k \in DOMAIN cache : k[1] <= generation' /\ k[1] \in Nat
    BY <1>1, <1>5, <2>0 DEF TypeOK, Keys
  <2>2. ASSUME NEW f \in Filters, <<generation', Normalized[f]>> \in DOMAIN cache
        PROVE  Covers(cache[<<generation', Normalized[f]>>].chunks,
                      Unrestored(Live', restored'), f)
    <3>1. generation' <= generation
      BY <2>0, <2>2
    <3>2. /\ generation' = generation /\ restored \subseteq restored'
          /\ Unrestored(Live', restored') \subseteq Live
      BY <1>1, <1>5, <3>1
    <3>3. Covers(cache[<<generation, Normalized[f]>>].chunks, Unrestored(Live, restored), f)
      BY <2>2, <3>2 DEF SeenInv, EntryInv
    <3>4. Unrestored(Live', restored') \subseteq Unrestored(Live, restored)
      BY <3>2 DEF Unrestored
    <3>5. QED
      BY <3>2, <3>3, <3>4, CoversLess
  <2>3. ASSUME NEW t \in Running, Key(t)' \in DOMAIN cache
        PROVE  Covers(cache[Key(t)'].chunks, SeenBy(t)', turn'[t].filters)
    <3>1. Key(t)' = Key(t)
      BY <1>3, <1>4 DEF Key
    <3>2. Covers(cache[Key(t)].chunks, SeenBy(t), turn[t].filters)
      BY <2>3, <3>1 DEF SeenInv, EntryInv
    <3>3. QED
      BY <1>3, <1>4, <1>7, <3>1, <3>2, CoversLess
  <2>4. QED
    BY <1>3, <1>4, <2>1, <2>2, <2>3 DEF EntryInv
<1>10. FoundInv'
  <2>1. ASSUME NEW t \in Turns, turn'[t].step \in {"lexical", "write"}
        PROVE  Of(turn'[t].steady, Admitted[turn'[t].filters]) \subseteq turn'[t].evidence
    BY <1>3, <1>7, <2>1 DEF SeenInv, FoundInv, Of
  <2>2. ASSUME NEW t \in Turns, turn'[t].step = "load"
        PROVE  Covers(turn'[t].payload.chunks, SeenBy(t)', turn'[t].filters)
    <3>1. Covers(turn[t].payload.chunks, SeenBy(t), turn[t].filters)
      BY <1>3, <2>2 DEF SeenInv, FoundInv
    <3>2. QED
      BY <1>3, <1>7, <3>1, CoversLess
  <2>3. ASSUME NEW t \in Turns, turn'[t].step = "done"
        PROVE  IF turn'[t].hit
               THEN Covers(turn'[t].evidence, SeenBy(t)', turn'[t].filters)
               ELSE Of(SeenBy(t)', Admitted[turn'[t].filters]) \subseteq turn'[t].evidence
    <3>1. IF turn[t].hit
          THEN Covers(turn[t].evidence, SeenBy(t), turn[t].filters)
          ELSE Of(SeenBy(t), Admitted[turn[t].filters]) \subseteq turn[t].evidence
      BY <1>3, <2>3 DEF SeenInv, FoundInv
    <3>2. CASE turn[t].hit
      BY <1>3, <1>7, <3>1, <3>2, CoversLess
    <3>3. CASE ~turn[t].hit
      BY <1>3, <1>7, <3>1, <3>3 DEF Of
    <3>4. QED
      BY <3>2, <3>3
  <2>4. QED
    BY <2>1, <2>2, <2>3 DEF FoundInv
<1>11. QED
  BY <1>8, <1>9, <1>10 DEF SeenInv

(* A step of a turn that writes no entry and goes on, or ends. *)
LEMMA TurnStepSeen ==
  ASSUME Shape, SeenInv, NEW t \in Turns, Frame(t), cache' = cache,
         t \in Running' => t \in Running,
         t \in Running' => SameRetrieval(t),
         turn'[t].step \in {"lexical", "write"} =>
           Of(turn'[t].steady, Admitted[turn'[t].filters]) \subseteq turn'[t].evidence,
         turn'[t].step = "load" =>
           Covers(turn'[t].payload.chunks, SeenBy(t)', turn'[t].filters),
         turn'[t].step = "done" =>
           IF turn'[t].hit
           THEN Covers(turn'[t].evidence, SeenBy(t)', turn'[t].filters)
           ELSE Of(SeenBy(t)', Admitted[turn'[t].filters]) \subseteq turn'[t].evidence
  PROVE  SeenInv'
<1>1. Running' \subseteq Running /\ Running \subseteq Turns
  BY DEF Frame, Running
<1>2. \A u \in Running' :
        /\ turn'[u].filters = turn[u].filters /\ turn'[u].generation = turn[u].generation
        /\ turn'[u].steady = turn[u].steady /\ turn'[u].restored = turn[u].restored
  BY <1>1 DEF Frame, SameRetrieval
<1>3. Live' = Live /\ restored' = restored /\ generation' = generation
  BY DEF Frame
<1>4. SteadyInv'
  BY <1>1, <1>2, <1>3 DEF SeenInv, SteadyInv
<1>5. EntryInv'
  <2>1. \A u \in Running' : Key(u)' = Key(u) /\ SeenBy(u)' = SeenBy(u)
    BY <1>2 DEF Key, SeenBy
  <2>2. QED
    BY <1>1, <1>2, <1>3, <2>1 DEF SeenInv, EntryInv
<1>6. FoundInv'
  <2>1. \A u \in Turns \ {t} : turn'[u] = turn[u] /\ SeenBy(u)' = SeenBy(u)
    BY DEF Frame, SeenBy
  <2>2. QED
    BY <2>1 DEF SeenInv, FoundInv
<1>7. QED
  BY <1>4, <1>5, <1>6 DEF SeenInv

(* A turn begins: what is searchable now is all it has seen. *)
LEMMA BeginSeen ==
  ASSUME Shape, SeenInv, NEW t \in Turns, NEW f \in Filters, Begin(t, f)
  PROVE  SeenInv'
<1>1. /\ Frame(t) /\ cache' = cache /\ t \notin Running
      /\ turn'[t].step = "get" /\ turn'[t].filters = f
      /\ turn'[t].generation = generation
      /\ turn'[t].steady = Live /\ turn'[t].restored = restored
  BY BeginEffect
<1>2. /\ Running' = Running \cup {t} /\ Running \subseteq Turns /\ generation \in Nat
      /\ Live' = Live /\ restored' = restored /\ generation' = generation
      /\ \A u \in Running : u # t /\ turn'[u] = turn[u]
  BY <1>1 DEF Frame, Running, Shape, TypeOK
<1>3. SteadyInv'
  <2>1. \A u \in Running' : turn'[u].steady \subseteq Live' /\ turn'[u].generation <= generation'
    BY <1>1, <1>2 DEF SeenInv, SteadyInv
  <2>2. \A u \in Running' : turn'[u].generation = generation' =>
          Unrestored(Live', restored') \subseteq turn'[u].steady
    BY <1>1, <1>2 DEF SeenInv, SteadyInv, Unrestored
  <2>3. ASSUME NEW u \in Running', NEW v \in Running',
               turn'[u].generation = turn'[v].generation
        PROVE  Unrestored(turn'[u].steady, turn'[u].restored) \subseteq turn'[v].steady
    <3>1. CASE v = t
      BY <1>1, <1>2, <2>1, <3>1 DEF Unrestored
    <3>2. CASE u = t /\ v # t
      BY <1>1, <1>2, <2>2, <2>3, <3>2
    <3>3. CASE u # t /\ v # t
      BY <1>2, <2>3, <3>3 DEF SeenInv, SteadyInv
    <3>4. QED
      BY <3>1, <3>2, <3>3
  <2>4. QED
    BY <2>1, <2>2, <2>3 DEF SteadyInv
<1>4. EntryInv'
  <2>1. /\ Key(t)' = <<generation, Normalized[f]>>
        /\ SeenBy(t)' = Unrestored(Live, restored) /\ turn'[t].filters = f
        /\ \A u \in Running : /\ Key(u)' = Key(u) /\ SeenBy(u)' = SeenBy(u)
                              /\ turn'[u].filters = turn[u].filters
    BY <1>1, <1>2 DEF Key, SeenBy
  <2>2. QED
    BY <1>1, <1>2, <2>1 DEF SeenInv, EntryInv
<1>5. FoundInv'
  <2>1. \A u \in Turns \ {t} : turn'[u] = turn[u] /\ SeenBy(u)' = SeenBy(u)
    BY <1>1 DEF Frame, SeenBy
  <2>2. QED
    BY <1>1, <2>1 DEF SeenInv, FoundInv
<1>6. QED
  BY <1>3, <1>4, <1>5 DEF SeenInv

(* A turn writes its entry: what it has found holds for every other turn   *)
(* that read the same generation.                                          *)
LEMMA WriteSeen ==
  ASSUME Shape, SeenInv, NEW t \in Turns, Write(t) \/ WriteNothing(t)
  PROVE  SeenInv'
<1>1. /\ Frame(t) /\ SameRetrieval(t)
      /\ turn[t].step = "write" /\ turn'[t].step = "done"
      /\ turn'[t].evidence = turn[t].evidence
  BY WriteEffect
<1>2. /\ t \in Running /\ t \notin Running' /\ Running' \subseteq Running
      /\ Running \subseteq Turns
  BY <1>1 DEF Running, Frame
<1>3. /\ Of(turn[t].steady, Admitted[turn[t].filters]) \subseteq turn[t].evidence
      /\ turn[t].filters \in Filters
  BY <1>1 DEF SeenInv, FoundInv, Shape
<1>9. /\ Of(SeenBy(t)', Admitted[turn'[t].filters]) \subseteq turn'[t].evidence
      /\ Covers(turn'[t].evidence, SeenBy(t)', turn'[t].filters)
  <2>1. Of(SeenBy(t)', Admitted[turn'[t].filters]) \subseteq turn'[t].evidence
    BY <1>1, <1>3 DEF SameRetrieval, SeenBy, Unrestored, Of
  <2>2. QED
    BY <1>1, <1>3, <2>1, CoversOwn DEF SameRetrieval
<1>4. CASE cache' = cache
  BY <1>1, <1>2, <1>4, <1>9, TurnStepSeen
<1>5. CASE cache' = Put(Key(t), [chunks |-> turn[t].evidence,
                                 sufficient |-> turn[t].sufficient])
  <2> DEFINE e == [chunks |-> turn[t].evidence, sufficient |-> turn[t].sufficient]
  <2>1. turn[t] \in TurnStates /\ turn[t].filters \in Filters /\ TypeOK
    BY <1>1 DEF Shape, TypeOK
  <2>2. Key(t) \in Keys /\ e \in Entries /\ e.chunks = turn[t].evidence
    BY <2>1 DEF Key, Keys, TurnStates, Entries
  <2> HIDE DEF e
  <2>3. /\ DOMAIN cache' = DOMAIN cache \cup {Key(t)} /\ cache'[Key(t)] = e
        /\ \A j \in DOMAIN cache : j # Key(t) => cache'[j] = cache[j]
    BY <1>5, <2>1, <2>2, PutType DEF e
  <2>4. /\ Live' = Live /\ restored' = restored /\ generation' = generation
        /\ \A u \in Running' : /\ u \in Running /\ turn'[u] = turn[u] /\ Key(u)' = Key(u)
                               /\ SeenBy(u)' = SeenBy(u)
    BY <1>1, <1>2 DEF Frame, Key, Running, SeenBy
  <2>5. SteadyInv'
    BY <1>1, <2>4 DEF SeenInv, SteadyInv
  <2>6. EntryInv'
    <3>1. \A k \in DOMAIN cache' : k[1] <= generation'
      <4>1. turn[t].generation <= generation
        BY <1>2 DEF SeenInv, SteadyInv
      <4>2. QED
        BY <2>3, <2>4, <4>1 DEF SeenInv, EntryInv, Key
    <3>2. ASSUME NEW f \in Filters, <<generation', Normalized[f]>> \in DOMAIN cache'
          PROVE  Covers(cache'[<<generation', Normalized[f]>>].chunks,
                        Unrestored(Live', restored'), f)
      <4>1. CASE <<generation, Normalized[f]>> = Key(t)
        <5>1. turn[t].generation = generation /\ Normalized[turn[t].filters] = Normalized[f]
          BY <4>1 DEF Key
        <5>2. Unrestored(Live, restored) \subseteq turn[t].steady
          BY <1>2, <5>1 DEF SeenInv, SteadyInv
        <5>3. Of(Unrestored(Live, restored), Admitted[turn[t].filters])
                \subseteq turn[t].evidence
          BY <1>3, <5>2 DEF Of
        <5>4. Covers(turn[t].evidence, Unrestored(Live, restored), f)
          BY <1>3, <5>1, <5>3, CoversOwn, CoversAlike
        <5>5. QED
          BY <2>2, <2>3, <2>4, <4>1, <5>4
      <4>2. CASE <<generation, Normalized[f]>> # Key(t)
        BY <2>3, <2>4, <3>2, <4>2 DEF SeenInv, EntryInv
      <4>3. QED
        BY <4>1, <4>2
    <3>3. ASSUME NEW u \in Running', Key(u)' \in DOMAIN cache'
          PROVE  Covers(cache'[Key(u)'].chunks, SeenBy(u)', turn'[u].filters)
      <4>1. CASE Key(u) = Key(t)
        <5>1. /\ turn[u].generation = turn[t].generation
              /\ Normalized[turn[t].filters] = Normalized[turn[u].filters]
          BY <4>1 DEF Key
        <5>2. SeenBy(u) \subseteq turn[t].steady
          BY <1>2, <2>4, <5>1 DEF SeenInv, SteadyInv, SeenBy
        <5>3. Of(SeenBy(u), Admitted[turn[t].filters]) \subseteq turn[t].evidence
          BY <1>3, <5>2 DEF Of
        <5>4. Covers(turn[t].evidence, SeenBy(u), turn[u].filters)
          BY <1>3, <5>1, <5>3, CoversOwn, CoversAlike
        <5>5. QED
          BY <2>2, <2>3, <2>4, <4>1, <5>4
      <4>2. CASE Key(u) # Key(t)
        BY <2>3, <2>4, <3>3, <4>2 DEF SeenInv, EntryInv
      <4>3. QED
        BY <4>1, <4>2
    <3>4. QED
      BY <3>1, <3>2, <3>3 DEF EntryInv
  <2>7. FoundInv'
    <3>1. \A u \in Turns \ {t} : turn'[u] = turn[u] /\ SeenBy(u)' = SeenBy(u)
      BY <1>1 DEF Frame, SeenBy
    <3>2. QED
      BY <1>1, <1>9, <3>1 DEF SeenInv, FoundInv
  <2>8. QED
    BY <2>5, <2>6, <2>7 DEF SeenInv
<1>6. QED
  BY <1>4, <1>5, WriteEffect

LEMMA NextSeen ==
  ASSUME Shape, SeenInv, [Next]_vars PROVE SeenInv'
<1>1. CASE UNCHANGED vars
  <2>1. /\ Live' = Live /\ Running' = Running
        /\ \A t \in Turns : Key(t)' = Key(t) /\ SeenBy(t)' = SeenBy(t)
    BY <1>1 DEF vars, Live, LiveIn, ChunkOf, Running, Key, SeenBy
  <2>2. QED
    BY <1>1, <2>1 DEF vars, SeenInv, SteadyInv, EntryInv, FoundInv, Running
<1>2. CASE \E d \in Documents : Publish(d) \/ Hide(d) \/ Restore(d) \/ Delete(d) \/ Purge(d)
  BY <1>2, DocumentStepSeen
<1>3. CASE \E t \in Turns, f \in Filters : Begin(t, f)
  BY <1>3, BeginSeen
<1>4. ASSUME NEW t \in Turns,
             \/ Hit(t) \/ Miss(t) \/ EntryIsStale(t) \/ LoadCached(t) \/ Semantic(t)
             \/ Lexical(t) \/ LexicalRaises(t) \/ Write(t) \/ WriteNothing(t)
      PROVE  SeenInv'
  <2>1. CASE Hit(t)
    <3>1. turn[t].step = "get" /\ t \in Running /\ Key(t) \in DOMAIN cache
      BY <2>1, HitEffect DEF Running
    <3>2. Covers(cache[Key(t)].chunks, SeenBy(t), turn[t].filters)
      BY <3>1 DEF SeenInv, EntryInv
    <3>3. SeenBy(t)' = SeenBy(t) /\ turn'[t].filters = turn[t].filters
      BY <2>1, HitEffect DEF SameRetrieval, SeenBy
    <3>4. QED
      BY <2>1, <3>1, <3>2, <3>3, HitEffect, TurnStepSeen
  <2>2. CASE Miss(t) \/ EntryIsStale(t)
    BY <2>2, SearchEffect, TurnStepSeen DEF Running
  <2>3. CASE LoadCached(t)
    <3>1. Covers(turn[t].payload.chunks, SeenBy(t), turn[t].filters)
      BY <2>3, LoadCachedEffect DEF SeenInv, FoundInv
    <3>2. SeenBy(t)' = SeenBy(t) /\ turn'[t].filters = turn[t].filters
      BY <2>3, LoadCachedEffect DEF SameRetrieval, SeenBy
    <3>3. QED
      BY <2>3, <3>1, <3>2, LoadCachedEffect, TurnStepSeen DEF Running
  <2>4. CASE Semantic(t)
    <3>1. t \in Running /\ turn[t].steady \subseteq Live
      BY <2>4, SemanticEffect DEF Running, SeenInv, SteadyInv
    <3>2. Of(turn[t].steady, Admitted[turn[t].filters]) \subseteq Of(Live, Admitted[turn[t].filters])
      BY <3>1, OfMonotone
    <3>3. QED
      BY <2>4, <3>1, <3>2, SemanticEffect, TurnStepSeen DEF SameRetrieval
  <2>5. CASE Lexical(t)
    <3>1. t \in Running /\ Of(turn[t].steady, Admitted[turn[t].filters]) \subseteq turn[t].evidence
      BY <2>5, LexicalEffect DEF Running, SeenInv, FoundInv
    <3>2. QED
      BY <2>5, <3>1, LexicalEffect, TurnStepSeen DEF SameRetrieval
  <2>6. CASE LexicalRaises(t)
    BY <2>6, LexicalRaisesEffect, TurnStepSeen DEF Running, Idle
  <2>7. CASE Write(t) \/ WriteNothing(t)
    BY <2>7, WriteSeen
  <2>8. QED
    BY <1>4, <2>1, <2>2, <2>3, <2>4, <2>5, <2>6, <2>7
<1>5. QED
  BY <1>1, <1>2, <1>3, <1>4, NextCases

(* Whatever was searchable from the first read of a turn to its last is    *)
(* found, unless it was restored in the very generation the turn read: the *)
(* generation in the key is what a re-index that is given up does not      *)
(* advance.  A turn that searches finds what its own filters let through;  *)
(* one that is served an entry, what some filters of the same key do.      *)
THEOREM NoEvidenceIsOverlooked == Spec => []NothingOverlooked
<1>1. Init => Shape /\ SeenInv
  BY InitShape, InitSeen
<1>2. Shape /\ SeenInv /\ [Next]_vars => (Shape /\ SeenInv)'
  BY NextShape, NextSeen
<1>3. SeenInv => NothingOverlooked
  <2>1. ASSUME SeenInv, NEW t \in Done
        PROVE  \E f \in IF turn[t].hit THEN Alike(turn[t].filters) ELSE {turn[t].filters} :
                 Of(turn[t].steady, Admitted[f] \ turn[t].restored) \subseteq turn[t].evidence
    <3>1. IF turn[t].hit
          THEN Covers(turn[t].evidence, SeenBy(t), turn[t].filters)
          ELSE Of(SeenBy(t), Admitted[turn[t].filters]) \subseteq turn[t].evidence
      BY <2>1 DEF SeenInv, FoundInv, Done
    <3>2. \A f : Of(SeenBy(t), Admitted[f]) = Of(turn[t].steady, Admitted[f] \ turn[t].restored)
      BY OfUnrestored DEF SeenBy
    <3>3. CASE turn[t].hit
      <4>1. PICK f \in Alike(turn[t].filters) : Of(SeenBy(t), Admitted[f]) \subseteq turn[t].evidence
        BY <3>1, <3>3 DEF Covers
      <4>2. QED
        BY <3>2, <3>3, <4>1
    <3>4. CASE ~turn[t].hit
      <4>1. Of(turn[t].steady, Admitted[turn[t].filters] \ turn[t].restored)
              \subseteq turn[t].evidence
        BY <3>1, <3>2, <3>4
      <4>2. QED
        BY <3>4, <4>1
    <3>5. QED
      BY <3>3, <3>4
  <2>2. QED
    BY <2>1 DEF NothingOverlooked
<1>4. QED
  BY <1>1, <1>2, <1>3, PTL DEF Spec
=============================================================================
