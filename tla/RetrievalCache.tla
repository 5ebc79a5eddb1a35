--------------------------- MODULE RetrievalCache ---------------------------
(***************************************************************************)
(* Turns that retrieve evidence while Documents are published, hidden,     *)
(* restored, deleted and purged, with the shared retrieval cache between   *)
(* them.                                                                   *)
(*                                                                         *)
(* A turn reads the index generation first, and everything it does later,  *)
(* including the entry it writes to Redis, is filed under that generation. *)
(* Each of its SELECTs is a snapshot of its own (READ COMMITTED).          *)
(*                                                                         *)
(* A chunk stands for one batch of a Document: the pair <<d, batch>>.      *)
(***************************************************************************)
EXTENDS Naturals, FiniteSets

CONSTANTS
  Turns,          \* turns that retrieve at the same time, all with one query
  Documents,
  Filters,        \* the filters a turn may carry, as the API or the plan spells them
  Admitted,       \* the Documents that the SQL of each lets through
  Normalized,     \* what the cache key makes of each
  LexicalHits,    \* Documents whose text shares a term with the query
  Relevant,       \* Documents that meet a sufficiency threshold
  MaxEntry,       \* candidates that fit in rag_cache_max_entry_bytes
  MaxBatches,     \* bound: batches a Document is ever given
  MaxChanges,     \* bound: changes to the Documents
  MaxRounds,      \* bound: retrievals, over all turns
  None

ASSUME RetrievalCacheAssumption ==
  /\ IsFiniteSet(Documents)
  /\ \A f \in Filters : Admitted[f] \subseteq Documents
  /\ LexicalHits \subseteq Documents /\ Relevant \subseteq Documents
  /\ MaxEntry \in Nat /\ MaxBatches \in Nat \ {0} /\ MaxChanges \in Nat
  /\ MaxRounds \in Nat

VARIABLES
  document,    \* status and last batch of each Document
  generation,  \* KnowledgeBase.index_generation
  cache,       \* the Redis entries: a function from keys
  turn,        \* where each turn's retrieve_evidence is
  rounds,      \* retrievals started
  changes,     \* changes to the Documents so far
  restored     \* history: Documents restored in the present generation

vars == <<document, generation, cache, turn, rounds, changes, restored>>

-----------------------------------------------------------------------------
(* Vocabulary. *)

Chunks == Documents \X (1..MaxBatches)
ChunkOf(d, doc) == <<d, doc[d].batch>>
LiveIn(doc) == {ChunkOf(d, doc) : d \in {e \in Documents : doc[e].status = "ready"}}
Live == LiveIn(document)
StoredIn(doc) == {ChunkOf(d, doc) : d \in {e \in Documents : doc[e].batch > 0
                                                       /\ doc[e].status # "gone"}}
Of(chunks, docs) == {c \in chunks : c[1] \in docs}

IsSufficient(chunks) == Of(chunks, Relevant) # {}

(* The filters that share their cache keys with [f].  Values that differ in *)
(* letter case do, whether or not the SQL tells them apart.                *)
Alike(f) == {g \in Filters : Normalized[g] = Normalized[f]}

Keys == Nat \X {Normalized[f] : f \in Filters}
Entries == [chunks : SUBSET Chunks, sufficient : BOOLEAN]

Steps == {"idle", "get", "load", "semantic", "lexical", "write", "done"}
TurnStates ==
  [step : Steps, filters : Filters \cup {None}, generation : Nat,
   payload : Entries \cup {None}, evidence : SUBSET Chunks, sufficient : BOOLEAN,
   hit : BOOLEAN, lived : SUBSET Chunks, steady : SUBSET Chunks,
   restored : SUBSET Documents]
Idle == [step |-> "idle", filters |-> None, generation |-> 0, payload |-> None,
         evidence |-> {}, sufficient |-> FALSE, hit |-> FALSE,
         lived |-> {}, steady |-> {}, restored |-> {}]
Running == {t \in Turns : turn[t].step \notin {"idle", "done"}}

Init ==
  /\ document \in [Documents -> {[status |-> "hidden", batch |-> 0],
                                 [status |-> "ready", batch |-> 1]}]
  /\ generation = Cardinality({d \in Documents : document[d].batch = 1})
  /\ cache = [k \in {} |-> None]
  /\ turn = [t \in Turns |-> Idle]
  /\ rounds = 0 /\ changes = 0
  /\ restored = {}

-----------------------------------------------------------------------------
(* What happens to the Documents meanwhile.                                *)

(* The turns under way remember which chunks were searchable at some       *)
(* moment, and which at every moment, since they began.                    *)
Witness ==
  turn' = [t \in Turns |->
            IF t \in Running
            THEN [turn[t] EXCEPT !.lived = @ \cup LiveIn(document'),
                                 !.steady = @ \cap LiveIn(document')]
            ELSE turn[t]]

Changes(doc) ==
  /\ changes < MaxChanges /\ changes' = changes + 1
  /\ document' = doc
  /\ Witness /\ UNCHANGED <<cache, rounds>>
Becomes(d, status) == Changes([document EXCEPT ![d].status = status])

Bump == generation' = generation + 1 /\ restored' = {}

(* An ingestion ends: the old batch is deleted, the new one inserted, the  *)
(* Document is Ready and the generation advances, in one transaction.      *)
Publish(d) ==
  /\ document[d].status = "hidden" /\ document[d].batch < MaxBatches
  /\ Changes([document EXCEPT ![d] = [status |-> "ready", batch |-> @.batch + 1]])
  /\ Bump

(* A re-index claims a Ready Document: its chunks stay, unsearchable. *)
Hide(d) ==
  /\ document[d].status = "ready"
  /\ Becomes(d, "hidden") /\ UNCHANGED <<generation, restored>>

(* The re-index is given up: the old batch is searchable again, under the  *)
(* generation in force.                                                    *)
Restore(d) ==
  /\ document[d].status = "hidden" /\ document[d].batch > 0
  /\ Becomes(d, "ready") /\ restored' = restored \cup {d} /\ UNCHANGED generation

Delete(d) ==
  /\ document[d].status \in {"ready", "hidden"}
  /\ Becomes(d, "deleting") /\ Bump

Purge(d) ==
  /\ document[d].status = "deleting"
  /\ Becomes(d, "gone") /\ Bump

-----------------------------------------------------------------------------
(* The cache. *)

KeyAcrossGenerations(t) == <<0, Normalized[turn[t].filters]>>  \* Mutant of Key: no generation
Key(t) == <<turn[t].generation, Normalized[turn[t].filters]>>

Put(k, e) == [j \in DOMAIN cache \cup {k} |-> IF j = k THEN e ELSE cache[j]]

-----------------------------------------------------------------------------
(* One turn. *)

Goes(t, step) ==
  /\ turn' = [turn EXCEPT ![t].step = step, ![t].payload = None]
  /\ UNCHANGED <<document, generation, cache, rounds, changes, restored>>

(* turn_events reads the generation, before the query is embedded. *)
Begin(t, f) ==
  /\ turn[t].step \in {"idle", "done"} /\ rounds < MaxRounds
  /\ rounds' = rounds + 1
  /\ turn' = [turn EXCEPT ![t] =
       [Idle EXCEPT !.step = "get", !.filters = f, !.generation = generation,
                    !.lived = Live, !.steady = Live, !.restored = restored]]
  /\ UNCHANGED <<document, generation, cache, changes, restored>>

(* get_json: an entry, or none. An entry that expired or was evicted, a    *)
(* read that fails and a payload that does not parse are misses as well:   *)
(* Miss is possible whatever the cache holds.                              *)
Hit(t) ==
  /\ turn[t].step = "get" /\ Key(t) \in DOMAIN cache
  /\ turn' = [turn EXCEPT ![t].step = "load", ![t].payload = cache[Key(t)]]
  /\ UNCHANGED <<document, generation, cache, rounds, changes, restored>>

Miss(t) ==
  /\ turn[t].step = "get"
  /\ Goes(t, "semantic")

(* _load_cached_candidates: every chunk of the entry must still be stored, *)
(* of a Ready Document that the filters let through.                       *)
LoadableWhenStored(t) ==  \* Mutant of Loadable: no Ready predicate
  turn[t].payload.chunks \subseteq Of(StoredIn(document), Admitted[turn[t].filters])
LoadableAnyway(t) == TRUE  \* Mutant of Loadable: the entry is taken as it is
Loadable(t) == turn[t].payload.chunks \subseteq Of(Live, Admitted[turn[t].filters])

LoadCached(t) ==
  /\ turn[t].step = "load" /\ Loadable(t)
  /\ turn' = [turn EXCEPT ![t].step = "done", ![t].payload = None,
                          ![t].hit = TRUE,
                          ![t].evidence = turn[t].payload.chunks,
                          ![t].sufficient = turn[t].payload.sufficient]
  /\ UNCHANGED <<document, generation, cache, rounds, changes, restored>>

EntryIsStale(t) ==
  /\ turn[t].step = "load" /\ ~Loadable(t)
  /\ Goes(t, "semantic")

(* The rows of the vector leg, and those of a lexical leg: BM25 or its FTS *)
(* fallback. Both see Ready Documents only, within the turn's filters.     *)
SemanticRows(t) == Of(Live, Admitted[turn[t].filters])
LexicalRows(t) == Of(Live, Admitted[turn[t].filters] \cap LexicalHits)

(* The two legs, each in a statement of its own. *)
Semantic(t) ==
  /\ turn[t].step = "semantic"
  /\ turn' = [turn EXCEPT ![t].step = "lexical", ![t].evidence = SemanticRows(t)]
  /\ UNCHANGED <<document, generation, cache, rounds, changes, restored>>

Lexical(t) ==
  /\ turn[t].step = "lexical"
  /\ LET found == turn[t].evidence \cup LexicalRows(t)
     IN turn' = [turn EXCEPT ![t].step = "write", ![t].evidence = found,
                             ![t].sufficient = IsSufficient(found)]
  /\ UNCHANGED <<document, generation, cache, rounds, changes, restored>>

(* BM25 fails and the fallback is switched off: the retrieval raises. *)
LexicalRaises(t) ==
  /\ turn[t].step = "lexical"
  /\ turn' = [turn EXCEPT ![t] = Idle]
  /\ UNCHANGED <<document, generation, cache, rounds, changes, restored>>

(* _write_retrieval_cache. *)
Write(t) ==
  /\ turn[t].step = "write" /\ Cardinality(turn[t].evidence) <= MaxEntry
  /\ cache' = Put(Key(t), [chunks |-> turn[t].evidence,
                           sufficient |-> turn[t].sufficient])
  /\ turn' = [turn EXCEPT ![t].step = "done"]
  /\ UNCHANGED <<document, generation, rounds, changes, restored>>

(* An entry too large, or a Redis error, is nothing to the turn. *)
WriteNothing(t) ==
  /\ turn[t].step = "write"
  /\ Goes(t, "done")

Next ==
  \/ \E d \in Documents : Publish(d) \/ Hide(d) \/ Restore(d) \/ Delete(d) \/ Purge(d)
  \/ \E t \in Turns :
       \/ \E f \in Filters : Begin(t, f)
       \/ Hit(t) \/ Miss(t) \/ LoadCached(t) \/ EntryIsStale(t)
       \/ Semantic(t) \/ Lexical(t) \/ LexicalRaises(t) \/ Write(t) \/ WriteNothing(t)

Spec == Init /\ [][Next]_vars

-----------------------------------------------------------------------------
(* Properties. *)

(* Types of the Document rows, the Redis entries and the turns. *)
TypeOK ==
  /\ document \in [Documents -> [status : {"ready", "hidden", "deleting", "gone"},
                                 batch : 0..MaxBatches]]
  /\ generation \in Nat
  /\ DOMAIN cache \subseteq Keys /\ \A k \in DOMAIN cache : cache[k] \in Entries
  /\ turn \in [Turns -> TurnStates]
  /\ rounds \in 0..MaxRounds /\ changes \in 0..MaxChanges
  /\ restored \subseteq Documents

Done == {t \in Turns : turn[t].step = "done"}

(* Whatever the cache holds, a turn is never given a chunk that was not    *)
(* searchable, within its filters, at some moment of the turn: the entry   *)
(* of an earlier turn is checked against the rows before it is served.     *)
EvidenceWasLive ==
  \A t \in Done : turn[t].evidence \subseteq Of(turn[t].lived, Admitted[turn[t].filters])

(* A turn overlooks nothing that was searchable from its first read to its *)
(* last, unless the Document was restored in the very generation the turn  *)
(* read: the generation in the key keeps the entries of other generations  *)
(* apart.  The filters in the key do not keep all filters apart, so a turn *)
(* that is served an entry is answered for filters of the same key.        *)
NothingOverlooked ==
  \A t \in Done : \E f \in IF turn[t].hit THEN Alike(turn[t].filters)
                                        ELSE {turn[t].filters} :
    Of(turn[t].steady, Admitted[f] \ turn[t].restored) \subseteq turn[t].evidence

(* The two legs of one turn may see two batches of a Document, and write   *)
(* both to the cache; a turn served from the cache never has two.          *)
HitIsOneBatch ==
  \A t \in Done : turn[t].hit =>
    \A c1, c2 \in turn[t].evidence : c1[1] = c2[1] => c1 = c2

=============================================================================
