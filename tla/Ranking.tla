------------------------------- MODULE Ranking -------------------------------
(* The order in which candidates become evidence: weighted reciprocal-rank    *)
(* fusion of the two legs (rag/fusion.py), reranking (rag/reranking.py),      *)
(* suppression of duplicates and the greedy diversity selection               *)
(* (rag/evidence_assembly.py).                                                *)
(*                                                                            *)
(* A candidate is a record.  Its text is the interval start .. end of token   *)
(* positions in its Document; scores are integers that keep the code's order, *)
(* with Absent for None.  Fusion counts in units of 1 / Scale, where Scale is *)
(* a multiple of every rrf_k + rank, so that its sums are exact.              *)
EXTENDS Integers, Sequences, FiniteSets, SequencesExt, FiniteSetsExt

CONSTANTS
    RrfK,   \* settings.retrieval_rrf_k
    Scale,  \* a common multiple of the RrfK + rank that occur
    Unit    \* penalties are given in units of 1 / Unit

None   == "none"
Absent == -20   \* the sort keys' stand-in for None: below every real score

-----------------------------------------------------------------------------
(* Sorting.  Python's sort is stable, also with reverse=True.                 *)

\* `a' goes before `b' where the keys are compared component by component.
Precedes(a, b) ==
    \E i \in 1 .. Len(a) : a[i] > b[i] /\ \A j \in 1 .. i - 1 : a[j] = b[j]

\* The elements of s by their keys, highest first: each goes where as many go
\* before it, and its place in s decides between equal keys.
SortedBy(s, keys) ==
    LET Full(i)  == Append(keys[i], -i)
        Place(i) == 1 + Cardinality({j \in 1 .. Len(s) : Precedes(Full(j), Full(i))})
    IN  [n \in 1 .. Len(s) |-> s[CHOOSE i \in 1 .. Len(s) : Place(i) = n]]

EffectiveScore(c) == IF c.rerank = Absent THEN c.fused ELSE c.rerank

-----------------------------------------------------------------------------
(* Fusion.                                                                    *)

Position(leg, chunk) ==
    IF \E i \in 1 .. Len(leg) : leg[i].chunk = chunk
      THEN CHOOSE i \in 1 .. Len(leg) : leg[i].chunk = chunk
      ELSE 0

Share(weight, rank) == IF rank = 0 THEN 0 ELSE weight * (Scale \div (RrfK + rank))

\* The dictionary `combined': chunks in the order in which they first appear,
\* each with its leg's scores and the sum of its legs' shares.
Combined(semantic, lexical, weights) ==
    LET Default(seen, c) ==
            IF Position(seen, c.chunk) = 0 THEN Append(seen, c) ELSE seen
        all == FoldLeft(Default, <<>>, semantic \o lexical)
        Entry(c) ==
            LET s == Position(semantic, c.chunk)
                l == Position(lexical, c.chunk)
            IN  [c EXCEPT !.sim = IF s > 0 THEN semantic[s].sim ELSE @,
                          !.lex = IF l > 0 THEN lexical[l].lex ELSE @,
                          !.fused = Share(weights[1], s) + Share(weights[2], l)]
    IN  [i \in 1 .. Len(all) |-> Entry(all[i])]

FusionKeys(s) == [i \in 1 .. Len(s) |-> <<s[i].fused, s[i].sim, s[i].lex>>]

OfDocument(s, doc) == {i \in 1 .. Len(s) : s[i].doc = doc}

\* One round of the selection loop: the cap first, then the limit.
Capped(selected, c, limit, cap) ==
    IF Len(selected) = limit \/ Cardinality(OfDocument(selected, c.doc)) >= cap
      THEN selected ELSE Append(selected, c)

\* RrfFusionStrategy.fuse.  max_per_document None is a cap nothing reaches.
Fuse(semantic, lexical, weights, limit, cap) ==
    LET combined == Combined(semantic, lexical, weights)
        ranked   == SortedBy(combined, FusionKeys(combined))
        Step(selected, c) == Capped(selected, c, limit, cap)
    IN  FoldLeft(Step, <<>>, ranked)

-----------------------------------------------------------------------------
(* Reranking and what is taken from it.                                       *)

\* `score or default': a score of exactly zero counts as missing.
OrElse(score, default) == IF score \in {0, Absent} THEN default ELSE score

RerankKeys(s) ==
    [i \in 1 .. Len(s) |-> <<EffectiveScore(s[i]), s[i].fused,
                            OrElse(s[i].sim, Absent), OrElse(s[i].lex, Absent)>>]

\* Both rerankers: new scores in the candidates' order, then the same sort.
Rerank(fused, scores) ==
    LET scored == [i \in 1 .. Len(fused) |-> [fused[i] EXCEPT !.rerank = scores[i]]]
    IN  SortedBy(scored, RerankKeys(scored))

Top(s, limit) == SubSeq(s, 1, Min({limit, Len(s)}))

\* The reranked mode: a reranker that fails leaves the fused order.
Reranked(fused, scores, fails, limit) ==
    Top(IF fails THEN fused ELSE Rerank(fused, scores), limit)

\* is_sufficient: one candidate that either leg scored high enough.
IsSufficient(candidates, minSim, minLex) ==
    \E i \in 1 .. Len(candidates) :
        \/ candidates[i].sim # Absent /\ candidates[i].sim >= minSim
        \/ candidates[i].lex # Absent /\ candidates[i].lex >= minLex

-----------------------------------------------------------------------------
(* Duplicates.                                                                *)

HighlyOverlapping(a, b) ==
    LET overlap == Max({0, Min({a.end, b.end}) - Max({a.start, b.start})})
        shorter == Min({a.end - a.start, b.end - b.start})
    IN  a.doc = b.doc /\ shorter > 0 /\ 10 * overlap >= 9 * shorter

SameText(a, b) == a.hash # None /\ a.hash = b.hash /\ a.doc = b.doc

\* One candidate of the suppression.  Its hash is remembered before its overlap
\* is looked at, so a candidate may be dropped for the hash of one that was
\* itself dropped.
Sifted(acc, c) ==
    LET known  == c.hash # None /\ \E h \in acc.hashes : SameText(c, h)
        hashes == IF c.hash = None THEN acc.hashes ELSE acc.hashes \union {c}
    IN  IF known THEN acc
        ELSE IF \E i \in 1 .. Len(acc.retained) : HighlyOverlapping(c, acc.retained[i])
          THEN [acc EXCEPT !.hashes = hashes]
          ELSE [hashes |-> hashes, retained |-> Append(acc.retained, c)]

\* suppress_duplicates
SuppressDuplicates(candidates) ==
    FoldLeft(Sifted, [hashes |-> {}, retained |-> <<>>], candidates).retained

-----------------------------------------------------------------------------
(* Diversity.                                                                 *)

ParentKey(c) == <<c.doc, IF c.parent = None THEN c.chunk ELSE c.parent>>

OfParent(s, key) == {i \in 1 .. Len(s) : ParentKey(s[i]) = key}

\* 2 * Unit times the divisor 1 + penalty * documents + penalty / 2 * parents.
Divisor(c, selected, penalty) ==
    2 * Unit + 2 * penalty * Cardinality(OfDocument(selected, c.doc))
             + penalty * Cardinality(OfParent(selected, ParentKey(c)))

\* Mutant of Beats: multiplied by the divisor.
BeatsMultiplied(a, b, selected, penalty) ==
    EffectiveScore(a) * Divisor(a, selected, penalty)
      > EffectiveScore(b) * Divisor(b, selected, penalty)

\* effective_score / divisor of `a' is above that of `b'.
Beats(a, b, selected, penalty) ==
    EffectiveScore(a) * Divisor(b, selected, penalty)
      > EffectiveScore(b) * Divisor(a, selected, penalty)

\* max() keeps the first of the candidates with the highest score.
Best(remaining, selected, penalty) ==
    CHOOSE i \in 1 .. Len(remaining) :
        /\ \A j \in 1 .. Len(remaining) :
               ~Beats(remaining[j], remaining[i], selected, penalty)
        /\ \A j \in 1 .. i - 1 : Beats(remaining[i], remaining[j], selected, penalty)

\* One round of the selection.
DiversityRound(acc, penalty) ==
    IF acc.remaining = <<>> THEN acc
    ELSE LET i == Best(acc.remaining, acc.selected, penalty)
         IN  [remaining |-> RemoveAt(acc.remaining, i),
              selected  |-> Append(acc.selected, acc.remaining[i])]

\* apply_adaptive_diversity
Diversify(candidates, limit, penalty) ==
    LET distinct == SuppressDuplicates(candidates)
        Step(acc, round) == DiversityRound(acc, penalty)
    IN  FoldLeft(Step, [remaining |-> distinct, selected |-> <<>>],
                 [round \in 1 .. limit |-> round]).selected

=============================================================================
