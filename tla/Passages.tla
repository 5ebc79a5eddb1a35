------------------------------ MODULE Passages ------------------------------
(* Hierarchical retrieval after the ranking (rag/retrieval.py,                *)
(* rag/evidence_assembly.py): seeds are expanded by their parent or by their  *)
(* neighbours, adjacent children are merged into passages, and passages are   *)
(* assembled into evidence within the token budget.                           *)
(*                                                                            *)
(* A candidate's text is the interval start .. end of token positions.        *)
(* Neighbouring children meet or overlap, and _merge_text drops the overlap,  *)
(* so the merged text is the union of the intervals.                          *)
EXTENDS Ranking

CONSTANT Corpus  \* the rows of chunks whose Document is Ready: candidates
                 \* without scores, with `level', `ordinal' and `direction'

Rows == [chunk : STRING, doc : STRING, parent : STRING, level : STRING,
         ordinal : Int, start : Int, end : Int, direction : Int, hash : STRING \union {None},
         sim : Int, lex : Int, fused : Int, rerank : Int, members : SUBSET STRING]

(* What chunking stores: a parent has the text of its children and their      *)
(* Document, and the children of one parent follow each other in its text.    *)
ASSUME CorpusAssumption ==
    /\ Corpus \subseteq Rows /\ IsFiniteSet(Corpus)
    /\ \A c, p \in Corpus :
           p.level = "parent" /\ c.parent = p.chunk =>
               c.doc = p.doc /\ p.start <= c.start /\ c.end <= p.end
    /\ \A c, d \in Corpus :
           c.level = "child" /\ d.level = "child" /\ c.parent = d.parent /\ c.parent # None =>
               /\ c.doc = d.doc
               /\ c.ordinal <= d.ordinal => c.start <= d.start /\ c.end <= d.end

Tokens(c) == c.end - c.start

TokensOf(s) == FoldLeft(LAMBDA n, c : n + Tokens(c), 0, s)

Elements(s) == {s[i] : i \in 1 .. Len(s)}

\* The elements of s that are in S, in their order.
Among(s, S) ==
    LET Step(kept, c) == IF c \in S THEN Append(kept, c) ELSE kept
    IN  FoldLeft(Step, <<>>, s)

-----------------------------------------------------------------------------
(* _expand_context                                                            *)

SeedsOf(seeds, parent) == {c \in Elements(seeds) : c.parent = parent}

\* Parents with two seeds or more are asked for instead of neighbours.
RequestedParents(seeds) ==
    {p \in {c.parent : c \in Elements(seeds)} :
        p # None /\ Cardinality(SeedsOf(seeds, p)) >= 2}

\* Mutant of Promoted: parents of any size.
PromotedUnbounded(seeds, limit) ==
    {row \in Corpus : row.level = "parent" /\ row.chunk \in RequestedParents(seeds)}

Promoted(seeds, limit) ==
    {row \in Corpus : /\ row.level = "parent"
                      /\ row.chunk \in RequestedParents(seeds)
                      /\ Tokens(row) <= limit}

\* expansion_direction, a property of the text: 1 when it ends without a full
\* stop, -1 when it starts inside a sentence; distances 1 .. reach.
Neighbours(seeds, reach) ==
    LET Beside(row, seed) ==
            /\ row.level = "child" /\ row.parent = seed.parent /\ seed.parent # None
            /\ seed.parent \notin RequestedParents(seeds)
            /\ \E distance \in 1 .. reach :
                   /\ seed.direction # 0
                   /\ row.ordinal = seed.ordinal + seed.direction * distance
    IN  {n \in Corpus \X Elements(seeds) : Beside(n[1], n[2])}

PromotedCandidate(row, seeds) ==
    LET matching == SeedsOf(seeds, row.chunk)
    IN  [row EXCEPT !.sim    = Max({c.sim : c \in matching}),
                    !.lex    = Max({c.lex : c \in matching}),
                    !.fused  = Max({c.fused : c \in matching}),
                    !.rerank = Max({EffectiveScore(c) : c \in matching})]

\* A neighbour has nine tenths of its seed's score.  Scores are kept in tenths.
NeighbourCandidate(row, seed) ==
    [row EXCEPT !.sim = seed.sim, !.lex = seed.lex,
                !.fused  = (seed.fused * 9) \div 10,
                !.rerank = (EffectiveScore(seed) * 9) \div 10]

\* The rows come back in the order of the query, here that of their ordinals.
InRowOrder(rows) ==
    LET s == SetToSeq(rows)
    IN  SortedBy(s, [i \in 1 .. Len(s) |-> <<-s[i].ordinal>>])

Expand(seeds, reach, limit) ==
    LET promoted == {row.chunk : row \in Promoted(seeds, limit)}
    IN  Among(seeds, {c \in Elements(seeds) : c.parent \notin promoted})
        \o InRowOrder({PromotedCandidate(row, seeds) : row \in Promoted(seeds, limit)})
        \o InRowOrder({NeighbourCandidate(n[1], n[2]) : n \in Neighbours(seeds, reach)})

-----------------------------------------------------------------------------
(* merge_adjacent_candidates                                                  *)

SameMergeGroup(seed, c) ==
    /\ seed.doc = c.doc
    /\ seed.parent # None /\ seed.parent = c.parent
    /\ seed.level = "child" /\ c.level = "child"

\* The unconsumed members of the seed's group whose ordinals are linked to the
\* seed's without a gap, in order; nothing for a chunk that has no parent.
Compatible(seed, candidates, consumed) ==
    LET group == {c \in Elements(candidates) :
                     c.chunk \notin consumed /\ SameMergeGroup(seed, c)}
        Linked(c) == \A o \in Min({c.ordinal, seed.ordinal})
                              .. Max({c.ordinal, seed.ordinal}) :
                         \E d \in group : d.ordinal = o
    IN  InRowOrder({c \in group : Linked(c)})

\* _merged_candidate; `members' are the chunks whose text is in the passage.
MergedCandidate(left, right) ==
    [left EXCEPT !.ordinal = Min({left.ordinal, right.ordinal}),
                 !.start = Min({left.start, right.start}),
                 !.end   = Max({left.end, right.end}),
                 !.hash  = None,
                 !.sim   = Max({left.sim, right.sim}),
                 !.lex   = Max({left.lex, right.lex}),
                 !.fused = Max({left.fused, right.fused}),
                 !.rerank = Max({EffectiveScore(left), EffectiveScore(right)}),
                 !.members = @ \union right.members]

\* The passage starts at the FIRST of the run, not at the seed, and stops at
\* the member that would exceed the limit: a seed further on is then neither
\* in the passage nor looked at again.
Passage(run, limit) ==
    LET Step(acc, c) ==
            IF acc.full \/ Tokens(MergedCandidate(acc.passage, c)) > limit
              THEN [acc EXCEPT !.full = TRUE]
              ELSE [acc EXCEPT !.passage = MergedCandidate(@, c)]
    IN  FoldLeft(Step, [full |-> FALSE, passage |-> Head(run)], Tail(run)).passage

ByScore(s) == SortedBy(s, [i \in 1 .. Len(s) |-> <<EffectiveScore(s[i])>>])

\* merge_adjacent_candidates: best seed first.  A seed that its own passage did
\* not reach is not looked at again.
Merge(candidates, limit) ==
    LET Step(acc, seed) ==
            IF seed.chunk \in acc.consumed THEN acc
            ELSE LET run     == Compatible(seed, candidates, acc.consumed)
                     passage == IF run = <<>> THEN seed ELSE Passage(run, limit)
                 IN  [merged   |-> Append(acc.merged, passage),
                      consumed |-> acc.consumed \union passage.members]
    IN  ByScore(FoldLeft(Step, [merged |-> <<>>, consumed |-> {}],
                         ByScore(candidates)).merged)

-----------------------------------------------------------------------------
(* assemble_evidence_candidates                                               *)

Fits(selected, c, maxItems, budget) ==
    /\ Len(selected) < maxItems
    /\ TokensOf(selected) + Tokens(c) <= budget

Assemble(candidates, maxItems, budget) ==
    LET Step(selected, c) ==
            IF Fits(selected, c, maxItems, budget) THEN Append(selected, c) ELSE selected
    IN  FoldLeft(Step, <<>>, SuppressDuplicates(candidates))

-----------------------------------------------------------------------------

\* retrieve_evidence from the fused candidates on, in the hierarchical and
\* reranked mode: the seeds, and the evidence with the verdict that is read off
\* the passages, not off the candidates they were merged from.
Seeds(selected, limits) ==
    Diversify(SuppressDuplicates(selected), limits.items, limits.penalty)

Expanded(selected, limits) ==
    Expand(Seeds(selected, limits), limits.reach, limits.passage)

Retrieve(fused, scores, fails, limits) ==
    LET selected == Reranked(fused, scores, fails, limits.items)
        evidence == Assemble(Merge(Expanded(selected, limits), limits.passage),
                             limits.items, limits.budget)
    IN  [evidence   |-> evidence,
         sufficient |-> IsSufficient(evidence, limits.similarity, limits.lexical)]

-----------------------------------------------------------------------------
(* rag/summary_retrieval.py                                                   *)

SummaryLevels == {"section_summary", "document_summary"}

SummariesAmong(rows) == {c \in rows : c.level \in SummaryLevels}

\* The legs of _summary_candidates: the summaries that have a score, best first,
\* four for each one that is asked for.  The other rows of chunks are not read.
SemanticSummaries(rows, items) ==
    LET found == SetToSeq({[c EXCEPT !.lex = Absent] : c \in
                              {d \in SummariesAmong(rows) : d.sim # Absent}})
    IN  Top(SortedBy(found, [i \in 1 .. Len(found) |-> <<found[i].sim>>]), 4 * items)

LexicalSummaries(rows, items) ==
    LET found == SetToSeq({[c EXCEPT !.sim = Absent] : c \in
                              {d \in SummariesAmong(rows) : d.lex # Absent}})
    IN  Top(SortedBy(found, [i \in 1 .. Len(found) |-> <<found[i].lex>>]), 4 * items)

\* A question about whole documents is answered from their summaries, if any.
Narrowed(fused, whole) ==
    LET documents == Among(fused, {c \in Elements(fused) : c.level = "document_summary"})
    IN  IF whole /\ documents # <<>> THEN documents ELSE fused

\* The ranked summaries: both legs count the same, and no Document is capped.
RankedSummaries(rows, whole, scores, limits) ==
    LET semantic == SemanticSummaries(rows, limits.items)
        lexical  == LexicalSummaries(rows, limits.items)
        fused    == Fuse(semantic, lexical, <<1, 1>>, 3 * limits.items,
                         Len(semantic) + Len(lexical))
    IN  Rerank(Narrowed(fused, whole), scores)

\* retrieve_summary_context
RetrieveSummaries(rows, whole, scores, limits) ==
    LET ranked == RankedSummaries(rows, whole, scores, limits)
    IN  Assemble(Diversify(SuppressDuplicates(ranked), limits.items, limits.penalty),
                 limits.items, limits.budget)

=============================================================================
