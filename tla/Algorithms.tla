------------------------------ MODULE Algorithms ------------------------------
(* The pure parts of the code, run on every input of a bounded set: one action *)
(* per algorithm takes the input that was chosen and leaves its result, and    *)
(* the invariants compare the result with what it is for.                      *)
EXTENDS Passages, Answers, Extraction, Storing, Evaluation

CONSTANTS
    Fusions,      \* inputs of Fuse
    Selections,   \* inputs of Diversify
    Retrievals,   \* inputs of Retrieve
    Overviews,    \* inputs of RetrieveSummaries
    Generations,  \* inputs of Render
    Questions,    \* inputs of QueryPlan
    Files,        \* inputs of Markdown
    Pages,        \* inputs of Pdf and Normalize
    Items,        \* inputs of Docx and Normalize
    Documents,    \* inputs of Hierarchy
    Batched,      \* inputs of StoredRows
    Sections,     \* inputs of PackUnits
    Strings,      \* inputs of Spans
    Evaluations,  \* inputs of Execute
    Manifests,    \* inputs of Load
    Cases,        \* inputs of RunCase
    Verdicts      \* inputs of Ready and ComparedReady

Scored == [chunk : STRING, doc : STRING, sim : Int, lex : Int, fused : Int, rerank : Int]

Candidates == [chunk : STRING, doc : STRING, parent : STRING, start : Int, end : Int,
               hash : STRING, sim : Int, lex : Int, fused : Int, rerank : Int]

EachChunkOnce(s) == \A i, j \in 1 .. Len(s) : s[i].chunk = s[j].chunk => i = j

\* `c' is the row with other scores, its direction read off its text.
IsRow(c, row) ==
    c = [row EXCEPT !.direction = c.direction, !.sim = c.sim, !.lex = c.lex,
                    !.fused = c.fused, !.rerank = c.rerank]

(* What the inputs of the algorithms that are proved about are, apart from     *)
(* being chosen freely: legs as the search returns them and candidates as      *)
(* fusion leaves them, with the limits that config.py accepts (a child fits a  *)
(* merged passage, a passage the budget, and so does a summary), an output of  *)
(* the model as its schema accepts it, the outcomes of an evaluation, a        *)
(* manifest whose filters use its keys and whose cases name passages of its    *)
(* Documents, a case that was loaded and an answer that passed the validation  *)
(* of its citations, and a verdict on a set with cases (evaluation/metrics.py  *)
(* refuses an empty one).                                                      *)
ASSUME FusionsAssumption ==
    /\ RrfK \in Nat /\ Scale \in Nat
    /\ \A f \in Fusions :
           /\ f.semantic \in Seq(Scored) /\ EachChunkOnce(f.semantic)
           /\ f.lexical \in Seq(Scored) /\ EachChunkOnce(f.lexical)
           /\ \A i \in 1 .. Len(f.semantic) :
                  /\ f.semantic[i].lex = Absent /\ f.semantic[i].sim >= Absent
                  /\ \A j \in 1 .. i : f.semantic[j].sim >= f.semantic[i].sim
           /\ \A i \in 1 .. Len(f.lexical) :
                  /\ f.lexical[i].sim = Absent /\ f.lexical[i].lex >= Absent
                  /\ \A j \in 1 .. i : f.lexical[j].lex >= f.lexical[i].lex
           /\ \A i \in 1 .. Len(f.semantic), j \in 1 .. Len(f.lexical) :
                  f.semantic[i].chunk = f.lexical[j].chunk =>
                      f.semantic[i].doc = f.lexical[j].doc
           /\ f.weights \in Nat \X Nat /\ f.limit \in Nat /\ f.cap \in Nat

ASSUME SelectionsAssumption ==
    /\ Unit \in Nat \ {0}
    /\ \A d \in Selections :
           /\ d.candidates \in Seq(Candidates) /\ EachChunkOnce(d.candidates)
           /\ d.limit \in Nat /\ d.penalty \in Nat

ASSUME RetrievalsAssumption ==
    \A r \in Retrievals :
        /\ r.fused \in Seq(Rows) /\ r.fails \in BOOLEAN
        /\ \A i \in 1 .. Len(r.fused) :
               /\ \E row \in Corpus : row.level = "child" /\ IsRow(r.fused[i], row)
               /\ r.fused[i].sim >= Absent /\ r.fused[i].lex >= Absent
               /\ r.fused[i].fused >= 0 /\ r.fused[i].rerank = Absent
               /\ \A j \in 1 .. i : r.fused[j].fused >= r.fused[i].fused
               /\ r.fails \/ (r.scores[i] \in Int /\ r.scores[i] > Absent)
        /\ r.limits.items \in Nat \ {0} /\ r.limits.penalty \in Nat
        /\ r.limits.reach \in Nat
        /\ r.limits.passage \in Nat /\ r.limits.budget \in Nat
        /\ r.limits.passage <= r.limits.budget
        /\ \A row \in Corpus : row.level = "child" => Tokens(row) <= r.limits.passage
        /\ r.limits.similarity \in Int /\ r.limits.lexical \in Int

ASSUME OverviewsAssumption ==
    \A o \in Overviews :
        /\ o.rows \subseteq Rows /\ IsFiniteSet(o.rows) /\ o.whole \in BOOLEAN
        /\ o.limits.items \in Nat \ {0} /\ o.limits.penalty \in Nat
        /\ o.limits.budget \in Nat
        /\ \A c \in SummariesAmong(o.rows) : Tokens(c) <= o.limits.budget
        /\ \A i \in 1 .. 3 * o.limits.items : o.scores[i] \in Int

ASSUME GenerationsAssumption ==
    \A g \in Generations : g.output.claims \in Seq([ids : Seq(STRING), marked : BOOLEAN])

ASSUME EvaluationsAssumption ==
    \A o \in Evaluations :
        /\ o.create \in {"insert", "refresh", "copy", "enqueue", "done"}
        /\ o.documents \in Seq({"ready", "failed", "pending", "lost"})
        /\ o.cases \in Seq({"ok", "error", "generation_error"})
        /\ o.cleanup \in {"database", "files", "index", "done"}
        /\ o.keep \in BOOLEAN

ASSUME ManifestsAssumption ==
    \A m \in Manifests :
        /\ m.case.supported \in BOOLEAN
        /\ m.case.relevant \subseteq DOMAIN m.owner
        /\ DOMAIN m.filters \subseteq Keys

ASSUME CasesAssumption ==
    \A c \in Cases :
        /\ c.case.supported \in BOOLEAN /\ c.found.sufficient \in BOOLEAN
        /\ Loads(c.case)
        /\ c.answer.used \subseteq c.found.passages

ASSUME VerdictsAssumption ==
    \A v \in Verdicts :
        /\ Len(v.cases) \in Nat \ {0}
        /\ \A i \in 1 .. Len(v.cases) :
               /\ IsFiniteSet(v.cases[i].relevant)
               /\ v.baseline[i].ranked \in Seq(STRING)
               /\ v.candidate[i].ranked \in Seq(STRING)
        /\ v.limits.minimum \in Int /\ v.eligible \in BOOLEAN
        /\ v.checks \subseteq {"true", "missing", "false"} /\ v.checks # {}

VARIABLES algorithm, input, returned, result

vars == <<algorithm, input, returned, result>>

Chosen(name, inputs) ==
    algorithm = name /\ input \in inputs /\ returned = FALSE /\ result = <<>>

Init ==
    \/ Chosen("fuse", Fusions)
    \/ Chosen("diversify", Selections)
    \/ Chosen("retrieve", Retrievals)
    \/ Chosen("overview", Overviews)
    \/ Chosen("render", Generations)
    \/ Chosen("plan", Questions)
    \/ Chosen("markdown", Files)
    \/ Chosen("pdf", Pages)
    \/ Chosen("docx", Items)
    \/ Chosen("hierarchy", Documents)
    \/ Chosen("store", Batched)
    \/ Chosen("pack", Sections)
    \/ Chosen("spans", Strings)
    \/ Chosen("execute", Evaluations)
    \/ Chosen("load", Manifests)
    \/ Chosen("case", Cases)
    \/ Chosen("verdict", Verdicts)

Returns(name, value) ==
    /\ algorithm = name /\ ~returned
    /\ returned' = TRUE
    /\ result' = value
    /\ UNCHANGED <<algorithm, input>>

RunFuse == Returns("fuse",
    Fuse(input.semantic, input.lexical, input.weights, input.limit, input.cap))

RunDiversify == Returns("diversify",
    Diversify(input.candidates, input.limit, input.penalty))

RunRetrieve == Returns("retrieve",
    Retrieve(input.fused, input.scores, input.fails, input.limits))

RunOverview == Returns("overview",
    RetrieveSummaries(input.rows, input.whole, input.scores, input.limits))

RunRender == Returns("render", Render(input.output, input.evidence))

RunPlan == Returns("plan", QueryPlan(input.question, input.history, input.reply))

RunMarkdown == Returns("markdown", Markdown(input))

RunPdf == Returns("pdf", Normalize(Pdf(input.pages, input.maxPages, input.encrypted)))

RunDocx == Returns("docx", Normalize(Docx(input.items, input.pageCount, input.maxPages)))

RunHierarchy == Returns("hierarchy", Hierarchy(input.blocks, input.cfg))

RunStore ==
    LET Stored(hierarchy) == [hierarchy |-> hierarchy,
                              rows |-> StoredRows(hierarchy, input.cfg, input.o)]
    IN  Returns("store", Stored(Hierarchy(input.blocks, input.cfg)))

RunPack == Returns("pack", PackUnits(input.units, input.cfg))

RunSpans == Returns("spans", Spans(input.text, input.target, input.overlap))

RunExecute == Returns("execute", Execute(input))

RunLoad == Returns("load",
    Load(input.case, input.owner, input.filters, input.inferred))

RunJudged == Returns("case", RunCase(input.case, input.found, input.answer))

RunVerdict == Returns("verdict",
    [ready    |-> Ready(input.cases, input.ran, input.baseline, input.candidate,
                        input.checks, input.limits),
     compared |-> ComparedReady(input.cases, input.ran, input.baseline,
                                input.candidate, input.limits, input.eligible)])

Next ==
    \/ RunFuse \/ RunDiversify \/ RunRetrieve \/ RunOverview \/ RunRender \/ RunPlan
    \/ RunMarkdown \/ RunPdf \/ RunDocx \/ RunHierarchy \/ RunStore
    \/ RunPack \/ RunSpans \/ RunExecute \/ RunLoad \/ RunJudged \/ RunVerdict

Spec == Init /\ [][Next]_vars

Has(name) == algorithm = name /\ returned

-----------------------------------------------------------------------------
(* Ranking and evidence.                                                      *)

RankIn(leg, chunk) == IF Position(leg, chunk) = 0 THEN Len(leg) + 1 ELSE Position(leg, chunk)

\* Fusion looks at ranks only (rag/fusion.py): each chunk is selected once, a
\* chunk that both legs rank at least as high as another, and one of them
\* higher, is not selected after it, and a chunk is left out only below a full
\* selection or below the full share of its Document.
FusionRespectsRanks ==
    Has("fuse") =>
        LET legs == ToSet(input.semantic) \union ToSet(input.lexical)
            chunks == {c.chunk : c \in legs}
            Above(a, b) ==
                /\ RankIn(input.semantic, a) <= RankIn(input.semantic, b)
                /\ RankIn(input.lexical, a) <= RankIn(input.lexical, b)
                /\ \/ RankIn(input.semantic, a) < RankIn(input.semantic, b)
                   \/ RankIn(input.lexical, a) < RankIn(input.lexical, b)
            ChosenAt(a) == Position(result, a)
            SameDocument(a) == {i \in 1 .. Len(result) :
                                   \E c \in legs : c.chunk = a /\ c.doc = result[i].doc}
        IN  /\ Cardinality({result[i].chunk : i \in 1 .. Len(result)}) = Len(result)
            /\ \A a, b \in chunks :
                   /\ Above(a, b) /\ ChosenAt(b) # 0
                   /\ Cardinality({i \in SameDocument(a) : i < ChosenAt(b)}) < input.cap
                   => ChosenAt(a) \in 1 .. ChosenAt(b) - 1
            /\ \A a \in chunks :
                   ChosenAt(a) # 0 \/ Len(result) = input.limit
                     \/ Cardinality(SameDocument(a)) = input.cap

\* The diversity selection only ever trades score for spread
\* (rag/evidence_assembly.py): a candidate selected before a better one comes
\* when the better one's Document is already there, unless scores are negative,
\* where the divisor favours what is already there; candidates of one parent
\* keep the order of their scores; and what is left out of an unfilled
\* selection is a duplicate of an earlier candidate.
SpreadIsTheOnlyReason ==
    Has("diversify") =>
        LET S(i) == EffectiveScore(result[i])
            all  == input.candidates
        IN  /\ \A i, j \in 1 .. Len(result) :
                   i < j /\ S(i) < S(j) =>
                       /\ ParentKey(result[i]) # ParentKey(result[j])
                       /\ \/ \E k \in 1 .. i - 1 : result[k].doc = result[j].doc
                          \/ S(i) < 0
            /\ Len(result) < input.limit =>
                   \A c \in Elements(all) \ Elements(result) :
                       \E n \in 1 .. Len(all) :
                           /\ all[n] # c /\ Position(all, c.chunk) > n
                           /\ SameText(c, all[n]) \/ HighlyOverlapping(c, all[n])
            /\ \A i, j \in 1 .. Len(result) :
                   i # j => ~SameText(result[i], result[j])

\* A candidate is passed over for a reason: its ranks, the limits, or spread.
EvidenceFollowsRanks == FusionRespectsRanks /\ SpreadIsTheOnlyReason

Covers(passage, c) ==
    passage.doc = c.doc /\ passage.start <= c.start /\ passage.end >= c.end

\* `c' is to be merged behind a child that is too far from its end.
LeftBehind(c, expanded, limit) ==
    \E d \in Elements(Compatible(c, expanded, {})) :
        d.start < c.start /\ c.end - d.start > limit

\* Whatever reranking, expansion, merging and assembly do (rag/retrieval.py), the
\* text of a candidate with the best score is in the evidence, at its head, and what
\* it proves counts for the verdict; evidence is not sufficient without a candidate
\* that is; it stays within its token budget and its number of items, and comes
\* from Documents with a candidate.  The code misses two cases: when children before
\* the best one fill the merged passage, the best candidate is passed over and lost;
\* and a neighbour, with nine tenths of a score, goes before a seed whose score is
\* negative.
BestPassageIsKept ==
    Has("retrieve") /\ input.fused # <<>> =>
        LET selected == Reranked(input.fused, input.scores, input.fails, input.limits.items)
            best     == EffectiveScore(Head(selected))
            evidence == result.evidence
            Proves(c) == IsSufficient(<<c>>, input.limits.similarity, input.limits.lexical)
        IN  /\ evidence # <<>>
            /\ best >= 0 =>
                   \E c \in Elements(selected) :
                       /\ EffectiveScore(c) = best
                       /\ \/ Covers(Head(evidence), c) /\ (Proves(c) => result.sufficient)
                          \/ LeftBehind(c, Expanded(selected, input.limits), input.limits.passage)
            /\ result.sufficient => \E c \in Elements(selected) : Proves(c)
            /\ Len(evidence) <= input.limits.items /\ TokensOf(evidence) <= input.limits.budget
            /\ \A i \in 1 .. Len(evidence) :
                   evidence[i].doc \in {c.doc : c \in Elements(input.fused)}

\* The summaries a question is answered with (rag/summary_retrieval.py): there
\* are some where the search found one, no other chunk is among them, the best
\* one is first, those of whole Documents stand alone where the question is about
\* whole Documents and one was found, no text is repeated, the budget holds.
BestSummaryIsKept ==
    Has("overview") =>
        LET ranked == RankedSummaries(input.rows, input.whole, input.scores, input.limits)
            n == Len(result)
        IN  /\ (\E c \in input.rows : c.level \in SummaryLevels /\ {c.sim, c.lex} # {Absent})
                 => result # <<>> /\ Head(result) = Head(ranked)
            /\ \A i \in 1 .. n : result[i].level \in SummaryLevels
            /\ input.whole => \A i, j \in 1 .. n :
                   result[i].level = "document_summary" => result[j].level = "document_summary"
            /\ \A i, j \in 1 .. n : i # j => ~SameText(result[i], result[j])
            /\ n <= input.limits.items
            /\ TokensOf(result) <= input.limits.budget

\* The best candidate of a retrieval is not lost on the way to the model.
BestReachesEvidence == BestPassageIsKept /\ BestSummaryIsKept

-----------------------------------------------------------------------------
(* Answers.                                                                   *)

\* The numbers a reader sees lead to the evidence the claim named
\* (rag/grounding.py): number n behind a claim is the n-th citation row, that
\* row is evidence of this turn which the claim cited, numbers appear in the
\* order 1, 2, ... and every row is cited; a conflict cites two rows or more.
MarkersLeadToEvidence ==
    Has("render") /\ result.accepted =>
        LET flat == FlattenSeq(result.markers)
        IN  /\ \A i \in 1 .. Len(result.markers) :
                   \A k \in 1 .. Len(result.markers[i]) :
                       /\ result.markers[i][k] \in 1 .. Len(result.used)
                       /\ result.used[result.markers[i][k]] = input.output.claims[i].ids[k]
            /\ ToSet(result.used) \subseteq input.evidence
            /\ \A n \in 1 .. Len(result.used) : \E k \in 1 .. Len(flat) :
                   flat[k] = n /\ \A j \in 1 .. k - 1 : flat[j] < n
            /\ Cardinality(ToSet(result.used)) = Len(result.used)
            /\ result.outcome = "insufficient_evidence" <=> result.used = <<>>
            /\ result.outcome = "conflicting_evidence" => Len(result.used) >= 2

\* A turn never searches for something else than was asked
\* (rag/query_plan.py): the effective query names every identifier of the
\* question, a rewritten one those of the history too, at least as a part of
\* another identifier, and a failed rewrite leaves no filter behind.
PlanKeepsTheQuestion ==
    Has("plan") =>
        /\ \A id \in input.question.identifiers : Names(result.identifiers, id)
        /\ result.status = "rewritten" =>
               \A i \in 1 .. Len(input.history) : \A id \in input.history[i] :
                   Names(result.identifiers, id)
        /\ result.status # "rewritten" =>
               /\ result.identifiers = input.question.identifiers
               /\ EffectiveFilters(NoFilters, result) = NoFilters

-----------------------------------------------------------------------------
(* Extraction.                                                                *)

Content(lines) == SelectSeq(lines, LAMBDA l : l.kind \notin {"blank", "fence"})

Places(lines) == [i \in 1 .. Len(lines) |-> lines[i].at]

\* The headings of some blocks never go down more than one level at a time.
StepByStep(headings) ==
    \A i \in 1 .. Len(headings) :
        headings[i].level <= (IF i = 1 THEN 0 ELSE headings[i - 1].level) + 1

\* The headings that the end of a text is under.
Enclosing(headings) ==
    LET n == Len(headings)
        open(i) == \A j \in i + 1 .. n : headings[j].level > headings[i].level
    IN  [k \in 1 .. Cardinality({i \in 1 .. n : open(i)}) |->
            headings[CHOOSE i \in 1 .. n :
                        open(i) /\ Cardinality({j \in 1 .. i : open(j)}) = k]]

\* Markdown: every line is in one block, in order, under its own headings.  The
\* code misses one case: below a heading that skips a level, the next of the same
\* level goes under it.
MarkdownKeepsText ==
    Has("markdown") =>
        /\ Places(Content(TextOf(result))) = Places(Content(input))
        /\ \A k \in 1 .. Len(result) :
               LET headings == TextOf(SelectSeq(SubSeq(result, 1, k),
                                                LAMBDA b : b.type = "heading"))
               IN  StepByStep(headings) => result[k].path = Enclosing(headings)

\* PDF: all that is missing are lines that say the same near an edge of two pages
\* and of half of those with text, and a block's pages are those of its lines.
PdfKeepsText ==
    Has("pdf") /\ ~input.encrypted /\ Len(input.pages) <= input.maxPages =>
        LET Page(n)  == FlattenSeq(input.pages[n])
            numbers  == {n \in 1 .. Len(input.pages) : Page(n) # <<>>}
            lines    == FlattenSeq([n \in 1 .. Len(input.pages) |-> Page(n)])
            missing  == ToSet(Places(lines)) \ ToSet(Places(TextOf(result)))
            Edge(n)  == ToSet(Words(Top(Page(n), MaxFurniture)
                                      \o TailOf(Page(n), MaxFurniture)))
            Says(w)  == {n \in numbers : w \in Edge(n)}
            PageOf(l) == CHOOSE n \in numbers : l.at \in ToSet(Places(Page(n)))
        IN  /\ Places(TextOf(result))
                 = SelectSeq(Places(lines), LAMBDA at : at \notin missing)
            /\ \A i \in 1 .. Len(lines) :
                   lines[i].at \in missing =>
                   /\ Cardinality(Says(lines[i].word)) >= 2
                   /\ 2 * Cardinality(Says(lines[i].word)) >= Cardinality(numbers)
            /\ \A k \in 1 .. Len(result) :
                   {PageOf(l) : l \in ToSet(result[k].text)} = result[k].page .. result[k].last

\* No extractor loses or reorders text; DOCX leaves out empty paragraphs only.
ExtractionKeepsText ==
    /\ MarkdownKeepsText /\ PdfKeepsText
    /\ Has("docx") =>
           \/ input.pageCount > input.maxPages
           \/ TextOf(result) = SelectSeq(input.items, LAMBDA item : item.word # "")

-----------------------------------------------------------------------------
(* Chunking.                                                                  *)

\* A text without the later occurrences of its tokens: repeated table headers
\* and overlaps are such occurrences.
FirstOccurrences(text) ==
    LET Note(seen, t) == IF Contains(seen, t) THEN seen ELSE Append(seen, t)
    IN  FoldLeft(Note, <<>>, text)

AllText(children) == FlattenSeq([k \in 1 .. Len(children) |-> children[k].text])

\* hierarchical_v1 loses and reorders nothing: the parents together are the
\* Document's text in order, the children of a parent are the parent's text in
\* order, each overlap is the end of the child before, and only the header rows
\* of tables occur more than once.
HierarchyKeepsText ==
    Has("hierarchy") =>
        LET parents == TextOf(ParentsOf(result))
        IN  /\ FirstOccurrences(parents) = DocumentText(input.blocks)
            /\ \A k \in 1 .. Len(result) :
                   LET children == result[k].children
                   IN  /\ children # <<>>
                       /\ FirstOccurrences(AllText(children))
                            = FirstOccurrences(result[k].chunk.text)
                       /\ \A j \in 2 .. Len(children) :
                              IsSuffix(children[j].overlap, children[j - 1].text)
            /\ \A t \in ToSet(parents) :
                   \/ Cardinality({i \in 1 .. Len(parents) : parents[i] = t}) = 1
                   \/ input.blocks[t[1]].type = "table" /\ t[2] = 1

\* The k-th block is a table with a row that, behind the table's header row, is
\* longer than a child or than the room that the heading before it leaves.
LongRow(blocks, k, n) ==
    LET rows == Lines(blocks[k].text)
        room == IF k > 1 /\ blocks[k - 1].type = "heading"
                  THEN n - Len(blocks[k - 1].text) ELSE n
    IN  /\ blocks[k].type = "table"
        /\ \E i \in 2 .. Len(rows) : Len(rows[1]) + Len(rows[i]) > room

\* What construct_hierarchy builds passes validate_hierarchy, which fails the
\* Document on the first objection: chunks fit the limits of the embedding model,
\* follow one another in the text, and cover every block in their own parent.  The
\* code misses two cases, both of a table with a long row: a row too long for a
\* child is not cut behind another, and once a part of a table is cut in two, the
\* parts after it go back to the table's start.
HierarchyValidates ==
    Has("hierarchy") =>
        LET long == \E k \in 1 .. Len(input.blocks) :
                       LongRow(input.blocks, k, ContentMax(input.cfg))
        IN  Objections(input.blocks, result, input.cfg)
              \subseteq {"limits"} \union (IF long THEN {"sizes", "offsets"} ELSE {})

\* The flat chunkers keep the text too.  token_recursive_v1 keeps every unit in
\* order and within the limit, but for the units that _pack_units takes off a
\* short piece and forgets; legacy_char_v1 leaves no character out but white
\* space at the edges, keeps chunks within the target, and always advances.
FlatChunksKeepText ==
    /\ Has("pack") =>
           LET text == FlattenSeq(input.units)
               kept == SelectSeq(text, LAMBDA t : t \notin result.discarded)
           IN  /\ AllText(result.pieces) = kept
               /\ result.discarded = {} =>
                      \A k \in 1 .. Len(result.pieces) :
                          Len(ChildText(result.pieces[k])) <= input.cfg.childMax
               /\ \A k \in 2 .. Len(result.pieces) :
                      IsSuffix(result.pieces[k].overlap, result.pieces[k - 1].text)
    /\ Has("spans") =>
           LET n == Len(result)
           IN  /\ n > 0 => result[1][1] = 0 /\ result[n][2] = Len(input.text)
               /\ \A k \in 1 .. n : result[k][2] - result[k][1] \in 1 .. input.target
               /\ \A k \in 2 .. n :
                      /\ result[k][1] > result[k - 1][1]
                      /\ result[k][1] \in result[k - 1][2] - input.overlap .. result[k - 1][2]

\* The rows of chunks carry the hierarchy (ingestion/persistence.py): ids are
\* unique, a row comes after its parent, a parent's children are its own, in order
\* and numbered through; the summaries are there for every parent and for the
\* Document, made of all parents in order, or not at all; and whatever becomes of
\* the summaries, the chunks are stored.
RowsKeepChunks ==
    Has("store") =>
        LET rows     == result.rows
            parents  == result.hierarchy
            Level(l) == SelectSeq(rows, LAMBDA r : r.level = l)
            OfRow(k) == SelectSeq(Level("child"), LAMBDA r : r.parent = Level("parent")[k].id)
        IN  /\ rows = <<>> <=> input.o.childVectors # Len(ChildrenOf(parents))
            /\ (rows # <<>>) =>
                 /\ Cardinality({rows[i].id : i \in 1 .. Len(rows)}) = Len(rows)
                 /\ \A i \in 1 .. Len(rows) : rows[i].parent # <<>> =>
                        \E j \in 1 .. i - 1 : /\ rows[j].id = rows[i].parent
                                             /\ rows[j].level = "parent"
                 /\ Texts(Level("parent")) = Texts(ParentsOf(parents))
                 /\ \A k \in 1 .. Len(parents) :
                        Texts(OfRow(k)) = [j \in 1 .. Len(parents[k].children) |->
                                              ChildText(parents[k].children[j])]
                 /\ \A i \in 1 .. Len(Level("child")) : Level("child")[i].ordinal = i
                 /\ \/ Level("section_summary") \o Level("document_summary") = <<>>
                    \/ /\ Texts(Level("document_summary")) = <<[k \in 1 .. Len(parents) |-> k]>>
                       /\ Texts(Level("section_summary")) = [k \in 1 .. Len(parents) |-> <<k>>]

\* From blocks to stored rows, no chunker loses or reorders the text of a Document.
ChunksKeepText == HierarchyKeepsText /\ FlatChunksKeepText /\ RowsKeepChunks

-----------------------------------------------------------------------------
(* Evaluation.                                                                *)

\* The record of an evaluation run says what happened (evaluation/runner.py):
\* "completed" stands for every Document ingested with its gold passages found,
\* every case run and answered and the workspace removed or kept on purpose; what
\* is left behind is named in the record and was either kept on purpose or makes
\* the run a failed one.  The code misses one case: of a workspace whose creation
\* fails, a Knowledge Base that could not be read again, a partial copy, and all
\* that its cleanup does not reach, have no name.
RecordIsHonest ==
    Has("execute") =>
        /\ result.status = "completed" =>
               /\ ToSet(input.documents) \subseteq {"ready"} /\ Bound(input.gold)
               /\ Len(result.cases) = Len(input.cases) /\ ToSet(result.cases) \subseteq {"ok"}
               /\ result.cleaned <=> ~input.keep
        /\ result.cleaned => result.left = Nothing
        /\ result.left # Nothing =>
               \/ input.create # "done" /\ (input.create \in {"refresh", "copy"} \/ input.cleanup # "done")
               \/ result.named /\ (input.keep \/ result.status = "failed")

\* An answer cannot be faithful over a retrieval that failed: what it must cite it
\* was shown.  Only a refusal may be right although the evidence sufficed.
FaithfulnessIsRetrieved ==
    Has("case") /\ result.ends = "ok" /\ result.faithful =>
            \/ result.passed
            \/ ~input.case.supported /\ input.case.required = {}

\* The tags that a case asks for; those whose case Python and SQL fold alike.
TagsAsked(filters) == RetrievalFilters(filters).lists["tags"]
PlainTags(filters) == \A tag \in TagsAsked(filters) : Casefold[tag] = Lower[tag]

\* A retrieval that keeps to the case's filters (rag/retrievers.py) is not found
\* to violate them, nor one that does not to respect them.  The code misses four
\* cases: the runner spells tags exactly, does not count the tags that it gives a
\* Document itself, and takes an empty list for a filter; and retrieval folds a
\* tag in two ways, which some letters tell apart.
FiltersAgree ==
    Has("load") =>
        LET filters == input.filters
            exact   == \A key \in DOMAIN filters : filters[key] # {}
            Spelt(p) ==
                Folded(TagsAsked(filters) \ input.owner[p]["tags"])
                  \intersect Lowered(StoredTags(input.owner[p])) = {}
        IN  /\ exact => \A p \in result.through : Spelt(p) => p \in result.correct
            /\ RetrievalFilters(filters) # Unfiltered /\ PlainTags(filters) =>
                   result.correct \subseteq result.through

\* A case that loads can be passed: with the relevant passages that its filters
\* let through, some answer is faithful.  The code misses three cases: a refusal
\* that lists relevant passages, which no refusal cites; a list of phrases that is
\* empty or, of a refusal, has none of its words; and a tag that retrieval folds in
\* two ways.  And a case without filters is left to those that the plan inferred.
CasesCanBePassed ==
    Has("load") /\ result.loaded =>
        LET case == input.case
            refusal == ~case.supported /\ case.required = {}
        IN  \/ refusal /\ case.relevant # {}
            \/ \E phrases \in Asked(case) :
                   IF refusal THEN phrases \intersect RefusalPhrases = {} ELSE phrases = {}
            \/ ~PlainTags(input.filters)
            \/ RetrievalFilters(input.filters) = Unfiltered /\ input.inferred # Unfiltered
            \/ \E sufficient \in BOOLEAN, used \in SUBSET (case.relevant \intersect result.through),
                 outcome \in {"grounded_answer", "conflicting_evidence", "insufficient_evidence"} :
                   LET run == RunCase(case,
                                [sufficient |-> sufficient, unnamed |-> FALSE,
                                 passages   |-> case.relevant \intersect result.through],
                                [outcome |-> outcome, used |-> used, facts |-> UNION Asked(case)])
                   IN  run.passed /\ run.faithful /\ run.ends = "ok"

\* What a run reports of itself and of its cases can be believed.
RunRecordIsHonest ==
    RecordIsHonest /\ FaithfulnessIsRetrieved /\ FiltersAgree /\ CasesCanBePassed

\* A verdict in favour of a candidate is earned: it is at least as good in every
\* metric, it is better in one where an improvement is asked for, it includes
\* every required passage of a cross-page case, it ran every case, and the
\* acceptance report also has every operational check.  A candidate the report
\* accepts is accepted by the comparison of the same cases too.
VerdictIsEarned ==
    Has("verdict") =>
        LET Gain(name) == Metric(name, input.cases, input.candidate)
                            - Metric(name, input.cases, input.baseline)
        IN  /\ result.ready \/ result.compared =>
                   /\ \A name \in Components : Gain(name) >= 0
                   /\ input.limits.minimum > 0 => \E name \in Components : Gain(name) > 0
                   /\ \A i \in 1 .. Len(input.cases) :
                          input.cases[i].crossPage =>
                              Component("required", input.cases[i],
                                        input.candidate[i].ranked) = Whole
                   /\ {input.cases[i].id : i \in 1 .. Len(input.cases)} = ToSet(input.ran)
            /\ result.ready => input.checks = {"true"}
            /\ result.ready /\ input.eligible /\ input.ran = Ids(input.cases) =>
                   result.compared

=============================================================================
