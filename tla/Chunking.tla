------------------------------- MODULE Chunking -------------------------------
(* The three chunkers: hierarchical_v1 (ingestion/hierarchical_chunking.py),  *)
(* token_recursive_v1 (ingestion/chunkers.py) and legacy_char_v1              *)
(* (ingestion/chunking.py).                                                   *)
(*                                                                            *)
(* A text is a sequence of tokens <<block, line, i>>: the i-th token of a     *)
(* line, where a line is a sentence of a paragraph or a row of a table.       *)
(* Joining texts adds white space only, which the tokenizer does not count,   *)
(* so joining is concatenation and counting is Len.                           *)
EXTENDS Integers, Sequences, SequencesExt, FiniteSetsExt

LOCAL Total(texts) == FoldLeft(LAMBDA n, t : n + Len(t), 0, texts)

-----------------------------------------------------------------------------
(* ConservativeTokenizer                                                      *)

\* split: pieces of n tokens, the last one shorter.
Pieces(text, n) ==
    [k \in 1 .. (Len(text) + n - 1) \div n |->
        SubSeq(text, (k - 1) * n + 1, Min({k * n, Len(text)}))]

TailOf(text, n) == SubSeq(text, Max({1, Len(text) - n + 1}), Len(text))

\* The sentences or rows of a text: its longest runs of tokens of one line.
Lines(text) ==
    LET SameLine(t, u) == t[1] = u[1] /\ t[2] = u[2]
        Step(acc, t) ==
            IF acc # <<>> /\ SameLine(Last(Last(acc)), t)
              THEN Append(Front(acc), Append(Last(acc), t))
              ELSE Append(acc, <<t>>)
    IN  FoldLeft(Step, <<>>, text)

-----------------------------------------------------------------------------
(* hierarchical_v1: splitting one segment.  A segment is a part of a block:   *)
(* `order' is the number of its block, and from .. to its place in the        *)
(* normalized Document, counted in tokens.                                    *)

\* _segments_for_text_pieces: a piece is found where the one before it ends.
Sliced(segment, pieces) ==
    LET start(k) == segment.from + Total(SubSeq(pieces, 1, k - 1))
    IN  [k \in 1 .. Len(pieces) |->
            [segment EXCEPT !.text = pieces[k], !.from = start(k),
                            !.to = start(k) + Len(pieces[k])]]

\* _hard_split_segment
HardSplit(segment, n) == Sliced(segment, Pieces(segment.text, n))

Flushed(pieces, current) == IF current = <<>> THEN pieces ELSE Append(pieces, current)

\* _split_sentences: sentences are packed up to n tokens, longer ones cut.
SplitSentences(segment, n) ==
    LET Step(acc, sentence) ==
            IF Len(sentence) > n
              THEN [pieces  |-> Flushed(acc.pieces, acc.current) \o Pieces(sentence, n),
                    current |-> <<>>]
            ELSE IF Len(acc.current) + Len(sentence) > n
              THEN [pieces  |-> Flushed(acc.pieces, acc.current), current |-> sentence]
            ELSE [acc EXCEPT !.current = @ \o sentence]
        Ended(acc) == Sliced(segment, Flushed(acc.pieces, acc.current))
    IN  Ended(FoldLeft(Step, [pieces |-> <<>>, current |-> <<>>], Lines(segment.text)))

\* _split_table: every piece starts with the header.  A row that is too long
\* for a piece of its own is cut only when it follows the header directly.  The
\* pieces keep the place of the whole table.
SplitTable(segment, n) ==
    LET rows   == Lines(segment.text)
        header == Head(rows)
        Repeated(text) == header \o text
        Cut(row) == Pieces(row, n - Len(header))
        Step(acc, row) ==
            IF Len(header) + Len(acc.current) + Len(row) <= n
              THEN [acc EXCEPT !.current = @ \o row]
            ELSE IF acc.current # <<>>
              THEN [pieces |-> Append(acc.pieces, Repeated(acc.current)), current |-> row]
            ELSE [acc EXCEPT !.pieces = @ \o [k \in DOMAIN Cut(row) |-> Repeated(Cut(row)[k])]]
        Places(pieces) == [k \in DOMAIN pieces |-> [segment EXCEPT !.text = pieces[k]]]
        Ended(acc) == IF acc.current = <<>> THEN acc.pieces
                      ELSE Append(acc.pieces, Repeated(acc.current))
    IN  IF Len(rows) <= 2 \/ Len(header) >= n THEN HardSplit(segment, n)
        ELSE Places(Ended(FoldLeft(Step, [pieces |-> <<>>, current |-> <<>>], Tail(rows))))

\* _split_segment.  A table or a paragraph that yields one part is cut instead.
SplitSegment(segment, n) ==
    LET Several(parts) == IF Len(parts) > 1 THEN parts ELSE HardSplit(segment, n)
    IN  IF Len(segment.text) <= n THEN <<segment>>
        ELSE Several(IF segment.type = "table" THEN SplitTable(segment, n)
                     ELSE IF segment.type \in {"paragraph", "list", "list_item"}
                       THEN SplitSentences(segment, n)
                     ELSE <<>>)

\* _join_segments: the text of a group, and its segments' texts one by one.
Texts(group) == [k \in 1 .. Len(group) |-> group[k].text]
TextOf(group) == FlattenSeq(Texts(group))
DocumentText(blocks) == TextOf(blocks)

-----------------------------------------------------------------------------
(* hierarchical_v1: parents.                                                  *)

\* The queues of segments: the domain of the loops that are defined as functions.
Segments == Seq([type : STRING, text : Seq(Seq(Nat)), order : Nat, from : Nat, to : Nat])

\* _group_parents.  A heading starts a parent and never stands alone when a
\* body follows: a body that does not fit is cut to what is left.  `grouped' are
\* the parents that the loop still makes of a queue.
GroupParents(segments, cfg) ==
    LET grouped[queue \in Segments, current \in Segments, needsBody \in BOOLEAN] ==
            IF queue = <<>> THEN Flushed(<<>>, current)
            ELSE
            LET segment == Head(queue)
                tokens  == Len(TextOf(current))
                fits    == tokens + Len(segment.text) <= cfg.parentMax
                Cut(parts) == <<Append(current, Head(parts))>>
                              \o grouped[Tail(parts) \o Tail(queue), <<>>, FALSE]
            IN  IF segment.type = "heading"
                  THEN Flushed(<<>>, current) \o grouped[Tail(queue), <<segment>>, TRUE]
                ELSE IF \/ current # <<>> /\ ~needsBody /\ tokens >= cfg.parentTarget
                        \/ current # <<>> /\ ~fits /\ ~needsBody
                        \/ current # <<>> /\ ~fits /\ tokens >= cfg.parentMax
                  THEN <<current>> \o grouped[queue, <<>>, FALSE]
                ELSE IF current # <<>> /\ ~fits
                  THEN Cut(SplitSegment(segment, cfg.parentMax - tokens))
                ELSE grouped[Tail(queue), Append(current, segment), FALSE]
    IN  grouped[segments, <<>>, FALSE]

-----------------------------------------------------------------------------
(* hierarchical_v1: children.                                                 *)

\* What _group_children leaves for the text beside the heading prefix.
ContentMax(cfg)    == Max({1, cfg.childMax - cfg.prefix})
ContentTarget(cfg) == Max({1, Min({cfg.childTarget, ContentMax(cfg)})})
ContentMin(cfg)    == Max({1, Min({cfg.childMin, ContentTarget(cfg)})})

AllHeadings(group) == \A k \in 1 .. Len(group) : group[k].type = "heading"

\* The loop of _pack_child_groups; `packed' are the groups it still makes.
PackChildren(segments, cfg) ==
    LET packed[queue \in Segments, current \in Segments] ==
            IF queue = <<>> THEN Flushed(<<>>, current)
            ELSE
            LET segment   == Head(queue)
                remaining == Total(Texts(queue))
                full      == /\ Len(TextOf(current)) >= ContentTarget(cfg)
                             /\ ~ /\ remaining < ContentMin(cfg)
                                  /\ Len(TextOf(current)) + remaining <= ContentMax(cfg)
                open      == IF full THEN <<>> ELSE current
                done      == IF full THEN Flushed(<<>>, current) ELSE <<>>
                fits      == Len(TextOf(open)) + Len(segment.text) <= ContentMax(cfg)
                available == ContentMax(cfg) - Len(TextOf(current))
                Cut(parts) == Append(done, Append(open, Head(parts)))
                              \o packed[Tail(parts) \o Tail(queue), <<>>]
            IN  IF open = <<>> \/ fits
                  THEN done \o packed[Tail(queue), Append(open, segment)]
                ELSE IF AllHeadings(open)
                  THEN Cut(SplitSegment(segment, Max({1, available})))
                ELSE Append(done, open) \o packed[Tail(queue), <<segment>>]
    IN  packed[segments, <<>>]

\* The end of _pack_child_groups: a last group below the minimum joins the one
\* before it when both fit.
TailAbsorbed(groups, cfg) ==
    LET n    == Len(groups)
        both == groups[n - 1] \o groups[n]
    IN  IF /\ n >= 2
           /\ Len(TextOf(groups[n])) < ContentMin(cfg)
           /\ Len(TextOf(both)) <= ContentMax(cfg)
          THEN Append(SubSeq(groups, 1, n - 2), both)
          ELSE groups

Verbatim(group) == \A k \in 1 .. Len(group) : group[k].type \in {"table", "code"}

\* _tail_segments: the last n tokens of a group, as parts of its segments.
TailSegments(group, n) ==
    LET Step(segment, acc) ==
            LET taken == Min({Len(segment.text), acc.room})
                part  == [segment EXCEPT !.text = TailOf(@, taken),
                                         !.from = @ + Len(segment.text) - taken]
            IN  IF taken = 0 THEN acc
                ELSE [room |-> acc.room - taken, parts |-> <<part>> \o acc.parts]
    IN  FoldRight(Step, group, [room |-> n, parts |-> <<>>]).parts

\* Mutant of OverlapOf: whatever room is left.
OverlapAlways(groups, k, cfg) ==
    IF k = 1 THEN <<>> ELSE TailSegments(groups[k - 1], cfg.overlap)

\* _apply_overlap: what of the previous group is put before a group.
OverlapOf(groups, k, cfg) ==
    IF k = 1 \/ Verbatim(groups[k]) THEN <<>>
    ELSE LET room == Max({0, ContentMax(cfg) - Len(TextOf(groups[k]))})
         IN  TailSegments(groups[k - 1], Min({cfg.overlap, room}))

\* _constructed_chunk: the chunk of some segments, `overlap' of them repeated.
Chunk(overlap, group) ==
    LET segments == overlap \o group
    IN  [overlap |-> TextOf(overlap), text |-> TextOf(group),
         orders  |-> {segments[k].order : k \in 1 .. Len(segments)},
         from    |-> Min({segments[k].from : k \in 1 .. Len(segments)}),
         to      |-> Max({segments[k].to : k \in 1 .. Len(segments)})]

\* _group_children, as the chunks of the groups.
GroupChildren(parent, cfg) ==
    LET expanded == FlattenSeq([k \in 1 .. Len(parent) |->
                                   SplitSegment(parent[k], ContentMax(cfg))])
        Chunks(groups) ==
            [k \in 1 .. Len(groups) |-> Chunk(OverlapOf(groups, k, cfg), groups[k])]
    IN  Chunks(TailAbsorbed(PackChildren(expanded, cfg), cfg))

\* _assign_offsets_and_order, _segment_from_block
SegmentOf(blocks, k) ==
    LET start == Total(Texts(SubSeq(blocks, 1, k - 1))) + 2 * (k - 1)
    IN  [type |-> blocks[k].type, text |-> blocks[k].text, order |-> k,
         from |-> start, to |-> start + Len(blocks[k].text)]

\* construct_hierarchy: the chunks of the parents with those of their children.
Hierarchy(blocks, cfg) ==
    LET segments == FlattenSeq([k \in 1 .. Len(blocks) |->
                                   SplitSegment(SegmentOf(blocks, k), cfg.parentMax)])
        WithChildren(parents) ==
            [k \in 1 .. Len(parents) |->
                [chunk |-> Chunk(<<>>, parents[k]), children |-> GroupChildren(parents[k], cfg)]]
    IN  WithChildren(GroupParents(segments, cfg))

-----------------------------------------------------------------------------
(* ingestion/validation.py                                                    *)

ParentsOf(hierarchy)  == [k \in 1 .. Len(hierarchy) |-> hierarchy[k].chunk]
ChildrenOf(hierarchy) == FlattenSeq([k \in 1 .. Len(hierarchy) |-> hierarchy[k].children])

ChildText(chunk) == chunk.overlap \o chunk.text

OrdersOf(chunks) == UNION {chunks[k].orders : k \in 1 .. Len(chunks)}

\* _validate_ordered_offsets
Ordered(chunks) == \A k \in 2 .. Len(chunks) : chunks[k - 1].from <= chunks[k].from

\* _validate_sizes, the embedding input with its heading prefix included.
SizesFit(hierarchy, cfg) ==
    /\ \A k \in 1 .. Len(hierarchy) : Len(hierarchy[k].chunk.text) <= cfg.parentMax
    /\ \A c \in ToSet(ChildrenOf(hierarchy)) :
           Len(ChildText(c)) + cfg.prefix <= cfg.childMax

\* _validate_parent_links
Linked(hierarchy) ==
    \A k \in 1 .. Len(hierarchy) :
        /\ hierarchy[k].children # <<>>
        /\ OrdersOf(hierarchy[k].children) \subseteq hierarchy[k].chunk.orders

\* _validate_coverage
Covered(blocks, hierarchy) ==
    /\ OrdersOf(ParentsOf(hierarchy)) = 1 .. Len(blocks)
    /\ 1 .. Len(blocks) \subseteq OrdersOf(ChildrenOf(hierarchy))

\* validate_hierarchy: what it has to object to; it raises on the first.
Objections(blocks, hierarchy, cfg) ==
    {what \in {"limits", "offsets", "sizes", "links", "coverage"} :
        CASE what = "limits" ->
                 \/ Len(DocumentText(blocks)) > cfg.maxTokens
                 \/ Len(ParentsOf(hierarchy) \o ChildrenOf(hierarchy)) > cfg.maxChunks
          [] what = "offsets" ->
                 ~Ordered(ParentsOf(hierarchy)) \/ ~Ordered(ChildrenOf(hierarchy))
          [] what = "sizes" -> ~SizesFit(hierarchy, cfg)
          [] what = "links" -> ~Linked(hierarchy)
          [] what = "coverage" -> ~Covered(blocks, hierarchy)}

-----------------------------------------------------------------------------
(* token_recursive_v1                                                         *)

\* One round of the loop of _pack_units; `current' is a sequence of units and
\* `counted' the code's current_tokens.  When the unit does not fit and the
\* current piece is below the minimum, the LAST unit of the piece is taken off
\* it and counted instead of the rest; it is put back nowhere.
PackUnit(acc, unit, cfg) ==
    LET left == acc.left - Len(unit)
        full == /\ acc.current # <<>> /\ acc.counted >= cfg.childTarget
                /\ ~ /\ Len(unit) + left < cfg.childMin
                     /\ acc.counted + Len(unit) <= cfg.childMax
        open == IF full THEN [acc EXCEPT !.pieces = Append(@, FlattenSeq(acc.current)),
                                         !.current = <<>>, !.counted = 0]
                ELSE acc
        over == open.counted + Len(unit) > cfg.childMax
        room == IF over /\ open.counted >= cfg.childMin
                  THEN [open EXCEPT !.pieces = Flushed(@, FlattenSeq(open.current)),
                                    !.current = <<>>, !.counted = 0]
                ELSE IF over /\ open.current # <<>>
                  THEN [open EXCEPT !.current = Front(@),
                                    !.counted = Len(Last(open.current)),
                                    !.discarded = @ \union ToSet(Last(open.current))]
                ELSE open
    IN  IF Len(unit) > cfg.childMax
          THEN [acc EXCEPT !.pieces = Flushed(@, FlattenSeq(acc.current))
                                        \o Pieces(unit, cfg.childMax),
                           !.current = <<>>, !.counted = 0, !.left = left]
          ELSE [room EXCEPT !.current = Append(@, unit), !.counted = @ + Len(unit),
                            !.left = left]

\* _pack_units of one section's units (_split_units).
PackUnits(units, cfg) ==
    LET Step(acc, unit) == PackUnit(acc, unit, cfg)
        packed == FoldLeft(Step, [pieces |-> <<>>, current |-> <<>>, counted |-> 0,
                                  left |-> Total(units), discarded |-> {}], units)
        pieces == Flushed(packed.pieces, FlattenSeq(packed.current))
        Prefix(k) == IF k = 1 THEN <<>> ELSE TailOf(pieces[k - 1], cfg.overlap)
        Overlap(k) == IF Len(Prefix(k)) + Len(pieces[k]) > cfg.childMax
                        THEN <<>> ELSE Prefix(k)
    IN  [pieces    |-> [k \in 1 .. Len(pieces) |->
                           [overlap |-> Overlap(k), text |-> pieces[k]]],
         discarded |-> packed.discarded]

-----------------------------------------------------------------------------
(* legacy_char_v1, on a sequence of characters of which only " ", "." and     *)
(* line ends matter.  Offsets are Python's: the characters from start up to,  *)
(* without, end.                                                              *)

CharAt(text, offset) == text[offset + 1]

IsSpace(c) == c \in {" ", "\n"}

\* rfind: where the last of the occurrences inside low .. high starts, or -1.
FindLast(text, part, low, high) ==
    Max({-1} \union {o \in low .. high - Len(part) :
                        \A i \in 1 .. Len(part) : text[o + i] = part[i]})

\* _boundary: behind the last paragraph, sentence, line or word end in the
\* second half of the target, whichever is furthest on.
Boundary(text, start, target) ==
    LET proposed == Min({Len(text), start + target})
        lower    == start + Max({target \div 2, 1})
        best     == Max({FindLast(text, part, lower, proposed) :
                            part \in {<<"\n", "\n">>, <<".", " ">>, <<"\n">>, <<" ">>}})
    IN  IF proposed = Len(text) \/ best < lower THEN proposed ELSE best + 1

\* Where the next chunk starts: the overlap back, then on to white space.
NextStart(text, start, end, overlap) ==
    LET first == Max({start + 1, end - overlap})
    IN  Min({o \in first .. end : o = end \/ IsSpace(CharAt(text, o))} \union {end})

\* chunk_sections on one section: the spans <<start, end>> of its chunks.
Spans(text, target, overlap) ==
    LET spans[start \in Nat] ==
            IF start >= Len(text) THEN <<>>
            ELSE LET end == Boundary(text, start, target)
                 IN  <<<<start, end>>>>
                     \o (IF end >= Len(text) THEN <<>>
                         ELSE spans[NextStart(text, start, end, overlap)])
    IN  spans[0]

=============================================================================
