------------------------------ MODULE Extraction ------------------------------
(* From a file to the blocks that are chunked: the Markdown, PDF and DOCX     *)
(* extractors (ingestion/extraction.py) and the normalization of their blocks *)
(* (ingestion/normalization.py).                                              *)
(*                                                                            *)
(* A line is a record: `at' is its place in the file, `word' what it says,    *)
(* `kind' what the patterns take it for, `level' that of a heading, `hyphen'  *)
(* whether it ends in one after a letter, `letter' whether it begins with one. *)
(* The text of a block is the sequence of its lines.                          *)
EXTENDS Integers, Sequences, FiniteSets, SequencesExt, FiniteSetsExt

CONSTANT MaxFurniture  \* the lines of a text short enough for page furniture

NoPage == 0

-----------------------------------------------------------------------------
(* The state of an extractor: the blocks so far, the heading path, and the    *)
(* lines of the paragraph, the table or the code that are not a block yet.    *)

Empty(path, page) ==
    [blocks |-> <<>>, path |-> path, page |-> page,
     paragraph |-> <<>>, table |-> <<>>, code |-> <<>>, inCode |-> FALSE]

\* append_block: blank text makes no block.
Emit(st, type, text) ==
    IF \A i \in 1 .. Len(text) : text[i].kind = "blank" THEN st
    ELSE [st EXCEPT !.blocks = Append(@,
            [type |-> type, text |-> text, path |-> st.path, page |-> st.page,
             last |-> st.page, position |-> "body"])]

FlushParagraph(st) == [Emit(st, "paragraph", st.paragraph) EXCEPT !.paragraph = <<>>]
FlushTable(st)     == [Emit(st, "table", st.table) EXCEPT !.table = <<>>]
Flush(st)          == FlushTable(FlushParagraph(st))

\* _updated_heading_path
Nested(path, line) == Append(SubSeq(path, 1, Min({line.level - 1, Len(path)})), line)

\* One line outside code.
Take(st, line) ==
    CASE line.kind = "heading" ->
           Emit([Flush(st) EXCEPT !.path = Nested(@, line)], "heading", <<line>>)
      [] line.kind = "blank" -> Flush(st)
      [] line.kind = "list_item" -> Emit(Flush(st), "list_item", <<line>>)
      [] line.kind = "table" -> [FlushParagraph(st) EXCEPT !.table = Append(@, line)]
      [] OTHER -> [FlushTable(st) EXCEPT !.paragraph = Append(@, line)]

-----------------------------------------------------------------------------
(* Extractors.  The result <<>> stands for an ExtractionError.                *)

\* A line that opens or closes code, and one inside it.
Fence(st) ==
    IF st.inCode THEN [Emit(st, "code", st.code) EXCEPT !.code = <<>>, !.inCode = FALSE]
    ELSE [Flush(st) EXCEPT !.inCode = TRUE]

\* _extract_markdown_blocks; code without an end goes on to the end of the file.
Markdown(lines) ==
    LET Step(st, line) ==
            IF line.kind = "fence" THEN Fence(st)
            ELSE IF st.inCode THEN [st EXCEPT !.code = Append(@, line)]
            ELSE Take(st, line)
        end == FoldLeft(Step, Empty(<<>>, NoPage), lines)
    IN  (IF end.inCode THEN Fence(end) ELSE Flush(end)).blocks

\* The first and the last block of a page may be furniture; the only block of
\* a page is its footer.
Marked(blocks) ==
    LET short(k) == Len(blocks[k].text) <= MaxFurniture
    IN  [k \in 1 .. Len(blocks) |->
            [blocks[k] EXCEPT !.position =
                CASE k = Len(blocks) /\ short(k) -> "footer"
                  [] k = 1 /\ short(k) -> "header"
                  [] OTHER -> @]]

\* _pdf_page_blocks: a group of lines ends like a paragraph does.  A page is a
\* sequence of groups; one without text is passed over.
PageBlocks(page, number, path) ==
    LET Group(st, lines) == Flush(FoldLeft(Take, st, lines))
        end == FoldLeft(Group, Empty(path, number), page)
    IN  [blocks |-> Marked(end.blocks), path |-> end.path]

\* extract_pdf
Pdf(pages, maxPages, encrypted) ==
    LET Step(acc, number) ==
            LET page == PageBlocks(pages[number], number, acc.path)
            IN  [blocks |-> acc.blocks \o page.blocks, path |-> page.path]
    IN  IF encrypted \/ Len(pages) > maxPages THEN <<>>
        ELSE FoldLeft(Step, [blocks |-> <<>>, path |-> <<>>],
                      [n \in 1 .. Len(pages) |-> n]).blocks

\* extract_docx: paragraphs and tables by their styles.  A heading without text
\* counts for the path and makes no block.
Docx(items, pageCount, maxPages) ==
    LET Step(st, item) ==
            LET here == IF item.kind = "heading" THEN [st EXCEPT !.path = Nested(@, item)]
                        ELSE st
            IN  IF item.word = "" THEN here ELSE Emit(here, item.kind, <<item>>)
    IN  IF pageCount > maxPages THEN <<>>
        ELSE FoldLeft(Step, Empty(<<>>, NoPage), items).blocks

-----------------------------------------------------------------------------
(* Normalization.                                                             *)

Words(lines) == [i \in 1 .. Len(lines) |-> lines[i].word]

\* _page_furniture_key
IsFurniture(b) == b.position # "body" /\ Len(b.text) <= MaxFurniture

FurnitureKey(b) == <<b.position, Words(b.text)>>

\* Mutant of Often: the lower bound of two pages is missing.
OftenOnHalf(some, all) == 2 * some >= all

\* A key that occurs on `some' of `all' pages with text is repeated.
Often(some, all) == all >= 2 /\ some >= Max({2, (all + 1) \div 2})

\* _repeated_page_furniture
Repeated(blocks) ==
    LET PagesOf(bs) == {b.page : b \in bs} \ {NoPage}
        furniture == {b \in ToSet(blocks) : IsFurniture(b)}
        SameKey(b) == {c \in furniture : FurnitureKey(c) = FurnitureKey(b)}
    IN  {b \in furniture :
            Often(Cardinality(PagesOf(SameKey(b))), Cardinality(PagesOf(ToSet(blocks))))}

\* _can_join_hyphenated
CanJoin(previous, current) ==
    /\ previous.type = "paragraph" /\ current.type = "paragraph"
    /\ previous.page # NoPage /\ current.page = previous.last + 1
    /\ Words(previous.path) = Words(current.path)
    /\ Last(previous.text).hyphen /\ Head(current.text).letter

\* _join_cross_page_hyphenation: the hyphen goes, the lines become one block.
Joined(blocks) ==
    LET Unhyphenated(text) == Append(Front(text), [Last(text) EXCEPT !.hyphen = FALSE])
        Step(acc, b) ==
            IF acc # <<>> /\ CanJoin(Last(acc), b)
              THEN Append(Front(acc),
                          [Last(acc) EXCEPT !.text = Unhyphenated(@) \o b.text,
                                            !.last = b.last])
              ELSE Append(acc, b)
    IN  FoldLeft(Step, <<>>, blocks)

\* normalize_document.  Headings without text leave the path.
Normalize(blocks) ==
    LET repeated  == Repeated(blocks)
        retained  == SelectSeq(blocks, LAMBDA b : b \notin repeated)
        Clean(b)  == [b EXCEPT !.path = SelectSeq(@, LAMBDA h : h.word # "")]
    IN  Joined([k \in 1 .. Len(retained) |-> Clean(retained[k])])

=============================================================================
