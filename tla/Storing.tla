------------------------------- MODULE Storing -------------------------------
(* From a validated hierarchy to the rows of chunks: the optional summaries   *)
(* (ingestion/summarization.py), the rows and the order in which they are     *)
(* inserted (ingestion/persistence.py), as run_ingestion calls them.          *)
(*                                                                            *)
(* The text of a summary is the sequence of the parents it was made from.     *)
(* `o' is what the providers do: the purpose of a summary call that fails or  *)
(* gives an invalid or too long text, if any, and the numbers of vectors.     *)
EXTENDS Chunking

NoCall == "none"

-----------------------------------------------------------------------------
(* Summaries.                                                                 *)

\* One round of _reduce_section_summaries: batches of n, the last one shorter.
Batches(level, n) ==
    [k \in 1 .. (Len(level) + n - 1) \div n |->
        FlattenSeq(SubSeq(level, (k - 1) * n + 1, Min({k * n, Len(level)})))]

Reduce(level, n) ==
    LET reduced[l \in Seq(Seq(Nat))] ==
            IF Len(l) = 1 THEN l[1] ELSE reduced[Batches(l, n)]
    IN  reduced[level]

Summary(level, ordinal, sources) == [level |-> level, ordinal |-> ordinal, text |-> sources]

\* generate_hierarchical_summaries: one summary of each parent, then one of the
\* Document; any call that fails gives up all of them.
Summaries(parents, o) ==
    LET sections == [k \in 1 .. Len(parents) |-> Summary("section_summary", k, <<k>>)]
        calls    == {"section", "document_final"}
                      \union (IF Len(parents) > 1 THEN {"document_reduce"} ELSE {})
    IN  IF parents = <<>> \/ o.bad \in calls THEN <<>>
        ELSE Append(sections,
                    Summary("document_summary", 1,
                            Reduce([k \in 1 .. Len(sections) |-> sections[k].text], o.batch)))

-----------------------------------------------------------------------------
(* Rows.                                                                      *)

\* _stable_chunk_id: a name made of level, ordinal and content.
ChunkId(level, ordinal, text) == <<level, ordinal, text>>

Row(level, ordinal, text, parent) ==
    [id |-> ChunkId(level, ordinal, text), level |-> level, ordinal |-> ordinal,
     text |-> text, parent |-> parent]

ParentId(hierarchy, k) == ChunkId("parent", k, hierarchy[k].chunk.text)

\* build_hierarchical_chunk_models: ordinals count the children of all parents.
ParentRows(hierarchy) ==
    [k \in 1 .. Len(hierarchy) |-> Row("parent", k, hierarchy[k].chunk.text, <<>>)]

\* Mutant of ChildRows: a child is given to the parent of its own number.
ChildRowsByOrdinal(hierarchy) ==
    LET children == ChildrenOf(hierarchy)
    IN  [i \in 1 .. Len(children) |->
            Row("child", i, ChildText(children[i]),
                ParentId(hierarchy, Min({i, Len(hierarchy)})))]

ChildRows(hierarchy) ==
    LET Before(k) == Len(ChildrenOf(SubSeq(hierarchy, 1, k - 1)))
    IN  FlattenSeq([k \in 1 .. Len(hierarchy) |->
            [j \in 1 .. Len(hierarchy[k].children) |->
                Row("child", Before(k) + j, ChildText(hierarchy[k].children[j]),
                    ParentId(hierarchy, k))]])

\* build_summary_chunk_models
SummaryRows(hierarchy, summaries) ==
    [i \in 1 .. Len(summaries) |->
        Row(summaries[i].level, summaries[i].ordinal, summaries[i].text,
            IF summaries[i].level = "section_summary"
              THEN ParentId(hierarchy, summaries[i].ordinal) ELSE <<>>)]

\* The summaries that are stored: none where they are switched off, exceed the
\* chunk limit of the Document, or could not be embedded.
Kept(hierarchy, cfg, o) ==
    LET summaries == Summaries(ParentsOf(hierarchy), o)
    IN  IF \/ ~o.enabled \/ o.summaryVectors # Len(summaries)
           \/ Len(ParentsOf(hierarchy) \o ChildrenOf(hierarchy) \o summaries) > cfg.maxChunks
          THEN <<>> ELSE summaries

\* replace_document_chunks: parents, summaries and children, in this order; or
\* nothing, when there is not one vector for each child.
StoredRows(hierarchy, cfg, o) ==
    IF o.childVectors # Len(ChildrenOf(hierarchy)) THEN <<>>
    ELSE ParentRows(hierarchy) \o SummaryRows(hierarchy, Kept(hierarchy, cfg, o))
           \o ChildRows(hierarchy)

\* build_legacy_chunk_models: the rows of a flat chunker.
FlatRows(chunks) ==
    [k \in 1 .. Len(chunks) |-> Row("child", k, ChildText(chunks[k]), <<>>)]

=============================================================================
