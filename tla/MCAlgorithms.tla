---------------------------- MODULE MCAlgorithms ----------------------------
(* The bounded sets of inputs of the algorithms.                             *)
EXTENDS Algorithms

\* Injective sequences over S of a length in 0 .. n.
Orders(S, n) == {s \in SeqOf(S, n) : IsInjective(s)}

-----------------------------------------------------------------------------
(* Fusion: four chunks of two Documents.                                      *)

Fused(chunk, doc) ==
    [chunk |-> chunk, doc |-> doc, sim |-> Absent, lex |-> Absent,
     fused |-> 0, rerank |-> Absent]

MCChunks == {Fused("c1", "d1"), Fused("c2", "d1"), Fused("c3", "d1"), Fused("c4", "d2")}

\* Each leg comes with its own scores, best first.
BySimilarity(order) == [i \in 1 .. Len(order) |-> [order[i] EXCEPT !.sim = 5 - i]]

ByMatch(order) == [i \in 1 .. Len(order) |-> [order[i] EXCEPT !.lex = 5 - i]]

MCFusions ==
    [semantic : {BySimilarity(order) : order \in Orders(MCChunks, 3)},
     lexical : {ByMatch(order) : order \in Orders(MCChunks, 2)},
     weights : {<<1, 1>>, <<1, 2>>, <<0, 1>>}, limit : {2, 4}, cap : {1, 2, 99}]

-----------------------------------------------------------------------------
(* Diversity: candidates of three parents by their scores, negative ones of a *)
(* cross-encoder among them; then candidates with texts that overlap or equal. *)

Ranked(chunk, doc, parent, from, to, hash, score) ==
    [chunk |-> chunk, doc |-> doc, parent |-> parent, start |-> from, end |-> to,
     hash |-> hash, sim |-> Absent, lex |-> Absent, fused |-> 0, rerank |-> score]

Spread ==
    {ByScore(<<Ranked("c1", "d1", "p1", 0, 4, None, s[1]),
               Ranked("c2", "d1", "p1", 4, 8, None, s[2]),
               Ranked("c3", "d1", "p2", 8, 12, None, s[3]),
               Ranked("c4", "d2", "p3", 0, 4, None, s[4])>>) :
        s \in [1 .. 4 -> {-2, -1, 1, 2, 3}]}

Repeats ==
    {<<Ranked("c1", t[1].doc, None, t[1].at, t[1].at + 10, t[1].hash, 3),
       Ranked("c2", t[2].doc, None, t[2].at, t[2].at + 10, t[2].hash, 2),
       Ranked("c3", t[3].doc, None, t[3].at, t[3].at + 10, t[3].hash, 1)>> :
        t \in [1 .. 3 -> [doc : {"d1", "d2"}, at : {0, 1, 2}, hash : {None, "h"}]]}

MCSelections ==
    [candidates : Spread, limit : {2, 4}, penalty : {0, 1, 2}]
      \union [candidates : Repeats, limit : {2, 3}, penalty : {1}]

-----------------------------------------------------------------------------
(* Retrieval: a Document of two parents, the first with three children, and   *)
(* one of one parent.  Scores fall evenly or steeply, tie, or are negative.   *)

Stored(chunk, doc, parent, level, ordinal, from, to) ==
    [chunk |-> chunk, doc |-> doc, parent |-> parent, level |-> level,
     ordinal |-> ordinal, start |-> from, end |-> to, direction |-> 0,
     hash |-> None, sim |-> Absent, lex |-> Absent, fused |-> 0,
     rerank |-> Absent, members |-> {chunk}]

Children == {Stored("c1", "d1", "p1", "child", 1, 0, 4),
             Stored("c2", "d1", "p1", "child", 2, 3, 7),
             Stored("c3", "d1", "p1", "child", 3, 7, 10),
             Stored("c4", "d1", "p2", "child", 4, 10, 14),
             Stored("c5", "d2", "p3", "child", 1, 0, 3)}

MCCorpus == Children \union {Stored("p1", "d1", None, "parent", 0, 0, 10),
                             Stored("p2", "d1", None, "parent", 1, 10, 14),
                             Stored("p3", "d2", None, "parent", 0, 0, 3)}

\* The first of the fused candidates is the one that the semantic leg found.
Found(order, direction, fused) ==
    [i \in 1 .. Len(order) |->
        [order[i] EXCEPT !.direction = direction[i], !.fused = fused[i],
                         !.sim = IF i = 1 THEN 5 ELSE Absent]]

MCLimits == {limits \in [items : {2, 3}, reach : {2}, passage : {4, 7, 10},
                         budget : {7, 10}, penalty : {1}, similarity : {5},
                         lexical : {1}] :
                limits.passage <= limits.budget}

Directed(order, fused) ==
    {Found(order, direction, fused) : direction \in [1 .. Len(order) -> {-1, 0, 1}]}

\* With scores that tie, are zero or negative, and in the fused order.
MCRetrievals ==
    UNION {[fused : Directed(order, <<90, 70, 50>>),
            scores : {<<100, 90, 80>>, <<100, 50, 20>>, <<20, 50, 50>>, <<-10, 0, 0>>},
            fails : {FALSE}, limits : MCLimits]
           \union
           [fused : Directed(order, <<90, 70, 50>>) \union Directed(order, <<90, 90, 50>>),
            scores : {<<>>}, fails : {TRUE}, limits : MCLimits] :
              order \in Orders(Children, 3)}

-----------------------------------------------------------------------------
(* Answers.                                                                   *)

MCClaims == [ids : SeqOf({"E1", "E2", "E3"}, 2), marked : BOOLEAN]

MCGenerations ==
    [output : [status : {"grounded", "conflicting", "insufficient"},
               claims : SeqOf(MCClaims, 2)],
     evidence : {{}, {"E1"}, {"E1", "E2"}}]

MCWithin == {<<"A1", "A12">>}

MCIdentifiers == SUBSET {"A1", "A12"}

MCQuestions ==
    [question : [identifiers : MCIdentifiers, short : BOOLEAN, followUp : BOOLEAN],
     history : SeqOf(MCIdentifiers, 1),
     reply : [failed : {FALSE}, valid : BOOLEAN, blank : BOOLEAN,
              identifiers : MCIdentifiers, preserved : {{}, {"A1"}},
              after : {0, 1, 2}, before : {0, 1}]
             \union [failed : {TRUE}, valid : {FALSE}, blank : {FALSE},
                     identifiers : {{}}, preserved : {{}}, after : {0}, before : {0}]]

-----------------------------------------------------------------------------
(* Summaries: two sections with the same text, and three Documents; and a     *)
(* chunk that is no summary.                                                   *)

Digest(chunk, doc, level, hash, ordinal, from, to) ==
    [Stored(chunk, doc, None, level, ordinal, from, to) EXCEPT !.hash = hash]

Digests == {Digest("s1", "d1", "section_summary", "h", 1, 0, 2),
            Digest("s2", "d1", "section_summary", "h", 2, 2, 4),
            Digest("t1", "d1", "document_summary", None, 1, 4, 8),
            Digest("t2", "d2", "document_summary", None, 1, 0, 3),
            Digest("t3", "d3", "document_summary", None, 1, 0, 4),
            Digest("c1", "d1", "child", None, 1, 0, 2)}

\* Higher scores come first in an order, and what is not in it has none.
ScoreIn(order, c) ==
    IF Contains(order, c) THEN Len(order) + 1 - IndexFirstSubSeq(<<c>>, order) ELSE Absent

MCOverviews ==
    [rows : {{[c EXCEPT !.sim = ScoreIn(near, c), !.lex = ScoreIn(match, c)] : c \in Digests} :
                near \in Orders(Digests, 1)
                            \union SetToSeqs({c \in Digests : c.chunk \notin {"s2", "c1"}}),
                match \in Orders(Digests, 2)},
     whole : BOOLEAN, scores : {<<6, 5, 4, 3, 2, 1>>, <<2, 4, 1, 3, 6, 5>>},
     limits : {[items |-> 1, budget |-> 4, penalty |-> 1],
               [items |-> 2, budget |-> 6, penalty |-> 1]}]

-----------------------------------------------------------------------------
(* Extraction.                                                                *)

Line(at, kind, word, level, hyphen) ==
    [at |-> at, kind |-> kind, word |-> word, level |-> level, hyphen |-> hyphen,
     letter |-> word \notin {"", "("}]

LineKinds == {<<"heading", 1>>, <<"heading", 2>>, <<"heading", 3>>, <<"paragraph", 0>>,
              <<"blank", 0>>, <<"list_item", 0>>, <<"table", 0>>, <<"fence", 0>>}

MCFiles ==
    {[i \in 1 .. Len(kinds) |-> Line(<<i>>, kinds[i][1], "w", kinds[i][2], FALSE)] :
        kinds \in SeqOf(LineKinds, 5)}

\* A page of up to two groups of lines.
Groups == {<<<<"paragraph", "a", FALSE>>>>, <<<<"paragraph", "a", TRUE>>>>,
           <<<<"paragraph", "(", FALSE>>>>, <<<<"heading", "a", FALSE>>>>,
           <<<<"paragraph", "b", FALSE>>, <<"paragraph", "a", FALSE>>>>}

MCPages ==
    [pages : {[n \in 1 .. Len(pages) |-> [g \in 1 .. Len(pages[n]) |->
                 [i \in 1 .. Len(pages[n][g]) |->
                    Line(<<n, g, i>>, pages[n][g][i][1], pages[n][g][i][2],
                         IF pages[n][g][i][1] = "heading" THEN 1 ELSE 0,
                         pages[n][g][i][3])]]] : pages \in SeqOf(SeqOf(Groups, 2), 3)},
     maxPages : {2, 3}, encrypted : {FALSE}]
      \union [pages : {<<>>}, maxPages : {2}, encrypted : {TRUE}]

ItemKinds == {<<"heading", 1, "w">>, <<"heading", 2, "w">>, <<"heading", 1, "">>,
              <<"paragraph", 0, "w">>, <<"table", 0, "w">>, <<"paragraph", 0, "">>}

MCItems ==
    [items : {[i \in 1 .. Len(kinds) |->
                 Line(<<i>>, kinds[i][1], kinds[i][3], kinds[i][2], FALSE)] :
                 kinds \in SeqOf(ItemKinds, 4)},
     pageCount : {1, 2}, maxPages : {1}]

-----------------------------------------------------------------------------
(* Chunking.  A shape is a type and the lengths of the lines.                 *)

Shape(type, lengths) == [type |-> type, lengths |-> lengths]

Shapes == {Shape("heading", <<1>>), Shape("heading", <<4>>),
           Shape("paragraph", <<2>>), Shape("paragraph", <<3, 2>>),
           Shape("paragraph", <<5, 1>>), Shape("code", <<3>>), Shape("code", <<9>>),
           Shape("table", <<1, 1, 2>>), Shape("table", <<1, 4, 1>>), Shape("table", <<1, 2, 8>>),
           Shape("table", <<1, 1, 4, 2>>), Shape("table", <<2, 2, 2, 2>>)}

BlockOf(n, shape) ==
    [type |-> shape.type,
     text |-> FlattenSeq([l \in 1 .. Len(shape.lengths) |->
                             [i \in 1 .. shape.lengths[l] |-> <<n, l, i>>]])]

MCDocuments ==
    [blocks : {[n \in 1 .. Len(shapes) |-> BlockOf(n, shapes[n])] :
                   shapes \in SeqOf(Shapes, 3) \ {<<>>}},
     cfg : {[childMin |-> 2, childTarget |-> 3, childMax |-> 4, overlap |-> 1,
             parentTarget |-> 6, parentMax |-> 8, prefix |-> prefix,
             maxTokens |-> 24, maxChunks |-> 12] : prefix \in {0, 1}}]

\* Storing: a Document's chunks with every outcome of its summaries.
MCBatched ==
    [blocks : {[n \in 1 .. Len(shapes) |-> BlockOf(n, shapes[n])] :
                   shapes \in SeqOf({Shape("heading", <<1>>), Shape("paragraph", <<2>>),
                                     Shape("table", <<1, 1, 4, 2>>)}, 4) \ {<<>>}},
     cfg : {[childMin |-> 2, childTarget |-> 3, childMax |-> 4, overlap |-> 1,
             parentTarget |-> 6, parentMax |-> 8, prefix |-> 0,
             maxTokens |-> 24, maxChunks |-> max] : max \in {7, 20}},
     o : [enabled : BOOLEAN, bad : {NoCall, "section", "document_reduce", "document_final"},
          batch : {2, 3}, childVectors : {1, 3, 4}, summaryVectors : {0, 2, 4, 5}]]

MCUnits(lengths) ==
    [n \in 1 .. Len(lengths) |-> [i \in 1 .. lengths[n] |-> <<n, 1, i>>]]

MCSections ==
    [units : {MCUnits(lengths) : lengths \in SeqOf(1 .. 6, 4)},
     cfg : {[childMin |-> 3, childTarget |-> target, childMax |-> 5, overlap |-> overlap] :
               target \in {3, 4}, overlap \in {0, 2}}]

MCStrings ==
    [text : {t \in SeqOf({"x", " ", ".", "\n"}, 6) :
                t # <<>> => ~IsSpace(Head(t)) /\ ~IsSpace(Last(t))},
     target : {2, 3, 4}, overlap : {0, 1}]

-----------------------------------------------------------------------------
(* Evaluation.                                                                *)

\* The gold passages of a corpus Document and what its chunks match.
MCGold == {[passages |-> {"s1"}, located |-> FALSE, matches |-> <<{}>>],
           [passages |-> {"s1", "s2"}, located |-> TRUE, matches |-> <<{"s1"}, {}, {"s2"}>>],
           [passages |-> {"s1", "s2"}, located |-> TRUE, matches |-> <<{"s1", "s2"}>>],
           [passages |-> {"s1", "s2"}, located |-> TRUE, matches |-> <<{"s1"}, {"s1"}>>]}

MCEvaluations ==
    [create : {"insert", "refresh", "copy", "enqueue", "done"},
     documents : SeqOf({"ready", "failed", "pending", "lost"}, 2) \ {<<>>},
     gold : MCGold,
     cases : SeqOf({"ok", "error", "generation_error"}, 2) \ {<<>>},
     cleanup : {"database", "files", "index", "done"},
     keep : BOOLEAN]

Gold == {"s1", "s2"}

MCCase == {[id |-> "a", relevant |-> r, required |-> q, crossPage |-> x, pages |-> {}, broad |-> FALSE] :
               r \in {{}, {"s1"}, {"s1", "s2"}}, q \in {{}, {"s2"}}, x \in BOOLEAN}

MCObserved == {[ranked |-> ranked, pages |-> {}, summary |-> "used",
                latency |-> 1, tokens |-> 1] : ranked \in Orders(Gold, 2)}

Grades(relevant, required) == [p \in relevant |-> IF p \in required THEN 3 ELSE 1]

\* Two phrases, the second of which a refusal uses too.
MCRefusalPhrases == {"r"}

MCClaimSets == SUBSET [facts : {{}, {"f"}}, evidence : {{"s1"}}]
                 \union {{[facts |-> {"f", "r"}, evidence |-> {}]},
                         {[facts |-> {"f"}, evidence |-> {"s1"}],
                          [facts |-> {"r"}, evidence |-> {"s2"}]}}

MCFactSets == {{}, {{}}, {{"r"}}, {{"f"}, {"r"}}}

\* Cases as a manifest may state them; those that load are judged.
MCRaw ==
    UNION {[supported : BOOLEAN, refusal : BOOLEAN, conflicting : BOOLEAN,
            required : {required}, relevant : {relevant}, claims : MCClaimSets,
            facts : MCFactSets,
            grades : {Grades(relevant, required), Grades(relevant, {}), Grades({}, {})}] :
              required \in SUBSET Gold, relevant \in SUBSET Gold}

MCJudged == {case \in MCRaw : Loads(case) /\ case.facts \in {{}, {{"f"}, {"r"}}}}

\* The Document of s1 varies, that of s2 has all that filters ask for.
CorpusDocument(id, tags, language, created) ==
    [document_ids |-> {id}, tags |-> tags, source_kinds |-> {"code"},
     languages |-> language, created |-> created]

\* A tag in two spellings, one that Python and SQL fold in two ways, and one that
\* every Document of a run has.
MCCasefold == [t |-> "t", T |-> "t", s |-> "ss", e |-> "e"]
MCLower == [t |-> "t", T |-> "t", s |-> "s", e |-> "e"]

MCTags == SUBSET DOMAIN MCCasefold

MCOwners ==
    {[p \in Gold |-> IF p = "s1" THEN CorpusDocument("d1", tags, language, 1)
                     ELSE CorpusDocument("d2", {"t", "s"}, {"python"}, 2)] :
        tags \in MCTags, language \in {{}, {"python"}}}

Lists == [document_ids |-> {{}, {"d1"}, {"d1", "d2"}},
          tags |-> {s \in MCTags : Cardinality(s) <= 2},
          source_kinds |-> {{"code"}, {"pdf"}},
          languages |-> {{}, {"python"}}]

MCFilters ==
    UNION {{f \in [keys -> UNION {Lists[key] : key \in keys}] :
               \A key \in keys : f[key] \in Lists[key]} : keys \in SUBSET Keys}

MCInferred == {Unfiltered, [Unfiltered EXCEPT !.after = 2], [Unfiltered EXCEPT !.before = 1]}

\* One relevant passage, and one that is not.
MCSample ==
    [supported |-> TRUE, refusal |-> FALSE, conflicting |-> FALSE, required |-> {},
     relevant |-> {"s1"}, claims |-> {}, facts |-> {}, grades |-> Grades({"s1"}, {})]

MCManifests ==
    [case : {MCSample}, owner : MCOwners, filters : MCFilters, inferred : MCInferred]
      \union [case : MCRaw,
              owner : {o \in MCOwners : o["s1"].tags \subseteq {"t"} /\ o["s1"].languages = {}},
              filters : {<<>>, [tags |-> {"t"}]}, inferred : {Unfiltered}]

MCCases ==
    {c \in [case : MCJudged,
            found : [sufficient : BOOLEAN, passages : SUBSET (Gold \union {"other"}),
                     unnamed : BOOLEAN],
            answer : [outcome : {"grounded_answer", "conflicting_evidence",
                                 "insufficient_evidence", "failed"},
                      used : SUBSET (Gold \union {"other"}), facts : SUBSET {"f", "r"}]] :
        \* validate_and_render and the citations' source passages
        /\ c.answer.used \subseteq c.found.passages
        /\ c.answer.outcome \in {"insufficient_evidence", "failed"} <=> c.answer.used = {}}

Simple == [id |-> "b", relevant |-> {"s1"}, required |-> {}, crossPage |-> FALSE, pages |-> {},
           broad |-> FALSE]

MCVerdicts ==
    [cases : {<<case, Simple>> : case \in MCCase},
     ran : {<<"a", "b">>, <<"b", "a">>, <<"b">>}, baseline : [1 .. 2 -> MCObserved],
     candidate : [1 .. 2 -> MCObserved], checks : {{"true"}, {"true", "missing"}, {"true", "false"}},
     limits : {[minimum |-> 1, latency |-> 1, budget |-> 1]}, eligible : BOOLEAN]

=============================================================================
