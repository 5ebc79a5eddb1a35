------------------------------ MODULE Evaluation ------------------------------
(* Evaluation runs (evaluation/runner.py), their metrics                      *)
(* (evaluation/metrics.py) and the two verdicts on a candidate profile: the   *)
(* acceptance report (acceptance.py) and the comparison                       *)
(* (evaluation/compare.py).                                                   *)
(*                                                                            *)
(* A score between 0 and 1 is an integer number of 1 / Whole.                 *)
EXTENDS Integers, Sequences, FiniteSets, SequencesExt, FiniteSetsExt

CONSTANTS
    Whole,   \* divisible by every number of passages and every rank that occurs
    CutOff,  \* the 10 of Recall@10 and MRR@10
    Casefold, \* each tag as Python folds its letter case
    Lower,    \* each tag as SQL writes it in lower case
    RunTags,  \* what the runner adds to every Document's tags: "evaluation" and
              \* the version of the data set
    RefusalPhrases \* the phrases that occur in the fixed text of a refusal

ASSUME ScoresAssumption == Whole \in Nat /\ CutOff \in Nat

-----------------------------------------------------------------------------
(* execute_evaluation.  `o' is what happens: the step at which the workspace's *)
(* creation fails, the Documents at the last poll, which gold passages the    *)
(* chunks of each corpus Document match, how each case ends and at what the   *)
(* cleanup fails.  A failed warm-up is only noted.                            *)

Nothing == [kb |-> FALSE, files |-> 0, partial |-> 0]

\* What create_workspace has made when it returns or raises: the Knowledge Base
\* first, which is read again, then the copies of the originals, then the jobs
\* are queued.  A copy that fails is in no list: it is `partial'.
Workspace(o) ==
    LET n == Len(o.documents)
    IN  CASE o.create = "insert" -> Nothing
          [] o.create = "refresh" -> [Nothing EXCEPT !.kb = TRUE]
          [] o.create = "copy" -> [kb |-> TRUE, files |-> n - 1, partial |-> 1]
          [] o.create \in {"enqueue", "done"} -> [kb |-> TRUE, files |-> n, partial |-> 0]

\* cleanup deletes the Knowledge Base, then the originals, then repairs the
\* lexical index; what is left when it fails at `o.cleanup'.
Cleaned(workspace, o) ==
    [workspace EXCEPT !.kb = @ /\ o.cleanup = "database",
                      !.files = IF o.cleanup \in {"database", "files"} THEN @ ELSE 0]

\* _bind_gold_passages for one Document: a sole passage without a locator is the
\* whole Document; else no chunk may match two and each must match a chunk.
Bound(document) ==
    \/ Cardinality(document.passages) = 1 /\ ~document.located
    \/ /\ \A i \in 1 .. Len(document.matches) : Cardinality(document.matches[i]) <= 1
       /\ UNION ToSet(document.matches) = document.passages

\* Mutant of IngestionFails: only a lost Document counts.
IngestionFailsOnTimeout(o) == "lost" \in ToSet(o.documents) \/ ~Bound(o.gold)

\* wait_for_documents raises.
IngestionFails(o) ==
    \/ "lost" \in ToSet(o.documents)
    \/ "failed" \in ToSet(o.documents)
    \/ "pending" \in ToSet(o.documents)   \* the timeout
    \/ ~Bound(o.gold)

\* The records of the cases before the first one that raises.
CasesRun(o) ==
    LET raised == {i \in 1 .. Len(o.cases) : o.cases[i] = "error"}
    IN  SubSeq(o.cases, 1, IF raised = {} THEN Len(o.cases) ELSE Min(raised) - 1)

\* The record that is written, and what is left behind.  create_workspace
\* cleans up after itself and then raises, but for the Knowledge Base that it
\* could not read again; whatever then remains, the runner has no workspace to
\* name or to clean up.
Execute(o) ==
    LET created  == o.create = "done"
        cases    == IF created /\ ~IngestionFails(o) THEN CasesRun(o) ELSE <<>>
        caught   == \/ ~created \/ IngestionFails(o)
                    \/ Len(cases) < Len(o.cases)
                    \/ "generation_error" \in ToSet(cases)
        cleaning == created /\ ~o.keep
    IN  [status  |-> IF caught \/ (cleaning /\ o.cleanup # "done")
                       THEN "failed" ELSE "completed",
         cases   |-> cases,
         cleaned |-> cleaning /\ o.cleanup = "done",
         named   |-> created,
         left    |-> IF o.create = "refresh" \/ (created /\ o.keep)
                       THEN Workspace(o) ELSE Cleaned(Workspace(o), o)]

-----------------------------------------------------------------------------
(* Cases and their filters.  `filters' maps each key that the manifest gives   *)
(* to the words it lists, possibly none; a Document maps every key to the words *)
(* that apply to it.                                                           *)

Keys == {"document_ids", "tags", "source_kinds", "languages"}

Folded(tags) == {Casefold[tag] : tag \in tags}
Lowered(tags) == {Lower[tag] : tag \in tags}

\* The tags of a Document in the database.
StoredTags(document) == document["tags"] \union RunTags

\* _load_case and load_executable_dataset, for schema version 3.  `facts' and the
\* `facts' of a claim hold what is accepted: the former lists of phrases, of which
\* the answer has to state one each, the latter one such list.  Any may be empty.
Loads(case) ==
    /\ case.supported => case.relevant # {}
    /\ case.required \subseteq case.relevant
    /\ DOMAIN case.grades = case.relevant
    /\ \A p \in case.relevant : case.grades[p] = IF p \in case.required THEN 3 ELSE 1
    /\ case.refusal = ~case.supported
    /\ case.conflicting = (case.required # {} /\ ~case.supported)
    /\ UNION {claim.evidence : claim \in case.claims} \subseteq case.required

\* _document_satisfies_filters, and _validate_case_filters on the relevant ones.
Satisfies(document, filters) ==
    \A key \in DOMAIN filters :
        IF key = "tags" THEN filters[key] \subseteq document[key]
        ELSE document[key] \intersect filters[key] # {}

QrelsSatisfy(case, owner, filters) ==
    \A p \in case.relevant : Satisfies(owner[p], filters)

\* _retrieval_filters_for_case: a key that is not given is an empty list.
RetrievalFilters(filters) ==
    [lists |-> [key \in Keys |-> IF key \in DOMAIN filters THEN filters[key] ELSE {}],
     after |-> 0, before |-> 0]

Unfiltered == RetrievalFilters(<<>>)

\* run_case: those that the query plan inferred only where the case has none.
FiltersOf(filters, inferred) ==
    IF RetrievalFilters(filters) = Unfiltered THEN inferred ELSE RetrievalFilters(filters)

\* filters_sql: an empty list or a missing date is no filter, every tag must be
\* there in some spelling, and NULL is in no list.
LetsThrough(filters, document) ==
    /\ Folded(filters.lists["tags"]) \subseteq Lowered(StoredTags(document))
    /\ \A key \in Keys \ {"tags"} : filters.lists[key] # {} =>
           document[key] \intersect filters.lists[key] # {}
    /\ filters.after # 0 => document.created >= filters.after
    /\ filters.before # 0 => document.created <= filters.before

\* A case of the manifest: whether it loads, the passages whose Document
\* retrieval may return, and whether _filter_correct accepts each of them.
Load(case, owner, filters, inferred) ==
    [loaded  |-> Loads(case) /\ QrelsSatisfy(case, owner, filters),
     through |-> {p \in DOMAIN owner : LetsThrough(FiltersOf(filters, inferred), owner[p])},
     correct |-> {p \in DOMAIN owner : Satisfies(owner[p], filters)}]

-----------------------------------------------------------------------------
(* run_case.  `found' is what retrieval gave: its verdict, the passages of    *)
(* the evidence, and whether a piece of evidence has no passage; `answer' is  *)
(* what the model made of it: the outcome, the passages it used, the phrases  *)
(* it states.                                                                 *)

Refusal == [outcome |-> "insufficient_evidence", used |-> {}, facts |-> RefusalPhrases]

\* Without sufficient evidence the model is not asked.
Answer(found, answer) == IF found.sufficient THEN answer ELSE Refusal

RetrievalPassed(case, found) ==
    IF case.supported THEN found.sufficient /\ case.required \subseteq found.passages
    ELSE IF case.required # {} THEN case.required \subseteq found.passages
    ELSE ~found.sufficient

\* _refusal_is_correct
RefusalCorrect(case, answer) ==
    IF ~case.refusal THEN answer.outcome = "grounded_answer"
    ELSE IF case.conflicting
      THEN answer.outcome = "conflicting_evidence" /\ case.required \subseteq answer.used
    ELSE answer.outcome = "insufficient_evidence" /\ answer.used = {}

\* The lists of phrases that a case asks for: of each, the answer states one.
Asked(case) == case.facts \union {claim.facts : claim \in case.claims}

\* evaluate_answer_faithfulness: every score that run_case asks for is 1.  A case
\* without facts or without claims is scored by its refusal, a list without
\* phrases is never met.
Faithful(case, answer) ==
    /\ answer.used \subseteq case.relevant
    /\ answer.used = {} => case.relevant = {}
    /\ case.required \subseteq answer.used
    /\ RefusalCorrect(case, answer)
    /\ \A phrases \in Asked(case) : phrases \intersect answer.facts # {}
    /\ \A claim \in case.claims : claim.evidence \subseteq answer.used

\* How the case ends: it raises for evidence without a passage, and records a
\* provider's failure in place of an answer.
RunCase(case, found, answer) ==
    [ends     |-> IF found.unnamed THEN "error"
                  ELSE IF found.sufficient /\ answer.outcome = "failed"
                    THEN "generation_error" ELSE "ok",
     passed   |-> RetrievalPassed(case, found),
     faithful |-> Faithful(case, Answer(found, answer))]

-----------------------------------------------------------------------------
(* Metrics of one case, from the passages of its evidence in order.           *)

Prefix(ranked, n) == ToSet(SubSeq(ranked, 1, Min({n, Len(ranked)})))

Recall(expected, actual) ==
    IF expected = {} THEN Whole
    ELSE (Whole * Cardinality(expected \intersect actual)) \div Cardinality(expected)

ReciprocalRank(relevant, ranked) ==
    LET hits == {i \in 1 .. Min({CutOff, Len(ranked)}) : ranked[i] \in relevant}
    IN  IF relevant = {} THEN IF ranked = <<>> THEN Whole ELSE 0
        ELSE IF hits = {} THEN 0
        ELSE Whole \div Min(hits)

\* The four components of the quality gate.
Components == {"recall_at_cutoff", "recall", "reciprocal_rank", "required"}

Component(name, case, ranked) ==
    CASE name = "recall_at_cutoff" -> Recall(case.relevant, Prefix(ranked, CutOff))
      [] name = "recall" -> Recall(case.relevant, ToSet(ranked))
      [] name = "reciprocal_rank" -> ReciprocalRank(case.relevant, ranked)
      [] name = "required" -> IF case.required \subseteq ToSet(ranked) THEN Whole ELSE 0

\* fmean over the cases, times their number.
Metric(name, cases, observed) ==
    SumFunction([i \in 1 .. Len(cases) |-> Component(name, cases[i], observed[i].ranked)])

-----------------------------------------------------------------------------
(* Gates.                                                                     *)

Gate(passed) == IF passed THEN "pass" ELSE "fail"

\* Mutant of QualityGate: a regression in one metric is averaged out.
QualityGateOnAverage(cases, baseline, candidate, minimum) ==
    LET Gain(name) == Metric(name, cases, candidate) - Metric(name, cases, baseline)
    IN  Gate(MapThenSumSet(Gain, Components) >= 4 * Len(cases) * minimum)

\* _quality_gate: on average better by the minimum, and nowhere worse.
QualityGate(cases, baseline, candidate, minimum) ==
    LET Gain(name) == Metric(name, cases, candidate) - Metric(name, cases, baseline)
    IN  Gate(/\ MapThenSumSet(Gain, Components) >= 4 * Len(cases) * minimum
             /\ \A name \in Components : Gain(name) >= 0)

\* A gate over the cases of one kind, measured when there are any: `holds`
\* says of which cases the candidate's observation is the one asked for.
CaseGate(kind, holds) ==
    IF kind = {} THEN "not_measured" ELSE Gate(kind \subseteq holds)

CrossPageGate(cases, candidate) ==
    CaseGate({i \in 1 .. Len(cases) : cases[i].crossPage},
             {i \in 1 .. Len(cases) : cases[i].required \subseteq ToSet(candidate[i].ranked)})

CitationRangesGate(cases, candidate) ==
    CaseGate({i \in 1 .. Len(cases) : cases[i].pages # {}},
             {i \in 1 .. Len(cases) : cases[i].pages = candidate[i].pages})

SummaryRoutingGate(cases, candidate) ==
    LET broad == {i \in 1 .. Len(cases) : cases[i].broad}
    IN  IF \E i \in broad : candidate[i].summary = "missing" THEN "not_measured"
        ELSE CaseGate(broad, {i \in broad : candidate[i].summary = "used"})

\* _percentile of acceptance.py, and the mean of the evidence tokens.
LatencyGate(candidate, target) ==
    LET n       == Len(candidate)
        ordered == SortSeq([i \in 1 .. n |-> candidate[i].latency], <)
    IN  Gate(ordered[Max({1, (95 * n + 99) \div 100})] <= target)

EvidenceBudgetGate(candidate, budget) ==
    Gate(SumFunction([i \in 1 .. Len(candidate) |-> candidate[i].tokens])
           <= budget * Len(candidate))

\* The gates on the operational evidence and on the benchmark's worker memory:
\* every check there, and every check true.
OperationalGate(checks) ==
    IF "missing" \in checks THEN "not_measured" ELSE Gate("false" \notin checks)

MeasuredGates(cases, baseline, candidate, limits) ==
    <<CrossPageGate(cases, candidate), CitationRangesGate(cases, candidate),
      QualityGate(cases, baseline, candidate, limits.minimum),
      SummaryRoutingGate(cases, candidate), LatencyGate(candidate, limits.latency),
      EvidenceBudgetGate(candidate, limits.budget)>>

Ids(cases) == [i \in 1 .. Len(cases) |-> cases[i].id]

\* evaluate_acceptance: ready when every gate passes.  Observations are looked up
\* by their case, and evaluate_retrieval refuses a run of other cases.
Ready(cases, ran, baseline, candidate, checks, limits) ==
    /\ ToSet(ran) = ToSet(Ids(cases))
    /\ ToSet(Append(MeasuredGates(cases, baseline, candidate, limits),
                    OperationalGate(checks))) = {"pass"}

\* _acceptance_verdicts, on the cases that the baseline ran of the headline split:
\* no operational evidence and no benchmark, so that only a failing gate blocks,
\* provided that the data set may be cited and that the candidate ran the same
\* cases, in that order.
ComparedReady(cases, ran, baseline, candidate, limits, eligible) ==
    /\ eligible /\ cases # <<>> /\ ran = Ids(cases)
    /\ "fail" \notin ToSet(MeasuredGates(cases, baseline, candidate, limits))

=============================================================================
