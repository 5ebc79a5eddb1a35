-------------------------------- MODULE Answers --------------------------------
(* What a turn sends to and accepts from the model: the query plan            *)
(* (rag/query_plan.py) and the validation and rendering of a grounded answer  *)
(* (rag/grounding.py).                                                        *)
(*                                                                            *)
(* A question, a rewritten query or a message is the set of the concrete      *)
(* identifiers it names.  A claim's text matters only for whether the model   *)
(* wrote a citation marker into it.                                           *)
EXTENDS Integers, Sequences, FiniteSets, SequencesExt, FiniteSetsExt

CONSTANT Within  \* pairs <<id, longer>> of identifiers, id a part of longer

Rejected == [accepted |-> FALSE]

-----------------------------------------------------------------------------
(* Query plans.                                                               *)

\* should_rewrite: a short follow-up in a conversation that has a history.
ShouldRewrite(question, history) ==
    history # <<>> /\ question.short /\ question.followUp

\* Mutant of RequiredIdentifiers: without those of the history.
RequiredOfQuestion(question, history) == question.identifiers

\* The identifiers of the question and of the whole history.
RequiredIdentifiers(question, history) ==
    question.identifiers \union UNION {history[i] : i \in 1 .. Len(history)}

\* `item in rewritten_query' looks for a part of the text, not for a word.
Names(identifiers, id) ==
    id \in identifiers \/ \E longer \in identifiers : <<id, longer>> \in Within

\* parse_query_rewrite: `reply' is what the model returned, with the bounds of
\* the ingestion dates it inferred, 0 where there is none or it is unreadable.
ParseRewrite(reply, question, required) ==
    IF \/ ~reply.valid \/ reply.blank
       \/ \E id \in reply.preserved \union required \union question.identifiers :
              ~Names(reply.identifiers, id)
       \/ reply.after # 0 /\ reply.before # 0 /\ reply.after > reply.before
      THEN Rejected
      ELSE [accepted |-> TRUE, identifiers |-> reply.identifiers,
            filters |-> [after |-> reply.after, before |-> reply.before]]

NoFilters == [after |-> 0, before |-> 0]

\* build_query_plan: the effective query and filters; "failed" stands for the
\* provider's error or timeout.
QueryPlan(question, history, reply) ==
    LET original(status) == [status |-> status, identifiers |-> question.identifiers,
                             filters |-> NoFilters]
        parsed == ParseRewrite(reply, question, RequiredIdentifiers(question, history))
    IN  IF ~ShouldRewrite(question, history) THEN original("unchanged")
        ELSE IF reply.failed \/ ~parsed.accepted THEN original("rewrite_failed")
        ELSE [status |-> "rewritten", identifiers |-> parsed.identifiers,
              filters |-> parsed.filters]

\* The filters of a retrieval: the caller's, and the plan's only without them.
EffectiveFilters(requested, plan) ==
    IF requested = NoFilters THEN plan.filters ELSE requested

-----------------------------------------------------------------------------
(* Grounded answers.                                                          *)

\* GroundedOutput.validate_status_shape, with at least one id for each claim.
WellFormed(output) ==
    /\ output.status = "insufficient" <=> output.claims = <<>>
    /\ \A i \in 1 .. Len(output.claims) : output.claims[i].ids # <<>>

\* Mutant of UsedIds: an id once for each claim that uses it.
UsedIdsWithRepeats(claims) == FlattenSeq([i \in 1 .. Len(claims) |-> claims[i].ids])

\* The ids of the claims, each once, in the order of first use.
UsedIds(claims) ==
    LET Note(used, id) == IF Contains(used, id) THEN used ELSE Append(used, id)
    IN  FoldLeft(Note, <<>>,
                 FlattenSeq([i \in 1 .. Len(claims) |-> claims[i].ids]))

NumberOf(used, id) == CHOOSE n \in 1 .. Len(used) : used[n] = id

\* validate_and_render: outcome, the numbers shown behind each claim and the
\* evidence the citation rows are written for.
Render(output, evidence) ==
    LET used   == UsedIds(output.claims)
        claims == output.claims
    IN  IF ~WellFormed(output) THEN Rejected
        ELSE IF output.status = "insufficient"
          THEN [accepted |-> TRUE, outcome |-> "insufficient_evidence",
                markers |-> <<>>, used |-> <<>>]
        ELSE IF \/ \E i \in 1 .. Len(claims) : claims[i].marked
                \/ ~ ToSet(used) \subseteq evidence
                \/ output.status = "conflicting" /\ Len(used) < 2
          THEN Rejected
        ELSE [accepted |-> TRUE,
              outcome  |-> IF output.status = "conflicting"
                             THEN "conflicting_evidence" ELSE "grounded_answer",
              markers  |-> [i \in 1 .. Len(claims) |->
                               [k \in 1 .. Len(claims[i].ids) |->
                                   NumberOf(used, claims[i].ids[k])]],
              used     |-> used]

=============================================================================
