------------------------------- MODULE Turns -------------------------------
(***************************************************************************)
(* The turns of one Conversation: a question is stored with an empty       *)
(* streaming answer, a stream retrieves evidence, generates, validates and *)
(* persists the answer, and only then releases it to the client.           *)
(*                                                                         *)
(* create_turn holds the row of the Conversation, but reads the streaming  *)
(* message without a lock; the streams lock nothing but their own message. *)
(* A stream that takes longer than stale_turn_seconds is taken for dead by *)
(* the next question, and may be alive all the same.                       *)
(***************************************************************************)
EXTENDS Naturals, Sequences, FiniteSets

CONSTANTS
  Clients,    \* browsers that may ask in this Conversation at the same time
  Documents,  \* Documents of its Knowledge Base
  MaxTurns,   \* bound: questions the Conversation ever takes
  None

ASSUME TurnsAssumption == MaxTurns \in Nat \ {0} /\ None \notin 1..MaxTurns

VARIABLES
  exists,    \* the Conversation has a row
  turns,     \* its assistant messages, in the order of their sequence
  asking,    \* where each client's create_turn is
  stream,    \* where the event stream of each turn is
  document,  \* the Documents: "ready", "deleting" or "purged"
  shown,     \* what the client of each turn has been sent
  overrun    \* history: turns recovered while their stream was alive

vars == <<exists, turns, asking, stream, document, shown, overrun>>

-----------------------------------------------------------------------------
(* Vocabulary. *)

MessageStatuses == {"streaming", "complete", "failed"}
Contents == {"", "answer", "insufficient", "unverifiable", "failed", "interrupted"}

Messages == [status : MessageStatuses, content : Contents,
             cites : SUBSET Documents, old : BOOLEAN]

Streaming == [status |-> "streaming", content |-> "", cites |-> {}, old |-> FALSE]

StreamSteps == {"none", "load", "retrieve", "generate", "repair", "persist",
                "measure", "send", "fail", "ended"}
Alive == StreamSteps \ {"none", "ended"}

Streams == [step : StreamSteps, evidence : SUBSET Documents,
            content : Contents, cites : SUBSET Documents]
NoStream == [step |-> "none", evidence |-> {}, content |-> "", cites |-> {}]

Askings == [step : {"idle", "locked"}, stale : 1..MaxTurns \cup {None}]
NotAsking == [step |-> "idle", stale |-> None]

Turns == 1..Len(turns)
Open == {t \in Turns : turns[t].status = "streaming"}

Init ==
  /\ exists = TRUE
  /\ turns = <<>>
  /\ asking = [c \in Clients |-> NotAsking]
  /\ stream = [t \in 1..MaxTurns |-> NoStream]
  /\ document = [d \in Documents |-> "ready"]
  /\ shown = [t \in 1..MaxTurns |-> "nothing"]
  /\ overrun = {}

-----------------------------------------------------------------------------
(* create_turn. *)

(* The row of the Conversation is locked until the transaction ends. *)
FreeAnyway == exists  \* Mutant of Free: require_owned_conversation(lock=False)
Free == exists /\ \A c \in Clients : asking[c].step # "locked"

(* The streaming message is read: one that is young refuses the question. *)
BusyAlways(t) == TRUE  \* Mutant of Busy: no streaming message is ever stale
Busy(t) == ~turns[t].old

Ask(c) ==
  /\ asking[c].step = "idle" /\ Free
  /\ Len(turns) < MaxTurns
  /\ \A t \in Open : ~Busy(t)
  /\ asking' = [asking EXCEPT ![c] =
       [step |-> "locked", stale |-> IF Open = {} THEN None
                                     ELSE CHOOSE t \in Open : TRUE]]
  /\ UNCHANGED <<exists, turns, stream, document, shown, overrun>>

(* A stale one is failed, whatever it has become since it was read, and    *)
(* the new question is stored with its streaming answer.                   *)
CommitTurn(c) ==
  LET stale == asking[c].stale
      recovered == IF stale = None THEN turns
                   ELSE [turns EXCEPT ![stale].status = "failed",
                                      ![stale].content = "interrupted"] IN
  /\ asking[c].step = "locked" /\ exists
  /\ turns' = Append(recovered, Streaming)
  /\ overrun' = IF stale # None /\ (stream[stale].step \in Alive
                                      \/ turns[stale].status # "streaming")
                  THEN overrun \union {stale} ELSE overrun
  /\ stream' = [stream EXCEPT ![Len(turns) + 1] = [NoStream EXCEPT !.step = "load"]]
  /\ asking' = [asking EXCEPT ![c] = NotAsking]
  /\ UNCHANGED <<exists, document, shown>>

(* The API dies, or loses the database, before the transaction commits. *)
AskFails(c) ==
  /\ asking[c].step = "locked"
  /\ asking' = [asking EXCEPT ![c] = NotAsking]
  /\ UNCHANGED <<exists, turns, stream, document, shown, overrun>>

(* delete_conversation: the messages and their citations go with it. *)
DeleteConversation ==
  /\ Free
  /\ exists' = FALSE
  /\ turns' = <<>>
  /\ UNCHANGED <<asking, stream, document, shown, overrun>>

-----------------------------------------------------------------------------
(* turn_events. *)

GoTo(t, step) == stream' = [stream EXCEPT ![t].step = step]
End(t) == stream' = [stream EXCEPT ![t] = [NoStream EXCEPT !.step = "ended"]]

(* _load_turn raises when the Conversation is gone. *)
LoadTurn(t) ==
  /\ stream[t].step = "load"
  /\ GoTo(t, IF exists THEN "retrieve" ELSE "fail")
  /\ UNCHANGED <<exists, turns, asking, document, shown, overrun>>

(* Evidence comes from Ready Documents; without enough of it the model is  *)
(* not asked.                                                              *)
Retrieve(t) ==
  /\ stream[t].step = "retrieve"
  /\ \E found \in SUBSET {d \in Documents : document[d] = "ready"} :
       stream' = [stream EXCEPT ![t] =
         IF found = {} THEN [@ EXCEPT !.step = "persist", !.content = "insufficient"]
                       ELSE [@ EXCEPT !.step = "generate", !.evidence = found]]
  /\ UNCHANGED <<exists, turns, asking, document, shown, overrun>>

(* The whole answer is buffered and validated: it cites evidence that was  *)
(* retrieved, or says that this is insufficient, or is rejected.           *)
Validated(t) ==
  \/ \E cited \in SUBSET stream[t].evidence \ {{}} :
       stream' = [stream EXCEPT ![t] =
         [@ EXCEPT !.step = "persist", !.content = "answer", !.cites = cited]]
  \/ stream' = [stream EXCEPT ![t] =
         [@ EXCEPT !.step = "persist", !.content = "insufficient"]]

Generate(t) ==
  /\ stream[t].step = "generate"
  /\ Validated(t) \/ GoTo(t, "repair")
  /\ UNCHANGED <<exists, turns, asking, document, shown, overrun>>

(* A second rejection, or a provider that fails now, is an answer too. *)
Repair(t) ==
  /\ stream[t].step = "repair"
  /\ \/ Validated(t)
     \/ stream' = [stream EXCEPT ![t] =
          [@ EXCEPT !.step = "persist", !.content = "unverifiable"]]
  /\ UNCHANGED <<exists, turns, asking, document, shown, overrun>>

(* _persist_complete locks the message and writes it, without asking what  *)
(* it has become; a citation of a Document whose row is gone is refused by *)
(* the database, and the answer with it.                                   *)
PersistAnyway(t) ==  \* Mutant of Persistable: the foreign key is not there
  exists
Persistable(t) ==
  exists /\ \A d \in stream[t].cites : document[d] # "purged"

Persist(t) ==
  /\ stream[t].step = "persist"
  /\ IF Persistable(t)
       THEN /\ turns' = [turns EXCEPT ![t] =
                 [@ EXCEPT !.status = "complete", !.content = stream[t].content,
                           !.cites = stream[t].cites]]
            /\ GoTo(t, "measure")
       ELSE /\ GoTo(t, "fail")
            /\ UNCHANGED turns
  /\ UNCHANGED <<exists, asking, document, shown, overrun>>

(* _persist_turn_measurement never fails the turn. *)
Measure(t) ==
  /\ stream[t].step = "measure"
  /\ GoTo(t, "send")
  /\ UNCHANGED <<exists, turns, asking, document, shown, overrun>>

SendUnverified(t) ==  \* Mutant of Send: what the model said is released
  /\ stream[t].step = "send"
  /\ shown' = [shown EXCEPT ![t] = "answer"]
  /\ End(t)
  /\ UNCHANGED <<exists, turns, asking, document, overrun>>

Send(t) ==
  /\ stream[t].step = "send"
  /\ shown' = [shown EXCEPT ![t] = stream[t].content]
  /\ End(t)
  /\ UNCHANGED <<exists, turns, asking, document, overrun>>

(* A provider fails, or the client goes away while the stream waits for    *)
(* something: the exception ends in _mark_failed.                          *)
StreamFails(t) ==
  /\ stream[t].step \in Alive \ {"fail"}
  /\ GoTo(t, "fail")
  /\ UNCHANGED <<exists, turns, asking, document, shown, overrun>>

(* _mark_failed: only a message that is still streaming is failed. *)
MarkFailedAnyway(t) ==  \* Mutant of MarkFailed: the status is not looked at
  /\ stream[t].step = "fail"
  /\ turns' = IF exists THEN [turns EXCEPT ![t].status = "failed", ![t].content = "failed"]
                        ELSE turns
  /\ shown' = [shown EXCEPT ![t] = "failed"]
  /\ End(t)
  /\ UNCHANGED <<exists, asking, document, overrun>>

MarkFailed(t) ==
  /\ stream[t].step = "fail"
  /\ turns' = IF t \in Open
                THEN [turns EXCEPT ![t].status = "failed", ![t].content = "failed"]
                ELSE turns
  /\ shown' = [shown EXCEPT ![t] = "failed"]
  /\ End(t)
  /\ UNCHANGED <<exists, asking, document, overrun>>

(* The client goes away while an event is being sent, or the API dies: no  *)
(* handler runs, and the message stays as it is.                           *)
Abandon(t) ==
  /\ stream[t].step \in Alive
  /\ End(t)
  /\ UNCHANGED <<exists, turns, asking, document, shown, overrun>>

-----------------------------------------------------------------------------
(* stale_turn_seconds have passed. *)
Age(t) ==
  /\ t \in Open /\ ~turns[t].old
  /\ turns' = [turns EXCEPT ![t].old = TRUE]
  /\ UNCHANGED <<exists, asking, stream, document, shown, overrun>>

(* A Document is deleted; citations of it keep their excerpt only. *)
DeleteDocument(d) ==
  /\ document[d] = "ready"
  /\ document' = [document EXCEPT ![d] = "deleting"]
  /\ UNCHANGED <<exists, turns, asking, stream, shown, overrun>>

PurgeDocument(d) ==
  /\ document[d] = "deleting"
  /\ document' = [document EXCEPT ![d] = "purged"]
  /\ turns' = [t \in Turns |-> [turns[t] EXCEPT !.cites = @ \ {d}]]
  /\ UNCHANGED <<exists, asking, stream, shown, overrun>>

StreamStep(t) ==
  \/ LoadTurn(t) \/ Retrieve(t) \/ Generate(t) \/ Repair(t)
  \/ Persist(t) \/ Measure(t) \/ Send(t) \/ MarkFailed(t)

Next ==
  \/ \E c \in Clients : Ask(c) \/ CommitTurn(c) \/ AskFails(c)
  \/ DeleteConversation
  \/ \E t \in 1..MaxTurns : StreamStep(t) \/ StreamFails(t) \/ Abandon(t)
  \/ \E t \in Turns : Age(t)
  \/ \E d \in Documents : DeleteDocument(d) \/ PurgeDocument(d)

Spec == Init /\ [][Next]_vars

(* The server runs its streams and requests, the clock moves on, and       *)
(* somebody keeps asking.                                                  *)
FairSpec ==
  /\ Spec
  /\ \A t \in 1..MaxTurns : WF_vars(StreamStep(t))
  /\ WF_vars(\E t \in Turns : Age(t))
  /\ SF_vars(\E c \in Clients : Ask(c)) /\ SF_vars(\E c \in Clients : CommitTurn(c))

-----------------------------------------------------------------------------
(* Properties. *)

(* Every variable keeps its shape, and the Conversation its bound. *)
TypeOK ==
  /\ exists \in BOOLEAN
  /\ turns \in Seq(Messages) /\ Len(turns) <= MaxTurns
  /\ asking \in [Clients -> Askings]
  /\ stream \in [1..MaxTurns -> Streams]
  /\ document \in [Documents -> {"ready", "deleting", "purged"}]
  /\ shown \in [1..MaxTurns -> Contents \cup {"nothing"}]
  /\ overrun \subseteq 1..MaxTurns

(* A Conversation has one streaming answer at most, although what a second *)
(* question finds streaming may end, or turn stale, while it is asked: the *)
(* unique index behind create_turn never has to refuse a message.          *)
OneStreamingAnswer == Cardinality(Open) <= 1

(* Only answers that were validated carry citations, and every citation is *)
(* of a Document that still has a row; recovery of a live stream excepted. *)
CitationsAreGrounded ==
  \A t \in Turns : turns[t].cites # {} =>
    /\ t \notin overrun => turns[t].content = "answer" /\ turns[t].status = "complete"
    /\ stream[t].step \in {"measure", "send"} => turns[t].cites \subseteq stream[t].evidence
    /\ \A d \in turns[t].cites : document[d] # "purged"

(* What a client was shown is what the Conversation keeps: an answer that  *)
(* was released stays complete, through late failures, disconnects and     *)
(* recoveries of other turns.                                              *)
ShownIsKept ==
  \A t \in Turns \ overrun :
    shown[t] \notin {"nothing", "failed"} =>
      turns[t].status = "complete" /\ turns[t].content = shown[t]

(* The outcome of a turn is written once: a message leaves "complete" or   *)
(* "failed" only when its live stream was declared stale.                  *)
OutcomeIsFinal ==
  [][\A t \in Turns : exists' /\ t \notin overrun' /\ turns[t].status # "streaming" =>
       turns'[t].status = turns[t].status /\ turns'[t].content = turns[t].content]_vars

(* A stream that died blocks its Conversation no longer than it takes to   *)
(* become stale: the next question gets through.                           *)
NotBlockedForever ==
  \A t \in 1..MaxTurns - 1 : t \in Open ~> t \notin Open
=============================================================================
