---------------------------- MODULE TurnsProofs ----------------------------
(***************************************************************************)
(* What holds of Turns for any number of clients, Documents and turns.     *)
(***************************************************************************)
EXTENDS Turns, FiniteSetTheorems, SequenceTheorems, TLAPS

(* One question at a time holds the row of the Conversation. What it read  *)
(* stays an upper bound of what is streaming, for only a question adds an  *)
(* answer; and a turn that is not stored yet has left no trace.            *)
Structure ==
  /\ TypeOK
  /\ \A c, d \in Clients :
       asking[c].step = "locked" /\ asking[d].step = "locked" => c = d
  /\ \A c \in Clients : asking[c].step = "locked" =>
       /\ exists /\ Len(turns) < MaxTurns
       /\ Open \subseteq {asking[c].stale}
       /\ asking[c].stale = None \/ asking[c].stale \in Turns
  /\ \A t, u \in Open : t = u
  /\ ~exists => turns = <<>>
  /\ exists => \A t \in 1..MaxTurns : t > Len(turns) =>
       stream[t].step = "none" /\ shown[t] = "nothing" /\ t \notin overrun

(* Before an answer is validated nothing is cited; what is cited then was  *)
(* retrieved and belongs to an answer.                                     *)
Early == {"none", "load", "retrieve", "generate", "repair", "ended"}

CitationInv ==
  /\ \A t \in 1..MaxTurns : stream[t].cites # {} =>
       /\ stream[t].step \notin Early
       /\ stream[t].content = "answer" /\ stream[t].cites \subseteq stream[t].evidence
  /\ \A t \in Turns :
       /\ turns[t].cites # {} /\ t \notin overrun =>
            turns[t].content = "answer" /\ turns[t].status = "complete"
       /\ stream[t].step \in {"measure", "send"} =>
            turns[t].cites \subseteq stream[t].evidence
       /\ \A d \in turns[t].cites : document[d] # "purged"

(* While a turn nobody recovered is worked on, its message is streaming;   *)
(* once persisted, the message is what the stream is about to release.     *)
Working == {"load", "retrieve", "generate", "repair", "persist"}

OutcomeInv ==
  /\ \A t \in 1..MaxTurns : stream[t].step \in Alive => shown[t] = "nothing"
  /\ \A t \in Turns \ overrun :
       /\ stream[t].step \in Working => turns[t].status = "streaming"
       /\ stream[t].step \in {"measure", "send"} =>
            turns[t].status = "complete" /\ turns[t].content = stream[t].content
       /\ shown[t] \notin {"nothing", "failed"} =>
            turns[t].status = "complete" /\ turns[t].content = shown[t]

-----------------------------------------------------------------------------
(* The steps of one stream. *)

Shows == Contents \cup {"nothing"}

LEMMA Types ==
  ASSUME TypeOK
  PROVE  /\ exists \in BOOLEAN /\ turns \in Seq(Messages) /\ Len(turns) \in Nat
         /\ Len(turns) <= MaxTurns /\ Turns = 1..Len(turns) /\ Turns \subseteq 1..MaxTurns
         /\ Open \subseteq Turns /\ \A t \in Turns : turns[t] \in Messages
         /\ asking \in [Clients -> Askings]
         /\ stream \in [1..MaxTurns -> Streams]
         /\ document \in [Documents -> {"ready", "deleting", "purged"}]
         /\ shown \in [1..MaxTurns -> Shows]
         /\ overrun \subseteq 1..MaxTurns
         /\ MaxTurns \in Nat /\ None \notin 1..MaxTurns
<1>1. /\ exists \in BOOLEAN /\ turns \in Seq(Messages) /\ Len(turns) <= MaxTurns
      /\ asking \in [Clients -> Askings]
      /\ stream \in [1..MaxTurns -> Streams]
      /\ document \in [Documents -> {"ready", "deleting", "purged"}]
      /\ shown \in [1..MaxTurns -> Shows]
      /\ overrun \subseteq 1..MaxTurns
  BY DEF TypeOK, Shows
<1>2. Len(turns) \in Nat
  BY <1>1, LenProperties
<1>3. MaxTurns \in Nat /\ None \notin 1..MaxTurns
  BY TurnsAssumption
<1>4. Turns = 1..Len(turns) /\ Turns \subseteq 1..MaxTurns
  BY <1>1, <1>2, <1>3 DEF Turns
<1>5. \A t \in Turns : turns[t] \in Messages
  BY <1>1, <1>4, ElementOfSeq
<1>6. Open \subseteq Turns
  BY DEF Open
<1>7. QED
  BY <1>1, <1>2, <1>3, <1>4, <1>5, <1>6

(* Everything but turn t is left alone. *)
OnlyTurn(t) ==
  /\ turns' \in Seq(Messages) /\ Len(turns') = Len(turns)
  /\ stream' \in [1..MaxTurns -> Streams] /\ shown' \in [1..MaxTurns -> Shows]
  /\ \A u \in 1..MaxTurns : u # t => stream'[u] = stream[u] /\ shown'[u] = shown[u]
  /\ \A u \in Turns : u # t => turns'[u] = turns[u]
  /\ UNCHANGED <<exists, asking, document, overrun>>

Keeps(t) ==
  /\ stream'[t].content = stream[t].content /\ stream'[t].cites = stream[t].cites
  /\ stream'[t].evidence = stream[t].evidence

(* What a step makes of a turn: it works on it, persists it, gives it up,  *)
(* measures it, releases it, marks it failed, or abandons it.              *)
Works(t) ==
  /\ turns' = turns /\ shown' = shown
  /\ stream[t].step \in Early \ {"none", "ended"}
  /\ stream'[t].step \in Working
  /\ \/ stream'[t].cites = stream[t].cites
     \/ /\ stream'[t].content = "answer" /\ stream'[t].cites \subseteq stream'[t].evidence
        /\ stream'[t].step = "persist"
Persists(t) ==
  /\ stream[t].step = "persist" /\ exists /\ stream'[t].step = "measure" /\ Keeps(t)
  /\ \A d \in stream[t].cites : document[d] # "purged"
  /\ turns'[t].status = "complete" /\ turns'[t].content = stream[t].content
  /\ turns'[t].cites = stream[t].cites
  /\ shown' = shown
GivesUp(t) ==
  /\ turns' = turns /\ shown' = shown /\ stream[t].step \in Alive
  /\ stream'[t].step = "fail" /\ Keeps(t)
Measures(t) ==
  /\ turns' = turns /\ shown' = shown
  /\ stream[t].step = "measure" /\ stream'[t].step = "send" /\ Keeps(t)
Releases(t) ==
  /\ turns' = turns /\ stream[t].step = "send" /\ shown'[t] = stream[t].content
  /\ stream'[t].step = "ended" /\ stream'[t].cites = {}
Marks(t) ==
  /\ stream[t].step = "fail" /\ shown'[t] = "failed"
  /\ stream'[t].step = "ended" /\ stream'[t].cites = {}
  /\ \/ turns' = turns
     \/ /\ t \in Open /\ turns'[t].status = "failed" /\ turns'[t].cites = turns[t].cites
Abandons(t) ==
  /\ turns' = turns /\ shown' = shown /\ stream[t].step \in Alive
  /\ stream'[t].step = "ended" /\ stream'[t].cites = {}

StreamMoves(t) == StreamStep(t) \/ StreamFails(t) \/ Abandon(t)

LEMMA StreamTypes ==
  /\ [NoStream EXCEPT !.step = "ended"] \in Streams
  /\ [NoStream EXCEPT !.step = "ended"].step = "ended"
  /\ [NoStream EXCEPT !.step = "ended"].cites = {}
  /\ [NoStream EXCEPT !.step = "load"] \in Streams
  /\ [NoStream EXCEPT !.step = "load"].step = "load"
  /\ [NoStream EXCEPT !.step = "load"].cites = {}
  /\ NoStream \in Streams /\ NoStream.step = "none" /\ NoStream.cites = {}
  /\ Streaming \in Messages /\ Streaming.status = "streaming" /\ Streaming.cites = {}
BY DEF NoStream, Streams, StreamSteps, Contents, Streaming, Messages, MessageStatuses

(* A step that moves the stream of t and writes no message. *)
LEMMA OnlyStream ==
  ASSUME TypeOK, NEW t \in 1..MaxTurns, NEW new \in Streams,
         stream' = [stream EXCEPT ![t] = new], turns' = turns,
         shown' \in [1..MaxTurns -> Shows],
         \A u \in 1..MaxTurns : u # t => shown'[u] = shown[u],
         UNCHANGED <<exists, asking, document, overrun>>
  PROVE  OnlyTurn(t) /\ stream'[t] = new
BY Types DEF OnlyTurn

LEMMA GoToEffect ==
  ASSUME TypeOK, NEW t \in 1..MaxTurns, NEW step \in StreamSteps, GoTo(t, step)
  PROVE  /\ stream' \in [1..MaxTurns -> Streams]
         /\ \A u \in 1..MaxTurns : u # t => stream'[u] = stream[u]
         /\ stream'[t].step = step /\ Keeps(t)
<1>1. stream \in [1..MaxTurns -> Streams] /\ stream[t] \in Streams
  BY Types
<1> DEFINE new == [stream[t] EXCEPT !.step = step]
<1>2. /\ new \in Streams /\ new.step = step /\ new.content = stream[t].content
      /\ new.cites = stream[t].cites /\ new.evidence = stream[t].evidence
  BY <1>1 DEF Streams
<1>3. stream' = [stream EXCEPT ![t] = new]
  BY DEF GoTo
<1> HIDE DEF new
<1>4. QED
  BY <1>1, <1>2, <1>3 DEF Keeps

LEMMA EndEffect ==
  ASSUME TypeOK, NEW t \in 1..MaxTurns, End(t)
  PROVE  /\ stream' \in [1..MaxTurns -> Streams]
         /\ \A u \in 1..MaxTurns : u # t => stream'[u] = stream[u]
         /\ stream'[t].step = "ended" /\ stream'[t].cites = {}
BY Types, StreamTypes DEF End

(* The shape of a step that leaves the messages and the client alone. *)
LEMMA Silent ==
  ASSUME TypeOK, NEW t \in 1..MaxTurns,
         stream' \in [1..MaxTurns -> Streams],
         \A u \in 1..MaxTurns : u # t => stream'[u] = stream[u],
         UNCHANGED <<exists, turns, asking, document, shown, overrun>>
  PROVE  OnlyTurn(t)
BY Types DEF OnlyTurn

LEMMA ValidatedEffect ==
  ASSUME TypeOK, NEW t \in 1..MaxTurns, Validated(t)
  PROVE  /\ stream' \in [1..MaxTurns -> Streams]
         /\ \A u \in 1..MaxTurns : u # t => stream'[u] = stream[u]
         /\ stream'[t].step = "persist"
         /\ \/ stream'[t].cites = stream[t].cites
            \/ stream'[t].content = "answer" /\ stream'[t].cites \subseteq stream'[t].evidence
<1>1. stream \in [1..MaxTurns -> Streams] /\ stream[t] \in Streams
  BY Types
<1>2. CASE \E cited \in SUBSET stream[t].evidence \ {{}} :
             stream' = [stream EXCEPT ![t] =
               [@ EXCEPT !.step = "persist", !.content = "answer", !.cites = cited]]
  <2>1. PICK cited \in SUBSET stream[t].evidence :
             stream' = [stream EXCEPT ![t] =
               [@ EXCEPT !.step = "persist", !.content = "answer", !.cites = cited]]
    BY <1>2
  <2> DEFINE new == [stream[t] EXCEPT !.step = "persist", !.content = "answer",
                                      !.cites = cited]
  <2>2. /\ new \in Streams /\ new.step = "persist" /\ new.content = "answer"
        /\ new.cites \subseteq new.evidence
    BY <1>1 DEF Streams, StreamSteps, Contents
  <2>3. stream' = [stream EXCEPT ![t] = new]
    BY <2>1
  <2> HIDE DEF new
  <2>4. QED
    BY <1>1, <2>2, <2>3
<1>3. CASE stream' = [stream EXCEPT ![t] =
             [@ EXCEPT !.step = "persist", !.content = "insufficient"]]
  <2> DEFINE new == [stream[t] EXCEPT !.step = "persist", !.content = "insufficient"]
  <2>2. new \in Streams /\ new.step = "persist" /\ new.cites = stream[t].cites
    BY <1>1 DEF Streams, StreamSteps, Contents
  <2>3. stream' = [stream EXCEPT ![t] = new]
    BY <1>3
  <2> HIDE DEF new
  <2>4. QED
    BY <1>1, <2>2, <2>3
<1>4. QED
  BY <1>2, <1>3 DEF Validated

LEMMA RetrieveEffect ==
  ASSUME TypeOK, NEW t \in 1..MaxTurns, Retrieve(t)
  PROVE  OnlyTurn(t) /\ Works(t)
<1>1. stream \in [1..MaxTurns -> Streams] /\ stream[t] \in Streams
  BY Types
<1>2. PICK found \in SUBSET Documents :
        stream' = [stream EXCEPT ![t] =
          IF found = {} THEN [@ EXCEPT !.step = "persist", !.content = "insufficient"]
                        ELSE [@ EXCEPT !.step = "generate", !.evidence = found]]
  BY DEF Retrieve
<1> DEFINE empty == [stream[t] EXCEPT !.step = "persist", !.content = "insufficient"]
           full == [stream[t] EXCEPT !.step = "generate", !.evidence = found]
<1>3. /\ empty \in Streams /\ empty.step = "persist" /\ empty.cites = stream[t].cites
      /\ full \in Streams /\ full.step = "generate" /\ full.cites = stream[t].cites
  BY <1>1 DEF Streams, StreamSteps, Contents
<1>4. stream' = [stream EXCEPT ![t] = IF found = {} THEN empty ELSE full]
  BY <1>2
<1> HIDE DEF empty, full
<1>5. /\ stream' \in [1..MaxTurns -> Streams]
      /\ \A u \in 1..MaxTurns : u # t => stream'[u] = stream[u]
      /\ stream'[t].step \in {"persist", "generate"} /\ stream'[t].cites = stream[t].cites
  BY <1>1, <1>3, <1>4
<1>6. OnlyTurn(t)
  BY <1>5, Silent DEF Retrieve
<1>7. QED
  BY <1>5, <1>6 DEF Retrieve, Works, Working, Early

LEMMA WorkEffect ==
  ASSUME TypeOK, NEW t \in 1..MaxTurns, LoadTurn(t) \/ Generate(t) \/ Repair(t)
  PROVE  OnlyTurn(t) /\ (Works(t) \/ GivesUp(t))
<1>1. stream \in [1..MaxTurns -> Streams] /\ stream[t] \in Streams
  BY Types
<1>2. CASE LoadTurn(t)
  <2>1. /\ stream[t].step = "load" /\ GoTo(t, IF exists THEN "retrieve" ELSE "fail")
        /\ UNCHANGED <<exists, turns, asking, document, shown, overrun>>
    BY <1>2 DEF LoadTurn
  <2>2. (IF exists THEN "retrieve" ELSE "fail") \in {"retrieve", "fail"} \cap StreamSteps
    BY DEF StreamSteps
  <2> DEFINE step == IF exists THEN "retrieve" ELSE "fail"
  <2> HIDE DEF step
  <2>3. /\ stream' \in [1..MaxTurns -> Streams]
        /\ \A u \in 1..MaxTurns : u # t => stream'[u] = stream[u]
        /\ stream'[t].step = step /\ Keeps(t)
    BY <2>1, <2>2, GoToEffect DEF step
  <2>4. OnlyTurn(t)
    BY <2>1, <2>3, Silent
  <2>5. QED
    BY <2>1, <2>2, <2>3, <2>4
    DEF step, Works, GivesUp, Keeps, Early, Working, Alive, StreamSteps
<1>3. CASE Validated(t) /\ (Generate(t) \/ Repair(t))
  <2>1. /\ stream[t].step \in {"generate", "repair"}
        /\ UNCHANGED <<exists, turns, asking, document, shown, overrun>>
    BY <1>3 DEF Generate, Repair
  <2>2. OnlyTurn(t)
    BY <1>3, <2>1, ValidatedEffect, Silent
  <2>3. QED
    BY <1>3, <2>1, <2>2, ValidatedEffect DEF Works, Early, Working
<1>4. CASE Generate(t) /\ GoTo(t, "repair")
  <2>1. /\ stream[t].step = "generate" /\ "repair" \in StreamSteps
        /\ UNCHANGED <<exists, turns, asking, document, shown, overrun>>
    BY <1>4 DEF Generate, StreamSteps
  <2>2. OnlyTurn(t) /\ stream'[t].step = "repair" /\ Keeps(t)
    BY <1>4, <2>1, GoToEffect, Silent
  <2>3. QED
    BY <2>1, <2>2 DEF Works, Keeps, Early, Working
<1>5. CASE /\ Repair(t)
           /\ stream' = [stream EXCEPT ![t] =
                [@ EXCEPT !.step = "persist", !.content = "unverifiable"]]
  <2> DEFINE new == [stream[t] EXCEPT !.step = "persist", !.content = "unverifiable"]
  <2>1. /\ stream[t].step = "repair"
        /\ UNCHANGED <<exists, turns, asking, document, shown, overrun>>
    BY <1>5 DEF Repair
  <2>2. new \in Streams /\ new.step = "persist" /\ new.cites = stream[t].cites
    BY <1>1 DEF Streams, StreamSteps, Contents
  <2>3. stream' = [stream EXCEPT ![t] = new]
    BY <1>5
  <2> HIDE DEF new
  <2>4. /\ stream' \in [1..MaxTurns -> Streams] /\ stream'[t] = new
        /\ \A u \in 1..MaxTurns : u # t => stream'[u] = stream[u]
    BY <1>1, <2>2, <2>3
  <2>5. OnlyTurn(t)
    BY <2>1, <2>4, Silent
  <2>6. QED
    BY <2>1, <2>2, <2>4, <2>5 DEF Works, Early, Working
<1>6. QED
  BY <1>2, <1>3, <1>4, <1>5 DEF Generate, Repair

(* A message is rewritten; the others stay as they are. *)
Rewrites(new, t, message) ==
  /\ new \in Seq(Messages) /\ Len(new) = Len(turns) /\ new[t] = message
  /\ \A u \in Turns : u # t => new[u] = turns[u]

LEMMA Rewritten ==
  ASSUME TypeOK, NEW t \in Turns, NEW message \in Messages
  PROVE  Rewrites([turns EXCEPT ![t] = message], t, message)
<1>1. turns \in Seq(Messages) /\ t \in 1..Len(turns) /\ Turns = 1..Len(turns)
  BY Types
<1>2. QED
  BY <1>1, ExceptSeq DEF Rewrites

FailedWith(t, text) == [turns EXCEPT ![t].status = "failed", ![t].content = text]

LEMMA Failed ==
  ASSUME TypeOK, NEW t \in Turns, NEW text \in Contents, NEW new,
         new = FailedWith(t, text)
  PROVE  /\ new \in Seq(Messages) /\ Len(new) = Len(turns)
         /\ new[t].status = "failed" /\ new[t].content = text
         /\ new[t].cites = turns[t].cites
         /\ \A u \in Turns : u # t => new[u] = turns[u]
<1> DEFINE message == [turns[t] EXCEPT !.status = "failed", !.content = text]
<1>1. turns \in [1..Len(turns) -> Messages] /\ t \in 1..Len(turns)
  BY Types, LenProperties
<1>2. /\ message \in Messages /\ message.status = "failed" /\ message.content = text
      /\ message.cites = turns[t].cites
  BY <1>1 DEF Messages, MessageStatuses
<1>3. new = [turns EXCEPT ![t] = message]
  BY <1>1 DEF FailedWith
<1> HIDE DEF message
<1>4. Rewrites(new, t, message)
  BY <1>2, <1>3, Rewritten
<1>5. QED
  BY <1>2, <1>4 DEF Rewrites

LEMMA PersistEffect ==
  ASSUME Structure, NEW t \in 1..MaxTurns, Persist(t)
  PROVE  OnlyTurn(t) /\ (Persists(t) \/ GivesUp(t)) /\ (Persists(t) => t \in Turns)
<1>0. /\ stream \in [1..MaxTurns -> Streams] /\ stream[t] \in Streams
      /\ stream[t].step = "persist"
      /\ UNCHANGED <<exists, asking, document, shown, overrun>>
      /\ shown \in [1..MaxTurns -> Shows] /\ TypeOK
  BY Types DEF Persist, Structure
<1>1. CASE Persistable(t)
  <2>1. exists /\ \A d \in stream[t].cites : document[d] # "purged"
    BY <1>1 DEF Persistable
  <2>2. t \in Turns /\ turns[t] \in Messages
    <3>1. ~(t > Len(turns))
      BY <1>0, <2>1 DEF Structure
    <3>2. QED
      BY <1>0, <3>1, Types
  <2> DEFINE message == [turns[t] EXCEPT !.status = "complete",
                           !.content = stream[t].content, !.cites = stream[t].cites]
  <2>3. /\ message \in Messages /\ message.status = "complete"
        /\ message.content = stream[t].content /\ message.cites = stream[t].cites
    BY <1>0, <2>2 DEF Messages, MessageStatuses, Streams
  <2>4. turns' = [turns EXCEPT ![t] = message] /\ GoTo(t, "measure")
    BY <1>1 DEF Persist
  <2> HIDE DEF message
  <2>5. Rewrites(turns', t, message)
    BY <1>0, <2>2, <2>3, <2>4, Rewritten
  <2>6. /\ stream' \in [1..MaxTurns -> Streams]
        /\ \A u \in 1..MaxTurns : u # t => stream'[u] = stream[u]
        /\ stream'[t].step = "measure" /\ Keeps(t)
    BY <1>0, <2>4, GoToEffect DEF StreamSteps
  <2>7. OnlyTurn(t)
    BY <1>0, <2>5, <2>6 DEF OnlyTurn, Rewrites
  <2>8. Persists(t)
    BY <1>0, <2>1, <2>3, <2>5, <2>6 DEF Persists, Rewrites
  <2>9. QED
    BY <2>2, <2>7, <2>8
<1>2. CASE ~Persistable(t)
  <2>1. turns' = turns /\ GoTo(t, "fail")
    BY <1>2 DEF Persist
  <2>2. /\ stream' \in [1..MaxTurns -> Streams]
        /\ \A u \in 1..MaxTurns : u # t => stream'[u] = stream[u]
        /\ stream'[t].step = "fail" /\ Keeps(t)
    BY <1>0, <2>1, GoToEffect DEF StreamSteps
  <2>3. OnlyTurn(t)
    BY <1>0, <2>1, <2>2, Silent
  <2>4. GivesUp(t)
    BY <1>0, <2>1, <2>2 DEF GivesUp, Alive, StreamSteps
  <2>5. Persists(t) => FALSE
    BY <2>2 DEF Persists
  <2>6. QED
    BY <2>3, <2>4, <2>5
<1>3. QED
  BY <1>1, <1>2

LEMMA LateEffect ==
  ASSUME TypeOK, NEW t \in 1..MaxTurns,
         Measure(t) \/ Send(t) \/ MarkFailed(t) \/ StreamFails(t) \/ Abandon(t)
  PROVE  /\ OnlyTurn(t)
         /\ Measures(t) \/ Releases(t) \/ Marks(t) \/ GivesUp(t) \/ Abandons(t)
<1>0. /\ stream \in [1..MaxTurns -> Streams] /\ stream[t] \in Streams
      /\ shown \in [1..MaxTurns -> Shows]
      /\ turns \in Seq(Messages) /\ Open \subseteq Turns
  BY Types
<1>a. TypeOK
  OBVIOUS
<1>1. CASE Measure(t)
  <2>1. /\ stream[t].step = "measure" /\ GoTo(t, "send")
        /\ UNCHANGED <<exists, turns, asking, document, shown, overrun>>
    BY <1>1 DEF Measure
  <2>2. OnlyTurn(t) /\ stream'[t].step = "send" /\ Keeps(t)
    BY <2>1, GoToEffect, Silent DEF StreamSteps
  <2>3. QED
    BY <2>1, <2>2 DEF Measures
<1>2. CASE Send(t)
  <2>1. /\ stream[t].step = "send" /\ End(t)
        /\ shown' = [shown EXCEPT ![t] = stream[t].content]
        /\ UNCHANGED <<exists, turns, asking, document, overrun>>
    BY <1>2 DEF Send
  <2>2. stream[t].content \in Shows
    BY <1>0 DEF Streams, Shows
  <2>3. /\ shown' \in [1..MaxTurns -> Shows] /\ shown'[t] = stream[t].content
        /\ \A u \in 1..MaxTurns : u # t => shown'[u] = shown[u]
    BY <1>0, <2>1, <2>2
  <2>4. OnlyTurn(t)
    BY <1>0, <2>1, <2>3, EndEffect DEF OnlyTurn
  <2>5. Releases(t)
    BY <2>1, <2>3, EndEffect DEF Releases
  <2>6. QED
    BY <2>4, <2>5
<1>3. CASE MarkFailed(t)
  <2>1. /\ stream[t].step = "fail" /\ End(t)
        /\ turns' = (IF t \in Open
             THEN [turns EXCEPT ![t].status = "failed", ![t].content = "failed"]
             ELSE turns)
        /\ shown' = [shown EXCEPT ![t] = "failed"]
        /\ UNCHANGED <<exists, asking, document, overrun>>
    BY <1>3 DEF MarkFailed
  <2>2. "failed" \in Shows /\ "failed" \in Contents
    BY DEF Shows, Contents
  <2>3. /\ shown' \in [1..MaxTurns -> Shows] /\ shown'[t] = "failed"
        /\ \A u \in 1..MaxTurns : u # t => shown'[u] = shown[u]
    BY <1>0, <2>1, <2>2
  <2>4. /\ turns' \in Seq(Messages) /\ Len(turns') = Len(turns)
        /\ \A u \in Turns : u # t => turns'[u] = turns[u]
        /\ \/ turns' = turns
           \/ /\ t \in Open /\ turns'[t].status = "failed"
              /\ turns'[t].cites = turns[t].cites
    <3>1. CASE t \in Open
      <4>1. t \in Turns
        BY <1>0, <3>1
      <4>2. turns' = FailedWith(t, "failed")
        BY <2>1, <3>1 DEF FailedWith
      <4>3. /\ turns' \in Seq(Messages) /\ Len(turns') = Len(turns)
            /\ turns'[t].status = "failed" /\ turns'[t].cites = turns[t].cites
            /\ \A u \in Turns : u # t => turns'[u] = turns[u]
        BY <1>a, <2>2, <4>1, <4>2, Failed
      <4>4. QED
        BY <3>1, <4>3
    <3>2. CASE t \notin Open
      BY <1>0, <2>1, <3>2
    <3>3. QED
      BY <3>1, <3>2
  <2>5. OnlyTurn(t)
    BY <2>1, <2>3, <2>4, EndEffect DEF OnlyTurn
  <2>6. Marks(t)
    BY <2>1, <2>3, <2>4, EndEffect DEF Marks
  <2>7. QED
    BY <2>5, <2>6
<1>4. CASE StreamFails(t)
  <2>1. /\ stream[t].step \in Alive /\ GoTo(t, "fail")
        /\ UNCHANGED <<exists, turns, asking, document, shown, overrun>>
    BY <1>4 DEF StreamFails
  <2>2. OnlyTurn(t) /\ stream'[t].step = "fail" /\ Keeps(t)
    BY <2>1, GoToEffect, Silent DEF StreamSteps
  <2>3. QED
    BY <2>1, <2>2 DEF GivesUp
<1>5. CASE Abandon(t)
  <2>1. /\ stream[t].step \in Alive /\ End(t)
        /\ UNCHANGED <<exists, turns, asking, document, shown, overrun>>
    BY <1>5 DEF Abandon
  <2>2. OnlyTurn(t)
    BY <2>1, EndEffect, Silent
  <2>3. QED
    BY <2>1, <2>2, EndEffect DEF Abandons
<1>6. QED
  BY <1>1, <1>2, <1>3, <1>4, <1>5

LEMMA StreamEffect ==
  ASSUME Structure, NEW t \in 1..MaxTurns, StreamMoves(t)
  PROVE  /\ OnlyTurn(t)
         /\ \/ Works(t) \/ GivesUp(t) \/ Measures(t)
            \/ Releases(t) \/ Marks(t) \/ Abandons(t)
            \/ Persists(t) /\ t \in Turns
<1>1. TypeOK
  BY DEF Structure
<1>2. CASE Retrieve(t)
  BY <1>1, <1>2, RetrieveEffect
<1>3. CASE LoadTurn(t) \/ Generate(t) \/ Repair(t)
  BY <1>1, <1>3, WorkEffect
<1>4. CASE Persist(t)
  BY <1>4, PersistEffect
<1>5. CASE Measure(t) \/ Send(t) \/ MarkFailed(t) \/ StreamFails(t) \/ Abandon(t)
  BY <1>1, <1>5, LateEffect
<1>6. QED
  BY <1>2, <1>3, <1>4, <1>5 DEF StreamMoves, StreamStep

-----------------------------------------------------------------------------
(* The steps of the Conversation and of the Documents. *)

LEMMA AskEffect ==
  ASSUME Structure, NEW c \in Clients, Ask(c)
  PROVE  /\ asking' \in [Clients -> Askings]
         /\ \A d \in Clients : asking[d].step # "locked"
         /\ \A d \in Clients : d # c => asking'[d] = asking[d]
         /\ exists /\ Len(turns) < MaxTurns
         /\ Open \subseteq {asking'[c].stale}
         /\ asking'[c].stale = None \/ asking'[c].stale \in Turns
         /\ UNCHANGED <<exists, turns, stream, document, shown, overrun>>
<1> DEFINE stale == IF Open = {} THEN None ELSE CHOOSE t \in Open : TRUE
           new == [step |-> "locked", stale |-> stale]
<1>1. /\ asking \in [Clients -> Askings] /\ Turns \subseteq 1..MaxTurns
      /\ Open \subseteq Turns /\ \A t, u \in Open : t = u
  BY Types DEF Structure
<1>2. Open # {} => stale \in Open
  OBVIOUS
<1>3. Open \subseteq {stale} /\ (stale = None \/ stale \in Turns)
  BY <1>1, <1>2
<1>4. stale \in 1..MaxTurns \cup {None}
  BY <1>1, <1>3
<1> HIDE DEF stale
<1>5. new \in Askings /\ new.stale = stale
  BY <1>4 DEF Askings
<1>6. asking' = [asking EXCEPT ![c] = new]
  BY DEF Ask, stale
<1> HIDE DEF new
<1>7. QED
  BY <1>1, <1>3, <1>5, <1>6 DEF Ask, Free

LEMMA AskingTypes ==
  NotAsking \in Askings /\ NotAsking.step = "idle"
BY DEF NotAsking, Askings

LEMMA CommitEffect ==
  ASSUME Structure, NEW c \in Clients, CommitTurn(c)
  PROVE  \E stale \in 1..MaxTurns \cup {None}, new \in 1..MaxTurns :
         /\ asking[c].step = "locked" /\ exists
         /\ new = Len(turns) + 1 /\ new \notin Turns
         /\ stale \in Turns \/ stale = None
         /\ Open \subseteq {stale}
         /\ turns' \in Seq(Messages) /\ Len(turns') = new
         /\ turns'[new] = Streaming
         /\ \A t \in Turns \ {stale} : turns'[t] = turns[t]
         /\ stale \in Turns =>
              turns'[stale].status = "failed" /\ turns'[stale].cites = turns[stale].cites
         /\ overrun' \in {overrun, overrun \cup {stale}} /\ overrun' \subseteq 1..MaxTurns
         /\ stale \in Turns /\ stale \notin overrun' =>
              stream[stale].step \notin Alive /\ turns[stale].status = "streaming"
         /\ overrun' \subseteq overrun \cup Turns
         /\ stream' \in [1..MaxTurns -> Streams]
         /\ \A t \in 1..MaxTurns : t # new => stream'[t] = stream[t]
         /\ stream'[new].step = "load" /\ stream'[new].cites = {}
         /\ asking' \in [Clients -> Askings] /\ asking'[c].step = "idle"
         /\ \A d \in Clients : d # c => asking'[d] = asking[d]
         /\ UNCHANGED <<exists, document, shown>>
<1> DEFINE stale == asking[c].stale
           new == Len(turns) + 1
           failed == [turns EXCEPT ![stale].status = "failed",
                                   ![stale].content = "interrupted"]
           recovered == IF stale = None THEN turns ELSE failed
<1>1. /\ TypeOK /\ asking[c].step = "locked" /\ exists
      /\ UNCHANGED <<exists, document, shown>>
      /\ turns' = Append(recovered, Streaming)
      /\ overrun' = (IF stale # None /\ (stream[stale].step \in Alive
                                          \/ turns[stale].status # "streaming")
                       THEN overrun \cup {stale} ELSE overrun)
      /\ stream' = [stream EXCEPT ![new] = [NoStream EXCEPT !.step = "load"]]
      /\ asking' = [asking EXCEPT ![c] = NotAsking]
  BY DEF CommitTurn, Structure
<1>2. /\ turns \in Seq(Messages) /\ Len(turns) \in Nat /\ MaxTurns \in Nat
      /\ Turns = 1..Len(turns) /\ Turns \subseteq 1..MaxTurns
      /\ asking \in [Clients -> Askings] /\ stream \in [1..MaxTurns -> Streams]
      /\ overrun \subseteq 1..MaxTurns /\ None \notin 1..MaxTurns
  BY <1>1, Types
<1>3. /\ Len(turns) < MaxTurns /\ Open \subseteq {stale}
      /\ stale = None \/ stale \in Turns
  BY <1>1 DEF Structure
<1>4. /\ new \in 1..MaxTurns /\ new \notin Turns
      /\ stale \in 1..MaxTurns \cup {None} /\ (stale \in Turns => stale # None)
  BY <1>2, <1>3
<1>5. /\ recovered \in Seq(Messages) /\ Len(recovered) = Len(turns)
      /\ \A t \in Turns \ {stale} : recovered[t] = turns[t]
      /\ stale \in Turns => /\ recovered[stale].status = "failed"
                            /\ recovered[stale].cites = turns[stale].cites
  <2>1. CASE stale = None
    BY <1>2, <1>4, <2>1
  <2>2. CASE stale \in Turns
    <3>1. "interrupted" \in Contents
      BY DEF Contents
    <3>2. /\ failed \in Seq(Messages) /\ Len(failed) = Len(turns)
          /\ failed[stale].status = "failed"
          /\ failed[stale].cites = turns[stale].cites
          /\ \A u \in Turns : u # stale => failed[u] = turns[u]
      <4>1. failed = FailedWith(stale, "interrupted")
        BY DEF FailedWith
      <4> HIDE DEF failed, stale
      <4>2. QED
        BY <1>1, <2>2, <3>1, <4>1, Failed
    <3>3. recovered = failed
      BY <1>4, <2>2
    <3> HIDE DEF failed, recovered
    <3>4. QED
      BY <3>2, <3>3
  <2>3. QED
    BY <1>3, <2>1, <2>2
<1> HIDE DEF recovered, failed
<1>6. /\ turns' \in Seq(Messages) /\ Len(turns') = new /\ turns'[new] = Streaming
      /\ \A t \in Turns : turns'[t] = recovered[t]
  BY <1>1, <1>2, <1>5, StreamTypes, AppendProperties
<1>7. /\ stream' \in [1..MaxTurns -> Streams]
      /\ \A t \in 1..MaxTurns : t # new => stream'[t] = stream[t]
      /\ stream'[new].step = "load" /\ stream'[new].cites = {}
  BY <1>1, <1>2, <1>4, StreamTypes
<1>8. /\ asking' \in [Clients -> Askings] /\ asking'[c].step = "idle"
      /\ \A d \in Clients : d # c => asking'[d] = asking[d]
  BY <1>1, <1>2, AskingTypes
<1>9. /\ overrun' \in {overrun, overrun \cup {stale}} /\ overrun' \subseteq 1..MaxTurns
      /\ stale \in Turns /\ stale \notin overrun' =>
           stream[stale].step \notin Alive /\ turns[stale].status = "streaming"
      /\ overrun' \subseteq overrun \cup Turns
  BY <1>1, <1>2, <1>3, <1>4
<1> HIDE DEF stale, new
<1>10. \A t \in Turns \ {stale} : turns'[t] = turns[t]
  BY <1>5, <1>6
<1>11. stale \in Turns =>
         turns'[stale].status = "failed" /\ turns'[stale].cites = turns[stale].cites
  BY <1>5, <1>6
<1>12. new = Len(turns) + 1
  BY DEF new
<1>13. QED
  BY <1>1, <1>3, <1>4, <1>6, <1>7, <1>8, <1>9, <1>10, <1>11, <1>12

LEMMA AskFailsEffect ==
  ASSUME Structure, NEW c \in Clients, AskFails(c)
  PROVE  /\ asking' \in [Clients -> Askings] /\ asking'[c].step = "idle"
         /\ \A d \in Clients : d # c => asking'[d] = asking[d]
         /\ UNCHANGED <<exists, turns, stream, document, shown, overrun>>
BY Types, AskingTypes DEF AskFails, Structure

LEMMA AgeEffect ==
  ASSUME TypeOK, NEW t \in Turns, Age(t)
  PROVE  /\ turns' \in Seq(Messages) /\ Len(turns') = Len(turns)
         /\ turns'[t].status = turns[t].status /\ turns'[t].content = turns[t].content
         /\ turns'[t].cites = turns[t].cites
         /\ \A u \in Turns : u # t => turns'[u] = turns[u]
         /\ UNCHANGED <<exists, asking, stream, document, shown, overrun>>
<1> DEFINE message == [turns[t] EXCEPT !.old = TRUE]
<1>1. turns[t] \in Messages
  BY Types
<1>2. /\ message \in Messages /\ message.status = turns[t].status
      /\ message.content = turns[t].content /\ message.cites = turns[t].cites
  BY <1>1 DEF Messages
<1>3. turns' = [turns EXCEPT ![t] = message]
  BY DEF Age
<1> HIDE DEF message
<1>4. Rewrites(turns', t, message)
  BY <1>2, <1>3, Rewritten
<1>5. QED
  BY <1>2, <1>4 DEF Rewrites, Age

LEMMA PurgeEffect ==
  ASSUME TypeOK, NEW d \in Documents, PurgeDocument(d)
  PROVE  /\ turns' \in Seq(Messages) /\ Len(turns') = Len(turns)
         /\ \A t \in Turns : /\ turns'[t].status = turns[t].status
                             /\ turns'[t].content = turns[t].content
                             /\ turns'[t].cites = turns[t].cites \ {d}
         /\ document' = [document EXCEPT ![d] = "purged"]
         /\ UNCHANGED <<exists, asking, stream, shown, overrun>>
<1> DEFINE without(t) == [turns[t] EXCEPT !.cites = @ \ {d}]
<1>1. Turns = 1..Len(turns) /\ Len(turns) \in Nat /\ \A t \in Turns : turns[t] \in Messages
  BY Types
<1>2. \A t \in Turns : /\ without(t) \in Messages
                       /\ without(t).status = turns[t].status
                       /\ without(t).content = turns[t].content
                       /\ without(t).cites = turns[t].cites \ {d}
  BY <1>1 DEF Messages
<1>3. turns' = [t \in 1..Len(turns) |-> without(t)]
  BY <1>1 DEF PurgeDocument
<1> HIDE DEF without
<1>4. turns' \in [1..Len(turns) -> Messages]
  BY <1>1, <1>2, <1>3
<1>5. turns' \in Seq(Messages) /\ Len(turns') = Len(turns)
  BY <1>1, <1>4
<1>6. QED
  BY <1>1, <1>2, <1>3, <1>5 DEF PurgeDocument

DocumentDeleted(d) ==
  /\ document[d] = "ready" /\ document' = [document EXCEPT ![d] = "deleting"]
  /\ UNCHANGED <<exists, turns, asking, stream, shown, overrun>>

(* The cases of a step. *)
LEMMA NextCases ==
  ASSUME Next
  PROVE  \/ \E c \in Clients : Ask(c)
         \/ \E c \in Clients : CommitTurn(c)
         \/ \E c \in Clients : AskFails(c)
         \/ DeleteConversation
         \/ \E t \in 1..MaxTurns : StreamMoves(t)
         \/ \E t \in Turns : Age(t)
         \/ \E d \in Documents : DocumentDeleted(d)
         \/ \E d \in Documents : PurgeDocument(d)
BY DEF Next, StreamMoves, DeleteDocument, DocumentDeleted

-----------------------------------------------------------------------------
(* Structure. *)

LEMMA InitStructure ==
  ASSUME Init PROVE Structure
<1>1. turns = <<>> /\ turns \in Seq(Messages) /\ Len(turns) = 0
  BY EmptySeq DEF Init
<1>2. asking \in [Clients -> Askings] /\ \A c \in Clients : asking[c].step = "idle"
  BY AskingTypes DEF Init
<1>3. stream \in [1..MaxTurns -> Streams] /\ \A t \in 1..MaxTurns : stream[t].step = "none"
  BY StreamTypes DEF Init
<1>4. /\ shown \in [1..MaxTurns -> Contents \cup {"nothing"}]
      /\ \A t \in 1..MaxTurns : shown[t] = "nothing"
      /\ document \in [Documents -> {"ready", "deleting", "purged"}]
      /\ exists = TRUE /\ overrun = {}
  BY DEF Init
<1>5. TypeOK
  BY <1>1, <1>2, <1>3, <1>4, TurnsAssumption DEF TypeOK
<1>6. Open = {}
  BY <1>1 DEF Open, Turns
<1>7. QED
  BY <1>1, <1>2, <1>3, <1>4, <1>5, <1>6 DEF Structure

(* Messages stop streaming, and none is added. *)
LEMMA OpenShrinks ==
  ASSUME Len(turns') = Len(turns),
         \A t \in Turns : turns'[t].status = "streaming" => turns[t].status = "streaming"
  PROVE  Turns' = Turns /\ Open' \subseteq Open
BY DEF Turns, Open

LEMMA NoneAdded ==
  ASSUME Structure, TypeOK', UNCHANGED <<exists, asking, overrun>>,
         Len(turns') = Len(turns), Open' \subseteq Open,
         exists => \A t \in 1..MaxTurns : t > Len(turns) =>
           stream'[t].step = "none" /\ shown'[t] = "nothing"
  PROVE  Structure'
<1>1. Turns' = Turns
  BY DEF Turns
<1>2. ~exists => turns' = <<>>
  <2>1. turns' \in Seq(Messages)
    BY DEF TypeOK
  <2>2. ~exists => Len(turns') = 0
    BY EmptySeq DEF Structure
  <2>3. QED
    BY <2>1, <2>2, EmptySeq
<1>3. \A c \in Clients : asking'[c].step = "locked" =>
        /\ exists' /\ Len(turns') < MaxTurns
        /\ Open' \subseteq {asking'[c].stale}
        /\ asking'[c].stale = None \/ asking'[c].stale \in Turns'
  BY <1>1 DEF Structure
<1>4. /\ \A c, d \in Clients :
           asking'[c].step = "locked" /\ asking'[d].step = "locked" => c = d
      /\ \A t, u \in Open' : t = u
      /\ exists' => \A t \in 1..MaxTurns : t > Len(turns') =>
           stream'[t].step = "none" /\ shown'[t] = "nothing" /\ t \notin overrun'
  BY DEF Structure
<1>5. QED
  BY <1>2, <1>3, <1>4 DEF Structure

LEMMA NextStructure ==
  ASSUME Structure, [Next]_vars PROVE Structure'
<1>0. TypeOK
  BY DEF Structure
<1>a. /\ Len(turns) \in Nat /\ Turns = 1..Len(turns) /\ MaxTurns \in Nat
      /\ Turns \subseteq 1..MaxTurns /\ Open \subseteq Turns
  BY <1>0, Types
<1>1. CASE UNCHANGED vars
  BY <1>1 DEF vars, Structure, TypeOK, Open, Turns
<1>2. CASE \E c \in Clients : Ask(c)
  <2>1. PICK c \in Clients : Ask(c)
    BY <1>2
  <2>2. /\ asking' \in [Clients -> Askings]
        /\ \A d \in Clients : asking[d].step # "locked"
        /\ \A d \in Clients : d # c => asking'[d] = asking[d]
        /\ exists /\ Len(turns) < MaxTurns
        /\ Open \subseteq {asking'[c].stale}
        /\ asking'[c].stale = None \/ asking'[c].stale \in Turns
        /\ UNCHANGED <<exists, turns, stream, document, shown, overrun>>
    BY <2>1, AskEffect
  <2>3. Open' = Open /\ Turns' = Turns
    BY <2>2 DEF Open, Turns
  <2>4. TypeOK'
    BY <1>0, <2>2 DEF TypeOK
  <2>5. \A d \in Clients : asking'[d].step = "locked" => d = c
    BY <2>2
  <2>6. QED
    BY <2>2, <2>3, <2>4, <2>5 DEF Structure
<1>3. CASE \E c \in Clients : CommitTurn(c)
  <2>1. PICK c \in Clients : CommitTurn(c)
    BY <1>3
  <2>2. PICK stale \in 1..MaxTurns \cup {None}, new \in 1..MaxTurns :
         /\ asking[c].step = "locked" /\ exists
         /\ new = Len(turns) + 1 /\ new \notin Turns
         /\ stale \in Turns \/ stale = None
         /\ Open \subseteq {stale}
         /\ turns' \in Seq(Messages) /\ Len(turns') = new
         /\ turns'[new] = Streaming
         /\ \A t \in Turns \ {stale} : turns'[t] = turns[t]
         /\ stale \in Turns => turns'[stale].status = "failed"
         /\ overrun' \subseteq 1..MaxTurns
         /\ overrun' \subseteq overrun \cup Turns
         /\ stream' \in [1..MaxTurns -> Streams]
         /\ \A t \in 1..MaxTurns : t # new => stream'[t] = stream[t]
         /\ asking' \in [Clients -> Askings] /\ asking'[c].step = "idle"
         /\ \A d \in Clients : d # c => asking'[d] = asking[d]
         /\ UNCHANGED <<exists, document, shown>>
    BY <2>1, CommitEffect
  <2>3. TypeOK'
    BY <1>0, <2>2 DEF TypeOK
  <2>4. \A d \in Clients : asking'[d].step # "locked"
    BY <2>2 DEF Structure
  <2>5. Turns' = Turns \cup {new}
    BY <1>a, <2>2 DEF Turns
  <2>6. Open' \subseteq {new}
    <3>1. ASSUME NEW t \in Open' PROVE t = new
      <4>1. t \in Turns' /\ turns'[t].status = "streaming"
        BY <3>1 DEF Open
      <4>2. CASE t \in Turns
        <5>1. t # stale
          BY <2>2, <4>1, <4>2
        <5>2. t \in Open
          BY <2>2, <4>1, <4>2, <5>1 DEF Open
        <5>3. QED
          BY <2>2, <5>1, <5>2
      <4>3. QED
        BY <2>5, <4>1, <4>2
    <3>2. QED
      BY <3>1
  <2>7. ASSUME NEW t \in 1..MaxTurns, t > Len(turns')
        PROVE  stream'[t].step = "none" /\ shown'[t] = "nothing" /\ t \notin overrun'
    <3>1. t > Len(turns) /\ t # new /\ t \notin Turns
      BY <1>a, <2>2, <2>7
    <3>2. QED
      BY <2>2, <3>1 DEF Structure
  <2>8. QED
    BY <2>2, <2>3, <2>4, <2>6, <2>7 DEF Structure
<1>4. CASE \E c \in Clients : AskFails(c)
  <2>1. PICK c \in Clients : AskFails(c)
    BY <1>4
  <2>2. /\ asking' \in [Clients -> Askings] /\ asking'[c].step = "idle"
        /\ \A d \in Clients : d # c => asking'[d] = asking[d]
        /\ UNCHANGED <<exists, turns, stream, document, shown, overrun>>
    BY <2>1, AskFailsEffect
  <2>3. Open' = Open /\ Turns' = Turns
    BY <2>2 DEF Open, Turns
  <2>4. TypeOK'
    BY <1>0, <2>2 DEF TypeOK
  <2>5. \A d \in Clients : asking'[d].step = "locked" => asking'[d] = asking[d] /\ d # c
    BY <2>2
  <2>6. QED
    BY <2>2, <2>3, <2>4, <2>5 DEF Structure
<1>5. CASE DeleteConversation
  <2>1. /\ \A c \in Clients : asking[c].step # "locked"
        /\ exists' = FALSE /\ turns' = <<>>
        /\ UNCHANGED <<asking, stream, document, shown, overrun>>
    BY <1>5 DEF DeleteConversation, Free
  <2>2. turns' \in Seq(Messages) /\ Len(turns') = 0
    BY <2>1, EmptySeq
  <2>3. TypeOK'
    <3>0. exists' \in BOOLEAN
      BY <2>1
    <3>1. Len(turns') <= MaxTurns
      BY <1>a, <2>2
    <3>2. /\ asking' = asking /\ stream' = stream /\ document' = document
          /\ shown' = shown /\ overrun' = overrun
      BY <2>1
    <3>3. QED
      BY <1>0, <2>2, <3>0, <3>1, <3>2 DEF TypeOK
  <2>4. Open' = {}
    BY <2>2 DEF Open, Turns
  <2>5. QED
    BY <2>1, <2>3, <2>4 DEF Structure
<1>6. CASE \E t \in 1..MaxTurns : StreamMoves(t)
  <2>1. PICK t \in 1..MaxTurns : StreamMoves(t)
    BY <1>6
  <2>2. OnlyTurn(t)
    BY <2>1, StreamEffect
  <2>3. stream[t].step \in Alive
    BY <2>1, StreamEffect
    DEF Works, GivesUp, Measures, Releases, Marks, Abandons, Persists,
        Alive, StreamSteps, Early
  <2>4. turns'[t].status = "streaming" /\ t \in Turns => turns[t].status = "streaming"
    BY <2>1, StreamEffect
    DEF Works, GivesUp, Measures, Releases, Marks, Abandons, Persists
  <2>5. Open' \subseteq Open
    BY <2>2, <2>4, OpenShrinks DEF OnlyTurn
  <2>6. TypeOK'
    BY <1>0, <2>2 DEF OnlyTurn, TypeOK, Shows
  <2>7. ASSUME exists, NEW u \in 1..MaxTurns, u > Len(turns)
        PROVE  stream'[u].step = "none" /\ shown'[u] = "nothing"
    <3>1. stream[u].step = "none" /\ shown[u] = "nothing"
      BY <2>7 DEF Structure
    <3>2. u # t
      BY <2>3, <3>1 DEF Alive
    <3>3. QED
      BY <2>2, <3>1, <3>2 DEF OnlyTurn
  <2>8. QED
    BY <2>2, <2>5, <2>6, <2>7, NoneAdded DEF OnlyTurn
<1>7. CASE \E t \in Turns : Age(t)
  <2>1. PICK t \in Turns : Age(t)
    BY <1>7
  <2>2. /\ turns' \in Seq(Messages) /\ Len(turns') = Len(turns)
        /\ turns'[t].status = turns[t].status
        /\ \A u \in Turns : u # t => turns'[u] = turns[u]
        /\ UNCHANGED <<exists, asking, stream, document, shown, overrun>>
    BY <1>0, <2>1, AgeEffect
  <2>3. Open' \subseteq Open
    BY <2>2, OpenShrinks
  <2>4. TypeOK'
    BY <1>0, <2>2 DEF TypeOK
  <2>5. exists => \A u \in 1..MaxTurns : u > Len(turns) =>
          stream'[u].step = "none" /\ shown'[u] = "nothing"
    BY <2>2 DEF Structure
  <2>6. QED
    BY <2>2, <2>3, <2>4, <2>5, NoneAdded
<1>8. CASE \E d \in Documents : DocumentDeleted(d)
  <2>1. PICK d \in Documents : DocumentDeleted(d)
    BY <1>8
  <2>2. TypeOK' /\ Open' = Open
    BY <1>0, <2>1 DEF DocumentDeleted, TypeOK, Open, Turns
  <2>3. exists => \A u \in 1..MaxTurns : u > Len(turns) =>
          stream'[u].step = "none" /\ shown'[u] = "nothing"
    BY <2>1 DEF DocumentDeleted, Structure
  <2>4. QED
    BY <2>1, <2>2, <2>3, NoneAdded DEF DocumentDeleted
<1>9. CASE \E d \in Documents : PurgeDocument(d)
  <2>1. PICK d \in Documents : PurgeDocument(d)
    BY <1>9
  <2>2. /\ turns' \in Seq(Messages) /\ Len(turns') = Len(turns)
        /\ \A t \in Turns : turns'[t].status = turns[t].status
        /\ document' = [document EXCEPT ![d] = "purged"]
        /\ UNCHANGED <<exists, asking, stream, shown, overrun>>
    BY <1>0, <2>1, PurgeEffect
  <2>3. TypeOK'
    BY <1>0, <2>2 DEF TypeOK
  <2>4. Open' \subseteq Open
    BY <2>2, OpenShrinks
  <2>5. exists => \A u \in 1..MaxTurns : u > Len(turns) =>
          stream'[u].step = "none" /\ shown'[u] = "nothing"
    BY <2>2 DEF Structure
  <2>6. QED
    BY <2>2, <2>3, <2>4, <2>5, NoneAdded
<1>10. QED
  BY <1>1, <1>2, <1>3, <1>4, <1>5, <1>6, <1>7, <1>8, <1>9, NextCases

LEMMA StructureAlways == Spec => []Structure
BY InitStructure, NextStructure, PTL DEF Spec

(* Every variable keeps its type. *)
THEOREM TypeCorrect == Spec => []TypeOK
<1>1. Structure => TypeOK
  BY DEF Structure
<1>2. QED
  BY <1>1, StructureAlways, PTL

(* The unique index behind create_turn is never asked to refuse a second   *)
(* streaming message.                                                      *)
THEOREM OneAnswerStreams == Spec => []OneStreamingAnswer
<1>1. Structure => OneStreamingAnswer
  <2>1. SUFFICES ASSUME Structure PROVE Cardinality(Open) <= 1
    BY DEF OneStreamingAnswer
  <2>2. Open = {} \/ \E t \in Open : Open = {t}
    BY <2>1 DEF Structure
  <2>3. Cardinality(Open) = 0 \/ Cardinality(Open) = 1
    BY <2>2, FS_EmptySet, FS_Singleton
  <2>4. QED
    BY <2>3
<1>2. QED
  BY <1>1, StructureAlways, PTL

-----------------------------------------------------------------------------
(* Citations. *)

(* What the invariant says of one stream and of one message. *)
StreamCites(t) ==
  stream[t].cites # {} =>
    /\ stream[t].step \notin Early
    /\ stream[t].content = "answer" /\ stream[t].cites \subseteq stream[t].evidence
MessageCites(t) ==
  /\ turns[t].cites # {} /\ t \notin overrun =>
       turns[t].content = "answer" /\ turns[t].status = "complete"
  /\ stream[t].step \in {"measure", "send"} => turns[t].cites \subseteq stream[t].evidence
  /\ \A d \in turns[t].cites : document[d] # "purged"

LEMMA InitCitation ==
  ASSUME Init PROVE CitationInv
<1>1. Turns = {}
  BY DEF Init, Turns
<1>2. \A t \in 1..MaxTurns : stream[t].cites = {}
  BY StreamTypes DEF Init
<1>3. QED
  BY <1>1, <1>2 DEF CitationInv

LEMMA NextCitation ==
  ASSUME Structure, CitationInv, [Next]_vars PROVE CitationInv'
<1>0. /\ \A t \in 1..MaxTurns : StreamCites(t)
      /\ \A t \in Turns : MessageCites(t)
  BY DEF CitationInv, StreamCites, MessageCites
<1> SUFFICES /\ \A t \in 1..MaxTurns : StreamCites(t)'
             /\ \A t \in Turns' : MessageCites(t)'
  BY DEF CitationInv, StreamCites, MessageCites
<1>a. /\ TypeOK /\ Turns \subseteq 1..MaxTurns /\ Turns = 1..Len(turns)
      /\ document \in [Documents -> {"ready", "deleting", "purged"}]
      /\ \A t \in Turns : turns[t].cites \subseteq Documents
  BY Types DEF Structure, Messages
<1>b. stream' = stream => \A t \in 1..MaxTurns : StreamCites(t)'
  BY <1>0 DEF StreamCites
<1>c. turns' = turns /\ document' = document /\ stream' = stream /\ overrun' = overrun
        => \A t \in Turns' : MessageCites(t)'
  BY <1>0 DEF MessageCites, Turns
<1>1. CASE UNCHANGED vars
  BY <1>1, <1>b, <1>c DEF vars
<1>2. CASE \E c \in Clients : Ask(c)
  BY <1>2, <1>b, <1>c, AskEffect
<1>3. CASE \E c \in Clients : CommitTurn(c)
  <2>1. PICK c \in Clients : CommitTurn(c)
    BY <1>3
  <2>2. PICK stale \in 1..MaxTurns \cup {None}, new \in 1..MaxTurns :
         /\ new = Len(turns) + 1 /\ new \notin Turns
         /\ Len(turns') = new
         /\ turns'[new] = Streaming
         /\ \A t \in Turns \ {stale} : turns'[t] = turns[t]
         /\ stale \in Turns =>
              turns'[stale].status = "failed" /\ turns'[stale].cites = turns[stale].cites
         /\ overrun' \in {overrun, overrun \cup {stale}}
         /\ stale \in Turns /\ stale \notin overrun' => turns[stale].status = "streaming"
         /\ \A t \in 1..MaxTurns : t # new => stream'[t] = stream[t]
         /\ stream'[new].step = "load" /\ stream'[new].cites = {}
         /\ UNCHANGED <<exists, document, shown>>
    BY <2>1, CommitEffect
  <2>3. Turns' = Turns \cup {new}
    BY <2>2, Types, <1>a DEF Turns
  <2>4. \A t \in 1..MaxTurns : StreamCites(t)'
    BY <1>0, <2>2 DEF StreamCites
  <2>5. MessageCites(new)'
    BY <2>2, StreamTypes DEF MessageCites
  <2>6. ASSUME NEW t \in Turns, t # stale PROVE MessageCites(t)'
    <3>1. turns'[t] = turns[t] /\ stream'[t] = stream[t] /\ (t \in overrun => t \in overrun')
      BY <1>a, <2>2, <2>6
    <3>2. QED
      BY <1>0, <2>2, <3>1 DEF MessageCites
  <2>7. ASSUME stale \in Turns PROVE MessageCites(stale)'
    <3>1. /\ turns'[stale].cites = turns[stale].cites /\ stream'[stale] = stream[stale]
          /\ document' = document
      BY <1>a, <2>2, <2>7
    <3>2. stale \notin overrun' => turns[stale].cites = {}
      BY <1>0, <2>2, <2>7 DEF MessageCites
    <3>3. QED
      BY <1>0, <2>7, <3>1, <3>2 DEF MessageCites
  <2>8. QED
    BY <2>3, <2>4, <2>5, <2>6, <2>7
<1>4. CASE \E c \in Clients : AskFails(c)
  BY <1>4, <1>b, <1>c, AskFailsEffect
<1>5. CASE DeleteConversation
  <2>1. Turns' = {} /\ stream' = stream
    BY <1>5 DEF DeleteConversation, Turns
  <2>2. QED
    BY <1>b, <2>1
<1>6. CASE \E t \in 1..MaxTurns : StreamMoves(t)
  <2>1. PICK t \in 1..MaxTurns : StreamMoves(t)
    BY <1>6
  <2>2. /\ OnlyTurn(t)
        /\ \/ Works(t) \/ GivesUp(t) \/ Measures(t)
           \/ Releases(t) \/ Marks(t) \/ Abandons(t)
           \/ Persists(t) /\ t \in Turns
    BY <2>1, StreamEffect
  <2>3. Turns' = Turns /\ document' = document /\ overrun' = overrun
    BY <2>2 DEF OnlyTurn, Turns
  <2>4. ASSUME NEW u \in 1..MaxTurns, u # t
        PROVE  StreamCites(u)' /\ (u \in Turns => MessageCites(u)')
    <3>1. stream'[u] = stream[u] /\ (u \in Turns => turns'[u] = turns[u])
      BY <2>2, <2>4 DEF OnlyTurn
    <3>2. QED
      BY <1>0, <2>3, <3>1 DEF StreamCites, MessageCites
  <2>5. StreamCites(t)'
    <3>1. CASE Works(t)
      BY <1>0, <3>1 DEF Works, StreamCites, Early
    <3>2. CASE GivesUp(t) \/ Measures(t) \/ Persists(t)
      BY <1>0, <3>2 DEF GivesUp, Measures, Persists, Keeps, StreamCites, Early
    <3>3. CASE Releases(t) \/ Marks(t) \/ Abandons(t)
      BY <3>3 DEF Releases, Marks, Abandons, StreamCites
    <3>4. QED
      BY <2>2, <3>1, <3>2, <3>3
  <2>6. ASSUME t \in Turns PROVE MessageCites(t)'
    <3>1. CASE Works(t) \/ GivesUp(t) \/ Releases(t) \/ Abandons(t)
      <4>1. turns' = turns /\ stream'[t].step \notin {"measure", "send"}
        BY <3>1 DEF Works, GivesUp, Releases, Abandons, Working
      <4>2. QED
        BY <1>0, <2>3, <2>6, <4>1 DEF MessageCites
    <3>2. CASE Measures(t)
      BY <1>0, <2>3, <2>6, <3>2 DEF Measures, Keeps, MessageCites
    <3>3. CASE Marks(t)
      <4>1. /\ stream'[t].step = "ended"
            /\ turns' = turns \/ (/\ t \in Open /\ turns'[t].cites = turns[t].cites)
        BY <3>3 DEF Marks
      <4>2. t \in Open /\ t \notin overrun => turns[t].cites = {}
        BY <1>0, <2>6 DEF Open, MessageCites
      <4>3. QED
        BY <1>0, <2>3, <2>6, <4>1, <4>2 DEF MessageCites
    <3>4. CASE Persists(t)
      <4>1. /\ stream[t].step = "persist" /\ Keeps(t)
            /\ \A d \in stream[t].cites : document[d] # "purged"
            /\ turns'[t].status = "complete" /\ turns'[t].content = stream[t].content
            /\ turns'[t].cites = stream[t].cites
        BY <3>4 DEF Persists
      <4>2. stream[t].cites # {} =>
              stream[t].content = "answer" /\ stream[t].cites \subseteq stream[t].evidence
        BY <1>0 DEF StreamCites
      <4>3. stream[t].cites \subseteq stream'[t].evidence
        BY <4>1, <4>2 DEF Keeps
      <4>4. QED
        BY <2>3, <4>1, <4>2, <4>3 DEF MessageCites
    <3>5. QED
      BY <2>2, <3>1, <3>2, <3>3, <3>4
  <2>7. QED
    BY <1>a, <2>3, <2>4, <2>5, <2>6
<1>7. CASE \E t \in Turns : Age(t)
  <2>1. PICK t \in Turns : Age(t)
    BY <1>7
  <2>2. /\ Len(turns') = Len(turns)
        /\ turns'[t].status = turns[t].status /\ turns'[t].content = turns[t].content
        /\ turns'[t].cites = turns[t].cites
        /\ \A u \in Turns : u # t => turns'[u] = turns[u]
        /\ UNCHANGED <<exists, asking, stream, document, shown, overrun>>
    BY <1>a, <2>1, AgeEffect
  <2>3. Turns' = Turns
    BY <2>2 DEF Turns
  <2>4. ASSUME NEW u \in Turns PROVE MessageCites(u)'
    BY <1>0, <2>2 DEF MessageCites
  <2>5. QED
    BY <1>b, <2>2, <2>3, <2>4
<1>8. CASE \E d \in Documents : DocumentDeleted(d)
  <2>1. PICK d \in Documents : DocumentDeleted(d)
    BY <1>8
  <2>2. /\ \A e \in Documents : document'[e] = "purged" => document[e] = "purged"
        /\ UNCHANGED <<exists, turns, asking, stream, shown, overrun>>
    BY <1>a, <2>1 DEF DocumentDeleted
  <2>3. Turns' = Turns
    BY <2>2 DEF Turns
  <2>4. ASSUME NEW u \in Turns PROVE MessageCites(u)'
    BY <1>0, <1>a, <2>2 DEF MessageCites
  <2>5. QED
    BY <1>b, <2>2, <2>3, <2>4
<1>9. CASE \E d \in Documents : PurgeDocument(d)
  <2>1. PICK d \in Documents : PurgeDocument(d)
    BY <1>9
  <2>2. /\ Len(turns') = Len(turns)
        /\ \A t \in Turns : /\ turns'[t].status = turns[t].status
                            /\ turns'[t].content = turns[t].content
                            /\ turns'[t].cites = turns[t].cites \ {d}
        /\ document' = [document EXCEPT ![d] = "purged"]
        /\ UNCHANGED <<exists, asking, stream, shown, overrun>>
    BY <1>a, <2>1, PurgeEffect
  <2>3. Turns' = Turns
    BY <2>2 DEF Turns
  <2>4. ASSUME NEW u \in Turns PROVE MessageCites(u)'
    <3>1. \A e \in turns'[u].cites : document'[e] = document[e]
      BY <1>a, <2>2
    <3>2. QED
      BY <1>0, <2>2, <3>1 DEF MessageCites
  <2>5. QED
    BY <1>b, <2>2, <2>3, <2>4
<1>10. QED
  BY <1>1, <1>2, <1>3, <1>4, <1>5, <1>6, <1>7, <1>8, <1>9, NextCases

(* A citation belongs to a validated answer, to what was retrieved for it, *)
(* and to a Document that has a row.                                       *)
THEOREM CitationsStayGrounded == Spec => []CitationsAreGrounded
<1>1. Spec => []CitationInv
  <2>1. Init => CitationInv
    BY InitCitation
  <2>2. Structure /\ CitationInv /\ [Next]_vars => CitationInv'
    BY NextCitation
  <2>3. QED
    BY <2>1, <2>2, StructureAlways, PTL DEF Spec
<1>2. CitationInv => CitationsAreGrounded
  BY DEF CitationInv, CitationsAreGrounded
<1>3. QED
  BY <1>1, <1>2, PTL

-----------------------------------------------------------------------------
(* Outcomes. *)

(* What the invariant says of one turn. *)
SilentSoFar(t) == stream[t].step \in Alive => shown[t] = "nothing"
Outcome(t) ==
  t \notin overrun =>
    /\ stream[t].step \in Working => turns[t].status = "streaming"
    /\ stream[t].step \in {"measure", "send"} =>
         turns[t].status = "complete" /\ turns[t].content = stream[t].content
    /\ shown[t] \notin {"nothing", "failed"} =>
         turns[t].status = "complete" /\ turns[t].content = shown[t]

LEMMA InitOutcome ==
  ASSUME Init PROVE OutcomeInv
<1>1. Turns = {} /\ \A t \in 1..MaxTurns : shown[t] = "nothing"
  BY DEF Init, Turns
<1>2. QED
  BY <1>1 DEF OutcomeInv

LEMMA NextOutcome ==
  ASSUME Structure, OutcomeInv, [Next]_vars
  PROVE  /\ OutcomeInv'
         /\ \A t \in Turns : exists' /\ t \notin overrun' /\ turns[t].status # "streaming"
              => turns'[t].status = turns[t].status /\ turns'[t].content = turns[t].content
<1> DEFINE Final(t) ==
      exists' /\ t \notin overrun' /\ turns[t].status # "streaming"
        => turns'[t].status = turns[t].status /\ turns'[t].content = turns[t].content
<1>0. /\ \A t \in 1..MaxTurns : SilentSoFar(t)
      /\ \A t \in Turns : Outcome(t)
  BY DEF OutcomeInv, SilentSoFar, Outcome
<1> SUFFICES /\ \A t \in 1..MaxTurns : SilentSoFar(t)'
             /\ \A t \in Turns' : Outcome(t)'
             /\ \A t \in Turns : Final(t)
  BY DEF OutcomeInv, SilentSoFar, Outcome
<1>a. /\ TypeOK /\ Turns \subseteq 1..MaxTurns /\ Turns = 1..Len(turns)
  BY Types DEF Structure
<1>b. stream' = stream /\ shown' = shown => \A t \in 1..MaxTurns : SilentSoFar(t)'
  BY <1>0 DEF SilentSoFar
<1>c. turns' = turns /\ stream' = stream /\ overrun' = overrun /\ shown' = shown
        => (\A t \in Turns' : Outcome(t)') /\ (\A t \in Turns : Final(t))
  BY <1>0 DEF Outcome, Turns
<1>1. CASE UNCHANGED vars
  BY <1>1, <1>b, <1>c DEF vars
<1>2. CASE \E c \in Clients : Ask(c)
  BY <1>2, <1>b, <1>c, AskEffect
<1>3. CASE \E c \in Clients : CommitTurn(c)
  <2>1. PICK c \in Clients : CommitTurn(c)
    BY <1>3
  <2>2. PICK stale \in 1..MaxTurns \cup {None}, new \in 1..MaxTurns :
         /\ exists /\ new = Len(turns) + 1 /\ new \notin Turns
         /\ Len(turns') = new
         /\ turns'[new] = Streaming
         /\ \A t \in Turns \ {stale} : turns'[t] = turns[t]
         /\ overrun' \in {overrun, overrun \cup {stale}}
         /\ stale \in Turns /\ stale \notin overrun' =>
              stream[stale].step \notin Alive /\ turns[stale].status = "streaming"
         /\ \A t \in 1..MaxTurns : t # new => stream'[t] = stream[t]
         /\ stream'[new].step = "load"
         /\ UNCHANGED <<exists, document, shown>>
    BY <2>1, CommitEffect
  <2>3. Turns' = Turns \cup {new}
    BY <2>2, Types, <1>a DEF Turns
  <2>4. shown[new] = "nothing"
    <3>1. new > Len(turns)
      BY <2>2, <1>a, Types
    <3>2. QED
      BY <2>2, <3>1 DEF Structure
  <2>5. \A t \in 1..MaxTurns : SilentSoFar(t)'
    BY <1>0, <2>2, <2>4 DEF SilentSoFar
  <2>6. Outcome(new)'
    BY <2>2, <2>4, StreamTypes DEF Outcome
  <2>7. ASSUME NEW t \in Turns, t # stale PROVE Outcome(t)' /\ Final(t)
    <3>1. turns'[t] = turns[t] /\ stream'[t] = stream[t] /\ (t \in overrun => t \in overrun')
      BY <1>a, <2>2, <2>7
    <3>2. QED
      BY <1>0, <2>2, <3>1 DEF Outcome
  <2>8. ASSUME stale \in Turns PROVE Outcome(stale)' /\ Final(stale)
    <3>1. /\ stream'[stale] = stream[stale] /\ shown' = shown
          /\ stale \in overrun => stale \in overrun'
      BY <1>a, <2>2, <2>8
    <3>2. stale \notin overrun' =>
            /\ stream[stale].step \notin Alive /\ turns[stale].status = "streaming"
            /\ shown[stale] \in {"nothing", "failed"}
      BY <1>0, <2>2, <2>8, <3>1 DEF Outcome
    <3>3. Outcome(stale)'
      BY <3>1, <3>2 DEF Outcome, Alive, Working, StreamSteps
    <3>4. Final(stale)
      BY <3>2
    <3>5. QED
      BY <3>3, <3>4
  <2>9. QED
    BY <2>3, <2>5, <2>6, <2>7, <2>8
<1>4. CASE \E c \in Clients : AskFails(c)
  BY <1>4, <1>b, <1>c, AskFailsEffect
<1>5. CASE DeleteConversation
  <2>1. Turns' = {} /\ ~exists' /\ stream' = stream /\ shown' = shown
    BY <1>5 DEF DeleteConversation, Turns
  <2>2. QED
    BY <1>b, <2>1
<1>6. CASE \E t \in 1..MaxTurns : StreamMoves(t)
  <2>1. PICK t \in 1..MaxTurns : StreamMoves(t)
    BY <1>6
  <2>2. /\ OnlyTurn(t)
        /\ \/ Works(t) \/ GivesUp(t) \/ Measures(t)
           \/ Releases(t) \/ Marks(t) \/ Abandons(t)
           \/ Persists(t) /\ t \in Turns
    BY <2>1, StreamEffect
  <2>3. Turns' = Turns /\ overrun' = overrun
    BY <2>2 DEF OnlyTurn, Turns
  <2>4. ASSUME NEW u \in 1..MaxTurns, u # t
        PROVE  SilentSoFar(u)' /\ (u \in Turns => Outcome(u)' /\ Final(u))
    <3>1. /\ stream'[u] = stream[u] /\ shown'[u] = shown[u]
          /\ u \in Turns => turns'[u] = turns[u]
      BY <2>2, <2>4 DEF OnlyTurn
    <3>2. QED
      BY <1>0, <2>3, <3>1 DEF SilentSoFar, Outcome
  <2>a. SilentSoFar(t) /\ (t \in Turns => Outcome(t))
    BY <1>0
  <2>5. CASE Works(t)
    <3>1. /\ turns' = turns /\ shown'[t] = shown[t] /\ stream[t].step \in Alive \cap Working
          /\ stream'[t].step \in Working
      BY <2>5 DEF Works, Early, Alive, Working, StreamSteps
    <3>2. shown[t] = "nothing"
      BY <2>a, <3>1 DEF SilentSoFar
    <3>3. SilentSoFar(t)' /\ (t \in Turns => Outcome(t)' /\ Final(t))
      BY <2>3, <2>a, <3>1, <3>2 DEF SilentSoFar, Outcome, Working
    <3>4. QED
      BY <1>a, <2>3, <2>4, <3>3
  <2>6. CASE GivesUp(t) \/ Measures(t)
    <3>1. /\ turns' = turns /\ shown'[t] = shown[t] /\ stream[t].step \in Alive
          /\ \/ stream'[t].step = "fail"
             \/ /\ stream[t].step = "measure" /\ stream'[t].step = "send"
                /\ stream'[t].content = stream[t].content
      BY <2>6 DEF GivesUp, Measures, Keeps, Alive, StreamSteps
    <3>2. shown[t] = "nothing"
      BY <2>a, <3>1 DEF SilentSoFar
    <3>3. SilentSoFar(t)' /\ (t \in Turns => Outcome(t)' /\ Final(t))
      BY <2>3, <2>a, <3>1, <3>2 DEF SilentSoFar, Outcome, Working
    <3>4. QED
      BY <1>a, <2>3, <2>4, <3>3
  <2>7. CASE Releases(t)
    <3>1. /\ turns' = turns /\ stream[t].step = "send" /\ shown'[t] = stream[t].content
          /\ stream'[t].step = "ended"
      BY <2>7 DEF Releases
    <3>2. SilentSoFar(t)' /\ (t \in Turns => Outcome(t)' /\ Final(t))
      BY <2>3, <2>a, <3>1 DEF SilentSoFar, Outcome, Working, Alive
    <3>3. QED
      BY <1>a, <2>3, <2>4, <3>2
  <2>8. CASE Marks(t)
    <3>1. /\ shown'[t] = "failed" /\ stream'[t].step = "ended"
          /\ turns' = turns \/ t \in Open
      BY <2>8 DEF Marks
    <3>2. t \in Turns => Final(t)
      BY <3>1 DEF Open
    <3>3. SilentSoFar(t)' /\ (t \in Turns => Outcome(t)')
      BY <3>1 DEF SilentSoFar, Outcome, Working, Alive
    <3>4. QED
      BY <1>a, <2>3, <2>4, <3>2, <3>3
  <2>9. CASE Abandons(t)
    <3>1. /\ turns' = turns /\ shown'[t] = shown[t] /\ stream[t].step \in Alive
          /\ stream'[t].step = "ended"
      BY <2>9 DEF Abandons
    <3>2. SilentSoFar(t)' /\ (t \in Turns => Outcome(t)' /\ Final(t))
      BY <2>3, <2>a, <3>1 DEF SilentSoFar, Outcome, Working, Alive
    <3>3. QED
      BY <1>a, <2>3, <2>4, <3>2
  <2>10. CASE Persists(t) /\ t \in Turns
    <3>1. /\ stream[t].step \in Alive \cap Working /\ stream'[t].step = "measure"
          /\ stream'[t].content = stream[t].content
          /\ turns'[t].status = "complete" /\ turns'[t].content = stream[t].content
          /\ shown'[t] = shown[t]
      BY <2>10 DEF Persists, Keeps, Alive, Working, StreamSteps
    <3>2. shown[t] = "nothing"
      BY <2>a, <3>1 DEF SilentSoFar
    <3>3. SilentSoFar(t)' /\ Outcome(t)' /\ Final(t)
      BY <2>3, <2>10, <2>a, <3>1, <3>2 DEF SilentSoFar, Outcome, Working
    <3>4. QED
      BY <1>a, <2>3, <2>4, <3>3
  <2>11. QED
    BY <2>2, <2>5, <2>6, <2>7, <2>8, <2>9, <2>10
<1>7. CASE \E t \in Turns : Age(t)
  <2>1. PICK t \in Turns : Age(t)
    BY <1>7
  <2>2. /\ Len(turns') = Len(turns)
        /\ turns'[t].status = turns[t].status /\ turns'[t].content = turns[t].content
        /\ \A u \in Turns : u # t => turns'[u] = turns[u]
        /\ UNCHANGED <<exists, asking, stream, document, shown, overrun>>
    BY <1>a, <2>1, AgeEffect
  <2>3. Turns' = Turns
    BY <2>2 DEF Turns
  <2>4. ASSUME NEW u \in Turns PROVE Outcome(u)' /\ Final(u)
    BY <1>0, <2>2 DEF Outcome
  <2>5. QED
    BY <1>b, <2>2, <2>3, <2>4
<1>8. CASE \E d \in Documents : DocumentDeleted(d)
  BY <1>8, <1>b, <1>c DEF DocumentDeleted
<1>9. CASE \E d \in Documents : PurgeDocument(d)
  <2>1. PICK d \in Documents : PurgeDocument(d)
    BY <1>9
  <2>2. /\ Len(turns') = Len(turns)
        /\ \A t \in Turns : /\ turns'[t].status = turns[t].status
                            /\ turns'[t].content = turns[t].content
        /\ UNCHANGED <<exists, asking, stream, shown, overrun>>
    BY <1>a, <2>1, PurgeEffect
  <2>3. Turns' = Turns
    BY <2>2 DEF Turns
  <2>4. ASSUME NEW u \in Turns PROVE Outcome(u)' /\ Final(u)
    BY <1>0, <2>2 DEF Outcome
  <2>5. QED
    BY <1>b, <2>2, <2>3, <2>4
<1>10. QED
  BY <1>1, <1>2, <1>3, <1>4, <1>5, <1>6, <1>7, <1>8, <1>9, NextCases

LEMMA OutcomeAlways == Spec => []OutcomeInv
<1>1. Init => OutcomeInv
  BY InitOutcome
<1>2. Structure /\ OutcomeInv /\ [Next]_vars => OutcomeInv'
  BY NextOutcome
<1>3. QED
  BY <1>1, <1>2, StructureAlways, PTL DEF Spec

(* What was released to the client stays the answer of the Conversation.   *)
THEOREM ReleasedIsKept == Spec => []ShownIsKept
<1>1. OutcomeInv => ShownIsKept
  BY DEF OutcomeInv, ShownIsKept
<1>2. QED
  BY <1>1, OutcomeAlways, PTL

(* No step rewrites an outcome, unless its turn was recovered while its    *)
(* stream was alive.                                                       *)
THEOREM OutcomesAreFinal == Spec => OutcomeIsFinal
<1>1. Structure /\ OutcomeInv /\ [Next]_vars =>
        [\A t \in Turns : exists' /\ t \notin overrun' /\ turns[t].status # "streaming" =>
           turns'[t].status = turns[t].status /\ turns'[t].content = turns[t].content]_vars
  BY NextOutcome
<1>2. QED
  BY <1>1, StructureAlways, OutcomeAlways, PTL DEF Spec, OutcomeIsFinal
=============================================================================
