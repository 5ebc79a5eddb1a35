--------------------------- MODULE ResumableFile ---------------------------
(***************************************************************************)
(* What a client is promised of resumable uploads: the bytes confirmed to  *)
(* it grow by one part at a time while the session is open, and a session  *)
(* never reopens; a Document is made at most once of a session, in the     *)
(* step that closes it, of exactly the bytes that were confirmed, if they  *)
(* are the declared ones; its original is not touched until the Document   *)
(* is deleted.  A Document made by a completion that was not told of its   *)
(* success is loose: nothing is promised of its original.                  *)
(***************************************************************************)
EXTENDS Naturals, Sequences

CONSTANTS
  Uploads,   \* identities of sessions
  Bytes,     \* bytes of a part
  Declared,  \* the parts of a file with the declared SHA-256
  None       \* no original

VARIABLES
  life,      \* "absent", "open" or "over"
  received,  \* bytes of the parts confirmed to the client
  original,  \* bytes of the Document made of the session, or None
  loose      \* sessions with a Document that may lose its original

vars == <<life, received, original, loose>>

Init ==
  /\ life = [u \in Uploads |-> "absent"]
  /\ received = [u \in Uploads |-> <<>>]
  /\ original = [u \in Uploads |-> None]
  /\ loose = {}

Open(u) ==
  /\ life[u] = "absent"
  /\ life' = [life EXCEPT ![u] = "open"]
  /\ UNCHANGED <<received, original, loose>>

Receive(u, b) ==
  /\ life[u] = "open"
  /\ Len(received[u]) < Len(Declared)
  /\ received' = [received EXCEPT ![u] = Append(@, b)]
  /\ UNCHANGED <<life, original, loose>>

Keep(u) ==
  /\ life[u] = "open"
  /\ received[u] = Declared
  /\ life' = [life EXCEPT ![u] = "over"]
  /\ \/ original' = [original EXCEPT ![u] = received[u]] /\ UNCHANGED loose
     \/ loose' = loose \union {u} /\ UNCHANGED original
  /\ UNCHANGED received

(* Sessions are cancelled, fail or expire, several in one transaction of a *)
(* sweep; their Documents stay.                                            *)
Close(S) ==
  /\ \A u \in S : life[u] # "absent"
  /\ life' = [u \in Uploads |-> IF u \in S THEN "over" ELSE life[u]]
  /\ received' = [u \in Uploads |-> IF u \in S THEN <<>> ELSE received[u]]
  /\ UNCHANGED <<original, loose>>

(* The Document is deleted. *)
Delete(u) ==
  /\ original[u] # None \/ u \in loose
  /\ original' = [original EXCEPT ![u] = None]
  /\ loose' = loose \ {u}
  /\ UNCHANGED <<life, received>>

Next ==
  \/ \E u \in Uploads : Open(u) \/ Keep(u) \/ Delete(u) \/ \E b \in Bytes : Receive(u, b)
  \/ \E S \in SUBSET Uploads : Close(S)

Spec == Init /\ [][Next]_vars
=============================================================================
