------------------------------ MODULE Accounts ------------------------------
(***************************************************************************)
(* Accounts, their sessions and the counter of failed sign-ins.            *)
(*                                                                         *)
(* No handler locks what it reads: each reads rows or counts them, decides,*)
(* and writes the columns it changed, with values computed from what it    *)
(* read. A session is a signed cookie that names a user and a version; it  *)
(* is good as long as the row of the user has that version.                *)
(***************************************************************************)
EXTENDS Naturals, FiniteSets

CONSTANTS
  Users,
  Requests,        \* administration requests at the same time
  Logins,          \* sign-ins at the same time, from one client
  AttemptLimit,    \* login_attempt_limit
  MaxWrites,       \* bound: administration requests that change an account
  MaxLogins,       \* bound: sign-ins
  None

ASSUME AccountsAssumption ==
  /\ IsFiniteSet(Logins) /\ AttemptLimit \in Nat \ {0}
  /\ MaxWrites \in Nat /\ MaxLogins \in Nat

VARIABLES
  user,      \* the rows of the users
  request,   \* where each administration request is
  login,     \* where each sign-in is
  tokens,    \* session cookies issued
  attempts,  \* the Redis counter of failed sign-ins of each user
  writes,    \* account changes requested
  logins,    \* sign-ins begun
  epoch,     \* history: how often the sessions of each user were revoked
  raced,     \* history: users written by two requests that read the same row
  overlapped \* history: two requests removed Administrators at the same time

vars == <<user, request, login, tokens, attempts, writes, logins, epoch, raced,
          overlapped>>

-----------------------------------------------------------------------------
(* Vocabulary. *)

Rows == [admin : BOOLEAN, enabled : BOOLEAN, version : Nat \ {0}]
NoUser == [admin |-> FALSE, enabled |-> FALSE, version |-> 0]
FirstRow == [admin |-> TRUE, enabled |-> TRUE, version |-> 1]

(* The flags that a UserUpdate sets and those it clears, possibly both or none *)
(* of them; a PasswordReset leaves them alone.                                 *)
Flags == {"admin", "enabled"}
Reset == [on |-> {}, off |-> {}, password |-> TRUE]
Changes ==
  {c \in [on : SUBSET Flags, off : SUBSET Flags, password : {FALSE}] : c.on \cap c.off = {}}
    \cup {Reset}

RequestSteps == {"idle", "read", "decided"}
NoRequest == [step |-> "idle", target |-> None, change |-> None, row |-> None,
              removes |-> FALSE, behind |-> FALSE, overtaken |-> FALSE]

LoginSteps == {"idle", "allowed", "refused", "verified"}
NoLogin == [step |-> "idle", target |-> None, version |-> 0, epoch |-> 0]

Administrators == {u \in Users : user[u] # NoUser /\ user[u].admin /\ user[u].enabled}

(* The part of a change that the row does not have yet. *)
Differing(row, change) ==
  [change EXCEPT !.on = {f \in @ : ~row[f]}, !.off = {f \in @ : row[f]}]
Changed(row, change) ==
  [row EXCEPT !.admin = (@ \/ "admin" \in change.on) /\ "admin" \notin change.off,
              !.enabled = (@ \/ "enabled" \in change.on) /\ "enabled" \notin change.off]

Init ==
  /\ user \in [Users -> {NoUser, FirstRow}] /\ \E u \in Users : user[u] = FirstRow
  /\ request = [r \in Requests |-> NoRequest]
  /\ login = [l \in Logins |-> NoLogin]
  /\ tokens = {}
  /\ attempts = [u \in Users |-> 0]
  /\ writes = 0 /\ logins = 0
  /\ epoch = [u \in Users |-> 0]
  /\ raced = {} /\ overlapped = FALSE

-----------------------------------------------------------------------------
(* Administration of users. *)

CreateUser(u, admin) ==
  /\ user[u] = NoUser /\ Administrators # {}
  /\ user' = [user EXCEPT ![u] = [admin |-> admin, enabled |-> TRUE, version |-> 1]]
  /\ UNCHANGED <<request, login, tokens, attempts, writes, logins, epoch, raced,
                 overlapped>>

(* An enabled Administrator asks; the row of the target is read. *)
ReadTarget(r, u, change) ==
  /\ request[r].step = "idle" /\ writes < MaxWrites /\ Administrators # {}
  /\ user[u] # NoUser
  /\ request' = [request EXCEPT ![r] =
       [NoRequest EXCEPT !.step = "read", !.target = u, !.change = change,
                         !.row = user[u]]]
  /\ writes' = writes + 1
  /\ UNCHANGED <<user, login, tokens, attempts, logins, epoch, raced, overlapped>>

(* protect_last_administrator. *)
Removes(r) == request[r].row.admin /\ request[r].change.off # {}
MayGoIfAny(r) == Removes(r) => Cardinality(Administrators) > 0  \* Mutant of MayGo
MayGo(r) == Removes(r) => Cardinality(Administrators) > 1

Decide(r) ==
  /\ request[r].step = "read"
  /\ request' = [request EXCEPT ![r] =
       IF MayGo(r) THEN [@ EXCEPT !.step = "decided", !.removes = Removes(r)]
       ELSE NoRequest]
  /\ UNCHANGED <<user, login, tokens, attempts, writes, logins, epoch, raced,
                 overlapped>>

(* Only what differs from the row that was read is written, and the        *)
(* version is one more than the version read.                              *)
Revokes(row, change) ==
  LET new == Differing(row, change) IN
  change.password \/ "admin" \in new.on \/ new.off # {}

WrittenKeeping(now, row, change) ==  \* Mutant of Written: the version stays
  Changed(now, Differing(row, change))
Written(now, row, change) ==
  LET changed == Changed(now, Differing(row, change))
  IN IF Revokes(row, change) THEN [changed EXCEPT !.version = row.version + 1] ELSE changed

Commit(r) ==
  LET u == request[r].target
      row == request[r].row
      change == request[r].change
      others == {q \in Requests \ {r} : request[q].step # "idle"}
      becomes == Written(user[u], row, change)
      fewer == u \in Administrators /\ ~(becomes.admin /\ becomes.enabled)
  IN
  /\ request[r].step = "decided"
  /\ user' = [user EXCEPT ![u] = becomes]
  /\ epoch' = IF Revokes(row, change) THEN [epoch EXCEPT ![u] = @ + 1] ELSE epoch
  /\ raced' = IF request[r].behind THEN raced \cup {u} ELSE raced
  /\ overlapped' = (overlapped \/ (fewer /\ request[r].overtaken))
  /\ request' = [q \in Requests |->
       IF q = r THEN NoRequest
       ELSE IF q \in others
            THEN [request[q] EXCEPT !.behind = @ \/ request[q].target = u,
                                    !.overtaken = @ \/ fewer]
            ELSE request[q]]
  /\ UNCHANGED <<login, tokens, attempts, writes, logins>>

-----------------------------------------------------------------------------
(* Sign-in, and the counter of failures, which expires as a whole.         *)

AllowedOneMore(u) == attempts[u] <= AttemptLimit  \* Mutant of Allowed
Allowed(u) == attempts[u] < AttemptLimit

(* ensure_allowed reads the counter; no answer from Redis is a refusal. *)
EnsureAllowed(l, u) ==
  /\ login[l].step = "idle" /\ logins < MaxLogins /\ Allowed(u)
  /\ logins' = logins + 1
  /\ login' = [login EXCEPT ![l] = [NoLogin EXCEPT !.step = "allowed", !.target = u]]
  /\ UNCHANGED <<user, request, tokens, attempts, writes, epoch, raced, overlapped>>

(* The row is read once: its hash, its flag and its version belong together.*)
Verify(l, correct) ==
  LET u == login[l].target
      good == correct /\ user[u] # NoUser /\ user[u].enabled
  IN
  /\ login[l].step = "allowed"
  /\ login' = [login EXCEPT ![l] =
       IF good THEN [@ EXCEPT !.step = "verified", !.version = user[u].version,
                              !.epoch = epoch[u]]
       ELSE [@ EXCEPT !.step = "refused"]]
  /\ UNCHANGED <<user, request, tokens, attempts, writes, logins, epoch, raced,
                 overlapped>>

(* record_failure, which answers 503 when Redis is away. *)
RecordFailure(l) ==
  /\ login[l].step = "refused"
  /\ \/ attempts' = [attempts EXCEPT ![login[l].target] = @ + 1]
     \/ UNCHANGED attempts
  /\ login' = [login EXCEPT ![l] = NoLogin]
  /\ UNCHANGED <<user, request, tokens, writes, logins, epoch, raced, overlapped>>

(* The counter is cleared if Redis answers, and the cookie carries the     *)
(* version read before.                                                    *)
VersionSeen(l) == login[l].version

Issue(l) ==
  LET u == login[l].target IN
  /\ login[l].step = "verified"
  /\ \/ attempts' = [attempts EXCEPT ![u] = 0]
     \/ UNCHANGED attempts
  /\ tokens' = tokens \cup {[user |-> u, version |-> VersionSeen(l), epoch |-> login[l].epoch]}
  /\ login' = [login EXCEPT ![l] = NoLogin]
  /\ UNCHANGED <<user, request, writes, logins, epoch, raced, overlapped>>

WindowEnds(u) ==
  /\ attempts[u] > 0
  /\ attempts' = [attempts EXCEPT ![u] = 0]
  /\ UNCHANGED <<user, request, login, tokens, writes, logins, epoch, raced, overlapped>>

(* get_current_user. *)
Accepts(t) ==
  user[t.user] # NoUser /\ user[t.user].enabled /\ user[t.user].version = t.version

-----------------------------------------------------------------------------
Next ==
  \/ \E u \in Users, admin \in BOOLEAN : CreateUser(u, admin)
  \/ \E r \in Requests :
       \/ \E u \in Users, change \in Changes : ReadTarget(r, u, change)
       \/ Decide(r) \/ Commit(r)
  \/ \E l \in Logins :
       \/ \E u \in Users : EnsureAllowed(l, u)
       \/ \E correct \in BOOLEAN : Verify(l, correct)
       \/ RecordFailure(l) \/ Issue(l)
  \/ \E u \in Users : WindowEnds(u)

Spec == Init /\ [][Next]_vars

-----------------------------------------------------------------------------
(* Properties. *)

(* Types of the rows, the requests, the sign-ins and the cookies. *)
TypeOK ==
  /\ user \in [Users -> Rows \cup {NoUser}]
  /\ request \in [Requests ->
       [step : RequestSteps, target : Users \cup {None}, change : Changes \cup {None},
        row : Rows \cup {None}, removes : BOOLEAN, behind : BOOLEAN,
        overtaken : BOOLEAN]]
  /\ login \in [Logins -> [step : LoginSteps, target : Users \cup {None},
                           version : Nat, epoch : Nat]]
  /\ tokens \subseteq [user : Users, version : Nat, epoch : Nat]
  /\ attempts \in [Users -> Nat]
  /\ writes \in 0..MaxWrites /\ logins \in 0..MaxLogins
  /\ epoch \in [Users -> Nat]
  /\ raced \subseteq Users /\ overlapped \in BOOLEAN

(* Somebody can always administer the Installation: the last enabled       *)
(* Administrator is neither disabled nor demoted, through any sequence of  *)
(* requests, as long as no two of them remove Administrators at once.      *)
AdministratorRemains == Administrators # {} \/ overlapped

(* A cookie that is accepted was issued after the last reset, demotion,    *)
(* promotion or disabling of its user, even if the sign-in was under way   *)
(* at that time; two requests that read the same row excepted, which may   *)
(* write the same version twice.                                           *)
RevokedStaysRevoked ==
  \A t \in tokens : Accepts(t) => t.epoch = epoch[t.user] \/ t.user \in raced

(* The counter is read before it is incremented, so parallel sign-ins can  *)
(* go past the limit, but by no more than the others under way.            *)
AttemptsAreLimited ==
  \A u \in Users : attempts[u] < AttemptLimit + Cardinality(Logins)
=============================================================================
