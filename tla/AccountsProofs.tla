--------------------------- MODULE AccountsProofs ---------------------------
(***************************************************************************)
(* What holds of Accounts for any number of users, requests and sign-ins.  *)
(***************************************************************************)
EXTENDS Accounts, FiniteSetTheorems, TLAPS

(* A request or a sign-in under way names a user, and a request has read   *)
(* the row of one; rows are never deleted.                                 *)
Shape ==
  /\ TypeOK
  /\ \A r \in Requests : request[r].step # "idle" =>
       /\ request[r].target \in Users /\ request[r].change \in Changes
       /\ request[r].row \in Rows /\ user[request[r].target] # NoUser
  /\ \A l \in Logins : login[l].step # "idle" => login[l].target \in Users

(* A request that no removal has overtaken leaves an Administrator besides *)
(* its target, if it could take the target's place away.                   *)
AdministratorInv ==
  /\ overlapped \/ Administrators # {}
  /\ \A r \in Requests : request[r].step # "idle" /\ ~request[r].overtaken =>
       \/ request[r].row.admin /\ request[r].row.enabled
       \/ Administrators \ {request[r].target} # {}
  /\ \A r \in Requests :
       request[r].step = "decided" /\ ~request[r].overtaken /\ Removes(r) =>
         Administrators \ {request[r].target} # {}

(* Until two requests write one row from the same reading, the version of  *)
(* an account counts its revocations.                                      *)
VersionInv ==
  /\ \A u \in Users : user[u] = NoUser => epoch[u] = 0
  /\ \A u \in Users \ raced : user[u] # NoUser => user[u].version = epoch[u] + 1
  /\ \A r \in Requests : request[r].step # "idle" /\ ~request[r].behind =>
       request[r].row = user[request[r].target]
  /\ \A l \in Logins : login[l].step = "verified" /\ login[l].target \notin raced =>
       login[l].version = login[l].epoch + 1
  /\ \A t \in tokens : t.user \notin raced => t.version = t.epoch + 1

(* A sign-in under way has been allowed an attempt, recorded or not.       *)
InFlight(u) == {l \in Logins : login[l].step # "idle" /\ login[l].target = u}

AttemptInv ==
  \A u \in Users :
    attempts[u] + Cardinality(InFlight(u)) <= AttemptLimit - 1 + Cardinality(Logins)

-----------------------------------------------------------------------------
(* What a commit makes of a row. *)

LEMMA ChangedType ==
  ASSUME NEW now \in Rows, NEW row \in Rows, NEW change \in Changes
  PROVE  LET changed == Changed(now, Differing(row, change))
         IN  /\ changed \in Rows /\ changed.version = now.version
             /\ now.admin /\ now.enabled /\ ~(changed.admin /\ changed.enabled)
                  => change.off # {}
BY DEF Changed, Differing, Rows, Changes, Reset, Flags

LEMMA WrittenType ==
  ASSUME NEW now \in Rows, NEW row \in Rows, NEW change \in Changes
  PROVE  Written(now, row, change) \in Rows
<1> DEFINE changed == Changed(now, Differing(row, change))
<1>1. changed \in Rows
  BY ChangedType
<1>2. Written(now, row, change) =
        IF Revokes(row, change) THEN [changed EXCEPT !.version = row.version + 1] ELSE changed
  BY DEF Written
<1> HIDE DEF changed
<1>3. row.version + 1 \in Nat \ {0}
  BY DEF Rows
<1>4. [changed EXCEPT !.version = row.version + 1] \in Rows
  BY <1>1, <1>3 DEF Rows
<1>5. QED
  BY <1>1, <1>2, <1>4

LEMMA WrittenVersion ==
  ASSUME NEW now \in Rows, NEW row \in Rows, NEW change \in Changes
  PROVE  Written(now, row, change).version =
           IF Revokes(row, change) THEN row.version + 1 ELSE now.version
<1> DEFINE changed == Changed(now, Differing(row, change))
<1>1. changed \in Rows /\ changed.version = now.version
  BY ChangedType
<1>2. Written(now, row, change) =
        IF Revokes(row, change) THEN [changed EXCEPT !.version = row.version + 1] ELSE changed
  BY DEF Written
<1> HIDE DEF changed
<1>3. [changed EXCEPT !.version = row.version + 1].version = row.version + 1
  BY <1>1 DEF Rows
<1>4. QED
  BY <1>1, <1>2, <1>3

(* Only taking a flag away can end an enabled Administrator. *)
LEMMA WrittenFlags ==
  ASSUME NEW now \in Rows, NEW row \in Rows, NEW change \in Changes,
         now.admin, now.enabled,
         ~(Written(now, row, change).admin /\ Written(now, row, change).enabled)
  PROVE  change.off # {}
<1> DEFINE changed == Changed(now, Differing(row, change))
<1>1. changed \in Rows
  BY ChangedType
<1>2. Written(now, row, change) =
        IF Revokes(row, change) THEN [changed EXCEPT !.version = row.version + 1] ELSE changed
  BY DEF Written
<1>3. ~(changed.admin /\ changed.enabled) => change.off # {}
  BY ChangedType
<1> HIDE DEF changed
<1>4. /\ [changed EXCEPT !.version = row.version + 1].admin = changed.admin
      /\ [changed EXCEPT !.version = row.version + 1].enabled = changed.enabled
  BY <1>1 DEF Rows
<1>5. QED
  BY <1>2, <1>3, <1>4

LEMMA ConstantTypes ==
  /\ NoRequest \in [step : RequestSteps, target : Users \cup {None},
                    change : Changes \cup {None}, row : Rows \cup {None},
                    removes : BOOLEAN, behind : BOOLEAN, overtaken : BOOLEAN]
  /\ NoRequest.step = "idle"
  /\ NoLogin \in [step : LoginSteps, target : Users \cup {None}, version : Nat, epoch : Nat]
  /\ NoLogin.step = "idle"
  /\ FirstRow \in Rows /\ FirstRow # NoUser /\ NoUser \notin Rows
BY DEF NoRequest, RequestSteps, NoLogin, LoginSteps, FirstRow, NoUser, Rows

-----------------------------------------------------------------------------
(* The steps. *)

OnlyRequest(r) ==
  /\ request' \in [Requests -> [step : RequestSteps, target : Users \cup {None},
                                change : Changes \cup {None}, row : Rows \cup {None},
                                removes : BOOLEAN, behind : BOOLEAN, overtaken : BOOLEAN]]
  /\ \A q \in Requests : q # r => request'[q] = request[q]

OnlyLogin(l) ==
  /\ login' \in [Logins -> [step : LoginSteps, target : Users \cup {None},
                            version : Nat, epoch : Nat]]
  /\ \A m \in Logins : m # l => login'[m] = login[m]

LEMMA CreateUserEffect ==
  ASSUME Shape, NEW u \in Users, NEW admin \in BOOLEAN, CreateUser(u, admin)
  PROVE  /\ user' \in [Users -> Rows \cup {NoUser}]
         /\ user[u] = NoUser /\ user'[u] # NoUser /\ user'[u].version = 1
         /\ user'[u] \in Rows
         /\ \A v \in Users : v # u => user'[v] = user[v]
         /\ UNCHANGED <<request, login, tokens, attempts, writes, logins, epoch, raced,
                        overlapped>>
<1> DEFINE row == [admin |-> admin, enabled |-> TRUE, version |-> 1]
<1>1. row \in Rows /\ row # NoUser /\ row.version = 1
  BY DEF Rows, NoUser
<1>2. user' = [user EXCEPT ![u] = row] /\ user \in [Users -> Rows \cup {NoUser}]
  BY DEF CreateUser, Shape, TypeOK
<1> HIDE DEF row
<1>3. QED
  BY <1>1, <1>2 DEF CreateUser

LEMMA ReadTargetEffect ==
  ASSUME Shape, NEW r \in Requests, NEW u \in Users, NEW change \in Changes,
         ReadTarget(r, u, change)
  PROVE  /\ OnlyRequest(r) /\ request[r].step = "idle"
         /\ request'[r].step = "read" /\ request'[r].target = u
         /\ request'[r].change = change /\ request'[r].row = user[u]
         /\ request'[r].behind = FALSE /\ request'[r].overtaken = FALSE
         /\ user[u] # NoUser /\ user[u] \in Rows /\ Administrators # {}
         /\ writes' \in 0..MaxWrites
         /\ UNCHANGED <<user, login, tokens, attempts, logins, epoch, raced, overlapped>>
<1> DEFINE new == [NoRequest EXCEPT !.step = "read", !.target = u, !.change = change,
                                    !.row = user[u]]
<1>1. user[u] # NoUser /\ user[u] \in Rows
  BY DEF ReadTarget, Shape, TypeOK
<1>2. /\ new \in [step : RequestSteps, target : Users \cup {None},
                  change : Changes \cup {None}, row : Rows \cup {None},
                  removes : BOOLEAN, behind : BOOLEAN, overtaken : BOOLEAN]
      /\ new.step = "read" /\ new.target = u /\ new.change = change
      /\ new.row = user[u] /\ new.behind = FALSE /\ new.overtaken = FALSE
  BY <1>1 DEF NoRequest, RequestSteps
<1>3. request' = [request EXCEPT ![r] = new]
  BY DEF ReadTarget
<1> HIDE DEF new
<1>4. writes' \in 0..MaxWrites
  BY AccountsAssumption DEF ReadTarget, Shape, TypeOK
<1>5. request \in [Requests -> [step : RequestSteps, target : Users \cup {None},
                               change : Changes \cup {None}, row : Rows \cup {None},
                               removes : BOOLEAN, behind : BOOLEAN, overtaken : BOOLEAN]]
  BY DEF Shape, TypeOK
<1>6. OnlyRequest(r) /\ request'[r] = new
  BY <1>2, <1>3, <1>5 DEF OnlyRequest
<1>7. QED
  BY <1>1, <1>2, <1>4, <1>6 DEF ReadTarget

LEMMA DecideEffect ==
  ASSUME Shape, NEW r \in Requests, Decide(r)
  PROVE  /\ OnlyRequest(r) /\ request[r].step = "read"
         /\ \/ request'[r].step = "idle"
            \/ /\ MayGo(r) /\ request'[r].step = "decided"
               /\ request'[r].target = request[r].target
               /\ request'[r].change = request[r].change
               /\ request'[r].row = request[r].row
               /\ request'[r].behind = request[r].behind
               /\ request'[r].overtaken = request[r].overtaken
         /\ UNCHANGED <<user, login, tokens, attempts, writes, logins, epoch, raced, overlapped>>
<1>1. request[r] \in [step : RequestSteps, target : Users \cup {None},
                      change : Changes \cup {None}, row : Rows \cup {None},
                      removes : BOOLEAN, behind : BOOLEAN, overtaken : BOOLEAN]
  BY DEF Shape, TypeOK
<1> DEFINE new == [request[r] EXCEPT !.step = "decided", !.removes = Removes(r)]
<1>2. Removes(r) \in BOOLEAN
  BY DEF Removes
<1>3. /\ new \in [step : RequestSteps, target : Users \cup {None},
                  change : Changes \cup {None}, row : Rows \cup {None},
                  removes : BOOLEAN, behind : BOOLEAN, overtaken : BOOLEAN]
      /\ new.step = "decided" /\ new.target = request[r].target
      /\ new.change = request[r].change /\ new.row = request[r].row
      /\ new.behind = request[r].behind /\ new.overtaken = request[r].overtaken
  BY <1>1, <1>2 DEF RequestSteps
<1>4. request' = [request EXCEPT ![r] = IF MayGo(r) THEN new ELSE NoRequest]
  BY DEF Decide
<1> HIDE DEF new
<1>5. QED
  BY <1>3, <1>4, ConstantTypes DEF Decide, OnlyRequest, Shape, TypeOK

(* What a commit does to its target and to the other requests. *)
Fewer(r) ==
  /\ request[r].target \in Administrators
  /\ ~(user'[request[r].target].admin /\ user'[request[r].target].enabled)

LEMMA CommitEffect ==
  ASSUME Shape, NEW r \in Requests, Commit(r)
  PROVE  /\ request[r].step = "decided" /\ request'[r].step = "idle"
         /\ request' \in [Requests -> [step : RequestSteps, target : Users \cup {None},
                                       change : Changes \cup {None}, row : Rows \cup {None},
                                       removes : BOOLEAN, behind : BOOLEAN,
                                       overtaken : BOOLEAN]]
         /\ \A q \in Requests : q # r =>
              /\ request'[q].step = request[q].step
              /\ request'[q].target = request[q].target
              /\ request'[q].change = request[q].change
              /\ request'[q].row = request[q].row
              /\ request[q].step # "idle" /\ ~request'[q].behind =>
                   ~request[q].behind /\ request[q].target # request[r].target
              /\ request[q].step # "idle" /\ ~request'[q].overtaken =>
                   ~request[q].overtaken /\ ~Fewer(r)
         /\ user' \in [Users -> Rows \cup {NoUser}]
         /\ user'[request[r].target]
              = Written(user[request[r].target], request[r].row, request[r].change)
         /\ \A v \in Users : v # request[r].target => user'[v] = user[v]
         /\ user'[request[r].target] \in Rows
         /\ overlapped' = (overlapped \/ (Fewer(r) /\ request[r].overtaken))
         /\ epoch' = (IF Revokes(request[r].row, request[r].change)
                      THEN [epoch EXCEPT ![request[r].target] = @ + 1] ELSE epoch)
         /\ raced' = (IF request[r].behind THEN raced \cup {request[r].target} ELSE raced)
         /\ UNCHANGED <<login, tokens, attempts, writes, logins>>
<1> DEFINE u == request[r].target
           becomes == Written(user[u], request[r].row, request[r].change)
           fewer == u \in Administrators /\ ~(becomes.admin /\ becomes.enabled)
           Kind == [step : RequestSteps, target : Users \cup {None},
                    change : Changes \cup {None}, row : Rows \cup {None},
                    removes : BOOLEAN, behind : BOOLEAN, overtaken : BOOLEAN]
           overtake(q) == [request[q] EXCEPT !.behind = @ \/ request[q].target = u,
                                             !.overtaken = @ \/ fewer]
<1>1. request[r].step = "decided"
  BY DEF Commit
<1>2. /\ u \in Users /\ request[r].change \in Changes /\ request[r].row \in Rows
      /\ user[u] \in Rows /\ user \in [Users -> Rows \cup {NoUser}]
      /\ request \in [Requests -> Kind]
  BY <1>1 DEF Shape, TypeOK
<1>3. becomes \in Rows
  BY <1>2, WrittenType
<1>4. user' = [user EXCEPT ![u] = becomes]
  BY DEF Commit
<1>5. /\ user' \in [Users -> Rows \cup {NoUser}] /\ user'[u] = becomes
      /\ \A v \in Users : v # u => user'[v] = user[v]
  BY <1>2, <1>3, <1>4
<1>6. fewer <=> Fewer(r)
  BY <1>5 DEF Fewer
<1>7. request' = [q \in Requests |->
                    IF q = r THEN NoRequest
                    ELSE IF request[q].step # "idle" THEN overtake(q) ELSE request[q]]
  BY DEF Commit
<1>8. ASSUME NEW q \in Requests
      PROVE  /\ overtake(q) \in Kind
             /\ overtake(q).step = request[q].step
             /\ overtake(q).target = request[q].target
             /\ overtake(q).change = request[q].change
             /\ overtake(q).row = request[q].row
             /\ ~overtake(q).behind => ~request[q].behind /\ request[q].target # u
             /\ ~overtake(q).overtaken => ~request[q].overtaken /\ ~fewer
  <2>1. request[q] \in Kind
    BY <1>2
  <2>2. (request[q].behind \/ request[q].target = u) \in BOOLEAN
        /\ (request[q].overtaken \/ fewer) \in BOOLEAN
    OBVIOUS
  <2>3. overtake(q) = [request[q] EXCEPT !.behind = (request[q].behind \/ request[q].target = u),
                                         !.overtaken = (request[q].overtaken \/ fewer)]
    BY <2>1
  <2> HIDE DEF fewer
  <2>4. QED
    BY <2>1, <2>2, <2>3
<1> HIDE DEF overtake
<1>9. /\ request' \in [Requests -> Kind] /\ request'[r] = NoRequest
      /\ \A q \in Requests : q # r =>
           request'[q] = IF request[q].step # "idle" THEN overtake(q) ELSE request[q]
  BY <1>2, <1>7, <1>8, ConstantTypes
<1>10. overlapped' = (overlapped \/ (fewer /\ request[r].overtaken))
  BY DEF Commit
<1>11. /\ epoch' = (IF Revokes(request[r].row, request[r].change)
                    THEN [epoch EXCEPT ![u] = @ + 1] ELSE epoch)
       /\ raced' = (IF request[r].behind THEN raced \cup {u} ELSE raced)
       /\ UNCHANGED <<login, tokens, attempts, writes, logins>>
  BY DEF Commit
<1> HIDE DEF becomes, fewer, Kind
<1>12. QED
  BY <1>1, <1>3, <1>5, <1>6, <1>8, <1>9, <1>10, <1>11, ConstantTypes DEF becomes, Kind

(* The steps of a sign-in leave the accounts and the requests alone. *)
Unconcerned == UNCHANGED <<user, request, writes, epoch, raced, overlapped>>

LEMMA SignInEffect ==
  ASSUME Shape, NEW l \in Logins
  PROVE  /\ \A u \in Users : EnsureAllowed(l, u) =>
              /\ OnlyLogin(l) /\ Unconcerned /\ UNCHANGED <<tokens, attempts>>
              /\ logins' \in 0..MaxLogins /\ Allowed(u)
              /\ login[l].step = "idle" /\ login'[l].step = "allowed"
              /\ login'[l].target = u
         /\ \A correct \in BOOLEAN : Verify(l, correct) =>
              /\ OnlyLogin(l) /\ Unconcerned /\ UNCHANGED <<tokens, attempts, logins>>
              /\ login[l].step = "allowed" /\ login'[l].target = login[l].target
              /\ \/ login'[l].step = "refused"
                 \/ /\ login'[l].step = "verified" /\ user[login[l].target] # NoUser
                    /\ login'[l].version = user[login[l].target].version
                    /\ login'[l].epoch = epoch[login[l].target]
         /\ RecordFailure(l) =>
              /\ OnlyLogin(l) /\ Unconcerned /\ UNCHANGED <<tokens, logins>>
              /\ login[l].step = "refused" /\ login'[l].step = "idle"
              /\ \/ attempts' = [attempts EXCEPT ![login[l].target] = @ + 1]
                 \/ attempts' = attempts
         /\ Issue(l) =>
              /\ OnlyLogin(l) /\ Unconcerned /\ logins' = logins
              /\ login[l].step = "verified" /\ login'[l].step = "idle"
              /\ \/ attempts' = [attempts EXCEPT ![login[l].target] = 0]
                 \/ attempts' = attempts
              /\ tokens' = tokens \cup {[user |-> login[l].target,
                                         version |-> login[l].version,
                                         epoch |-> login[l].epoch]}
<1> DEFINE Kind == [step : LoginSteps, target : Users \cup {None},
                    version : Nat, epoch : Nat]
<1>1. login \in [Logins -> Kind] /\ login[l] \in Kind
  BY DEF Shape, TypeOK
<1>2. ASSUME NEW new \in Kind, login' = [login EXCEPT ![l] = new]
      PROVE  OnlyLogin(l) /\ login'[l] = new
  BY <1>1, <1>2 DEF OnlyLogin
<1>3. ASSUME NEW u \in Users, EnsureAllowed(l, u)
      PROVE  /\ OnlyLogin(l) /\ Unconcerned /\ UNCHANGED <<tokens, attempts>>
             /\ logins' \in 0..MaxLogins /\ Allowed(u)
             /\ login[l].step = "idle" /\ login'[l].step = "allowed"
             /\ login'[l].target = u
  <2> DEFINE new == [NoLogin EXCEPT !.step = "allowed", !.target = u]
  <2>1. new \in Kind /\ new.step = "allowed" /\ new.target = u
    BY DEF NoLogin, LoginSteps
  <2>2. login' = [login EXCEPT ![l] = new]
    BY <1>3 DEF EnsureAllowed
  <2>3. logins' \in 0..MaxLogins
    BY <1>3, AccountsAssumption DEF EnsureAllowed, Shape, TypeOK
  <2> HIDE DEF new, Kind
  <2>4. QED
    BY <1>2, <1>3, <2>1, <2>2, <2>3 DEF EnsureAllowed, Unconcerned
<1>4. ASSUME NEW correct \in BOOLEAN, Verify(l, correct)
      PROVE  /\ OnlyLogin(l) /\ Unconcerned /\ UNCHANGED <<tokens, attempts, logins>>
             /\ login[l].step = "allowed" /\ login'[l].target = login[l].target
             /\ \/ login'[l].step = "refused"
                \/ /\ login'[l].step = "verified" /\ user[login[l].target] # NoUser
                   /\ login'[l].version = user[login[l].target].version
                   /\ login'[l].epoch = epoch[login[l].target]
  <2> DEFINE u == login[l].target
             good == correct /\ user[u] # NoUser /\ user[u].enabled
             yes == [login[l] EXCEPT !.step = "verified", !.version = user[u].version,
                                     !.epoch = epoch[u]]
             no == [login[l] EXCEPT !.step = "refused"]
  <2>1. login[l].step = "allowed" /\ u \in Users
    BY <1>4 DEF Verify, Shape
  <2>2. good => user[u].version \in Nat /\ epoch[u] \in Nat
    BY <2>1 DEF Shape, TypeOK, Rows
  <2>3. good => /\ yes \in Kind /\ yes.step = "verified" /\ yes.target = u
                /\ yes.version = user[u].version /\ yes.epoch = epoch[u]
    BY <1>1, <2>2 DEF LoginSteps
  <2>4. no \in Kind /\ no.step = "refused" /\ no.target = u
    BY <1>1 DEF LoginSteps
  <2>5. login' = [login EXCEPT ![l] = IF good THEN yes ELSE no]
    BY <1>4 DEF Verify
  <2>6. good => user[u] # NoUser
    OBVIOUS
  <2> HIDE DEF yes, no, good, Kind
  <2>7. QED
    BY <1>2, <1>4, <2>1, <2>3, <2>4, <2>5, <2>6 DEF Verify, Unconcerned
<1>5. ASSUME RecordFailure(l)
      PROVE  /\ OnlyLogin(l) /\ Unconcerned /\ UNCHANGED <<tokens, logins>>
             /\ login[l].step = "refused" /\ login'[l].step = "idle"
             /\ \/ attempts' = [attempts EXCEPT ![login[l].target] = @ + 1]
                \/ attempts' = attempts
  BY <1>2, <1>5, ConstantTypes DEF RecordFailure, Unconcerned
<1>6. ASSUME Issue(l)
      PROVE  /\ OnlyLogin(l) /\ Unconcerned /\ logins' = logins
             /\ login[l].step = "verified" /\ login'[l].step = "idle"
             /\ \/ attempts' = [attempts EXCEPT ![login[l].target] = 0]
                \/ attempts' = attempts
             /\ tokens' = tokens \cup {[user |-> login[l].target,
                                        version |-> login[l].version,
                                        epoch |-> login[l].epoch]}
  BY <1>2, <1>6, ConstantTypes DEF Issue, Unconcerned, VersionSeen
<1>7. QED
  BY <1>3, <1>4, <1>5, <1>6

SignIn(l) ==
  \/ \E u \in Users : EnsureAllowed(l, u)
  \/ \E correct \in BOOLEAN : Verify(l, correct)
  \/ RecordFailure(l) \/ Issue(l)

LEMMA SignInLeaves ==
  ASSUME Shape, NEW l \in Logins, SignIn(l)
  PROVE  /\ OnlyLogin(l) /\ Unconcerned /\ logins' \in 0..MaxLogins
         /\ attempts' \in [Users -> Nat]
         /\ tokens' \subseteq [user : Users, version : Nat, epoch : Nat]
         /\ login'[l].step # "idle" => login'[l].target \in Users
<1>1. /\ attempts \in [Users -> Nat] /\ logins \in 0..MaxLogins
      /\ tokens \subseteq [user : Users, version : Nat, epoch : Nat]
      /\ login[l].step # "idle" => login[l].target \in Users
      /\ login[l].version \in Nat /\ login[l].epoch \in Nat
  BY DEF Shape, TypeOK
<1>2. CASE \E u \in Users : EnsureAllowed(l, u)
  BY <1>1, <1>2, SignInEffect
<1>3. CASE \E correct \in BOOLEAN : Verify(l, correct)
  BY <1>1, <1>3, SignInEffect
<1>4. CASE RecordFailure(l)
  BY <1>1, <1>4, SignInEffect
<1>5. CASE Issue(l)
  BY <1>1, <1>5, SignInEffect
<1>6. QED
  BY <1>2, <1>3, <1>4, <1>5 DEF SignIn

LEMMA WindowEffect ==
  ASSUME Shape, NEW u \in Users, WindowEnds(u)
  PROVE  /\ attempts' = [attempts EXCEPT ![u] = 0] /\ attempts' \in [Users -> Nat]
         /\ UNCHANGED <<user, request, login, tokens, writes, logins, epoch, raced, overlapped>>
BY DEF WindowEnds, Shape, TypeOK

(* The cases of a step. *)
LEMMA NextCases ==
  ASSUME Next
  PROVE  \/ \E u \in Users, admin \in BOOLEAN : CreateUser(u, admin)
         \/ \E r \in Requests, u \in Users, change \in Changes : ReadTarget(r, u, change)
         \/ \E r \in Requests : Decide(r)
         \/ \E r \in Requests : Commit(r)
         \/ \E l \in Logins : SignIn(l)
         \/ \E u \in Users : WindowEnds(u)
BY DEF Next, SignIn

-----------------------------------------------------------------------------
(* Types and shapes. *)

LEMMA InitShape ==
  ASSUME Init PROVE Shape
<1>1. user \in [Users -> Rows \cup {NoUser}]
  BY ConstantTypes DEF Init
<1>2. request \in [Requests -> [step : RequestSteps, target : Users \cup {None},
                    change : Changes \cup {None}, row : Rows \cup {None},
                    removes : BOOLEAN, behind : BOOLEAN, overtaken : BOOLEAN]]
      /\ \A r \in Requests : request[r].step = "idle"
  BY ConstantTypes DEF Init
<1>3. login \in [Logins -> [step : LoginSteps, target : Users \cup {None},
                            version : Nat, epoch : Nat]]
      /\ \A l \in Logins : login[l].step = "idle"
  BY ConstantTypes DEF Init
<1>4. /\ tokens = {} /\ attempts \in [Users -> Nat] /\ epoch \in [Users -> Nat]
      /\ writes \in 0..MaxWrites /\ logins \in 0..MaxLogins
      /\ raced = {} /\ overlapped = FALSE
  BY AccountsAssumption DEF Init
<1>5. TypeOK
  BY <1>1, <1>2, <1>3, <1>4 DEF TypeOK
<1>6. QED
  BY <1>2, <1>3, <1>5 DEF Shape

RequestShape(r) ==
  request[r].step # "idle" =>
    /\ request[r].target \in Users /\ request[r].change \in Changes
    /\ request[r].row \in Rows /\ user[request[r].target] # NoUser

LEMMA NextShape ==
  ASSUME Shape, [Next]_vars PROVE Shape'
<1>0. TypeOK /\ \A r \in Requests : RequestShape(r)
  BY DEF Shape, RequestShape
<1>1. CASE UNCHANGED vars
  BY <1>1 DEF Shape, TypeOK, vars, Administrators
<1>2. ASSUME NEW u \in Users, NEW admin \in BOOLEAN, CreateUser(u, admin) PROVE Shape'
  <2>1. TypeOK'
    BY <1>0, <1>2, CreateUserEffect DEF TypeOK
  <2>2. QED
    BY <1>2, <2>1, CreateUserEffect DEF Shape
<1>3. ASSUME NEW r \in Requests, NEW u \in Users, NEW change \in Changes,
             ReadTarget(r, u, change)
      PROVE  Shape'
  <2>1. TypeOK'
    BY <1>0, <1>3, ReadTargetEffect DEF TypeOK, OnlyRequest
  <2>0. /\ request'[r].target = u /\ request'[r].change = change
        /\ request'[r].row = user[u] /\ user[u] # NoUser /\ user[u] \in Rows
        /\ user' = user /\ \A q \in Requests : q # r => request'[q] = request[q]
    BY <1>3, ReadTargetEffect DEF OnlyRequest
  <2>2. ASSUME NEW q \in Requests PROVE RequestShape(q)'
    <3>1. CASE q = r
      BY <2>0, <3>1 DEF RequestShape
    <3>2. CASE q # r
      BY <1>0, <2>0, <3>2 DEF RequestShape
    <3>3. QED
      BY <3>1, <3>2
  <2>3. login' = login
    BY <1>3, ReadTargetEffect
  <2>4. QED
    BY <2>1, <2>2, <2>3 DEF Shape, RequestShape
<1>4. ASSUME NEW r \in Requests, Decide(r) PROVE Shape'
  <2>1. TypeOK'
    BY <1>0, <1>4, DecideEffect DEF TypeOK, OnlyRequest
  <2>2. ASSUME NEW q \in Requests PROVE RequestShape(q)'
    BY <1>0, <1>4, DecideEffect DEF RequestShape, OnlyRequest
  <2>3. login' = login
    BY <1>4, DecideEffect
  <2>4. QED
    BY <2>1, <2>2, <2>3 DEF Shape, RequestShape
<1>5. ASSUME NEW r \in Requests, Commit(r) PROVE Shape'
  <2> DEFINE u == request[r].target
  <2>0. u \in Users /\ epoch \in [Users -> Nat] /\ raced \subseteq Users
    BY <1>0, <1>5, CommitEffect DEF RequestShape, TypeOK
  <2>1. epoch' \in [Users -> Nat] /\ raced' \subseteq Users
    BY <1>5, <2>0, CommitEffect
  <2>2. overlapped' \in BOOLEAN
    <3>1. overlapped' = (overlapped \/ (Fewer(r) /\ request[r].overtaken))
      BY <1>5, CommitEffect
    <3>2. QED
      BY <3>1
  <2>3. TypeOK'
    BY <1>0, <1>5, <2>1, <2>2, CommitEffect DEF TypeOK
  <2>4. ASSUME NEW q \in Requests PROVE RequestShape(q)'
    BY <1>0, <1>5, CommitEffect, ConstantTypes DEF RequestShape
  <2>5. login' = login
    BY <1>5, CommitEffect
  <2>6. QED
    BY <2>3, <2>4, <2>5 DEF Shape, RequestShape
<1>6. ASSUME NEW l \in Logins, SignIn(l) PROVE Shape'
  <2>1. TypeOK'
    BY <1>0, <1>6, SignInLeaves DEF TypeOK, OnlyLogin, Unconcerned
  <2>2. QED
    BY <1>6, <2>1, SignInLeaves DEF Shape, OnlyLogin, Unconcerned
<1>7. ASSUME NEW u \in Users, WindowEnds(u) PROVE Shape'
  <2>1. TypeOK'
    BY <1>0, <1>7, WindowEffect DEF TypeOK
  <2>2. QED
    BY <1>7, <2>1, WindowEffect DEF Shape
<1>8. QED
  BY <1>1, <1>2, <1>3, <1>4, <1>5, <1>6, <1>7, NextCases

(* Every variable keeps its type. *)
THEOREM TypeCorrect == Spec => []TypeOK
<1>1. Spec => []Shape
  BY InitShape, NextShape, PTL DEF Spec
<1>2. Shape => TypeOK
  BY DEF Shape
<1>3. QED
  BY <1>1, <1>2, PTL

-----------------------------------------------------------------------------
(* The last Administrator. *)

LEMMA AnotherOne ==
  ASSUME NEW S, NEW x, Cardinality(S) > 1 PROVE S \ {x} # {}
<1>1. SUFFICES ASSUME S \ {x} = {} PROVE FALSE
  OBVIOUS
<1>2. S = {} \/ S = {x}
  BY <1>1
<1>3. Cardinality(S) = 0 \/ Cardinality(S) = 1
  BY <1>2, FS_EmptySet, FS_Singleton
<1>4. QED
  BY <1>3

LEMMA InitAdministrator ==
  ASSUME Init PROVE AdministratorInv
<1>1. PICK u \in Users : user[u] = FirstRow
  BY DEF Init
<1>2. u \in Administrators
  BY <1>1, ConstantTypes DEF Administrators, FirstRow
<1>3. \A r \in Requests : request[r].step = "idle"
  BY ConstantTypes DEF Init
<1>4. QED
  BY <1>2, <1>3 DEF AdministratorInv

(* What the invariant says of one request. *)
Outlived(r) ==
  /\ request[r].step # "idle" /\ ~request[r].overtaken =>
       \/ request[r].row.admin /\ request[r].row.enabled
       \/ Administrators \ {request[r].target} # {}
  /\ request[r].step = "decided" /\ ~request[r].overtaken /\ Removes(r) =>
       Administrators \ {request[r].target} # {}

LEMMA NextAdministrator ==
  ASSUME Shape, AdministratorInv, [Next]_vars PROVE AdministratorInv'
<1>0. (overlapped \/ Administrators # {}) /\ \A r \in Requests : Outlived(r)
  BY DEF AdministratorInv, Outlived
<1> SUFFICES /\ overlapped' \/ Administrators' # {}
             /\ \A r \in Requests : Outlived(r)'
  BY DEF AdministratorInv, Outlived
<1>a. ASSUME Administrators \subseteq Administrators', request' = request,
             overlapped' = overlapped
      PROVE  /\ overlapped' \/ Administrators' # {}
             /\ \A r \in Requests : Outlived(r)'
  BY <1>0, <1>a DEF Outlived, Removes
<1>b. user' = user => Administrators' = Administrators
  BY DEF Administrators
<1>1. CASE UNCHANGED vars
  BY <1>1, <1>a, <1>b DEF vars
<1>2. CASE \E u \in Users, admin \in BOOLEAN : CreateUser(u, admin)
  <2>1. PICK u \in Users, admin \in BOOLEAN : CreateUser(u, admin)
    BY <1>2
  <2>2. Administrators \subseteq Administrators'
    BY <2>1, CreateUserEffect DEF Administrators
  <2>3. QED
    BY <1>a, <2>1, <2>2, CreateUserEffect
<1>3. CASE \E r \in Requests, u \in Users, change \in Changes : ReadTarget(r, u, change)
  <2>1. PICK r \in Requests, u \in Users, change \in Changes : ReadTarget(r, u, change)
    BY <1>3
  <2>2. user' = user /\ overlapped' = overlapped
    BY <2>1, ReadTargetEffect
  <2>3. Administrators' = Administrators
    BY <1>b, <2>2
  <2>4. Outlived(r)'
    <3>1. /\ request'[r].step = "read" /\ request'[r].target = u
          /\ request'[r].row = user[u] /\ user[u] # NoUser /\ Administrators # {}
      BY <2>1, ReadTargetEffect
    <3>2. u \in Administrators => request'[r].row.admin /\ request'[r].row.enabled
      BY <3>1 DEF Administrators
    <3>3. u \notin Administrators => Administrators \ {u} # {}
      BY <3>1
    <3>4. QED
      BY <2>3, <3>1, <3>2, <3>3 DEF Outlived
  <2>5. ASSUME NEW q \in Requests, q # r PROVE Outlived(q)'
    <3>1. request'[q] = request[q]
      BY <2>1, <2>5, ReadTargetEffect DEF OnlyRequest
    <3>2. QED
      BY <1>0, <2>3, <3>1 DEF Outlived, Removes
  <2>6. QED
    BY <1>0, <2>2, <2>3, <2>4, <2>5
<1>4. CASE \E r \in Requests : Decide(r)
  <2>1. PICK r \in Requests : Decide(r)
    BY <1>4
  <2>2. user' = user /\ overlapped' = overlapped
    BY <2>1, DecideEffect
  <2>3. Administrators' = Administrators
    BY <1>b, <2>2
  <2>4. Outlived(r)'
    <3>1. request[r].step = "read"
      BY <2>1, DecideEffect
    <3>2. CASE request'[r].step = "idle"
      BY <3>2 DEF Outlived
    <3>3. CASE /\ MayGo(r) /\ request'[r].step = "decided"
               /\ request'[r].target = request[r].target
               /\ request'[r].change = request[r].change
               /\ request'[r].row = request[r].row
               /\ request'[r].overtaken = request[r].overtaken
      <4>1. Removes(r)' <=> Removes(r)
        BY <3>3 DEF Removes
      <4>2. Removes(r) => Administrators \ {request[r].target} # {}
        BY <3>3, AnotherOne DEF MayGo
      <4>3. QED
        BY <1>0, <2>3, <3>1, <3>3, <4>1, <4>2 DEF Outlived
    <3>4. QED
      BY <2>1, <3>2, <3>3, DecideEffect
  <2>5. ASSUME NEW q \in Requests, q # r PROVE Outlived(q)'
    <3>1. request'[q] = request[q]
      BY <2>1, <2>5, DecideEffect DEF OnlyRequest
    <3>2. QED
      BY <1>0, <2>3, <3>1 DEF Outlived, Removes
  <2>6. QED
    BY <1>0, <2>2, <2>3, <2>4, <2>5
<1>5. CASE \E r \in Requests : Commit(r)
  <2>1. PICK r \in Requests : Commit(r)
    BY <1>5
  <2> DEFINE u == request[r].target
             becomes == Written(user[u], request[r].row, request[r].change)
  <2>2. /\ request[r].step = "decided" /\ request'[r].step = "idle"
        /\ user'[u] = becomes /\ user'[u] \in Rows
        /\ \A v \in Users : v # u => user'[v] = user[v]
        /\ overlapped' = (overlapped \/ (Fewer(r) /\ request[r].overtaken))
    BY <2>1, CommitEffect
  <2>3. /\ u \in Users /\ user[u] \in Rows /\ request[r].row \in Rows
        /\ request[r].change \in Changes
    BY <2>2 DEF Shape, TypeOK
  <2>4. Administrators \ {u} \subseteq Administrators'
    BY <2>2 DEF Administrators
  <2>5. ~Fewer(r) => Administrators \subseteq Administrators'
    <3>1. ~Fewer(r) /\ u \in Administrators => u \in Administrators'
      BY <2>2, <2>3, ConstantTypes DEF Fewer, Administrators
    <3>2. QED
      BY <2>4, <3>1
  <2>6. Fewer(r) /\ ~request[r].overtaken => Administrators \ {u} # {}
    <3>1. SUFFICES ASSUME Fewer(r), ~request[r].overtaken
                   PROVE  Administrators \ {u} # {}
      OBVIOUS
    <3>2. user[u].admin /\ user[u].enabled /\ ~(becomes.admin /\ becomes.enabled)
      BY <2>2, <3>1 DEF Fewer, Administrators
    <3>3. request[r].change.off # {}
      BY <2>3, <3>2, WrittenFlags
    <3>4. request[r].row.admin => Removes(r)
      BY <3>3 DEF Removes
    <3>5. QED
      BY <1>0, <2>2, <3>1, <3>4 DEF Outlived
  <2>7. overlapped' \/ Administrators' # {}
    BY <1>0, <2>2, <2>4, <2>5, <2>6
  <2>8. ASSUME NEW q \in Requests, q # r PROVE Outlived(q)'
    <3>1. /\ request'[q].step = request[q].step /\ request'[q].target = request[q].target
          /\ request'[q].change = request[q].change /\ request'[q].row = request[q].row
          /\ request[q].step # "idle" /\ ~request'[q].overtaken =>
               ~request[q].overtaken /\ ~Fewer(r)
      BY <2>1, <2>8, CommitEffect
    <3>2. Removes(q)' <=> Removes(q)
      BY <3>1 DEF Removes
    <3>3. QED
      BY <1>0, <2>5, <3>1, <3>2 DEF Outlived
  <2>9. Outlived(r)'
    BY <2>2 DEF Outlived
  <2>10. QED
    BY <2>7, <2>8, <2>9
<1>6. CASE \E l \in Logins : SignIn(l)
  BY <1>6, <1>a, <1>b, SignInLeaves DEF Unconcerned
<1>7. CASE \E u \in Users : WindowEnds(u)
  BY <1>7, <1>a, <1>b, WindowEffect
<1>8. QED
  BY <1>1, <1>2, <1>3, <1>4, <1>5, <1>6, <1>7, NextCases

(* The Installation keeps an enabled Administrator, whatever requests      *)
(* follow each other, unless two of them removed Administrators at once.   *)
THEOREM AdministratorAlwaysRemains == Spec => []AdministratorRemains
<1>1. Spec => [](Shape /\ AdministratorInv)
  <2>1. Init => Shape /\ AdministratorInv
    BY InitShape, InitAdministrator
  <2>2. Shape /\ AdministratorInv /\ [Next]_vars => (Shape /\ AdministratorInv)'
    BY NextShape, NextAdministrator
  <2>3. QED
    BY <2>1, <2>2, PTL DEF Spec
<1>2. AdministratorInv => AdministratorRemains
  BY DEF AdministratorInv, AdministratorRemains
<1>3. QED
  BY <1>1, <1>2, PTL

-----------------------------------------------------------------------------
(* The version of an account. *)

LEMMA InitVersion ==
  ASSUME Init PROVE VersionInv
<1>1. /\ \A u \in Users : user[u] \in {NoUser, FirstRow} /\ epoch[u] = 0
      /\ \A r \in Requests : request[r].step = "idle"
      /\ \A l \in Logins : login[l].step = "idle"
      /\ tokens = {}
  BY ConstantTypes DEF Init
<1>2. FirstRow.version = 0 + 1
  BY DEF FirstRow
<1>3. QED
  BY <1>1, <1>2 DEF VersionInv

(* The parts of the invariant. *)
RowVersion(u) ==
  /\ user[u] = NoUser => epoch[u] = 0
  /\ user[u] # NoUser /\ u \notin raced => user[u].version = epoch[u] + 1
ReadingIsCurrent(r) ==
  request[r].step # "idle" /\ ~request[r].behind =>
    request[r].row = user[request[r].target]
LoginVersion(l) ==
  login[l].step = "verified" /\ login[l].target \notin raced =>
    login[l].version = login[l].epoch + 1
TokenVersion(t) == t.user \notin raced => t.version = t.epoch + 1

LEMMA NextVersion ==
  ASSUME Shape, VersionInv, [Next]_vars PROVE VersionInv'
<1>0. /\ \A u \in Users : RowVersion(u)
      /\ \A r \in Requests : ReadingIsCurrent(r)
      /\ \A l \in Logins : LoginVersion(l)
      /\ \A t \in tokens : TokenVersion(t)
  BY DEF VersionInv, RowVersion, ReadingIsCurrent, LoginVersion, TokenVersion
<1> SUFFICES /\ \A u \in Users : RowVersion(u)'
             /\ \A r \in Requests : ReadingIsCurrent(r)'
             /\ \A l \in Logins : LoginVersion(l)'
             /\ \A t \in tokens' : t.user \notin raced' => t.version = t.epoch + 1
  BY DEF VersionInv, RowVersion, ReadingIsCurrent, LoginVersion, TokenVersion
<1>a. user' = user /\ epoch' = epoch /\ raced' = raced => \A u \in Users : RowVersion(u)'
  BY <1>0 DEF RowVersion
<1>b. user' = user /\ request' = request => \A r \in Requests : ReadingIsCurrent(r)'
  BY <1>0 DEF ReadingIsCurrent
<1>c. login' = login /\ raced \subseteq raced' => \A l \in Logins : LoginVersion(l)'
  BY <1>0 DEF LoginVersion
<1>d. tokens' = tokens /\ raced \subseteq raced' =>
        \A t \in tokens' : t.user \notin raced' => t.version = t.epoch + 1
  BY <1>0 DEF TokenVersion
<1>1. CASE UNCHANGED vars
  BY <1>1, <1>a, <1>b, <1>c, <1>d DEF vars
<1>2. CASE \E u \in Users, admin \in BOOLEAN : CreateUser(u, admin)
  <2>1. PICK u \in Users, admin \in BOOLEAN : CreateUser(u, admin)
    BY <1>2
  <2>2. /\ user[u] = NoUser /\ user'[u] # NoUser /\ user'[u].version = 1
        /\ \A v \in Users : v # u => user'[v] = user[v]
        /\ UNCHANGED <<request, login, tokens, epoch, raced>>
    BY <2>1, CreateUserEffect
  <2>3. \A v \in Users : RowVersion(v)'
    BY <1>0, <2>2 DEF RowVersion
  <2>4. ASSUME NEW r \in Requests PROVE ReadingIsCurrent(r)'
    <3>1. request[r].step # "idle" =>
            request[r].target \in Users /\ request[r].target # u
      BY <2>2 DEF Shape
    <3>2. QED
      BY <1>0, <2>2, <3>1 DEF ReadingIsCurrent
  <2>5. QED
    BY <1>c, <1>d, <2>2, <2>3, <2>4
<1>3. CASE \E r \in Requests, u \in Users, change \in Changes : ReadTarget(r, u, change)
  <2>1. PICK r \in Requests, u \in Users, change \in Changes : ReadTarget(r, u, change)
    BY <1>3
  <2>2. /\ UNCHANGED <<user, login, tokens, epoch, raced>>
        /\ request'[r].row = user[u] /\ request'[r].target = u
        /\ \A q \in Requests : q # r => request'[q] = request[q]
    BY <2>1, ReadTargetEffect DEF OnlyRequest
  <2>3. \A q \in Requests : ReadingIsCurrent(q)'
    BY <1>0, <2>2 DEF ReadingIsCurrent
  <2>4. QED
    BY <1>a, <1>c, <1>d, <2>2, <2>3
<1>4. CASE \E r \in Requests : Decide(r)
  <2>1. PICK r \in Requests : Decide(r)
    BY <1>4
  <2>2. /\ UNCHANGED <<user, login, tokens, epoch, raced>>
        /\ request[r].step = "read"
        /\ \/ request'[r].step = "idle"
           \/ /\ request'[r].target = request[r].target
              /\ request'[r].row = request[r].row
              /\ request'[r].behind = request[r].behind
        /\ \A q \in Requests : q # r => request'[q] = request[q]
    BY <2>1, DecideEffect DEF OnlyRequest
  <2>3. \A q \in Requests : ReadingIsCurrent(q)'
    BY <1>0, <2>2 DEF ReadingIsCurrent
  <2>4. QED
    BY <1>a, <1>c, <1>d, <2>2, <2>3
<1>5. CASE \E r \in Requests : Commit(r)
  <2>1. PICK r \in Requests : Commit(r)
    BY <1>5
  <2>a. request[r].step = "decided"
    BY <2>1, CommitEffect
  <2>b. PICK u \in Users, row \in Rows, change \in Changes :
          u = request[r].target /\ row = request[r].row /\ change = request[r].change
    BY <2>a DEF Shape
  <2>2. /\ request[r].step = "decided" /\ request'[r].step = "idle"
        /\ user'[u] = Written(user[u], row, change) /\ user'[u] \in Rows
        /\ \A v \in Users : v # u => user'[v] = user[v]
        /\ epoch' = (IF Revokes(row, change) THEN [epoch EXCEPT ![u] = @ + 1] ELSE epoch)
        /\ raced' = (IF request[r].behind THEN raced \cup {u} ELSE raced)
        /\ login' = login /\ tokens' = tokens
    BY <2>1, <2>b, CommitEffect
  <2>3. user[u] \in Rows /\ epoch \in [Users -> Nat] /\ user[u] # NoUser
    BY <2>a, <2>b DEF Shape, TypeOK
  <2>c. /\ Revokes(row, change) => user'[u].version = row.version + 1
        /\ ~Revokes(row, change) => user'[u].version = user[u].version
    <3>1. Written(user[u], row, change).version =
            IF Revokes(row, change) THEN row.version + 1 ELSE user[u].version
      BY <2>3, WrittenVersion
    <3>2. QED
      BY <2>2, <3>1
  <2>4. raced \subseteq raced'
    BY <2>2
  <2>5. RowVersion(u)'
    <3>1. SUFFICES ASSUME u \notin raced' PROVE user'[u].version = epoch'[u] + 1
      BY <2>2, ConstantTypes DEF RowVersion
    <3>2. ~request[r].behind /\ u \notin raced
      BY <2>2, <3>1
    <3>3. row = user[u] /\ user[u].version = epoch[u] + 1
      BY <1>0, <2>b, <2>2, <2>3, <3>2 DEF ReadingIsCurrent, RowVersion
    <3>4. CASE Revokes(row, change)
      <4>1. user'[u].version = row.version + 1
        BY <2>c, <3>4
      <4>2. epoch'[u] = epoch[u] + 1
        BY <2>2, <2>3, <3>4
      <4>3. QED
        BY <3>3, <4>1, <4>2
    <3>5. CASE ~Revokes(row, change)
      <4>1. user'[u].version = user[u].version
        BY <2>c, <3>5
      <4>2. epoch'[u] = epoch[u]
        BY <2>2, <3>5
      <4>3. QED
        BY <3>3, <4>1, <4>2
    <3>6. QED
      BY <3>4, <3>5
  <2>6. ASSUME NEW v \in Users, v # u PROVE RowVersion(v)'
    <3>1. user'[v] = user[v] /\ epoch'[v] = epoch[v]
      BY <2>2, <2>3, <2>6
    <3>2. QED
      BY <1>0, <2>4, <3>1 DEF RowVersion
  <2>7. ASSUME NEW q \in Requests PROVE ReadingIsCurrent(q)'
    <3>1. CASE q = r
      BY <2>2, <3>1 DEF ReadingIsCurrent
    <3>2. CASE q # r
      <4>1. /\ request'[q].step = request[q].step /\ request'[q].target = request[q].target
            /\ request'[q].row = request[q].row
            /\ request[q].step # "idle" /\ ~request'[q].behind =>
                 ~request[q].behind /\ request[q].target # u
        BY <2>1, <2>b, <3>2, CommitEffect
      <4>2. request[q].step # "idle" => request[q].target \in Users
        BY DEF Shape
      <4>3. QED
        BY <1>0, <2>2, <4>1, <4>2 DEF ReadingIsCurrent
    <3>3. QED
      BY <3>1, <3>2
  <2>8. QED
    BY <1>c, <1>d, <2>2, <2>4, <2>5, <2>6, <2>7
<1>6. CASE \E l \in Logins : SignIn(l)
  <2>1. PICK l \in Logins : SignIn(l)
    BY <1>6
  <2>2. /\ UNCHANGED <<user, request, epoch, raced>>
        /\ \A m \in Logins : m # l => login'[m] = login[m]
    BY <2>1, SignInLeaves DEF Unconcerned, OnlyLogin
  <2>3. LoginVersion(l)' /\ \A t \in tokens' : t.user \notin raced' => t.version = t.epoch + 1
    <3>1. CASE \E u \in Users : EnsureAllowed(l, u)
      BY <1>d, <2>2, <3>1, SignInEffect DEF LoginVersion
    <3>2. CASE \E correct \in BOOLEAN : Verify(l, correct)
      <4>1. /\ tokens' = tokens /\ login[l].step = "allowed"
            /\ login'[l].target = login[l].target
            /\ \/ login'[l].step = "refused"
               \/ /\ login'[l].step = "verified" /\ user[login[l].target] # NoUser
                  /\ login'[l].version = user[login[l].target].version
                  /\ login'[l].epoch = epoch[login[l].target]
        BY <3>2, SignInEffect
      <4>2. login[l].target \in Users
        BY <4>1 DEF Shape
      <4>3. LoginVersion(l)'
        BY <1>0, <2>2, <4>1, <4>2 DEF LoginVersion, RowVersion
      <4>4. QED
        BY <1>d, <2>2, <4>1, <4>3
    <3>3. CASE RecordFailure(l)
      BY <1>d, <2>2, <3>3, SignInEffect DEF LoginVersion
    <3>4. CASE Issue(l)
      <4>1. /\ login[l].step = "verified" /\ login'[l].step = "idle"
            /\ tokens' = tokens \cup {[user |-> login[l].target,
                                       version |-> login[l].version,
                                       epoch |-> login[l].epoch]}
        BY <3>4, SignInEffect
      <4>2. ASSUME NEW t \in tokens', t.user \notin raced' PROVE t.version = t.epoch + 1
        BY <1>0, <2>2, <4>1, <4>2 DEF LoginVersion, TokenVersion
      <4>3. QED
        BY <4>1, <4>2 DEF LoginVersion
    <3>5. QED
      BY <2>1, <3>1, <3>2, <3>3, <3>4 DEF SignIn
  <2>4. ASSUME NEW m \in Logins, m # l PROVE LoginVersion(m)'
    BY <1>0, <2>2, <2>4 DEF LoginVersion
  <2>5. QED
    BY <1>a, <1>b, <2>2, <2>3, <2>4
<1>7. CASE \E u \in Users : WindowEnds(u)
  BY <1>7, <1>a, <1>b, <1>c, <1>d, WindowEffect
<1>8. QED
  BY <1>1, <1>2, <1>3, <1>4, <1>5, <1>6, <1>7, NextCases

(* A cookie that is accepted was issued after the last revocation of the   *)
(* sessions of its user, unless two requests wrote that user from one      *)
(* reading.                                                                *)
THEOREM RevocationIsFinal == Spec => []RevokedStaysRevoked
<1>1. Spec => [](Shape /\ VersionInv)
  <2>1. Init => Shape /\ VersionInv
    BY InitShape, InitVersion
  <2>2. Shape /\ VersionInv /\ [Next]_vars => (Shape /\ VersionInv)'
    BY NextShape, NextVersion
  <2>3. QED
    BY <2>1, <2>2, PTL DEF Spec
<1>2. ASSUME Shape, VersionInv PROVE RevokedStaysRevoked
  <2>1. SUFFICES ASSUME NEW t \in tokens, Accepts(t), t.user \notin raced
                 PROVE  t.epoch = epoch[t.user]
    BY DEF RevokedStaysRevoked
  <2>2. t.user \in Users /\ t.epoch \in Nat /\ epoch[t.user] \in Nat
    BY <1>2, <2>1 DEF Shape, TypeOK
  <2>3. t.version = t.epoch + 1 /\ user[t.user].version = epoch[t.user] + 1
    BY <1>2, <2>1, <2>2 DEF VersionInv, Accepts
  <2>4. QED
    BY <2>1, <2>2, <2>3 DEF Accepts
<1>3. QED
  BY <1>1, <1>2, PTL

-----------------------------------------------------------------------------
(* The counter of failures. *)

LEMMA InFlightFinite ==
  ASSUME NEW u
  PROVE  /\ IsFiniteSet(InFlight(u)) /\ Cardinality(InFlight(u)) \in Nat
         /\ Cardinality(Logins) \in Nat
         /\ Cardinality(InFlight(u)) <= Cardinality(Logins)
<1>1. InFlight(u) \subseteq Logins /\ IsFiniteSet(Logins)
  BY AccountsAssumption DEF InFlight
<1>2. QED
  BY <1>1, FS_Subset, FS_CardinalityType

LEMMA InitAttempt ==
  ASSUME Init PROVE AttemptInv
<1>1. \A l \in Logins : login[l].step = "idle"
  BY ConstantTypes DEF Init
<1>2. ASSUME NEW u \in Users
      PROVE  attempts[u] + Cardinality(InFlight(u)) <= AttemptLimit - 1 + Cardinality(Logins)
  <2>1. InFlight(u) = {}
    BY <1>1 DEF InFlight
  <2>2. Cardinality(InFlight(u)) = 0
    BY <2>1, FS_EmptySet
  <2>3. attempts[u] = 0
    BY DEF Init
  <2>4. QED
    BY <2>2, <2>3, InFlightFinite, AccountsAssumption
<1>3. QED
  BY <1>2 DEF AttemptInv

(* The bound for one user. *)
Bounded(u) ==
  attempts[u] + Cardinality(InFlight(u)) <= AttemptLimit - 1 + Cardinality(Logins)

LEMMA NextAttempt ==
  ASSUME Shape, AttemptInv, [Next]_vars PROVE AttemptInv'
<1>0. /\ \A u \in Users : Bounded(u) /\ attempts[u] \in Nat
      /\ attempts \in [Users -> Nat]
      /\ AttemptLimit \in Nat \ {0} /\ Cardinality(Logins) \in Nat
  BY AccountsAssumption, InFlightFinite DEF AttemptInv, Bounded, Shape, TypeOK
<1> SUFFICES ASSUME NEW u \in Users PROVE Bounded(u)'
  BY DEF AttemptInv, Bounded
<1>a. login' = login => InFlight(u)' = InFlight(u)
  BY DEF InFlight
<1>b. InFlight(u)' = InFlight(u) /\ attempts'[u] = attempts[u] => Bounded(u)'
  BY <1>0 DEF Bounded
<1>1. CASE UNCHANGED vars
  BY <1>1, <1>a, <1>b DEF vars
<1>2. CASE \E v \in Users, admin \in BOOLEAN : CreateUser(v, admin)
  BY <1>2, <1>a, <1>b, CreateUserEffect
<1>3. CASE \E r \in Requests, v \in Users, change \in Changes : ReadTarget(r, v, change)
  BY <1>3, <1>a, <1>b, ReadTargetEffect
<1>4. CASE \E r \in Requests : Decide(r)
  BY <1>4, <1>a, <1>b, DecideEffect
<1>5. CASE \E r \in Requests : Commit(r)
  BY <1>5, <1>a, <1>b, CommitEffect
<1>6. CASE \E l \in Logins : SignIn(l)
  <2>1. PICK l \in Logins : SignIn(l)
    BY <1>6
  <2>2. \A m \in Logins : m # l => login'[m] = login[m]
    BY <2>1, SignInLeaves DEF OnlyLogin
  <2>3. CASE \E v \in Users : EnsureAllowed(l, v)
    <3>1. PICK v \in Users : EnsureAllowed(l, v)
      BY <2>3
    <3>2. /\ attempts' = attempts /\ Allowed(v) /\ login[l].step = "idle"
          /\ login'[l].target = v
      BY <3>1, SignInEffect
    <3>3. CASE u = v
      <4>1. Cardinality(InFlight(u)') \in Nat
            /\ Cardinality(InFlight(u)') <= Cardinality(Logins)
        <5>1. InFlight(u)' \subseteq Logins /\ IsFiniteSet(Logins)
          BY AccountsAssumption DEF InFlight
        <5>2. QED
          BY <5>1, FS_Subset, FS_CardinalityType
      <4>2. attempts'[u] < AttemptLimit
        BY <3>2, <3>3 DEF Allowed
      <4>3. attempts'[u] + Cardinality(InFlight(u)') <= AttemptLimit - 1 + Cardinality(Logins)
        BY <1>0, <3>2, <4>1, <4>2
      <4>4. QED
        BY <4>3 DEF Bounded
    <3>4. CASE u # v
      <4>1. InFlight(u)' = InFlight(u)
        BY <2>2, <3>2, <3>4 DEF InFlight
      <4>2. QED
        BY <1>b, <3>2, <4>1
    <3>5. QED
      BY <3>3, <3>4
  <2>4. CASE \E correct \in BOOLEAN : Verify(l, correct)
    <3>1. /\ attempts' = attempts /\ login[l].step = "allowed"
          /\ login'[l].target = login[l].target /\ login'[l].step # "idle"
      BY <2>4, SignInEffect
    <3>2. InFlight(u)' = InFlight(u)
      BY <2>2, <3>1 DEF InFlight
    <3>3. QED
      BY <1>b, <3>1, <3>2
  <2>5. CASE RecordFailure(l) \/ Issue(l)
    <3> DEFINE v == login[l].target
    <3>1. /\ login[l].step # "idle" /\ login'[l].step = "idle"
          /\ \/ attempts' = [attempts EXCEPT ![v] = @ + 1]
             \/ attempts' = [attempts EXCEPT ![v] = 0]
             \/ attempts' = attempts
      BY <2>5, SignInEffect
    <3>2. CASE u = v
      <4>1. InFlight(u)' = InFlight(u) \ {l} /\ l \in InFlight(u)
        BY <2>2, <3>1, <3>2 DEF InFlight
      <4>2. Cardinality(InFlight(u)') = Cardinality(InFlight(u)) - 1
        BY <4>1, InFlightFinite, FS_RemoveElement
      <4>3. attempts'[u] = attempts[u] + 1 \/ attempts'[u] = 0 \/ attempts'[u] = attempts[u]
        BY <1>0, <3>1, <3>2
      <4>4. Cardinality(InFlight(u)) \in Nat
        BY InFlightFinite
      <4>5. attempts[u] + Cardinality(InFlight(u)) <= AttemptLimit - 1 + Cardinality(Logins)
        BY <1>0 DEF Bounded
      <4>6. attempts'[u] + Cardinality(InFlight(u)') <= AttemptLimit - 1 + Cardinality(Logins)
        BY <1>0, <4>2, <4>3, <4>4, <4>5
      <4>7. QED
        BY <4>6 DEF Bounded
    <3>3. CASE u # v
      <4>1. InFlight(u)' = InFlight(u)
        BY <2>2, <3>1, <3>3 DEF InFlight
      <4>2. attempts'[u] = attempts[u]
        BY <1>0, <3>1, <3>3
      <4>3. QED
        BY <1>b, <4>1, <4>2
    <3>4. QED
      BY <3>2, <3>3
  <2>6. QED
    BY <2>1, <2>3, <2>4, <2>5 DEF SignIn
<1>7. CASE \E v \in Users : WindowEnds(v)
  <2>1. PICK v \in Users : WindowEnds(v)
    BY <1>7
  <2>2. attempts' = [attempts EXCEPT ![v] = 0] /\ login' = login
    BY <2>1, WindowEffect
  <2>3. InFlight(u)' = InFlight(u) /\ Cardinality(InFlight(u)) \in Nat
    BY <1>a, <2>2, InFlightFinite
  <2>4. attempts'[u] = attempts[u] \/ attempts'[u] = 0
    BY <1>0, <2>2
  <2>5. attempts[u] + Cardinality(InFlight(u)) <= AttemptLimit - 1 + Cardinality(Logins)
    BY <1>0 DEF Bounded
  <2>6. attempts'[u] + Cardinality(InFlight(u)') <= AttemptLimit - 1 + Cardinality(Logins)
    BY <1>0, <2>3, <2>4, <2>5
  <2>7. QED
    BY <2>6 DEF Bounded
<1>8. QED
  BY <1>1, <1>2, <1>3, <1>4, <1>5, <1>6, <1>7, NextCases

(* Parallel sign-ins go past the limit by fewer than there are sign-ins.   *)
THEOREM FailuresAreBounded == Spec => []AttemptsAreLimited
<1>1. Spec => [](Shape /\ AttemptInv)
  <2>1. Init => Shape /\ AttemptInv
    BY InitShape, InitAttempt
  <2>2. Shape /\ AttemptInv /\ [Next]_vars => (Shape /\ AttemptInv)'
    BY NextShape, NextAttempt
  <2>3. QED
    BY <2>1, <2>2, PTL DEF Spec
<1>2. ASSUME Shape, AttemptInv PROVE AttemptsAreLimited
  <2>1. SUFFICES ASSUME NEW u \in Users
                 PROVE  attempts[u] < AttemptLimit + Cardinality(Logins)
    BY DEF AttemptsAreLimited
  <2>2. attempts[u] + Cardinality(InFlight(u)) <= AttemptLimit - 1 + Cardinality(Logins)
    BY <1>2 DEF AttemptInv
  <2>3. /\ attempts[u] \in Nat /\ Cardinality(InFlight(u)) \in Nat
        /\ Cardinality(Logins) \in Nat /\ AttemptLimit \in Nat
    BY <1>2, InFlightFinite, AccountsAssumption DEF Shape, TypeOK
  <2>4. QED
    BY <2>2, <2>3
<1>3. QED
  BY <1>1, <1>2, PTL
=============================================================================
