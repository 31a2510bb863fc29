---------------------------- MODULE AccountsProofs ----------------------------
(***************************************************************************)
(* The inductive invariant of Accounts.  Most steps only move a request    *)
(* (RequestMoves) or rewrite a row without its address and role            *)
(* (RowRewritten); the commits are treated one by one.                     *)
(***************************************************************************)
EXTENDS Accounts, TLAPS

(* A step that changes one request only keeps the invariant when the request has
   what its new step needs, and claims no address that is somebody's. *)
LEMMA RequestMoves ==
  ASSUME IInv, NEW r \in Requests, NEW new \in Request,
         req' = [req EXCEPT ![r] = new], started' \in 0 .. MaxRequests,
         UNCHANGED <<account, activation, resets, outdated>>,
         HasArguments(new), HasWritten(new), FoundAccount(new),
         "email" \in new.writes =>
           /\ \A u \in Users : u # new.user => account[u].email # new.email
           /\ \A q \in Requests : q # r /\ "email" \in req[q].writes => req[q].email # new.email
  PROVE  IInv'
<1> USE DEF IInv
<1>1. TypeOK'
  BY DEF TypeOK
<1>2. req'[r] = new /\ \A q \in Requests : q # r => req'[q] = req[q]
  BY DEF TypeOK
<1>3. ASSUME NEW q \in Requests
      PROVE  (HasArguments(req[q]) /\ HasWritten(req[q]) /\ FoundAccount(req[q]))'
  <2> USE DEF Creating, Activating, Resetting, Updating, CrossesBoundary, Exists
  <2>1. CASE q = r
    BY <1>2, <2>1 DEF HasArguments, HasWritten, FoundAccount
  <2>2. CASE q # r
    BY <1>2, <2>2 DEF HasArguments, HasWritten, FoundAccount
  <2>3. QED
    BY <2>1, <2>2
<1>4. ClaimsAreUnique'
  BY <1>2 DEF ClaimsAreUnique
<1>5. TokensAreOwned' /\ UnverifiedHoldLinks' /\ PendingIsUnverified' /\ RoleMatchesProfile'
  BY DEF TokensAreOwned, UnverifiedHoldLinks, PendingIsUnverified, RoleMatchesProfile, Exists
<1>6. EmailsAreUnique' /\ OutdatedAreIssued'
  BY DEF EmailsAreUnique, OutdatedAreIssued, Exists
<1>7. QED
  BY <1>1, <1>3, <1>4, <1>5, <1>6

(* Accounts only ever grow: what a request found of an account stays so. *)
LEMMA FoundStays ==
  ASSUME IInv, NEW q \in Requests, req'[q] = req[q],
         \A u \in Users :
           /\ Exists(u) => Exists(u)'
           /\ Exists(u) => (account'[u].role = "player" <=> account[u].role = "player")
           /\ Exists(u) /\ account[u].status # "pending_verification" =>
                account'[u].status # "pending_verification"
           /\ account[u].verified => account'[u].verified,
         \A t \in Tokens : activation[t].user # None => activation'[t].user = activation[t].user
  PROVE  (HasArguments(req[q]) /\ HasWritten(req[q]) /\ FoundAccount(req[q]))'
BY NoneAssumption
   DEF IInv, HasArguments, HasWritten, FoundAccount, Creating, Activating, Resetting, Updating,
       CrossesBoundary, Exists

(* A row is rewritten, its address, role and profile as they were; the request that
   does it has no transaction. *)
LEMMA RowRewritten ==
  ASSUME IInv, NEW u \in Users, Exists(u), NEW row \in Account,
         account' = [account EXCEPT ![u] = row],
         row.email = account[u].email, row.role = account[u].role,
         row.profile = account[u].profile,
         account[u].verified => row.verified,
         account[u].status # "pending_verification" => row.status # "pending_verification",
         row.status = "pending_verification" => ~row.verified,
         UNCHANGED <<activation, resets, outdated>>, started' \in 0 .. MaxRequests,
         req' \in [Requests -> Request],
         \A q \in Requests : \/ req'[q] = req[q]
                             \/ /\ req'[q].writes = {}
                                /\ (HasArguments(req[q]) /\ HasWritten(req[q]) /\ FoundAccount(req[q]))'
  PROVE  IInv'
<1> USE DEF IInv
<1>1. TypeOK'
  BY DEF TypeOK
<1>2. account'[u] = row /\ \A v \in Users : v # u => account'[v] = account[v]
  BY DEF TypeOK
<1>3. row.status # "absent"
  BY DEF Account, Statuses
<1>4. \A v \in Users : /\ account'[v].email = account[v].email
                       /\ account'[v].role = account[v].role
                       /\ account'[v].profile = account[v].profile
                       /\ Exists(v) <=> Exists(v)'
                       /\ account[v].verified => account'[v].verified
  BY <1>2, <1>3 DEF Exists
<1>5. ASSUME NEW q \in Requests
      PROVE  (HasArguments(req[q]) /\ HasWritten(req[q]) /\ FoundAccount(req[q]))'
  <2>1. CASE req'[q] = req[q]
    BY <1>2, <1>4, <2>1, FoundStays
  <2>2. QED
    BY <2>1
<1>6. ClaimsAreUnique'
  BY <1>4 DEF ClaimsAreUnique
<1>7. TokensAreOwned'
  BY <1>4, NoneAssumption DEF TokensAreOwned, TypeOK, TokenTable
<1>8. UnverifiedHoldLinks' /\ PendingIsUnverified' /\ RoleMatchesProfile' /\ EmailsAreUnique'
  BY <1>2, <1>4 DEF UnverifiedHoldLinks, PendingIsUnverified, RoleMatchesProfile, EmailsAreUnique
<1>9. OutdatedAreIssued'
  BY DEF OutdatedAreIssued
<1>10. QED
  BY <1>1, <1>5, <1>6, <1>7, <1>8, <1>9

(* A token is issued, used or expires: its user stays, and a used token of an
   activation is of a verified account. *)
LEMMA TokensChange ==
  ASSUME IInv, UNCHANGED <<account, outdated>>, started' \in 0 .. MaxRequests,
         req' = req \/ \E r \in Requests : req' = [req EXCEPT ![r] = Idle],
         activation' \in TokenTable, resets' \in TokenTable,
         \A t \in Tokens :
           /\ activation[t].user # None => activation'[t].user = activation[t].user
           /\ resets[t].user # None => resets'[t].user = resets[t].user
           /\ activation'[t].user # None => Exists(activation'[t].user)
           /\ resets'[t].user # None => Exists(resets'[t].user)
           /\ resets[t].user # None /\ (resets[t].used \/ resets[t].expired) =>
                resets'[t].used \/ resets'[t].expired
           /\ activation'[t].used =>
                \/ activation[t].used
                \/ activation'[t].user # None /\ account[activation'[t].user].verified
  PROVE  IInv'
<1> USE DEF IInv
<1>1. TypeOK'
  BY DEF TypeOK, Request, Idle
<1>2. \A q \in Requests : req'[q] = req[q] \/ req'[q] = Idle
  BY DEF TypeOK
<1>3. ASSUME NEW q \in Requests
      PROVE  (HasArguments(req[q]) /\ HasWritten(req[q]) /\ FoundAccount(req[q]))'
  <2>1. CASE req'[q] = req[q]
    BY <2>1, FoundStays DEF Exists
  <2>2. CASE req'[q] = Idle
    BY <2>2 DEF HasArguments, HasWritten, FoundAccount, Idle, Creating, Activating, Resetting,
                Updating
  <2>3. QED
    BY <1>2, <2>1, <2>2
<1>4. ClaimsAreUnique'
  BY <1>2 DEF ClaimsAreUnique, Idle
<1>5. TokensAreOwned'
  BY DEF TokensAreOwned, Exists
<1>6. UnverifiedHoldLinks'
  <2>1. ASSUME NEW u \in Users, Exists(u), ~account[u].verified
        PROVE  \E t \in Tokens : activation'[t].user = u /\ ~activation'[t].used
    <3>1. PICK t \in Tokens : activation[t].user = u /\ ~activation[t].used
      BY <2>1 DEF UnverifiedHoldLinks
    <3>2. activation'[t].user = u /\ ~activation'[t].used
      BY <2>1, <3>1, NoneAssumption
    <3>3. QED
      BY <3>2
  <2>2. QED
    BY <2>1 DEF UnverifiedHoldLinks, Exists
<1>7. PendingIsUnverified' /\ RoleMatchesProfile' /\ EmailsAreUnique'
  BY DEF PendingIsUnverified, RoleMatchesProfile, EmailsAreUnique, Exists
<1>8. OutdatedAreIssued'
  BY NoneAssumption DEF OutdatedAreIssued, TypeOK
<1>9. QED
  BY <1>1, <1>3, <1>4, <1>5, <1>6, <1>7, <1>8

-----------------------------------------------------------------------------
(* The actions *)

(* A request that begins. *)
LEMMA Begun ==
  ASSUME IInv, NEW r \in Requests, NEW new \in Request, Begin(r, new), new.writes = {},
         HasArguments(new), FoundAccount(new), new.step # "commit_new"
  PROVE  IInv'
<1>1. started' \in 0 .. MaxRequests
  BY MaxAssumption DEF IInv, TypeOK, Begin
<1>2. HasWritten(new) /\ req' = [req EXCEPT ![r] = new]
  BY DEF HasWritten, Begin
<1>3. UNCHANGED <<account, activation, resets, outdated>>
  BY DEF Begin
<1>4. QED
  BY <1>1, <1>2, <1>3, RequestMoves

(* A request that begins has what its first step needs. *)
LEMMA ArriveKeeps ==
  ASSUME IInv, NEW r \in Requests, Arrive(r)
  PROVE  IInv'
<1> USE DEF Idle, Request, Ops, Creates, Steps, HasArguments, FoundAccount,
        Creating, Activating, Resetting, Updating
<1>1. CASE Create(r)
  <2>1. PICK op \in Creates, e \in Emails, p \in Passwords, role \in Roles :
          Begin(r, [Idle EXCEPT !.op = op, !.step = "insert", !.email = e,
                                !.password = p, !.role = role])
    BY <1>1, ZenonT(40) DEF Create
  <2>2. DEFINE new == [Idle EXCEPT !.op = op, !.step = "insert", !.email = e,
                                   !.password = p, !.role = role]
  <2>3. new \in Request /\ new.writes = {} /\ new.step = "insert"
        /\ HasArguments(new) /\ FoundAccount(new)
    OBVIOUS
  <2>4. Begin(r, new)
    BY <2>1
  <2> HIDE DEF new
  <2>5. QED
    BY <2>3, <2>4, Begun
<1>2. CASE Activate(r)
  <2>1. PICK t \in Tokens :
          Begin(r, [Idle EXCEPT !.op = "activate", !.step = "find", !.token = t])
    BY <1>2 DEF Activate
  <2>2. DEFINE new == [Idle EXCEPT !.op = "activate", !.step = "find", !.token = t]
  <2>3. new \in Request /\ new.writes = {} /\ new.step = "find"
        /\ HasArguments(new) /\ FoundAccount(new)
    OBVIOUS
  <2>4. Begin(r, new)
    BY <2>1
  <2> HIDE DEF new
  <2>5. QED
    BY <2>3, <2>4, Begun
<1>3. CASE AskForMail(r)
  <2>1. PICK op \in {"resend", "request_reset"}, e \in Emails :
          Begin(r, [Idle EXCEPT !.op = op, !.step = "find_user", !.email = e])
    BY <1>3 DEF AskForMail
  <2>2. DEFINE new == [Idle EXCEPT !.op = op, !.step = "find_user", !.email = e]
  <2>3. new \in Request /\ new.writes = {} /\ new.step = "find_user"
        /\ HasArguments(new) /\ FoundAccount(new)
    OBVIOUS
  <2>4. Begin(r, new)
    BY <2>1
  <2> HIDE DEF new
  <2>5. QED
    BY <2>3, <2>4, Begun
<1>4. ASSUME NEW t \in Tokens, NEW p \in Passwords,
             Begin(r, [Idle EXCEPT !.op = "reset", !.step = "find", !.token = t, !.password = p])
      PROVE  IInv'
  <2>1. DEFINE new == [Idle EXCEPT !.op = "reset", !.step = "find", !.token = t, !.password = p]
  <2>2. new \in Request /\ new.writes = {} /\ new.step = "find"
        /\ HasArguments(new) /\ FoundAccount(new)
    OBVIOUS
  <2>3. Begin(r, new)
    BY <1>4
  <2> HIDE DEF new
  <2>4. QED
    BY <2>2, <2>3, Begun
<1>5. ASSUME NEW u \in Users, NEW p \in Passwords,
             Begin(r, [Idle EXCEPT !.op = "change_password", !.step = "find", !.user = u,
                                   !.password = p])
      PROVE  IInv'
  <2>1. DEFINE new == [Idle EXCEPT !.op = "change_password", !.step = "find", !.user = u,
                                   !.password = p]
  <2>2. new \in Request /\ new.writes = {} /\ new.step = "find"
        /\ HasArguments(new) /\ FoundAccount(new)
    OBVIOUS
  <2>3. Begin(r, new)
    BY <1>5
  <2> HIDE DEF new
  <2>4. QED
    BY <2>2, <2>3, Begun
<1>6. CASE Update(r)
  <2>1. PICK u \in Users, e \in Emails \cup {None}, role \in Roles \cup {None} :
          Begin(r, [Idle EXCEPT !.op = "update", !.step = "find", !.user = u,
                                !.email = e, !.role = role])
    BY <1>6 DEF Update
  <2>2. DEFINE new == [Idle EXCEPT !.op = "update", !.step = "find", !.user = u,
                                   !.email = e, !.role = role]
  <2>3. new \in Request /\ new.writes = {} /\ new.step = "find"
        /\ HasArguments(new) /\ FoundAccount(new)
    OBVIOUS
  <2>4. Begin(r, new)
    BY <2>1
  <2> HIDE DEF new
  <2>5. QED
    BY <2>3, <2>4, Begun
<1>7. QED
  BY <1>1, <1>2, <1>3, <1>4, <1>5, <1>6 DEF Arrive, NewPassword

(* A request that ends without a trace. *)
LEMMA Ended ==
  ASSUME IInv, NEW r \in Requests, End(r),
         UNCHANGED <<account, activation, resets, started, outdated>>
  PROVE  IInv'
<1>1. /\ Idle \in Request /\ started' \in 0 .. MaxRequests /\ Idle.writes = {}
      /\ HasArguments(Idle) /\ HasWritten(Idle) /\ FoundAccount(Idle)
  BY DEF IInv, TypeOK, Idle, Request, HasArguments, HasWritten, FoundAccount, Creating, Activating,
         Resetting, Updating
<1>2. req' = [req EXCEPT ![r] = Idle]
  BY DEF End
<1>3. QED
  BY <1>1, <1>2, RequestMoves

(* A request that goes on, having claimed no address: the facts its next step needs. *)
LEMMA Moved ==
  ASSUME IInv, NEW r \in Requests, NEW new \in Request, req' = [req EXCEPT ![r] = new],
         UNCHANGED <<account, activation, resets, started, outdated>>,
         HasArguments(new), HasWritten(new), FoundAccount(new),
         new.writes = {} \/ (new.writes = req[r].writes \cup {"role"} /\ new.email = req[r].email
                               /\ new.user = req[r].user)
  PROVE  IInv'
<1>1. started' \in 0 .. MaxRequests
  BY DEF IInv, TypeOK
<1>2. "email" \in new.writes => "email" \in req[r].writes
  OBVIOUS
<1>3. QED
  BY <1>1, <1>2, RequestMoves DEF IInv, ClaimsAreUnique

(* INSERT INTO users claims an address nobody has and nobody else claims. *)
LEMMA InsertKeeps ==
  ASSUME IInv, NEW r \in Requests, Insert(r)
  PROVE  IInv'
<1>1. DEFINE new == [req[r] EXCEPT !.step = "commit_new", !.writes = {"email"}]
<1>2. req[r] \in Request /\ req[r].step = "insert" /\ HasArguments(req[r])
  BY DEF IInv, TypeOK, Insert, At
<1>3. new \in Request /\ req' = [req EXCEPT ![r] = new]
  BY <1>2 DEF Insert, Request, Steps, IInv, TypeOK
<1>4. HasArguments(new) /\ HasWritten(new) /\ FoundAccount(new)
  BY <1>2 DEF HasArguments, HasWritten, FoundAccount, Creating, Activating, Resetting, Updating, Request
<1>5. /\ \A u \in Users : u # new.user => account[u].email # new.email
      /\ \A q \in Requests : q # r /\ "email" \in req[q].writes => req[q].email # new.email
  BY <1>2 DEF Insert, UniqueViolation, Taken, Claimed, Request
<1>6. started' \in 0 .. MaxRequests /\ UNCHANGED <<account, activation, resets, outdated>>
  BY DEF Insert, IInv, TypeOK
<1> HIDE DEF new
<1>7. QED
  BY <1>3, <1>4, <1>5, <1>6, RequestMoves

(* findByHash of an activation: a usable token is somebody's. *)
LEMMA FindActivationKeeps ==
  ASSUME IInv, NEW r \in Requests, FindActivation(r)
  PROVE  IInv'
<1>1. DEFINE token == activation[req[r].token]
             new == [req[r] EXCEPT !.step = "set_status", !.user = token.user]
<1>2. /\ req[r] \in Request /\ HasArguments(req[r]) /\ HasWritten(req[r])
      /\ req[r].step = "find" /\ req[r].op = "activate" /\ req \in [Requests -> Request]
  BY DEF IInv, TypeOK, FindActivation, At
<1>3. CASE Usable(token)
  <2>1. req[r].token \in Tokens /\ token.user \in Users /\ Exists(token.user)
    BY <1>2, <1>3 DEF Usable, HasArguments, IInv, TypeOK, TokenTable, TokensAreOwned
  <2>2. req' = [req EXCEPT ![r] = new]
    BY <1>2, <1>3 DEF FindActivation
  <2>3. new \in Request /\ new.writes = {} /\ HasArguments(new) /\ HasWritten(new)
    BY <1>2, <2>1 DEF Request, Steps, HasArguments, HasWritten, Creating, Updating
  <2>4. FoundAccount(new)
    BY <1>2, <2>1 DEF Request, FoundAccount, Activating, Resetting, Updating
  <2> HIDE DEF new
  <2>5. QED
    BY <2>2, <2>3, <2>4, Moved DEF FindActivation
<1>4. CASE ~Usable(token)
  BY <1>4, Ended DEF FindActivation
<1>5. QED
  BY <1>3, <1>4

(* findByHash of a reset. *)
LEMMA FindResetKeeps ==
  ASSUME IInv, NEW r \in Requests, FindReset(r)
  PROVE  IInv'
<1>1. DEFINE token == resets[req[r].token]
             new == [req[r] EXCEPT !.step = "set_password", !.user = token.user]
<1>2. /\ req[r] \in Request /\ HasArguments(req[r]) /\ HasWritten(req[r])
      /\ req[r].step = "find" /\ req[r].op = "reset" /\ req \in [Requests -> Request]
  BY DEF IInv, TypeOK, FindReset, At
<1>3. CASE Usable(token)
  <2>1. req[r].token \in Tokens /\ token.user \in Users /\ Exists(token.user)
    BY <1>2, <1>3 DEF Usable, HasArguments, IInv, TypeOK, TokenTable, TokensAreOwned
  <2>2. req' = [req EXCEPT ![r] = new]
    BY <1>2, <1>3 DEF FindReset
  <2>3. new \in Request /\ new.writes = {} /\ HasArguments(new) /\ HasWritten(new)
    BY <1>2, <2>1 DEF Request, Steps, HasArguments, HasWritten, Creating, Updating
  <2>4. FoundAccount(new)
    BY <1>2, <2>1 DEF Request, FoundAccount, Activating, Resetting, Updating
  <2> HIDE DEF new
  <2>5. QED
    BY <2>2, <2>3, <2>4, Moved DEF FindReset
<1>4. CASE ~Usable(token)
  BY <1>4, Ended DEF FindReset
<1>5. QED
  BY <1>3, <1>4

(* findByEmail: who is found exists. *)
LEMMA FindUserKeeps ==
  ASSUME IInv, NEW r \in Requests, FindUser(r)
  PROVE  IInv'
<1>1. /\ req[r] \in Request /\ HasArguments(req[r]) /\ HasWritten(req[r])
      /\ req[r].step = "find_user" /\ req \in [Requests -> Request]
  BY DEF IInv, TypeOK, FindUser, At
<1>2. ASSUME NEW u \in Users, account[u].email = req[r].email,
             req' = [req EXCEPT ![r].step = "commit_token", ![r].user = u]
      PROVE  IInv'
  <2>1. DEFINE new == [req[r] EXCEPT !.step = "commit_token", !.user = u]
  <2>2. req' = [req EXCEPT ![r] = new]
    BY <1>1, <1>2
  <2>3. Exists(u)
    BY <1>1, <1>2, NoneAssumption DEF HasArguments, Exists, IInv, TypeOK, NoAccount, Account, Statuses
  <2>4. new \in Request /\ new.writes = {} /\ HasArguments(new) /\ HasWritten(new)
    BY <1>1 DEF Request, Steps, HasArguments, HasWritten, Creating, Updating
  <2>5. FoundAccount(new)
    BY <1>1, <2>3 DEF Request, HasArguments, FoundAccount, Activating, Resetting, Updating
  <2> HIDE DEF new
  <2>6. QED
    BY <2>2, <2>4, <2>5, Moved DEF FindUser
<1>3. QED
  BY <1>2, Ended DEF FindUser

(* changePassword finds its account active. *)
LEMMA CheckCurrentKeeps ==
  ASSUME IInv, NEW r \in Requests, CheckCurrent(r)
  PROVE  IInv'
<1>1. /\ req[r] \in Request /\ HasArguments(req[r]) /\ HasWritten(req[r])
      /\ req[r].step = "find" /\ req[r].op = "change_password" /\ req \in [Requests -> Request]
  BY DEF IInv, TypeOK, CheckCurrent, At
<1>2. CASE account[req[r].user].status = "active" /\ Go(r, "set_password")
  <2>1. DEFINE new == [req[r] EXCEPT !.step = "set_password"]
  <2>2. req' = [req EXCEPT ![r] = new]
    BY <1>1, <1>2 DEF Go
  <2>3. new \in Request /\ new.writes = {} /\ HasArguments(new) /\ HasWritten(new)
    BY <1>1 DEF Request, Steps, HasArguments, HasWritten, Creating, Updating
  <2>4. FoundAccount(new)
    BY <1>1, <1>2 DEF Request, HasArguments, FoundAccount, Activating, Resetting, Updating, Exists
  <2> HIDE DEF new
  <2>5. QED
    BY <2>2, <2>3, <2>4, Moved DEF CheckCurrent
<1>3. QED
  BY <1>2, Ended DEF CheckCurrent

(* updateUser's checks: what is left to write stays on its side of the boundary. *)
LEMMA FindTargetKeeps ==
  ASSUME IInv, NEW r \in Requests, FindTarget(r)
  PROVE  IInv'
<1>1. DEFINE q == req[r]
             e == IF q.email = account[q.user].email THEN None ELSE q.email
             role == IF q.role = account[q.user].role THEN None ELSE q.role
             step == IF e # None THEN "find_email"
                     ELSE IF role # None THEN "update_role" ELSE "commit_update"
             new == [q EXCEPT !.email = e, !.role = role, !.step = step]
             ok == Exists(q.user) /\ (role # None => ~CrossesBoundary(account[q.user].role, role))
<1>2. /\ q \in Request /\ HasArguments(q) /\ HasWritten(q)
      /\ q.step = "find" /\ q.op = "update" /\ req \in [Requests -> Request]
  BY DEF IInv, TypeOK, FindTarget, At
<1>3. IF ok THEN req' = [req EXCEPT ![r] = new] ELSE End(r)
  BY DEF FindTarget
<1>4. CASE ok
  <2>1. e \in Emails \cup {None} /\ role \in Roles \cup {None} /\ q.user \in Users
    BY <1>2 DEF Request, HasArguments
  <2>2. /\ step \in {"find_email", "update_role", "commit_update"}
        /\ step = "find_email" => e \in Emails
        /\ step = "update_role" => role \in Roles
    BY <2>1
  <2>3. q.writes = {}
    BY <1>2 DEF HasWritten
  <2>4. role # None => ~CrossesBoundary(account[q.user].role, role)
    BY <1>4
  <2>5. Exists(q.user)
    BY <1>4
  <2>6. IInv /\ req' = [req EXCEPT ![r] = new]
    BY <1>3, <1>4
  <2> HIDE DEF step, e, role, ok
  <2>7. new \in Request /\ new.writes = {} /\ new.user = q.user /\ new.op = "update"
    BY <1>2, <2>1, <2>2, <2>3 DEF Request, Steps
  <2>8. /\ new.step = "find_email" => new.email \in Emails
        /\ new.step = "update_role" => new.role \in Roles
        /\ new.step \in {"find_email", "update_role", "commit_update"}
        /\ new.role = role
    BY <1>2, <2>1, <2>2 DEF Request
  <2>9. HasArguments(new) /\ HasWritten(new)
    BY <2>7, <2>8 DEF HasArguments, HasWritten, Creating, Updating
  <2>10. FoundAccount(new)
    BY <2>1, <2>7, <2>8, <2>4, <2>5 DEF FoundAccount, Activating, Resetting, Updating
  <2> HIDE DEF new
  <2>11. QED
    BY <2>7, <2>9, <2>10, <2>6, Moved DEF FindTarget
<1>5. CASE ~ok
  BY <1>3, <1>5, Ended DEF FindTarget
<1>6. QED
  BY <1>4, <1>5

(* The lookup of another account with the address. *)
LEMMA FindByEmailKeeps ==
  ASSUME IInv, NEW r \in Requests, FindByEmail(r)
  PROVE  IInv'
<1>1. DEFINE new == [req[r] EXCEPT !.step = "update_email"]
<1>2. /\ req[r] \in Request /\ HasArguments(req[r]) /\ HasWritten(req[r]) /\ FoundAccount(req[r])
      /\ req[r].step = "find_email" /\ req \in [Requests -> Request]
  BY DEF IInv, TypeOK, FindByEmail, At
<1>3. /\ new \in Request /\ new.writes = {} /\ HasArguments(new) /\ HasWritten(new)
      /\ FoundAccount(new)
  BY <1>2 DEF Request, Steps, HasArguments, HasWritten, FoundAccount, Creating, Activating,
              Resetting, Updating
<1>4. End(r) \/ req' = [req EXCEPT ![r] = new]
  BY <1>2 DEF FindByEmail, Go
<1> HIDE DEF new
<1>5. QED
  BY <1>3, <1>4, Ended, Moved DEF FindByEmail

(* The UPDATE of the address claims one nobody has and nobody else claims. *)
LEMMA UpdateEmailKeeps ==
  ASSUME IInv, NEW r \in Requests, UpdateEmail(r)
  PROVE  IInv'
<1>1. DEFINE new == [req[r] EXCEPT !.writes = {"email"},
               !.step = IF req[r].role # None THEN "update_role" ELSE "commit_update"]
<1>2. /\ req[r] \in Request /\ HasArguments(req[r]) /\ HasWritten(req[r]) /\ FoundAccount(req[r])
      /\ req[r].step = "update_email" /\ req \in [Requests -> Request]
  BY DEF IInv, TypeOK, UpdateEmail, At
<1>3. CASE UniqueViolation(r, req[r].email)
  BY <1>3, Ended DEF UpdateEmail
<1>4. CASE ~UniqueViolation(r, req[r].email)
  <2>1. req' = [req EXCEPT ![r] = new]
    BY <1>2, <1>4 DEF UpdateEmail
  <2>2. /\ new \in Request /\ HasArguments(new) /\ HasWritten(new) /\ FoundAccount(new)
        /\ new.email = req[r].email /\ new.user = req[r].user
    BY <1>2, ZenonT(40) DEF Request, Steps, HasArguments, HasWritten, FoundAccount, Creating, Activating,
                Resetting, Updating
  <2>3. /\ \A u \in Users : u # new.user => account[u].email # new.email
        /\ \A q \in Requests : q # r /\ "email" \in req[q].writes => req[q].email # new.email
    BY <1>4, <2>2 DEF UpdateEmail, UniqueViolation, Taken, Claimed
  <2>4. started' \in 0 .. MaxRequests /\ UNCHANGED <<account, activation, resets, outdated>>
    BY DEF UpdateEmail, IInv, TypeOK
  <2> HIDE DEF new
  <2>5. QED
    BY <2>1, <2>2, <2>3, <2>4, RequestMoves
<1>5. QED
  BY <1>3, <1>4

(* The UPDATE of the role. *)
LEMMA UpdateRoleKeeps ==
  ASSUME IInv, NEW r \in Requests, UpdateRole(r)
  PROVE  IInv'
<1>1. DEFINE new == [req[r] EXCEPT !.step = "commit_update", !.writes = req[r].writes \cup {"role"}]
<1>2. /\ req[r] \in Request /\ HasArguments(req[r]) /\ HasWritten(req[r]) /\ FoundAccount(req[r])
      /\ req[r].step = "update_role" /\ req \in [Requests -> Request]
  BY DEF IInv, TypeOK, UpdateRole, At
<1>3. req' = [req EXCEPT ![r] = new]
  BY <1>2 DEF UpdateRole
<1>4. new \in Request /\ new.writes = req[r].writes \cup {"role"} /\ new.step = "commit_update"
      /\ new.op = "update" /\ new.user = req[r].user /\ new.email = req[r].email
      /\ new.role = req[r].role
  BY <1>2 DEF Request, Steps, HasArguments, Updating
<1>5. HasArguments(new) /\ HasWritten(new)
  BY <1>2, <1>4 DEF HasArguments, HasWritten, Creating, Updating
<1>6. FoundAccount(new)
  BY <1>2, <1>4 DEF FoundAccount, Activating, Resetting, Updating
<1> HIDE DEF new
<1>7. QED
  BY <1>3, <1>4, <1>5, <1>6, Moved DEF UpdateRole

(* The statements that rewrite a row: activation sets the status, then verifies. *)
LEMMA SetActiveKeeps ==
  ASSUME IInv, NEW r \in Requests, SetActive(r)
  PROVE  IInv'
<1>1. DEFINE u == req[r].user
             row == [account[u] EXCEPT !.status = "active"]
             new == [req[r] EXCEPT !.step = "verify"]
<1>2. /\ req[r] \in Request /\ HasArguments(req[r]) /\ HasWritten(req[r]) /\ FoundAccount(req[r])
      /\ req[r].step = "set_status" /\ req \in [Requests -> Request]
  BY DEF IInv, TypeOK, SetActive, At
<1>3. u \in Users /\ Exists(u) /\ account[u] \in Account
  BY <1>2 DEF FoundAccount, Activating, IInv, TypeOK, Exists, NoAccount
<1>4. /\ row \in Account /\ row.status = "active" /\ row.email = account[u].email
      /\ row.role = account[u].role /\ row.profile = account[u].profile
      /\ row.verified = account[u].verified
  BY <1>3 DEF Account, Statuses
<1>5. account' = [account EXCEPT ![u] = row] /\ req' = [req EXCEPT ![r] = new]
  BY <1>2 DEF SetActive, Write, Go
<1>6. /\ new \in Request /\ new.writes = {} /\ new.step = "verify" /\ new.user = u
      /\ new.op = req[r].op /\ new.token = req[r].token /\ new.role = req[r].role
  BY <1>2 DEF Request, Steps, HasWritten
<1>7. account'[u] = row
  BY <1>3, <1>5 DEF IInv, TypeOK
<1>8. (HasArguments(req[r]) /\ HasWritten(req[r]) /\ FoundAccount(req[r]))'
  <2>1. req'[r] = new
    BY <1>2, <1>5
  <2> HIDE DEF new, row
  <2>2. HasArguments(new) /\ HasWritten(new)
    BY <1>2, <1>6 DEF HasArguments, HasWritten, Creating, Updating
  <2>3. FoundAccount(req[r])'
    BY <1>2, <1>3, <1>4, <1>6, <1>7, <2>1
       DEF FoundAccount, Activating, Resetting, Updating, Exists, SetActive
  <2>4. QED
    BY <2>1, <2>2, <2>3 DEF HasArguments, HasWritten, Creating, Updating
<1>9. \A q \in Requests : q # r => req'[q] = req[q]
  BY <1>2, <1>5
<1>10. req' \in [Requests -> Request] /\ req'[r] = new
  BY <1>2, <1>5, <1>6
<1>11. UNCHANGED <<activation, resets, outdated>> /\ started' \in 0 .. MaxRequests
  BY DEF SetActive, IInv, TypeOK
<1> HIDE DEF u, row, new
<1>12. QED
  BY <1>3, <1>4, <1>5, <1>6, <1>8, <1>9, <1>10, <1>11, RowRewritten

(* A request whose statement rewrites its user's row, then goes on or ends. *)
LEMMA RowStep ==
  ASSUME IInv, NEW r \in Requests, NEW u \in Users, NEW row \in Account, NEW new \in Request,
         Exists(u), account' = [account EXCEPT ![u] = row],
         row.email = account[u].email, row.role = account[u].role,
         row.profile = account[u].profile,
         account[u].verified => row.verified,
         account[u].status # "pending_verification" => row.status # "pending_verification",
         row.status = "pending_verification" => ~row.verified,
         UNCHANGED <<activation, resets, started, outdated>>,
         req' = [req EXCEPT ![r] = new], new.writes = {},
         HasArguments(new), HasWritten(new), FoundAccount(req[r])'
  PROVE  IInv'
<1>1. req' \in [Requests -> Request] /\ req'[r] = new /\ started' \in 0 .. MaxRequests
      /\ \A q \in Requests : q # r => req'[q] = req[q]
  BY DEF IInv, TypeOK
<1>2. HasArguments(req[r])' /\ HasWritten(req[r])' /\ FoundAccount(req[r])'
  BY <1>1 DEF HasArguments, HasWritten, Creating, Updating
<1>3. \A q \in Requests : \/ req'[q] = req[q]
                           \/ /\ req'[q].writes = {}
                              /\ (HasArguments(req[q]) /\ HasWritten(req[q]) /\ FoundAccount(req[q]))'
  BY <1>1, <1>2
<1>4. UNCHANGED <<activation, resets, outdated>>
  OBVIOUS
<1>5. QED
  BY <1>1, <1>3, <1>4, RowRewritten

(* ... then verifies the address, of an account that is no longer pending. *)
LEMMA MarkEmailVerifiedKeeps ==
  ASSUME IInv, NEW r \in Requests, MarkEmailVerified(r)
  PROVE  IInv'
<1>1. DEFINE u == req[r].user
             row == [account[u] EXCEPT !.verified = TRUE]
             new == [req[r] EXCEPT !.step = "mark_used"]
<1>2. /\ req[r] \in Request /\ HasArguments(req[r]) /\ HasWritten(req[r]) /\ FoundAccount(req[r])
      /\ req[r].step = "verify" /\ req \in [Requests -> Request]
  BY DEF IInv, TypeOK, MarkEmailVerified, At
<1>3. u \in Users /\ Exists(u) /\ account[u] \in Account
      /\ account[u].status # "pending_verification"
  BY <1>2 DEF FoundAccount, Activating, IInv, TypeOK, Exists, NoAccount
<1>4. /\ row \in Account /\ row.status = account[u].status /\ row.email = account[u].email
      /\ row.role = account[u].role /\ row.profile = account[u].profile
      /\ row.verified
  BY <1>3 DEF Account
<1>5. account' = [account EXCEPT ![u] = row] /\ req' = [req EXCEPT ![r] = new]
  BY <1>2 DEF MarkEmailVerified, Write, Go
<1>6. /\ new \in Request /\ new.writes = {} /\ new.step = "mark_used" /\ new.user = u
      /\ new.op = req[r].op /\ new.token = req[r].token /\ new.role = req[r].role
  BY <1>2 DEF Request, Steps, HasWritten
<1>7. account'[u] = row /\ req'[r] = new
  BY <1>2, <1>3, <1>5 DEF IInv, TypeOK
<1>8. UNCHANGED <<activation, resets, started, outdated>>
  BY DEF MarkEmailVerified
<1> HIDE DEF row, new
<1>9. HasArguments(new) /\ HasWritten(new)
  BY <1>2, <1>6 DEF HasArguments, HasWritten, Creating, Updating
<1>10. FoundAccount(req[r])'
  BY <1>2, <1>3, <1>4, <1>6, <1>7, <1>8
     DEF FoundAccount, Activating, Resetting, Updating, Exists
<1> HIDE DEF u
<1>11. QED
  BY <1>3, <1>4, <1>5, <1>6, <1>8, <1>9, <1>10, RowStep

(* The UPDATE of a password. *)
LEMMA SetPasswordHashKeeps ==
  ASSUME IInv, NEW r \in Requests, SetPasswordHash(r)
  PROVE  IInv'
<1>1. DEFINE u == req[r].user
             row == [account[u] EXCEPT !.password = req[r].password]
             new == IF req[r].op = "reset" THEN [req[r] EXCEPT !.step = "mark_reset"] ELSE Idle
<1>2. /\ req[r] \in Request /\ HasArguments(req[r]) /\ HasWritten(req[r]) /\ FoundAccount(req[r])
      /\ req[r].step = "set_password" /\ req \in [Requests -> Request]
  BY DEF IInv, TypeOK, SetPasswordHash, At
<1>3. u \in Users /\ Exists(u) /\ account[u] \in Account /\ req[r].password \in Passwords
  BY <1>2 DEF FoundAccount, HasArguments, IInv, TypeOK, Exists, NoAccount
<1>4. /\ row \in Account /\ row.status = account[u].status /\ row.email = account[u].email
      /\ row.role = account[u].role /\ row.profile = account[u].profile
      /\ row.verified = account[u].verified
  BY <1>3 DEF Account
<1>5. account' = [account EXCEPT ![u] = row] /\ req' = [req EXCEPT ![r] = new]
  BY <1>2 DEF SetPasswordHash, Write, Go, End
<1>6. /\ new \in Request /\ new.writes = {}
      /\ \/ new = Idle
         \/ /\ new.step = "mark_reset" /\ new.user = u /\ new.op = "reset"
            /\ new.token = req[r].token /\ req[r].op = "reset"
  BY <1>2 DEF Request, Steps, HasWritten, Idle
<1>7. account'[u] = row /\ req'[r] = new
  BY <1>2, <1>3, <1>5 DEF IInv, TypeOK
<1>8. UNCHANGED <<activation, resets, started, outdated>>
  BY DEF SetPasswordHash
<1>9. account[u].status = "pending_verification" => ~account[u].verified
  BY <1>3 DEF IInv, PendingIsUnverified
<1>10. req[r].op = "reset" => req[r].token \in Tokens
  BY <1>2 DEF FoundAccount, Resetting
<1> HIDE DEF row, new
<1>11. HasArguments(new) /\ HasWritten(new)
  BY <1>6 DEF HasArguments, HasWritten, Creating, Updating, Idle
<1>12. FoundAccount(req[r])'
  <2>1. CASE new = Idle
    BY <1>7, <2>1 DEF FoundAccount, Activating, Resetting, Updating, Idle
  <2>2. CASE /\ new.step = "mark_reset" /\ new.user = u /\ new.op = "reset"
             /\ new.token = req[r].token /\ req[r].op = "reset"
    <3>1. u \in Users /\ account'[u].status # "absent" /\ new.token \in Tokens
      BY <1>2, <1>3, <1>4, <1>7, <1>10, <2>2 DEF Exists, Request
    <3>2. QED
      BY <1>7, <2>2, <3>1 DEF FoundAccount, Activating, Resetting, Updating, Exists
  <2>3. QED
    BY <1>6, <2>1, <2>2
<1> HIDE DEF u
<1>13. QED
  BY <1>3, <1>4, <1>5, <1>6, <1>8, <1>9, <1>11, <1>12, RowStep

(* The administrator sets a status; no request moves. *)
LEMMA SetStatusKeeps ==
  ASSUME IInv, NEW u \in Users, NEW status \in {"active", "disabled", "deleted"},
         SetStatus(u, status)
  PROVE  IInv'
<1>1. DEFINE row == [account[u] EXCEPT !.status = status]
<1>2. account[u] \in Account /\ Exists(u)
  BY DEF SetStatus, IInv, TypeOK, Exists, NoAccount
<1>3. /\ row \in Account /\ row.status = status /\ row.email = account[u].email
      /\ row.role = account[u].role /\ row.profile = account[u].profile
      /\ row.verified = account[u].verified
  BY <1>2 DEF Account, Statuses
<1>4. account' = [account EXCEPT ![u] = row]
  BY DEF SetStatus
<1>5. UNCHANGED <<activation, resets, outdated>> /\ started' \in 0 .. MaxRequests
  BY MaxAssumption DEF SetStatus, IInv, TypeOK
<1>6. req' \in [Requests -> Request] /\ \A q \in Requests : req'[q] = req[q]
  BY DEF SetStatus, IInv, TypeOK
<1> HIDE DEF row
<1>7. QED
  BY <1>2, <1>3, <1>4, <1>5, <1>6, RowRewritten

-----------------------------------------------------------------------------
(* The steps on tokens *)

(* markUsed: the account of the token is verified by now. *)
LEMMA MarkUsedKeeps ==
  ASSUME IInv, NEW r \in Requests, MarkUsed(r)
  PROVE  IInv'
<1>1. /\ req[r].token \in Tokens /\ activation[req[r].token].user = req[r].user
      /\ req[r].user \in Users /\ account[req[r].user].verified
  BY DEF IInv, MarkUsed, At, FoundAccount, Activating
<1>2. activation \in TokenTable /\ resets \in TokenTable
  BY DEF IInv, TypeOK
<1>3. /\ activation' \in TokenTable
      /\ \A t \in Tokens : /\ activation'[t].user = activation[t].user
                           /\ activation'[t].used =>
                                activation[t].used \/ t = req[r].token
  <2>1. activation' = [activation EXCEPT ![req[r].token].used = TRUE]
    BY DEF MarkUsed
  <2>2. activation' \in TokenTable
    BY <1>1, <1>2, <2>1, ZenonT(40) DEF TokenTable
  <2>3. ASSUME NEW t \in Tokens
        PROVE  /\ activation'[t].user = activation[t].user
               /\ t # req[r].token => activation'[t] = activation[t]
    BY <1>1, <1>2, <2>1 DEF TokenTable
  <2>4. QED
    BY <2>2, <2>3
<1>4. \A t \in Tokens : activation'[t].used =>
        \/ activation[t].used
        \/ activation'[t].user # None /\ account[activation'[t].user].verified
  BY <1>1, <1>3, NoneAssumption
<1>5. \A t \in Tokens :
        /\ activation'[t].user # None => Exists(activation'[t].user)
        /\ resets[t].user # None => Exists(resets[t].user)
  BY <1>3 DEF IInv, TokensAreOwned
<1>6. /\ UNCHANGED <<account, outdated>> /\ started' \in 0 .. MaxRequests
      /\ req' = [req EXCEPT ![r] = Idle] /\ resets' = resets
  BY DEF MarkUsed, End, IInv, TypeOK
<1>7. QED
  BY <1>2, <1>3, <1>4, <1>5, <1>6, TokensChange

(* A token is issued to an account that exists. *)
LEMMA CommitTokenKeeps ==
  ASSUME IInv, NEW r \in Requests, CommitToken(r)
  PROVE  IInv'
<1>1. req[r].user \in Users /\ Exists(req[r].user)
  BY DEF IInv, CommitToken, At, FoundAccount
<1>2. activation \in TokenTable /\ resets \in TokenTable
  BY DEF IInv, TypeOK
<1>3. /\ UNCHANGED <<account, outdated>> /\ started' \in 0 .. MaxRequests
      /\ req' = [req EXCEPT ![r] = Idle]
  BY DEF CommitToken, End, IInv, TypeOK
<1>4. \A t \in Tokens :
        /\ activation[t].user # None => Exists(activation[t].user)
        /\ resets[t].user # None => Exists(resets[t].user)
  BY DEF IInv, TokensAreOwned
<1>5. PICK t \in Tokens :
        \/ Issue(activation, t, req[r].user) /\ UNCHANGED resets
        \/ Issue(resets, t, req[r].user) /\ UNCHANGED activation
  BY DEF CommitToken
<1>6. CASE Issue(activation, t, req[r].user) /\ UNCHANGED resets
  <2>1. /\ activation[t].user = None /\ activation' \in TokenTable
        /\ activation'[t].user = req[r].user /\ ~activation'[t].used
        /\ \A s \in Tokens : s # t => activation'[s] = activation[s]
    BY <1>1, <1>2, <1>6 DEF Issue, TokenTable, NoToken
  <2>2. QED
    BY <1>1, <1>2, <1>3, <1>4, <1>6, <2>1, TokensChange
<1>7. CASE Issue(resets, t, req[r].user) /\ UNCHANGED activation
  <2>1. \A s \in Tokens : s # t => resets'[s] = resets[s]
    BY <1>2, <1>7 DEF Issue, TokenTable
  <2>2. resets[t].user = None /\ resets' \in TokenTable /\ resets'[t].user = req[r].user
    BY <1>1, <1>2, <1>7 DEF Issue, TokenTable, NoToken
  <2>3. QED
    BY <1>1, <1>2, <1>3, <1>4, <1>7, <2>1, <2>2, TokensChange
<1>8. QED
  BY <1>5, <1>6, <1>7


(* A token expires. *)
LEMMA ExpireKeeps ==
  ASSUME IInv, NEW t \in Tokens, Expire(t)
  PROVE  IInv'
<1>1. activation \in TokenTable /\ resets \in TokenTable
  BY DEF IInv, TypeOK
<1>2. UNCHANGED <<account, req, outdated>> /\ started' \in 0 .. MaxRequests
  BY DEF Expire, IInv, TypeOK
<1>3. \A s \in Tokens :
        /\ activation[s].user # None => Exists(activation[s].user)
        /\ resets[s].user # None => Exists(resets[s].user)
  BY DEF IInv, TokensAreOwned
<1>4. CASE activation' = [activation EXCEPT ![t].expired = TRUE] /\ UNCHANGED resets
  <2>1. /\ activation' \in TokenTable
        /\ \A s \in Tokens : /\ activation'[s].user = activation[s].user
                             /\ activation'[s].used = activation[s].used
    BY <1>1, <1>4 DEF TokenTable
  <2>2. QED
    BY <1>1, <1>2, <1>3, <1>4, <2>1, TokensChange
<1>5. CASE resets' = [resets EXCEPT ![t].expired = TRUE] /\ UNCHANGED activation
  <2>1. resets' \in TokenTable
    BY <1>1, <1>5 DEF TokenTable
  <2>2. ASSUME NEW s \in Tokens
        PROVE  /\ resets'[s].user = resets[s].user
               /\ resets[s].used \/ resets[s].expired => resets'[s].used \/ resets'[s].expired
    BY <1>1, <1>5 DEF TokenTable
  <2>3. QED
    BY <1>1, <1>2, <1>3, <1>5, <2>1, <2>2, TokensChange
<1>6. QED
  BY <1>4, <1>5 DEF Expire

(* The end of a reset: every token the user has is used up, or has expired. *)
LEMMA MarkResetKeeps ==
  ASSUME IInv, NEW r \in Requests, MarkReset(r)
  PROVE  IInv'
<1>1. DEFINE u == req[r].user
<1>2. /\ u \in Users /\ activation \in TokenTable /\ resets \in TokenTable
      /\ outdated \in [Users -> SUBSET Tokens]
  BY DEF IInv, TypeOK, MarkReset, At, FoundAccount, Resetting
<1>3. resets' = [s \in Tokens |->
        IF resets[s].user = u /\ (s = req[r].token \/ ~resets[s].expired)
        THEN [resets[s] EXCEPT !.used = TRUE] ELSE resets[s]]
  BY DEF MarkReset, Spend
<1>4. ASSUME NEW s \in Tokens
      PROVE  /\ resets'[s] \in [user : Users \cup {None}, used : BOOLEAN, expired : BOOLEAN]
             /\ resets'[s].user = resets[s].user
             /\ resets[s].used \/ resets[s].expired => resets'[s].used \/ resets'[s].expired
             /\ resets[s].user = u => resets'[s].used \/ resets'[s].expired
  BY <1>2, <1>3 DEF TokenTable
<1>5. resets' \in TokenTable
  BY <1>3, <1>4 DEF TokenTable
<1>6. outdated' = [outdated EXCEPT ![u] = {t \in Tokens : resets[t].user = u}]
  BY DEF MarkReset
<1>7. UNCHANGED <<account, activation, started>>
  BY DEF MarkReset
<1>8. ASSUME NEW q \in Requests
      PROVE  /\ req'[q] = Idle \/ \E k \in Tokens \cup {None} : req'[q] = [req[q] EXCEPT !.late = k]
             /\ req'[q] \in Request
  <2>1. /\ req[q] \in Request /\ Idle \in Request
        /\ req[r].token \in Tokens \cup {None} /\ req[q].late \in Tokens \cup {None}
    BY DEF IInv, TypeOK, Request, Idle
  <2>2. \/ req'[q] = Idle
        \/ req'[q] = [req[q] EXCEPT !.late = req[r].token]
        \/ req'[q] = [req[q] EXCEPT !.late = req[q].late]
    BY DEF MarkReset
  <2>3. \A k \in Tokens \cup {None} : [req[q] EXCEPT !.late = k] \in Request
    BY <2>1 DEF Request
  <2>4. QED
    BY <2>1, <2>2, <2>3
<1> HIDE DEF u
<1>9. TypeOK'
  <2>1. req' \in [Requests -> Request]
    BY <1>8 DEF MarkReset
  <2>2. outdated' \in [Users -> SUBSET Tokens]
    BY <1>2, <1>6
  <2>3. QED
    BY <1>2, <1>5, <1>7, <2>1, <2>2 DEF IInv, TypeOK
<1>10. OutdatedAreIssued'
  BY <1>2, <1>4, <1>6 DEF IInv, OutdatedAreIssued
<1>11. ASSUME NEW q \in Requests
       PROVE  \/ req'[q] = Idle
              \/ /\ req'[q].op = req[q].op /\ req'[q].step = req[q].step
                 /\ req'[q].user = req[q].user /\ req'[q].token = req[q].token
                 /\ req'[q].email = req[q].email /\ req'[q].role = req[q].role
                 /\ req'[q].password = req[q].password /\ req'[q].writes = req[q].writes
  <2>1. req[q] \in Request
    BY DEF IInv, TypeOK
  <2>2. \A k \in Tokens \cup {None} : LET new == [req[q] EXCEPT !.late = k] IN
          /\ new.op = req[q].op /\ new.step = req[q].step
          /\ new.user = req[q].user /\ new.token = req[q].token
          /\ new.email = req[q].email /\ new.role = req[q].role
          /\ new.password = req[q].password /\ new.writes = req[q].writes
    BY <2>1 DEF Request
  <2>3. CASE req'[q] # Idle
    <3>1. PICK k \in Tokens \cup {None} : req'[q] = [req[q] EXCEPT !.late = k]
      BY <1>8, <2>3
    <3>2. QED
      BY <2>2, <3>1
  <2>4. QED
    BY <2>3
<1>12. ASSUME NEW q \in Requests
       PROVE  (HasArguments(req[q]) /\ HasWritten(req[q]) /\ FoundAccount(req[q]))'
  <2>1. CASE req'[q] = Idle
    BY <2>1 DEF HasArguments, HasWritten, FoundAccount, Idle, Creating, Activating, Resetting,
                Updating
  <2>2. CASE req'[q] # Idle
    BY <1>7, <1>11, <2>2
       DEF IInv, HasArguments, HasWritten, FoundAccount, Creating, Activating, Resetting, Updating,
           CrossesBoundary, Exists
  <2>3. QED
    BY <2>1, <2>2
<1>13. ClaimsAreUnique'
  BY <1>7, <1>11 DEF IInv, ClaimsAreUnique, Idle
<1>14. TokensAreOwned'
  BY <1>4, <1>7 DEF IInv, TokensAreOwned, Exists
<1>15. UnverifiedHoldLinks' /\ PendingIsUnverified' /\ RoleMatchesProfile' /\ EmailsAreUnique'
  BY <1>7 DEF IInv, UnverifiedHoldLinks, PendingIsUnverified, RoleMatchesProfile,
              EmailsAreUnique, Exists
<1>16. QED
  BY <1>9, <1>10, <1>12, <1>13, <1>14, <1>15 DEF IInv

-----------------------------------------------------------------------------
(* The commits that change an address or a role *)

(* A registration or an invitation commits: the user, its players row, and a token
   unless the account is active at once. *)
LEMMA CommitNewKeeps ==
  ASSUME IInv, NEW r \in Requests, CommitNew(r)
  PROVE  IInv'
<1>1. DEFINE q == req[r]
             active == q.op = "create_active"
<1>2. PICK u \in Users :
        /\ ~Exists(u) /\ account' = [account EXCEPT ![u] = NewAccount(q, active)]
        /\ \/ active /\ UNCHANGED activation
           \/ ~active /\ \E t \in Tokens : Issue(activation, t, u)
  BY DEF CommitNew
<1>3. /\ q.step = "commit_new" /\ q.email \in Emails /\ q.role \in Roles
      /\ q.password \in Passwords /\ "email" \in q.writes /\ q.user = None
  BY DEF IInv, CommitNew, At, HasArguments, HasWritten, Creating
<1>4. DEFINE row == NewAccount(q, active)
<1>5. /\ row \in Account /\ row.email = q.email /\ row.verified = active
      /\ row.status = (IF active THEN "active" ELSE "pending_verification")
      /\ row.profile = (row.role = "player") /\ row.status # "absent"
  BY <1>3 DEF NewAccount, Account, Statuses
<1>6. /\ UNCHANGED <<resets, started, outdated>> /\ req' = [req EXCEPT ![r] = Idle]
  BY DEF CommitNew, End
<1>7. account' = [account EXCEPT ![u] = row] /\ ~Exists(u)
  BY <1>2
<1> HIDE DEF row
<1>8. account'[u] = row /\ Exists(u)' /\ \A v \in Users : v # u => account'[v] = account[v]
  BY <1>5, <1>7 DEF IInv, TypeOK, Exists
<1>9. /\ activation' \in TokenTable
      /\ \A t \in Tokens : \/ activation'[t] = activation[t]
                           \/ activation[t].user = None /\ activation'[t].user = u
                              /\ ~activation'[t].used
      /\ ~active => \E t \in Tokens : activation'[t].user = u /\ ~activation'[t].used
  <2>1. activation \in TokenTable
    BY DEF IInv, TypeOK
  <2>2. CASE active /\ UNCHANGED activation
    BY <2>1, <2>2
  <2>3. ASSUME NEW t \in Tokens, Issue(activation, t, u)
        PROVE  /\ activation' \in TokenTable /\ activation[t].user = None
               /\ activation'[t].user = u /\ ~activation'[t].used
               /\ \A s \in Tokens : s # t => activation'[s] = activation[s]
    BY <2>1, <2>3 DEF Issue, TokenTable, NoToken
  <2>4. QED
    BY <1>2, <2>2, <2>3
<1>10. TypeOK'
  BY <1>5, <1>6, <1>7, <1>9 DEF IInv, TypeOK, Request, Idle
<1>11. \A p \in Requests : req'[p] = req[p] \/ req'[p] = Idle
  BY <1>6 DEF IInv, TypeOK
<1>12. \A v \in Users : Exists(v) => Exists(v)' /\ account'[v] = account[v]
  BY <1>7, <1>8 DEF Exists
<1>13. ~account[u].verified
  BY <1>7 DEF IInv, TypeOK, Exists, Account, Statuses, NoAccount
<1>14. \A t \in Tokens : activation[t].user # None => activation'[t] = activation[t]
  BY <1>9
<1>15. ASSUME NEW p \in Requests
       PROVE  (HasArguments(req[p]) /\ HasWritten(req[p]) /\ FoundAccount(req[p]))'
  <2>1. CASE req'[p] = req[p]
    BY <1>8, <1>12, <1>13, <1>14, <2>1, FoundStays
  <2>2. CASE req'[p] = Idle
    BY <2>2 DEF HasArguments, HasWritten, FoundAccount, Idle, Creating, Activating, Resetting,
                Updating
  <2>3. QED
    BY <1>11, <2>1, <2>2
<1>16. \A v \in Users : account[v].email # q.email
  BY <1>3, NoneAssumption DEF IInv, ClaimsAreUnique
<1>17. EmailsAreUnique'
  BY <1>5, <1>8, <1>16 DEF IInv, EmailsAreUnique, Exists
<1>18. ClaimsAreUnique'
  <2>1. ASSUME NEW p \in Requests, "email" \in req'[p].writes
        PROVE  p # r /\ req'[p] = req[p] /\ req[p].email # q.email
    BY <1>3, <1>6, <2>1 DEF IInv, TypeOK, ClaimsAreUnique, Idle
  <2>2. QED
    BY <1>5, <1>8, <2>1 DEF IInv, ClaimsAreUnique
<1>19. TokensAreOwned'
  <2>1. ASSUME NEW t \in Tokens
        PROVE  /\ activation'[t].user # None => account'[activation'[t].user].status # "absent"
               /\ activation'[t].used =>
                    activation'[t].user # None /\ account'[activation'[t].user].verified
    <3>1. CASE activation'[t] = activation[t]
      <4>1. activation[t].user # None => activation[t].user \in Users
        BY DEF IInv, TypeOK, TokenTable
      <4>2. QED
        BY <1>8, <1>12, <1>13, <3>1, <4>1 DEF IInv, TokensAreOwned, Exists
    <3>2. CASE activation'[t].user = u /\ ~activation'[t].used
      BY <1>8, <3>2 DEF Exists
    <3>3. QED
      BY <1>9, <3>1, <3>2
  <2>2. ASSUME NEW t \in Tokens, resets[t].user # None
        PROVE  account'[resets[t].user].status # "absent"
    <3>1. resets[t].user \in Users /\ Exists(resets[t].user)
      BY <2>2 DEF IInv, TypeOK, TokenTable, TokensAreOwned
    <3>2. QED
      BY <1>12, <3>1 DEF Exists
  <2>3. QED
    BY <1>6, <2>1, <2>2 DEF TokensAreOwned, Exists
<1>20. UnverifiedHoldLinks'
  <2>1. ASSUME NEW v \in Users, Exists(v)', ~account'[v].verified
        PROVE  \E t \in Tokens : activation'[t].user = v /\ ~activation'[t].used
    <3>1. CASE v = u
      BY <1>5, <1>8, <1>9, <2>1, <3>1
    <3>2. CASE v # u
      <4>1. Exists(v) /\ ~account[v].verified
        BY <1>8, <2>1, <3>2 DEF Exists
      <4>2. PICK t \in Tokens : activation[t].user = v /\ ~activation[t].used
        BY <4>1 DEF IInv, UnverifiedHoldLinks
      <4>3. activation'[t] = activation[t]
        BY <1>14, <4>2, NoneAssumption
      <4>4. QED
        BY <4>2, <4>3
    <3>3. QED
      BY <3>1, <3>2
  <2>2. QED
    BY <2>1 DEF UnverifiedHoldLinks, Exists
<1>21. PendingIsUnverified' /\ RoleMatchesProfile'
  BY <1>5, <1>8 DEF IInv, PendingIsUnverified, RoleMatchesProfile, Exists
<1>22. OutdatedAreIssued'
  BY <1>6 DEF IInv, OutdatedAreIssued
<1>23. QED
  BY <1>10, <1>15, <1>17, <1>18, <1>19, <1>20, <1>21, <1>22 DEF IInv

(* An update commits what it has written. *)
LEMMA CommitUpdateKeeps ==
  ASSUME IInv, NEW r \in Requests, CommitUpdate(r)
  PROVE  IInv'
<1>1. DEFINE q == req[r]
             u == q.user
             email == IF "email" \in q.writes THEN q.email ELSE account[u].email
             role == IF "role" \in q.writes THEN q.role ELSE account[u].role
             row == [account[u] EXCEPT !.email = email, !.role = role]
<1>2. /\ q \in Request /\ q.step = "commit_update" /\ HasWritten(q) /\ FoundAccount(q)
      /\ u \in Users /\ Exists(u) /\ account[u] \in Account
      /\ account \in [Users -> Account \cup {NoAccount}]
  BY DEF IInv, TypeOK, CommitUpdate, At, FoundAccount, Updating, Exists, NoAccount
<1>3. /\ UNCHANGED <<activation, resets, started, outdated>> /\ req' = [req EXCEPT ![r] = Idle]
  BY DEF CommitUpdate, End
<1>4. account' = [account EXCEPT ![u] = row]
  BY <1>2 DEF CommitUpdate, Account
<1>5. email \in Emails /\ role \in Roles
  BY <1>2 DEF HasWritten, Account
<1>6. role = "player" <=> account[u].role = "player"
  BY <1>2, NoneAssumption DEF HasWritten, FoundAccount, Updating, CrossesBoundary, Roles
<1>7. /\ row \in Account /\ row.email = email /\ row.role = role
      /\ row.status = account[u].status /\ row.verified = account[u].verified
      /\ row.profile = account[u].profile
  BY <1>2, <1>5 DEF Account
<1>8. "email" \in q.writes => \A v \in Users : v # u => account[v].email # email
  BY DEF IInv, ClaimsAreUnique
<1>9. "email" \notin q.writes => email = account[u].email
  OBVIOUS
<1>10. \A p \in Requests : "email" \in req'[p].writes =>
         p # r /\ req'[p] = req[p] /\ ("email" \in q.writes => req[p].email # email)
  BY <1>3 DEF IInv, TypeOK, ClaimsAreUnique, Idle
<1> HIDE DEF row, email, role
<1>11. account'[u] = row /\ \A v \in Users : v # u => account'[v] = account[v]
  BY <1>2, <1>4
<1>12. TypeOK'
  BY <1>3, <1>4, <1>7 DEF IInv, TypeOK, Request, Idle
<1>13. \A v \in Users :
         /\ Exists(v) <=> Exists(v)'
         /\ account'[v].status = account[v].status
         /\ account'[v].verified = account[v].verified
         /\ account'[v].profile = account[v].profile
         /\ account'[v].role = "player" <=> account[v].role = "player"
  BY <1>6, <1>7, <1>11 DEF Exists
<1>14. \A p \in Requests : req'[p] = req[p] \/ req'[p] = Idle
  BY <1>3 DEF IInv, TypeOK
<1>15. ASSUME NEW p \in Requests
       PROVE  (HasArguments(req[p]) /\ HasWritten(req[p]) /\ FoundAccount(req[p]))'
  <2>1. CASE req'[p] = req[p]
    BY <1>3, <1>13, <2>1, FoundStays
  <2>2. CASE req'[p] = Idle
    BY <2>2 DEF HasArguments, HasWritten, FoundAccount, Idle, Creating, Activating, Resetting,
                Updating
  <2>3. QED
    BY <1>14, <2>1, <2>2
<1>16. EmailsAreUnique'
  <2>1. ASSUME NEW v \in Users, v # u, Exists(v)
        PROVE  account[v].email # email
    BY <1>2, <1>8, <1>9, <2>1 DEF IInv, EmailsAreUnique
  <2>2. QED
    BY <1>7, <1>11, <1>13, <2>1 DEF IInv, EmailsAreUnique
<1>17. ClaimsAreUnique'
  <2>1. ASSUME NEW p \in Requests, "email" \in req'[p].writes, NEW v \in Users, v # req'[p].user
        PROVE  account'[v].email # req'[p].email
    BY <1>7, <1>9, <1>10, <1>11, <2>1 DEF IInv, ClaimsAreUnique
  <2>2. QED
    BY <1>10, <2>1 DEF IInv, ClaimsAreUnique
<1>18. TokensAreOwned'
  BY <1>3, <1>13, NoneAssumption DEF IInv, TokensAreOwned, TypeOK, TokenTable
<1>19. UnverifiedHoldLinks' /\ PendingIsUnverified' /\ RoleMatchesProfile'
  BY <1>3, <1>13 DEF IInv, UnverifiedHoldLinks, PendingIsUnverified, RoleMatchesProfile
<1>20. OutdatedAreIssued'
  BY <1>3 DEF IInv, OutdatedAreIssued
<1>21. QED
  BY <1>12, <1>15, <1>16, <1>17, <1>18, <1>19, <1>20 DEF IInv

-----------------------------------------------------------------------------
(* The theorems *)

(* Members are active, verified and players; nothing has been asked or issued. *)
LEMMA InitHolds == Init => IInv
<1> SUFFICES ASSUME Init PROVE IInv
  OBVIOUS
<1>1. PICK e \in [Members -> Emails], p \in Passwords :
        /\ \A u, v \in Members : e[u] = e[v] => u = v
        /\ account = [u \in Users |-> IF u \in Members THEN Member(e[u], p) ELSE NoAccount]
  BY DEF Init
<1>2. \A u \in Members : Member(e[u], p) \in Account
  BY DEF Member, Account, Statuses, Roles
<1>3. \A u \in Users : u \in Members => /\ account[u] \in Account /\ account[u].verified
                                          /\ account[u].status = "active"
                                          /\ account[u].email = e[u]
                                          /\ account[u].role = "player" /\ account[u].profile
  BY <1>1, <1>2 DEF Member
<1>4. \A u \in Users : u \notin Members => account[u] = NoAccount
  BY <1>1
<1>5. /\ activation = [t \in Tokens |-> NoToken] /\ resets = [t \in Tokens |-> NoToken]
      /\ req = [r \in Requests |-> Idle] /\ started = 0 /\ outdated = [u \in Users |-> {}]
  BY DEF Init
<1>6. TypeOK
  BY <1>1, <1>3, <1>4, <1>5, MaxAssumption DEF TypeOK, TokenTable, NoToken, Request, Idle
<1>7. \A r \in Requests : HasArguments(req[r]) /\ HasWritten(req[r]) /\ FoundAccount(req[r])
  BY <1>5 DEF HasArguments, HasWritten, FoundAccount, Idle, Creating, Activating, Resetting,
              Updating
<1>8. TokensAreOwned /\ ClaimsAreUnique /\ OutdatedAreIssued
  BY <1>5 DEF TokensAreOwned, ClaimsAreUnique, OutdatedAreIssued, NoToken, Idle
<1>9. UnverifiedHoldLinks /\ PendingIsUnverified /\ RoleMatchesProfile /\ EmailsAreUnique
  BY <1>1, <1>3, <1>4
     DEF UnverifiedHoldLinks, PendingIsUnverified, RoleMatchesProfile, EmailsAreUnique, Exists,
         NoAccount
<1>10. QED
  BY <1>6, <1>7, <1>8, <1>9 DEF IInv

LEMMA StepKeeps ==
  ASSUME IInv, NEW r \in Requests, Step(r)
  PROVE  IInv'
<1>1. CASE InsertRefused(r) \/ Fails(r)
  BY <1>1, Ended DEF InsertRefused, Fails
<1>2. QED
  BY <1>1, InsertKeeps, CommitNewKeeps, FindActivationKeeps, SetActiveKeeps,
     MarkEmailVerifiedKeeps, MarkUsedKeeps, FindUserKeeps, CommitTokenKeeps, FindResetKeeps,
     CheckCurrentKeeps, SetPasswordHashKeeps, MarkResetKeeps, FindTargetKeeps, FindByEmailKeeps,
     UpdateEmailKeeps, UpdateRoleKeeps, CommitUpdateKeeps
     DEF Step

(* The inductive invariant: what every request has found still holds when it writes,
   whatever the others have committed meanwhile. *)
THEOREM Invariance == Spec => []IInv
<1>1. IInv /\ [Next]_vars => IInv'
  <2> SUFFICES ASSUME IInv, [Next]_vars PROVE IInv'
    OBVIOUS
  <2>1. CASE UNCHANGED vars
    BY <2>1 DEF vars, IInv, TypeOK, HasArguments, HasWritten, FoundAccount, TokensAreOwned,
         UnverifiedHoldLinks, PendingIsUnverified, RoleMatchesProfile, EmailsAreUnique,
         ClaimsAreUnique, OutdatedAreIssued, Creating, Activating, Resetting, Updating,
         CrossesBoundary, Exists
  <2>2. CASE \E r \in Requests : Arrive(r) \/ Step(r)
    BY <2>2, ArriveKeeps, StepKeeps
  <2>3. CASE \E u \in Users, status \in {"active", "disabled", "deleted"} : SetStatus(u, status)
    BY <2>3, SetStatusKeeps
  <2>4. CASE \E t \in Tokens : Expire(t)
    BY <2>4, ExpireKeeps
  <2>5. QED
    BY <2>1, <2>2, <2>3, <2>4 DEF Next
<1>2. QED
  BY InitHolds, <1>1, PTL DEF Spec

(* Type correctness: no row loses a field, no request a kind of argument. *)
THEOREM TypeCorrect == Spec => []TypeOK
BY Invariance, PTL DEF IInv

(* A link serves until it expires or has verified its account, wherever registrations
   and activations stopped; an account that waits for one was sent one. *)
THEOREM LinksServe == Spec => []LinksServeUntilVerified
<1>1. IInv => LinksServeUntilVerified
  <2> SUFFICES ASSUME IInv, NEW u \in Users, Exists(u)
               PROVE  /\ account[u].verified \/ \E t \in Tokens : activation[t].user = u
                      /\ \A t \in Tokens : activation[t].user = u =>
                           account[u].verified \/ activation[t].expired \/ Usable(activation[t])
                      /\ account[u].status = "pending_verification" => ~account[u].verified
    BY DEF LinksServeUntilVerified
  <2>1. account[u].verified \/ \E t \in Tokens : activation[t].user = u
    BY DEF IInv, UnverifiedHoldLinks
  <2>2. ASSUME NEW t \in Tokens, activation[t].user = u, ~account[u].verified
        PROVE  activation[t].expired \/ Usable(activation[t])
    BY <2>2, NoneAssumption DEF IInv, TokensAreOwned, Usable
  <2>3. account[u].status = "pending_verification" => ~account[u].verified
    BY DEF IInv, PendingIsUnverified
  <2>4. QED
    BY <2>1, <2>2, <2>3
<1>2. QED
  BY <1>1, Invariance, PTL

(* An account waiting for its verification has not been verified. *)
THEOREM PendingUnverified == Spec => []PendingIsUnverified
BY Invariance, PTL DEF IInv

(* Players, and only they, have a players row: two concurrent role updates, each checked
   against a role read before, cannot together cross the boundary. *)
THEOREM RolesMatch == Spec => []RoleMatchesProfile
BY Invariance, PTL DEF IInv

(* Addresses are unique among accounts. *)
THEOREM UniqueEmails == Spec => []EmailsAreUnique
BY Invariance, PTL DEF IInv


-----------------------------------------------------------------------------
(* Resets by outdated links *)

(* Request r leaves the others as they are, and every link as valid. *)
Elsewhere(r) == UNCHANGED outdated /\ \A q \in Requests : q # r => req'[q] = req[q]

(* Nobody else comes to set a password by a link than who has just found it usable, and
   only the end of a reset outdates links. *)
LEMMA OthersSetNothing ==
  ASSUME IInv, [Next]_vars, \A r \in Requests : ~MarkReset(r)
  PROVE  /\ UNCHANGED outdated
         /\ \A q \in Requests, u \in Users : Setting(req'[q], u) => req'[q] = req[q] \/ FindReset(q)
<1>1. /\ req \in [Requests -> Request]
      /\ \A q \in Requests : HasArguments(req[q]) /\ FoundAccount(req[q])
  BY DEF IInv, TypeOK
<1> USE <1>1 DEF Setting, At, Go, End, Idle, Write
<1>2. CASE UNCHANGED vars
  BY <1>2 DEF vars
<1>3. ASSUME NEW r \in Requests, Arrive(r)
      PROVE  /\ UNCHANGED outdated
             /\ \A q \in Requests, u \in Users : Setting(req'[q], u) => req'[q] = req[q] \/ FindReset(q)
  BY <1>3 DEF Arrive, Create, Activate, AskForMail, NewPassword, Update, Begin
<1>4. ASSUME NEW r \in Requests, Step(r)
      PROVE  /\ UNCHANGED outdated
             /\ \A q \in Requests, u \in Users : Setting(req'[q], u) => req'[q] = req[q] \/ FindReset(q)
  <2> HIDE DEF Setting
  <2>1. req[r] \in Request
    BY <1>1
  <2>2. ASSUME Insert(r) \/ InsertRefused(r) \/ CommitNew(r) \/ Fails(r)
        PROVE  Elsewhere(r) /\ req'[r].step \in {"idle", "commit_new"}
    BY <2>1, <2>2 DEF Insert, InsertRefused, CommitNew, Fails, Elsewhere, Request
  <2>3. ASSUME FindActivation(r) \/ SetActive(r) \/ MarkEmailVerified(r) \/ MarkUsed(r)
        PROVE  /\ Elsewhere(r)
               /\ req'[r].step = "set_status" \/ req'[r].step \in {"idle", "verify", "mark_used"}
    <3>1. CASE FindActivation(r)
      BY <2>1, <3>1 DEF FindActivation, Elsewhere, Request
    <3>2. CASE SetActive(r) \/ MarkEmailVerified(r) \/ MarkUsed(r)
      BY <2>1, <3>2 DEF SetActive, MarkEmailVerified, MarkUsed, Elsewhere, Request
    <3>3. QED
      BY <2>3, <3>1, <3>2
  <2>4. ASSUME FindUser(r) \/ CommitToken(r)
        PROVE  Elsewhere(r) /\ req'[r].step \in {"idle", "commit_token"}
    <3>1. CASE FindUser(r)
      BY <2>1, <3>1 DEF FindUser, Elsewhere, Request
    <3>2. CASE CommitToken(r)
      BY <2>1, <3>2 DEF CommitToken, Elsewhere, Request
    <3>3. QED
      BY <2>4, <3>1, <3>2
  <2>5. ASSUME FindReset(r)
        PROVE  Elsewhere(r)
    BY <2>5 DEF FindReset, Elsewhere
  <2>6. ASSUME CheckCurrent(r) \/ SetPasswordHash(r)
        PROVE  /\ Elsewhere(r)
               /\ req'[r].step \in {"idle", "mark_reset"} \/ req'[r].op = "change_password"
    <3>1. CASE CheckCurrent(r)
      BY <2>1, <3>1 DEF CheckCurrent, Elsewhere, Request
    <3>2. CASE SetPasswordHash(r)
      BY <2>1, <3>2 DEF SetPasswordHash, Elsewhere, Request
    <3>3. QED
      BY <2>6, <3>1, <3>2
  <2>7. ASSUME FindTarget(r)
        PROVE  Elsewhere(r) /\ (req'[r].step = "idle" \/ req'[r].op = "update")
    <3>1. Elsewhere(r)
      BY <2>7 DEF FindTarget, Elsewhere
    <3>2. req[r].op = "update" /\ req[r] \in Request
      BY <2>1, <2>7 DEF FindTarget
    <3>3. DEFINE q == req[r]
                 e == IF q.email = account[q.user].email THEN None ELSE q.email
                 role == IF q.role = account[q.user].role THEN None ELSE q.role
                 step == IF e # None THEN "find_email"
                         ELSE IF role # None THEN "update_role" ELSE "commit_update"
                 new == [q EXCEPT !.email = e, !.role = role, !.step = step]
                 ok == Exists(q.user) /\ (role # None => ~CrossesBoundary(account[q.user].role, role))
    <3>4. IF ok THEN req' = [req EXCEPT ![r] = new] ELSE End(r)
      BY <2>7 DEF FindTarget
    <3> HIDE DEF e, role, step, ok
    <3>5. new.op = "update"
      BY <3>2 DEF Request
    <3> HIDE DEF new
    <3>6. QED
      BY <3>1, <3>4, <3>5
  <2>8. ASSUME FindByEmail(r) \/ UpdateEmail(r) \/ UpdateRole(r) \/ CommitUpdate(r)
        PROVE  Elsewhere(r) /\ req'[r].step \in {"idle", "update_email", "update_role", "commit_update"}
    <3>1. CASE FindByEmail(r)
      BY <2>1, <3>1 DEF FindByEmail, Elsewhere, Request
    <3>2. CASE UpdateEmail(r)
      BY <2>1, <3>2 DEF UpdateEmail, Elsewhere, Request
    <3>3. CASE UpdateRole(r) \/ CommitUpdate(r)
      BY <2>1, <3>3 DEF UpdateRole, CommitUpdate, Elsewhere, Request
    <3>4. QED
      BY <2>8, <3>1, <3>2, <3>3
  <2>9. Elsewhere(r) /\ (\A u \in Users : Setting(req'[r], u) => FindReset(r))
    BY <1>4, <2>2, <2>3, <2>4, <2>5, <2>6, <2>7, <2>8 DEF Step, Setting
  <2>10. QED
    BY <2>9 DEF Elsewhere
<1>5. ASSUME NEW u \in Users, NEW status, SetStatus(u, status)
      PROVE  UNCHANGED <<outdated, req>>
  BY <1>5 DEF SetStatus
<1>6. ASSUME NEW t \in Tokens, Expire(t)
      PROVE  UNCHANGED <<outdated, req>>
  BY <1>6 DEF Expire
<1>7. QED
  BY <1>2, <1>3, <1>4, <1>5, <1>6 DEF Next

(* A link that is found usable is not outdated; one that becomes outdated under a request
   that has found it is marked as such. *)
LEMMA OutdatedStep ==
  ASSUME IInv, OutdatedLinksResetNothing, [Next]_vars
  PROVE  OutdatedLinksResetNothing'
<1> SUFFICES ASSUME NEW q \in Requests, NEW u \in Users,
                    Setting(req'[q], u), req'[q].token \in outdated'[u]
             PROVE  req'[q].late # None
  BY DEF OutdatedLinksResetNothing
<1>1. req \in [Requests -> Request] /\ outdated \in [Users -> SUBSET Tokens]
  BY DEF IInv, TypeOK
<1>2. ASSUME NEW r \in Requests, MarkReset(r)
      PROVE  req'[q].late # None
  <2>1. req[r].token \in Tokens /\ req[r].token # None
    BY <1>2, NoneAssumption DEF IInv, FoundAccount, Resetting, MarkReset, At
  <2>2. q # r /\ req'[q] = [req[q] EXCEPT !.late =
                   IF Setting(req[q], req[r].user) THEN req[r].token ELSE req[q].late]
    BY <1>2 DEF MarkReset, Setting, Idle
  <2>3. req[q] \in Request
    BY <1>1
  <2>4. /\ Setting(req[q], u) /\ req'[q].token = req[q].token
        /\ req'[q].late = IF Setting(req[q], req[r].user) THEN req[r].token ELSE req[q].late
    BY <2>2, <2>3 DEF Setting, Request
  <2>5. CASE req[r].user = u
    BY <2>1, <2>4, <2>5
  <2>6. CASE req[r].user # u
    <3>1. ~Setting(req[q], req[r].user) /\ req'[q].late = req[q].late
      BY <2>4, <2>6 DEF Setting
    <3>2. outdated'[u] = outdated[u]
      BY <1>1, <1>2, <2>6 DEF MarkReset
    <3>3. QED
      BY <2>4, <3>1, <3>2 DEF OutdatedLinksResetNothing
  <2>7. QED
    BY <2>5, <2>6
<1>3. CASE \A r \in Requests : ~MarkReset(r)
  <2>1. outdated' = outdated /\ (req'[q] = req[q] \/ FindReset(q))
    BY <1>3, OthersSetNothing
  <2>2. CASE req'[q] = req[q]
    BY <2>1, <2>2 DEF OutdatedLinksResetNothing
  <2>3. CASE FindReset(q)
    <3>1. req[q] \in Request /\ req'[q] # Idle
      BY <1>1 DEF Setting, Idle
    <3>2. /\ Usable(resets[req[q].token])
          /\ req'[q] = [req[q] EXCEPT !.step = "set_password", !.user = resets[req[q].token].user]
      BY <1>1, <2>3, <3>1 DEF FindReset, End
    <3>3. req'[q].token = req[q].token
      BY <3>1, <3>2 DEF Request
    <3>4. req[q].token \in outdated[u]
      BY <2>1, <3>3
    <3>5. QED
      BY <1>1, <3>2, <3>4 DEF IInv, OutdatedAreIssued, Usable
  <2>4. QED
    BY <2>1, <2>2, <2>3
<1>4. QED
  BY <1>2, <1>3

(* Once a reset has ended, the links its user was sent before reset nothing any more, but
   in the requests that were past their lookup. *)
THEOREM OutdatedResetNothing == Spec => []OutdatedLinksResetNothing
<1>1. Init => OutdatedLinksResetNothing
  BY DEF Init, OutdatedLinksResetNothing
<1>2. QED
  BY <1>1, Invariance, OutdatedStep, PTL DEF Spec
=============================================================================
