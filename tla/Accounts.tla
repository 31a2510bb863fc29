------------------------------- MODULE Accounts -------------------------------
(***************************************************************************)
(* Accounts and the tokens mailed for them: registration, activation,      *)
(* password reset and password change (auth.service.ts), and what an       *)
(* administrator does to an account (admin-users.service.ts).  A request   *)
(* is a sequence of statements, each a step; those of a transaction show   *)
(* when it commits, but a written users row is locked, and an e-mail       *)
(* address claimed in its unique index, from the statement on.  Any        *)
(* statement may fail, and a stop of the process fails all requests.       *)
(*                                                                         *)
(* Names, clubs, password hashing and the mails (NotificationOutbox) are   *)
(* left out; who may call an operation is decided before it starts.        *)
(***************************************************************************)
EXTENDS Naturals, FiniteSets

CONSTANTS
  Users,        \* ids of the users table
  Members,      \* users that exist from the start, active and verified
  Emails, Passwords,
  Tokens,       \* ids of activation tokens, and of password reset tokens
  Requests,     \* requests under way at once
  MaxRequests,  \* bound on the requests that are started
  None

Roles == {"player", "admin", "super_admin"}

ASSUME NoneAssumption == None \notin Users \cup Emails \cup Passwords \cup Tokens \cup Roles
ASSUME MembersAssumption == Members \subseteq Users
ASSUME MaxAssumption == MaxRequests \in Nat

VARIABLES
  account,      \* users, with whether a players row belongs to it
  activation,   \* account_activation_tokens
  resets,       \* password_reset_tokens
  req,          \* the request each slot serves
  started,      \* requests started
  outdated      \* history: the reset tokens there were at the user's last reset

vars == <<account, activation, resets, req, started, outdated>>

Statuses == {"pending_verification", "active", "disabled", "deleted"}
Creates  == {"register", "invite", "create_active"}
Ops      == Creates \cup {"activate", "resend", "request_reset", "reset",
                          "change_password", "update"}
Steps    == {"insert", "commit_new", "find", "set_status", "verify", "mark_used",
             "find_user", "commit_token", "set_password", "mark_reset",
             "find_email", "update_email", "update_role", "commit_update"}

NoAccount == [status |-> "absent", role |-> None, email |-> None, password |-> None,
              verified |-> FALSE, profile |-> FALSE]
NoToken   == [user |-> None, used |-> FALSE, expired |-> FALSE]
Idle      == [op |-> "none", step |-> "idle", user |-> None, token |-> None,
              email |-> None, role |-> None, password |-> None, writes |-> {}, late |-> None]

TokenTable == [Tokens -> [user : Users \cup {None}, used : BOOLEAN, expired : BOOLEAN]]

Account    == [status : Statuses, role : Roles, email : Emails, password : Passwords,
               verified : BOOLEAN, profile : BOOLEAN]

Request    == [op : Ops \cup {"none"}, step : Steps \cup {"idle"}, user : Users \cup {None},
               token : Tokens \cup {None}, email : Emails \cup {None},
               role : Roles \cup {None}, password : Passwords \cup {None},
               writes : SUBSET {"email", "role"},
               late : Tokens \cup {None}]   \* history: the token of a reset of the same user
                                          \*   that has ended since this one's lookup

TypeOK ==
  /\ account \in [Users -> Account \cup {NoAccount}]
  /\ activation \in TokenTable /\ resets \in TokenTable
  /\ req \in [Requests -> Request]
  /\ started \in 0 .. MaxRequests
  /\ outdated \in [Users -> SUBSET Tokens]

Exists(u) == account[u].status # "absent"

Member(e, p) == [status |-> "active", role |-> "player", email |-> e, password |-> p,
                 verified |-> TRUE, profile |-> TRUE]

(* Members have been created by an administrator, with autoActivate. *)
Init ==
  /\ \E e \in [Members -> Emails], p \in Passwords :
       /\ \A u, v \in Members : e[u] = e[v] => u = v
       /\ account = [u \in Users |-> IF u \in Members THEN Member(e[u], p) ELSE NoAccount]
  /\ activation = [t \in Tokens |-> NoToken] /\ resets = [t \in Tokens |-> NoToken]
  /\ req = [r \in Requests |-> Idle]
  /\ started = 0
  /\ outdated = [u \in Users |-> {}]

-----------------------------------------------------------------------------
(* Requests *)

Begin(r, request) ==
  /\ req[r].step = "idle" /\ started < MaxRequests
  /\ started' = started + 1
  /\ req' = [req EXCEPT ![r] = request]
  /\ UNCHANGED <<account, activation, resets, outdated>>

At(r, step) == req[r].step = step
Go(r, step) == req' = [req EXCEPT ![r].step = step]
End(r)      == req' = [req EXCEPT ![r] = Idle]

(* A statement fails, or the process stops: what was not committed is gone. *)
Fails(r) ==
  /\ req[r].step # "idle"
  /\ End(r)
  /\ UNCHANGED <<account, activation, resets, started, outdated>>

(* An uncommitted UPDATE of another request than r locks the row of u. *)
LockedBy(q, u) == req[q].op = "update" /\ req[q].user = u /\ req[q].writes # {}
Locked(r, u)   == \E q \in Requests \ {r} : LockedBy(q, u)

(* The unique index on email.  A key another transaction has written, or is
   about to give up, makes the statement wait; a committed one makes it fail. *)
Claimed(r, e) ==
  \E q \in Requests \ {r} :
    /\ "email" \in req[q].writes
    /\ \/ req[q].email = e
       \/ req[q].op = "update" /\ account[req[q].user].email = e
Taken(r, e) == \E u \in Users : u # req[r].user /\ account[u].email = e

UniqueViolation(r, e) == Taken(r, e)

(* UPDATE users ... outside a transaction. *)
Write(u, r, record) ==
  /\ ~Locked(r, u)
  /\ account' = [account EXCEPT ![u] = record]

-----------------------------------------------------------------------------
(* register and adminCreateUser: user, players row and token in a transaction *)

Create(r) ==
  \E op \in Creates, e \in Emails, p \in Passwords, role \in Roles :
    /\ op = "register" => role = "player"
    /\ Begin(r, [Idle EXCEPT !.op = op, !.step = "insert", !.email = e,
                             !.password = p, !.role = role])

Insert(r) ==
  /\ At(r, "insert") /\ ~Claimed(r, req[r].email) /\ ~UniqueViolation(r, req[r].email)
  /\ req' = [req EXCEPT ![r].step = "commit_new", ![r].writes = {"email"}]
  /\ UNCHANGED <<account, activation, resets, started, outdated>>

InsertRefused(r) ==
  /\ At(r, "insert") /\ ~Claimed(r, req[r].email) /\ UniqueViolation(r, req[r].email)
  /\ End(r)
  /\ UNCHANGED <<account, activation, resets, started, outdated>>

NewAccount(q, active) ==
  [status |-> IF active THEN "active" ELSE "pending_verification", role |-> q.role,
   email |-> q.email, password |-> q.password, verified |-> active,
   profile |-> q.role = "player"]

(* account_activation_tokens or password_reset_tokens gets a row for u. *)
Issue(table, t, u) ==
  /\ table[t].user = None
  /\ table' = [table EXCEPT ![t] = [NoToken EXCEPT !.user = u]]

CommitNew(r) ==
  /\ At(r, "commit_new")
  /\ \E u \in {v \in Users : ~Exists(v)} :
       LET active == req[r].op = "create_active" IN
       /\ account' = [account EXCEPT ![u] = NewAccount(req[r], active)]
       /\ \/ active /\ UNCHANGED activation
          \/ ~active /\ \E t \in Tokens : Issue(activation, t, u)
  /\ End(r)
  /\ UNCHANGED <<resets, started, outdated>>

-----------------------------------------------------------------------------
(* activateAccount: three statements, in no transaction *)

Activate(r) == \E t \in Tokens : Begin(r, [Idle EXCEPT !.op = "activate", !.step = "find", !.token = t])

Usable(token) == token.user # None /\ ~token.used /\ ~token.expired

\* Mutant: the token is used up as it is found.
FindActivationUses(r) ==
  LET token == activation[req[r].token] IN
  /\ At(r, "find") /\ req[r].op = "activate"
  /\ IF Usable(token)
     THEN /\ req' = [req EXCEPT ![r].step = "set_status", ![r].user = token.user]
          /\ activation' = [activation EXCEPT ![req[r].token].used = TRUE]
     ELSE End(r) /\ UNCHANGED activation
  /\ UNCHANGED <<account, resets, started, outdated>>

FindActivation(r) ==
  LET token == activation[req[r].token] IN
  /\ At(r, "find") /\ req[r].op = "activate"
  /\ IF Usable(token)
     THEN req' = [req EXCEPT ![r].step = "set_status", ![r].user = token.user]
     ELSE End(r)
  /\ UNCHANGED <<account, activation, resets, started, outdated>>

SetActive(r) ==
  /\ At(r, "set_status")
  /\ LET u == req[r].user IN Write(u, r, [account[u] EXCEPT !.status = "active"])
  /\ Go(r, "verify")
  /\ UNCHANGED <<activation, resets, started, outdated>>

MarkEmailVerified(r) ==
  /\ At(r, "verify")
  /\ LET u == req[r].user IN Write(u, r, [account[u] EXCEPT !.verified = TRUE])
  /\ Go(r, "mark_used")
  /\ UNCHANGED <<activation, resets, started, outdated>>

MarkUsed(r) ==
  /\ At(r, "mark_used")
  /\ activation' = [activation EXCEPT ![req[r].token].used = TRUE]
  /\ End(r)
  /\ UNCHANGED <<account, resets, started, outdated>>

-----------------------------------------------------------------------------
(* resendActivation, requestPasswordReset: look the user up, then a transaction *)

AskForMail(r) ==
  \E op \in {"resend", "request_reset"}, e \in Emails :
    Begin(r, [Idle EXCEPT !.op = op, !.step = "find_user", !.email = e])

FindUser(r) ==
  /\ At(r, "find_user")
  /\ LET found == {u \in Users : account[u].email = req[r].email
                     /\ (req[r].op = "resend" => account[u].status = "pending_verification")}
     IN \/ \E u \in found : req' = [req EXCEPT ![r].step = "commit_token", ![r].user = u]
        \/ found = {} /\ End(r)
  /\ UNCHANGED <<account, activation, resets, started, outdated>>

CommitToken(r) ==
  /\ At(r, "commit_token")
  /\ \E t \in Tokens :
       \/ req[r].op = "resend" /\ Issue(activation, t, req[r].user) /\ UNCHANGED resets
       \/ req[r].op = "request_reset" /\ Issue(resets, t, req[r].user) /\ UNCHANGED activation
  /\ End(r)
  /\ UNCHANGED <<account, started, outdated>>

(* A token reaches its expires_at. *)
Expire(t) ==
  /\ \/ Usable(activation[t]) /\ activation' = [activation EXCEPT ![t].expired = TRUE]
        /\ UNCHANGED resets
     \/ Usable(resets[t]) /\ resets' = [resets EXCEPT ![t].expired = TRUE]
        /\ UNCHANGED activation
  /\ UNCHANGED <<account, req, started, outdated>>

-----------------------------------------------------------------------------
(* resetPassword and changePassword *)

NewPassword(r) ==
  \/ \E t \in Tokens, p \in Passwords :
       Begin(r, [Idle EXCEPT !.op = "reset", !.step = "find", !.token = t, !.password = p])
  \/ \E u \in Users, p \in Passwords :
       Begin(r, [Idle EXCEPT !.op = "change_password", !.step = "find", !.user = u, !.password = p])

FindReset(r) ==
  LET token == resets[req[r].token] IN
  /\ At(r, "find") /\ req[r].op = "reset"
  /\ IF Usable(token)
     THEN req' = [req EXCEPT ![r].step = "set_password", ![r].user = token.user]
     ELSE End(r)
  /\ UNCHANGED <<account, activation, resets, started, outdated>>

(* The caller gives the right current password, or one that is refused. *)
CheckCurrent(r) ==
  /\ At(r, "find") /\ req[r].op = "change_password"
  /\ \/ account[req[r].user].status = "active" /\ Go(r, "set_password")
     \/ End(r)
  /\ UNCHANGED <<account, activation, resets, started, outdated>>

SetPasswordHash(r) ==
  /\ At(r, "set_password")
  /\ LET u == req[r].user IN Write(u, r, [account[u] EXCEPT !.password = req[r].password])
  /\ IF req[r].op = "reset" THEN Go(r, "mark_reset") ELSE End(r)
  /\ UNCHANGED <<activation, resets, started, outdated>>

\* Mutant: the other tokens of the user stay valid.
SpendOne(t, u) == resets' = [resets EXCEPT ![t].used = TRUE]

(* markUsedAndInvalidateOthers *)
Spend(t, u) ==
  resets' = [s \in Tokens |->
    IF resets[s].user = u /\ (s = t \/ ~resets[s].expired)
    THEN [resets[s] EXCEPT !.used = TRUE] ELSE resets[s]]

(* About to set the password of u, with the token it found. *)
Setting(q, u) == q.op = "reset" /\ q.step = "set_password" /\ q.user = u

MarkReset(r) ==
  /\ At(r, "mark_reset")
  /\ Spend(req[r].token, req[r].user)
  /\ outdated' = [outdated EXCEPT ![req[r].user] = {t \in Tokens : resets[t].user = req[r].user}]
  /\ req' = [q \in Requests |->
       IF q = r THEN Idle
       ELSE [req[q] EXCEPT !.late = IF Setting(req[q], req[r].user) THEN req[r].token ELSE @]]
  /\ UNCHANGED <<account, activation, started>>

-----------------------------------------------------------------------------
(* The administrator *)

(* setUserStatus and deleteUser: one statement, in a status of any kind. *)
SetStatus(u, status) ==
  /\ started < MaxRequests /\ started' = started + 1
  /\ Exists(u)
  /\ \A q \in Requests : ~LockedBy(q, u)
  /\ account' = [account EXCEPT ![u].status = status]
  /\ UNCHANGED <<activation, resets, req, outdated>>

Update(r) ==
  \E u \in Users, e \in Emails \cup {None}, role \in Roles \cup {None} :
    Begin(r, [Idle EXCEPT !.op = "update", !.step = "find", !.user = u,
                          !.email = e, !.role = role])

CrossesBoundary(from, to) == (from = "player") # (to = "player")

(* updateUser's unlocked reads and checks: a field that is not given, or is what
   it was, is not written. *)
FindTarget(r) ==
  LET q    == req[r]
      u    == account[q.user]
      e    == IF q.email = u.email THEN None ELSE q.email
      role == IF q.role = u.role THEN None ELSE q.role
  IN
  /\ At(r, "find") /\ q.op = "update"
  /\ IF Exists(q.user) /\ (role # None => ~CrossesBoundary(u.role, role))
     THEN req' = [req EXCEPT ![r] = [q EXCEPT !.email = e, !.role = role,
            !.step = IF e # None THEN "find_email"
                     ELSE IF role # None THEN "update_role" ELSE "commit_update"]]
     ELSE End(r)
  /\ UNCHANGED <<account, activation, resets, started, outdated>>

(* findByEmail, on another connection: committed rows only. *)
FindByEmail(r) ==
  /\ At(r, "find_email")
  /\ IF Taken(r, req[r].email) THEN End(r) ELSE Go(r, "update_email")
  /\ UNCHANGED <<account, activation, resets, started, outdated>>

UpdateEmail(r) ==
  /\ At(r, "update_email")
  /\ ~Locked(r, req[r].user) /\ ~Claimed(r, req[r].email)
  /\ IF UniqueViolation(r, req[r].email) THEN End(r)
     ELSE req' = [req EXCEPT ![r].writes = {"email"},
            ![r].step = IF req[r].role # None THEN "update_role" ELSE "commit_update"]
  /\ UNCHANGED <<account, activation, resets, started, outdated>>

UpdateRole(r) ==
  /\ At(r, "update_role") /\ ~Locked(r, req[r].user)
  /\ req' = [req EXCEPT ![r].step = "commit_update", ![r].writes = @ \cup {"role"}]
  /\ UNCHANGED <<account, activation, resets, started, outdated>>

CommitUpdate(r) ==
  LET q == req[r] IN
  /\ At(r, "commit_update")
  /\ account' = [account EXCEPT
       ![q.user].email = IF "email" \in q.writes THEN q.email ELSE @,
       ![q.user].role  = IF "role" \in q.writes THEN q.role ELSE @]
  /\ End(r)
  /\ UNCHANGED <<activation, resets, started, outdated>>

-----------------------------------------------------------------------------
Step(r) ==
  \/ Insert(r) \/ InsertRefused(r) \/ CommitNew(r)
  \/ FindActivation(r) \/ SetActive(r) \/ MarkEmailVerified(r) \/ MarkUsed(r)
  \/ FindUser(r) \/ CommitToken(r)
  \/ FindReset(r) \/ CheckCurrent(r) \/ SetPasswordHash(r) \/ MarkReset(r)
  \/ FindTarget(r) \/ FindByEmail(r) \/ UpdateEmail(r) \/ UpdateRole(r) \/ CommitUpdate(r)
  \/ Fails(r)

Arrive(r) == Create(r) \/ Activate(r) \/ AskForMail(r) \/ NewPassword(r) \/ Update(r)

Next ==
  \/ \E r \in Requests : Arrive(r) \/ Step(r)
  \/ \E u \in Users, status \in {"active", "disabled", "deleted"} : SetStatus(u, status)
  \/ \E t \in Tokens : Expire(t)

Spec == Init /\ [][Next]_vars

-----------------------------------------------------------------------------
(* A link mailed for an account whose address is not verified serves until it expires,
   whatever failed in the registration or in an earlier activation and whoever changed
   the status meanwhile; every such account was sent one; and an account that
   resendActivation would serve is one a link can still verify.  (One that is active
   already, and whose links have all expired, is sent no other.) *)
LinksServeUntilVerified ==
  \A u \in Users : Exists(u) =>
    /\ account[u].verified \/ \E t \in Tokens : activation[t].user = u
    /\ \A t \in Tokens : activation[t].user = u =>
         account[u].verified \/ activation[t].expired \/ Usable(activation[t])
    /\ account[u].status = "pending_verification" => ~account[u].verified

(* An account that waits for its verification has not been verified: activation
   leaves no account behind that resendActivation serves but a token no longer can. *)
PendingIsUnverified ==
  \A u \in Users : account[u].status = "pending_verification" => ~account[u].verified

(* Players have a players row and nobody else has: updateUser checks the boundary
   on a role it read before its transaction, while other updates may commit. *)
RoleMatchesProfile ==
  \A u \in Users : Exists(u) => (account[u].role = "player" <=> account[u].profile)

(* No two accounts have one e-mail address, whatever registrations and updates
   found free before they wrote it. *)
EmailsAreUnique ==
  \A u, v \in Users : Exists(u) /\ Exists(v) /\ account[u].email = account[v].email => u = v

(* No link issued before the end of the user's last reset sets a password any more, be it
   the one that reset used, another, or one whose mail is still on its way: but in a
   request that had found it usable when that reset ended. *)
OutdatedLinksResetNothing ==
  \A r \in Requests : \A u \in Users :
    Setting(req[r], u) /\ req[r].token \in outdated[u] => req[r].late # None

(* What password-reset-tokens.repository.ts:28 says of the invalidation, and the code does
   not keep: a reset can't race with a still-valid older token.  No request has set the
   password after a reset by another token ended. *)
ResetsDoNotRace ==
  \A r \in Requests : At(r, "mark_reset") => req[r].late \in {None, req[r].token}

-----------------------------------------------------------------------------
(* The inductive invariant *)

Creating(q)  == q.step \in {"insert", "commit_new"}
Activating(q) == q.step \in {"set_status", "verify", "mark_used"}
Resetting(q) == q.op = "reset" /\ q.step \in {"set_password", "mark_reset"}
Updating(q)  == q.step \in {"find_email", "update_email", "update_role", "commit_update"}

(* What a request has, step by step: what it found is still so, in particular that a
   role it will write is on the same side of the boundary as the one it replaces. *)
HasArguments(q) ==
  /\ q.step = "find" => q.op \in {"activate", "reset", "change_password", "update"}
  /\ q.step = "find" /\ q.op \in {"activate", "reset"} => q.token \in Tokens
  /\ q.step = "find" /\ q.op \in {"change_password", "update"} => q.user \in Users
  /\ q.step = "find_user" => q.op \in {"resend", "request_reset"} /\ q.email \in Emails
  /\ q.step \in {"find", "set_password"} /\ q.op \in {"reset", "change_password"} =>
       q.password \in Passwords
  /\ Creating(q) => /\ q.op \in Creates /\ q.user = None /\ q.email \in Emails
                    /\ q.password \in Passwords /\ q.role \in Roles
  /\ Updating(q) => q.op = "update"
  /\ q.step \in {"find_email", "update_email"} => q.email \in Emails
  /\ q.step = "update_role" => q.role \in Roles

HasWritten(q) ==
  /\ q.writes # {} => q.step \in {"commit_new", "update_role", "commit_update"}
  /\ "email" \in q.writes => q.email \in Emails
  /\ "role" \in q.writes => q.role \in Roles /\ q.step = "commit_update"
  /\ q.step = "commit_new" => "email" \in q.writes

FoundAccount(q) ==
  /\ Activating(q) \/ Resetting(q) \/ Updating(q) \/ q.step \in {"commit_token", "set_password"} =>
       q.user \in Users /\ Exists(q.user)
  /\ Updating(q) /\ q.role # None => ~CrossesBoundary(account[q.user].role, q.role)
  /\ Activating(q) => /\ q.op = "activate" /\ q.token \in Tokens
                      /\ activation[q.token].user = q.user
  /\ q.step \in {"verify", "mark_used"} => account[q.user].status # "pending_verification"
  /\ q.step = "mark_used" => account[q.user].verified
  /\ Resetting(q) => q.token \in Tokens
  /\ q.step = "mark_reset" => q.op = "reset"
  /\ q.step = "set_password" => q.op \in {"reset", "change_password"}
  /\ q.step = "commit_token" => q.op \in {"resend", "request_reset"}

(* What LinksServeUntilVerified rests on: a link is used up after the verification only. *)
UnverifiedHoldLinks ==
  \A u \in Users : Exists(u) /\ ~account[u].verified =>
    \E t \in Tokens : activation[t].user = u /\ ~activation[t].used

TokensAreOwned ==
  \A t \in Tokens :
    /\ activation[t].user # None => Exists(activation[t].user)
    /\ activation[t].used => activation[t].user # None /\ account[activation[t].user].verified
    /\ resets[t].user # None => Exists(resets[t].user)

(* An address that is claimed is no other account's, and claimed once. *)
ClaimsAreUnique ==
  \A q \in Requests : "email" \in req[q].writes =>
    /\ \A u \in Users : u # req[q].user => account[u].email # req[q].email
    /\ \A r \in Requests : r # q /\ "email" \in req[r].writes => req[r].email # req[q].email

OutdatedAreIssued ==
  \A u \in Users : \A t \in outdated[u] : resets[t].user = u /\ (resets[t].used \/ resets[t].expired)

IInv ==
  /\ TypeOK
  /\ \A r \in Requests : HasArguments(req[r]) /\ HasWritten(req[r]) /\ FoundAccount(req[r])
  /\ TokensAreOwned
  /\ UnverifiedHoldLinks /\ PendingIsUnverified /\ RoleMatchesProfile
  /\ EmailsAreUnique /\ ClaimsAreUnique
  /\ OutdatedAreIssued
=============================================================================
