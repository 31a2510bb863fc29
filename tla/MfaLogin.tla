------------------------------- MODULE MfaLogin -------------------------------
(***************************************************************************)
(* Logging in with a password and a second factor (login, completeMfaLogin *)
(* in auth.service.ts), enrolling an authenticator and the backup codes    *)
(* that replace it (mfa.service.ts, mfa.repository.ts), beside everything  *)
(* that happens to accounts.  Again each statement is a step, any may      *)
(* fail, and the writes of a transaction show when it commits.             *)
(*                                                                         *)
(* A secret is a number, and the row of user_mfa_methods is named by its   *)
(* first secret: enrolling again replaces the secret of the row.  A batch  *)
(* of backup codes is one code; a pending token is its user.               *)
(***************************************************************************)
EXTENDS Accounts

CONSTANT MaxLogins   \* bound on the numbers given to this module's requests

ASSUME MaxLoginsAssumption == MaxLogins \in Nat \ {0}

VARIABLES
  method,      \* user_mfa_methods
  codes,       \* user_mfa_backup_codes that are not used, by number
  login,       \* the request each slot serves
  pending,     \* users that hold an MFA pending token
  numbers,     \* secrets, batches of codes and requests so far
  proven,      \* history: secrets a code was given for
  overlapped,  \* history: users who enrolled while a confirmation was under way
  spent,       \* history: how often each code of a user was accepted (to 2)
  sessions,    \* history: logins that issued tokens
  audited      \* login_attempts with outcome success

mfaVars == <<method, codes, login, pending, numbers, proven, overlapped, spent,
             sessions, audited>>

Number == 1 .. MaxLogins

NoMethod == [id |-> 0, secret |-> 0, enabled |-> FALSE]
NoLogin  == [op |-> "none", step |-> "idle", user |-> None, number |-> 0,
             seen |-> NoMethod, rows |-> {}, guarded |-> FALSE]

Enabled(n) == [id |-> n, secret |-> n, enabled |-> TRUE]

(* Some members have enrolled: each has proved secret 1 and got batch 1 of codes. *)
MfaInit ==
  /\ \E enrolled \in SUBSET Members :
       /\ method = [u \in Users |-> IF u \in enrolled THEN Enabled(1) ELSE NoMethod]
       /\ codes = [u \in Users |-> IF u \in enrolled THEN {1} ELSE {}]
  /\ login = [r \in Requests |-> NoLogin]
  /\ pending = {} /\ numbers = 1 /\ proven = {1} /\ overlapped = {}
  /\ spent = [u \in Users |-> [n \in Number |-> 0]]
  /\ sessions = {} /\ audited = {}

-----------------------------------------------------------------------------
(* A request takes the next number: the secret, the batch or the session it makes. *)
Start(r, op, step, u) ==
  /\ login[r].step = "idle" /\ numbers < MaxLogins
  /\ numbers' = numbers + 1
  /\ login' = [login EXCEPT ![r] = [NoLogin EXCEPT !.op = op, !.step = step, !.user = u,
       !.number = numbers + 1, !.guarded = (op = "login" /\ method[u].enabled)]]
  /\ UNCHANGED <<method, codes, pending, proven, overlapped, spent, sessions, audited>>

LoginAt(r, step) == login[r].step = step
LoginGo(r, step) == login' = [login EXCEPT ![r].step = step]
LoginEnd(r)      == login' = [login EXCEPT ![r] = NoLogin]

LoginFails(r) ==
  /\ login[r].step # "idle"
  /\ LoginEnd(r)
  /\ UNCHANGED <<method, codes, pending, numbers, proven, overlapped, spent, sessions, audited>>

-----------------------------------------------------------------------------
(* login and completeMfaLogin *)

Login(r)    == \E u \in Users : Exists(u) /\ Start(r, "login", "user", u)
Complete(r) == \E u \in pending : Start(r, "complete", "user", u)

(* findByEmail or findById: the account must be active, and the password right. *)
FindActive(r) ==
  /\ LoginAt(r, "user")
  /\ \/ account[login[r].user].status = "active" /\ LoginGo(r, "method")
     \/ LoginEnd(r)
  /\ UNCHANGED <<method, codes, pending, numbers, proven, overlapped, spent, sessions, audited>>

\* Mutant: a method is looked for when the tokens are out.
AskSecondFactorLate(r) ==
  LET u == login[r].user IN
  /\ LoginAt(r, "method") /\ login[r].op = "login"
  /\ LoginGo(r, "issue")
  /\ UNCHANGED <<method, codes, pending, numbers, proven, overlapped, spent, sessions, audited>>

(* getTotpMethod in login: tokens at once, or a pending token. *)
AskSecondFactor(r) ==
  LET u == login[r].user IN
  /\ LoginAt(r, "method") /\ login[r].op = "login"
  /\ IF method[u].enabled
     THEN pending' = pending \cup {u} /\ LoginEnd(r)
     ELSE LoginGo(r, "issue") /\ UNCHANGED pending
  /\ UNCHANGED <<method, codes, numbers, proven, overlapped, spent, sessions, audited>>

(* verifyLoginCode: a code of the authenticator, or else perhaps a backup code. *)
VerifyTotp(r) ==
  LET u == login[r].user IN
  /\ LoginAt(r, "method") /\ login[r].op = "complete"
  /\ \/ method[u].enabled /\ LoginGo(r, "issue")
     \/ method[u].enabled /\ LoginGo(r, "code")
     \/ ~method[u].enabled /\ LoginEnd(r)
  /\ UNCHANGED <<method, codes, pending, numbers, proven, overlapped, spent, sessions, audited>>

AtMost2(k) == IF k < 2 THEN k ELSE 2

(* A row another transaction is deleting. *)
BeingDeleted(c) == \E q \in Requests : login[q].step = "insert" /\ c \in login[q].rows

\* Mutant: the UPDATE does not ask for used_at IS NULL.
ConsumeAgain(r) ==
  LET u == login[r].user IN
  /\ LoginAt(r, "code")
  /\ \/ \E c \in codes[u] :
          /\ ~BeingDeleted(c)
          /\ spent' = [spent EXCEPT ![u][c] = AtMost2(@ + 1)]
          /\ LoginGo(r, "issue")
     \/ LoginEnd(r) /\ UNCHANGED spent
  /\ UNCHANGED <<method, codes, pending, numbers, proven, overlapped, sessions, audited>>

(* consumeBackupCode: one UPDATE that takes an unused row. *)
ConsumeBackupCode(r) ==
  LET u == login[r].user IN
  /\ LoginAt(r, "code")
  /\ \/ \E c \in codes[u] :
          /\ ~BeingDeleted(c)
          /\ codes' = [codes EXCEPT ![u] = @ \ {c}]
          /\ spent' = [spent EXCEPT ![u][c] = AtMost2(@ + 1)]
          /\ LoginGo(r, "issue")
     \/ LoginEnd(r) /\ UNCHANGED <<codes, spent>>
  /\ UNCHANGED <<method, pending, numbers, proven, overlapped, sessions, audited>>

\* Mutant: the attempt is recorded first.
IssueTokensAudited(r) ==
  /\ LoginAt(r, "issue")
  /\ audited' = audited \cup {login[r].number}
  /\ LoginGo(r, "audit")
  /\ UNCHANGED <<method, codes, pending, numbers, proven, overlapped, spent, sessions>>

(* issueTokens: the row in refresh_tokens. *)
IssueTokens(r) ==
  /\ LoginAt(r, "issue")
  /\ sessions' = sessions \cup {login[r].number}
  /\ LoginGo(r, "audit")
  /\ UNCHANGED <<method, codes, pending, numbers, proven, overlapped, spent, audited>>

(* recordAttempt: best effort, a failure is only logged. *)
RecordSuccess(r) ==
  /\ LoginAt(r, "audit")
  /\ \/ audited' = audited \cup {login[r].number}
     \/ UNCHANGED audited
  /\ LoginEnd(r)
  /\ UNCHANGED <<method, codes, pending, numbers, proven, overlapped, spent, sessions>>

(* The pending token expires. *)
PendingExpires(u) ==
  /\ u \in pending /\ pending' = pending \ {u}
  /\ UNCHANGED <<method, codes, login, numbers, proven, overlapped, spent, sessions, audited>>

-----------------------------------------------------------------------------
(* Enrolment and recovery *)

(* The method of u is another: a login that began under the old one may miss it. *)
Unguarded(u) == [q \in Requests |->
  IF login[q].user = u THEN [login[q] EXCEPT !.guarded = FALSE] ELSE login[q]]

Confirming(u) == \E q \in Requests : login[q].user = u /\ login[q].step = "enable"

\* Mutant: ON CONFLICT replaces the secret only.
UpsertSecret(old, secret) ==
  [id |-> IF old.id = 0 THEN secret ELSE old.id, secret |-> secret, enabled |-> old.enabled]

(* createTotpMethod: a new row, or a new secret in the row there is. *)
Upsert(old, secret) ==
  [id |-> IF old.id = 0 THEN secret ELSE old.id, secret |-> secret, enabled |-> FALSE]

Enroll(u) ==
  /\ Exists(u) /\ numbers < MaxLogins
  /\ numbers' = numbers + 1
  /\ method' = [method EXCEPT ![u] = Upsert(@, numbers + 1)]
  /\ overlapped' = IF Confirming(u) THEN overlapped \cup {u} ELSE overlapped
  /\ login' = Unguarded(u)
  /\ UNCHANGED <<codes, pending, proven, spent, sessions, audited>>

Confirm(r) == \E u \in Users : Exists(u) /\ Start(r, "confirm", "read", u)

(* getTotpMethod and verify: the code is right for the secret that was read. *)
VerifyEnrolment(r) ==
  LET read == method[login[r].user] IN
  /\ LoginAt(r, "read")
  /\ \/ /\ read.id # 0
        /\ login' = [login EXCEPT ![r].step = "enable", ![r].seen = read]
        /\ proven' = proven \cup {read.secret}
     \/ LoginEnd(r) /\ UNCHANGED proven
  /\ UNCHANGED <<method, codes, pending, numbers, overlapped, spent, sessions, audited>>

(* enableMethod: UPDATE ... WHERE id = the row that was read. *)
EnableMethod(r) ==
  LET u == login[r].user IN
  /\ LoginAt(r, "enable")
  /\ method' = IF method[u].id = login[r].seen.id
               THEN [method EXCEPT ![u].enabled = TRUE] ELSE method
  /\ LoginGo(r, "delete")
  /\ UNCHANGED <<codes, pending, numbers, proven, overlapped, spent, sessions, audited>>

(* createBackupCodes: DELETE the rows that are there, INSERT a batch, COMMIT. *)
DeleteOldCodes(r) ==
  LET u == login[r].user IN
  /\ LoginAt(r, "delete")
  /\ login' = [login EXCEPT ![r].step = "insert", ![r].rows = codes[u]]
  /\ UNCHANGED <<method, codes, pending, numbers, proven, overlapped, spent, sessions, audited>>

CommitCodes(r) ==
  LET u == login[r].user IN
  /\ LoginAt(r, "insert")
  /\ codes' = [codes EXCEPT ![u] = (@ \ login[r].rows) \cup {login[r].number}]
  /\ LoginEnd(r)
  /\ UNCHANGED <<method, pending, numbers, proven, overlapped, spent, sessions, audited>>

(* disableMfa: two statements. *)
Disable(r) == \E u \in Users : Exists(u) /\ Start(r, "disable", "delete_method", u)

DeleteMethod(r) ==
  LET u == login[r].user IN
  /\ LoginAt(r, "delete_method")
  /\ method' = [method EXCEPT ![u] = NoMethod]
  /\ login' = [Unguarded(u) EXCEPT ![r].step = "delete_codes"]
  /\ UNCHANGED <<codes, pending, numbers, proven, overlapped, spent, sessions, audited>>

DeleteCodes(r) ==
  LET u == login[r].user IN
  /\ LoginAt(r, "delete_codes")
  /\ codes' = [codes EXCEPT ![u] = {}]
  /\ LoginEnd(r)
  /\ UNCHANGED <<method, pending, numbers, proven, overlapped, spent, sessions, audited>>

-----------------------------------------------------------------------------
LoginStep(r) ==
  \/ FindActive(r) \/ AskSecondFactor(r) \/ VerifyTotp(r) \/ ConsumeBackupCode(r)
  \/ IssueTokens(r) \/ RecordSuccess(r)
  \/ VerifyEnrolment(r) \/ EnableMethod(r) \/ DeleteOldCodes(r) \/ CommitCodes(r)
  \/ DeleteMethod(r) \/ DeleteCodes(r)
  \/ LoginFails(r)

MfaNext ==
  \/ \E r \in Requests : Login(r) \/ Complete(r) \/ Confirm(r) \/ Disable(r) \/ LoginStep(r)
  \/ \E u \in Users : Enroll(u) \/ PendingExpires(u)

(* Accounts and logins side by side: a login only reads the account. *)
SystemInit == Init /\ MfaInit
SystemNext == (Next /\ UNCHANGED mfaVars) \/ (MfaNext /\ UNCHANGED vars)

MfaSpec == SystemInit /\ [][SystemNext]_<<vars, mfaVars>>

-----------------------------------------------------------------------------
(* A backup code lets somebody in once, however many logins present it at once and
   whatever replaces the codes meanwhile. *)
CodesAreSingleUse == \A u \in Users, n \in Number : spent[u][n] <= 1

(* The second factor that is asked for is one a code was given for.  Only an
   enrolment that runs into a confirmation can enable a secret nobody proved. *)
EnabledSecretsAreProven ==
  \A u \in Users : method[u].enabled => method[u].secret \in proven \/ u \in overlapped

(* No login that met the same enabled method from its start to its end issues tokens
   for the password alone. *)
SecondFactorIsAsked ==
  \A r \in Requests : login[r].op = "login" /\ login[r].guarded =>
    login[r].step \notin {"issue", "audit"}

(* A recorded success is the success of a login whose session exists: no failure
   between the two leaves a record of a session that never was. *)
SuccessesHaveSessions == audited \subseteq sessions
-----------------------------------------------------------------------------
(* The inductive invariant *)

Method == [id : 0 .. MaxLogins, secret : 0 .. MaxLogins, enabled : BOOLEAN]

EnrolSteps == {"read", "enable", "delete", "insert"}

Served == [op : {"login", "complete", "confirm", "disable"},
           step : EnrolSteps \cup {"user", "method", "code", "issue", "audit",
                                   "delete_method", "delete_codes"},
           user : Users, number : Number, seen : Method, rows : SUBSET Number,
           guarded : BOOLEAN]

MfaTypeOK ==
  /\ method \in [Users -> Method] /\ codes \in [Users -> SUBSET Number]
  /\ login \in [Requests -> Served \cup {NoLogin}]
  /\ pending \in SUBSET Users /\ numbers \in Number
  /\ spent \in [Users -> [Number -> 0 .. 2]]
  /\ sessions \in SUBSET Number /\ audited \in SUBSET Number

Serves(r) == login[r].step # "idle"

(* Requests under way have numbers of their own, given out already; a confirmation's
   is not yet that of a batch. *)
NumbersAreFresh ==
  \A r \in Requests : Serves(r) =>
    /\ login[r].number <= numbers
    /\ \A q \in Requests : Serves(q) /\ login[q].number = login[r].number => q = r
    /\ login[r].step \in EnrolSteps =>
         \A u \in Users : login[r].number \notin codes[u] /\ spent[u][login[r].number] = 0

(* Codes that can be used have not been, and numbers not given out are of no code. *)
UsableAreUnspent ==
  \A u \in Users :
    /\ \A c \in codes[u] : c <= numbers /\ spent[u][c] = 0
    /\ \A n \in Number : n > numbers => spent[u][n] = 0

(* What a confirmation is about to enable has been proved, unless the row has another
   secret by now. *)
ConfirmedAreProven ==
  \A r \in Requests : LoginAt(r, "enable") =>
    LET u == login[r].user IN
    /\ login[r].seen.id # 0 /\ login[r].seen.secret \in proven
    /\ method[u].id = login[r].seen.id =>
         method[u].secret = login[r].seen.secret \/ u \in overlapped

(* A guarded login has its method still before it. *)
GuardedMeetTheirMethod ==
  \A r \in Requests : login[r].op = "login" /\ login[r].guarded =>
    login[r].step \in {"user", "method"} /\ method[login[r].user].enabled

(* A session is there before its record. *)
SessionsComeFirst ==
  SuccessesHaveSessions /\ \A r \in Requests : LoginAt(r, "audit") => login[r].number \in sessions

MfaInv ==
  /\ MfaTypeOK
  /\ NumbersAreFresh /\ UsableAreUnspent /\ CodesAreSingleUse
  /\ ConfirmedAreProven /\ EnabledSecretsAreProven
  /\ GuardedMeetTheirMethod /\ SessionsComeFirst
=============================================================================
