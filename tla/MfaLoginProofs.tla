---------------------------- MODULE MfaLoginProofs ----------------------------
(***************************************************************************)
(* The inductive invariant of MfaLogin.  Most steps move one request only  *)
(* (Moved); those that write user_mfa_methods or user_mfa_backup_codes are *)
(* treated one by one.  What happens to accounts beside them touches none  *)
(* of this module's tables.                                                *)
(***************************************************************************)
EXTENDS MfaLogin, TLAPS

(* One request moves, and may issue tokens, record its success or prove a secret. *)
LEMMA Moved ==
  ASSUME MfaInv, NEW r \in Requests, NEW new \in Served \cup {NoLogin},
         login' = [login EXCEPT ![r] = new],
         UNCHANGED <<method, codes, numbers, overlapped, spent>>,
         pending' \in SUBSET Users, proven \subseteq proven',
         sessions' \in SUBSET Number, sessions \subseteq sessions', audited' \subseteq sessions',
         new # NoLogin =>
           /\ Serves(r) /\ new.number = login[r].number
           /\ new.step \in EnrolSteps => login[r].step \in EnrolSteps
           /\ new.step = "enable" => new.seen.id # 0 /\ new.seen.secret \in proven'
                                     /\ new.seen = method[new.user]
           /\ new.op = "login" /\ new.guarded =>
                new.step \in {"user", "method"} /\ method[new.user].enabled
           /\ new.step = "audit" => new.number \in sessions'
  PROVE  MfaInv'
<1> USE DEF MfaInv
<1>1. login'[r] = new /\ \A q \in Requests : q # r => login'[q] = login[q]
  BY DEF MfaTypeOK
<1>2. NoLogin.step = "idle" /\ NoLogin.op = "none"
  BY DEF NoLogin
<1>3. MfaTypeOK'
  BY DEF MfaTypeOK
<1>4. NumbersAreFresh'
  <2>1. \A q \in Requests : login'[q].step # "idle" =>
          /\ login[q].step # "idle" /\ login'[q].number = login[q].number
          /\ login'[q].step \in EnrolSteps => login[q].step \in EnrolSteps
    BY <1>1, <1>2 DEF Serves
  <2>2. QED
    BY <2>1 DEF NumbersAreFresh, Serves
<1>5. UsableAreUnspent' /\ CodesAreSingleUse'
  BY DEF UsableAreUnspent, CodesAreSingleUse
<1>6. ConfirmedAreProven' /\ EnabledSecretsAreProven'
  BY <1>1, <1>2 DEF ConfirmedAreProven, EnabledSecretsAreProven, LoginAt
<1>7. GuardedMeetTheirMethod'
  BY <1>1, <1>2 DEF GuardedMeetTheirMethod
<1>8. SessionsComeFirst'
  BY <1>1, <1>2 DEF SessionsComeFirst, SuccessesHaveSessions, LoginAt
<1>9. QED
  BY <1>3, <1>4, <1>5, <1>6, <1>7, <1>8

(* A request that ends leaves nothing behind. *)
LEMMA LoginEnds ==
  ASSUME MfaInv, NEW r \in Requests, LoginEnd(r),
         UNCHANGED <<method, codes, numbers, overlapped, spent, sessions>>,
         pending' \in SUBSET Users, proven \subseteq proven', audited' \subseteq sessions
  PROVE  MfaInv'
<1>1. login' = [login EXCEPT ![r] = NoLogin]
  BY DEF LoginEnd
<1>2. sessions' \in SUBSET Number /\ sessions \subseteq sessions' /\ audited' \subseteq sessions'
  BY DEF MfaInv, MfaTypeOK
<1>3. QED
  BY <1>1, <1>2, Moved

(* A request that goes on to a step that asks nothing of it. *)
LEMMA LoginGoes ==
  ASSUME MfaInv, NEW r \in Requests, Serves(r),
         NEW step \in {"method", "code", "issue", "audit", "delete"},
         LoginGo(r, step),
         step = "delete" => login[r].step \in EnrolSteps,
         login[r].op = "login" /\ login[r].guarded => step = "method",
         step = "audit" => login[r].number \in sessions',
         sessions' \in SUBSET Number, sessions \subseteq sessions',
         UNCHANGED <<method, codes, pending, numbers, proven, overlapped, spent, audited>>
  PROVE  MfaInv'
<1>1. DEFINE new == [login[r] EXCEPT !.step = step]
<1>2. login[r] \in Served
  BY DEF MfaInv, MfaTypeOK, Serves, NoLogin
<1>3. /\ new \in Served /\ new.step = step /\ new.number = login[r].number
      /\ new.op = login[r].op /\ new.guarded = login[r].guarded /\ new.user = login[r].user
  BY <1>2 DEF Served, EnrolSteps
<1>4. login' = [login EXCEPT ![r] = new]
  BY DEF LoginGo
<1>5. step \in EnrolSteps => step = "delete"
  BY DEF EnrolSteps
<1>6. new.op = "login" /\ new.guarded => method[new.user].enabled
  BY <1>3 DEF MfaInv, GuardedMeetTheirMethod
<1>7. audited' \subseteq sessions' /\ pending' \in SUBSET Users
  BY DEF MfaInv, SessionsComeFirst, SuccessesHaveSessions, MfaTypeOK
<1> HIDE DEF new
<1>8. QED
  BY <1>3, <1>4, <1>5, <1>6, <1>7, Moved

-----------------------------------------------------------------------------
(* The actions *)

(* A request begins, with a number that is nobody's. *)
LEMMA StartKeeps ==
  ASSUME MfaInv, NEW r \in Requests, NEW u \in Users,
         NEW op \in {"login", "complete", "confirm", "disable"},
         NEW step \in {"user", "read", "delete_method"},
         op = "login" => step = "user", Start(r, op, step, u)
  PROVE  MfaInv'
<1> USE DEF MfaInv
<1>1. DEFINE new == [NoLogin EXCEPT !.op = op, !.step = step, !.user = u,
        !.number = numbers + 1, !.guarded = (op = "login" /\ method[u].enabled)]
<1>2. numbers \in Nat /\ MaxLogins \in Nat /\ numbers + 1 \in Number /\ numbers' = numbers + 1
  BY MaxLoginsAssumption DEF Start, MfaTypeOK, Number
<1>3. (op = "login" /\ method[u].enabled) \in BOOLEAN
  OBVIOUS
<1>4. NoMethod \in Method
  BY <1>2 DEF NoMethod, Method
<1>5. /\ new \in Served /\ new.op = op /\ new.step = step /\ new.user = u
      /\ new.number = numbers + 1
      /\ new.guarded => op = "login" /\ method[u].enabled
  BY <1>2, <1>3, <1>4 DEF Served, EnrolSteps, NoLogin
<1>6. login' = [login EXCEPT ![r] = new]
  BY DEF Start
<1>7. UNCHANGED <<method, codes, pending, proven, overlapped, spent, sessions, audited>>
  BY DEF Start
<1> HIDE DEF new
<1>8. login'[r] = new /\ \A q \in Requests : q # r => login'[q] = login[q]
  BY <1>6 DEF MfaTypeOK
<1>9. MfaTypeOK'
  BY <1>2, <1>5, <1>6, <1>7 DEF MfaTypeOK
<1>10. UsableAreUnspent' /\ CodesAreSingleUse'
  <2>1. \A n \in Number : n \in Nat
    BY DEF Number
  <2>2. \A v \in Users : codes[v] \subseteq Number
    BY DEF MfaTypeOK
  <2>3. QED
    BY <1>2, <1>7, <2>1, <2>2 DEF UsableAreUnspent, CodesAreSingleUse
<1>11. NumbersAreFresh'
  <2>1. \A q \in Requests : Serves(q) => login[q].number \in Nat /\ login[q].number <= numbers
    BY DEF NumbersAreFresh, MfaTypeOK, Serves, Served, Number, NoLogin
  <2>2. \A v \in Users : numbers + 1 \notin codes[v] /\ spent[v][numbers + 1] = 0
    BY <1>2 DEF UsableAreUnspent
  <2>3. QED
    BY <1>2, <1>5, <1>7, <1>8, <2>1, <2>2 DEF NumbersAreFresh, Serves
<1>12. ConfirmedAreProven' /\ EnabledSecretsAreProven'
  BY <1>5, <1>7, <1>8 DEF ConfirmedAreProven, EnabledSecretsAreProven, LoginAt
<1>13. GuardedMeetTheirMethod'
  BY <1>5, <1>7, <1>8 DEF GuardedMeetTheirMethod
<1>14. SessionsComeFirst'
  BY <1>5, <1>7, <1>8 DEF SessionsComeFirst, SuccessesHaveSessions, LoginAt
<1>15. QED
  BY <1>9, <1>10, <1>11, <1>12, <1>13, <1>14

LEMMA ArriveKeeps ==
  ASSUME MfaInv, NEW r \in Requests, Login(r) \/ Complete(r) \/ Confirm(r) \/ Disable(r)
  PROVE  MfaInv'
<1>1. \A u \in pending : u \in Users
  BY DEF MfaInv, MfaTypeOK
<1>2. QED
  BY <1>1, StartKeeps DEF Login, Complete, Confirm, Disable

(* login and completeMfaLogin, but for the backup code. *)
LEMMA LoginKeeps ==
  ASSUME MfaInv, NEW r \in Requests,
         \/ FindActive(r) \/ AskSecondFactor(r) \/ VerifyTotp(r) \/ IssueTokens(r)
         \/ RecordSuccess(r) \/ LoginFails(r)
  PROVE  MfaInv'
<1>1. /\ pending \in SUBSET Users /\ sessions \in SUBSET Number /\ audited \subseteq sessions
      /\ \A q \in Requests : Serves(q) => login[q] \in Served
  BY DEF MfaInv, MfaTypeOK, SessionsComeFirst, SuccessesHaveSessions, Serves, NoLogin
<1>2. login[r].op = "login" /\ login[r].guarded =>
        login[r].step \in {"user", "method"} /\ method[login[r].user].enabled
  BY DEF MfaInv, GuardedMeetTheirMethod
<1>3. CASE FindActive(r)
  BY <1>1, <1>3, LoginEnds, LoginGoes DEF FindActive, LoginAt, Serves
<1>4. CASE AskSecondFactor(r)
  <2>1. Serves(r)
    BY <1>4 DEF AskSecondFactor, LoginAt, Serves
  <2>2. login[r].user \in Users
    BY <1>1, <2>1 DEF Served
  <2>3. QED
    BY <1>1, <1>2, <1>4, <2>1, <2>2, LoginEnds, LoginGoes DEF AskSecondFactor
<1>5. CASE VerifyTotp(r)
  BY <1>1, <1>5, LoginEnds, LoginGoes DEF VerifyTotp, LoginAt, Serves
<1>6. CASE IssueTokens(r)
  <2>1. Serves(r)
    BY <1>6 DEF IssueTokens, LoginAt, Serves
  <2>2. login[r].number \in Number
    BY <1>1, <2>1 DEF Served
  <2>3. QED
    BY <1>1, <1>2, <1>6, <2>1, <2>2, LoginGoes DEF IssueTokens, LoginAt
<1>7. CASE RecordSuccess(r)
  <2>1. login[r].number \in sessions
    BY <1>7 DEF RecordSuccess, MfaInv, SessionsComeFirst
  <2>2. QED
    BY <1>1, <1>7, <2>1, LoginEnds DEF RecordSuccess
<1>8. CASE LoginFails(r)
  BY <1>1, <1>8, LoginEnds DEF LoginFails
<1>9. QED
  BY <1>3, <1>4, <1>5, <1>6, <1>7, <1>8

LEMMA PendingExpiresKeeps ==
  ASSUME MfaInv, NEW u \in Users, PendingExpires(u)
  PROVE  MfaInv'
<1> USE DEF MfaInv, PendingExpires
<1>1. MfaTypeOK'
  BY DEF MfaTypeOK
<1>2. NumbersAreFresh' /\ UsableAreUnspent' /\ CodesAreSingleUse'
  BY DEF NumbersAreFresh, UsableAreUnspent, CodesAreSingleUse, Serves
<1>3. ConfirmedAreProven' /\ EnabledSecretsAreProven'
  BY DEF ConfirmedAreProven, EnabledSecretsAreProven, LoginAt
<1>4. GuardedMeetTheirMethod' /\ SessionsComeFirst'
  BY DEF GuardedMeetTheirMethod, SessionsComeFirst, SuccessesHaveSessions, LoginAt
<1>5. QED
  BY <1>1, <1>2, <1>3, <1>4

(* consumeBackupCode takes a code that was not used, and it is not there any more. *)
LEMMA ConsumeKeeps ==
  ASSUME MfaInv, NEW r \in Requests, ConsumeBackupCode(r)
  PROVE  MfaInv'
<1> USE DEF MfaInv
<1>1. DEFINE u == login[r].user
<1>2. login[r].step = "code" /\ login[r] \in Served /\ u \in Users
  BY DEF ConsumeBackupCode, LoginAt, MfaTypeOK, NoLogin, Served
<1>3. UNCHANGED <<method, pending, numbers, proven, overlapped, sessions, audited>>
  BY DEF ConsumeBackupCode
<1>4. CASE LoginEnd(r) /\ UNCHANGED <<codes, spent>>
  BY <1>3, <1>4, LoginEnds DEF MfaTypeOK, SessionsComeFirst, SuccessesHaveSessions
<1>5. ASSUME NEW c \in codes[u],
             codes' = [codes EXCEPT ![u] = @ \ {c}],
             spent' = [spent EXCEPT ![u][c] = AtMost2(@ + 1)],
             LoginGo(r, "issue")
      PROVE  MfaInv'
  <2>1. c \in Number /\ spent[u][c] = 0
    BY <1>2 DEF MfaTypeOK, UsableAreUnspent
  <2>2. AtMost2(spent[u][c] + 1) = 1
    BY <2>1 DEF AtMost2
  <2>3. spent' = [spent EXCEPT ![u] = [spent[u] EXCEPT ![c] = 1]]
    BY <1>5, <2>2
  <2>4. spent' \in [Users -> [Number -> 0 .. 2]] /\ codes' \in [Users -> SUBSET Number]
    BY <1>2, <1>5, <2>3 DEF MfaTypeOK
  <2>5. \A v \in Users, n \in Number :
          /\ v = u /\ n = c => spent'[v][n] = 1 /\ n \notin codes'[v]
          /\ v # u \/ n # c => spent'[v][n] = spent[v][n] /\ (n \in codes'[v] => n \in codes[v])
    BY <1>2, <1>5, <2>1, <2>3 DEF MfaTypeOK
  <2>6. DEFINE new == [login[r] EXCEPT !.step = "issue"]
  <2>7. new \in Served /\ new.step = "issue" /\ new.number = login[r].number
        /\ new.op = login[r].op /\ new.guarded = login[r].guarded
    BY <1>2 DEF Served, EnrolSteps
  <2>8. login' = [login EXCEPT ![r] = new]
    BY <1>5 DEF LoginGo
  <2> HIDE DEF new
  <2>9. login'[r] = new /\ \A q \in Requests : q # r => login'[q] = login[q]
    BY <2>8 DEF MfaTypeOK
  <2>10. MfaTypeOK'
    BY <1>3, <2>4, <2>7, <2>8 DEF MfaTypeOK
  <2>11. \A v \in Users : codes'[v] \subseteq Number
    BY <2>4
  <2>12. UsableAreUnspent'
    <3>1. c <= numbers /\ c \in Nat /\ numbers \in Nat
      BY <1>2, <2>1 DEF UsableAreUnspent, Number, MfaTypeOK
    <3>2. QED
      BY <1>3, <2>5, <2>11, <3>1 DEF UsableAreUnspent
  <2>13. CodesAreSingleUse'
    <3>1. ASSUME NEW v \in Users, NEW n \in Number PROVE spent'[v][n] <= 1
      BY <2>5 DEF CodesAreSingleUse
    <3>2. QED
      BY <3>1 DEF CodesAreSingleUse
  <2>14. NumbersAreFresh'
    <3>1. ASSUME NEW q \in Requests, login'[q].step # "idle"
          PROVE  /\ Serves(q) /\ login'[q].number = login[q].number
                 /\ login[q].number \in Number
                 /\ login'[q].step \in EnrolSteps => login[q].step \in EnrolSteps
      <4>1. Serves(q) /\ login'[q].number = login[q].number
            /\ (login'[q].step \in EnrolSteps => login[q].step \in EnrolSteps)
        BY <1>2, <2>7, <2>9, <3>1 DEF Serves, EnrolSteps
      <4>2. login[q].number \in Number
        BY <4>1 DEF MfaTypeOK, Serves, NoLogin, Served
      <4>3. QED
        BY <4>1, <4>2
    <3>2. \A q \in Requests : login'[q].step \in EnrolSteps => login'[q].step # "idle"
      BY DEF EnrolSteps
    <3>3. ASSUME NEW q \in Requests, login'[q].step \in EnrolSteps, NEW v \in Users
          PROVE  login'[q].number \notin codes'[v] /\ spent'[v][login'[q].number] = 0
      <4>1. /\ Serves(q) /\ login'[q].number = login[q].number /\ login[q].number \in Number
            /\ login[q].step \in EnrolSteps
        BY <3>1, <3>2, <3>3
      <4>2. login[q].number \notin codes[v] /\ spent[v][login[q].number] = 0
        BY <4>1 DEF NumbersAreFresh
      <4>3. v # u \/ login[q].number # c
        BY <4>2
      <4>4. QED
        BY <2>5, <4>1, <4>2, <4>3
    <3>4. QED
      BY <1>3, <3>1, <3>3 DEF NumbersAreFresh, Serves
  <2>15. ConfirmedAreProven' /\ EnabledSecretsAreProven'
    BY <1>3, <2>7, <2>9 DEF ConfirmedAreProven, EnabledSecretsAreProven, LoginAt
  <2>16. GuardedMeetTheirMethod'
    BY <1>2, <1>3, <2>7, <2>9 DEF GuardedMeetTheirMethod
  <2>17. SessionsComeFirst'
    BY <1>3, <2>7, <2>9 DEF SessionsComeFirst, SuccessesHaveSessions, LoginAt
  <2>18. QED
    BY <2>10, <2>12, <2>13, <2>14, <2>15, <2>16, <2>17
<1>6. QED
  BY <1>4, <1>5 DEF ConsumeBackupCode

(* The codes of a user are replaced by a batch that is new, or by none, as the request
   ends. *)
LEMMA CodesReplaced ==
  ASSUME MfaInv, NEW r \in Requests, NEW u \in Users, NEW kept \in SUBSET codes[u],
         NEW batch \in SUBSET {login[r].number},
         batch # {} => login[r].step \in EnrolSteps,
         codes' = [codes EXCEPT ![u] = kept \cup batch],
         LoginEnd(r),
         UNCHANGED <<method, pending, numbers, proven, overlapped, spent, sessions, audited>>
  PROVE  MfaInv'
<1> USE DEF MfaInv
<1>1. login'[r] = NoLogin /\ \A q \in Requests : q # r => login'[q] = login[q]
  BY DEF LoginEnd, MfaTypeOK
<1>2. NoLogin.step = "idle" /\ NoLogin.op = "none"
  BY DEF NoLogin
<1>3. \A c \in batch : /\ Serves(r) /\ c = login[r].number /\ c \in Number /\ c <= numbers
                       /\ \A v \in Users : c \notin codes[v] /\ spent[v][c] = 0
  BY DEF NumbersAreFresh, Serves, EnrolSteps, MfaTypeOK, NoLogin, Served
<1>4. codes'[u] = kept \cup batch /\ \A v \in Users : v # u => codes'[v] = codes[v]
  BY DEF MfaTypeOK
<1>5. codes' \in [Users -> SUBSET Number] /\ login' \in [Requests -> Served \cup {NoLogin}]
  BY <1>3 DEF MfaTypeOK, LoginEnd
<1>6. MfaTypeOK'
  BY <1>5 DEF MfaTypeOK
<1>7. UsableAreUnspent' /\ CodesAreSingleUse'
  BY <1>3, <1>4 DEF UsableAreUnspent, CodesAreSingleUse
<1>8. NumbersAreFresh'
  <2>1. \A q \in Requests : login'[q].step # "idle" => Serves(q) /\ login'[q] = login[q] /\ q # r
    BY <1>1, <1>2 DEF Serves
  <2>2. ASSUME NEW q \in Requests, login'[q].step \in EnrolSteps, NEW v \in Users
        PROVE  login'[q].number \notin codes'[v] /\ spent'[v][login'[q].number] = 0
    <3>1. /\ Serves(q) /\ login'[q] = login[q] /\ q # r /\ login[q].step \in EnrolSteps
      BY <2>1, <2>2 DEF EnrolSteps
    <3>2. login[q].number \notin batch
      BY <1>3, <3>1 DEF NumbersAreFresh
    <3>3. QED
      BY <1>4, <3>1, <3>2 DEF NumbersAreFresh
  <2>3. QED
    BY <2>1, <2>2 DEF NumbersAreFresh, Serves
<1>9. ConfirmedAreProven' /\ EnabledSecretsAreProven'
  BY <1>1, <1>2 DEF ConfirmedAreProven, EnabledSecretsAreProven, LoginAt
<1>10. GuardedMeetTheirMethod' /\ SessionsComeFirst'
  BY <1>1, <1>2 DEF GuardedMeetTheirMethod, SessionsComeFirst, SuccessesHaveSessions, LoginAt
<1>11. QED
  BY <1>6, <1>7, <1>8, <1>9, <1>10

LEMMA CommitCodesKeeps ==
  ASSUME MfaInv, NEW r \in Requests, CommitCodes(r)
  PROVE  MfaInv'
<1>1. login[r].step = "insert" /\ login[r].user \in Users
  BY DEF CommitCodes, LoginAt, MfaInv, MfaTypeOK, NoLogin, Served
<1>2. codes[login[r].user] \ login[r].rows \in SUBSET codes[login[r].user]
      /\ {login[r].number} \in SUBSET {login[r].number} /\ login[r].step \in EnrolSteps
  BY <1>1 DEF EnrolSteps
<1>3. codes' = [codes EXCEPT ![login[r].user] =
                  (codes[login[r].user] \ login[r].rows) \cup {login[r].number}]
  BY DEF CommitCodes
<1>4. LoginEnd(r)
      /\ UNCHANGED <<method, pending, numbers, proven, overlapped, spent, sessions, audited>>
  BY DEF CommitCodes
<1>5. QED
  BY <1>1, <1>2, <1>3, <1>4, CodesReplaced

LEMMA DeleteCodesKeeps ==
  ASSUME MfaInv, NEW r \in Requests, DeleteCodes(r)
  PROVE  MfaInv'
<1>1. login[r].user \in Users
  BY DEF DeleteCodes, LoginAt, MfaInv, MfaTypeOK, NoLogin, Served
<1>2. {} \in SUBSET codes[login[r].user] /\ {} \in SUBSET {login[r].number}
  OBVIOUS
<1>3. codes' = [codes EXCEPT ![login[r].user] = {} \cup {}]
  BY DEF DeleteCodes
<1>4. LoginEnd(r)
      /\ UNCHANGED <<method, pending, numbers, proven, overlapped, spent, sessions, audited>>
  BY DEF DeleteCodes
<1>5. QED
  BY <1>1, <1>2, <1>3, <1>4, CodesReplaced

(* No login of u is guarded any more; a step may be the next one of its removal. *)
Unguards(u) ==
  \A q \in Requests :
    /\ Serves(q) <=> Serves(q)'
    /\ login'[q].op = login[q].op /\ login'[q].user = login[q].user
    /\ login'[q].number = login[q].number /\ login'[q].seen = login[q].seen
    /\ login'[q].guarded <=> login[q].guarded /\ login[q].user # u
    /\ \/ login'[q].step = login[q].step
       \/ login'[q].step = "delete_codes" /\ login'[q].user = u

(* The row of a user is replaced or deleted, not enabled: logins that meet another
   method are unguarded, and what a confirmation has proved counts for the row only
   if it is the same. *)
LEMMA MethodReplaced ==
  ASSUME MfaInv, NEW u \in Users, NEW m \in Method, ~m.enabled,
         method' = [method EXCEPT ![u] = m],
         numbers' \in Number, numbers <= numbers',
         overlapped \subseteq overlapped',
         \A q \in Requests : LoginAt(q, "enable") /\ login[q].user = u =>
           m.id # login[q].seen.id \/ u \in overlapped',
         login' \in [Requests -> Served \cup {NoLogin}],
         Unguards(u),
         UNCHANGED <<codes, pending, proven, spent, sessions, audited>>
  PROVE  MfaInv'
<1> USE DEF MfaInv, Unguards
<1>1. method'[u] = m /\ \A v \in Users : v # u => method'[v] = method[v]
  BY DEF MfaTypeOK
<1>2. MfaTypeOK'
  BY DEF MfaTypeOK
<1>3. numbers \in Nat /\ numbers' \in Nat /\ \A n \in Number : n \in Nat
  BY DEF MfaTypeOK, Number
<1>4. UsableAreUnspent' /\ CodesAreSingleUse'
  <2>1. \A v \in Users : codes[v] \subseteq Number
    BY DEF MfaTypeOK
  <2>2. \A k \in Number : (k <= numbers => k <= numbers') /\ (k > numbers' => k > numbers)
    BY <1>3
  <2>3. QED
    BY <2>1, <2>2 DEF UsableAreUnspent, CodesAreSingleUse
<1>5. \A q \in Requests : Serves(q) => login[q].number \in Number
  BY DEF MfaTypeOK, Serves, NoLogin, Served
<1>6. NumbersAreFresh'
  <2>1. \A q \in Requests : login'[q].step \in EnrolSteps => login[q].step \in EnrolSteps
    BY DEF EnrolSteps
  <2>2. \A q \in Requests : login'[q].step # "idle" <=> login[q].step # "idle"
    BY DEF Serves
  <2>3. ASSUME NEW q \in Requests, login[q].step # "idle"
        PROVE  /\ login'[q].number <= numbers'
               /\ \A p \in Requests :
                    login[p].step # "idle" /\ login'[p].number = login'[q].number => p = q
               /\ login'[q].step \in EnrolSteps =>
                    \A v \in Users : login'[q].number \notin codes[v]
                                      /\ spent[v][login'[q].number] = 0
    <3>1. login[q].number <= numbers /\ login[q].number \in Nat
      BY <1>3, <1>5, <2>3 DEF NumbersAreFresh, Serves
    <3>2. login[q].number <= numbers'
      BY <1>3, <3>1
    <3>3. QED
      BY <2>1, <2>3, <3>2 DEF NumbersAreFresh, Serves
  <2>4. QED
    BY <2>2, <2>3 DEF NumbersAreFresh, Serves
<1>7. ConfirmedAreProven'
  <2>1. ASSUME NEW q \in Requests, login'[q].step = "enable"
        PROVE  /\ login[q].step = "enable" /\ login[q].user \in Users
               /\ login[q].seen.id # 0 /\ login[q].seen.secret \in proven
               /\ method[login[q].user].id = login[q].seen.id =>
                    method[login[q].user].secret = login[q].seen.secret
                      \/ login[q].user \in overlapped
    BY <2>1 DEF ConfirmedAreProven, LoginAt, MfaTypeOK, NoLogin, Served
  <2>2. QED
    BY <1>1, <2>1 DEF ConfirmedAreProven, LoginAt
<1>8. EnabledSecretsAreProven'
  BY <1>1 DEF EnabledSecretsAreProven
<1>9. GuardedMeetTheirMethod'
  <2>1. ASSUME NEW q \in Requests, login'[q].op = "login", login'[q].guarded
        PROVE  /\ login'[q].step \in {"user", "method"} /\ login'[q].user \in Users
               /\ login'[q].user # u /\ method[login[q].user].enabled
    BY <2>1 DEF GuardedMeetTheirMethod, MfaTypeOK, NoLogin, Served
  <2>2. QED
    BY <1>1, <2>1 DEF GuardedMeetTheirMethod
<1>10. SessionsComeFirst'
  BY DEF SessionsComeFirst, SuccessesHaveSessions, LoginAt
<1>11. QED
  BY <1>2, <1>4, <1>6, <1>7, <1>8, <1>9, <1>10

(* What Unguarded does to a request. *)
LEMMA UnguardedTells ==
  ASSUME MfaTypeOK, NEW u \in Users
  PROVE  /\ Unguarded(u) \in [Requests -> Served \cup {NoLogin}]
         /\ \A q \in Requests :
              /\ Unguarded(u)[q].op = login[q].op /\ Unguarded(u)[q].user = login[q].user
              /\ Unguarded(u)[q].number = login[q].number /\ Unguarded(u)[q].seen = login[q].seen
              /\ Unguarded(u)[q].guarded <=> login[q].guarded /\ login[q].user # u
              /\ Unguarded(u)[q].step = login[q].step
<1>1. ASSUME NEW q \in Requests, login[q].user = u
      PROVE  /\ [login[q] EXCEPT !.guarded = FALSE] \in Served
             /\ [login[q] EXCEPT !.guarded = FALSE].guarded = FALSE
  <2>1. login[q] \in Served
    BY <1>1, NoneAssumption DEF MfaTypeOK, NoLogin
  <2>2. QED
    BY <2>1 DEF Served
<1>2. ASSUME NEW q \in Requests
      PROVE  /\ Unguarded(u)[q] \in Served \cup {NoLogin}
             /\ Unguarded(u)[q].op = login[q].op /\ Unguarded(u)[q].user = login[q].user
             /\ Unguarded(u)[q].number = login[q].number /\ Unguarded(u)[q].seen = login[q].seen
             /\ Unguarded(u)[q].guarded <=> login[q].guarded /\ login[q].user # u
             /\ Unguarded(u)[q].step = login[q].step
  <2>1. CASE login[q].user = u
    <3>1. Unguarded(u)[q] = [login[q] EXCEPT !.guarded = FALSE]
      BY <2>1 DEF Unguarded
    <3>2. QED
      BY <1>1, <2>1, <3>1
  <2>2. CASE login[q].user # u
    BY <2>2 DEF Unguarded, MfaTypeOK
  <2>3. QED
    BY <2>1, <2>2
<1>3. Unguarded(u) = [q \in Requests |-> Unguarded(u)[q]]
  BY DEF Unguarded
<1>4. QED
  BY <1>2, <1>3

(* createTotpMethod: a confirmation under way is noted as overlapped. *)
LEMMA EnrollKeeps ==
  ASSUME MfaInv, NEW u \in Users, Enroll(u)
  PROVE  MfaInv'
<1>1. numbers \in Nat /\ MaxLogins \in Nat /\ numbers' = numbers + 1 /\ numbers' \in Number
  BY MaxLoginsAssumption DEF Enroll, MfaInv, MfaTypeOK, Number
<1>2. DEFINE m == Upsert(method[u], numbers + 1)
<1>3. m \in Method /\ ~m.enabled
  BY <1>1 DEF Upsert, Method, MfaInv, MfaTypeOK, Number
<1>4. /\ method' = [method EXCEPT ![u] = m] /\ login' = Unguarded(u)
      /\ overlapped' = IF Confirming(u) THEN overlapped \cup {u} ELSE overlapped
      /\ UNCHANGED <<codes, pending, proven, spent, sessions, audited>>
  BY DEF Enroll
<1> HIDE DEF m
<1>5. \A q \in Requests : LoginAt(q, "enable") /\ login[q].user = u => u \in overlapped'
  BY <1>4 DEF Confirming, LoginAt
<1>6. overlapped \subseteq overlapped'
  BY <1>4
<1>7. numbers' \in Number /\ numbers <= numbers'
  BY <1>1
<1>8. /\ login' \in [Requests -> Served \cup {NoLogin}]
      /\ \A q \in Requests :
           /\ login'[q].op = login[q].op /\ login'[q].user = login[q].user
           /\ login'[q].number = login[q].number /\ login'[q].seen = login[q].seen
           /\ login'[q].guarded <=> login[q].guarded /\ login[q].user # u
           /\ login'[q].step = login[q].step
  BY <1>4, UnguardedTells DEF MfaInv
<1>9. Unguards(u)
  BY <1>8 DEF Unguards, Serves
<1>10. QED
  BY <1>3, <1>4, <1>5, <1>6, <1>7, <1>8, <1>9, MethodReplaced

LEMMA DeleteMethodKeeps ==
  ASSUME MfaInv, NEW r \in Requests, DeleteMethod(r)
  PROVE  MfaInv'
<1>1. DEFINE u == login[r].user
<1>2. login[r].step = "delete_method" /\ u \in Users /\ login[r] \in Served
  BY DEF DeleteMethod, LoginAt, MfaInv, MfaTypeOK, NoLogin, Served
<1>3. NoMethod \in Method /\ ~NoMethod.enabled /\ NoMethod.id = 0
  BY MaxLoginsAssumption DEF NoMethod, Method
<1>4. /\ method' = [method EXCEPT ![u] = NoMethod]
      /\ login' = [Unguarded(u) EXCEPT ![r].step = "delete_codes"]
      /\ UNCHANGED <<codes, pending, numbers, proven, overlapped, spent, sessions, audited>>
  BY DEF DeleteMethod
<1>5. numbers' \in Number /\ numbers <= numbers' /\ overlapped \subseteq overlapped'
  BY <1>4 DEF MfaInv, MfaTypeOK, Number
<1>6. \A q \in Requests : LoginAt(q, "enable") /\ login[q].user = u =>
        NoMethod.id # login[q].seen.id \/ u \in overlapped'
  BY <1>3 DEF MfaInv, ConfirmedAreProven
<1>7. DEFINE old == Unguarded(u)
<1>8. /\ old \in [Requests -> Served \cup {NoLogin}]
      /\ \A q \in Requests :
           /\ old[q].op = login[q].op /\ old[q].user = login[q].user
           /\ old[q].number = login[q].number /\ old[q].seen = login[q].seen
           /\ old[q].guarded <=> login[q].guarded /\ login[q].user # u
           /\ old[q].step = login[q].step
  BY <1>2, UnguardedTells DEF MfaInv
<1> HIDE DEF old, u
<1>9. old[r] \in Served
  BY <1>2, <1>8 DEF NoLogin
<1>10. DEFINE new == [old[r] EXCEPT !.step = "delete_codes"]
<1>11. /\ new \in Served /\ new.step = "delete_codes" /\ new.op = old[r].op
       /\ new.user = old[r].user /\ new.number = old[r].number /\ new.seen = old[r].seen
       /\ new.guarded = old[r].guarded
  BY <1>9 DEF Served
<1>12. login' = [old EXCEPT ![r] = new]
  BY <1>4 DEF old, u
<1> HIDE DEF new
<1>13. login'[r] = new /\ \A q \in Requests : q # r => login'[q] = old[q]
  BY <1>8, <1>12
<1>14. login' \in [Requests -> Served \cup {NoLogin}]
  BY <1>8, <1>11, <1>12
<1>15. Unguards(u)
  BY <1>2, <1>8, <1>11, <1>13 DEF Unguards, Serves, u
<1>16. QED
  BY <1>2, <1>3, <1>4, <1>5, <1>6, <1>14, <1>15, MethodReplaced

(* verifyEnrolment: the secret that was read is proved. *)
LEMMA VerifyEnrolmentKeeps ==
  ASSUME MfaInv, NEW r \in Requests, VerifyEnrolment(r)
  PROVE  MfaInv'
<1>1. DEFINE read == method[login[r].user]
             new == [login[r] EXCEPT !.step = "enable", !.seen = read]
<1>2. login[r].step = "read" /\ login[r].user \in Users /\ login[r] \in Served
  BY DEF VerifyEnrolment, LoginAt, MfaInv, MfaTypeOK, NoLogin, Served
<1>3. /\ UNCHANGED <<method, codes, pending, numbers, overlapped, spent, sessions, audited>>
      /\ pending \in SUBSET Users /\ sessions \in SUBSET Number /\ audited \subseteq sessions
  BY DEF VerifyEnrolment, MfaInv, MfaTypeOK, SessionsComeFirst, SuccessesHaveSessions
<1>4. CASE LoginEnd(r) /\ UNCHANGED proven
  BY <1>3, <1>4, LoginEnds
<1>5. CASE /\ read.id # 0
           /\ login' = [login EXCEPT ![r].step = "enable", ![r].seen = read]
           /\ proven' = proven \cup {read.secret}
  <2>1. read \in Method
    BY <1>2 DEF MfaInv, MfaTypeOK
  <2>2. /\ new \in Served /\ new.step = "enable" /\ new.number = login[r].number
        /\ new.seen = read /\ new.user = login[r].user /\ new.op = login[r].op
        /\ new.guarded = login[r].guarded
    BY <1>2, <2>1 DEF Served, EnrolSteps
  <2>3. login' = [login EXCEPT ![r] = new]
    BY <1>5
  <2>4. ~(login[r].op = "login" /\ login[r].guarded)
    BY <1>2 DEF MfaInv, GuardedMeetTheirMethod
  <2>5. login[r].step \in EnrolSteps /\ Serves(r) /\ new.seen = method[new.user]
    BY <1>2, <2>2 DEF EnrolSteps, Serves
  <2>6. new.seen.id # 0 /\ new.seen.secret \in proven' /\ proven \subseteq proven'
    BY <1>5, <2>2
  <2> HIDE DEF new, read
  <2>7. QED
    BY <1>3, <2>2, <2>3, <2>4, <2>5, <2>6, Moved
<1>6. QED
  BY <1>4, <1>5 DEF VerifyEnrolment

LEMMA DeleteOldCodesKeeps ==
  ASSUME MfaInv, NEW r \in Requests, DeleteOldCodes(r)
  PROVE  MfaInv'
<1>1. DEFINE new == [login[r] EXCEPT !.step = "insert", !.rows = codes[login[r].user]]
<1>2. login[r].step = "delete" /\ login[r].user \in Users /\ login[r] \in Served
  BY DEF DeleteOldCodes, LoginAt, MfaInv, MfaTypeOK, NoLogin, Served
<1>3. /\ UNCHANGED <<method, codes, pending, numbers, proven, overlapped, spent, sessions,
                     audited>>
      /\ pending \in SUBSET Users /\ sessions \in SUBSET Number /\ audited \subseteq sessions
  BY DEF DeleteOldCodes, MfaInv, MfaTypeOK, SessionsComeFirst, SuccessesHaveSessions
<1>4. codes[login[r].user] \in SUBSET Number
  BY <1>2 DEF MfaInv, MfaTypeOK
<1>5. /\ new \in Served /\ new.step = "insert" /\ new.number = login[r].number
      /\ new.op = login[r].op /\ new.guarded = login[r].guarded
  BY <1>2, <1>4 DEF Served, EnrolSteps
<1>6. login' = [login EXCEPT ![r] = new]
  BY DEF DeleteOldCodes
<1>7. ~(login[r].op = "login" /\ login[r].guarded) /\ login[r].step \in EnrolSteps /\ Serves(r)
  BY <1>2 DEF MfaInv, GuardedMeetTheirMethod, EnrolSteps, Serves
<1> HIDE DEF new
<1>8. QED
  BY <1>3, <1>5, <1>6, <1>7, Moved

(* enableMethod: the row that was read, if it is still there, has the secret that was
   proved, unless an enrolment came between. *)
LEMMA EnableMethodKeeps ==
  ASSUME MfaInv, NEW r \in Requests, EnableMethod(r)
  PROVE  MfaInv'
<1> USE DEF MfaInv
<1>1. DEFINE u == login[r].user
             new == [login[r] EXCEPT !.step = "delete"]
<1>2. login[r].step = "enable" /\ u \in Users /\ login[r] \in Served
  BY DEF EnableMethod, LoginAt, MfaTypeOK, NoLogin, Served
<1>3. /\ new \in Served /\ new.step = "delete" /\ new.number = login[r].number
      /\ new.op = login[r].op /\ new.guarded = login[r].guarded
  BY <1>2 DEF Served, EnrolSteps
<1>4. login' = [login EXCEPT ![r] = new]
  BY DEF EnableMethod, LoginGo
<1>5. UNCHANGED <<codes, pending, numbers, proven, overlapped, spent, sessions, audited>>
  BY DEF EnableMethod
<1>6. ~(login[r].op = "login" /\ login[r].guarded)
  BY <1>2 DEF GuardedMeetTheirMethod
<1>7. /\ method' \in [Users -> Method]
      /\ \A v \in Users : /\ method'[v].id = method[v].id /\ method'[v].secret = method[v].secret
                          /\ method[v].enabled => method'[v].enabled
                          /\ ~method[v].enabled /\ method'[v].enabled =>
                               v = u /\ method[u].id = login[r].seen.id
  <2>1. method \in [Users -> Method]
    BY DEF MfaTypeOK
  <2>2. DEFINE row == [method[u] EXCEPT !.enabled = TRUE]
  <2>3. row \in Method /\ row.id = method[u].id /\ row.secret = method[u].secret /\ row.enabled
    BY <1>2, <2>1 DEF Method
  <2>4. method' = [method EXCEPT ![u] = row] \/ method' = method
    BY DEF EnableMethod
  <2>5. method' # method => method[u].id = login[r].seen.id
    BY DEF EnableMethod
  <2> HIDE DEF row
  <2>6. CASE method' = method
    BY <2>1, <2>6
  <2>7. CASE method' = [method EXCEPT ![u] = row] /\ method' # method
    BY <1>2, <2>1, <2>3, <2>5, <2>7
  <2>8. QED
    BY <2>4, <2>6, <2>7
<1> HIDE DEF new
<1>8. login'[r] = new /\ \A q \in Requests : q # r => login'[q] = login[q]
  BY <1>4 DEF MfaTypeOK
<1>9. MfaTypeOK'
  BY <1>3, <1>4, <1>5, <1>7 DEF MfaTypeOK
<1>10. NumbersAreFresh'
  BY <1>2, <1>3, <1>5, <1>8 DEF NumbersAreFresh, Serves, EnrolSteps
<1>11. UsableAreUnspent' /\ CodesAreSingleUse'
  BY <1>5 DEF UsableAreUnspent, CodesAreSingleUse
<1>12. ConfirmedAreProven'
  <2>1. ASSUME NEW q \in Requests, login'[q].step = "enable"
        PROVE  login'[q] = login[q] /\ login[q].user \in Users
    BY <1>3, <1>8, <2>1 DEF MfaTypeOK, NoLogin, Served
  <2>2. QED
    BY <1>5, <1>7, <2>1 DEF ConfirmedAreProven, LoginAt
<1>13. EnabledSecretsAreProven'
  BY <1>2, <1>5, <1>7 DEF EnabledSecretsAreProven, ConfirmedAreProven, LoginAt
<1>14. GuardedMeetTheirMethod'
  <2>1. ASSUME NEW q \in Requests, login'[q].op = "login", login'[q].guarded
        PROVE  login'[q] = login[q] /\ login[q].user \in Users
    BY <1>3, <1>6, <1>8, <2>1 DEF GuardedMeetTheirMethod, MfaTypeOK, NoLogin, Served
  <2>2. QED
    BY <1>7, <2>1 DEF GuardedMeetTheirMethod
<1>15. SessionsComeFirst'
  BY <1>3, <1>5, <1>8 DEF SessionsComeFirst, SuccessesHaveSessions, LoginAt
<1>16. QED
  BY <1>9, <1>10, <1>11, <1>12, <1>13, <1>14, <1>15

-----------------------------------------------------------------------------
(* The theorems *)

(* Members have proved the secret they have, and have a code nobody has used. *)
LEMMA MfaInitHolds == MfaInit => MfaInv
<1> SUFFICES ASSUME MfaInit PROVE MfaInv
  OBVIOUS
<1>1. PICK enrolled \in SUBSET Members :
        /\ method = [u \in Users |-> IF u \in enrolled THEN Enabled(1) ELSE NoMethod]
        /\ codes = [u \in Users |-> IF u \in enrolled THEN {1} ELSE {}]
  BY DEF MfaInit
<1>2. /\ login = [r \in Requests |-> NoLogin] /\ pending = {} /\ numbers = 1
      /\ proven = {1} /\ spent = [u \in Users |-> [n \in Number |-> 0]]
      /\ sessions = {} /\ audited = {}
  BY DEF MfaInit
<1>3. MaxLogins \in Nat /\ 1 \in Number /\ \A n \in Number : n \in Nat
  BY MaxLoginsAssumption DEF Number
<1>4. Enabled(1) \in Method /\ NoMethod \in Method /\ Enabled(1).secret = 1 /\ ~NoMethod.enabled
  BY <1>3, MaxLoginsAssumption DEF Enabled, NoMethod, Method
<1>5. NoLogin.step = "idle" /\ NoLogin.op = "none"
  BY DEF NoLogin
<1>6. MfaTypeOK
  BY <1>1, <1>2, <1>3, <1>4 DEF MfaTypeOK
<1>7. NumbersAreFresh /\ ConfirmedAreProven /\ GuardedMeetTheirMethod /\ SessionsComeFirst
  BY <1>2, <1>5 DEF NumbersAreFresh, ConfirmedAreProven, GuardedMeetTheirMethod,
     SessionsComeFirst, SuccessesHaveSessions, Serves, LoginAt
<1>8. UsableAreUnspent /\ CodesAreSingleUse
  BY <1>1, <1>2, <1>3 DEF UsableAreUnspent, CodesAreSingleUse
<1>9. EnabledSecretsAreProven
  BY <1>1, <1>2, <1>4 DEF EnabledSecretsAreProven
<1>10. QED
  BY <1>6, <1>7, <1>8, <1>9 DEF MfaInv

(* What keeps the promises: numbers given out once, codes struck out as they are
   accepted, and a proof that stays with the row it was read from. *)
THEOREM MfaInvariance == MfaSpec => []MfaInv
<1>1. SystemInit => MfaInv
  BY MfaInitHolds DEF SystemInit
<1>2. MfaInv /\ [SystemNext]_<<vars, mfaVars>> => MfaInv'
  <2> SUFFICES ASSUME MfaInv, [SystemNext]_<<vars, mfaVars>> PROVE MfaInv'
    OBVIOUS
  <2>1. CASE UNCHANGED mfaVars
    BY <2>1 DEF mfaVars, MfaInv, MfaTypeOK, NumbersAreFresh, UsableAreUnspent,
       CodesAreSingleUse, ConfirmedAreProven, EnabledSecretsAreProven, GuardedMeetTheirMethod,
       SessionsComeFirst, SuccessesHaveSessions, Serves, LoginAt
  <2>2. ASSUME NEW r \in Requests,
               Login(r) \/ Complete(r) \/ Confirm(r) \/ Disable(r) \/ LoginStep(r)
        PROVE  MfaInv'
    BY <2>2, ArriveKeeps, LoginKeeps, ConsumeKeeps, VerifyEnrolmentKeeps, EnableMethodKeeps,
       DeleteOldCodesKeeps, CommitCodesKeeps, DeleteMethodKeeps, DeleteCodesKeeps
       DEF LoginStep
  <2>3. ASSUME NEW u \in Users, Enroll(u) \/ PendingExpires(u)
        PROVE  MfaInv'
    BY <2>3, EnrollKeeps, PendingExpiresKeeps
  <2>4. QED
    BY <2>1, <2>2, <2>3 DEF SystemNext, MfaNext
<1>3. QED
  BY <1>1, <1>2, PTL DEF MfaSpec

(* A backup code is accepted once, whatever logins present it and whatever replaces
   the codes meanwhile. *)
THEOREM SingleUseCodes == MfaSpec => []CodesAreSingleUse
BY MfaInvariance, PTL DEF MfaInv

(* The second factor that is asked for has been proved, or its enrolment ran into a
   confirmation. *)
THEOREM ProvenSecrets == MfaSpec => []EnabledSecretsAreProven
BY MfaInvariance, PTL DEF MfaInv

(* A login whose user has one enabled method throughout does not issue tokens for the
   password alone. *)
THEOREM AskedForSecond == MfaSpec => []SecondFactorIsAsked
<1>1. MfaInv => SecondFactorIsAsked
  BY DEF MfaInv, GuardedMeetTheirMethod, SecondFactorIsAsked
<1>2. QED
  BY <1>1, MfaInvariance, PTL

(* No record of a success without the session it speaks of. *)
THEOREM RecordedSuccesses == MfaSpec => []SuccessesHaveSessions
BY MfaInvariance, PTL DEF MfaInv, SessionsComeFirst

(* Logins leave the accounts alone: what AccountsProofs shows of Accounts holds beside
   them too. *)
THEOREM AccountsUndisturbed == MfaSpec => Spec
<1>1. SystemInit => Init
  BY DEF SystemInit
<1>2. [SystemNext]_<<vars, mfaVars>> => [Next]_vars
  BY DEF SystemNext
<1>3. QED
  BY <1>1, <1>2, PTL DEF MfaSpec, Spec

=============================================================================
