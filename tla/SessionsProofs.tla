---------------------------- MODULE SessionsProofs ----------------------------
(***************************************************************************)
(* The inductive invariant of Sessions, and what follows from it.  Two     *)
(* lemmas carry the argument: what a page's SetTokens does when it loses   *)
(* its pair (SessionLost) and when it gets one (SessionGained).  A second  *)
(* part adds that unshared sessions go on, one token at a time.            *)
(***************************************************************************)
EXTENDS Sessions, FiniteSetTheorems, TLAPS

(* What setTokens does to the page's variables. *)
LEMMA SetTokensFacts ==
  ASSUME TypeOK, NEW t \in Tab, NEW n \in Number, NEW k \in Number, SetTokens(t, n, k)
  PROVE  /\ mem' \in [Tab -> Number] /\ stored' = n
         /\ exchange' \in [Tab -> [tok : Number, fresh : BOOLEAN]]
         /\ mem'[t] = n /\ exchange'[t].tok = k /\ ~exchange'[t].fresh
         /\ \A u \in Tab : u # t => mem'[u] = mem[u] /\ exchange'[u] = exchange[u]
BY DEF TypeOK, SetTokens

(* What holding a pair does to the history of its page loads. *)
LEMMA HoldFacts ==
  ASSUME TypeOK, NEW n \in Number, Hold(n)
  PROVE  /\ held' \in [Token -> 0 .. 2]
         /\ \A m \in Token : m # n => held'[m] = held[m]
         /\ n # NoToken => /\ held'[n] # 0
                           /\ held'[n] = 1 => held[n] = 0
<1> USE BoundsAssumption DEF TypeOK, Hold, AtMost2, Token, Number, NoToken
<1>1. CASE n = NoToken
  BY <1>1
<1>2. CASE n # NoToken
  <2>1. n \in Token /\ held[n] \in 0 .. 2
    BY <1>2
  <2>2. held' = [held EXCEPT ![n] = IF held[n] + 1 < 2 THEN held[n] + 1 ELSE 2]
    BY <1>2
  <2>3. QED
    BY <1>2, <2>1, <2>2
<1>3. QED
  BY <1>1, <1>2

(* A login whose answer will be dropped is otherwise as it was. *)
LEMMA StaleLoginFacts ==
  ASSUME TypeOK, NEW t \in Tab, login' = StaleLogin(t)
  PROVE  /\ login' \in [Tab -> [at : {"idle", "asked", "granted"}, tok : Number, fresh : BOOLEAN]]
         /\ \A u \in Tab : login'[u].tok = login[u].tok /\ login'[u].at = login[u].at
<1>1. login[t] \in [at : {"idle", "asked", "granted"}, tok : Number, fresh : BOOLEAN]
  BY DEF TypeOK
<1>2. DEFINE r == [login[t] EXCEPT !.fresh = FALSE]
<1>3. /\ r \in [at : {"idle", "asked", "granted"}, tok : Number, fresh : BOOLEAN]
      /\ r.tok = login[t].tok /\ r.at = login[t].at
  BY <1>1
<1>4. login' = [login EXCEPT ![t] = r]
  BY DEF StaleLogin
<1> HIDE DEF r
<1>5. QED
  BY <1>3, <1>4 DEF TypeOK

(* The calls that waited go on, or end. *)
LEMMA WaitersFacts ==
  ASSUME TypeOK, NEW t \in Tab, NEW then \in {"idle", "again"}, Waiters(t, then)
  PROVE  /\ call' \in [Tab -> [Call -> {"idle", "sent", "waiting", "again"}]]
         /\ \A c \in Call : call'[t][c] # "waiting"
         /\ \A u \in Tab, c \in Call : u # t => call'[u][c] = call[u][c]
BY DEF TypeOK, Waiters

(* A new row, and the number it gets. *)
LEMMA IssueFacts ==
  ASSUME TypeOK, NEW s \in Number, Issue(s)
  PROVE  /\ issued + 1 \in Token /\ issued' = issued + 1 /\ issued' \in Number
         /\ session' \in [Token -> Number] /\ rotated' = rotated
         /\ revoked' = revoked /\ crossed' = crossed
BY BoundsAssumption DEF TypeOK, Issue, Token, Number

(* What is revoked are tokens, and what is crossed are numbers of sessions. *)
LEMMA RevokeFacts ==
  ASSUME TypeOK, EveryStepHasItsToken, NEW ns \in SUBSET Token, Revoke(ns)
  PROVE  revoked' \in SUBSET Token /\ crossed' \in SUBSET Number
<1>1. revoked' = revoked \cup ns
  BY DEF Revoke
<1>2. ASSUME NEW t \in Tab, step[t] \in {"mark", "issue"} PROVE session[ask[t]] \in Number
  BY <1>2, BoundsAssumption DEF TypeOK, EveryStepHasItsToken, Number, NoToken, Token
<1>3. crossed' \in SUBSET Number
  BY <1>2 DEF TypeOK, Revoke
<1>4. QED
  BY <1>1, <1>3 DEF TypeOK

(* The types of what a page and the server have, one by one. *)
LEMMA Typed ==
  ASSUME TypeOK, NEW t \in Tab
  PROVE  /\ mem[t] \in Number /\ ask[t] \in Number /\ got[t] \in Number
         /\ exchange[t] \in [tok : Number, fresh : BOOLEAN] /\ exchange[t].tok \in Number
         /\ login[t] \in [at : {"idle", "asked", "granted"}, tok : Number, fresh : BOOLEAN]
         /\ login[t].tok \in Number
         /\ logout[t] \in [at : {"idle", "asked", "answered"}, tok : Number] /\ logout[t].tok \in Number
         /\ step[t] \in Steps /\ issued \in Number /\ stored \in Number /\ NoToken \in Number
BY BoundsAssumption DEF TypeOK, Number, NoToken

(* Page t loses its session while it is exchanging k, or nothing: what follows for
   the variables SetTokens does not mention is the caller's. *)
LEMMA SessionLost ==
  ASSUME IInv, NEW t \in Tab, NEW k \in Number,
         SetTokens(t, NoToken, k), login' = StaleLogin(t), k # NoToken => k = exchange[t].tok,
         UNCHANGED <<rows, held>>,
         \A u \in Tab : logout'[u].tok = logout[u].tok \/ logout'[u].tok = NoToken,
         \A u \in Tab : u # t => step'[u] = step[u] /\ ask'[u] = ask[u] /\ got'[u] = got[u],
         \/ UNCHANGED <<step, ask, got>>
         \/ k = NoToken /\ ask'[t] = NoToken /\ got'[t] = NoToken /\ step'[t] = "idle",
         \A c \in Call : /\ call'[t][c] = "waiting" => k # NoToken
                         /\ \A u \in Tab : u # t => call'[u][c] = call[u][c]
  PROVE  /\ RefersToIssued' /\ ExchangesAgree' /\ UnheldIsUnknown' /\ AnswersAreNew'
         /\ \A n \in Token : held'[n] = 1 => SoleHolder(n)'
<1>1. TypeOK /\ k \in Number /\ NoToken \in Number
  BY Typed DEF IInv
<1>2. /\ mem' \in [Tab -> Number] /\ stored' = NoToken
      /\ mem'[t] = NoToken /\ exchange'[t].tok = k /\ ~exchange'[t].fresh
      /\ \A u \in Tab : u # t => mem'[u] = mem[u] /\ exchange'[u] = exchange[u]
  BY <1>1, SetTokensFacts
<1>3. \A u \in Tab : login'[u].tok = login[u].tok
  BY <1>1, StaleLoginFacts
<1>4. /\ issued' = issued /\ rotated' = rotated /\ held' = held
  BY DEF rows
<1>5. \A u \in Tab : /\ ask'[u] = ask[u] \/ ask'[u] = NoToken
                     /\ got'[u] = got[u] \/ got'[u] = NoToken
                     /\ step'[u] = step[u] \/ (step'[u] = "idle" /\ ask'[u] = NoToken)
  OBVIOUS
<1>6. RefersToIssued'
  BY <1>1, <1>2, <1>3, <1>4, <1>5, Typed DEF IInv, RefersToIssued, Number, NoToken
<1>7. ExchangesAgree'
  BY <1>2, <1>5 DEF IInv, ExchangesAgree, NoToken
<1>8. UnheldIsUnknown'
  BY <1>2, <1>4, <1>5 DEF IInv, UnheldIsUnknown, Token, NoToken
<1>9. AnswersAreNew'
  BY <1>3, <1>4, <1>5 DEF IInv, AnswersAreNew
<1>10. ASSUME NEW n \in Token, held'[n] = 1 PROVE SoleHolder(n)'
  BY <1>2, <1>4, <1>5, <1>10 DEF IInv, SoleHolder, Token, NoToken
<1>11. QED
  BY <1>6, <1>7, <1>8, <1>9, <1>10

(* Page t gets the pair n, which was on its way to it. *)
LEMMA SessionGained ==
  ASSUME IInv, NEW t \in Tab, NEW n \in Token, NEW k \in Number,
         SetTokens(t, n, k), Hold(n), k # NoToken => k = exchange[t].tok,
         n = got[t] \/ n = login[t].tok,
         UNCHANGED <<rows, logout>>,
         \A u \in Tab : login'[u].tok = login[u].tok \/ (u = t /\ login'[u].tok = NoToken),
         n = login[t].tok => login'[t].tok = NoToken,
         \A u \in Tab : u # t => step'[u] = step[u] /\ ask'[u] = ask[u] /\ got'[u] = got[u],
         \/ UNCHANGED <<step, ask, got>> /\ n # got[t]
         \/ k = NoToken /\ ask'[t] = NoToken /\ got'[t] = NoToken /\ step'[t] = "idle",
         \A c \in Call : /\ call'[t][c] = "waiting" => k # NoToken
                         /\ \A u \in Tab : u # t => call'[u][c] = call[u][c]
  PROVE  /\ RefersToIssued' /\ ExchangesAgree' /\ UnheldIsUnknown' /\ AnswersAreNew'
         /\ \A m \in Token : held'[m] = 1 => SoleHolder(m)'
<1>1. TypeOK /\ n \in Number /\ n # NoToken
  BY DEF IInv, Token, Number, NoToken
<1>2. /\ mem' \in [Tab -> Number] /\ stored' = n
      /\ mem'[t] = n /\ exchange'[t].tok = k /\ ~exchange'[t].fresh
      /\ \A u \in Tab : u # t => mem'[u] = mem[u] /\ exchange'[u] = exchange[u]
  BY <1>1, SetTokensFacts
<1>3. held[n] = 0 /\ n <= issued
  BY <1>1 DEF IInv, AnswersAreNew, RefersToIssued
<1>4. held'[n] # 0 /\ \A m \in Token : m # n => held'[m] = held[m]
  BY <1>1, HoldFacts
<1>5. issued' = issued /\ rotated' = rotated /\ logout' = logout
  BY DEF rows
<1>6. \A u \in Tab : /\ ask'[u] = ask[u] \/ ask'[u] = NoToken
                     /\ got'[u] = got[u] \/ got'[u] = NoToken
                     /\ step'[u] = step[u] \/ (step'[u] = "idle" /\ ask'[u] = NoToken)
                     /\ login'[u].tok = login[u].tok \/ login'[u].tok = NoToken
  OBVIOUS
<1>7. RefersToIssued'
  BY <1>1, <1>2, <1>3, <1>4, <1>5, <1>6, Typed DEF IInv, RefersToIssued, Number, NoToken
<1>8. ExchangesAgree'
  BY <1>2, <1>6 DEF IInv, ExchangesAgree, NoToken
<1>9. UnheldIsUnknown'
  BY <1>1, <1>2, <1>4, <1>5, <1>6 DEF IInv, UnheldIsUnknown, Token, NoToken
<1>10. \A u \in Tab : got'[u] # n /\ login'[u].tok # n
  BY <1>1 DEF IInv, AnswersAreNew
<1>11. AnswersAreNew'
  <2>1. ASSUME NEW u \in Tab, got'[u] # NoToken
        PROVE  /\ held'[got'[u]] = 0 /\ \A v \in Tab : got'[v] = got'[u] => v = u
               /\ \A v \in Tab : login'[v].tok # got'[u]
    <3>1. got'[u] = got[u] /\ got[u] \in Token /\ got[u] # n
      BY <1>1, <1>6, <1>10, <2>1, Typed DEF Token, Number, NoToken
    <3>2. QED
      BY <1>4, <1>6, <2>1, <3>1 DEF IInv, AnswersAreNew
  <2>2. ASSUME NEW u \in Tab, login'[u].tok # NoToken
        PROVE  /\ held'[login'[u].tok] = 0 /\ \A v \in Tab : login'[v].tok = login'[u].tok => v = u
    <3>1. login'[u].tok = login[u].tok /\ login[u].tok \in Token /\ login[u].tok # n
      BY <1>1, <1>6, <1>10, <2>2, Typed DEF Token, Number, NoToken
    <3>2. QED
      BY <1>4, <1>6, <2>2, <3>1 DEF IInv, AnswersAreNew
  <2>3. QED
    BY <2>1, <2>2 DEF AnswersAreNew
<1>12. ASSUME NEW m \in Token, held'[m] = 1 PROVE SoleHolder(m)'
  <2>1. CASE m = n
    <3>1. n \notin rotated /\ \A u \in Tab : mem[u] # n /\ ask[u] # n
      BY <1>3 DEF IInv, UnheldIsUnknown
    <3>2. QED
      BY <1>1, <1>2, <1>5, <1>6, <2>1, <3>1 DEF SoleHolder
  <2>2. CASE m # n
    BY <1>2, <1>4, <1>5, <1>6, <1>12, <2>2 DEF IInv, SoleHolder, Token, NoToken
  <2>3. QED
    BY <2>1, <2>2
<1>13. QED
  BY <1>7, <1>8, <1>9, <1>11, <1>12
(* Statement by statement, what the server does keeps the invariant. *)
LEMMA FindByHashKeeps ==
  ASSUME IInv, NEW t \in Tab, FindByHash(t)
  PROVE  IInv'
<1> USE BoundsAssumption
   DEF IInv, Server, NoExchange, NoLogin, NoLogout, rows, server, store, page, Verdict, Steps,
       Number, NoToken, Token, Upset
<1>1. TypeOK'
  BY DEF TypeOK, FindByHash
<1>2. RefersToIssued'
  BY DEF TypeOK, RefersToIssued, UnheldIsUnknown, AnswersAreNew, FindByHash, EveryStepHasItsToken
<1>3. ExchangesAgree'
  BY DEF TypeOK, ExchangesAgree, RefersToIssued, FindByHash, EveryStepHasItsToken
<1>4. EveryStepHasItsToken'
  BY DEF TypeOK, EveryStepHasItsToken, FindByHash
<1>5. UnheldIsUnknown'
  BY DEF TypeOK, UnheldIsUnknown, RefersToIssued, AnswersAreNew, FindByHash, EveryStepHasItsToken
<1>6. AnswersAreNew'
  BY DEF TypeOK, AnswersAreNew, RefersToIssued, UnheldIsUnknown, FindByHash, EveryStepHasItsToken
<1>7. ASSUME NEW n \in Token, held'[n] = 1 PROVE SoleHolder(n)'
  BY <1>7
     DEF TypeOK, SoleHolder, RefersToIssued, ExchangesAgree, EveryStepHasItsToken,
         UnheldIsUnknown, AnswersAreNew, FindByHash
<1>8. QED
  BY <1>1, <1>2, <1>3, <1>4, <1>5, <1>6, <1>7

(* Every token issued so far is revoked. *)
LEMMA RevokeAllForUserKeeps ==
  ASSUME IInv, NEW t \in Tab, RevokeAllForUser(t)
  PROVE  IInv'
<1> USE BoundsAssumption
   DEF IInv, Server, NoExchange, NoLogin, NoLogout, rows, server, store, page, Verdict, Steps,
       Number, NoToken, Token, Upset
<1>1. TypeOK'
  <2>1. revoked' \in SUBSET Token /\ crossed' \in SUBSET Number
    <3>1. (1 .. issued) \in SUBSET Token
      BY DEF TypeOK
    <3>2. Revoke(1 .. issued)
      BY DEF RevokeAllForUser
    <3> HIDE DEF Token, Number
    <3>3. QED
      BY <3>1, <3>2, RevokeFacts
  <2>2. step' \in [Tab -> Steps]
    BY DEF TypeOK, RevokeAllForUser
  <2>3. QED
    BY <2>1, <2>2 DEF TypeOK, RevokeAllForUser
<1>2. RefersToIssued'
  BY DEF TypeOK, RefersToIssued, UnheldIsUnknown, AnswersAreNew, RevokeAllForUser,
         EveryStepHasItsToken
<1>3. ExchangesAgree'
  BY DEF TypeOK, ExchangesAgree, RefersToIssued, RevokeAllForUser, EveryStepHasItsToken
<1>4. EveryStepHasItsToken'
  BY DEF TypeOK, EveryStepHasItsToken, RevokeAllForUser
<1>5. UnheldIsUnknown'
  BY DEF TypeOK, UnheldIsUnknown, RefersToIssued, AnswersAreNew, RevokeAllForUser,
         EveryStepHasItsToken
<1>6. AnswersAreNew'
  BY DEF TypeOK, AnswersAreNew, RefersToIssued, UnheldIsUnknown, RevokeAllForUser,
         EveryStepHasItsToken
<1>7. ASSUME NEW n \in Token, held'[n] = 1 PROVE SoleHolder(n)'
  BY <1>7
     DEF TypeOK, SoleHolder, RefersToIssued, ExchangesAgree, EveryStepHasItsToken,
         UnheldIsUnknown, AnswersAreNew, RevokeAllForUser
<1>8. QED
  BY <1>1, <1>2, <1>3, <1>4, <1>5, <1>6, <1>7

(* The token that is marked is one that was asked about. *)
LEMMA MarkRotatedKeeps ==
  ASSUME IInv, NEW t \in Tab, MarkRotated(t)
  PROVE  IInv'
<1> USE BoundsAssumption
   DEF IInv, Server, NoExchange, NoLogin, NoLogout, rows, server, store, page, Verdict, Steps,
       Number, NoToken, Token, Upset
<1>1. TypeOK'
  <2>1. rotated' \in SUBSET Token
    <3>1. ask[t] \in Token
      BY Typed DEF EveryStepHasItsToken, MarkRotated
    <3>2. rotated \in SUBSET Token /\ rotated' = rotated \cup {ask[t]}
      BY DEF TypeOK, MarkRotated
    <3>3. QED
      BY <3>1, <3>2
  <2>2. step' \in [Tab -> Steps]
    BY DEF TypeOK, MarkRotated
  <2>3. QED
    BY <2>1, <2>2 DEF TypeOK, MarkRotated
<1>2. RefersToIssued'
  BY DEF TypeOK, RefersToIssued, UnheldIsUnknown, AnswersAreNew, MarkRotated, EveryStepHasItsToken
<1>3. ExchangesAgree'
  BY DEF TypeOK, ExchangesAgree, RefersToIssued, MarkRotated, EveryStepHasItsToken
<1>4. EveryStepHasItsToken'
  BY DEF TypeOK, EveryStepHasItsToken, MarkRotated
<1>5. UnheldIsUnknown'
  BY DEF TypeOK, UnheldIsUnknown, RefersToIssued, AnswersAreNew, MarkRotated, EveryStepHasItsToken
<1>6. AnswersAreNew'
  BY DEF TypeOK, AnswersAreNew, RefersToIssued, UnheldIsUnknown, MarkRotated, EveryStepHasItsToken
<1>7. ASSUME NEW n \in Token, held'[n] = 1 PROVE SoleHolder(n)'
  BY <1>7
     DEF TypeOK, SoleHolder, RefersToIssued, ExchangesAgree, EveryStepHasItsToken,
         UnheldIsUnknown, AnswersAreNew, MarkRotated
<1>8. QED
  BY <1>1, <1>2, <1>3, <1>4, <1>5, <1>6, <1>7

(* A failed statement ends the server's part. *)
LEMMA RefreshFailsKeeps ==
  ASSUME IInv, NEW t \in Tab, RefreshFails(t)
  PROVE  IInv'
<1> USE BoundsAssumption
   DEF IInv, Server, NoExchange, NoLogin, NoLogout, rows, server, store, page, Verdict, Steps,
       Number, NoToken, Token, Upset
<1>1. TypeOK'
  <2>1. step' \in [Tab -> Steps]
    BY DEF TypeOK, RefreshFails
  <2>2. upsets' \in 0 .. MaxUpsets
    BY DEF TypeOK, RefreshFails
  <2>3. QED
    BY <2>1, <2>2 DEF TypeOK, RefreshFails
<1>2. RefersToIssued'
  BY DEF TypeOK, RefersToIssued, UnheldIsUnknown, AnswersAreNew, RefreshFails, EveryStepHasItsToken
<1>3. ExchangesAgree'
  BY DEF TypeOK, ExchangesAgree, RefersToIssued, RefreshFails, EveryStepHasItsToken
<1>4. EveryStepHasItsToken'
  BY DEF TypeOK, EveryStepHasItsToken, RefreshFails
<1>5. UnheldIsUnknown'
  BY DEF TypeOK, UnheldIsUnknown, RefersToIssued, AnswersAreNew, RefreshFails, EveryStepHasItsToken
<1>6. AnswersAreNew'
  BY DEF TypeOK, AnswersAreNew, RefersToIssued, UnheldIsUnknown, RefreshFails, EveryStepHasItsToken
<1>7. ASSUME NEW n \in Token, held'[n] = 1 PROVE SoleHolder(n)'
  BY <1>7
     DEF TypeOK, SoleHolder, RefersToIssued, ExchangesAgree, EveryStepHasItsToken,
         UnheldIsUnknown, AnswersAreNew, RefreshFails
<1>8. QED
  BY <1>1, <1>2, <1>3, <1>4, <1>5, <1>6, <1>7

(* Login and logout. *)
LEMMA SendLoginKeeps ==
  ASSUME IInv, NEW t \in Tab, SendLogin(t)
  PROVE  IInv'
<1> USE BoundsAssumption
   DEF IInv, Server, NoExchange, NoLogin, NoLogout, rows, server, store, page, Verdict, Steps,
       Number, NoToken, Token, Upset
<1>1. TypeOK'
  BY DEF TypeOK, SendLogin
<1>2. RefersToIssued'
  BY DEF TypeOK, RefersToIssued, UnheldIsUnknown, AnswersAreNew, SendLogin, EveryStepHasItsToken
<1>3. ExchangesAgree'
  BY DEF TypeOK, ExchangesAgree, RefersToIssued, SendLogin, EveryStepHasItsToken
<1>4. EveryStepHasItsToken'
  BY DEF TypeOK, EveryStepHasItsToken, SendLogin
<1>5. UnheldIsUnknown'
  BY DEF TypeOK, UnheldIsUnknown, RefersToIssued, AnswersAreNew, SendLogin, EveryStepHasItsToken
<1>6. AnswersAreNew'
  BY SMTT(20) DEF TypeOK, AnswersAreNew, RefersToIssued, UnheldIsUnknown, SendLogin, EveryStepHasItsToken
<1>7. ASSUME NEW n \in Token, held'[n] = 1 PROVE SoleHolder(n)'
  BY <1>7
     DEF TypeOK, SoleHolder, RefersToIssued, ExchangesAgree, EveryStepHasItsToken,
         UnheldIsUnknown, AnswersAreNew, SendLogin
<1>8. QED
  BY <1>1, <1>2, <1>3, <1>4, <1>5, <1>6, <1>7

(* A login that is refused is forgotten. *)
LEMMA LoginFailsKeeps ==
  ASSUME IInv, NEW t \in Tab, LoginFails(t)
  PROVE  IInv'
<1> USE BoundsAssumption
   DEF IInv, Server, NoExchange, NoLogin, NoLogout, rows, server, store, page, Verdict, Steps,
       Number, NoToken, Token, Upset
<1>1. TypeOK'
  <2>1. login' \in [Tab -> [at : {"idle", "asked", "granted"}, tok : Number, fresh : BOOLEAN]]
    BY DEF TypeOK, LoginFails
  <2>2. upsets' \in 0 .. MaxUpsets
    BY DEF TypeOK, LoginFails
  <2>3. QED
    BY <2>1, <2>2 DEF TypeOK, LoginFails
<1>2. RefersToIssued'
  BY DEF TypeOK, RefersToIssued, UnheldIsUnknown, AnswersAreNew, LoginFails, EveryStepHasItsToken
<1>3. ExchangesAgree'
  BY DEF TypeOK, ExchangesAgree, RefersToIssued, LoginFails, EveryStepHasItsToken
<1>4. EveryStepHasItsToken'
  BY DEF TypeOK, EveryStepHasItsToken, LoginFails
<1>5. UnheldIsUnknown'
  BY DEF TypeOK, UnheldIsUnknown, RefersToIssued, AnswersAreNew, LoginFails, EveryStepHasItsToken
<1>6. AnswersAreNew'
  BY SMTT(40) DEF TypeOK, AnswersAreNew, RefersToIssued, UnheldIsUnknown, LoginFails, EveryStepHasItsToken
<1>7. ASSUME NEW n \in Token, held'[n] = 1 PROVE SoleHolder(n)'
  BY <1>7
     DEF TypeOK, SoleHolder, RefersToIssued, ExchangesAgree, EveryStepHasItsToken,
         UnheldIsUnknown, AnswersAreNew, LoginFails
<1>8. QED
  BY <1>1, <1>2, <1>3, <1>4, <1>5, <1>6, <1>7

(* A logout names the pair its page has. *)
LEMMA SendLogoutKeeps ==
  ASSUME IInv, NEW t \in Tab, SendLogout(t)
  PROVE  IInv'
<1> USE BoundsAssumption
   DEF IInv, Server, NoExchange, NoLogin, NoLogout, rows, server, store, page, Verdict, Steps,
       Number, NoToken, Token, Upset
<1>1. TypeOK'
  BY SMTT(20) DEF TypeOK, SendLogout
<1>2. RefersToIssued'
  BY DEF TypeOK, RefersToIssued, UnheldIsUnknown, AnswersAreNew, SendLogout, EveryStepHasItsToken
<1>3. ExchangesAgree'
  BY DEF TypeOK, ExchangesAgree, RefersToIssued, SendLogout, EveryStepHasItsToken
<1>4. EveryStepHasItsToken'
  BY DEF TypeOK, EveryStepHasItsToken, SendLogout
<1>5. UnheldIsUnknown'
  BY DEF TypeOK, UnheldIsUnknown, RefersToIssued, AnswersAreNew, SendLogout, EveryStepHasItsToken
<1>6. AnswersAreNew'
  BY DEF TypeOK, AnswersAreNew, RefersToIssued, UnheldIsUnknown, SendLogout, EveryStepHasItsToken
<1>7. ASSUME NEW n \in Token, held'[n] = 1 PROVE SoleHolder(n)'
  BY <1>7
     DEF TypeOK, SoleHolder, RefersToIssued, ExchangesAgree, EveryStepHasItsToken,
         UnheldIsUnknown, AnswersAreNew, SendLogout
<1>8. QED
  BY <1>1, <1>2, <1>3, <1>4, <1>5, <1>6, <1>7

(* A token that is revoked is one a logout named. *)
LEMMA RevokeByHashKeeps ==
  ASSUME IInv, NEW t \in Tab, RevokeByHash(t)
  PROVE  IInv'
<1> USE BoundsAssumption
   DEF IInv, Server, NoExchange, NoLogin, NoLogout, rows, server, store, page, Verdict, Steps,
       Number, NoToken, Token, Upset
<1>1. TypeOK'
  <2>1. revoked' \in SUBSET Token /\ crossed' \in SUBSET Number
    <3>1. logout[t].tok \in Token
      BY Typed DEF EveryStepHasItsToken, RevokeByHash
    <3>2. {logout[t].tok} \ rotated \in SUBSET Token
      BY <3>1
    <3>3. Revoke({logout[t].tok} \ rotated)
      BY DEF RevokeByHash
    <3> HIDE DEF Token, Number
    <3>4. QED
      BY <3>2, <3>3, RevokeFacts
  <2>2. logout' \in [Tab -> [at : {"idle", "asked", "answered"}, tok : Number]]
    BY DEF TypeOK, RevokeByHash
  <2>3. QED
    BY <2>1, <2>2 DEF TypeOK, RevokeByHash
<1>2. RefersToIssued'
  BY DEF TypeOK, RefersToIssued, UnheldIsUnknown, AnswersAreNew, RevokeByHash, EveryStepHasItsToken
<1>3. ExchangesAgree'
  BY DEF TypeOK, ExchangesAgree, RefersToIssued, RevokeByHash, EveryStepHasItsToken
<1>4. EveryStepHasItsToken'
  BY DEF TypeOK, EveryStepHasItsToken, RevokeByHash
<1>5. UnheldIsUnknown'
  BY DEF TypeOK, UnheldIsUnknown, RefersToIssued, AnswersAreNew, RevokeByHash, EveryStepHasItsToken
<1>6. AnswersAreNew'
  BY DEF TypeOK, AnswersAreNew, RefersToIssued, UnheldIsUnknown, RevokeByHash, EveryStepHasItsToken
<1>7. ASSUME NEW n \in Token, held'[n] = 1 PROVE SoleHolder(n)'
  BY <1>7
     DEF TypeOK, SoleHolder, RefersToIssued, ExchangesAgree, EveryStepHasItsToken,
         UnheldIsUnknown, AnswersAreNew, RevokeByHash
<1>8. QED
  BY <1>1, <1>2, <1>3, <1>4, <1>5, <1>6, <1>7

(* Calls. *)
LEMMA SendCallKeeps ==
  ASSUME IInv, NEW t \in Tab, NEW c \in Call, SendCall(t, c)
  PROVE  IInv'
<1> USE BoundsAssumption
   DEF IInv, Server, NoExchange, NoLogin, NoLogout, rows, server, store, page, Verdict, Steps,
       Number, NoToken, Token, Upset
<1>1. TypeOK'
  BY DEF TypeOK, SendCall
<1>2. RefersToIssued'
  BY DEF TypeOK, RefersToIssued, UnheldIsUnknown, AnswersAreNew, SendCall, EveryStepHasItsToken
<1>3. ExchangesAgree'
  BY DEF TypeOK, ExchangesAgree, RefersToIssued, SendCall, EveryStepHasItsToken
<1>4. EveryStepHasItsToken'
  BY DEF TypeOK, EveryStepHasItsToken, SendCall
<1>5. UnheldIsUnknown'
  BY DEF TypeOK, UnheldIsUnknown, RefersToIssued, AnswersAreNew, SendCall, EveryStepHasItsToken
<1>6. AnswersAreNew'
  BY DEF TypeOK, AnswersAreNew, RefersToIssued, UnheldIsUnknown, SendCall, EveryStepHasItsToken
<1>7. ASSUME NEW n \in Token, held'[n] = 1 PROVE SoleHolder(n)'
  BY <1>7
     DEF TypeOK, SoleHolder, RefersToIssued, ExchangesAgree, EveryStepHasItsToken,
         UnheldIsUnknown, AnswersAreNew, SendCall
<1>8. QED
  BY <1>1, <1>2, <1>3, <1>4, <1>5, <1>6, <1>7

(* A call that settles waits for nothing. *)
LEMMA CallSettlesKeeps ==
  ASSUME IInv, NEW t \in Tab, NEW c \in Call, CallSettles(t, c)
  PROVE  IInv'
<1> USE BoundsAssumption
   DEF IInv, Server, NoExchange, NoLogin, NoLogout, rows, server, store, page, Verdict, Steps,
       Number, NoToken, Token, Upset
<1>1. TypeOK'
  BY DEF TypeOK, CallSettles
<1>2. RefersToIssued'
  BY DEF TypeOK, RefersToIssued, UnheldIsUnknown, AnswersAreNew, CallSettles, EveryStepHasItsToken
<1>3. ExchangesAgree'
  BY DEF TypeOK, ExchangesAgree, RefersToIssued, CallSettles, EveryStepHasItsToken
<1>4. EveryStepHasItsToken'
  BY DEF TypeOK, EveryStepHasItsToken, CallSettles
<1>5. UnheldIsUnknown'
  BY DEF TypeOK, UnheldIsUnknown, RefersToIssued, AnswersAreNew, CallSettles, EveryStepHasItsToken
<1>6. AnswersAreNew'
  BY DEF TypeOK, AnswersAreNew, RefersToIssued, UnheldIsUnknown, CallSettles, EveryStepHasItsToken
<1>7. ASSUME NEW n \in Token, held'[n] = 1 PROVE SoleHolder(n)'
  BY <1>7
     DEF TypeOK, SoleHolder, RefersToIssued, ExchangesAgree, EveryStepHasItsToken,
         UnheldIsUnknown, AnswersAreNew, CallSettles
<1>8. QED
  BY <1>1, <1>2, <1>3, <1>4, <1>5, <1>6, <1>7

(* A call that waits joins an exchange that is there. *)
LEMMA JoinExchangeKeeps ==
  ASSUME IInv, NEW t \in Tab, NEW c \in Call, JoinExchange(t, c)
  PROVE  IInv'
<1> USE BoundsAssumption
   DEF IInv, Server, NoExchange, NoLogin, NoLogout, rows, server, store, page, Verdict, Steps,
       Number, NoToken, Token, Upset
<1>1. TypeOK'
  BY DEF TypeOK, JoinExchange
<1>2. RefersToIssued'
  BY DEF TypeOK, RefersToIssued, UnheldIsUnknown, AnswersAreNew, JoinExchange, EveryStepHasItsToken
<1>3. ExchangesAgree'
  BY DEF TypeOK, ExchangesAgree, RefersToIssued, JoinExchange, EveryStepHasItsToken
<1>4. EveryStepHasItsToken'
  BY DEF TypeOK, EveryStepHasItsToken, JoinExchange
<1>5. UnheldIsUnknown'
  BY DEF TypeOK, UnheldIsUnknown, RefersToIssued, AnswersAreNew, JoinExchange, EveryStepHasItsToken
<1>6. AnswersAreNew'
  BY DEF TypeOK, AnswersAreNew, RefersToIssued, UnheldIsUnknown, JoinExchange, EveryStepHasItsToken
<1>7. ASSUME NEW n \in Token, held'[n] = 1 PROVE SoleHolder(n)'
  BY <1>7
     DEF TypeOK, SoleHolder, RefersToIssued, ExchangesAgree, EveryStepHasItsToken,
         UnheldIsUnknown, AnswersAreNew, JoinExchange
<1>8. QED
  BY <1>1, <1>2, <1>3, <1>4, <1>5, <1>6, <1>7

(* An exchange starts with the page's own pair, on both sides at once. *)
LEMMA StartExchangeKeeps ==
  ASSUME IInv, NEW t \in Tab, NEW c \in Call, StartExchange(t, c)
  PROVE  IInv'
<1> USE BoundsAssumption
   DEF IInv, Server, NoExchange, NoLogin, NoLogout, rows, server, store, page, Verdict, Steps,
       Number, NoToken, Token, Upset
<1>1. TypeOK'
  BY DEF TypeOK, StartExchange
<1>2. RefersToIssued'
  BY DEF TypeOK, RefersToIssued, UnheldIsUnknown, AnswersAreNew, StartExchange, EveryStepHasItsToken
<1>3. ExchangesAgree'
  BY DEF TypeOK, ExchangesAgree, RefersToIssued, StartExchange, EveryStepHasItsToken
<1>4. EveryStepHasItsToken'
  BY DEF TypeOK, EveryStepHasItsToken, StartExchange
<1>5. UnheldIsUnknown'
  BY DEF TypeOK, UnheldIsUnknown, RefersToIssued, AnswersAreNew, StartExchange, EveryStepHasItsToken
<1>6. AnswersAreNew'
  BY DEF TypeOK, AnswersAreNew, RefersToIssued, UnheldIsUnknown, StartExchange, EveryStepHasItsToken
<1>7. ASSUME NEW n \in Token, held'[n] = 1 PROVE SoleHolder(n)'
  BY <1>7, SMTT(20)
     DEF TypeOK, SoleHolder, RefersToIssued, ExchangesAgree, EveryStepHasItsToken,
         UnheldIsUnknown, AnswersAreNew, StartExchange
<1>8. QED
  BY <1>1, <1>2, <1>3, <1>4, <1>5, <1>6, <1>7

(* A new row is unknown to everything but the answer that carries it. *)
LEMMA IssueNextKeeps ==
  ASSUME IInv, NEW t \in Tab, IssueNext(t)
  PROVE  IInv'
<1> USE BoundsAssumption
   DEF IInv, Server, NoExchange, NoLogin, NoLogout, rows, server, store, page, Verdict, Steps,
       Number, NoToken, Token, Upset
<1>10. session[ask[t]] \in Number /\ Issue(session[ask[t]])
  BY DEF TypeOK, EveryStepHasItsToken, Issue, IssueNext
<1>11. /\ issued + 1 \in Token /\ issued' = issued + 1 /\ issued' \in Number
       /\ session' \in [Token -> Number] /\ rotated' = rotated
       /\ revoked' = revoked /\ crossed' = crossed
  BY <1>10, IssueFacts
<1>12. /\ held[issued + 1] = 0 /\ issued + 1 \notin rotated /\ issued + 1 # NoToken
       /\ \A u \in Tab : got[u] # issued + 1 /\ login[u].tok # issued + 1
  BY <1>11, SMTT(20) DEF TypeOK, RefersToIssued
<1>1. TypeOK'
  BY <1>11, <1>12 DEF TypeOK, IssueNext
<1>2. RefersToIssued'
  <2>1. /\ mem' = mem /\ ask' = ask /\ login' = login /\ logout' = logout
        /\ stored' = stored /\ held' = held
        /\ \A u \in Tab : got'[u] = got[u] \/ got'[u] = issued'
    BY <1>11 DEF TypeOK, IssueNext
  <2>2. RefersToIssued /\ TypeOK /\ issued \in Nat /\ issued' = issued + 1
    <3>1. RefersToIssued /\ TypeOK
      OBVIOUS
    <3>2. issued \in Number
      BY DEF TypeOK
    <3>3. QED
      BY <1>11, <3>1, <3>2
  <2> HIDE DEF IInv
  <2>3. \A m \in Number : m <= issued => m <= issued'
    BY <2>2
  <2> HIDE DEF Number, Token
  <2>4. \A u \in Tab : got'[u] <= issued'
    <3>1. \A u \in Tab : got[u] <= issued'
      BY <2>2, <2>3, Typed DEF RefersToIssued
    <3>2. issued' <= issued'
      BY <2>2
    <3>3. QED
      BY <2>1, <3>1, <3>2
  <2>5. \A n \in Token : n <= issued => n <= issued'
    BY <2>2 DEF Token
  <2>6. QED
    BY <1>11, <2>1, <2>2, <2>3, <2>4, <2>5, Typed DEF RefersToIssued
<1>3. ExchangesAgree'
  BY <1>11, <1>12 DEF TypeOK, ExchangesAgree, RefersToIssued, IssueNext, EveryStepHasItsToken
<1>4. EveryStepHasItsToken'
  BY <1>11, <1>12 DEF TypeOK, EveryStepHasItsToken, IssueNext
<1>5. UnheldIsUnknown'
  BY <1>11, <1>12
     DEF TypeOK, UnheldIsUnknown, RefersToIssued, AnswersAreNew, IssueNext, EveryStepHasItsToken
<1>6. AnswersAreNew'
  BY <1>11, <1>12
     DEF TypeOK, AnswersAreNew, RefersToIssued, UnheldIsUnknown, IssueNext, EveryStepHasItsToken
<1>7. ASSUME NEW n \in Token, held'[n] = 1 PROVE SoleHolder(n)'
  <2>1. SoleHolder(n)
    BY <1>7 DEF IssueNext
  <2>2. mem' = mem /\ ask' = ask /\ exchange' = exchange /\ rotated' = rotated
    BY <1>11 DEF IssueNext
  <2>3. \A u \in Tab : step'[u] = step[u] \/ step'[u] = "answered"
    BY DEF TypeOK, IssueNext
  <2>4. QED
    BY <2>1, <2>2, <2>3 DEF SoleHolder
<1>8. QED
  BY <1>1, <1>2, <1>3, <1>4, <1>5, <1>6, <1>7

(* The same of the pair a login begins with. *)
LEMMA GrantLoginKeeps ==
  ASSUME IInv, NEW t \in Tab, GrantLogin(t)
  PROVE  IInv'
<1> USE BoundsAssumption
   DEF IInv, Server, NoExchange, NoLogin, NoLogout, rows, server, store, page, Verdict, Steps,
       Number, NoToken, Token, Upset
<1>10. issued + 1 \in Number /\ Issue(issued + 1)
  BY DEF TypeOK, EveryStepHasItsToken, Issue, GrantLogin
<1>11. /\ issued + 1 \in Token /\ issued' = issued + 1 /\ issued' \in Number
       /\ session' \in [Token -> Number] /\ rotated' = rotated
       /\ revoked' = revoked /\ crossed' = crossed
  BY <1>10, IssueFacts
<1>12. /\ held[issued + 1] = 0 /\ issued + 1 \notin rotated /\ issued + 1 # NoToken
       /\ \A u \in Tab : got[u] # issued + 1 /\ login[u].tok # issued + 1
  BY <1>11, SMTT(20) DEF TypeOK, RefersToIssued
<1>1. TypeOK'
  BY <1>11, <1>12, SMTT(20) DEF TypeOK, GrantLogin
<1>2. RefersToIssued'
  BY <1>11, <1>12
     DEF TypeOK, RefersToIssued, UnheldIsUnknown, AnswersAreNew, GrantLogin, EveryStepHasItsToken
<1>3. ExchangesAgree'
  BY <1>11, <1>12 DEF TypeOK, ExchangesAgree, RefersToIssued, GrantLogin, EveryStepHasItsToken
<1>4. EveryStepHasItsToken'
  BY <1>11, <1>12, SMTT(20) DEF TypeOK, EveryStepHasItsToken, GrantLogin
<1>5. UnheldIsUnknown'
  BY <1>11, <1>12
     DEF TypeOK, UnheldIsUnknown, RefersToIssued, AnswersAreNew, GrantLogin, EveryStepHasItsToken
<1>6. AnswersAreNew'
  BY <1>11, <1>12, SMTT(40)
     DEF TypeOK, AnswersAreNew, RefersToIssued, UnheldIsUnknown, GrantLogin, EveryStepHasItsToken
<1>7. ASSUME NEW n \in Token, held'[n] = 1 PROVE SoleHolder(n)'
  BY <1>11, <1>12, <1>7, SMTT(20)
     DEF TypeOK, SoleHolder, RefersToIssued, ExchangesAgree, EveryStepHasItsToken,
         UnheldIsUnknown, AnswersAreNew, GrantLogin
<1>8. QED
  BY <1>1, <1>2, <1>3, <1>4, <1>5, <1>6, <1>7

(* A page load holds what is stored, which no answer on its way carries. *)
LEMMA LoadKeeps ==
  ASSUME IInv, NEW t \in Tab, Load(t)
  PROVE  IInv'
<1> USE BoundsAssumption
   DEF IInv, Server, NoExchange, NoLogin, NoLogout, rows, server, store, page, Verdict, Steps,
       Number, NoToken, Token, Upset
<1>10. /\ held' \in [Token -> 0 .. 2]
       /\ \A m \in Token : m # stored => held'[m] = held[m]
       /\ stored # NoToken => (held'[stored] # 0 /\ (held'[stored] = 1 => held[stored] = 0))
  BY HoldFacts DEF Load, TypeOK
<1>1. TypeOK'
  BY <1>10, SMTT(20) DEF TypeOK, Load
<1>2. RefersToIssued'
  BY <1>10 DEF TypeOK, RefersToIssued, UnheldIsUnknown, AnswersAreNew, Load, EveryStepHasItsToken
<1>3. ExchangesAgree'
  BY <1>10 DEF TypeOK, ExchangesAgree, RefersToIssued, Load, EveryStepHasItsToken
<1>4. EveryStepHasItsToken'
  BY <1>10 DEF TypeOK, EveryStepHasItsToken, Load
<1>5. UnheldIsUnknown'
  BY <1>10, SMTT(20) DEF TypeOK, UnheldIsUnknown, RefersToIssued, AnswersAreNew, Load, EveryStepHasItsToken
<1>6. AnswersAreNew'
  <2>1. got' = got /\ \A u \in Tab : login'[u].tok = login[u].tok \/ login'[u].tok = NoToken
    BY DEF TypeOK, Load
  <2>2. \A m \in Number : m # NoToken /\ held[m] = 0 => held'[m] = 0
    BY <1>10 DEF UnheldIsUnknown
  <2>3. QED
    BY <2>1, <2>2, Typed DEF AnswersAreNew
<1>7. ASSUME NEW n \in Token, held'[n] = 1 PROVE SoleHolder(n)'
  BY <1>10, <1>7, SMTT(20)
     DEF TypeOK, SoleHolder, RefersToIssued, ExchangesAgree, EveryStepHasItsToken,
         UnheldIsUnknown, AnswersAreNew, Load
<1>8. QED
  BY <1>1, <1>2, <1>3, <1>4, <1>5, <1>6, <1>7

(* A failed exchange ends the session of its page. *)
LEMMA ConnectionLostKeeps ==
  ASSUME IInv, NEW t \in Tab, ConnectionLost(t)
  PROVE  IInv'
<1>1. /\ SetTokens(t, NoToken, NoToken) /\ login' = StaleLogin(t) /\ Waiters(t, "idle")
      /\ UNCHANGED <<server, held, logout>>
      /\ upsets' \in 0 .. MaxUpsets
  BY BoundsAssumption DEF IInv, TypeOK, ConnectionLost, ExchangeFailed, Upset
<1>2. TypeOK /\ NoToken \in Number
  BY Typed DEF IInv
<1>3. /\ mem' \in [Tab -> Number] /\ stored' = NoToken
      /\ exchange' \in [Tab -> [tok : Number, fresh : BOOLEAN]]
  BY <1>1, <1>2, SetTokensFacts
<1>4. /\ login' \in [Tab -> [at : {"idle", "asked", "granted"}, tok : Number, fresh : BOOLEAN]]
      /\ \A u \in Tab : login'[u].tok = login[u].tok /\ login'[u].at = login[u].at
  BY <1>1, <1>2, StaleLoginFacts
<1>5. /\ call' \in [Tab -> [Call -> {"idle", "sent", "waiting", "again"}]]
      /\ \A c \in Call : call'[t][c] # "waiting"
      /\ \A u \in Tab, c \in Call : u # t => call'[u][c] = call[u][c]
  BY <1>1, <1>2, WaitersFacts
<1>6. TypeOK'
  BY <1>1, <1>2, <1>3, <1>4, <1>5 DEF TypeOK, server, rows
<1>7. EveryStepHasItsToken'
  BY <1>1, <1>4 DEF IInv, EveryStepHasItsToken, server, rows
<1>8. /\ RefersToIssued' /\ ExchangesAgree' /\ UnheldIsUnknown' /\ AnswersAreNew'
      /\ \A n \in Token : held'[n] = 1 => SoleHolder(n)'
  BY <1>1, <1>2, <1>5, SessionLost DEF server
<1>9. QED
  BY <1>6, <1>7, <1>8 DEF IInv

(* A 401 on a page that is signed out. *)
LEMMA NothingToExchangeKeeps ==
  ASSUME IInv, NEW t \in Tab, NEW c \in Call, NothingToExchange(t, c)
  PROVE  IInv'
<1>1. /\ SetTokens(t, NoToken, NoToken) /\ login' = StaleLogin(t)
      /\ UNCHANGED <<server, held, logout, upsets>>
      /\ call' = [call EXCEPT ![t][c] = "idle"]
      /\ exchange[t].tok = NoToken
  BY DEF NothingToExchange
<1>2. TypeOK /\ NoToken \in Number
  BY Typed DEF IInv
<1>3. /\ mem' \in [Tab -> Number] /\ stored' = NoToken
      /\ exchange' \in [Tab -> [tok : Number, fresh : BOOLEAN]]
  BY <1>1, <1>2, SetTokensFacts
<1>4. /\ login' \in [Tab -> [at : {"idle", "asked", "granted"}, tok : Number, fresh : BOOLEAN]]
      /\ \A u \in Tab : login'[u].tok = login[u].tok /\ login'[u].at = login[u].at
  BY <1>1, <1>2, StaleLoginFacts
<1>5. /\ call' \in [Tab -> [Call -> {"idle", "sent", "waiting", "again"}]]
      /\ \A d \in Call : call'[t][d] # "waiting"
      /\ \A u \in Tab, d \in Call : u # t => call'[u][d] = call[u][d]
  BY <1>1 DEF IInv, TypeOK, ExchangesAgree
<1>6. TypeOK'
  BY <1>1, <1>2, <1>3, <1>4, <1>5 DEF TypeOK, server, rows
<1>7. EveryStepHasItsToken'
  BY <1>1, <1>4 DEF IInv, EveryStepHasItsToken, server, rows
<1>8. /\ RefersToIssued' /\ ExchangesAgree' /\ UnheldIsUnknown' /\ AnswersAreNew'
      /\ \A n \in Token : held'[n] = 1 => SoleHolder(n)'
  BY <1>1, <1>2, <1>5, SessionLost DEF server
<1>9. QED
  BY <1>6, <1>7, <1>8 DEF IInv

(* The session is cleared under an exchange that may still be going on. *)
LEMMA LogoutDoneKeeps ==
  ASSUME IInv, NEW t \in Tab, LogoutDone(t)
  PROVE  IInv'
<1>1. /\ SetTokens(t, NoToken, exchange[t].tok) /\ login' = StaleLogin(t)
      /\ logout' = [logout EXCEPT ![t] = NoLogout]
      /\ UNCHANGED <<server, held, call, upsets>>
  BY DEF LogoutDone
<1>2. TypeOK /\ NoToken \in Number /\ exchange[t].tok \in Number
  BY Typed DEF IInv
<1>3. /\ mem' \in [Tab -> Number] /\ stored' = NoToken
      /\ exchange' \in [Tab -> [tok : Number, fresh : BOOLEAN]]
  BY <1>1, <1>2, SetTokensFacts
<1>4. /\ login' \in [Tab -> [at : {"idle", "asked", "granted"}, tok : Number, fresh : BOOLEAN]]
      /\ \A u \in Tab : login'[u].tok = login[u].tok /\ login'[u].at = login[u].at
  BY <1>1, <1>2, StaleLoginFacts
<1>5. /\ logout' \in [Tab -> [at : {"idle", "asked", "answered"}, tok : Number]]
      /\ \A u \in Tab : logout'[u] = logout[u] \/ logout'[u] = NoLogout
  BY <1>1, <1>2 DEF TypeOK, NoLogout
<1>6. TypeOK'
  BY <1>1, <1>2, <1>3, <1>4, <1>5 DEF TypeOK, server, rows
<1>7. EveryStepHasItsToken'
  BY <1>1, <1>4, <1>5 DEF IInv, EveryStepHasItsToken, server, rows, NoLogout
<1>8. /\ RefersToIssued' /\ ExchangesAgree' /\ UnheldIsUnknown' /\ AnswersAreNew'
      /\ \A n \in Token : held'[n] = 1 => SoleHolder(n)'
  <2>1. \A c \in Call : call[t][c] = "waiting" => exchange[t].tok # NoToken
    BY DEF IInv, ExchangesAgree
  <2>2. UNCHANGED <<rows, held>> /\ UNCHANGED <<step, ask, got>> /\ call' = call
    BY <1>1 DEF server
  <2>3. \A u \in Tab : logout'[u].tok = logout[u].tok \/ logout'[u].tok = NoToken
    BY <1>5 DEF NoLogout
  <2>4. QED
    BY <1>1, <1>2, <2>1, <2>2, <2>3, SessionLost
<1>9. QED
  BY <1>6, <1>7, <1>8 DEF IInv

(* A login whose answer is applied, or dropped. *)
LEMMA LoginAnsweredKeeps ==
  ASSUME IInv, NEW t \in Tab, LoginAnswered(t)
  PROVE  IInv'
<1>1. /\ login' = [login EXCEPT ![t] = NoLogin]
      /\ UNCHANGED <<server, logout, call, upsets>>
  BY DEF LoginAnswered
<1>2. TypeOK /\ NoToken \in Number /\ exchange[t].tok \in Number
  BY Typed DEF IInv
<1>3. /\ login' \in [Tab -> [at : {"idle", "asked", "granted"}, tok : Number, fresh : BOOLEAN]]
      /\ \A u \in Tab : login'[u] = login[u] \/ (u = t /\ login'[u] = NoLogin)
      /\ login'[t].tok = NoToken
  BY <1>1, <1>2 DEF TypeOK, NoLogin
<1>4. EveryStepHasItsToken'
  BY <1>1, <1>3 DEF IInv, EveryStepHasItsToken, server, rows, NoLogin
<1>5. CASE login[t].fresh
  <2>1. DEFINE n == login[t].tok
  <2>2. /\ n \in Token /\ n \in Number /\ n # NoToken
        /\ SetTokens(t, n, exchange[t].tok) /\ Hold(n) /\ n # got[t]
    BY <1>2, <1>5, Typed
       DEF IInv, EveryStepHasItsToken, AnswersAreNew, LoginAnswered, Token, Number, NoToken
  <2>3. /\ mem' \in [Tab -> Number] /\ stored' = n
        /\ exchange' \in [Tab -> [tok : Number, fresh : BOOLEAN]]
        /\ held' \in [Token -> 0 .. 2]
    BY <1>2, <2>2, SetTokensFacts, HoldFacts
  <2>4. TypeOK'
    BY <1>1, <1>2, <1>3, <2>2, <2>3 DEF TypeOK, server, rows
  <2>5. /\ RefersToIssued' /\ ExchangesAgree' /\ UnheldIsUnknown' /\ AnswersAreNew'
        /\ \A m \in Token : held'[m] = 1 => SoleHolder(m)'
    <3>1. /\ exchange[t].tok # NoToken => exchange[t].tok = exchange[t].tok
          /\ \A c \in Call : call[t][c] = "waiting" => exchange[t].tok # NoToken
      BY DEF IInv, ExchangesAgree
    <3>2. UNCHANGED <<rows, logout>> /\ UNCHANGED <<step, ask, got>> /\ call' = call
      BY <1>1 DEF server
    <3>3. \A u \in Tab : login'[u].tok = login[u].tok \/ (u = t /\ login'[u].tok = NoToken)
      BY <1>3
    <3>4. QED
      BY <1>2, <1>3, <2>2, <3>1, <3>2, <3>3, SessionGained
  <2>6. QED
    BY <1>4, <2>4, <2>5 DEF IInv
<1>6. CASE ~login[t].fresh
  <2>1. UNCHANGED <<store, exchange>>
    BY <1>6 DEF LoginAnswered
  <2>2. TypeOK'
    BY <1>1, <1>2, <1>3, <2>1 DEF TypeOK, server, rows, store
  <2>3. /\ RefersToIssued' /\ ExchangesAgree' /\ UnheldIsUnknown'
        /\ \A m \in Token : held'[m] = 1 => SoleHolder(m)'
    BY <1>1, <1>2, <1>3, <2>1, Typed
       DEF IInv, RefersToIssued, ExchangesAgree, UnheldIsUnknown, SoleHolder, server, rows, store,
           NoLogin, Number, NoToken
  <2>4. AnswersAreNew'
    BY <1>1, <1>3, <2>1 DEF IInv, AnswersAreNew, server, rows, store, NoLogin
  <2>5. QED
    BY <1>4, <2>2, <2>3, <2>4 DEF IInv
<1>7. QED
  BY <1>5, <1>6

(* The server's answer: dropped after a page load, applied when fresh, a failure otherwise. *)
LEMMA AnswerKeeps ==
  ASSUME IInv, NEW t \in Tab, Answer(t)
  PROVE  IInv'
<1>1. /\ step[t] \in {"answered", "failed"}
      /\ step' = [step EXCEPT ![t] = "idle"]
      /\ ask' = [ask EXCEPT ![t] = NoToken] /\ got' = [got EXCEPT ![t] = NoToken]
      /\ UNCHANGED <<rows, upsets>>
  BY DEF Answer
<1>2. TypeOK /\ NoToken \in Number
  BY Typed DEF IInv
<1>3. /\ step' \in [Tab -> Steps] /\ ask' \in [Tab -> Number] /\ got' \in [Tab -> Number]
      /\ step'[t] = "idle" /\ ask'[t] = NoToken /\ got'[t] = NoToken
      /\ \A u \in Tab : u # t => step'[u] = step[u] /\ ask'[u] = ask[u] /\ got'[u] = got[u]
  BY <1>1, <1>2 DEF TypeOK, Steps
<1>4. CASE exchange[t].tok = NoToken
  <2>1. UNCHANGED <<store, page>>
    BY <1>4 DEF Answer
  <2>2. TypeOK'
    BY <1>1, <1>2, <1>3, <2>1 DEF TypeOK, rows, store, page
  <2>3. RefersToIssued' /\ EveryStepHasItsToken'
    BY <1>1, <1>2, <1>3, <2>1, Typed
       DEF IInv, RefersToIssued, EveryStepHasItsToken, rows, store, page, Number, NoToken
  <2>4. ExchangesAgree' /\ UnheldIsUnknown' /\ AnswersAreNew'
    BY <1>1, <1>3, <1>4, <2>1
       DEF IInv, ExchangesAgree, UnheldIsUnknown, AnswersAreNew, rows, store, page, Token, NoToken
  <2>5. ASSUME NEW n \in Token, held'[n] = 1 PROVE SoleHolder(n)'
    BY <1>1, <1>3, <2>1, <2>5 DEF IInv, SoleHolder, rows, store, page, Token, NoToken
  <2>6. QED
    BY <2>2, <2>3, <2>4, <2>5 DEF IInv
<1>5. CASE exchange[t].tok # NoToken /\ step[t] = "answered" /\ exchange[t].fresh
  <2>1. DEFINE n == got[t]
  <2>2. /\ n \in Token /\ n \in Number /\ n # NoToken
        /\ SetTokens(t, n, NoToken) /\ Hold(n) /\ login' = StaleLogin(t)
        /\ Waiters(t, "again") /\ UNCHANGED logout
        /\ n # login[t].tok
    BY <1>2, <1>5, Typed
       DEF IInv, EveryStepHasItsToken, AnswersAreNew, Answer, ExchangeSucceeded, Token, Number, NoToken
  <2>3. /\ mem' \in [Tab -> Number] /\ stored' = n
        /\ exchange' \in [Tab -> [tok : Number, fresh : BOOLEAN]]
        /\ held' \in [Token -> 0 .. 2]
    BY <1>2, <2>2, SetTokensFacts, HoldFacts
  <2>4. /\ login' \in [Tab -> [at : {"idle", "asked", "granted"}, tok : Number, fresh : BOOLEAN]]
        /\ \A u \in Tab : login'[u].tok = login[u].tok /\ login'[u].at = login[u].at
    BY <1>2, <2>2, StaleLoginFacts
  <2>5. /\ call' \in [Tab -> [Call -> {"idle", "sent", "waiting", "again"}]]
        /\ \A c \in Call : call'[t][c] # "waiting"
        /\ \A u \in Tab, c \in Call : u # t => call'[u][c] = call[u][c]
    BY <1>2, <2>2, WaitersFacts
  <2>6. TypeOK'
    BY <1>1, <1>2, <1>3, <2>2, <2>3, <2>4, <2>5 DEF TypeOK, rows
  <2>7. EveryStepHasItsToken'
    BY <1>3, <2>2, <2>4 DEF IInv, EveryStepHasItsToken
  <2>8. /\ RefersToIssued' /\ ExchangesAgree' /\ UnheldIsUnknown' /\ AnswersAreNew'
        /\ \A m \in Token : held'[m] = 1 => SoleHolder(m)'
    BY <1>1, <1>3, <2>2, <2>4, <2>5, SessionGained
  <2>9. QED
    BY <2>6, <2>7, <2>8 DEF IInv
<1>6. CASE exchange[t].tok # NoToken /\ ~(step[t] = "answered" /\ exchange[t].fresh)
  <2>2. /\ SetTokens(t, NoToken, NoToken) /\ login' = StaleLogin(t) /\ Waiters(t, "idle")
        /\ UNCHANGED <<held, logout>>
    BY <1>6 DEF Answer, ExchangeSucceeded, ExchangeFailed
  <2>3. /\ mem' \in [Tab -> Number] /\ stored' = NoToken
        /\ exchange' \in [Tab -> [tok : Number, fresh : BOOLEAN]]
    BY <1>2, <2>2, SetTokensFacts
  <2>4. /\ login' \in [Tab -> [at : {"idle", "asked", "granted"}, tok : Number, fresh : BOOLEAN]]
        /\ \A u \in Tab : login'[u].tok = login[u].tok /\ login'[u].at = login[u].at
    BY <1>2, <2>2, StaleLoginFacts
  <2>5. /\ call' \in [Tab -> [Call -> {"idle", "sent", "waiting", "again"}]]
        /\ \A c \in Call : call'[t][c] # "waiting"
        /\ \A u \in Tab, c \in Call : u # t => call'[u][c] = call[u][c]
    BY <1>2, <2>2, WaitersFacts
  <2>6. TypeOK'
    BY <1>1, <1>2, <1>3, <2>2, <2>3, <2>4, <2>5 DEF TypeOK, rows
  <2>7. EveryStepHasItsToken'
    BY <1>3, <2>2, <2>4 DEF IInv, EveryStepHasItsToken
  <2>8. /\ RefersToIssued' /\ ExchangesAgree' /\ UnheldIsUnknown' /\ AnswersAreNew'
        /\ \A m \in Token : held'[m] = 1 => SoleHolder(m)'
    BY <1>1, <1>2, <1>3, <2>2, <2>5, SessionLost
  <2>9. QED
    BY <2>6, <2>7, <2>8 DEF IInv
<1>7. QED
  BY <1>4, <1>5, <1>6

(* A step that changes nothing. *)
LEMMA StutterKeeps ==
  ASSUME IInv, UNCHANGED vars
  PROVE  IInv'
<1> USE DEF IInv, vars, server, rows, store, page
<1>1. TypeOK'
  BY DEF TypeOK
<1>2. RefersToIssued' /\ ExchangesAgree' /\ EveryStepHasItsToken'
  BY DEF RefersToIssued, ExchangesAgree, EveryStepHasItsToken
<1>3. UnheldIsUnknown' /\ AnswersAreNew'
  BY DEF UnheldIsUnknown, AnswersAreNew
<1>4. ASSUME NEW n \in Token, held'[n] = 1 PROVE SoleHolder(n)'
  BY <1>4 DEF SoleHolder
<1>5. QED
  BY <1>1, <1>2, <1>3, <1>4

(* A browser with nothing stored satisfies the invariant. *)
LEMMA InitHolds == Init => IInv
<1> SUFFICES ASSUME Init PROVE IInv
  OBVIOUS
<1> USE BoundsAssumption DEF Init, NoToken, Number, Token, NoExchange, NoLogin, NoLogout
<1>1. TypeOK
  BY DEF TypeOK, Steps
<1>2. RefersToIssued /\ ExchangesAgree /\ EveryStepHasItsToken
  BY DEF RefersToIssued, ExchangesAgree, EveryStepHasItsToken
<1>3. UnheldIsUnknown /\ AnswersAreNew
  BY DEF UnheldIsUnknown, AnswersAreNew
<1>4. ASSUME NEW n \in Token, held[n] = 1 PROVE SoleHolder(n)
  BY <1>4
<1>5. QED
  BY <1>1, <1>2, <1>3, <1>4 DEF IInv

(* Every step keeps the invariant. *)
LEMMA NextKeeps == IInv /\ [Next]_vars => IInv'
<1> SUFFICES ASSUME IInv, [Next]_vars PROVE IInv'
  OBVIOUS
<1>1. ASSUME NEW t \in Tab, ServerStep(t) PROVE IInv'
  BY <1>1, FindByHashKeeps, RevokeAllForUserKeeps, MarkRotatedKeeps, IssueNextKeeps, RefreshFailsKeeps
     DEF ServerStep
<1>2. ASSUME NEW t \in Tab, NEW c \in Call, SendCall(t, c) \/ CallStep(t, c) PROVE IInv'
  BY <1>2, SendCallKeeps, CallSettlesKeeps, JoinExchangeKeeps, StartExchangeKeeps,
     NothingToExchangeKeeps DEF CallStep
<1>3. ASSUME NEW t \in Tab, SendLogin(t) \/ LoginStep(t) PROVE IInv'
  BY <1>3, SendLoginKeeps, GrantLoginKeeps, LoginFailsKeeps, LoginAnsweredKeeps DEF LoginStep
<1>4. ASSUME NEW t \in Tab, SendLogout(t) \/ LogoutStep(t) PROVE IInv'
  BY <1>4, SendLogoutKeeps, RevokeByHashKeeps, LogoutDoneKeeps DEF LogoutStep
<1>5. ASSUME NEW t \in Tab, Load(t) \/ Answer(t) \/ ConnectionLost(t) PROVE IInv'
  BY <1>5, LoadKeeps, AnswerKeeps, ConnectionLostKeeps
<1>6. CASE UNCHANGED vars
  BY <1>6, StutterKeeps
<1>7. QED
  BY <1>1, <1>2, <1>3, <1>4, <1>5, <1>6 DEF Next

(* The invariant holds of every behaviour. *)
THEOREM Invariance == Spec => []IInv
<1>1. QED
  BY InitHolds, NextKeeps, PTL DEF Spec

(* The variables keep their types. *)
THEOREM TypeCorrect == Spec => []TypeOK
<1>1. IInv => TypeOK
  BY DEF IInv
<1>2. QED
  BY <1>1, Invariance, PTL

(* A page on its own never has its account's sessions ended as stolen: a reuse
   is of a token at least two page loads have held, for any number of pages. *)
THEOREM ReuseIsShared == Spec => []ReuseNeedsTwoHolders
<1>1. ASSUME IInv, NEW t \in Tab, step[t] = "revoke" PROVE held[ask[t]] = 2
  <2>1. ask[t] \in Token
    BY <1>1, Typed DEF IInv, EveryStepHasItsToken, Number, Token, NoToken
  <2>2. held[ask[t]] \in 0 .. 2 /\ held[ask[t]] # 0 /\ held[ask[t]] # 1
    BY <1>1, <2>1 DEF IInv, TypeOK, UnheldIsUnknown, SoleHolder
  <2>3. QED
    BY <2>2
<1>2. IInv => ReuseNeedsTwoHolders
  BY <1>1 DEF ReuseNeedsTwoHolders
<1>3. QED
  BY <1>2, Invariance, PTL

(* A call that waits waits for something the server has in hand. *)
THEOREM WaitersAreServed == Spec => []WaitersHaveAnExchange
<1>1. IInv => WaitersHaveAnExchange
  BY DEF IInv, ExchangesAgree, WaitersHaveAnExchange
<1>2. QED
  BY <1>1, Invariance, PTL

(* No answer to what a page asked before it was signed out signs it in. *)
THEOREM SignedOutIsFinal == Spec => SignedOutStaysOut
<1>1. ASSUME IInv, [Next]_vars, NEW t \in Tab, mem[t] = NoToken, mem'[t] # NoToken
      PROVE  \/ login[t].at = "granted" /\ mem'[t] = login[t].tok /\ login[t].fresh
             \/ mem'[t] = stored
  <2> TypeOK /\ ExchangesAgree
    BY <1>1 DEF IInv
  <2> USE DEF TypeOK, NoToken, SetTokens
  <2>1. ASSUME NEW u \in Tab, ServerStep(u) PROVE mem' = mem
    BY <2>1 DEF ServerStep, FindByHash, RevokeAllForUser, MarkRotated, IssueNext, RefreshFails, store
  <2>2. ASSUME NEW u \in Tab, NEW c \in Call, SendCall(u, c) \/ CallStep(u, c)
        PROVE  mem' = mem \/ mem' = [mem EXCEPT ![u] = NoToken]
    BY <2>2 DEF CallStep, SendCall, CallSettles, JoinExchange, StartExchange, NothingToExchange, store
  <2>3. ASSUME NEW u \in Tab, SendLogin(u) \/ SendLogout(u) \/ LogoutStep(u)
        PROVE  mem' = mem \/ mem' = [mem EXCEPT ![u] = NoToken]
    BY <2>3 DEF SendLogin, SendLogout, LogoutStep, RevokeByHash, LogoutDone, store
  <2>4. ASSUME NEW u \in Tab, Answer(u) \/ ConnectionLost(u)
        PROVE  \/ mem' = mem \/ mem' = [mem EXCEPT ![u] = NoToken]
               \/ mem[u] # NoToken /\ \E n \in Number : mem' = [mem EXCEPT ![u] = n]
    BY <2>4 DEF Answer, ConnectionLost, ExchangeSucceeded, ExchangeFailed, ExchangesAgree, store
  <2>5. ASSUME NEW u \in Tab, LoginStep(u)
        PROVE  \/ mem' = mem
               \/ /\ login[u].at = "granted" /\ login[u].fresh
                  /\ mem' = [mem EXCEPT ![u] = login[u].tok]
    BY <2>5 DEF LoginStep, GrantLogin, LoginFails, LoginAnswered, store
  <2>6. ASSUME NEW u \in Tab, Load(u) PROVE mem' = [mem EXCEPT ![u] = stored]
    BY <2>6 DEF Load
  <2>7. CASE UNCHANGED vars
    BY <1>1, <2>7 DEF vars, store
  <2>8. QED
    BY <1>1, <2>1, <2>2, <2>3, <2>4, <2>5, <2>6, <2>7, ZenonT(40) DEF Next
<1>2. IInv /\ [Next]_vars =>
        [\A t \in Tab :
           mem[t] = NoToken /\ mem'[t] # NoToken =>
             \/ login[t].at = "granted" /\ mem'[t] = login[t].tok /\ login[t].fresh
             \/ mem'[t] = stored]_mem
  BY <1>1
<1>3. QED
  BY <1>2, Invariance, PTL DEF Spec, SignedOutStaysOut

-----------------------------------------------------------------------------
(* The tokens of a session *)

(* What a step that writes no row and marks no token leaves as it was: no exchange
   comes to its last statements but from the lookup that found its token unused. *)
RowsStay ==
  /\ UNCHANGED <<issued, session, rotated>>
  /\ held' \in [Token -> 0 .. 2] /\ \A n \in Token : held[n] = 2 => held'[n] = 2
  /\ \A t \in Tab :
       /\ step'[t] = "issue" => step[t] = "issue" /\ ask'[t] = ask[t]
       /\ step'[t] = "mark" => /\ ask'[t] = ask[t]
                               /\ \/ step[t] = "mark"
                                  \/ step[t] = "find" /\ ask[t] \notin rotated \cup revoked

LEMMA HoldKeeps ==
  ASSUME TypeOK, NEW n \in Number, Hold(n)
  PROVE  held' \in [Token -> 0 .. 2] /\ \A m \in Token : held[m] = 2 => held'[m] = 2
<1>1. CASE n = NoToken
  BY <1>1 DEF Hold, TypeOK
<1>2. CASE n # NoToken
  <2>1. n \in Token /\ held[n] \in 0 .. 2
    BY BoundsAssumption, <1>2 DEF TypeOK, Number, Token, NoToken
  <2>2. AtMost2(held[n] + 1) \in 0 .. 2 /\ (held[n] = 2 => AtMost2(held[n] + 1) = 2)
    BY <2>1 DEF AtMost2
  <2>3. held' = [held EXCEPT ![n] = AtMost2(held[n] + 1)]
    BY <1>2 DEF Hold
  <2>4. QED
    BY <2>1, <2>2, <2>3 DEF TypeOK
<1>3. QED
  BY <1>1, <1>2

LEMMA RowsStayIfQuiet ==
  ASSUME TypeOK, UNCHANGED <<issued, session, rotated, step, ask>>,
         held' = held \/ \E n \in Number : Hold(n)
  PROVE  RowsStay
<1>1. held' \in [Token -> 0 .. 2] /\ \A n \in Token : held[n] = 2 => held'[n] = 2
  BY HoldKeeps DEF TypeOK
<1>2. QED
  BY <1>1 DEF RowsStay

(* The steps that do more are the three that mark a token or issue one. *)
LEMMA RowSteps ==
  ASSUME IInv, [Next]_vars
  PROVE  RowsStay \/ \E t \in Tab : MarkRotated(t) \/ IssueNext(t) \/ GrantLogin(t)
<1> USE DEF server, rows, store, page
<1>1. TypeOK /\ step \in [Tab -> Steps] /\ ask \in [Tab -> Number] /\ held \in [Token -> 0 .. 2]
  BY DEF IInv, TypeOK
<1>2. CASE UNCHANGED vars
  BY <1>1, <1>2, RowsStayIfQuiet DEF vars
<1>3. ASSUME NEW t \in Tab, FindByHash(t)
      PROVE  RowsStay
  BY <1>1, <1>3 DEF FindByHash, Server, Verdict, RowsStay
<1>4. ASSUME NEW t \in Tab, RevokeAllForUser(t) \/ RefreshFails(t)
      PROVE  RowsStay
  BY <1>1, <1>4 DEF RevokeAllForUser, RefreshFails, Server, RowsStay
<1>5. ASSUME NEW t \in Tab, NEW c \in Call, SendCall(t, c) \/ CallStep(t, c)
      PROVE  RowsStay
  <2>1. CASE StartExchange(t, c)
    BY <1>1, <2>1 DEF StartExchange, RowsStay
  <2>2. CASE SendCall(t, c) \/ CallSettles(t, c) \/ JoinExchange(t, c) \/ NothingToExchange(t, c)
    BY <1>1, <2>2, RowsStayIfQuiet DEF SendCall, CallSettles, JoinExchange, NothingToExchange
  <2>3. QED
    BY <1>5, <2>1, <2>2 DEF CallStep
<1>6. ASSUME NEW t \in Tab,
             \/ Load(t) \/ ConnectionLost(t) \/ SendLogin(t) \/ LoginFails(t) \/ LoginAnswered(t)
             \/ SendLogout(t) \/ LogoutStep(t)
      PROVE  RowsStay
  <2>1. stored \in Number /\ login[t].tok \in Number
    BY <1>1, Typed
  <2>2. CASE Load(t) \/ LoginAnswered(t)
    BY <1>1, <2>1, <2>2, RowsStayIfQuiet DEF Load, LoginAnswered
  <2>3. CASE ConnectionLost(t) \/ SendLogin(t) \/ LoginFails(t) \/ SendLogout(t) \/ LogoutStep(t)
    BY <1>1, <2>3, RowsStayIfQuiet
       DEF ConnectionLost, ExchangeFailed, SendLogin, LoginFails, SendLogout, LogoutStep,
           RevokeByHash, LogoutDone
  <2>4. QED
    BY <1>6, <2>2, <2>3
<1>7. ASSUME NEW t \in Tab, Answer(t)
      PROVE  RowsStay
  <2>1. got[t] \in Number
    BY <1>1, Typed
  <2>2. held' = held \/ Hold(got[t])
    BY <1>7 DEF Answer, ExchangeSucceeded, ExchangeFailed
  <2>3. held' \in [Token -> 0 .. 2] /\ \A n \in Token : held[n] = 2 => held'[n] = 2
    <3>1. CASE held' = held
      BY <1>1, <3>1
    <3>2. CASE Hold(got[t])
      BY <1>1, <2>1, <3>2, HoldKeeps
    <3>3. QED
      BY <2>2, <3>1, <3>2
  <2>4. QED
    BY <1>1, <1>7, <2>3 DEF Answer, RowsStay
<1>8. QED
  BY <1>2, <1>3, <1>4, <1>5, <1>6, <1>7 DEF Next, ServerStep, LoginStep

(* What a token was used for: an exchange past its lookup has one that was issued. *)
LEMMA Asked ==
  ASSUME IInv, TokensHaveSessions, NEW t \in Tab, step[t] # "idle"
  PROVE  /\ ask[t] \in Token /\ ask[t] <= issued /\ session[ask[t]] \in 1 .. issued
         /\ issued \in Nat /\ held[ask[t]] \in {1, 2}
<1>1. ask[t] \in Number /\ ask[t] # NoToken /\ ask[t] <= issued /\ issued \in Nat
  BY DEF IInv, TypeOK, EveryStepHasItsToken, RefersToIssued, Number
<1>2. ask[t] \in Token
  BY <1>1, BoundsAssumption DEF Number, Token, NoToken
<1>3. held[ask[t]] # 0 /\ held[ask[t]] \in 0 .. 2
  BY <1>2 DEF IInv, TypeOK, UnheldIsUnknown
<1>4. QED
  BY <1>1, <1>2, <1>3 DEF TokensHaveSessions

LEMMA RowsStayKeeps ==
  ASSUME IInv, TokensHaveSessions, SessionsGoOn, RowsStay
  PROVE  TokensHaveSessions' /\ SessionsGoOn'
<1>1. TokensHaveSessions'
  BY DEF RowsStay, TokensHaveSessions
<1>2. ASSUME NEW s \in 1 .. issued, NotShared(s)'
      PROVE  GoesOn(s)'
  <2>1. NotShared(s)
    BY <1>2 DEF NotShared, RowsStay
  <2>2. GoesOn(s)
    BY <2>1 DEF SessionsGoOn
  <2>3. Current(s)' = Current(s)
    BY DEF Current, RowsStay
  <2>4. \A t \in Tab : step'[t] = "mark" /\ session'[ask'[t]] = s => ask'[t] \notin rotated'
    BY <2>2 DEF GoesOn, RowsStay
  <2>5. QED
    BY <2>2, <2>3, <2>4 DEF GoesOn, RowsStay
<1>3. QED
  BY <1>1, <1>2 DEF SessionsGoOn, RowsStay

(* The one token of the session that could be exchanged has been, by the one exchange
   that has it. *)
LEMMA MarkGoesOn ==
  ASSUME IInv, TokensHaveSessions, SessionsGoOn, NEW t \in Tab, MarkRotated(t)
  PROVE  TokensHaveSessions' /\ SessionsGoOn'
<1>1. /\ step[t] = "mark" /\ step'[t] = "issue" /\ \A u \in Tab : u # t => step'[u] = step[u]
      /\ rotated' = rotated \cup {ask[t]}
      /\ UNCHANGED <<issued, session, ask, held>>
  BY DEF MarkRotated, Server, IInv, TypeOK, store
<1>2. /\ ask[t] \in Token /\ ask[t] <= issued /\ session[ask[t]] \in 1 .. issued
      /\ issued \in Nat /\ ask[t] \in 1 .. issued
  BY <1>1, Asked DEF Token
<1>3. TokensHaveSessions'
  BY <1>1 DEF TokensHaveSessions
<1>4. ASSUME NEW s \in 1 .. issued, NotShared(s)'
      PROVE  GoesOn(s)'
  <2>1. GoesOn(s)
    BY <1>1, <1>4 DEF NotShared, SessionsGoOn
  <2>2. Current(s)' = Current(s) \ {ask[t]}
    BY <1>1 DEF Current
  <2>3. CASE session[ask[t]] # s
    <3>1. Current(s)' = Current(s)
      BY <2>2, <2>3 DEF Current
    <3>2. \A u \in Tab : session[ask[u]] = s => u # t /\ ask[u] # ask[t]
      BY <2>3
    <3>3. QED
      BY <1>1, <2>1, <3>1, <3>2 DEF GoesOn
  <2>4. CASE session[ask[t]] = s
    <3>1. ask[t] \in Current(s)
      BY <1>1, <1>2, <2>1, <2>4 DEF Current, GoesOn
    <3>2. Current(s)' = {}
      BY <2>1, <2>2, <3>1 DEF GoesOn
    <3>3. ASSUME NEW u \in Tab, u # t, step[u] = "mark", session[ask[u]] = s
          PROVE  FALSE
      <4>1. ask[u] \in Current(s)
        BY <1>2, <2>1, <3>3, Asked DEF Current, GoesOn, Token
      <4>2. ask[u] = ask[t]
        BY <2>1, <3>1, <4>1 DEF GoesOn
      <4>3. held[ask[t]] = 1
        BY <1>1, <1>2, <1>4, <2>4, Asked DEF NotShared
      <4>4. QED
        BY <1>2, <3>3, <4>2, <4>3 DEF IInv, SoleHolder
    <3>4. \A u \in Tab : step'[u] = "issue" /\ session[ask[u]] = s => u = t
      BY <1>1, <2>1, <3>1 DEF GoesOn
    <3>5. \A u \in Tab : step'[u] = "mark" => u # t /\ step[u] = "mark"
      BY <1>1
    <3>6. QED
      BY <1>1, <3>2, <3>3, <3>4, <3>5 DEF GoesOn
  <2>5. QED
    BY <2>3, <2>4
<1>5. QED
  BY <1>1, <1>3, <1>4 DEF SessionsGoOn

(* A token is issued in a session that had none to exchange, nor any other on its way. *)
LEMMA IssueGoesOn ==
  ASSUME IInv, TokensHaveSessions, SessionsGoOn, NEW into \in 1 .. issued + 1, Issue(into),
         UNCHANGED <<ask, held>>,
         \A u \in Tab : step'[u] \in {"mark", "issue"} => step'[u] = step[u],
         into <= issued /\ NotShared(into) =>
           /\ Current(into) = {}
           /\ \A u \in Tab : step'[u] = "issue" => session[ask[u]] # into
  PROVE  TokensHaveSessions' /\ SessionsGoOn'
<1>1. DEFINE n == issued + 1
<1>2. /\ issued \in Nat /\ issued' = n /\ n \in Token /\ rotated' = rotated
      /\ session' = [session EXCEPT ![n] = into] /\ session \in [Token -> Number]
  BY BoundsAssumption DEF IInv, TypeOK, Issue, Number, Token
<1>3. /\ session'[n] = into /\ \A m \in Token : m # n => session'[m] = session[m]
      /\ session[n] = NoToken
  BY <1>2 DEF TokensHaveSessions
<1>4. \A m \in Token : m \in Nat /\ (m <= issued => m # n) /\ (m <= n => m = n \/ m <= issued)
                       /\ (m # n => (m <= issued <=> m <= n))
  BY <1>2 DEF Token
<1>5. TokensHaveSessions'
  <2>1. ASSUME NEW m \in Token
        PROVE  IF m <= n THEN session'[m] \in 1 .. n ELSE session'[m] = NoToken
    <3>1. CASE m = n
      BY <1>2, <1>3, <3>1
    <3>2. CASE m # n
      BY <1>2, <1>3, <1>4, <3>2 DEF TokensHaveSessions
    <3>3. QED
      BY <3>1, <3>2
  <2>2. QED
    BY <1>2, <2>1 DEF TokensHaveSessions
<1>6. ASSUME NEW u \in Tab, step'[u] \in {"mark", "issue"}
      PROVE  /\ step[u] = step'[u] /\ ask[u] \in Token /\ session'[ask[u]] = session[ask[u]]
             /\ session[ask[u]] \in 1 .. issued
  BY <1>3, <1>4, <1>6, Asked
<1>7. ASSUME NEW s \in 1 .. n, NotShared(s)'
      PROVE  GoesOn(s)'
  <2>1. NotShared(s)
    <3>1. s # NoToken
      BY <1>2 DEF NoToken
    <3>2. QED
      BY <1>3, <1>7, <3>1 DEF NotShared
  <2>2. s \in 1 .. issued => GoesOn(s)
    BY <2>1 DEF SessionsGoOn
  <2>3. s \in 1 .. issued \/ (s = n /\ n \notin 1 .. issued)
    BY <1>2
  <2>4. Current(s)' = {m \in Token : m <= n /\ session'[m] = s /\ m \notin rotated}
    <3>1. 1 .. n = {m \in Token : m <= n}
      BY <1>2, BoundsAssumption DEF Token, Issue
    <3>2. QED
      BY <1>2, <3>1 DEF Current
  <2>5. Current(s) = {m \in Token : m <= issued /\ session[m] = s /\ m \notin rotated}
    <3>1. 1 .. issued = {m \in Token : m <= issued}
      BY <1>2, BoundsAssumption DEF Token, Issue
    <3>2. QED
      BY <3>1 DEF Current
  <2>6. CASE s = into
    <3>1. Current(s) = {} /\ \A u \in Tab : step'[u] = "issue" => session[ask[u]] # s
      <4>1. CASE into <= issued
        BY <2>1, <2>6, <4>1
      <4>2. CASE ~(into <= issued)
        BY <1>2, <1>6, <2>5, <2>6, <4>2 DEF TokensHaveSessions
      <4>3. QED
        BY <4>1, <4>2
    <3>2. \A m \in Current(s)' : m = n
      BY <1>3, <1>4, <2>4, <2>5, <3>1
    <3>3. \A u \in Tab : step'[u] = "mark" /\ session[ask[u]] = s => ask[u] \notin rotated
      BY <1>6, <2>2, <2>3 DEF GoesOn
    <3>4. QED
      BY <1>2, <1>6, <3>1, <3>2, <3>3 DEF GoesOn
  <2>7. CASE s # into
    <3>1. Current(s)' = Current(s)
      BY <1>3, <1>4, <2>4, <2>5, <2>7
    <3>2. CASE s = n /\ n \notin 1 .. issued
      <4>1. Current(s) = {}
        BY <2>5, <3>2 DEF TokensHaveSessions
      <4>2. QED
        BY <1>6, <3>1, <3>2, <4>1 DEF GoesOn
    <3>3. CASE s \in 1 .. issued
      BY <1>2, <1>6, <2>2, <3>1, <3>3 DEF GoesOn
    <3>4. QED
      BY <2>3, <3>2, <3>3
  <2>8. QED
    BY <2>6, <2>7
<1>8. QED
  BY <1>2, <1>5, <1>7 DEF SessionsGoOn

LEMMA SessionsStep ==
  ASSUME IInv, TokensHaveSessions, SessionsGoOn, [Next]_vars
  PROVE  TokensHaveSessions' /\ SessionsGoOn'
<1>1. ASSUME NEW t \in Tab, IssueNext(t)
      PROVE  TokensHaveSessions' /\ SessionsGoOn'
  <2>1. DEFINE into == session[ask[t]]
  <2>2. /\ step[t] = "issue" /\ step'[t] = "answered"
        /\ \A u \in Tab : u # t => step'[u] = step[u]
        /\ Issue(into) /\ UNCHANGED <<ask, held>>
    BY <1>1 DEF IssueNext, Server, IInv, TypeOK, store
  <2>3. into \in 1 .. issued /\ issued \in Nat
    BY <2>2, Asked
  <2>4. NotShared(into) => /\ Current(into) = {}
                           /\ \A u \in Tab : step'[u] = "issue" => session[ask[u]] # into
    BY <2>2, <2>3 DEF SessionsGoOn, GoesOn
  <2>5. \A u \in Tab : step'[u] \in {"mark", "issue"} => step'[u] = step[u]
    BY <2>2
  <2>6. into \in 1 .. issued + 1
    BY <2>3
  <2> HIDE DEF into
  <2>7. QED
    BY <2>2, <2>4, <2>5, <2>6, IssueGoesOn
<1>2. ASSUME NEW t \in Tab, GrantLogin(t)
      PROVE  TokensHaveSessions' /\ SessionsGoOn'
  <2>1. Issue(issued + 1) /\ UNCHANGED <<step, ask, held>>
    BY <1>2 DEF GrantLogin, store
  <2>2. issued + 1 \in 1 .. issued + 1 /\ ~(issued + 1 <= issued)
    BY DEF IInv, TypeOK, Number
  <2>3. QED
    BY <2>1, <2>2, IssueGoesOn
<1>3. QED
  BY <1>1, <1>2, RowSteps, RowsStayKeeps, MarkGoesOn

LEMMA OneOrShared ==
  ASSUME TokensHaveSessions, SessionsGoOn
  PROVE  OneTokenUnlessShared
<1>1. ASSUME NEW s \in 1 .. issued, NotShared(s)
      PROVE  ~(Cardinality(Current(s)) > 1)
  <2>1. \A m, n \in Current(s) : m = n
    BY <1>1 DEF SessionsGoOn, GoesOn
  <2>2. CASE Current(s) = {}
    BY <2>2, FS_EmptySet
  <2>3. CASE Current(s) # {}
    <3>1. PICK n : n \in Current(s)
      BY <2>3
    <3>2. Current(s) = {n}
      BY <2>1, <3>1
    <3>3. Cardinality({n}) = 1
      BY FS_Singleton
    <3>4. QED
      BY <3>2, <3>3
  <2>4. QED
    BY <2>2, <2>3
<1>2. QED
  BY <1>1 DEF OneTokenUnlessShared, NotShared

(* A session has one token that stands for it, as the join in login-attempts.repository.ts
   takes it, unless two page loads have held one of its tokens. *)
THEOREM OneToken == Spec => []OneTokenUnlessShared
<1>1. Init => TokensHaveSessions /\ SessionsGoOn
  BY BoundsAssumption DEF Init, TokensHaveSessions, SessionsGoOn, Token, NoToken
<1>2. QED
  BY <1>1, Invariance, SessionsStep, OneOrShared, PTL DEF Spec

-----------------------------------------------------------------------------
(* Sessions that are over *)

(* The steps that revoke nothing, and write no row. *)
LEMMA NothingRevoked ==
  ASSUME IInv, TokensHaveSessions, RevocationsEnd, RowsStay, UNCHANGED <<revoked, crossed>>
  PROVE  RevocationsEnd'
<1>1. \A s : Live(s)' = Live(s)
  BY DEF RowsStay, Live, Current
<1>2. ASSUME NEW n \in revoked, Outlives(n) PROVE Outlives(n)'
  BY <1>2 DEF Outlives, Shared, RowsStay
<1>3. ASSUME NEW n \in revoked, NEW t \in Tab,
             step'[t] \in {"mark", "issue"}, session[ask'[t]] = session[n]
      PROVE  Outlives(n)
  <2>1. ask'[t] = ask[t]
    BY <1>3 DEF RowsStay
  <2>2. CASE step[t] \in {"mark", "issue"}
    BY <1>3, <2>1, <2>2 DEF RevocationsEnd
  <2>3. CASE step[t] = "find" /\ ask[t] \notin rotated \cup revoked
    <3>1. ask[t] \in Live(session[n])
      BY <1>3, <2>1, <2>3, Asked DEF Live, Current, Token
    <3>2. QED
      BY <3>1 DEF RevocationsEnd
  <2>4. QED
    BY <1>3, <2>2, <2>3 DEF RowsStay
<1>4. ASSUME NEW t \in Tab, step'[t] \in {"mark", "issue"}, ask'[t] \in revoked
      PROVE  session[ask'[t]] \in crossed
  BY <1>4 DEF RowsStay, RevocationsEnd
<1>5. QED
  BY <1>1, <1>2, <1>3, <1>4 DEF RevocationsEnd, RowsStay

(* A revocation of one token that was the session's only one, or of all there are. *)
LEMMA RevocationKeeps ==
  ASSUME IInv, TokensHaveSessions, SessionsGoOn, RevocationsEnd,
         NEW ns \in SUBSET (1 .. issued), Revoke(ns),
         UNCHANGED <<issued, session, rotated, ask, held>>,
         \A t \in Tab : step'[t] \in {"mark", "issue"} => step'[t] = step[t],
         ns = 1 .. issued \/ \A n \in ns : ns = {n} /\ n \notin rotated
  PROVE  RevocationsEnd'
<1>1. revoked' = revoked \cup ns /\ crossed \subseteq crossed'
  BY DEF Revoke
<1>2. \A s : Live(s)' = Live(s) \ ns
  BY <1>1 DEF Live, Current
<1>3. \A n \in revoked : Outlives(n) => Outlives(n)'
  BY <1>1 DEF Outlives, Shared
<1>4. ASSUME NEW t \in Tab, step[t] \in {"mark", "issue"}, NEW n \in ns, session[n] = session[ask[t]]
      PROVE  session[ask[t]] \in crossed'
  BY <1>4 DEF Revoke
<1>5. ASSUME NEW n \in ns, Live(session[n])' # {}
      PROVE  n \notin rotated /\ Shared(session[n])
  <2>1. PICK m : m \in Live(session[n])'
    BY <1>5
  <2>2. /\ m \in 1 .. issued /\ m \notin ns /\ m \in Current(session[n])
    BY <1>2, <2>1 DEF Live, Current
  <2>3. ns = {n} /\ n \notin rotated
    BY <2>2
  <2>4. /\ n \in 1 .. issued /\ issued \in Nat /\ n \in Current(session[n]) /\ n # m
    BY <2>2, <2>3 DEF Current, IInv, TypeOK, Number
  <2>5. session[n] \in 1 .. issued
    BY <2>4, BoundsAssumption DEF TokensHaveSessions, Token, IInv, TypeOK, Number
  <2>6. ~NotShared(session[n])
    BY <2>2, <2>4, <2>5 DEF SessionsGoOn, GoesOn
  <2>7. QED
    BY <2>3, <2>6 DEF NotShared, Shared
<1>6. ASSUME NEW n \in revoked'
      PROVE  /\ n <= issued
             /\ Live(session[n])' # {} => Outlives(n)'
             /\ \A t \in Tab : step'[t] \in {"mark", "issue"} /\ session[ask[t]] = session[n] => Outlives(n)'
  <2>1. CASE n \in revoked
    <3>1. Live(session[n])' # {} => Live(session[n]) # {}
      BY <1>2
    <3>2. QED
      BY <1>3, <2>1, <3>1 DEF RevocationsEnd
  <2>2. CASE n \in ns
    <3>1. n <= issued
      BY <2>2 DEF IInv, TypeOK, Number
    <3>2. Live(session[n])' # {} => Outlives(n)'
      BY <1>5, <2>2 DEF Outlives, Shared
    <3>3. ASSUME NEW t \in Tab, step'[t] \in {"mark", "issue"}, session[ask[t]] = session[n]
          PROVE  Outlives(n)'
      BY <1>4, <2>2, <3>3 DEF Outlives
    <3>4. QED
      BY <3>1, <3>2, <3>3
  <2>3. QED
    BY <1>1, <2>1, <2>2
<1>7. ASSUME NEW t \in Tab, step'[t] \in {"mark", "issue"}, ask[t] \in revoked'
      PROVE  session[ask[t]] \in crossed'
  BY <1>1, <1>4, <1>7 DEF RevocationsEnd
<1>8. QED
  BY <1>6, <1>7 DEF RevocationsEnd

(* A token that is marked although it is revoked was revoked under its exchange. *)
LEMMA MarkLeavesOver ==
  ASSUME IInv, RevocationsEnd, NEW t \in Tab, MarkRotated(t)
  PROVE  RevocationsEnd'
<1>1. /\ step[t] = "mark" /\ step'[t] = "issue" /\ \A u \in Tab : u # t => step'[u] = step[u]
      /\ rotated' = rotated \cup {ask[t]}
      /\ UNCHANGED <<issued, session, revoked, crossed, ask, held>>
  BY DEF MarkRotated, Server, IInv, TypeOK, store
<1>2. ASSUME NEW n \in revoked, Outlives(n) PROVE Outlives(n)'
  <2>1. CASE n = ask[t]
    BY <1>1, <2>1 DEF RevocationsEnd, Outlives
  <2>2. CASE n # ask[t]
    BY <1>1, <1>2, <2>2 DEF Outlives, Shared
  <2>3. QED
    BY <2>1, <2>2
<1>3. \A u \in Tab : step'[u] \in {"mark", "issue"} => step[u] \in {"mark", "issue"}
  BY <1>1
<1>4. \A n \in revoked : Live(session[n])' # {} => Live(session[n]) # {}
  BY <1>1 DEF Live, Current
<1>5. QED
  BY <1>1, <1>2, <1>3, <1>4 DEF RevocationsEnd

(* A token is issued in a session of its own, or by an exchange that was under way. *)
LEMMA IssueLeavesOver ==
  ASSUME IInv, TokensHaveSessions, RevocationsEnd, NEW into \in 1 .. issued + 1, Issue(into),
         UNCHANGED <<ask, held>>,
         \A u \in Tab : step'[u] \in {"mark", "issue"} => step'[u] = step[u],
         into <= issued => \E t \in Tab : step[t] = "issue" /\ session[ask[t]] = into
  PROVE  RevocationsEnd'
<1>1. DEFINE m == issued + 1
<1>2. /\ issued \in Nat /\ issued' = m /\ m \in Token
      /\ UNCHANGED <<rotated, revoked, crossed>> /\ revoked \in SUBSET Token
      /\ session' = [session EXCEPT ![m] = into] /\ session \in [Token -> Number]
  BY BoundsAssumption DEF IInv, TypeOK, Issue, Number, Token
<1>3. session'[m] = into /\ session[m] = NoToken /\ \A n \in Token : n # m => session'[n] = session[n]
  BY <1>2 DEF TokensHaveSessions
<1>4. ASSUME NEW n \in Token, n <= issued
      PROVE  n # m /\ session'[n] = session[n] /\ session[n] \in 1 .. issued
  BY <1>2, <1>3, <1>4 DEF Token, TokensHaveSessions
<1>5. ASSUME NEW n \in revoked
      PROVE  n \in Token /\ n <= issued /\ session'[n] = session[n] /\ session[n] \in 1 .. issued
  BY <1>2, <1>4, <1>5 DEF RevocationsEnd
<1>6. ASSUME NEW n \in revoked, Outlives(n) PROVE Outlives(n)'
  <2>1. \A k \in Token : session[k] = session[n] => session'[k] = session[n]
    BY <1>2, <1>3, <1>5 DEF NoToken
  <2>2. QED
    BY <1>2, <1>5, <1>6, <2>1 DEF Outlives, Shared
<1>7. ASSUME NEW n \in revoked, Live(session[n])' # {} PROVE Outlives(n)
  <2>1. PICK k : k \in Live(session[n])'
    BY <1>7
  <2>2. /\ k \in 1 .. m /\ session'[k] = session[n] /\ k \notin rotated /\ k \notin revoked
    BY <1>2, <1>5, <2>1 DEF Live, Current
  <2>3. CASE k = m
    <3>1. into = session[n] /\ into <= issued
      BY <1>2, <1>3, <1>5, <2>2, <2>3
    <3>2. QED
      BY <3>1 DEF RevocationsEnd
  <2>4. CASE k # m
    <3>1. k \in 1 .. issued /\ k \in Token
      BY BoundsAssumption, <1>2, <2>2, <2>4 DEF Token
    <3>2. k \in Live(session[n])
      BY <1>3, <2>2, <2>4, <3>1 DEF Live, Current
    <3>3. QED
      BY <3>2 DEF RevocationsEnd
  <2>5. QED
    BY <2>3, <2>4
<1>8. ASSUME NEW u \in Tab, step'[u] \in {"mark", "issue"}
      PROVE  /\ step[u] \in {"mark", "issue"} /\ ask'[u] = ask[u]
             /\ session'[ask[u]] = session[ask[u]]
  <2>1. step[u] \in {"mark", "issue"} /\ step[u] # "idle"
    BY <1>8
  <2>2. ask[u] \in Token /\ ask[u] <= issued
    BY <2>1, Asked
  <2>3. QED
    BY <1>4, <2>1, <2>2
<1>9. ASSUME NEW n \in revoked
      PROVE  /\ n <= issued'
             /\ Live(session[n])' # {} => Outlives(n)'
             /\ \A u \in Tab : step'[u] \in {"mark", "issue"} /\ session'[ask'[u]] = session'[n] => Outlives(n)'
  <2>1. n <= issued'
    BY <1>2, <1>5 DEF Token
  <2>2. \A u \in Tab : step'[u] \in {"mark", "issue"} /\ session'[ask'[u]] = session'[n] => Outlives(n)
    BY <1>5, <1>8 DEF RevocationsEnd
  <2>3. QED
    BY <1>6, <1>7, <2>1, <2>2
<1>10. ASSUME NEW u \in Tab, step'[u] \in {"mark", "issue"}, ask'[u] \in revoked
       PROVE  session'[ask'[u]] \in crossed
  BY <1>8, <1>10 DEF RevocationsEnd
<1> HIDE DEF m
<1>11. QED
  BY <1>2, <1>9, <1>10 DEF RevocationsEnd

(* The steps that revoke are the two the reuse of a token and a logout end in. *)
LEMMA OthersRevokeNothing ==
  ASSUME [Next]_vars, \A t \in Tab : ~RevokeAllForUser(t) /\ ~RevokeByHash(t)
  PROVE  UNCHANGED <<revoked, crossed>>
<1> USE DEF server, rows
<1>1. ASSUME NEW t \in Tab, ServerStep(t) PROVE UNCHANGED <<revoked, crossed>>
  BY <1>1 DEF ServerStep, FindByHash, MarkRotated, IssueNext, RefreshFails, Issue
<1>2. ASSUME NEW t \in Tab, NEW c \in Call, SendCall(t, c) \/ CallStep(t, c)
      PROVE  UNCHANGED <<revoked, crossed>>
  BY <1>2 DEF CallStep, SendCall, CallSettles, JoinExchange, StartExchange, NothingToExchange
<1>3. ASSUME NEW t \in Tab, SendLogin(t) \/ LoginStep(t) \/ Load(t) PROVE UNCHANGED <<revoked, crossed>>
  BY <1>3 DEF SendLogin, LoginStep, GrantLogin, LoginFails, LoginAnswered, Issue, Load
<1>4. ASSUME NEW t \in Tab, SendLogout(t) \/ LogoutStep(t) PROVE UNCHANGED <<revoked, crossed>>
  BY <1>4 DEF SendLogout, LogoutStep, LogoutDone
<1>5. ASSUME NEW t \in Tab, Answer(t) \/ ConnectionLost(t) PROVE UNCHANGED <<revoked, crossed>>
  BY <1>5 DEF Answer, ConnectionLost
<1>6. CASE UNCHANGED vars
  BY <1>6 DEF vars
<1>7. QED
  BY <1>1, <1>2, <1>3, <1>4, <1>5, <1>6 DEF Next

LEMMA RevocationsStep ==
  ASSUME IInv, TokensHaveSessions, SessionsGoOn, RevocationsEnd, [Next]_vars
  PROVE  RevocationsEnd'
<1>1. ASSUME NEW t \in Tab, IssueNext(t)
      PROVE  RevocationsEnd'
  <2>1. DEFINE into == session[ask[t]]
  <2>2. /\ step[t] = "issue" /\ step'[t] = "answered"
        /\ \A u \in Tab : u # t => step'[u] = step[u]
        /\ Issue(into) /\ UNCHANGED <<ask, held>>
    BY <1>1 DEF IssueNext, Server, IInv, TypeOK, store
  <2>3. into \in 1 .. issued + 1
    BY <2>2, Asked
  <2>4. \A u \in Tab : step'[u] \in {"mark", "issue"} => step'[u] = step[u]
    BY <2>2
  <2>5. \E u \in Tab : step[u] = "issue" /\ session[ask[u]] = into
    BY <2>2
  <2> HIDE DEF into
  <2>6. QED
    BY <2>2, <2>3, <2>4, <2>5, IssueLeavesOver
<1>2. ASSUME NEW t \in Tab, GrantLogin(t)
      PROVE  RevocationsEnd'
  <2>1. Issue(issued + 1) /\ UNCHANGED <<step, ask, held>>
    BY <1>2 DEF GrantLogin, store
  <2>2. issued + 1 \in 1 .. issued + 1 /\ ~(issued + 1 <= issued)
    BY DEF IInv, TypeOK, Number
  <2>3. QED
    BY <2>1, <2>2, IssueLeavesOver
<1>3. ASSUME NEW t \in Tab, RevokeAllForUser(t)
      PROVE  RevocationsEnd'
  <2>1. /\ Revoke(1 .. issued) /\ UNCHANGED <<issued, session, rotated, ask, held>>
        /\ \A u \in Tab : step'[u] \in {"mark", "issue"} => step'[u] = step[u]
    BY <1>3 DEF RevokeAllForUser, Server, IInv, TypeOK, store
  <2>2. QED
    BY <2>1, RevocationKeeps
<1>4. ASSUME NEW t \in Tab, RevokeByHash(t)
      PROVE  RevocationsEnd'
  <2>1. DEFINE ns == {logout[t].tok} \ rotated
  <2>2. Revoke(ns) /\ UNCHANGED <<issued, session, rotated, step, ask, held>>
    BY <1>4 DEF RevokeByHash, store
  <2>3. logout[t].tok \in 1 .. issued
    BY <1>4, Typed DEF RevokeByHash, IInv, EveryStepHasItsToken, RefersToIssued, Number, NoToken
  <2>4. ns \in SUBSET (1 .. issued) /\ \A n \in ns : ns = {n} /\ n \notin rotated
    BY <2>3
  <2> HIDE DEF ns
  <2>5. QED
    BY <2>2, <2>4, RevocationKeeps
<1>5. CASE \A t \in Tab : ~RevokeAllForUser(t) /\ ~RevokeByHash(t)
  <2>1. UNCHANGED <<revoked, crossed>>
    BY <1>5, OthersRevokeNothing
  <2>2. CASE RowsStay
    BY <2>1, <2>2, NothingRevoked
  <2>3. QED
    BY <1>1, <1>2, <2>2, RowSteps, MarkLeavesOver
<1>6. QED
  BY <1>3, <1>4, <1>5

(* A revoked session is over, for any number of pages, tokens and logouts, but for an
   exchange that was past its lookup and for the pages that share a session. *)
THEOREM SessionsEnd == Spec => []RevokedSessionsAreOver
<1>1. Init => TokensHaveSessions /\ SessionsGoOn /\ RevocationsEnd
  BY BoundsAssumption DEF Init, TokensHaveSessions, SessionsGoOn, RevocationsEnd, Token, NoToken
<1>2. RevocationsEnd => RevokedSessionsAreOver
  BY DEF RevocationsEnd, RevokedSessionsAreOver, Outlives, Shared
<1>3. QED
  BY <1>1, <1>2, Invariance, SessionsStep, RevocationsStep, PTL DEF Spec

=============================================================================
