------------------------------- MODULE Sessions -------------------------------
(***************************************************************************)
(* One account's sessions: the refresh tokens of apps/api, and the browser *)
(* tabs of apps/web that hold them.  A tab keeps the token pair in memory  *)
(* and in the localStorage all tabs share, which it reads only when its    *)
(* page loads.  A call answered 401 waits for an exchange of the refresh   *)
(* token, one exchange for all calls of a page, and is then sent once more.*)
(* Statements of the server, and requests and answers of a tab, are steps  *)
(* of their own; a page load forgets what it was waiting for, and a broken *)
(* connection fails the exchange while the server carries on with it.      *)
(*                                                                         *)
(* auth-store's generation counter is only ever compared with a copy of    *)
(* itself: each request in flight has a flag that setTokens clears.  A     *)
(* token pair is named by the number of its refresh token.                 *)
(***************************************************************************)
EXTENDS Naturals, FiniteSets

CONSTANTS
  Tab,         \* pages that are, or may be, open in the browser
  Call,        \* calls of the API a page may have under way at once
  MaxTokens,   \* bound on the refresh tokens issued
  MaxUpsets    \* bound on page loads, logouts, failed exchanges and logins

ASSUME BoundsAssumption == MaxTokens \in Nat /\ MaxUpsets \in Nat

NoToken == 0
Token   == 1 .. MaxTokens

VARIABLES
  issued, session,      \* refresh_tokens: how many rows, and the session_id of each
  rotated, revoked,     \* rows with rotated_at, with revoked_at
  step, ask, got,       \* for each tab the exchange the server has in hand
  stored,               \* the pair in localStorage
  mem,                  \* the pair in each page's auth-store
  exchange,             \* refreshTokens: the token a page is exchanging, and whether
                        \*   its session is as it was (the generation has not moved)
  login, logout,        \* a page's login and logout requests
  call,                 \* a page's calls through the api instance
  upsets,
  held,                 \* history: how many page loads have held each pair (to 2)
  crossed               \* history: the sessions of which a token was revoked while the
                        \*   server was marking one of them, or had yet to issue the next

rows   == <<issued, session, rotated, revoked, crossed>>
server == <<rows, step, ask, got>>
store  == <<stored, mem, held>>
page   == <<exchange, login, logout, call>>
vars   == <<server, store, page, upsets>>

Steps == {"idle", "find", "revoke", "mark", "issue", "answered", "failed"}

NoExchange == [tok |-> NoToken, fresh |-> FALSE]
NoLogin    == [at |-> "idle", tok |-> NoToken, fresh |-> FALSE]
NoLogout   == [at |-> "idle", tok |-> NoToken]
Number     == 0 .. MaxTokens

TypeOK ==
  /\ issued \in Number /\ session \in [Token -> Number]
  /\ rotated \in SUBSET Token /\ revoked \in SUBSET Token /\ crossed \in SUBSET Number
  /\ step \in [Tab -> Steps] /\ ask \in [Tab -> Number] /\ got \in [Tab -> Number]
  /\ stored \in Number /\ mem \in [Tab -> Number] /\ held \in [Token -> 0 .. 2]
  /\ exchange \in [Tab -> [tok : Number, fresh : BOOLEAN]]
  /\ login \in [Tab -> [at : {"idle", "asked", "granted"}, tok : Number, fresh : BOOLEAN]]
  /\ logout \in [Tab -> [at : {"idle", "asked", "answered"}, tok : Number]]
  /\ call \in [Tab -> [Call -> {"idle", "sent", "waiting", "again"}]]
  /\ upsets \in 0 .. MaxUpsets

(* A browser with nothing stored, and pages that have loaded that. *)
Init ==
  /\ issued = 0 /\ session = [n \in Token |-> NoToken]
  /\ rotated = {} /\ revoked = {} /\ crossed = {}
  /\ step = [t \in Tab |-> "idle"]
  /\ ask = [t \in Tab |-> NoToken] /\ got = [t \in Tab |-> NoToken]
  /\ stored = NoToken /\ mem = [t \in Tab |-> NoToken] /\ held = [n \in Token |-> 0]
  /\ exchange = [t \in Tab |-> NoExchange]
  /\ login = [t \in Tab |-> NoLogin] /\ logout = [t \in Tab |-> NoLogout]
  /\ call = [t \in Tab |-> [c \in Call |-> "idle"]]
  /\ upsets = 0

-----------------------------------------------------------------------------
(* The server *)

Upset == upsets < MaxUpsets /\ upsets' = upsets + 1

(* create: the row of a new token pair, in session s. *)
Issue(s) ==
  /\ issued < MaxTokens
  /\ issued' = issued + 1
  /\ session' = [session EXCEPT ![issued + 1] = s]
  /\ UNCHANGED <<rotated, revoked, crossed>>

(* validateAndRotateRefreshToken, what findByHash shows of the row. *)
Verdict(n) ==
  IF n \in revoked THEN "failed" ELSE IF n \in rotated THEN "revoke" ELSE "mark"

Server(t, from, to) == step[t] = from /\ step' = [step EXCEPT ![t] = to]

FindByHash(t) ==
  /\ Server(t, "find", Verdict(ask[t]))
  /\ UNCHANGED <<rows, ask, got, store, page, upsets>>

(* Tokens ns are revoked, whatever exchange of their sessions is past its lookup. *)
Revoke(ns) ==
  /\ revoked' = revoked \cup ns
  /\ crossed' = crossed \cup {session[ask[t]] :
                    t \in {u \in Tab : /\ step[u] \in {"mark", "issue"}
                                      /\ \E n \in ns : session[n] = session[ask[u]]}}

(* Reuse of an exchanged token: revokeAllForUser, then an error. *)
RevokeAllForUser(t) ==
  /\ Server(t, "revoke", "failed")
  /\ Revoke(1 .. issued)
  /\ UNCHANGED <<issued, session, rotated, ask, got, store, page, upsets>>

\* Mutant: the exchanged token is left as it was.
MarksNothing(t) ==
  /\ Server(t, "mark", "issue")
  /\ UNCHANGED <<rows, ask, got, store, page, upsets>>

MarkRotated(t) ==
  /\ Server(t, "mark", "issue")
  /\ rotated' = rotated \cup {ask[t]}
  /\ UNCHANGED <<issued, session, revoked, crossed, ask, got, store, page, upsets>>

(* refresh goes on: a new pair in the same session. *)
IssueNext(t) ==
  /\ Server(t, "issue", "answered")
  /\ Issue(session[ask[t]])
  /\ got' = [got EXCEPT ![t] = issued + 1]
  /\ UNCHANGED <<ask, store, page, upsets>>

(* A statement fails, the token has expired, or the account is not active: the
   route answers 401 whatever the error was.  (Bound: once all tokens are
   issued, an exchange can always fail.) *)
RefreshFails(t) ==
  /\ Upset \/ (issued = MaxTokens /\ UNCHANGED upsets)
  /\ step[t] \in {"find", "revoke", "mark", "issue"}
  /\ step' = [step EXCEPT ![t] = "failed"]
  /\ UNCHANGED <<rows, ask, got, store, page>>

-----------------------------------------------------------------------------
(* A page's auth-store *)

AtMost2(k) == IF k < 2 THEN k ELSE 2

(* One more page load has pair n. *)
Hold(n) == held' = IF n = NoToken THEN held ELSE [held EXCEPT ![n] = AtMost2(@ + 1)]

\* Mutant: the generation moves only when a session begins.
SetTokensKeepsGeneration(t, n, k) ==
  /\ mem' = [mem EXCEPT ![t] = n] /\ stored' = n
  /\ exchange' = [exchange EXCEPT ![t] =
                    [tok |-> k, fresh |-> n = NoToken /\ k # NoToken /\ exchange[t].fresh]]

(* setTokens, in memory and in localStorage.  k is the token the page is still
   exchanging, if any; that exchange is no longer fresh. *)
SetTokens(t, n, k) ==
  /\ mem' = [mem EXCEPT ![t] = n] /\ stored' = n
  /\ exchange' = [exchange EXCEPT ![t] = [tok |-> k, fresh |-> FALSE]]

StaleLogin(t) == [login EXCEPT ![t].fresh = FALSE]

(* The page is loaded, or loaded again: readStoredTokens, and nothing under way. *)
Load(t) ==
  /\ Upset
  /\ mem' = [mem EXCEPT ![t] = stored]
  /\ Hold(stored)
  /\ exchange' = [exchange EXCEPT ![t] = NoExchange]
  /\ login' = [login EXCEPT ![t] = NoLogin]
  /\ logout' = [logout EXCEPT ![t] = NoLogout]
  /\ call' = [call EXCEPT ![t] = [c \in Call |-> "idle"]]
  /\ UNCHANGED <<server, stored>>

-----------------------------------------------------------------------------
(* Calls, and the exchange they wait for *)

(* A page behind RequireAuth sends a call with the access token it has. *)
SendCall(t, c) ==
  /\ mem[t] # NoToken /\ call[t][c] = "idle"
  /\ call' = [call EXCEPT ![t][c] = "sent"]
  /\ UNCHANGED <<server, store, exchange, login, logout, upsets>>

(* Any answer but a 401, a lost connection included; and a second 401, which is
   final.  A 401 may meet any call: its access token expires in the meantime. *)
CallSettles(t, c) ==
  /\ call[t][c] \in {"sent", "again"}
  /\ call' = [call EXCEPT ![t][c] = "idle"]
  /\ UNCHANGED <<server, store, exchange, login, logout, upsets>>

(* 401 while an exchange is under way: wait for its outcome. *)
JoinExchange(t, c) ==
  /\ call[t][c] = "sent" /\ exchange[t].tok # NoToken
  /\ call' = [call EXCEPT ![t][c] = "waiting"]
  /\ UNCHANGED <<server, store, exchange, login, logout, upsets>>

(* 401 with no exchange under way: start one, with the pair the page has now.
   Bound: the server has one exchange of a tab in hand at a time. *)
StartExchange(t, c) ==
  /\ call[t][c] = "sent" /\ exchange[t].tok = NoToken
  /\ mem[t] # NoToken /\ step[t] = "idle"
  /\ exchange' = [exchange EXCEPT ![t] = [tok |-> mem[t], fresh |-> TRUE]]
  /\ step' = [step EXCEPT ![t] = "find"]
  /\ ask' = [ask EXCEPT ![t] = mem[t]]
  /\ call' = [call EXCEPT ![t][c] = "waiting"]
  /\ UNCHANGED <<rows, got, store, login, logout, upsets>>

(* 401 for a call the page sent before it was signed out: there is nothing to
   exchange, and the interceptor's catch clears the session. *)
NothingToExchange(t, c) ==
  /\ call[t][c] = "sent" /\ exchange[t].tok = NoToken /\ mem[t] = NoToken
  /\ SetTokens(t, NoToken, NoToken)
  /\ login' = StaleLogin(t)
  /\ call' = [call EXCEPT ![t][c] = "idle"]
  /\ UNCHANGED <<server, held, logout, upsets>>

(* What the waiting calls do once the exchange is over. *)
Waiters(t, then) ==
  call' = [call EXCEPT ![t] =
             [c \in Call |-> IF call[t][c] = "waiting" THEN then ELSE call[t][c]]]

\* Mutant: a failed exchange answers nobody.
WaitersKeepWaiting(t) ==
  /\ SetTokens(t, NoToken, NoToken)
  /\ login' = StaleLogin(t)
  /\ UNCHANGED <<call, held, logout>>

\* Mutant: a page keeps its pair when an exchange fails, to try again with it.
KeepsSessionOnFailure(t) ==
  /\ exchange' = [exchange EXCEPT ![t] = NoExchange]
  /\ Waiters(t, "idle")
  /\ UNCHANGED <<store, login, logout>>

(* The interceptor's catch: whatever went wrong, the session is cleared. *)
ExchangeFailed(t) ==
  /\ SetTokens(t, NoToken, NoToken)
  /\ login' = StaleLogin(t)
  /\ Waiters(t, "idle")
  /\ UNCHANGED <<held, logout>>

(* assertSessionUnchangedSince, then setTokens; the calls are sent once more. *)
ExchangeSucceeded(t) ==
  IF exchange[t].fresh
  THEN /\ SetTokens(t, got[t], NoToken) /\ Hold(got[t])
       /\ login' = StaleLogin(t)
       /\ Waiters(t, "again")
       /\ UNCHANGED logout
  ELSE ExchangeFailed(t)

(* The server's answer reaches the page, if it is the one that asked. *)
Answer(t) ==
  /\ step[t] \in {"answered", "failed"}
  /\ step' = [step EXCEPT ![t] = "idle"]
  /\ ask' = [ask EXCEPT ![t] = NoToken] /\ got' = [got EXCEPT ![t] = NoToken]
  /\ IF exchange[t].tok = NoToken THEN UNCHANGED <<store, page>>
     ELSE IF step[t] = "answered" THEN ExchangeSucceeded(t) ELSE ExchangeFailed(t)
  /\ UNCHANGED <<rows, upsets>>

(* The connection breaks; the server does not notice. *)
ConnectionLost(t) ==
  /\ Upset
  /\ exchange[t].tok # NoToken
  /\ ExchangeFailed(t)
  /\ UNCHANGED server

-----------------------------------------------------------------------------
(* Login and logout *)

(* The login page is for who is not signed in.  (Bound: one login at a time, and
   one logout: there is one person at the browser.) *)
SendLogin(t) ==
  /\ mem[t] = NoToken /\ \A u \in Tab : login[u].at = "idle"
  /\ login' = [login EXCEPT ![t] = [at |-> "asked", tok |-> NoToken, fresh |-> TRUE]]
  /\ UNCHANGED <<server, store, exchange, logout, call, upsets>>

(* The server's part: a pair that begins a session. *)
GrantLogin(t) ==
  /\ login[t].at = "asked"
  /\ Issue(issued + 1)
  /\ login' = [login EXCEPT ![t].at = "granted", ![t].tok = issued + 1]
  /\ UNCHANGED <<step, ask, got, store, exchange, logout, call, upsets>>

(* Refused, or the answer is lost. *)
LoginFails(t) ==
  /\ Upset \/ (issued = MaxTokens /\ UNCHANGED upsets)
  /\ login[t].at # "idle"
  /\ login' = [login EXCEPT ![t] = NoLogin]
  /\ UNCHANGED <<server, store, exchange, logout, call>>

LoginAnswered(t) ==
  /\ login[t].at = "granted"
  /\ login' = [login EXCEPT ![t] = NoLogin]
  /\ IF login[t].fresh THEN SetTokens(t, login[t].tok, exchange[t].tok) /\ Hold(login[t].tok)
     ELSE UNCHANGED <<store, exchange>>
  /\ UNCHANGED <<server, logout, call, upsets>>

SendLogout(t) ==
  /\ Upset
  /\ mem[t] # NoToken /\ \A u \in Tab : logout[u].at = "idle"
  /\ logout' = [logout EXCEPT ![t] = [at |-> "asked", tok |-> mem[t]]]
  /\ UNCHANGED <<server, store, exchange, login, call>>

\* Mutant: an exchanged token is revoked as well.
RevokesRotated(t) ==
  /\ logout[t].at = "asked"
  /\ Revoke({logout[t].tok})
  /\ logout' = [logout EXCEPT ![t] = [at |-> "answered", tok |-> NoToken]]
  /\ UNCHANGED <<issued, session, rotated, step, ask, got, store, exchange, login, call, upsets>>

(* revokeByHash: this token, unless it has been exchanged. *)
RevokeByHash(t) ==
  /\ logout[t].at = "asked"
  /\ Revoke({logout[t].tok} \ rotated)
  /\ logout' = [logout EXCEPT ![t] = [at |-> "answered", tok |-> NoToken]]
  /\ UNCHANGED <<issued, session, rotated, step, ask, got, store, exchange, login, call, upsets>>

(* logout's finally: the session is cleared, answer or no answer. *)
LogoutDone(t) ==
  /\ logout[t].at # "idle"
  /\ logout' = [logout EXCEPT ![t] = NoLogout]
  /\ SetTokens(t, NoToken, exchange[t].tok)
  /\ login' = StaleLogin(t)
  /\ UNCHANGED <<server, held, call, upsets>>

-----------------------------------------------------------------------------
ServerStep(t) ==
  FindByHash(t) \/ RevokeAllForUser(t) \/ MarkRotated(t) \/ IssueNext(t) \/ RefreshFails(t)

CallStep(t, c) ==
  CallSettles(t, c) \/ JoinExchange(t, c) \/ StartExchange(t, c) \/ NothingToExchange(t, c)

LoginStep(t)  == GrantLogin(t) \/ LoginFails(t) \/ LoginAnswered(t)
LogoutStep(t) == RevokeByHash(t) \/ LogoutDone(t)

Next ==
  \/ \E t \in Tab :
       \/ Load(t) \/ ServerStep(t) \/ Answer(t) \/ ConnectionLost(t)
       \/ SendLogin(t) \/ LoginStep(t) \/ SendLogout(t) \/ LogoutStep(t)
       \/ \E c \in Call : SendCall(t, c) \/ CallStep(t, c)

Spec == Init /\ [][Next]_vars

-----------------------------------------------------------------------------
(* Properties *)

(* A token is reported as reused (every session of the account is then ended,
   as after a theft) only if more than one page load has held it: the single
   exchange of a page, and what it does with each outcome, never present a
   token twice by themselves. *)
ReuseNeedsTwoHolders ==
  \A t \in Tab : step[t] = "revoke" => held[ask[t]] = 2

(* The tokens of session s that stand for it: login-attempts.repository.ts joins
   them by rotated_at IS NULL and takes it that there is one. *)
Current(s) == {n \in 1 .. issued : session[n] = s /\ n \notin rotated}

(* A session has one token that has not been exchanged, unless two page loads
   have held the same token and exchanged it at once. *)
OneTokenUnlessShared ==
  \A s \in 1 .. issued :
    Cardinality(Current(s)) > 1 => \E n \in Token : session[n] = s /\ held[n] = 2

(* A signed-out page is signed in again by a login of its own, or by being
   loaded: never by an answer to what it asked before it was signed out. *)
SignedOutStaysOut ==
  [][\A t \in Tab :
       mem[t] = NoToken /\ mem'[t] # NoToken =>
         \/ login[t].at = "granted" /\ mem'[t] = login[t].tok /\ login[t].fresh
         \/ mem'[t] = stored]_mem

(* The tokens of session s that can still be exchanged. *)
Live(s) == Current(s) \ revoked

(* A session one of whose tokens was revoked is over: none of its tokens can be exchanged
   any more, so that refusing the revoked one as revoked, with nothing done about it, hides
   no session that goes on.  Left out are the sessions whose exchange was past its lookup
   at the revocation, which goes on with what it has read; and a logout from one page of
   a session that two page loads share, which ends the branch of that page. *)
RevokedSessionsAreOver ==
  \A n \in revoked :
    Live(session[n]) # {} =>
      \/ session[n] \in crossed
      \/ n \notin rotated /\ \E m \in Token : session[m] = session[n] /\ held[m] = 2

(* No call is left behind: one that waits waits for an exchange that is under
   way, and the server has every exchange a page waits for in hand. *)
WaitersHaveAnExchange ==
  \A t \in Tab :
    /\ exchange[t].tok # NoToken => step[t] # "idle"
    /\ \A c \in Call : call[t][c] = "waiting" => exchange[t].tok # NoToken

-----------------------------------------------------------------------------
(* The inductive invariant *)

(* Every token anything refers to is one that was issued. *)
RefersToIssued ==
  /\ \A t \in Tab : /\ mem[t] <= issued /\ ask[t] <= issued /\ got[t] <= issued
                    /\ login[t].tok <= issued /\ logout[t].tok <= issued
  /\ stored <= issued
  /\ \A n \in Token : n \in rotated \/ held[n] # 0 => n <= issued

(* The page and the server agree on what is being exchanged; an exchange whose
   answer would still be applied is of the page's own pair. *)
ExchangesAgree ==
  \A t \in Tab :
    /\ exchange[t].tok # NoToken => step[t] # "idle" /\ ask[t] = exchange[t].tok
    /\ exchange[t].fresh => mem[t] # NoToken /\ exchange[t].tok = mem[t]
    /\ \A c \in Call : call[t][c] = "waiting" => exchange[t].tok # NoToken

(* What is under way has the token it is about. *)
EveryStepHasItsToken ==
  \A t \in Tab :
    /\ step[t] # "idle" => ask[t] # NoToken
    /\ step[t] = "answered" => got[t] # NoToken
    /\ login[t].at = "granted" => login[t].tok # NoToken
    /\ logout[t].at = "asked" => logout[t].tok # NoToken

(* A pair no page has held yet is not known to anything but the answer it is in. *)
UnheldIsUnknown ==
  \A n \in Token : held[n] = 0 =>
    stored # n /\ n \notin rotated /\ \A t \in Tab : mem[t] # n /\ ask[t] # n /\ logout[t].tok # n

(* An answer on its way carries a pair no page holds, and no other answer does. *)
AnswersAreNew ==
  \A t \in Tab :
    /\ got[t] # NoToken => /\ held[got[t]] = 0
                           /\ \A u \in Tab : got[u] = got[t] => u = t
                           /\ \A u \in Tab : login[u].tok # got[t]
    /\ login[t].tok # NoToken => /\ held[login[t].tok] = 0
                                 /\ \A u \in Tab : login[u].tok = login[t].tok => u = t

(* A pair one page load has held: once its exchange has begun, the page that has
   it waits for the outcome. *)
SoleHolder(n) ==
  /\ \A t, u \in Tab : mem[t] = n /\ mem[u] = n => t = u
  /\ \A t, u \in Tab : ask[t] = n /\ ask[u] = n => t = u
  /\ \A t, u \in Tab : mem[t] = n /\ (n \in rotated \/ ask[u] = n) => exchange[t].fresh
  /\ \A t \in Tab : ask[t] = n => step[t] # "revoke" /\ (step[t] = "find" => n \notin rotated)

IInv ==
  /\ TypeOK /\ RefersToIssued /\ ExchangesAgree /\ EveryStepHasItsToken
  /\ UnheldIsUnknown /\ AnswersAreNew
  /\ \A n \in Token : held[n] = 1 => SoleHolder(n)

(* Every token issued is of a session that has begun, and no other is of any. *)
TokensHaveSessions ==
  \A n \in Token : IF n <= issued THEN session[n] \in 1 .. issued ELSE session[n] = NoToken

NotShared(s) == \A n \in Token : session[n] = s => held[n] # 2

(* While no token of it has been shared, a session has one token that stands for it,
   or is between marking that one and issuing the next. *)
GoesOn(s) ==
  /\ \A m, n \in Current(s) : m = n
  /\ \A t \in Tab : step[t] = "mark" /\ session[ask[t]] = s => ask[t] \notin rotated
  /\ \A t \in Tab : step[t] = "issue" /\ session[ask[t]] = s =>
       /\ Current(s) = {}
       /\ \A u \in Tab : step[u] = "issue" /\ session[ask[u]] = s => u = t

SessionsGoOn == \A s \in 1 .. issued : NotShared(s) => GoesOn(s)

Shared(s) == \E n \in Token : session[n] = s /\ held[n] = 2

(* What stands in the way of the end of the session that token n was revoked in. *)
Outlives(n) == session[n] \in crossed \/ (n \notin rotated /\ Shared(session[n]))

(* A session with a revoked token is over, or has an exchange under way that was there at
   the revocation; an exchange of a token revoked under it was. *)
RevocationsEnd ==
  /\ \A n \in revoked :
       /\ n <= issued
       /\ Live(session[n]) # {} => Outlives(n)
       /\ \A t \in Tab : step[t] \in {"mark", "issue"} /\ session[ask[t]] = session[n] => Outlives(n)
  /\ \A t \in Tab : step[t] \in {"mark", "issue"} /\ ask[t] \in revoked => session[ask[t]] \in crossed

-----------------------------------------------------------------------------
(* What the code says of itself, and does not keep *)

(* What refresh-tokens.repository.ts:20 says of markRotated: a second attempt to
   use a token is rejected.  A token has at most one successor. *)
SingleUse == \A s \in 1 .. issued : Cardinality(Current(s)) <= 1

(* What auth-store.ts:70 says of the generation: an answer that comes after the
   session has changed is not applied.  A page loses its session by its own
   logout, by being loaded, or by a failed exchange of that session's token. *)
StaleAnswersAreHarmless ==
  [][\A t \in Tab :
       mem[t] # NoToken /\ mem'[t] = NoToken =>
         logout[t].at # "idle" \/ exchange[t].tok = mem[t] \/ stored = NoToken]_mem
=============================================================================
