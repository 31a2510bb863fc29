# GHS: a verification project

GHS records golf rounds, takes them through a review workflow, computes each
player's WHS Handicap Index from the approved ones and mails players about what
happened to their rounds. The repository is a monorepo: `apps/api` (Node, HTTP,
Postgres through hand-written SQL), `apps/worker` (a mail worker that polls an
outbox table), `apps/web` (a React client), `deploy` (systemd units for one API
process and one worker). This directory models the parts that keep state and
can go wrong through concurrency, failure and order, checks them with TLC on
small instances and proves their main invariants with TLAPS for all instances.

## 1. The system

### Components

| component | state | operations | where it is hard |
|---|---|---|---|
| Round workflow (`rounds.service.ts`, `rounds.repository.ts`) | a round's status, hole scores, date, computed scores | create, hole score, submit, admin submit, approve, reject, delete, reopen, date, remarks | handlers interleave at every `await`; some reads are unlocked, and some are used after a lock is taken later |
| Scoring and rescoring (`scoring.service.ts`, `rescoreRound`) | `rescoreChains`, in memory; a hole's adjustment | `recomputeRoundAggregates`: four statements on four connections; strokes received, net double bogey, differential | two rescores of one round; a rescore against an edit, a correction, a deletion; a restart loses the chains; a tee edited under a score; negative remainders |
| Handicap recalculation (`recalculation.service.ts`) | `players.handicap_index` | once per transition, in its transaction; once per player a PCC correction touches, in one of its own | two transitions of one player; partial failure of a list of players |
| Daily PCC (`pcc.service.ts`, `pcc.repository.ts`) | one row per tee configuration and day | get-or-create, upsert-and-apply | a correction writes rounds that transitions lock and rescores are about to overwrite |
| WHS calculation (`whs-calculation.ts`) | none | 9-hole pairing and ageing, count table, averages, caps | boundaries, truncation, rounds approved in another order than played |
| Handicap history and overrides (`handicap-history.repository.ts`, `handicap-overrides.service.ts`) | `players.handicap_index`, `low_handicap_index`, `handicap_history` | record change, override | order of changes, what a window is anchored to |
| Notification recording (`notifications.repository.ts`) | `notification_history`, `notification_outbox` | one INSERT of each, in the caller's transaction | must be atomic with what it tells of |
| Notification worker (`apps/worker`) | the outbox rows it holds | claim, send, mark, retry, sweep, retention | killed between send and mark; lost answers; failing statements in a catch block |
| Accounts and tokens (`auth.service.ts`, `users.repository.ts`, token repositories) | users, activation and reset tokens | register, activate, resend, request reset, reset, change password | check-then-act over separate statements |
| User administration (`admin-users.service.ts`) | the same users, player profiles | create, invite, update, disable, delete | reads outside the transaction that acts on them |
| Login and MFA (`auth.service.ts`, `mfa.service.ts`) | second factors, backup codes, pending logins, login attempts | login, complete, enrol, confirm, disable | a factor enabled, removed or replaced in the middle of a login or a confirmation |
| Sessions (`auth-provider.ts`, `refresh-tokens.repository.ts`) | refresh-token families | issue, rotate, detect reuse, revoke | two exchanges of one token; an exchange against a logout |
| Web session store (`auth-store.ts`, `api.ts`) | tokens in each page's memory and in shared storage, a generation counter | single-flight refresh, one retry, login, logout | a late answer; two tabs; a reload |
| Courses and tees (`courses.repository.ts`) | courses, tee configurations, their holes | create, change, soft-delete | unlocked "is it used" checks against rounds being created; a tee replaced in several statements |
| Migrations (`apply.ts`, `migrate.ts`) | ledger table, schema | apply pending; drift report at boot | two processes at once; a crash or a lost answer of COMMIT; releases of different contents |
| Connection pool (`pool.ts`) | connections in use | connect, read inside, release | a transaction that needs a second connection |
| Web pages (`AppRoutes.tsx`, `pages/`, `lib/api.ts`) | the query cache, forms, what is on the screen | fetch, save, invalidate, navigate | an answer that comes late or in another order; a key nobody invalidates; a page shown to a role the API refuses |
| Settings, clubs, dashboards, listings, login audit, rate limits, HTTP layer, widgets, mail rendering, deployment | reference data, counters, none | CRUD, reads, formatting | little |

`PROJECT.json` lists each of them with its sources and status, and under
"hazards" each line where the code is hard to test, with the properties that
cover it.

### How they interact

```
web pages --queries, writes--> api.ts --(401: one exchange for all calls)--> auth routes --> refresh tokens
    |                            |
    |                            +--HTTP--> routes --> rounds.service --(one transaction per transition)--> Postgres
    |                                         |            |  \-- notifyPlayer ----> history + outbox rows, same transaction
    +-- cache, by key                         |            |  \-- recalculation ----> player row lock, approved rounds, index
                                              |            \-- rescoreRound: chain per round --> scoring --> pcc, round row
                                              +-- admin-pcc --> PCC row lock --> day's rounds --> recalculation per player
                                              +-- auth, mfa, admin-users --> users, tokens, second factors
                                              +-- courses --> courses, tees, holes  <-- read by rounds and scoring
worker --(claims outbox rows)--> mail server --(marks them)--> Postgres
migrate.js --(advisory lock, ledger)--> schema  <-- drift report of a starting API
```

Every interaction goes through rows of Postgres and their locks, except for the
rescore chains, which only live in the API process, the connections of the pool,
the mail server, and what a browser keeps in memory.

### What makes them correct

* An index with enough rounds behind it counts the approved rounds, all of them
  and no others, whatever overlapped, failed or was cut short.
* No round counts without a differential; none is reviewed incomplete; none is
  edited while it is approved.
* The scores of a round under review are those of its latest hole scores.
* The newest history entry of a round tells where the round stands.
* Every request is answered: no circle of row locks and chains.
* The Low Handicap Index is never above the index, and a calculated index never
  more than the hard cap above it, whatever overrides and windows came between.
* Nine-hole rounds pair in the order played, each in one score at most; a better
  score, of a round or of a hole, never makes anything worse; scores that have
  aged out do not count; strokes received are dealt as Rule 6 deals them.
* A mail is sent a bounded number of times, twice only if something failed, is
  given up only when the schedule is used up, and is settled in the end.
* An unverified account can always still be verified; no reset token survives a
  reset; roles and player profiles agree; addresses are unique.
* A backup code lets in once; no login passes without a second factor that was
  enabled all the while; only a proven secret is enabled.
* Reuse of a refresh token is reported only when two page loads have had it, and
  is always recognised later; a logout is final; no call waits for ever.
* The holes of a tee are those of its row; a deletion saw every round that was
  there before it; what is deleted stays as it was.
* Migrations apply each file once, in order, and a clean drift report is true.
* Requests stick only on a pool that open transactions have filled.
* A page shows its own writes once everything is answered, and asks the API only
  what the API grants its role.

## 2. The modules

| module | what it is |
|---|---|
| `RoundLifecycle` | abstract: statuses move atomically, and the index follows in the same step |
| `RoundWorkflow` | detailed: requests, row locks, transactions, rescore chains, PCC corrections, recalculation, failures, restarts; implements `RoundLifecycle` |
| `RoundScoring` | a hole's strokes and adjustment, a differential, and a score entered while its tee is edited |
| `WhsCaps`, `WhsCalculation` | truncation and the caps; the calculation, as pure operators on a scoring record |
| `HandicapIndex` | a player's record, index, low and history over time; the calculation is its constant `RawIndex` |
| `NotificationDelivery` | abstract: a notification is queued, mailed, settled, retired |
| `NotificationOutbox` | detailed: the worker's cycle over the outbox table, with failures; implements `NotificationDelivery` |
| `Accounts` | users and their tokens: registration to deletion, statement by statement |
| `MfaLogin` | logins and second factors over `Accounts` |
| `Sessions` | refresh tokens on the server and the tabs of a browser that hold them |
| `Courses` | courses, tees, holes and the rounds created on them |
| `SchemaMigrations` | runs of several releases, the ledger, the drift report |
| `ConnectionPool` | queries and transactions on a pool of connections and row locks |
| `RoundEntry` | one hole of the score entry page: card, import, query, saves |
| `Pages` | routes, queries, writes and invalidations of every page, by role |
| `MCRoundWorkflow`, `MCSessions`, `MCAccounts`, `MCHandicap`, `MCPlatform`, `MCWeb` | the above with small constants for TLC |
| `*Proofs` | theorems: `RoundWorkflowProofs`, `NotificationOutboxProofs`, `SessionsProofs`, `AccountsProofs`, `MfaLoginProofs` about the module of the name; `HandicapProofs` about `HandicapIndex`, `WhsCaps`, `WhsCalculation` and `RoundScoring`; `WebProofs` about `Courses`, `RoundEntry` and `Pages`; `PlatformProofs` about `SchemaMigrations` and `ConnectionPool` |

`MCHandicap`, `MCPlatform` and `MCWeb` each check several modules that share no
state in one run: a behaviour is one of the first, or of the second, and so on,
while the others keep one initial state. Their state spaces add up, they are not
multiplied, and nothing is left out by it: modules without shared state have no
interleavings worth looking at. `MCAccounts` does compose: `MfaLogin` reads the accounts
that `Accounts` changes.

`PROJECT.json` "map" gives, for every definition that models code, the lines it
stands for.

### RoundWorkflow

A request is a `Client`; what its handler does between two `await`s is one
action, and `pc[c]` says at which `await` it stands. `req[c]` is the request,
`seen[c]` what it has read and not used yet.

* `runWorkflowTransition` (BEGIN, `getForUpdate`, `validate`, `apply`, COMMIT)
  is `LockRound` or `Refuse`, then `ReadDifferentials` if the transition
  recalculates, then one of the `Commit...` actions, which publishes everything
  the transaction wrote and releases its rows. `Rollback` may come instead at
  any time. The statements in between touch only rows that the transaction has
  locked, so nobody can tell when they happen.
* `approveRoundInternal` is `CheckApprovable` (an unlocked read), the rescore,
  and then the transaction; `submitAdminCreatedRound` continues with it.
* `rescoreRound` is `EnqueueRescore`, then `ReadRow`, `ReadHoles`, `ReadPcc` and
  `WriteScores`, each a statement on a connection of its own; `RescoreGone` and
  `RescoreFails` are its error paths, and each of them settles its place in the
  chain.
* `recalculatePccForTeeConfigDay` is `StartCorrection` (lock the PCC row; the
  UPDATE's snapshot selects its rounds), `ApplyPcc` (their rows are free; those
  that still match are rewritten - READ COMMITTED re-evaluates the condition),
  then `ReadAffected` and `CommitAffected` or `AffectedFails`, player by player.
* `Restart` loses everything that is in memory and rolls back what is open.

Data is abstract. A score differential is stood for by what it is computed from,
the scorecard that was read and the PCC that was used (`agg`), so that "stale"
means "computed from other data than is recorded". A Handicap Index is stood for
by the set of differentials it was computed from (`index`), so that two indices
are equal when they rest on the same differentials: that different differentials
give a different index is an assumption of the model, used where the code
compares the new index with the old one. The eligibility floor is `MinRounds`;
below it the code leaves the index as it is, and so does the model.

### WhsCalculation and HandicapIndex

A record maps rounds `1 .. n`, in the order played, to a differential or `NULL`
(not approved). `Walk` is the loop of `buildEffectiveDifferentials`, `Effective`
its slice of the latest scores, `Discarded` its `discardedNineHoleRoundId`,
`Lowest` the sort and slice of `calculateHandicapIndex`. Rounds played at the
same instant, whose order the code leaves to the database, are left out.

Numbers are integers: differentials in thousandths, indexes in tenths of a
stroke, and each truncation is the one of the code. The code computes with
doubles: of products such as 5.625 * 0.96 it truncates 5.39999... to 5.3 where
the integers give 5.4. IEEE operations keep order, so the properties below, which
compare indexes or bound them, do not depend on it; a single tenth does.

`HandicapIndex` is one player. Its steps are transactions: `runRecalculation`
and `runRecordChange` lock the player's row before they read and until they
commit (`RoundWorkflow` shows what depends on that). `Approve` and `Retract` change
the record and recalculate in one transaction; `Correct`, a PCC correction,
rewrites a differential in one transaction and `RecalculateAfterCorrection` is
another, which may never come, or come late. `Override` is dated by the start of
its transaction, so it may be a unit of time older than a calculation that is
already recorded. `RecordChange` records only changes, and takes `low` as the
minimum over the window that ends with the new row, the new row included. A
record with fewer than three scores leaves the index as it is, as the code does:
an index from rounds since retracted stays. `calculateHandicapIndex` is given to
`HandicapIndex` as a constant: what is proved holds whatever is calculated.

### NotificationOutbox

The worker's `pc` walks through the cycle: `ClaimBatch`, `Resolve`, one
`SendAccepted`, `SendDeferred`, `SendRejected` or `AnswerLost` per row followed
by `MarkSent` or `ApplyState`, then `Sweep` and `Reclaim`, then `Retain`. `read`
is the row's attempts as the claim returned them: the UPDATEs write `read + 1`
and not `attempts + 1`. `MarkSentFails` (inside the row's `try`) ends in the
row's own `catch`; `CycleFails` (outside any `try`, and the UPDATE in the catch
itself) ends the cycle; either way the UPDATE may have taken effect before its
answer was lost. `Crash` and `Restart` are the process and systemd. Time is
abstract: a row is `ripe` when its `retry_after`, or its crash timeout, is over.

### RoundScoring

`computeStrokesReceived`, `computeHoleAdjustment` and `computeScoreDifferential`
translate `scoring.service.ts` with its rounding: handicaps in hundredths, ratings
in tenths, differentials in thousandths. Around them stand `ReadTee` (the unlocked
read of `addHoleScore`, the adjustment computed from it), `WriteScore` (the
transaction) and `ReplaceHoles` (the administrator's change of the tee). The totals
that nothing is computed from (putts, penalties, greens, fairways) are left out.

### Accounts and MfaLogin

A slot of `Requests` serves one request at a time; `req[r].step` is the statement
it comes to. Where the code uses separate statements (activation: set status,
verify, mark used; reset: read the token, set the password, use every token)
there are separate actions, and `Fails` may end a request between any two. Where it
uses a transaction the writes gather in `req[r].writes` and appear with
`CommitNew`, `CommitToken` or `CommitUpdate`; meanwhile `Locked` makes other writers
of the row wait and `Claimed` those who want the e-mail address, as PostgreSQL
does for a row and for a key of a unique index. `updateUser` reads the account
and the address before its transaction: `FindTarget`, `FindByEmail`. A token's
expiry is a step of its own. `outdated` is a history variable: the reset tokens that
existed when the user's last reset ended.

`MfaLogin` adds `user_mfa_methods`, backup codes and the logins and enrolments
that use them. A secret, a batch of codes and a session are numbers, taken from one
counter; the account that is read is that of `Accounts`, and every step of
`Accounts` may come in between. `proven`, `overlapped`, `spent`, `sessions` and
`audited` record what the properties speak of.

### Sessions

The server's part of an exchange is `FindByHash`, then `RevokeAllForUser` or
`MarkRotated` and `IssueNext`, one per statement. A page's is `StartExchange` or
`JoinExchange` for a call that was answered 401 (the single flight of `api.ts`), and
`Answer` or `ConnectionLost`, whose two outcomes are `ExchangeSucceeded` and
`ExchangeFailed`. `mem` is a page's pair, `stored` the one in `localStorage`, which
`Load` alone reads. The generation counter of `auth-store.ts` is only ever compared
with an earlier copy of itself, so each request in flight has a flag `fresh` that
`SetTokens` clears. A page load forgets the answers it waited for, the server does
not: an exchange goes on without the page that asked for it. An MFA login is a
login whose grant comes later. Access tokens only expire: a 401 may meet any call.

### Courses

`course`, `tee` and `holes` are the tables; a version stands for the values one
request gave to a row and its holes. `updateTeeConfiguration` is `LockTee`, which
waits for whoever has the row, and `ReplaceTee`, its COMMIT. The deletions are
`FindCourse` or `FindTee`, `ReadTees`, `CheckRounds` and `DeleteCourse` or
`DeleteTee`, each a statement on no lock; `CreateRound` may come between any two.

### SchemaMigrations and ConnectionPool

A run of `migrate.js` starts with one of the releases in `Shipped`, takes the
advisory lock, reads the ledger once and goes through its files; a file's SQL and
its ledger row are the two `pending` effects that `CommitFile` publishes,
`CommitUnanswered` publishes and then fails, and `Crash` throws away. The lock goes
with the session that took it. A `Boot` is an API process that compares its own
files with the ledger. The SQL is left out but for how often it took effect.

In `ConnectionPool` a query takes one connection; a transaction holds one from
`Connect` to `ReleaseClient`, locks a row, and reads through the pool while it holds
the row (`ReadInside`) and again after COMMIT (`ReadAnswer`), as
`recalculation.service.ts` and `rounds.service.ts` do. `pg` waits for a free
connection without a time limit, as `pool.ts` leaves it.

### RoundEntry and Pages

TanStack Query is modelled as `App.tsx` and the pages use it: a query is fetched
when a page mounts it and when the window takes the focus, a fetch under way is
shared, an invalidation replaces the fetch if there is data already, and a query
nobody reads stays for a while.

`RoundEntry` is one hole of the score entry page. The card takes the values of the
cached round once, when it is mounted; saves and fetches travel independently, so
`ServeSave`, `CardAnswered`, `ServeFetch` and `FetchAnswers` come in any order.

`Pages` has every page as a record: the roles its route shows it to, the queries it
reads, its writes and what the answer of each invalidates, removes and navigates
to. Beside it stand the API's routes, a record each: a query has its key in the cache,
the roles it answers and what its answer `tells`, a write has its roles and what it
`changes`. A behaviour follows one query from page to page: queries do not depend on
each other. `aside` marks queries of which a page shows nothing that a write of the
page changes (an id, a name). `unsure` remembers that a fetch was shared or an answer
lost, until the next fetch, and `changed` that the page's token became one of another
role: a refusal of it is then no surprise.

## 3. The runs

| run | instance | states | what it shows |
|---|---|---|---|
| `RoundWorkflow` | 2 requests, 1 correction, 2 rounds of one player (one an admin's), all transitions | 1.1 million | safety of status, index and history under every interleaving, and that `RoundWorkflow` implements `RoundLifecycle` |
| `RoundRescore` | 2 requests, 1 correction, 1 round, 2 scores, 2 days, 1 fault, all edits | 708 thousand | the last stored scores of a pending round are those recorded, an approved round is not edited |
| `RoundLiveness` | 2 requests, 1 correction, 1 round, 1 fault | 16 thousand | under fairness every request is answered and every correction ends |
| `NotificationOutbox` | 3 notifications, batches of 2, 1 retry, 1 fault | 471 thousand | sends bounded, copies need faults, implements `NotificationDelivery`, and under fairness every notification is settled |
| `Handicap` | 5 rounds, 1 override, 3 times, a window of 1, 3 changes; records of 9 rounds, 3 of nine holes, 6 scores considered; every nine-hole stroke index, 2 entries | 312 thousand | the low bounds a calculated index; the loop pairs in order, a better score never hurts, aged scores are inert; strokes are dealt, a better hole never hurts |
| `Accounts` | 2 users, 2 addresses, 2 tokens, 2 requests at a time; 3 of `Accounts`, or 3 of `MfaLogin`, or 1 and 2 | 134 thousand | verification stays possible, resets end their tokens, codes are used once, the second factor is asked for and proven, successes have sessions |
| `Sessions` | 2 tabs, 2 calls each, 3 refresh tokens, 2 upsets | 3.1 million | reuse is detected only of shared tokens and its evidence kept, a sign-out is final, no call waits for nothing |
| `Platform` | 2 runs of 4 releases of up to 3 files, 1 boot; 3 transactions and 2 queries on 2 rows and 2 connections | 196 thousand | migrations apply in order and end, clean reports are true; only a pool full of transactions sticks |
| `Web` | 2 courses, 2 tees, 1 round, 2 requests at a time of 4; 2 saves of one hole; every page and query in every role with 2 writes at once | 982 thousand | tees and deletions are consistent; own saves and own writes are shown; pages ask what they may |
| `RoundApproval`, `RoundPcc`, `TeeEdit` | the smallest instance of each | | violated: see the findings |

Why the bounds are enough. Conflicts are between pairs: two requests, or a
request and a correction, that meet at one round, one player or one day's PCC;
with two requests and one correction every pair of steps is tried in every
order. Two rounds of one player are what it takes for one transition to read
the approved rounds while another changes them; `MinRounds = 1` makes every one
of them matter. One fault puts a crash or a failed statement between any two
steps. In the worker, three rows and batches of two put a row outside the batch,
and a schedule of one retry has a first and a last attempt. In the calculation,
nine rounds with three of nine holes give 0 to 7 scores, so that the rows of the
count table for 3 to 6 are used, an average of two is truncated, and a seventh
score ages one out; three nine-hole rounds are a pair and one waiting, in every
combination. `MaxEffective` is 6 there (20 in the code) so that ageing happens.
Three times with a window of one let a low leave the window, and the differentials
are far enough apart for either cap. Handicaps lie on both sides of a rounding, of
zero and of a stroke a hole. Two tabs are what it takes to share a token, two calls
to share an exchange; three tokens are a login, its rotation and one more of
either; two upsets are a reload and something else that goes wrong. Two accounts
and two addresses let one request take what another has found free; three requests
let a third change what two are working on. Three files let a release bring one in
before, after and instead of what is applied. A pool of two fills with two of three
transactions, and the third and the queries wait. In the client, two saves or two
writes at once are answered in either order, and a query's fate depends on no
other query. The theorems below have no bounds.

The bounds by name: `MaxFaults` (restarts and failed statements; `Rollback` is free),
`MaxClock` and `MaxChanges` (time and history rows), `MaxRequests`, `MaxLogins`,
`MaxTogether`, `MaxTokens`, `MaxUpsets`, `MaxSaves`, `Slots`, `MaxWrites`. They are in
the guards of the actions that would pass them; nothing else is bounded.

Deadlock is checked in `RoundWorkflow`, `RoundRescore`, `RoundLiveness`,
`NotificationOutbox` and `Sessions`, whose systems never stop. It is not where a
bounded system may end: all accounts made and all requests used up (`Accounts`,
`Web`), all changes recorded (`Handicap`), all migrations run, or the pool stuck, which
is what `StuckOnFullPool` is about (`Platform`).

Symmetry is used in runs of safety properties only: over `Client`, over tabs and
calls, over tokens, addresses, requests and users that are not members.

### Findings

Three statements of the repository do not hold of the code and have a run that
shows it; `PROJECT.json` has the lines.

1. `RoundApproval`: `rounds.service.ts:616` says that the rescore before
   approval guarantees correct scores at approval. A hole edited between that
   rescore and the approval's row lock is approved with the scores from before
   it; the edit's own rescore comes after the approval, and no recalculation
   comes after that.
2. `RoundPcc`: `pcc.repository.ts:35` says that a differential never disagrees
   with its day's PCC. A rescore that read the PCC before a correction writes it
   back after it.
3. `TeeEdit`: `rounds.service.ts:558` says that a tee's holes never change once
   it exists, so that computing a score's adjustment from an unlocked read is safe.
   `updateTeeConfiguration` replaces them; scores entered before, or in between, keep
   an adjustment for holes the tee no longer has.

Behaviours seen while modelling that no run of the project checks:

* A player may never be told of a change. Reopening an approved round recalculates
  silently until the correction is final (`recalculation.service.ts:155`); when the
  amended round is then deleted, the index is already what it will be and nothing
  is recorded (`ToldOnceFinalised` in `RoundWorkflow` states the opposite).
* A failing UPDATE in a row's `catch`, or in the sweep, ends the worker's cycle and
  strands the rest of the batch until the crash timeout, though `poll-loop.ts:91`
  speaks of a try/catch for each row (`RowsAreIsolated` in `NotificationOutbox`).
* Two exchanges of one refresh token, by two tabs, may both find it unrotated and
  both get a successor (`SingleUse` in `Sessions`; `refresh-tokens.repository.ts:20`
  says that the second is rejected).
* The `catch` of an exchange that fails late clears the session of a login made
  meanwhile (`StaleAnswersAreHarmless` in `Sessions`).
* A nine-hole round that was discarded for age is paired after all when another is
  approved: each calculation starts from all approved rounds
  (`whs-calculation.ts:103`).
* The low that caps a calculation is of an earlier window than the one stored with
  its result, so the same record calculated once more may give a higher index.
* `MyRoundsPage.tsx:114` means to refresh the dashboard after a deletion but names a
  key no query has; the dashboard is fetched when it is opened, so it does not show.

### Fairness

`RoundWorkflow`: strong fairness of each request's next step and of each
correction's. Node runs every continuation that is ready, and Postgres ends
every statement that is not waiting; one that waits for a row lock is queued for
it, so others that keep taking the row do not keep it out, which is what makes
the fairness strong. `Rollback`, failures, restarts and new requests are never
assumed to happen. `NotificationOutbox`: weak fairness of the worker's next step
(it never waits for anything but time, and systemd restarts it) and of the
passing of time for each row. The mail server may refuse for ever.
`SchemaMigrations`: weak fairness of each run's next step: nothing in `migrate.js`
waits but for the lock, every holder of the lock leaves it, and the runs are
finitely many. Runs are never assumed to start, nor statements to succeed. The pool
has no liveness property: it can stick.

## 4. The proofs

The eight `*Proofs` modules prove, for any values of the constants that satisfy the
named assumptions (TLC evaluates those in the runs), and from nothing else:

| module | theorems |
|---|---|
| `RoundWorkflowProofs` | `Invariant`, `TypeCorrect`, `IndexCorrect` (an index with enough rounds counts exactly the approved ones), `ApprovedScored`, `NoRescoreOverlap`, `ApprovedFrozen`, `ReviewedComplete`, `HistoryTells`, `PendingFresh`, `Refinement` (implements `RoundLifecycle`) |
| `NotificationOutboxProofs` | `OutboxInvariant`, `OutboxTypeCorrect`, `SendsBounded`, `NeverGivesUpEarly`, `CopiesArePaid` (duplicates need faults), `OutboxImplementsDelivery` |
| `HandicapProofs` | of the index: `CapsBound`, `CapsMonotone`, `TypeCorrect`, `LowCorrect`, `HardCapHolds`; of scoring: `StrokesDealt`, `BetterHole`; of the calculation: `OldestFirst`, `AgedInert`, `BetterScore`, `CalculationTyped` |
| `SessionsProofs` | `Invariance`, `TypeCorrect`, `ReuseIsShared`, `WaitersAreServed`, `SignedOutIsFinal`, `EvidenceLasts`, `OneToken` |
| `AccountsProofs` | `Invariance`, `TypeCorrect`, `CanVerify`, `PendingUnverified`, `RolesMatch`, `UniqueEmails`, `OutdatedDead` |
| `MfaLoginProofs` | `MfaInvariance`, `SingleUseCodes`, `ProvenSecrets`, `AskedForSecond`, `RecordedSuccesses`, `AccountsUndisturbed` |
| `WebProofs` | `Invariance`, `TypeCorrect`, `HolesMatch`, `EarlierRoundsSeen`, `OneAnswers`, `DeletedFrozen`; of the entry page `EntryInvariant`, `OwnSavesShown`; of all pages `PagesInvariance`, `OwnWritesShown`, `AskedWhatTheyMay` |
| `PlatformProofs` | `Invariance`, `TypeCorrect`, `LedgerIsTrue`, `NoConflicts`, `CleanReports`, `InOrder`; of the pool `PoolInvariance`, `StuckOnlyWhenFull`, `FewNeverStick` |

Every safety invariant and every action property that a run checks is among them.

**The index.** The property `IndexCorrect` is not inductive alone: a request
that commits must be known to have read what is still true. So `IInv` adds that
a request in its transaction owns its round's row and finds it as `validate`
did (`TransactionInv`); that a request, or a correction (`CorrectionInv`), about
to commit an index owns the player's row; and that the differentials it read are
one for each round that will be approved. That no other step changes the
player's approved rounds in the meantime follows because every transition into
or out of "approved" recalculates, and so owns the player's row too. That there
is one differential for each approved round needs that approved rounds have
been scored (`ScoredInv`), also before the approval, which needs that nothing
takes a score away; and for `ReadDifferentials` that counting differentials and
counting rounds is the same, a bijection (`FiniteSetTheorems`). `RescoreInv`
says that a call that has begun to read is the head of its chain, of which
`NoRescoreOverlap` is a consequence.

**Rounds under review, the history, and the abstract lifecycle.** `HistoryInv` adds
to `HistoryTellsStanding` that a quiet submission is only ever of an admin's round and
that nothing is told of a round not recorded yet; entry and row are written in one
transaction, the row locked, so every commit keeps it. `FreshInv` is about rounds
under review while nothing has failed (`faults = 0`). Of each, `FreshOrDue` says:
a call of it has still to read the hole scores; or one has read those recorded now
and will write what they give; or the stored scores are fresh and nobody is about to
overwrite them. Every edit leaves a call behind it, rescores of a round do not overlap
(`RescoreInv`), so the last one to write has read after the last edit.
`ReviewedComplete` needs that the set of holes is finite (there are eighteen,
`IsFiniteSet(Hole)`): a count of scores equal to the number of holes is all of them.
`Refinement` maps statuses and the index to themselves; each commit is the
abstract transition it names, every other step stutters, and `IndexCorrect`'s
invariant is what shows that the index a commit writes is the one the abstract step
computes at once.

**The worker.** `RowInv` relates a row's sends to its attempts by
its status, `BatchInv` says that claimed rows are untouched until the worker
comes to them, and `HandInv` what is known of the row in hand, the one place
where a row may be "sent" in the table and still be treated as failed. `View`,
the refinement mapping, keeps the row in hand queued for that reason. For
`CopiesArePaid` each mail that did not settle its row is charged to a fault:
`Wasted` has, by row and number, the mails that were followed by another and the
last mail of an `Exposed` row, which was mailed and which the worker will take for
unsent. A row becomes exposed by a fault only, a mail of an exposed row is counted
already when the next one follows it, and `FaultsPaid` says that there are no more of
them than faults.

**The caps and the low.** For `HardCapHolds`: the cap was applied with the low of an
earlier window, the property is about the low of the new one. `LowInv` keeps what the
earlier minimum was taken over: the low is at most every row in the window of the
last row. `DatesInv`, that no row is later than the clock, says that the window
of a new calculation starts no earlier than the last one's: the row that is the
new minimum is the new row itself, or was in the old window, and so is at least
the low that was used. An override that commits late moves the window back; for
it only `LowInv` is to be restored, which the minimum does. The calculation is
a parameter there, assumed to give a number or nothing; `CalculationTyped` is that
assumption, proved of `calculateHandicapIndex`.

**The calculation.** `Walk` and the sums are recursive functions, so what they give
is shown by induction. The library's induction theorems cannot be instantiated by the
provers, but well-foundedness can be used for a set: a set of positions that contains
0 and, with each position, the next, contains them all (`AllNumbers`). From it follow
that a recursion defines a function (`RecursionExists`), what a step of the walk is
(`WalkExists`, `Cases`) and what sums are (`SumsExist`, `TotalOfPart`). Each theorem
then relates two walks, of a record and of the changed one, at every position:
* `OldestFirst`: at every position a nine-hole round waits exactly when their number
  so far is odd, and the pairs are those of rounds 1 and 2, 3 and 4, and so on.
* `AgedInert`: the walks differ in one score (`SameBut`), the one of the 18-hole round;
  it is not considered, because `MaxEffective` others are more recent.
* `BetterScore`: the two walks have as many scores and at the same positions, all but
  one equal and that one lower (`Lower`); so there is a bijection of the scores
  considered that raises none, and since no other scores of the same number sum to less
  than the lowest (`LowestSum`), the selected sum of the better record is at most the
  other's. Division, adjustment and truncation keep the order.

**Scoring.** `StrokesDealt`: dealing strokes out one by one, the hole of index i
receives those of numbers i, i + n, i + 2n and so on; a bijection with the quotient
counts them, with the sign turned for plus handicaps. `BetterHole`: the cap on a
hole, the quotient and its rounding are monotone, and the adjusted gross is a sum of
which one term is exchanged. It uses that course ratings are numbers and slopes positive
(`001_clubs_and_courses.sql:60-61`) and holes lie in 1..18 (`:70`), as `ScoringAssumption`
states.

**Sessions.** For `ReuseIsShared`: a token that one page load has had (`held` = 1)
has a `SoleHolder`: no other page has it, no other exchange asks for it, and once
its exchange has begun the page that has it waits for the outcome and is still in
the session (`fresh`). Whatever the outcome, the page gives the token up, so it
cannot ask again. That needs that an answer under way carries a pair nobody holds
(`AnswersAreNew`), and that pairs nobody holds are unknown (`UnheldIsUnknown`).
`SignedOutIsFinal` follows because only a fresh exchange is applied, and a page
with a fresh exchange is signed in (`ExchangesAgree`). `OneToken` follows a session
from login on (`SessionsGoOn`): while none of its tokens has been shared, it has
exactly one that is not rotated, or one exchange has marked that one and is the only
one about to issue the next.

**Accounts.** What a request has found or written so far is true
of the table when it comes to use it (`HasArguments`, `HasWritten`,
`FoundAccount`): tokens and accounts never go away, a role is changed only by
who holds the row, a claimed address is nobody else's (`ClaimsAreUnique`). For
`CanVerify` the order of activation's statements matters: the token is marked used
only after the address is verified, and a verified address stays so. For
`OutdatedDead` the UPDATE that ends a reset uses every token of the user that is
there, and what `outdated` records is exactly that.

**Logins and second factors.** `MfaInv` is over the steps of both modules. Secrets,
batches and sessions are numbers from one counter, so those of requests under way are
their own (`NumbersAreFresh`). A code that can be used has not been, nor has one
of a number still to come (`UsableAreUnspent`): using a code takes it out, and a new
batch has a new number (`SingleUseCodes`). What a confirmation is about to enable has
been proven, unless the row has another secret by now, which `overlapped` records
(`ConfirmedAreProven`, for `ProvenSecrets`). A login that began with an enabled method
that has not been touched since has it still before it (`GuardedMeetTheirMethod`, for
`AskedForSecond`), and a session is there before its record (`SessionsComeFirst`). That
the steps of `MfaLogin` leave the invariant of `Accounts` alone is
`AccountsUndisturbed`.

**Courses.** `HasFound` says what each statement of a deletion
has established about the rounds that were there when it began, which stays true
because rounds are never moved; `OneLockHolder` that replacements of a tee are one
at a time, so that row and holes are of one version.

**Pages.** In `RoundEntry`, `WillBeShown`: the score the server has is in the cache, or in
a fetch that was served, or will be in one that is still to be served or that the
answer of a save will start. In `Pages` likewise: a query that is behind a write of
its page, or that a fetch will bring behind, is put right by a write that the server
has done and whose answer refreshes or drops it (`BehindInv`). That each write does so
is a fact about the pages, proved one by one from what a page reads, what its writes
change and which keys they invalidate (`PagesFit`). `AskedWhatTheyMay` rests on
`GrantedInv`: what is under way is granted to the token, since a page asks only for what
is granted to every role it is shown to, and what is granted to nobody's token is
granted to all, so that a login takes nothing away.

**Migrations and the pool.** The holder of the lock is the only run past it
(`RunInv`), so what it read of the ledger is still true, and every file behind it is
recorded as its release ships it. `LedgerTellsSchema` is SQL and row in one
transaction. For the pool, `PoolInv` counts: a connection is held
exactly from connecting to release; when everybody waits and not all connections
are held by transactions, somebody could go on (`FiniteSetTheorems` for the counting).

**Only model-checked**: liveness (`EveryRequestEnds`, `EveryNotificationSettles`,
`RunsEnd`), which needs fairness and ENABLED, and the fairness part of the two
refinements. The proofs are about the models; what they leave out is in section 5.

## 5. Not modelled, and why

* Doubles and NUMERIC. The models compute with integers and make each truncation
  and rounding the code makes; of products such as 5.625 * 0.96 the code truncates
  5.39999... to 5.3 where the integers give 5.4. What a correction derives its PCC
  from: `StartCorrection` takes any.
* Time zones: a round has one day. Rounds played at the same instant, whose order
  the code leaves to the database; deleted players (no recalculation); the audit row
  and notification of an override.
* The read after COMMIT, whose failure answers an error for a transition that
  happened: the round is as after a `Restart` at that point. Its connection is in
  `ConnectionPool`.
* In the worker: notifications without a recipient, settings that keep an outbox
  row from being recorded, history retention (it cascades to rows that are settled
  long since), several workers (one systemd unit runs).
* Clubs: one INSERT and two SELECTs of rows nothing changes. Settings: who may read
  and change them is in `Pages`; what each switch gates is a single read.
* Statistics of the dashboards, login audit beyond the success row, rate limits (a
  counter in one process, nothing depends on it), validation of request bodies,
  status codes.
* In the client: rendering, the catalogue of widgets, sorting, CSV parsing and the
  hole-by-hole loop of an import, type declarations; several tabs of one page cache
  (each has its own; the tokens they share are in `Sessions`).
* Password hashing, the making of tokens and codes, mail templates and SMTP: a
  password, a token, a code is a value. TOTP clock windows: a code is the secret it
  was made from. Presence snapshots: one INSERT of a count.

## 6. What could come next

Liveness of the worker and of requests as theorems, once a prover for ENABLED is at
hand; until then their ranking arguments, the steps a request still has to make,
could be stated as action properties. The index as a number in the refinement of
the lifecycle, in place of the set of rounds it counts: `BetterScore` and
`CalculationTyped` are what it would rest on. A second worker, should the deployment
ever run one.
