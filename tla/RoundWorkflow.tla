---------------------------- MODULE RoundWorkflow ----------------------------
(***************************************************************************)
(* The life of a round, as apps/api runs it: HTTP requests handled         *)
(* concurrently by one Node process over Postgres at READ COMMITTED.       *)
(*                                                                         *)
(* A request is a Client that walks through the steps of its handler; what *)
(* happens between two awaits is one action.  A transaction takes its row  *)
(* locks, keeps its writes to itself, and publishes them all at COMMIT.    *)
(* A Corrector is a request that applies a Daily PCC to a day's rounds and *)
(* then recalculates the players it touched.                               *)
(*                                                                         *)
(* An administrator may at any time replace the tee a round was played     *)
(* from, and with it the number of hole scores the round needs.            *)
(*                                                                         *)
(* Data is abstract.  A score differential is stood for by what it is      *)
(* computed from (the scorecard that was read and the PCC that was used),  *)
(* and a Handicap Index by the differentials it is computed from.          *)
(***************************************************************************)
EXTENDS Naturals, Sequences, FiniteSets

CONSTANTS
  Client, Corrector,   \* concurrent requests of the two kinds
  Round, Player,
  PlayerOf,            \* the player a round is recorded for
  AdminRounds,         \* rounds whose created_by_role is an admin's
  Linked,              \* players with a user account to notify
  Hole, Score,
  HoleCounts,          \* numbers of holes a round's tee may have
  Day,                 \* a tee configuration's days, the key of a Daily PCC
  Pcc, DefaultPcc,
  MinRounds,           \* effective differentials an index needs
  Ops,                 \* the operations clients may request
  MaxFaults,           \* bound on restarts of the process and failed statements
  NULL

AllOps == {"create", "hole", "submit", "adminSubmit", "approve", "reject",
           "delete", "adminDelete", "reopen", "date", "remarks"}

ASSUME ConstantsType ==
  /\ PlayerOf \in [Round -> Player] /\ IsFiniteSet(Round) /\ IsFiniteSet(Hole)
  /\ AdminRounds \subseteq Round /\ Linked \subseteq Player
  /\ DefaultPcc \in Pcc
  /\ HoleCounts \subseteq Nat /\ MinRounds \in Nat \ {0} /\ MaxFaults \in Nat
  /\ Ops \subseteq AllOps
  /\ NULL \notin Client \cup Corrector \cup Round \cup Score \cup Day \cup Pcc
  /\ Client \cap Corrector = {}

VARIABLES
  \* the database
  status, card, day, agg,   \* a round's status, hole scores, played date and computed scores
  note,                     \* the last notification_history event about a round
  dailyPcc,                 \* tee_configuration_daily_pcc (no row reads as the default)
  asks,                     \* how many holes the tee a round was played from has
  outgrown,                 \* history: rounds whose tee was replaced since their last
                            \* submission counted its holes
  index,                    \* a player's differentials behind handicap_index ({}: null)
  told,                     \* the index of the last handicap_changed notification
  roundLock, playerLock, pccLock,
  \* the API process
  chain,                    \* rescoreChains: per round, the calls in flight, oldest first
  pc, req, seen,            \* per client: next step, request, and what it has read
  fix,                      \* per corrector: its step, request and what it has read
  faults

rows    == <<status, card, day, agg, note>>
tees    == <<asks, outgrown>>
players == <<index, told>>
locks   == <<roundLock, playerLock, pccLock>>
clients == <<pc, req, seen>>
vars    == <<rows, dailyPcc, tees, players, locks, chain, clients, fix, faults>>

-----------------------------------------------------------------------------
(* Data *)

Statuses == {"none", "draft", "pending", "approved", "rejected", "amending", "deleted"}
Events   == {"round_submitted", "round_approved", "round_rejected"}
Card     == [Hole -> Score \cup {NULL}]
Agg      == [card : Card, pcc : Pcc]
Index    == SUBSET (Round \X Agg)

ASSUME NullType == NULL \notin Card \cup Agg

Steps    == {"idle", "check", "lock", "player", "commit", "reread",
             "rescore", "row", "holes", "pcc", "write"}

Requested  == [op : AllOps, round : Round]
Memory     == [day : Day \cup {NULL}, card : Card \cup {NULL}, pcc : Pcc \cup {NULL},
               differentials : Index]
Correction == [step : {"idle", "apply", "players", "commit"}, day : Day \cup {NULL},
               pcc : Pcc \cup {NULL}, targets : SUBSET Round, todo : SUBSET Player,
               player : Player \cup {NULL}, differentials : Index]

Blank == [day |-> NULL, card |-> NULL, pcc |-> NULL, differentials |-> {}]
NoReq == [op |-> NULL, round |-> NULL]
NoFix == [step |-> "idle", day |-> NULL, pcc |-> NULL, targets |-> {}, todo |-> {},
          player |-> NULL, differentials |-> {}]

TypeOK ==
  /\ status \in [Round -> Statuses]
  /\ card \in [Round -> Card]
  /\ day \in [Round -> Day]
  /\ agg \in [Round -> Agg \cup {NULL}]
  /\ note \in [Round -> Events \cup {NULL}]
  /\ dailyPcc \in [Day -> Pcc]
  /\ asks \in [Round -> HoleCounts] /\ outgrown \subseteq Round
  /\ index \in [Player -> Index] /\ told \in [Player -> Index]
  /\ roundLock \in [Round -> Client \cup {NULL}]
  /\ playerLock \in [Player -> Client \cup Corrector \cup {NULL}]
  /\ pccLock \in [Day -> Corrector \cup {NULL}]
  /\ chain \in [Round -> Seq(Client)]
  /\ pc \in [Client -> Steps]
  /\ req \in [Client -> Requested \cup {NoReq}]
  /\ seen \in [Client -> Memory]
  /\ fix \in [Corrector -> Correction]
  /\ faults \in 0 .. MaxFaults

-----------------------------------------------------------------------------
(* The rules of rounds.service.ts *)

isEditableStatus(s)           == s \in {"draft", "rejected", "amending"}
isNotYetApprovedStatus(s)     == s # "approved"
everCountedTowardHandicap(s)  == s \in {"approved", "amending"}
needsRescoreAfterDateChange(s) == s \in {"pending", "rejected"}
isApprovableStatus(s)         == s \in {"pending", "amending"}

Exists(r)   == status[r] \notin {"none", "deleted"}

(* assertCompleteForSubmission: the tee's holes are read with no lock. *)
Complete(r) == Cardinality({h \in Hole : card[r][h] # NULL}) >= asks[r]

Submits(op) == op \in {"submit", "adminSubmit"}

(* What each operation's validate() accepts of the row it has locked. *)
Accepts(op, r) ==
  CASE Submits(op)                         -> isEditableStatus(status[r])
    [] op \in {"approve", "reject"}        -> isApprovableStatus(status[r])
    [] op = "reopen"                       -> status[r] = "approved"
    [] op = "delete"                       -> isEditableStatus(status[r])
    [] op = "adminDelete"                  -> TRUE
    [] op \in {"hole", "date", "remarks"}  -> isNotYetApprovedStatus(status[r])

\* Mutant: a reopened round is left in the index until its amendment is settled.
RecalculatesNotOnReopen(op, r) ==
  \/ op = "approve"
  \/ op \in {"reject", "delete", "adminDelete"} /\ everCountedTowardHandicap(status[r])

(* Which transitions recalculate the player's handicap before they commit. *)
Recalculates(op, r) ==
  \/ op \in {"approve", "reopen"}
  \/ op \in {"reject", "delete", "adminDelete"} /\ everCountedTowardHandicap(status[r])

ApprovedRounds(p) == {r \in Round : PlayerOf[r] = p /\ status[r] = "approved"}

(* listApprovedDifferentialsForPlayer: the score differentials of these rounds. *)
Differentials(S) == {<<r, agg[r]>> : r \in {x \in S : agg[x] # NULL}}

Eligible(S) == Cardinality(S) >= MinRounds

-----------------------------------------------------------------------------
(* Requests *)

Op(c)   == req[c].op
R(c)    == req[c].round
Pl(c)   == PlayerOf[R(c)]

Goto(c, step) == pc' = [pc EXCEPT ![c] = step]

(* The request is answered, with a result or with an error. *)
Answer(c) ==
  /\ pc' = [pc EXCEPT ![c] = "idle"]
  /\ req' = [req EXCEPT ![c] = NoReq]
  /\ seen' = [seen EXCEPT ![c] = Blank]

\* Mutant: a submission relies on the count it made before it had the lock.
PassesOnPreCheck(c) ==
  /\ Exists(R(c)) /\ Accepts(Op(c), R(c))
  /\ Op(c) = "adminSubmit" => Complete(R(c))

(* What the transaction of c needs of the row it locks; a submission's apply()
   starts by counting again, under that lock. *)
Passes(c) ==
  /\ Exists(R(c)) /\ Accepts(Op(c), R(c))
  /\ Submits(Op(c)) => Complete(R(c))

Init ==
  /\ status = [r \in Round |-> "none"]
  /\ card = [r \in Round |-> [h \in Hole |-> NULL]]
  /\ day \in [Round -> Day]
  /\ agg = [r \in Round |-> NULL]
  /\ note = [r \in Round |-> NULL]
  /\ dailyPcc = [d \in Day |-> DefaultPcc]
  /\ asks \in [Round -> HoleCounts] /\ outgrown = {}
  /\ index = [p \in Player |-> {}] /\ told = [p \in Player |-> {}]
  /\ roundLock = [r \in Round |-> NULL]
  /\ playerLock = [p \in Player |-> NULL]
  /\ pccLock = [d \in Day |-> NULL]
  /\ chain = [r \in Round |-> <<>>]
  /\ pc = [c \in Client |-> "idle"]
  /\ req = [c \in Client |-> NoReq]
  /\ seen = [c \in Client |-> Blank]
  /\ fix = [a \in Corrector |-> NoFix]
  /\ faults = 0

(* createRound: one transaction of its own inserts the round as a draft with
   the hole scores it came with (its date is the one Init gives it). *)
CreateRound(r) ==
  /\ "create" \in Ops /\ status[r] = "none"
  /\ status' = [status EXCEPT ![r] = "draft"]
  /\ \E k \in Card : card' = [card EXCEPT ![r] = k]
  /\ UNCHANGED <<day, agg, note, dailyPcc, tees, players, locks, chain, clients, fix, faults>>

(* The first step of a request.  approveRoundInternal starts by reading the
   round; submitForReview refuses early, on unlocked reads, what it could not
   submit; every other handler goes for the row lock at once. *)
Request(c, op, r) ==
  /\ pc[c] = "idle" /\ op \in Ops \ {"create"} /\ Exists(r)
  /\ op = "submit" => Accepts(op, r) /\ Complete(r)
  /\ op = "adminSubmit" => r \in AdminRounds
  /\ req' = [req EXCEPT ![c] = [op |-> op, round |-> r]]
  /\ Goto(c, IF op = "approve" THEN "check" ELSE "lock")
  /\ UNCHANGED <<rows, dailyPcc, tees, players, locks, chain, seen, fix, faults>>

\* Mutant: a round that was scored at its submission is not rescored.
CheckWithoutRescore(c) ==
  /\ pc[c] = "check"
  /\ IF isApprovableStatus(status[R(c)])
     THEN Goto(c, IF status[R(c)] = "pending" THEN "lock" ELSE "rescore") /\ UNCHANGED <<req, seen>>
     ELSE Answer(c)
  /\ UNCHANGED <<rows, dailyPcc, tees, players, locks, chain, fix, faults>>

(* approveRoundInternal's unlocked status check, before it rescores. *)
CheckApprovable(c) ==
  /\ pc[c] = "check"
  /\ IF isApprovableStatus(status[R(c)])
     THEN Goto(c, "rescore") /\ UNCHANGED <<req, seen>>
     ELSE Answer(c)
  /\ UNCHANGED <<rows, dailyPcc, tees, players, locks, chain, fix, faults>>

-----------------------------------------------------------------------------
(* Transactions *)

(* The submission of c has just counted the holes of the round's tee. *)
CountsHoles(c) ==
  /\ outgrown' = IF Submits(Op(c)) THEN outgrown \ {R(c)} ELSE outgrown
  /\ UNCHANGED asks

\* Mutant: the row is read without FOR UPDATE.
ReadRoundUnlocked(c) ==
  /\ pc[c] = "lock"
  /\ Passes(c)
  /\ Goto(c, IF Recalculates(Op(c), R(c)) THEN "player" ELSE "commit")
  /\ CountsHoles(c)
  /\ UNCHANGED <<rows, dailyPcc, players, locks, chain, req, seen, fix, faults>>

(* getForUpdate and validate: the row is locked, and found acceptable; a
   submission then counts what the round needs. *)
LockRound(c) ==
  /\ pc[c] = "lock" /\ roundLock[R(c)] = NULL
  /\ Passes(c)
  /\ roundLock' = [roundLock EXCEPT ![R(c)] = c]
  /\ Goto(c, IF Recalculates(Op(c), R(c)) THEN "player" ELSE "commit")
  /\ CountsHoles(c)
  /\ UNCHANGED <<rows, dailyPcc, players, playerLock, pccLock, chain, req, seen, fix, faults>>

(* getForUpdate or validate throws: the transaction ends with no effect. *)
Refuse(c) ==
  /\ pc[c] = "lock" /\ roundLock[R(c)] = NULL
  /\ ~Passes(c)
  /\ Answer(c)
  /\ UNCHANGED <<rows, dailyPcc, tees, players, locks, chain, fix, faults>>

(* The approved rounds as transaction c sees them, its own write included. *)
ApprovedFor(c) ==
  IF Op(c) = "approve" THEN ApprovedRounds(Pl(c)) \cup {R(c)}
                       ELSE ApprovedRounds(Pl(c)) \ {R(c)}

\* Mutant: the approved rounds are read with no lock on the player.
ReadDifferentialsUnlocked(c) ==
  /\ pc[c] = "player"
  /\ seen' = [seen EXCEPT ![c].differentials =
       Differentials(ApprovedFor(c))]
  /\ Goto(c, "commit")
  /\ UNCHANGED <<rows, dailyPcc, tees, players, locks, chain, req, fix, faults>>

(* runRecalculation's first two statements: the player row is locked, then the
   approved rounds are read, this transaction's own write among them. *)
ReadDifferentials(c) ==
  /\ pc[c] = "player" /\ playerLock[Pl(c)] = NULL
  /\ playerLock' = [playerLock EXCEPT ![Pl(c)] = c]
  /\ seen' = [seen EXCEPT ![c].differentials =
       Differentials(ApprovedFor(c))]
  /\ Goto(c, "commit")
  /\ UNCHANGED <<rows, dailyPcc, tees, players, roundLock, pccLock, chain, req, fix, faults>>

(* What runRecalculation writes for player p from the differentials it read.
   The index changes only if there are enough of them; the player is notified
   only of a real change, and never of one a reopening caused. *)
Recalculated(p, differentials, silently) ==
  IF Eligible(differentials) /\ differentials # index[p]
  THEN /\ index' = [index EXCEPT ![p] = differentials]
       /\ told' = IF silently \/ p \notin Linked THEN told
                  ELSE [told EXCEPT ![p] = differentials]
  ELSE UNCHANGED players

(* COMMIT or ROLLBACK frees every row the transaction holds. *)
Release(x) ==
  /\ roundLock'  = [r \in Round |-> IF roundLock[r] = x THEN NULL ELSE roundLock[r]]
  /\ playerLock' = [p \in Player |-> IF playerLock[p] = x THEN NULL ELSE playerLock[p]]
  /\ pccLock'    = [d \in Day |-> IF pccLock[d] = x THEN NULL ELSE pccLock[d]]

(* The commit of a transition to status `to`, with the recalculation it made. *)
Transition(c, to) ==
  /\ status' = [status EXCEPT ![R(c)] = to]
  /\ IF Recalculates(Op(c), R(c))
     THEN Recalculated(Pl(c), seen[c].differentials, Op(c) = "reopen")
     ELSE UNCHANGED players
  /\ Release(c)
  /\ UNCHANGED <<card, day, agg, dailyPcc, tees, chain, fix, faults>>

(* notifyPlayer, in the same transaction; nobody to tell, nothing recorded. *)
Notified(r, event) ==
  note' = IF PlayerOf[r] \in Linked THEN [note EXCEPT ![r] = event] ELSE note

(* submitForReview: pending, and rescored once that is committed. *)
CommitSubmit(c) ==
  /\ pc[c] = "commit" /\ Op(c) = "submit"
  /\ Transition(c, "pending") /\ Notified(R(c), "round_submitted")
  /\ Goto(c, "rescore") /\ UNCHANGED <<req, seen>>

(* submitAdminCreatedRound: a quiet move to pending, then approveRoundInternal. *)
CommitAdminSubmit(c) ==
  /\ pc[c] = "commit" /\ Op(c) = "adminSubmit"
  /\ Transition(c, "pending") /\ UNCHANGED note
  /\ req' = [req EXCEPT ![c] = [op |-> "approve", round |-> R(c)]]
  /\ Goto(c, "check") /\ UNCHANGED seen

CommitApprove(c) ==
  /\ pc[c] = "commit" /\ Op(c) = "approve"
  /\ Transition(c, "approved") /\ Notified(R(c), "round_approved")
  /\ Answer(c)

\* Mutant: a rejection is only announced when it also recalculates.
CommitQuietReject(c) ==
  /\ pc[c] = "commit" /\ Op(c) = "reject"
  /\ Transition(c, "rejected")
  /\ IF Recalculates(Op(c), R(c)) THEN Notified(R(c), "round_rejected") ELSE UNCHANGED note
  /\ Answer(c)

CommitReject(c) ==
  /\ pc[c] = "commit" /\ Op(c) = "reject"
  /\ Transition(c, "rejected") /\ Notified(R(c), "round_rejected")
  /\ Answer(c)

CommitDelete(c) ==
  /\ pc[c] = "commit" /\ Op(c) \in {"delete", "adminDelete"}
  /\ Transition(c, "deleted") /\ UNCHANGED note
  /\ Answer(c)

CommitReopen(c) ==
  /\ pc[c] = "commit" /\ Op(c) = "reopen"
  /\ Transition(c, "amending") /\ UNCHANGED note
  /\ Answer(c)

(* addHoleScore: the upsert of one hole; a pending round is then rescored. *)
CommitHole(c) ==
  /\ pc[c] = "commit" /\ Op(c) = "hole"
  /\ \E h \in Hole, s \in Score : card' = [card EXCEPT ![R(c)][h] = s]
  /\ Release(c)
  /\ IF status[R(c)] = "pending"
     THEN Goto(c, "rescore") /\ UNCHANGED <<req, seen>>
     ELSE Answer(c)
  /\ UNCHANGED <<status, day, agg, note, dailyPcc, tees, players, chain, fix, faults>>

(* updatePlayedAt: the new date; the round is then read again, unlocked. *)
CommitDate(c) ==
  /\ pc[c] = "commit" /\ Op(c) = "date"
  /\ \E d \in Day : day' = [day EXCEPT ![R(c)] = d]
  /\ Release(c)
  /\ Goto(c, "reread")
  /\ UNCHANGED <<status, card, agg, note, dailyPcc, tees, players, chain, req, seen, fix, faults>>

RereadAfterDate(c) ==
  /\ pc[c] = "reread"
  /\ IF needsRescoreAfterDateChange(status[R(c)])
     THEN Goto(c, "rescore") /\ UNCHANGED <<req, seen>>
     ELSE Answer(c)
  /\ UNCHANGED <<rows, dailyPcc, tees, players, locks, chain, fix, faults>>

(* updateRemarks: free text the model leaves out, under the same lock. *)
CommitRemarks(c) ==
  /\ pc[c] = "commit" /\ Op(c) = "remarks"
  /\ Release(c) /\ Answer(c)
  /\ UNCHANGED <<rows, dailyPcc, tees, players, chain, fix, faults>>

(* A statement fails before COMMIT: the whole transaction is undone. *)
Rollback(c) ==
  /\ pc[c] \in {"player", "commit"}
  /\ Release(c) /\ Answer(c)
  /\ UNCHANGED <<rows, dailyPcc, tees, players, chain, fix, faults>>

-----------------------------------------------------------------------------
(* Rescoring: rescoreRound around scoring.recomputeRoundAggregates.  Every
   step is an unlocked statement on a connection of its own. *)

(* rescoreRound chains this call behind those in flight for the round. *)
EnqueueRescore(c) ==
  /\ pc[c] = "rescore"
  /\ chain' = [chain EXCEPT ![R(c)] = Append(@, c)]
  /\ Goto(c, "row")
  /\ UNCHANGED <<rows, dailyPcc, tees, players, locks, req, seen, fix, faults>>

\* Mutant: rescores of one round overlap.
MyTurnAlways(c) == TRUE

(* Whose call is the one of this round's chain that runs. *)
MyTurn(c) == chain[R(c)] # <<>> /\ Head(chain[R(c)]) = c

(* The call settles: the next in the chain may start. *)
Settle(c) == chain' = [chain EXCEPT ![R(c)] = Tail(@)]

(* rounds.get reads the round's row, then, in a second query, its holes. *)
ReadRow(c) ==
  /\ pc[c] = "row" /\ MyTurn(c) /\ Exists(R(c))
  /\ seen' = [seen EXCEPT ![c].day = day[R(c)]]
  /\ Goto(c, "holes")
  /\ UNCHANGED <<rows, dailyPcc, tees, players, locks, chain, req, fix, faults>>

ReadHoles(c) ==
  /\ pc[c] = "holes"
  /\ seen' = [seen EXCEPT ![c].card = card[R(c)]]
  /\ Goto(c, "pcc")
  /\ UNCHANGED <<rows, dailyPcc, tees, players, locks, chain, req, fix, faults>>

(* getOrCreateDailyPcc: its upsert waits for a correction of the same day. *)
ReadPcc(c) ==
  /\ pc[c] = "pcc" /\ pccLock[seen[c].day] = NULL
  /\ seen' = [seen EXCEPT ![c].pcc = dailyPcc[seen[c].day]]
  /\ Goto(c, "write")
  /\ UNCHANGED <<rows, dailyPcc, tees, players, locks, chain, req, fix, faults>>

(* rounds.updateScores: one UPDATE by id, whatever the round's status now. *)
WriteScores(c) ==
  /\ pc[c] = "write" /\ roundLock[R(c)] = NULL /\ Exists(R(c))
  /\ agg' = [agg EXCEPT ![R(c)] = [card |-> seen[c].card, pcc |-> seen[c].pcc]]
  /\ Settle(c)
  /\ IF Op(c) = "approve"
     THEN Goto(c, "lock") /\ seen' = [seen EXCEPT ![c] = Blank] /\ UNCHANGED req
     ELSE Answer(c)
  /\ UNCHANGED <<status, card, day, note, dailyPcc, tees, players, locks, fix, faults>>

(* "round not found": deleted before the call read it, or before it wrote. *)
RescoreGone(c) ==
  /\ \/ pc[c] = "row" /\ MyTurn(c)
     \/ pc[c] = "write" /\ roundLock[R(c)] = NULL
  /\ ~Exists(R(c))
  /\ Settle(c) /\ Answer(c)
  /\ UNCHANGED <<rows, dailyPcc, tees, players, locks, fix, faults>>

\* Mutant: a rejected promise stays in the chain.
RescoreFailsAndWedges(c) ==
  /\ faults < MaxFaults
  /\ pc[c] \in {"row", "holes", "pcc", "write"} /\ MyTurn(c)
  /\ faults' = faults + 1
  /\ Answer(c)
  /\ UNCHANGED <<rows, dailyPcc, tees, players, locks, chain, fix>>

(* Any statement of the call fails: its request fails, the chain moves on. *)
RescoreFails(c) ==
  /\ faults < MaxFaults
  /\ pc[c] \in {"row", "holes", "pcc", "write"} /\ MyTurn(c)
  /\ faults' = faults + 1
  /\ Settle(c) /\ Answer(c)
  /\ UNCHANGED <<rows, dailyPcc, tees, players, locks, fix>>

-----------------------------------------------------------------------------
(* Daily PCC corrections: recalculatePccForTeeConfigDay *)

(* upsertAndApply, until its UPDATE has to wait: the day's PCC row is locked
   and the statement's snapshot picks the day's scored rounds.  The value is
   an override, or one derived from an earlier unlocked read of the day. *)
StartCorrection(a, d, v) ==
  /\ fix[a].step = "idle" /\ pccLock[d] = NULL
  /\ pccLock' = [pccLock EXCEPT ![d] = a]
  /\ fix' = [fix EXCEPT ![a] =
       [NoFix EXCEPT !.step = "apply", !.day = d, !.pcc = v,
          !.targets = {r \in Round : Exists(r) /\ day[r] = d /\ agg[r] # NULL}]]
  /\ UNCHANGED <<rows, dailyPcc, tees, players, roundLock, playerLock, chain, clients, faults>>

(* Once no transaction holds any of those rows, each that still qualifies is
   rewritten, and the correction commits. *)
ApplyPcc(a) ==
  LET hit == {r \in fix[a].targets : Exists(r) /\ day[r] = fix[a].day}
  IN  /\ fix[a].step = "apply"
      /\ \A r \in fix[a].targets : roundLock[r] = NULL
      /\ dailyPcc' = [dailyPcc EXCEPT ![fix[a].day] = fix[a].pcc]
      /\ agg' = [r \in Round |-> IF r \in hit THEN [agg[r] EXCEPT !.pcc = fix[a].pcc]
                                              ELSE agg[r]]
      /\ Release(a)
      /\ fix' = [fix EXCEPT ![a] = IF hit = {} THEN NoFix ELSE
           [NoFix EXCEPT !.step = "players", !.todo = {PlayerOf[r] : r \in hit}]]
      /\ UNCHANGED <<status, card, day, note, tees, players, chain, clients, faults>>

(* recalculatePlayerHandicap in its own transaction, one affected player after
   another: the player is locked and the approved rounds are read... *)
ReadAffected(a, p) ==
  /\ fix[a].step = "players" /\ p \in fix[a].todo /\ playerLock[p] = NULL
  /\ playerLock' = [playerLock EXCEPT ![p] = a]
  /\ fix' = [fix EXCEPT ![a] = [@ EXCEPT !.step = "commit", !.player = p,
                                 !.differentials = Differentials(ApprovedRounds(p))]]
  /\ UNCHANGED <<rows, dailyPcc, tees, players, roundLock, pccLock, chain, clients, faults>>

(* This player is done; the correction ends with the last one. *)
NextPlayer(a) ==
  LET rest == fix[a].todo \ {fix[a].player}
  IN  fix' = [fix EXCEPT ![a] = IF rest = {} THEN NoFix
                                ELSE [NoFix EXCEPT !.step = "players", !.todo = rest]]

(* ...and the result is committed. *)
CommitAffected(a) ==
  /\ fix[a].step = "commit"
  /\ Recalculated(fix[a].player, fix[a].differentials, FALSE)
  /\ Release(a) /\ NextPlayer(a)
  /\ UNCHANGED <<rows, dailyPcc, tees, chain, clients, faults>>

(* A recalculation that fails is reported as "failed"; the others go on. *)
AffectedFails(a) ==
  /\ fix[a].step = "commit" /\ faults < MaxFaults
  /\ faults' = faults + 1
  /\ Release(a) /\ NextPlayer(a)
  /\ UNCHANGED <<rows, dailyPcc, tees, players, chain, clients>>

-----------------------------------------------------------------------------
(* courses.updateTeeConfiguration: a transaction of its own replaces a tee's
   holes, whatever stands at the rounds played from it (of a tee that serves
   several rounds, each counts them when it is submitted; a nine-hole round, which
   needs nine whatever its tee, is one whose tee is never replaced). *)
ReplaceTee(r) ==
  /\ Exists(r)
  /\ \E n \in HoleCounts \ {asks[r]} : asks' = [asks EXCEPT ![r] = n]
  /\ outgrown' = outgrown \cup {r}
  /\ UNCHANGED <<rows, dailyPcc, players, locks, chain, clients, fix, faults>>

-----------------------------------------------------------------------------
(* The API process dies and is restarted: open transactions are rolled back,
   requests are lost, and the chains, which only its memory held, are gone. *)
Restart ==
  /\ faults < MaxFaults /\ faults' = faults + 1
  /\ roundLock' = [r \in Round |-> NULL]
  /\ playerLock' = [p \in Player |-> NULL]
  /\ pccLock' = [d \in Day |-> NULL]
  /\ chain' = [r \in Round |-> <<>>]
  /\ pc' = [c \in Client |-> "idle"]
  /\ req' = [c \in Client |-> NoReq]
  /\ seen' = [c \in Client |-> Blank]
  /\ fix' = [a \in Corrector |-> NoFix]
  /\ UNCHANGED <<rows, dailyPcc, tees, players>>

(* What a client's request does next, left to itself. *)
Step(c) ==
  \/ CheckApprovable(c) \/ LockRound(c) \/ Refuse(c) \/ ReadDifferentials(c)
  \/ CommitSubmit(c) \/ CommitAdminSubmit(c) \/ CommitApprove(c) \/ CommitReject(c)
  \/ CommitDelete(c) \/ CommitReopen(c) \/ CommitHole(c) \/ CommitDate(c)
  \/ CommitRemarks(c) \/ RereadAfterDate(c)
  \/ EnqueueRescore(c) \/ ReadRow(c) \/ ReadHoles(c) \/ ReadPcc(c) \/ WriteScores(c)
  \/ RescoreGone(c)

CorrectorStep(a) ==
  \/ ApplyPcc(a) \/ (\E p \in Player : ReadAffected(a, p)) \/ CommitAffected(a)

Next ==
  \/ \E r \in Round : CreateRound(r)
  \/ \E c \in Client, op \in AllOps, r \in Round : Request(c, op, r)
  \/ \E c \in Client : Step(c) \/ Rollback(c) \/ RescoreFails(c)
  \/ \E a \in Corrector, d \in Day, v \in Pcc : StartCorrection(a, d, v)
  \/ \E a \in Corrector : CorrectorStep(a) \/ AffectedFails(a)
  \/ \E r \in Round : ReplaceTee(r)
  \/ Restart

Spec == Init /\ [][Next]_vars

(* Fairness.  Node runs every continuation that is ready and Postgres ends every
   statement that is not waiting, so a request's next step is taken when it can
   be.  A statement that waits for a row lock is queued for it, so it gets the
   row although others keep taking it: the fairness is strong. *)
Fairness ==
  /\ \A c \in Client : SF_vars(Step(c))
  /\ \A a \in Corrector : SF_vars(CorrectorStep(a))

FairSpec == Spec /\ Fairness

-----------------------------------------------------------------------------
(* Properties *)

(* A recalculation reads the approved rounds after it has locked the player and
   commits with the status change, so whatever transitions of the same player's
   rounds overlap, fail or are cut short, an index with enough rounds counts
   exactly the rounds that are approved (recalculation.service.ts, the two modes
   of recalculatePlayerHandicap). *)
IndexCountsApprovedRounds ==
  \A p \in Player :
    Eligible(ApprovedRounds(p)) => {x[1] : x \in index[p]} = ApprovedRounds(p)

(* approveRoundInternal rescores first, and nothing ever takes a score away, so
   the differential of an approved round is never missing from a calculation
   (listApprovedDifferentialsForPlayer drops rounds without one silently). *)
ApprovedRoundsAreScored == \A r \in Round : status[r] = "approved" => agg[r] # NULL

(* A round is only put to review, and only counts, with every hole of its tee
   recorded, though the tee may be replaced at any moment and is read with no
   lock: what the submission checked before it had the round's lock may be out
   of date, so it counts again (assertCompleteForSubmission's second call).
   Nothing holds the tee after that count: a tee replaced later, even before the
   submission commits, leaves the round as it is, complete or not. *)
ReviewedRoundsAreComplete ==
  \A r \in Round :
    status[r] \in {"pending", "approved", "amending"} => Complete(r) \/ r \in outgrown

(* The newest history entry about a round tells its player where the round
   stands: events are recorded in the transaction of the transition they are
   about, or not at all.  The quiet submission of an admin's own round and a
   reopening are the two that tell nothing. *)
HistoryTellsStanding ==
  \A r \in Round : PlayerOf[r] \in Linked =>
    /\ status[r] = "draft" => note[r] = NULL
    /\ status[r] = "pending" => note[r] = "round_submitted" \/ r \in AdminRounds
    /\ status[r] \in {"approved", "amending"} => note[r] = "round_approved"
    /\ status[r] = "rejected" => note[r] = "round_rejected"

(* A request that still has to rescore round r, or is doing so. *)
RescoreDue(r) ==
  \E c \in Client :
    R(c) = r /\ pc[c] \in {"check", "reread", "rescore", "row", "holes", "pcc", "write"}

(* Every edit of a pending round rescores it afterwards, and rescores of one
   round never overlap: when none is due, the stored scores are those of the
   hole scores that are recorded, however the edits interleaved. *)
PendingScoresAreFresh ==
  \A r \in Round :
    faults = 0 /\ status[r] = "pending" /\ ~RescoreDue(r) => agg[r] # NULL /\ agg[r].card = card[r]

(* While a round is approved its hole scores and date stay as they are: whoever
   read the round before the approval still finds it approved under the lock. *)
ApprovedRoundsAreFrozen ==
  [][\A r \in Round : status[r] = "approved" /\ status'[r] = "approved"
                        => card'[r] = card[r] /\ day'[r] = day[r]]_vars

(* The workflow, all its concurrency hidden, is the atomic one. *)
Lifecycle == INSTANCE RoundLifecycle WITH
  counted <- [p \in Player |-> {x[1] : x \in index[p]}]

ImplementsLifecycle == Lifecycle!Spec

(* Every request is answered and every correction ends: no cycle of row locks
   and chains has everyone wait on everyone, and one failed rescore does not
   wedge the chain for those behind it (rescoreRound's published promise never
   rejects). *)
EveryRequestEnds ==
  /\ \A c \in Client : pc[c] # "idle" ~> pc[c] = "idle"
  /\ \A a \in Corrector : fix[a].step # "idle" ~> fix[a].step = "idle"

-----------------------------------------------------------------------------
(* The inductive invariant behind the safety properties, part by part *)

(* No two rescores of one round are ever between their first read and their
   write (rescoreRound: "no two recompute cycles for one round can ever
   overlap"). *)
RescoresDoNotOverlap ==
  \A c1, c2 \in Client :
    /\ pc[c1] \in {"holes", "pcc", "write"} /\ pc[c2] \in {"holes", "pcc", "write"}
    /\ R(c1) = R(c2)
    => c1 = c2

(* A call between its first read and its write is the head of its chain, and
   has read what its step says it has. *)
HasRead(c) ==
  /\ pc[c] \in {"holes", "pcc", "write"} => MyTurn(c) /\ seen[c].day \in Day
  /\ pc[c] \in {"pcc", "write"} => seen[c].card \in Card
  /\ pc[c] = "write" => seen[c].pcc \in Pcc

RescoreInv == \A c \in Client : HasRead(c)

RequestInv == \A c \in Client : pc[c] # "idle" => req[c] # NoReq

(* The differentials D are one for each round of S. *)
Counts(D, S) == {x[1] : x \in D} = S /\ (Eligible(D) <=> Eligible(S))

(* A transaction owns its row, which is still as validate() found it, and one
   that recalculates commits with the player locked and nothing gone stale. *)
InTransaction(c) ==
  /\ roundLock[R(c)] = c
  /\ Exists(R(c)) /\ Accepts(Op(c), R(c))
  /\ pc[c] = "player" => Recalculates(Op(c), R(c))
  /\ pc[c] = "commit" /\ Recalculates(Op(c), R(c)) =>
       playerLock[Pl(c)] = c /\ Counts(seen[c].differentials, ApprovedFor(c))

TransactionInv == \A c \in Client : pc[c] \in {"player", "commit"} => InTransaction(c)

Correcting(a) ==
  /\ fix[a].step = "apply" =>
       fix[a].day \in Day /\ fix[a].pcc \in Pcc /\ \A r \in fix[a].targets : agg[r] # NULL
  /\ fix[a].step = "commit" =>
       /\ fix[a].player \in Player /\ playerLock[fix[a].player] = a
       /\ Counts(fix[a].differentials, ApprovedRounds(fix[a].player))

CorrectionInv == \A a \in Corrector : Correcting(a)

(* Whoever is about to approve a round has scored it. *)
ScoredInv ==
  /\ ApprovedRoundsAreScored
  /\ \A c \in Client :
       Op(c) = "approve" /\ pc[c] \in {"lock", "player", "commit"} => agg[R(c)] # NULL

(* What ReviewedRoundsAreComplete rests on: a submission that is about to commit
   has counted the holes, and holds the round's lock since then. *)
CompleteInv ==
  /\ ReviewedRoundsAreComplete
  /\ \A c \in Client :
       pc[c] \in {"player", "commit"} /\ Submits(Op(c)) => Complete(R(c)) \/ R(c) \in outgrown

(* What HistoryTellsStanding rests on: a quiet submission is only asked for an
   admin's own round, and nothing is told of a round before it is recorded. *)
HistoryInv ==
  /\ \A c \in Client : pc[c] # "idle" /\ Op(c) = "adminSubmit" => R(c) \in AdminRounds
  /\ \A r \in Round : status[r] = "none" => note[r] = NULL
  /\ HistoryTellsStanding

(* A rescore of round r that has not read the hole scores yet, or has read those
   that are recorded now; or the stored scores are fresh, and nobody is about to
   overwrite them. *)
FreshOrDue(r) ==
  \/ \E c \in Client : R(c) = r /\ pc[c] \in {"check", "reread", "rescore", "row", "holes"}
  \/ \E c \in Client : R(c) = r /\ pc[c] \in {"pcc", "write"} /\ seen[c].card = card[r]
  \/ /\ agg[r] # NULL /\ agg[r].card = card[r]
     /\ \A c \in Client : ~(R(c) = r /\ pc[c] \in {"pcc", "write"})

(* What PendingScoresAreFresh rests on: the last rescore of a pending round
   always reads after the last edit. *)
FreshInv == faults = 0 => \A r \in Round : status[r] = "pending" => FreshOrDue(r)

IInv ==
  /\ TypeOK /\ RequestInv /\ RescoreInv
  /\ TransactionInv /\ CorrectionInv /\ ScoredInv
  /\ IndexCountsApprovedRounds

-----------------------------------------------------------------------------
(* What the repository says and the code does not do *)

(* rounds.service.ts:617 says of addHoleScore that the rescore before approval
   guarantees correctness at approval: the scores that start to count are those
   of the hole scores recorded. *)
ScoresAreCorrectAtApproval ==
  [][\A r \in Round : status[r] # "approved" /\ status'[r] = "approved"
                        => agg[r].card = card[r]]_vars

(* pcc.repository.ts:36 says that a round's differential must never disagree
   with its day's finalised PCC: with no rescore due and no correction under
   way, every scored round under review or approved carries its day's PCC. *)
DifferentialsAgreeWithPcc ==
  (\A a \in Corrector : fix[a].step = "idle") =>
    \A r \in Round :
      status[r] \in {"pending", "approved", "rejected"} /\ agg[r] # NULL /\ ~RescoreDue(r)
        => agg[r].pcc = dailyPcc[day[r]]

(* recalculation.service.ts:157 says that a player isn't told of the change a
   reopening causes until the correction is finalised: with no round of theirs
   being amended or reviewed, they have been told of the index they have. *)
ToldOnceFinalised ==
  \A p \in Linked :
    (\A r \in Round : PlayerOf[r] = p => status[r] \notin {"amending", "pending"})
      => told[p] = index[p]
=============================================================================
