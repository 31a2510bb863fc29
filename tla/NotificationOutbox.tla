--------------------------- MODULE NotificationOutbox ---------------------------
(***************************************************************************)
(* The notification worker (apps/worker) over the notification_outbox      *)
(* table that apps/api fills in the transactions that record a history     *)
(* entry.  One worker runs (deploy/ghs-worker.service); its cycle is       *)
(*                                                                         *)
(*   claim a batch - resolve recipients - send and settle each row -       *)
(*   sweep up rows left "processing" - retention - sleep                   *)
(*                                                                         *)
(* Each statement and each send is a step of its own; any of them may      *)
(* fail, a failed UPDATE may have taken effect before its connection died, *)
(* a mail may be accepted and the answer lost, and the worker may be       *)
(* killed between any two.  Time is abstract: a row is "ripe" once the     *)
(* wait it is in (retry_after, or the crash timeout since claimed_at) is   *)
(* over.                                                                   *)
(***************************************************************************)
EXTENDS Naturals, FiniteSets

CONSTANTS
  Last,         \* notifications are 1 .. Last, in the order of their created_at
  BatchSize,
  Retries,      \* the length of the backoff schedule
  MaxFaults,    \* bound on crashes, failed statements and lost answers
  NULL

ASSUME ConstantsType ==
  /\ Last \in Nat /\ BatchSize \in Nat \ {0} /\ Retries \in Nat /\ MaxFaults \in Nat
  /\ NULL \notin Nat

Row == 1 .. Last

VARIABLES
  status, attempts,         \* the outbox table
  ripe,                     \* rows whose wait is over
  sends, mailed,            \* calls of provider.send, and mails it accepted
  rejected,                 \* rows the mail server refused for good
  pc,                       \* the worker's next step
  batch,                    \* rows it has claimed and not come to yet
  cur, read, failure,       \* the row in hand, its attempts as claimed, its failure's kind
  faults

table  == <<status, attempts, ripe>>
mail   == <<sends, mailed, rejected>>
hand   == <<cur, read, failure>>
worker == <<pc, batch, hand>>
vars   == <<table, mail, worker, faults>>

Statuses == {"absent", "pending", "processing", "sent", "failed", "retired"}
Kinds    == {"retryable", "permanent"}
Budget   == Retries + 1

TypeOK ==
  /\ status \in [Row -> Statuses]
  /\ attempts \in [Row -> 0 .. Budget]
  /\ ripe \in SUBSET Row /\ rejected \in SUBSET Row
  /\ sends \in [Row -> Nat] /\ mailed \in [Row -> Nat]
  /\ pc \in {"claim", "resolve", "deliver", "mark", "apply", "sweep", "reclaim", "retain", "down"}
  /\ batch \in SUBSET Row
  /\ cur \in Row \cup {NULL} /\ read \in 0 .. Budget /\ failure \in Kinds
  /\ faults \in 0 .. MaxFaults

Init ==
  /\ status = [m \in Row |-> "absent"]
  /\ attempts = [m \in Row |-> 0]
  /\ ripe = {} /\ rejected = {}
  /\ sends = [m \in Row |-> 0] /\ mailed = [m \in Row |-> 0]
  /\ pc = "claim" /\ batch = {}
  /\ cur = NULL /\ read = 0 /\ failure = "retryable"
  /\ faults = 0

-----------------------------------------------------------------------------
(* The table's environment *)

(* record: history entry and outbox row, in the transaction of the API that
   causes them.  created_at is the time that transaction began, so rows may
   appear in any order. *)
Record(m) ==
  /\ status[m] = "absent"
  /\ status' = [status EXCEPT ![m] = "pending"]
  /\ ripe' = ripe \cup {m}
  /\ UNCHANGED <<attempts, mail, worker, faults>>

(* A pending row's retry_after, or a processing row's timeout, passes. *)
TimePasses(m) ==
  /\ status[m] \in {"pending", "processing"} /\ m \notin ripe
  /\ ripe' = ripe \cup {m}
  /\ UNCHANGED <<status, attempts, mail, worker, faults>>

-----------------------------------------------------------------------------
(* Delivery: runDeliveryCycle *)

(* The n first rows of S. *)
First(n, S) == {m \in S : Cardinality({k \in S : k < m}) < n}

Due == {m \in ripe : status[m] = "pending"}

(* claimBatch: the oldest rows that are due. *)
ClaimBatch ==
  LET claimed == First(BatchSize, Due)
  IN  /\ pc = "claim"
      /\ status' = [m \in Row |-> IF m \in claimed THEN "processing" ELSE status[m]]
      /\ ripe' = ripe \ claimed
      /\ batch' = claimed
      /\ pc' = IF claimed = {} THEN "sweep" ELSE "resolve"
      /\ UNCHANGED <<attempts, mail, hand, faults>>

(* resolveForHistoryIds: history rows keep their user, so each has a recipient. *)
Resolve == pc = "resolve" /\ pc' = "deliver" /\ UNCHANGED <<table, mail, batch, hand, faults>>

(* The row in hand is done with, and the pass goes on to the next, or ends. *)
Done(next) ==
  /\ cur' = NULL /\ read' = 0 /\ failure' = "retryable"
  /\ pc' = IF batch # {} THEN next ELSE IF next = "deliver" THEN "sweep" ELSE "retain"
  /\ UNCHANGED batch

(* The batch comes in no particular order (RETURNING); one row is sent. *)
Send(m) ==
  /\ pc = "deliver" /\ m \in batch
  /\ batch' = batch \ {m}
  /\ cur' = m /\ read' = attempts[m]
  /\ sends' = [sends EXCEPT ![m] = @ + 1]
  /\ UNCHANGED table

SendAccepted(m) ==
  /\ Send(m)
  /\ mailed' = [mailed EXCEPT ![m] = @ + 1]
  /\ pc' = "mark"
  /\ UNCHANGED <<rejected, failure, faults>>

(* A temporary refusal, no connection, or an error classifyFailure cannot place. *)
SendDeferred(m) ==
  /\ Send(m)
  /\ pc' = "apply" /\ failure' = "retryable"
  /\ UNCHANGED <<mailed, rejected, faults>>

(* The connection breaks after the server has accepted the mail. *)
AnswerLost(m) ==
  /\ Send(m)
  /\ faults < MaxFaults /\ faults' = faults + 1
  /\ mailed' = [mailed EXCEPT ![m] = @ + 1]
  /\ pc' = "apply" /\ failure' = "retryable"
  /\ UNCHANGED rejected

(* A 5xx reply: permanent. *)
SendRejected(m) ==
  /\ Send(m)
  /\ rejected' = rejected \cup {m}
  /\ pc' = "apply" /\ failure' = "permanent"
  /\ UNCHANGED <<mailed, faults>>

\* Mutant: the UPDATE looks for a pending row, and a claimed one never is.
MarksNoRow ==
  /\ status' = [status EXCEPT ![cur] = IF @ = "pending" THEN "sent" ELSE @]
  /\ UNCHANGED <<attempts, ripe>>

(* The UPDATE of markSent. *)
MarksSent ==
  /\ status' = [status EXCEPT ![cur] = "sent"]
  /\ attempts' = [attempts EXCEPT ![cur] = read + 1]
  /\ ripe' = ripe \ {cur}

MarkSent ==
  /\ pc = "mark"
  /\ MarksSent
  /\ Done("deliver")
  /\ UNCHANGED <<mail, faults>>

(* markSent fails, whether or not its UPDATE took effect: the row's own catch
   takes it for a failed delivery, and a database error counts as retryable. *)
MarkSentFails ==
  /\ pc = "mark" /\ faults < MaxFaults
  /\ faults' = faults + 1
  /\ MarksSent \/ UNCHANGED table
  /\ pc' = "apply" /\ failure' = "retryable"
  /\ UNCHANGED <<mail, batch, cur, read>>

(* nextOutboxState: where a row goes after its attempt number `tried` failed. *)
nextOutboxState(tried, kind) ==
  IF kind = "retryable" /\ tried <= Retries THEN "pending" ELSE "failed"

\* Mutant: a reclaimed row gets its attempt for free.
AppliesForFree(m, from, kind) ==
  /\ status' = [status EXCEPT ![m] = nextOutboxState(from + 1, kind)]
  /\ ripe' = ripe \ {m}
  /\ attempts' = [attempts EXCEPT ![m] = IF pc = "reclaim" THEN from ELSE from + 1]

(* applyOutboxState: the UPDATE of markFailed or of markPendingRetry. *)
Applies(m, from, kind) ==
  /\ status' = [status EXCEPT ![m] = nextOutboxState(from + 1, kind)]
  /\ ripe' = ripe \ {m}
  /\ attempts' = [attempts EXCEPT ![m] = from + 1]

ApplyState ==
  /\ pc = "apply"
  /\ Applies(cur, read, failure)
  /\ Done("deliver")
  /\ UNCHANGED <<mail, faults>>

-----------------------------------------------------------------------------
(* Crash recovery: runCrashRecoverySweep *)

\* Mutant: a row that has been retried before is not swept up again.
StuckOnce == {m \in ripe : status[m] = "processing" /\ attempts[m] = 0}

Stuck == {m \in ripe : status[m] = "processing"}

(* claimStuckProcessing: BatchSize rows, or all there are, start their timeout
   over.  Which of them were claimed longest ago is left open. *)
Sweep ==
  /\ pc = "sweep"
  /\ \E S \in SUBSET Stuck :
       /\ Cardinality(S) = BatchSize \/ (S = Stuck /\ Cardinality(S) < BatchSize)
       /\ ripe' = ripe \ S
       /\ batch' = S
       /\ pc' = IF S = {} THEN "retain" ELSE "reclaim"
  /\ UNCHANGED <<status, attempts, mail, hand, faults>>

(* Each row it got counts as one failed, retryable attempt. *)
Reclaim(m) ==
  /\ pc = "reclaim" /\ m \in batch
  /\ batch' = batch \ {m}
  /\ Applies(m, attempts[m], "retryable")
  /\ pc' = IF batch' = {} THEN "retain" ELSE "reclaim"
  /\ UNCHANGED <<mail, hand, faults>>

\* Mutant: whatever is no longer pending is old enough to go.
RetainDeletesUnsettled ==
  /\ pc = "retain" /\ pc' = "claim"
  /\ \E S \in SUBSET {m \in Row : status[m] \in {"processing", "sent", "failed"}} :
       /\ status' = [m \in Row |-> IF m \in S THEN "retired" ELSE status[m]]
       /\ ripe' = ripe \ S
  /\ UNCHANGED <<attempts, mail, batch, hand, faults>>

(* runRetentionCleanup, when it is due: some rows settled long ago go. *)
Retain ==
  /\ pc = "retain" /\ pc' = "claim"
  /\ \E S \in SUBSET {m \in Row : status[m] \in {"sent", "failed"}} :
       status' = [m \in Row |-> IF m \in S THEN "retired" ELSE status[m]]
  /\ UNCHANGED <<attempts, ripe, mail, batch, hand, faults>>

-----------------------------------------------------------------------------
(* Failures *)

Abandon == batch' = {} /\ cur' = NULL /\ read' = 0 /\ failure' = "retryable"

(* A statement outside a row's try fails: resolve, the sweep's claim, a
   reclaimed row's UPDATE, retention, or the UPDATE made in the catch itself.
   The error ends the cycle in runCycle's catch.  The UPDATE of the row in hand
   may have taken effect.  (A claim that fails changes nothing; one that took
   effect leaves its rows as a crash right after it does.) *)
CycleFails ==
  /\ pc \in {"resolve", "apply", "sweep", "reclaim", "retain"} /\ faults < MaxFaults
  /\ faults' = faults + 1
  /\ \/ UNCHANGED table
     \/ pc = "apply" /\ Applies(cur, read, failure)
     \/ pc = "reclaim" /\ \E m \in batch : Applies(m, attempts[m], "retryable")
  /\ Abandon /\ pc' = "claim"
  /\ UNCHANGED mail

(* The worker is killed, and systemd starts it again. *)
Crash ==
  /\ pc # "down" /\ faults < MaxFaults
  /\ faults' = faults + 1
  /\ Abandon /\ pc' = "down"
  /\ UNCHANGED <<table, mail>>

Restart == pc = "down" /\ pc' = "claim" /\ UNCHANGED <<table, mail, batch, hand, faults>>

Deliver(m) == SendAccepted(m) \/ SendDeferred(m) \/ AnswerLost(m) \/ SendRejected(m)

WorkerStep ==
  \/ ClaimBatch \/ Resolve \/ MarkSent \/ ApplyState \/ Sweep \/ Retain \/ Restart
  \/ \E m \in Row : Deliver(m) \/ Reclaim(m)

Next ==
  \/ \E m \in Row : Record(m) \/ TimePasses(m)
  \/ WorkerStep
  \/ MarkSentFails \/ CycleFails \/ Crash

Spec == Init /\ [][Next]_vars

(* The loop runs on, systemd restarts a worker that fails, and clocks advance.
   Nothing is assumed of the mail server's answers. *)
Fairness ==
  /\ WF_vars(WorkerStep)
  /\ \A m \in Row : WF_vars(TimePasses(m))

FairSpec == Spec /\ Fairness

-----------------------------------------------------------------------------
(* Properties *)

(* However many crashes, reclaims, lost answers and failed statements a
   notification meets, it is handed to the mail server at most once for the
   first attempt and once for each delay of the schedule (outbox-state.ts): a
   reclaimed row uses up an attempt, so no message is sent for ever. *)
SendsAreBounded == \A m \in Row : sends[m] <= Budget

(* A second copy of a mail is only ever sent because something failed: over all
   rows there are no more extra copies than there were faults, so neither the
   sweep nor a failed neighbour in the batch ever resends a mail of its own
   accord. *)
Repeated == UNION {{m} \X {n \in 1 .. mailed[m] : n < mailed[m]} : m \in Row}

DuplicatesNeedFaults == Cardinality(Repeated) <= faults

(* A notification is only given up after a permanent refusal or with the whole
   schedule used, its last delay included (outbox-state.ts:13-21). *)
GivesUpLast ==
  \A m \in Row : status[m] = "failed" => m \in rejected \/ attempts[m] = Budget

(* With the worker's view hidden, this is the delivery of NotificationDelivery:
   a row in the worker's hand is still queued, whatever half of an update has
   reached the table. *)
Settled(s) == IF s \in {"pending", "processing"} THEN "queued" ELSE s

View == [m \in Row |-> IF m = cur THEN "queued" ELSE Settled(status[m])]

Delivery == INSTANCE NotificationDelivery WITH Notification <- Row, state <- View

ImplementsDelivery == Delivery!Spec

(* Every recorded notification is sent or given up in the end: rows stranded by
   a crash or an abandoned cycle are swept up, and no row waits for ever. *)
EveryNotificationSettles ==
  \A m \in Row :
    status[m] \in {"pending", "processing"} ~> status[m] \in {"sent", "failed", "retired"}

-----------------------------------------------------------------------------
(* The inductive invariant behind the safety properties, part by part *)

(* What a row's status says of its attempts and sends, whoever holds it: only a
   processing row may have been sent once more than its attempts tell. *)
RowInv(m) ==
  /\ status[m] = "absent" => sends[m] = 0 /\ attempts[m] = 0
  /\ status[m] = "pending" => sends[m] <= attempts[m]
  /\ status[m] = "processing" => sends[m] <= attempts[m] + 1
  /\ status[m] \in {"pending", "processing"} => attempts[m] <= Retries
  /\ status[m] = "sent" => mailed[m] > 0
  /\ sends[m] <= Budget

(* Claimed rows are processing until the worker comes to them, and those of a
   delivery have not been sent since they were claimed. *)
BatchInv(m) ==
  m \in batch =>
    /\ status[m] = "processing"
    /\ pc \in {"resolve", "deliver", "mark", "apply"} => sends[m] <= attempts[m]

(* The row in hand is as it was claimed, but for a markSent that took effect
   although it failed. *)
HandInv ==
  /\ cur # NULL <=> pc \in {"mark", "apply"}
  /\ cur # NULL =>
       /\ cur \notin batch
       /\ read <= Retries /\ sends[cur] <= read + 1
       /\ \/ status[cur] = "processing"
          \/ pc = "apply" /\ failure = "retryable" /\ status[cur] = "sent"
  /\ pc = "mark" => mailed[cur] > 0
  /\ pc = "apply" /\ failure = "permanent" => cur \in rejected

IInv ==
  /\ TypeOK /\ HandInv /\ GivesUpLast
  /\ \A m \in Row : RowInv(m) /\ BatchInv(m)

(* A row that was mailed and that the worker will take for unsent, unless its
   UPDATE is still to come. *)
Exposed(m) ==
  /\ mailed[m] > 0 /\ ~(pc = "mark" /\ cur = m)
  /\ m = cur \/ status[m] \in {"pending", "processing"}

(* The mails, by row and number, that did not settle their row: those that were
   followed by another, and the last one of an exposed row.  Each cost a fault. *)
Wasted == UNION {{m} \X {n \in 1 .. mailed[m] : n < mailed[m] \/ Exposed(m)} : m \in Row}

FaultsPaid == IsFiniteSet(Wasted) /\ Cardinality(Wasted) <= faults

MailsWereSent == \A m \in Row : mailed[m] <= sends[m]

-----------------------------------------------------------------------------
(* What the repository says and the code does not do *)

(* poll-loop.ts:93-95 says that each row of a cycle is isolated by a per-row
   try/catch in delivery and in crash recovery: a cycle that ends on one row's
   statement leaves no other row of its batch behind. *)
RowsAreIsolated ==
  [][pc' = "claim" => /\ pc = "apply" => batch = {}
                      /\ pc = "reclaim" => Cardinality(batch) = 1]_vars
=============================================================================
