------------------------ MODULE NotificationOutboxProofs ------------------------
(* Proofs about NotificationOutbox: the invariant IInv, what follows from it,
   and that the outbox implements NotificationDelivery. *)
EXTENDS NotificationOutbox, FiniteSetTheorems, TLAPS

(* Init: no row exists, nothing is in the worker's hand. *)
LEMMA InitIInv == Init => IInv
<1> SUFFICES ASSUME Init PROVE IInv
  OBVIOUS
<1> USE ConstantsType DEF Init, Budget
<1>1. TypeOK
  BY DEF TypeOK, Statuses, Kinds
<1>2. HandInv /\ GivesUpLast
  BY DEF HandInv, GivesUpLast
<1>3. ASSUME NEW m \in Row PROVE RowInv(m) /\ BatchInv(m)
  BY <1>3 DEF RowInv, BatchInv
<1>4. QED
  BY <1>1, <1>2, <1>3 DEF IInv

(* The UPDATE of applyOutboxState, on a row that has used `from` attempts of its
   budget, keeps the row's part of the invariant. *)
LEMMA AppliesRow ==
  ASSUME TypeOK, GivesUpLast, NEW m \in Row, NEW from \in 0 .. Retries, NEW kind \in Kinds,
         Applies(m, from, kind), sends[m] <= from + 1, kind = "permanent" => m \in rejected,
         UNCHANGED mail
  PROVE  /\ status' \in [Row -> Statuses] /\ attempts' \in [Row -> 0 .. Budget]
         /\ ripe' \in SUBSET Row
         /\ RowInv(m)'
         /\ status'[m] = "failed" => m \in rejected' \/ attempts'[m] = Budget
         /\ \A k \in Row : k # m => status'[k] = status[k] /\ attempts'[k] = attempts[k]
<1> USE ConstantsType DEF Budget
<1>1. /\ status' = [status EXCEPT ![m] = nextOutboxState(from + 1, kind)]
      /\ attempts' = [attempts EXCEPT ![m] = from + 1]
      /\ ripe' = ripe \ {m}
  BY DEF Applies
<1>2. \/ nextOutboxState(from + 1, kind) = "pending" /\ from + 1 <= Retries
      \/ nextOutboxState(from + 1, kind) = "failed" /\ (kind = "permanent" \/ from = Retries)
  <2>1. CASE kind = "retryable" /\ from + 1 <= Retries
    BY <2>1 DEF nextOutboxState
  <2>2. CASE kind = "permanent"
    BY <2>2 DEF nextOutboxState
  <2>3. CASE ~(from + 1 <= Retries)
    BY <2>3 DEF nextOutboxState
  <2>4. QED
    BY <2>1, <2>2, <2>3 DEF Kinds
<1>3. /\ status' \in [Row -> Statuses] /\ attempts' \in [Row -> 0 .. Budget]
      /\ ripe' \in SUBSET Row
  BY <1>1, <1>2 DEF TypeOK, Statuses
<1>4. status'[m] = nextOutboxState(from + 1, kind) /\ attempts'[m] = from + 1
  BY <1>1 DEF TypeOK
<1>5. sends[m] \in Nat /\ mailed' = mailed /\ sends' = sends /\ rejected' = rejected
  BY DEF TypeOK, mail
<1>6. RowInv(m)'
  BY <1>2, <1>4, <1>5 DEF RowInv
<1>7. QED
  BY <1>1, <1>2, <1>3, <1>4, <1>5, <1>6 DEF TypeOK

(* A row that a step leaves alone keeps its part of the invariant. *)
LEMMA RowKept ==
  ASSUME NEW m \in Row, RowInv(m), status'[m] = status[m], attempts'[m] = attempts[m],
         sends'[m] = sends[m], mailed'[m] = mailed[m]
  PROVE  RowInv(m)'
BY DEF RowInv, Budget

(* Recording a notification, and time passing. *)
LEMMA EnvironmentStep ==
  ASSUME IInv, NEW n \in Row, Record(n) \/ TimePasses(n)
  PROVE  IInv'
<1> USE ConstantsType DEF IInv, mail, worker, hand
<1>1. TypeOK'
  BY DEF TypeOK, Statuses, Record, TimePasses
<1>2. HandInv'
  BY DEF HandInv, TypeOK, Record, TimePasses
<1>3. GivesUpLast'
  BY DEF GivesUpLast, TypeOK, Record, TimePasses
<1>4. ASSUME NEW m \in Row PROVE RowInv(m)' /\ BatchInv(m)'
  BY <1>4 DEF RowInv, BatchInv, TypeOK, Record, TimePasses, Budget
<1>5. QED
  BY <1>1, <1>2, <1>3, <1>4

(* claimBatch only takes pending rows, so they have no send that is not counted. *)
LEMMA ClaimStep == ASSUME IInv, ClaimBatch PROVE IInv'
<1> DEFINE claimed == First(BatchSize, Due)
<1> USE ConstantsType DEF IInv, mail, hand
<1>1. /\ \A m \in claimed : m \in Row /\ status[m] = "pending"
      /\ pc = "claim"
      /\ status' = [m \in Row |-> IF m \in claimed THEN "processing" ELSE status[m]]
      /\ ripe' = ripe \ claimed
      /\ batch' = claimed /\ pc' \in {"sweep", "resolve"}
      /\ UNCHANGED <<attempts, sends, mailed, rejected, cur, read, failure, faults>>
  BY DEF ClaimBatch, First, Due, TypeOK
<1> HIDE DEF claimed
<1>2. TypeOK'
  <2>1. ripe' \in SUBSET Row
    BY <1>1 DEF TypeOK
  <2>2. batch' \in SUBSET Row
    BY <1>1
  <2>3. status' \in [Row -> Statuses]
    BY <1>1 DEF TypeOK, Statuses
  <2>4. QED
    BY <1>1, <2>1, <2>2, <2>3 DEF TypeOK
<1>3. HandInv'
  BY <1>1 DEF HandInv, TypeOK
<1>4. GivesUpLast'
  BY <1>1 DEF GivesUpLast, TypeOK, Budget
<1>5. ASSUME NEW m \in Row PROVE RowInv(m)' /\ BatchInv(m)'
  BY <1>1, <1>5 DEF RowInv, BatchInv, TypeOK, Budget
<1>6. QED
  BY <1>2, <1>3, <1>4, <1>5

(* A send leaves the row in hand with at most one send its attempts do not count. *)
LEMMA SendStep == ASSUME IInv, NEW n \in Row, Deliver(n) PROVE IInv'
<1> USE ConstantsType DEF IInv, table
<1>1. /\ pc = "deliver" /\ n \in batch /\ batch' = batch \ {n} /\ cur' = n /\ read' = attempts[n]
      /\ sends' = [sends EXCEPT ![n] = @ + 1]
      /\ status' = status /\ attempts' = attempts /\ ripe' = ripe
  BY DEF Deliver, SendAccepted, SendDeferred, AnswerLost, SendRejected, Send
<1>2. /\ mailed' \in [Row -> Nat] /\ \A m \in Row : mailed'[m] >= mailed[m]
      /\ rejected' \in SUBSET Row /\ rejected \subseteq rejected'
      /\ pc' \in {"mark", "apply"} /\ failure' \in Kinds /\ faults' \in 0 .. MaxFaults
      /\ pc' = "mark" => mailed'[n] > 0
      /\ pc' = "apply" /\ failure' = "permanent" => n \in rejected'
  <2>1. CASE SendAccepted(n)
    BY <2>1 DEF SendAccepted, TypeOK, Kinds
  <2>2. CASE SendDeferred(n)
    BY <2>2 DEF SendDeferred, TypeOK, Kinds
  <2>3. CASE AnswerLost(n)
    BY <2>3 DEF AnswerLost, TypeOK, Kinds
  <2>4. CASE SendRejected(n)
    BY <2>4 DEF SendRejected, TypeOK, Kinds
  <2>5. QED
    BY <2>1, <2>2, <2>3, <2>4 DEF Deliver
<1>3. status[n] = "processing" /\ sends[n] <= attempts[n] /\ attempts[n] <= Retries
  BY <1>1 DEF BatchInv, RowInv
<1>4. TypeOK'
  <2>1. read' \in 0 .. Budget /\ sends' \in [Row -> Nat]
    BY <1>1 DEF TypeOK
  <2>2. QED
    BY <1>1, <1>2, <2>1 DEF TypeOK
<1>5. HandInv'
  <2>1. n # NULL
    BY DEF Row
  <2>2. sends'[n] <= read' + 1
    BY <1>1, <1>3 DEF TypeOK
  <2>3. QED
    BY <1>1, <1>2, <1>3, <2>1, <2>2 DEF HandInv, TypeOK
<1>6. GivesUpLast'
  BY <1>1, <1>2 DEF GivesUpLast
<1>7. ASSUME NEW m \in Row PROVE RowInv(m)' /\ BatchInv(m)'
  <2>1. CASE m = n
    BY <1>1, <1>2, <1>3, <2>1 DEF RowInv, BatchInv, TypeOK, Budget
  <2>2. CASE m # n
    <3>1. sends'[m] = sends[m] /\ mailed'[m] >= mailed[m] /\ (m \in batch' => m \in batch)
      BY <1>1, <1>2, <1>7, <2>2 DEF TypeOK
    <3>2. RowInv(m)'
      <4>1. RowInv(m) /\ mailed[m] \in Nat /\ mailed'[m] \in Nat
        BY <1>2, <1>7 DEF TypeOK
      <4>2. status'[m] = status[m] /\ attempts'[m] = attempts[m]
        BY <1>1
      <4>3. QED
        BY <3>1, <4>1, <4>2 DEF RowInv, Budget
    <3>3. BatchInv(m)'
      BY <1>1, <1>2, <1>7, <3>1 DEF BatchInv
    <3>4. QED
      BY <3>2, <3>3
  <2>3. QED
    BY <2>1, <2>2
<1>8. QED
  BY <1>4, <1>5, <1>6, <1>7

(* markSent, taking effect or not. *)
LEMMA MarkStep == ASSUME IInv, MarkSent \/ MarkSentFails PROVE IInv'
<1> USE ConstantsType DEF IInv, mail, table
<1>1. /\ pc = "mark" /\ cur \in Row /\ cur \notin batch /\ mailed[cur] > 0
      /\ read \in 0 .. Retries /\ sends[cur] <= read + 1 /\ status[cur] = "processing"
  BY DEF MarkSent, MarkSentFails, HandInv, TypeOK
<1>2. /\ UNCHANGED <<sends, mailed, rejected, batch>>
      /\ \/ cur' = NULL /\ read' = 0 /\ pc' \in {"deliver", "sweep"}
            /\ faults' = faults /\ failure' = "retryable"
         \/ UNCHANGED <<cur, read>> /\ pc' = "apply" /\ failure' = "retryable"
            /\ faults < MaxFaults /\ faults' = faults + 1
  BY <1>1 DEF MarkSent, MarkSentFails, Done
<1>3. \/ /\ status' = [status EXCEPT ![cur] = "sent"]
         /\ attempts' = [attempts EXCEPT ![cur] = read + 1]
         /\ ripe' = ripe \ {cur}
      \/ /\ UNCHANGED <<status, attempts, ripe>>
         /\ cur' = cur
  BY DEF MarkSent, MarkSentFails, MarksSent
<1>4. TypeOK'
  <2>1. status' \in [Row -> Statuses] /\ attempts' \in [Row -> 0 .. Budget] /\ ripe' \in SUBSET Row
    BY <1>1, <1>3 DEF TypeOK, Statuses, Budget
  <2>2. QED
    BY <1>1, <1>2, <2>1 DEF TypeOK, Kinds, Budget
<1>5. HandInv'
  BY <1>1, <1>2, <1>3 DEF HandInv, TypeOK
<1>6. GivesUpLast'
  BY <1>1, <1>2, <1>3 DEF GivesUpLast, TypeOK
<1>7. ASSUME NEW m \in Row PROVE RowInv(m)' /\ BatchInv(m)'
  <2>1. RowInv(m) /\ BatchInv(m)
    BY <1>7
  <2>2. CASE m = cur
    BY <1>1, <1>2, <1>3, <2>1, <2>2 DEF RowInv, BatchInv, TypeOK, Budget
  <2>3. CASE m # cur
    BY <1>1, <1>2, <1>3, <2>1, <2>3 DEF RowInv, BatchInv, TypeOK, Budget
  <2>4. QED
    BY <2>2, <2>3
<1>8. QED
  BY <1>4, <1>5, <1>6, <1>7

(* A failed delivery's UPDATE takes effect, and the worker goes on or ends its
   cycle. *)
LEMMA ApplyStep ==
  ASSUME IInv, pc = "apply", Applies(cur, read, failure), UNCHANGED mail,
         cur' = NULL, read' = 0, failure' = "retryable",
         batch' \in {batch, {}}, pc' \in {"deliver", "sweep", "claim"}, faults' \in 0 .. MaxFaults
  PROVE  IInv'
<1> USE ConstantsType DEF IInv
<1>0. cur \in Row /\ read \in 0 .. Retries /\ failure \in Kinds
  BY DEF HandInv, TypeOK
<1> SUFFICES ASSUME NEW n \in Row, NEW from \in 0 .. Retries, NEW kind \in Kinds,
                    n = cur, from = read, kind = failure
             PROVE  IInv'
  BY <1>0
<1>1. /\ n \notin batch /\ sends[n] <= from + 1
      /\ kind = "permanent" => n \in rejected
      /\ Applies(n, from, kind)
  BY DEF HandInv
<1>2. /\ status' \in [Row -> Statuses] /\ attempts' \in [Row -> 0 .. Budget]
      /\ ripe' \in SUBSET Row
      /\ RowInv(n)'
      /\ status'[n] = "failed" => n \in rejected' \/ attempts'[n] = Budget
      /\ \A k \in Row : k # n => status'[k] = status[k] /\ attempts'[k] = attempts[k]
  BY <1>1, AppliesRow
<1>3. UNCHANGED <<sends, mailed, rejected>>
  BY DEF mail
<1>4. TypeOK'
  BY <1>1, <1>2, <1>3 DEF TypeOK, Budget, Kinds
<1>5. HandInv'
  BY DEF HandInv
<1>6. GivesUpLast'
  BY <1>1, <1>2, <1>3 DEF GivesUpLast, Budget
<1>7. ASSUME NEW m \in Row PROVE RowInv(m)' /\ BatchInv(m)'
  <2>1. CASE m = n
    BY <1>1, <1>2, <2>1 DEF BatchInv
  <2>2. CASE m # n
    <3>1. RowInv(m)'
      BY <1>2, <1>3, <2>2, RowKept
    <3>2. BatchInv(m)'
      BY <1>2, <1>3, <2>2 DEF BatchInv
    <3>3. QED
      BY <3>1, <3>2
  <2>3. QED
    BY <2>1, <2>2
<1>8. QED
  BY <1>4, <1>5, <1>6, <1>7

(* A swept row's UPDATE takes effect, and the worker goes on or ends its cycle. *)
LEMMA ReclaimStep ==
  ASSUME IInv, pc = "reclaim", NEW n \in batch, Applies(n, attempts[n], "retryable"), UNCHANGED mail,
         UNCHANGED hand \/ (cur' = NULL /\ read' = 0 /\ failure' = "retryable"),
         batch' \in {batch \ {n}, {}}, pc' \in {"reclaim", "retain", "claim"},
         faults' \in 0 .. MaxFaults
  PROVE  IInv'
<1> USE ConstantsType DEF IInv
<1>1. n \in Row /\ status[n] = "processing" /\ attempts[n] \in 0 .. Retries
      /\ sends[n] <= attempts[n] + 1
  BY DEF TypeOK, RowInv, BatchInv
<1>2. /\ status' \in [Row -> Statuses] /\ attempts' \in [Row -> 0 .. Budget]
      /\ ripe' \in SUBSET Row
      /\ RowInv(n)'
      /\ status'[n] = "failed" => n \in rejected' \/ attempts'[n] = Budget
      /\ \A k \in Row : k # n => status'[k] = status[k] /\ attempts'[k] = attempts[k]
  BY <1>1, AppliesRow DEF Kinds
<1>3. UNCHANGED <<sends, mailed, rejected>>
  BY DEF mail
<1>4. TypeOK'
  BY <1>1, <1>2, <1>3 DEF TypeOK, Budget, Kinds, hand
<1>5. HandInv'
  BY DEF HandInv, hand
<1>6. GivesUpLast'
  BY <1>1, <1>2, <1>3 DEF GivesUpLast, Budget
<1>7. ASSUME NEW m \in Row PROVE RowInv(m)' /\ BatchInv(m)'
  <2>1. CASE m = n
    BY <1>1, <1>2, <2>1 DEF BatchInv
  <2>2. CASE m # n
    <3>1. RowInv(m)'
      BY <1>2, <1>3, <2>2, RowKept
    <3>2. BatchInv(m)'
      BY <1>2, <1>3, <2>2 DEF BatchInv
    <3>3. QED
      BY <3>1, <3>2
  <2>3. QED
    BY <2>1, <2>2
<1>8. QED
  BY <1>4, <1>5, <1>6, <1>7

(* The sweep's claim, and retention. *)
LEMMA SweepStep == ASSUME IInv, Sweep PROVE IInv'
<1> USE ConstantsType DEF IInv, mail, hand
<1>1. PICK S \in SUBSET Stuck :
        /\ ripe' = ripe \ S
        /\ batch' = S /\ pc' = IF S = {} THEN "retain" ELSE "reclaim"
  BY DEF Sweep
<1>2. pc = "sweep" /\ UNCHANGED <<status, attempts, sends, mailed, rejected, cur, read, failure, faults>>
  BY DEF Sweep
<1>3. \A m \in S : m \in Row /\ status[m] = "processing"
  BY DEF Stuck, TypeOK
<1>4. ripe' \in SUBSET Row
  BY <1>1 DEF TypeOK
<1>5. TypeOK'
  BY <1>1, <1>2, <1>3, <1>4 DEF TypeOK
<1>6. HandInv' /\ GivesUpLast'
  BY <1>1, <1>2 DEF HandInv, GivesUpLast, Budget
<1>7. ASSUME NEW m \in Row PROVE RowInv(m)' /\ BatchInv(m)'
  BY <1>1, <1>2, <1>3, RowKept DEF BatchInv
<1>8. QED
  BY <1>5, <1>6, <1>7

(* Retention only takes rows that are settled. *)
LEMMA RetainStep == ASSUME IInv, Retain PROVE IInv'
<1> USE ConstantsType DEF IInv, mail, hand
<1>1. PICK S \in SUBSET {m \in Row : status[m] \in {"sent", "failed"}} :
        status' = [m \in Row |-> IF m \in S THEN "retired" ELSE status[m]]
  BY DEF Retain
<1>2. /\ pc = "retain" /\ pc' = "claim"
      /\ UNCHANGED <<attempts, ripe, sends, mailed, rejected, batch, cur, read, failure, faults>>
  BY DEF Retain
<1>3. TypeOK'
  BY <1>1, <1>2 DEF TypeOK, Statuses
<1>4. HandInv' /\ GivesUpLast'
  BY <1>1, <1>2 DEF HandInv, GivesUpLast, Budget, TypeOK
<1>5. ASSUME NEW m \in Row PROVE RowInv(m)' /\ BatchInv(m)'
  BY <1>1, <1>2 DEF RowInv, BatchInv, TypeOK, Budget
<1>6. QED
  BY <1>3, <1>4, <1>5

(* A step that drops or moves the worker's place without touching the table. *)
LEMMA WorkerMoves ==
  ASSUME IInv, UNCHANGED <<table, mail>>, faults' \in 0 .. MaxFaults,
         \/ pc = "resolve" /\ pc' = "deliver" /\ UNCHANGED <<batch, hand>>
         \/ pc = "down" /\ pc' = "claim" /\ UNCHANGED <<batch, hand>>
         \/ Abandon /\ pc' \in {"claim", "down"}
  PROVE  IInv'
<1> USE ConstantsType DEF IInv, table, mail, hand, Abandon
<1>1. TypeOK'
  BY DEF TypeOK, Kinds, Budget
<1>2. HandInv' /\ GivesUpLast'
  BY DEF HandInv, GivesUpLast, Budget
<1>3. ASSUME NEW m \in Row PROVE RowInv(m)' /\ BatchInv(m)'
  BY RowKept DEF BatchInv
<1>4. QED
  BY <1>1, <1>2, <1>3

(* Every step keeps the invariant. *)
LEMMA StepIInv == IInv /\ [Next]_vars => IInv'
<1> SUFFICES ASSUME IInv, [Next]_vars PROVE IInv'
  OBVIOUS
<1> USE ConstantsType
<1>1. CASE \E m \in Row : Record(m) \/ TimePasses(m)
  BY <1>1, EnvironmentStep
<1>2. CASE ClaimBatch
  BY <1>2, ClaimStep
<1>3. CASE \E m \in Row : Deliver(m)
  BY <1>3, SendStep
<1>4. CASE MarkSent \/ MarkSentFails
  BY <1>4, MarkStep
<1>5. CASE ApplyState
  <2>1. cur' = NULL /\ read' = 0 /\ failure' = "retryable" /\ batch' = batch
        /\ pc' \in {"deliver", "sweep"} /\ faults' \in 0 .. MaxFaults
    BY <1>5 DEF ApplyState, Done, IInv, TypeOK
  <2>2. QED
    BY <1>5, <2>1, ApplyStep DEF ApplyState
<1>6. CASE \E m \in Row : Reclaim(m)
  <2>1. PICK m \in Row : Reclaim(m)
    BY <1>6
  <2>2. faults' \in 0 .. MaxFaults
    BY <2>1 DEF Reclaim, IInv, TypeOK
  <2>3. QED
    BY <2>1, <2>2, ReclaimStep DEF Reclaim
<1>7. CASE Sweep
  BY <1>7, SweepStep
<1>8. CASE Retain
  BY <1>8, RetainStep
<1>9. CASE Resolve \/ Restart \/ Crash
  <2>1. faults' \in 0 .. MaxFaults
    BY <1>9 DEF Resolve, Restart, Crash, IInv, TypeOK
  <2>2. QED
    BY <1>9, <2>1, WorkerMoves DEF Resolve, Restart, Crash, table
<1>10. CASE CycleFails
  <2>1. faults' \in 0 .. MaxFaults
    BY <1>10 DEF CycleFails, IInv, TypeOK
  <2>2. /\ Abandon /\ pc' = "claim" /\ UNCHANGED mail
        /\ \/ UNCHANGED table
           \/ pc = "apply" /\ Applies(cur, read, failure)
           \/ pc = "reclaim" /\ \E m \in batch : Applies(m, attempts[m], "retryable")
    BY <1>10 DEF CycleFails
  <2>3. CASE UNCHANGED table
    BY <2>1, <2>2, <2>3, WorkerMoves
  <2>4. CASE pc = "apply" /\ Applies(cur, read, failure)
    BY <2>1, <2>2, <2>4, ApplyStep DEF Abandon
  <2>5. CASE pc = "reclaim" /\ \E m \in batch : Applies(m, attempts[m], "retryable")
    BY <2>1, <2>2, <2>5, ReclaimStep DEF Abandon
  <2>6. QED
    BY <2>2, <2>3, <2>4, <2>5
<1>11. CASE UNCHANGED vars
  <2>1. UNCHANGED <<table, mail, pc, batch, cur, read, failure, faults>>
    BY <1>11 DEF vars, worker, hand
  <2>2. UNCHANGED <<status, attempts, ripe, sends, mailed, rejected>>
    BY <2>1 DEF table, mail
  <2>3. TypeOK' /\ HandInv' /\ GivesUpLast'
    BY <2>1, <2>2 DEF IInv, TypeOK, HandInv, GivesUpLast, Budget
  <2>4. ASSUME NEW m \in Row PROVE RowInv(m)' /\ BatchInv(m)'
    BY <2>1, <2>2, RowKept DEF IInv, BatchInv
  <2>5. QED
    BY <2>3, <2>4 DEF IInv
<1>12. QED
  BY <1>1, <1>2, <1>3, <1>4, <1>5, <1>6, <1>7, <1>8, <1>9, <1>10, <1>11 DEF Next, WorkerStep

(* The invariant holds in every state of the worker. *)
THEOREM OutboxInvariant == Spec => []IInv
BY InitIInv, StepIInv, PTL DEF Spec

(* Every variable keeps its type, attempts their bound. *)
THEOREM OutboxTypeCorrect == Spec => []TypeOK
<1>1. IInv => TypeOK
  BY DEF IInv
<1>2. QED
  BY <1>1, OutboxInvariant, PTL

(* No notification is handed to the mail server more often than the backoff
   schedule allows, whatever fails. *)
THEOREM SendsBounded == Spec => []SendsAreBounded
<1>1. IInv => SendsAreBounded
  BY DEF IInv, RowInv, SendsAreBounded
<1>2. QED
  BY <1>1, OutboxInvariant, PTL

(* None is given up before its schedule is used, unless it was refused for good. *)
THEOREM NeverGivesUpEarly == Spec => []GivesUpLast
<1>1. IInv => GivesUpLast
  BY DEF IInv
<1>2. QED
  BY <1>1, OutboxInvariant, PTL

-----------------------------------------------------------------------------
(* The refinement of NotificationDelivery *)

(* Nothing is recorded or mailed at first. *)
LEMMA DeliveryInit == Init => Delivery!Init
<1> SUFFICES ASSUME Init PROVE Delivery!Init
  OBVIOUS
<1>1. View = [m \in Row |-> "absent"]
  BY ConstantsType DEF Init, View, Settled, Row
<1>2. QED
  BY <1>1 DEF Init, Delivery!Init

(* A step that moves no row's view and mails nothing is a stuttering step. *)
LEMMA Stutters ==
  ASSUME \A m \in Row : (IF m = cur THEN "queued" ELSE Settled(status[m]))'
                         = (IF m = cur THEN "queued" ELSE Settled(status[m])),
         mailed' = mailed
  PROVE  UNCHANGED Delivery!vars
BY DEF View, Delivery!vars

(* A row that was sent, or given up: what the worker let go of. *)
LEMMA LetsGo ==
  ASSUME IInv, NEW n \in Row, View[n] = "queued", mailed' = mailed,
         \A m \in Row : m # n => View'[m] = View[m],
         View'[n] \in {"queued", "sent", "failed"},
         View'[n] = "sent" => mailed[n] > 0
  PROVE  [Delivery!Next]_(Delivery!vars)
<1>1. CASE View'[n] = "queued"
  <2>1. View' = View
    BY <1>1 DEF View
  <2>2. QED
    BY <2>1 DEF Delivery!vars
<1>2. CASE View'[n] # "queued"
  <2>1. View' = [View EXCEPT ![n] = View'[n]]
    BY DEF View
  <2>2. Delivery!Sent(n) \/ Delivery!GiveUp(n)
    BY <1>2, <2>1 DEF Delivery!Sent, Delivery!GiveUp, Delivery!Move
  <2>3. QED
    BY <2>2 DEF Delivery!Next
<1>3. QED
  BY <1>1, <1>2

(* Releasing the row in hand, after its UPDATE or without it. *)
LEMMA HandReleased ==
  ASSUME IInv, IInv', pc \in {"mark", "apply"}, cur' = NULL, UNCHANGED mail,
         \A m \in Row : m # cur => status'[m] = status[m],
         status'[cur] \in {status[cur], "pending", "sent", "failed"},
         pc = "apply" => status'[cur] \in {status[cur], "pending", "failed"}
  PROVE  [Delivery!Next]_(Delivery!vars)
<1>1. PICK n \in Row : n = cur
  BY DEF IInv, HandInv, TypeOK
<1>2. /\ n # NULL /\ status[n] \in {"processing", "sent"}
      /\ pc = "mark" \/ status[n] = "sent" => mailed[n] > 0
  BY <1>1, ConstantsType DEF IInv, HandInv, RowInv, Row
<1>3. status'[n] \in {"processing", "sent", "pending", "failed"}
  BY <1>1, <1>2
<1>4. View[n] = "queued" /\ View'[n] \in {"queued", "sent", "failed"}
  BY <1>1, <1>3, ConstantsType DEF View, Settled, Row
<1>5. \A m \in Row : m # n => View'[m] = View[m]
  BY <1>1, ConstantsType DEF View, Settled, Row
<1>6. View'[n] = "sent" => mailed[n] > 0
  <2>1. SUFFICES ASSUME View'[n] = "sent" PROVE status'[n] = "sent"
    BY <1>1, <1>2
  <2>2. QED
    BY <2>1, <1>3, ConstantsType DEF View, Settled, Row
<1>7. mailed' = mailed
  BY DEF mail
<1>8. QED
  BY <1>4, <1>5, <1>6, <1>7, LetsGo

(* A reclaimed row goes back to the queue, or is given up. *)
LEMMA ReclaimReleases ==
  ASSUME IInv, IInv', pc = "reclaim", NEW n \in batch, cur' = NULL, UNCHANGED mail,
         Applies(n, attempts[n], "retryable")
  PROVE  [Delivery!Next]_(Delivery!vars)
<1>1. n \in Row /\ status[n] = "processing" /\ cur = NULL /\ n # NULL
  BY ConstantsType DEF IInv, HandInv, BatchInv, TypeOK, Row
<1>2. status' = [status EXCEPT ![n] = nextOutboxState(attempts[n] + 1, "retryable")]
  BY DEF Applies
<1>3. status'[n] \in {"pending", "failed"} /\ \A m \in Row : m # n => status'[m] = status[m]
  BY <1>1, <1>2 DEF IInv, TypeOK, nextOutboxState
<1>4. View[n] = "queued" /\ View'[n] \in {"queued", "failed"}
  BY <1>1, <1>3 DEF View, Settled
<1>5. \A m \in Row : m # n => View'[m] = View[m]
  BY <1>1, <1>3 DEF View, Settled
<1>6. mailed' = mailed
  BY DEF mail
<1>7. QED
  BY <1>1, <1>4, <1>5, <1>6, LetsGo

(* Every step of the outbox is a step of the delivery, or one it does not see. *)
LEMMA DeliveryStep == IInv /\ IInv' /\ [Next]_vars => [Delivery!Next]_(Delivery!vars)
<1> SUFFICES ASSUME IInv, IInv', [Next]_vars PROVE [Delivery!Next]_(Delivery!vars)
  OBVIOUS
<1> USE ConstantsType
<1>1. ASSUME NEW n \in Row, Record(n) PROVE Delivery!Next
  <2>1. status[n] = "absent" /\ status' = [status EXCEPT ![n] = "pending"]
        /\ cur' = cur /\ mailed' = mailed
    BY <1>1 DEF Record, worker, hand, mail
  <2>2. n # cur
    BY <2>1 DEF IInv, HandInv, Row
  <2>3. View[n] = "absent" /\ View' = [View EXCEPT ![n] = "queued"]
    BY <2>1, <2>2 DEF View, Settled, IInv, TypeOK
  <2>4. Delivery!Record(n)
    BY <2>1, <2>3 DEF Delivery!Record, Delivery!Move
  <2>5. QED
    BY <2>4 DEF Delivery!Next
<1>2. ASSUME UNCHANGED <<status, cur, mailed>> PROVE UNCHANGED Delivery!vars
  BY <1>2 DEF Delivery!vars, View
<1>3. CASE \E n \in Row : TimePasses(n)
  BY <1>2, <1>3 DEF TimePasses, worker, hand, mail
<1>4. CASE ClaimBatch
  <2>1. cur' = cur /\ mailed' = mailed
    BY <1>4 DEF ClaimBatch, hand, mail
  <2>2. \A m \in Row : status'[m] = status[m] \/ (status[m] = "pending" /\ status'[m] = "processing")
    BY <1>4 DEF ClaimBatch, First, Due, IInv, TypeOK
  <2>3. View' = View
    BY <2>1, <2>2 DEF View, Settled
  <2>4. QED
    BY <2>1, <2>3 DEF Delivery!vars
<1>5. ASSUME NEW n \in Row, Deliver(n) PROVE [Delivery!Next]_(Delivery!vars)
  <2>1. cur' = n /\ status' = status /\ n \in batch /\ pc = "deliver"
    BY <1>5 DEF Deliver, SendAccepted, SendDeferred, AnswerLost, SendRejected, Send, table
  <2>2. cur = NULL /\ status[n] = "processing" /\ n # NULL
    BY <2>1 DEF IInv, HandInv, BatchInv, Row
  <2>3. View' = View /\ View[n] = "queued"
    BY <2>1, <2>2 DEF View, Settled, Row
  <2>4. mailed' = mailed \/ mailed' = [mailed EXCEPT ![n] = @ + 1]
    BY <1>5 DEF Deliver, SendAccepted, SendDeferred, AnswerLost, SendRejected
  <2>5. CASE mailed' = mailed
    BY <2>3, <2>5 DEF Delivery!vars
  <2>6. CASE mailed' = [mailed EXCEPT ![n] = @ + 1]
    BY <2>3, <2>6 DEF Delivery!Mail, Delivery!Next
  <2>7. QED
    BY <2>4, <2>5, <2>6
<1>6. CASE MarkSent
  <2>1. pc = "mark" /\ cur' = NULL /\ status' = [status EXCEPT ![cur] = "sent"] /\ UNCHANGED mail
    BY <1>6 DEF MarkSent, MarksSent, Done
  <2>2. cur \in Row
    BY <2>1 DEF IInv, HandInv, TypeOK
  <2>3. QED
    BY <2>1, <2>2, HandReleased DEF IInv, TypeOK
<1>7. CASE MarkSentFails
  <2>1. cur' = cur /\ mailed' = mailed
        /\ (status' = [status EXCEPT ![cur] = "sent"] \/ status' = status)
    BY <1>7 DEF MarkSentFails, MarksSent, table, mail
  <2>2. View' = View
    BY <2>1 DEF View, IInv, TypeOK
  <2>3. QED
    BY <2>1, <2>2 DEF Delivery!vars
<1>8. ASSUME pc = "apply", Applies(cur, read, failure), cur' = NULL, UNCHANGED mail
      PROVE  [Delivery!Next]_(Delivery!vars)
  <2>1. cur \in Row /\ status' = [status EXCEPT ![cur] = nextOutboxState(read + 1, failure)]
    BY <1>8 DEF IInv, HandInv, TypeOK, Applies
  <2>2. nextOutboxState(read + 1, failure) \in {"pending", "failed"}
    BY DEF nextOutboxState
  <2>3. QED
    BY <1>8, <2>1, <2>2, HandReleased DEF IInv, TypeOK
<1>9. CASE ApplyState
  BY <1>8, <1>9 DEF ApplyState, Done
<1>10. CASE \E n \in Row : Reclaim(n)
  <2>1. PICK n \in Row : Reclaim(n)
    BY <1>10
  <2>2. pc = "reclaim" /\ cur' = NULL
    BY <2>1 DEF Reclaim, hand, IInv, HandInv
  <2>3. QED
    BY <2>1, <2>2, ReclaimReleases DEF Reclaim
<1>11. CASE Sweep \/ Resolve \/ Restart \/ UNCHANGED vars
  <2>1. UNCHANGED <<status, cur, mailed>>
    BY <1>11 DEF Sweep, Resolve, Restart, vars, table, mail, worker, hand
  <2>2. QED
    BY <1>2, <2>1
<1>12. CASE Retain
  <2>1. PICK S \in SUBSET {m \in Row : status[m] \in {"sent", "failed"}} :
          status' = [m \in Row |-> IF m \in S THEN "retired" ELSE status[m]]
    BY <1>12 DEF Retain
  <2>2. cur = NULL /\ cur' = NULL /\ mailed' = mailed
    BY <1>12 DEF Retain, hand, mail, IInv, HandInv
  <2>3. \A m \in S : m \in Row /\ View[m] \in {"sent", "failed"}
    BY <2>2 DEF View, Settled, Row
  <2>4. View' = [m \in Row |-> IF m \in S THEN "retired" ELSE View[m]]
    BY <2>1, <2>2 DEF View, Settled, Row
  <2>5. Delivery!Retire(S)
    BY <2>2, <2>3, <2>4 DEF Delivery!Retire
  <2>6. QED
    BY <2>5 DEF Delivery!Next
<1>13. ASSUME UNCHANGED <<table, mail>>, Abandon PROVE [Delivery!Next]_(Delivery!vars)
  <2>1. cur' = NULL /\ status' = status /\ UNCHANGED mail
    BY <1>13 DEF Abandon, table
  <2>2. CASE cur = NULL
    BY <1>2, <2>1, <2>2 DEF mail
  <2>3. CASE cur # NULL
    BY <2>1, <2>3, HandReleased DEF IInv, HandInv
  <2>4. QED
    BY <2>2, <2>3
<1>14. CASE Crash
  BY <1>13, <1>14 DEF Crash
<1>15. CASE CycleFails
  <2>1. /\ Abandon /\ UNCHANGED mail /\ cur' = NULL
        /\ \/ UNCHANGED table
           \/ pc = "apply" /\ Applies(cur, read, failure)
           \/ pc = "reclaim" /\ \E m \in batch : Applies(m, attempts[m], "retryable")
    BY <1>15 DEF CycleFails, Abandon
  <2>2. QED
    BY <1>8, <1>13, <2>1, ReclaimReleases
<1>16. QED
  BY <1>1, <1>3, <1>4, <1>5, <1>6, <1>7, <1>9, <1>10, <1>11, <1>12, <1>14, <1>15
     DEF Next, WorkerStep

(* The outbox, with all that can go wrong in it, delivers notifications as
   NotificationDelivery promises. *)
THEOREM OutboxImplementsDelivery == Spec => ImplementsDelivery
<1>1. Spec => Delivery!Init /\ [][Delivery!Next]_(Delivery!vars)
  BY OutboxInvariant, DeliveryInit, DeliveryStep, PTL DEF Spec
<1>2. QED
  BY <1>1 DEF ImplementsDelivery, Delivery!Spec

-----------------------------------------------------------------------------
(* Faults pay for every mail that is followed by another *)

LEMMA WastedTells ==
  /\ \A w : w \in Wasted <=>
       \E m \in Row : \E n \in 1 .. mailed[m] : w = <<m, n>> /\ (n < mailed[m] \/ Exposed(m))
  /\ \A w : w \in Wasted' <=>
       \E m \in Row : \E n \in 1 .. mailed'[m] : w = <<m, n>> /\ (n < mailed'[m] \/ Exposed(m)')
BY DEF Wasted

(* Nothing more is wasted, or one mail more for a fault more. *)
LEMMA Pays ==
  ASSUME FaultsPaid, faults \in Nat,
         \/ Wasted' \subseteq Wasted /\ faults' \in {faults, faults + 1}
         \/ (\E w : Wasted' \subseteq Wasted \cup {w}) /\ faults' = faults + 1
  PROVE  FaultsPaid'
<1>1. PICK w : Wasted' \subseteq Wasted \cup {w} /\ (faults' = faults + 1 \/ Wasted' \subseteq Wasted)
  <2>1. CASE Wasted' \subseteq Wasted
    BY <2>1
  <2>2. CASE (\E w : Wasted' \subseteq Wasted \cup {w}) /\ faults' = faults + 1
    BY <2>2
  <2>3. QED
    BY <2>1, <2>2
<1>2. /\ IsFiniteSet(Wasted \cup {w}) /\ Cardinality(Wasted \cup {w}) \in Nat
      /\ Cardinality(Wasted \cup {w}) <= Cardinality(Wasted) + 1
      /\ Cardinality(Wasted) \in Nat /\ Cardinality(Wasted) <= faults /\ faults' \in {faults, faults + 1}
  <2>1. IsFiniteSet(Wasted) /\ Cardinality(Wasted) \in Nat
    BY FS_CardinalityType DEF FaultsPaid
  <2>2. /\ IsFiniteSet(Wasted \cup {w})
        /\ Cardinality(Wasted \cup {w}) \in {Cardinality(Wasted), Cardinality(Wasted) + 1}
    BY <2>1, FS_AddElement
  <2>3. QED
    BY <2>1, <2>2 DEF FaultsPaid
<1>3. CASE Wasted' \subseteq Wasted
  <2>1. IsFiniteSet(Wasted') /\ Cardinality(Wasted') <= Cardinality(Wasted) /\ Cardinality(Wasted') \in Nat
    BY <1>3, FS_Subset, FS_CardinalityType DEF FaultsPaid
  <2>2. QED
    BY <1>2, <2>1 DEF FaultsPaid
<1>4. CASE faults' = faults + 1
  <2>1. /\ IsFiniteSet(Wasted') /\ Cardinality(Wasted') \in Nat
        /\ Cardinality(Wasted') <= Cardinality(Wasted \cup {w})
    BY <1>1, <1>2, FS_Subset, FS_CardinalityType
  <2>2. QED
    BY <1>2, <1>4, <2>1 DEF FaultsPaid
<1>5. QED
  BY <1>1, <1>3, <1>4

(* A step that mails nothing, and exposes at most the row in hand, for a fault. *)
LEMMA MovesPaid ==
  ASSUME IInv, FaultsPaid, mailed' = mailed, faults' \in {faults, faults + 1},
         \A m \in Row : Exposed(m)' => Exposed(m) \/ (m = cur /\ faults' = faults + 1)
  PROVE  FaultsPaid'
<1>1. faults \in Nat /\ mailed \in [Row -> Nat]
  BY DEF IInv, TypeOK
<1>2. CASE faults' = faults
  <2>1. Wasted' \subseteq Wasted
    BY <1>1, <1>2, WastedTells
  <2>2. QED
    BY <1>1, <1>2, <2>1, Pays
<1>3. CASE faults' = faults + 1
  <2>1. Wasted' \subseteq Wasted \cup {<<cur, mailed[cur]>>}
    <3>1. ASSUME NEW w \in Wasted' PROVE w \in Wasted \/ w = <<cur, mailed[cur]>>
      <4>1. PICK m \in Row : \E n \in 1 .. mailed[m] : w = <<m, n>> /\ (n < mailed[m] \/ Exposed(m)')
        BY <3>1, WastedTells
      <4>2. PICK n \in 1 .. mailed[m] : w = <<m, n>> /\ (n < mailed[m] \/ Exposed(m)')
        BY <4>1
      <4>3. CASE n < mailed[m] \/ Exposed(m)
        BY <4>2, <4>3, WastedTells
      <4>4. CASE ~(n < mailed[m]) /\ m = cur
        BY <1>1, <4>2, <4>4
      <4>5. QED
        BY <4>2, <4>3, <4>4
    <3>2. QED
      BY <3>1
  <2>2. QED
    BY <1>1, <1>3, <2>1, Pays
<1>4. QED
  BY <1>2, <1>3

(* A row that had been mailed before was exposed: with another mail accepted it is
   the earlier one that is wasted.  A lost answer wastes the mail itself. *)
LEMMA SendPaid == ASSUME IInv, FaultsPaid, NEW n \in Row, Deliver(n) PROVE FaultsPaid'
<1>1. /\ pc = "deliver" /\ n \in batch /\ cur' = n /\ cur = NULL /\ pc' \in {"mark", "apply"}
      /\ status' = status /\ status[n] = "processing"
      /\ faults \in Nat /\ mailed \in [Row -> Nat] /\ NULL \notin Row
  BY ConstantsType DEF Deliver, SendAccepted, SendDeferred, AnswerLost, SendRejected, Send, table,
     IInv, TypeOK, HandInv, BatchInv, Row
<1>2. \A m \in Row : m # n => (Exposed(m)' <=> mailed'[m] > 0 /\ status[m] \in {"pending", "processing"})
  BY <1>1 DEF Exposed
<1>3. \A m \in Row : Exposed(m) <=> mailed[m] > 0 /\ status[m] \in {"pending", "processing"}
  BY <1>1 DEF Exposed
<1>4. Exposed(n)' <=> mailed'[n] > 0 /\ pc' # "mark"
  BY <1>1 DEF Exposed
<1>5. CASE SendDeferred(n) \/ SendRejected(n)
  <2>1. mailed' = mailed /\ faults' = faults
    BY <1>5 DEF SendDeferred, SendRejected
  <2>2. \A m \in Row : Exposed(m)' => Exposed(m)
    BY <1>1, <1>2, <1>3, <1>4, <2>1
  <2>3. QED
    BY <2>1, <2>2, MovesPaid
<1>6. CASE SendAccepted(n)
  <2>1. pc' = "mark" /\ mailed' = [mailed EXCEPT ![n] = @ + 1] /\ faults' = faults
    BY <1>6 DEF SendAccepted
  <2>2. ASSUME NEW w \in Wasted' PROVE w \in Wasted
    <3>1. PICK m \in Row : \E k \in 1 .. mailed'[m] : w = <<m, k>> /\ (k < mailed'[m] \/ Exposed(m)')
      BY <2>2, WastedTells
    <3>2. PICK k \in 1 .. mailed'[m] : w = <<m, k>> /\ (k < mailed'[m] \/ Exposed(m)')
      BY <3>1
    <3>3. CASE m = n
      <4>1. k \in 1 .. mailed[n]
        BY <1>1, <1>4, <2>1, <3>2, <3>3
      <4>2. Exposed(n)
        BY <1>1, <1>3, <4>1
      <4>3. QED
        BY <3>2, <3>3, <4>1, <4>2, WastedTells
    <3>4. CASE m # n
      <4>1. mailed'[m] = mailed[m]
        BY <1>1, <2>1, <3>4
      <4>2. Exposed(m)' => Exposed(m)
        BY <1>2, <1>3, <3>4, <4>1
      <4>3. QED
        BY <3>2, <4>1, <4>2, WastedTells
    <3>5. QED
      BY <3>3, <3>4
  <2>3. QED
    BY <1>1, <2>1, <2>2, Pays
<1>7. CASE AnswerLost(n)
  <2>1. pc' = "apply" /\ mailed' = [mailed EXCEPT ![n] = @ + 1] /\ faults' = faults + 1
    BY <1>7 DEF AnswerLost
  <2>2. ASSUME NEW w \in Wasted' PROVE w \in Wasted \/ w = <<n, mailed'[n]>>
    <3>1. PICK m \in Row : \E k \in 1 .. mailed'[m] : w = <<m, k>> /\ (k < mailed'[m] \/ Exposed(m)')
      BY <2>2, WastedTells
    <3>2. PICK k \in 1 .. mailed'[m] : w = <<m, k>> /\ (k < mailed'[m] \/ Exposed(m)')
      BY <3>1
    <3>3. CASE m = n
      <4>1. CASE k \in 1 .. mailed[n]
        <5>1. Exposed(n)
          BY <1>1, <1>3, <4>1
        <5>2. QED
          BY <3>2, <3>3, <4>1, <5>1, WastedTells
      <4>2. CASE k \notin 1 .. mailed[n]
        BY <1>1, <2>1, <3>2, <3>3, <4>2
      <4>3. QED
        BY <4>1, <4>2
    <3>4. CASE m # n
      <4>1. mailed'[m] = mailed[m]
        BY <1>1, <2>1, <3>4
      <4>2. Exposed(m)' => Exposed(m)
        BY <1>2, <1>3, <3>4, <4>1
      <4>3. QED
        BY <3>2, <4>1, <4>2, WastedTells
    <3>5. QED
      BY <3>3, <3>4
  <2>3. QED
    BY <1>1, <2>1, <2>2, Pays
<1>8. QED
  BY <1>5, <1>6, <1>7 DEF Deliver

(* The UPDATE of applyOutboxState takes a row from "processing", or the row in hand
   from "sent", to a status in which it is exposed only if it was. *)
LEMMA AppliedStatus ==
  ASSUME IInv, NEW m \in Row, NEW from, NEW kind, Applies(m, from, kind), NEW k \in Row
  PROVE  status'[k] = status[k] \/ k = m
BY DEF Applies, IInv, TypeOK

(* Every other step. *)
LEMMA QuietPaid ==
  ASSUME IInv, MailsWereSent, FaultsPaid, [Next]_vars, \A m \in Row : ~Deliver(m)
  PROVE  FaultsPaid'
<1> SUFFICES /\ mailed' = mailed /\ faults' \in {faults, faults + 1}
             /\ \A m \in Row : Exposed(m)' => Exposed(m) \/ (m = cur /\ faults' = faults + 1)
  BY MovesPaid
<1> USE ConstantsType DEF table, mail, hand
<1>0. /\ faults \in Nat /\ mailed \in [Row -> Nat] /\ status \in [Row -> Statuses]
      /\ batch \in SUBSET Row /\ ripe \in SUBSET Row /\ cur \in Row \cup {NULL} /\ NULL \notin Row
      /\ cur # NULL <=> pc \in {"mark", "apply"}
  BY DEF IInv, TypeOK, HandInv, Row
<1>1. CASE \E n \in Row : Record(n) \/ TimePasses(n)
  <2>1. PICK n \in Row : Record(n) \/ TimePasses(n)
    BY <1>1
  <2>2. /\ UNCHANGED <<mailed, pc, cur, faults>>
        /\ \A m \in Row : status'[m] # status[m] => m = n /\ status[m] = "absent"
    BY <1>0, <2>1 DEF Record, TimePasses, worker
  <2>3. \A m \in Row : status[m] = "absent" => ~(mailed[m] > 0)
    BY <1>0 DEF IInv, RowInv, TypeOK, MailsWereSent
  <2>4. QED
    BY <1>0, <2>2, <2>3 DEF Exposed
<1>2. CASE ClaimBatch
  <2>1. /\ UNCHANGED <<mailed, cur, faults>> /\ pc = "claim" /\ pc' # "mark"
        /\ status' = [m \in Row |-> IF m \in First(BatchSize, Due) THEN "processing" ELSE status[m]]
    BY <1>2 DEF ClaimBatch
  <2>2. \A m \in Row : status'[m] # status[m] => status[m] = "pending"
    BY <1>0, <2>1 DEF First, Due
  <2>3. QED
    BY <1>0, <2>1, <2>2 DEF Exposed
<1>3. CASE MarkSent
  <2>1. /\ UNCHANGED <<mailed, faults>> /\ pc = "mark" /\ cur' = NULL
        /\ status' = [status EXCEPT ![cur] = "sent"]
    BY <1>3 DEF MarkSent, MarksSent, Done
  <2>2. QED
    BY <1>0, <2>1 DEF Exposed
<1>4. CASE MarkSentFails
  <2>1. /\ UNCHANGED <<mailed, cur>> /\ faults' = faults + 1 /\ pc = "mark" /\ pc' = "apply"
        /\ status' = [status EXCEPT ![cur] = "sent"] \/ status' = status
    BY <1>4 DEF MarkSentFails, MarksSent
  <2>2. \A m \in Row : m # cur => status'[m] = status[m]
    BY <1>0, <2>1
  <2>3. QED
    BY <1>0, <2>1, <2>2 DEF Exposed
<1>5. CASE ApplyState
  <2>1. /\ UNCHANGED <<mailed, faults>> /\ pc = "apply" /\ cur' = NULL
        /\ Applies(cur, read, failure)
    BY <1>5 DEF ApplyState, Done
  <2>2. \A m \in Row : m # cur => status'[m] = status[m]
    BY <1>0, <2>1 DEF Applies
  <2>3. QED
    BY <1>0, <2>1, <2>2 DEF Exposed
<1>6. CASE \E m \in Row : Reclaim(m)
  <2>1. PICK n \in Row : Reclaim(n)
    BY <1>6
  <2>2. /\ UNCHANGED <<mailed, cur, faults>> /\ pc = "reclaim" /\ pc' # "mark" /\ n \in batch
        /\ Applies(n, attempts[n], "retryable")
    BY <2>1 DEF Reclaim
  <2>3. /\ \A m \in Row : m # n => status'[m] = status[m]
        /\ status[n] = "processing"
    BY <1>0, <2>2 DEF Applies, IInv, BatchInv
  <2>4. QED
    BY <1>0, <2>2, <2>3 DEF Exposed
<1>7. CASE Sweep \/ Resolve \/ Restart
  <2>1. UNCHANGED <<mailed, cur, faults, status>> /\ pc # "mark"
    BY <1>7 DEF Sweep, Resolve, Restart
  <2>2. QED
    BY <1>0, <2>1 DEF Exposed
<1>8. CASE Retain
  <2>1. PICK S : /\ UNCHANGED <<mailed, cur, faults>> /\ pc = "retain"
                 /\ status' = [m \in Row |-> IF m \in S THEN "retired" ELSE status[m]]
    BY <1>8 DEF Retain
  <2>2. \A m \in Row : status'[m] = status[m] \/ status'[m] = "retired"
    BY <1>0, <2>1
  <2>3. QED
    BY <1>0, <2>1, <2>2 DEF Exposed
<1>9. CASE CycleFails
  <2>1. /\ UNCHANGED mailed /\ faults' = faults + 1 /\ pc' = "claim" /\ cur' = NULL
        /\ pc # "mark"
        /\ \/ status' = status
           \/ pc = "apply" /\ Applies(cur, read, failure)
           \/ pc = "reclaim" /\ \E m \in batch : Applies(m, attempts[m], "retryable")
    BY <1>9 DEF CycleFails, Abandon
  <2>2. CASE status' = status
    BY <1>0, <2>1, <2>2 DEF Exposed
  <2>3. CASE pc = "apply" /\ Applies(cur, read, failure)
    <3>1. \A m \in Row : m # cur => status'[m] = status[m]
      BY <1>0, <2>3 DEF Applies
    <3>2. QED
      BY <1>0, <2>1, <2>3, <3>1 DEF Exposed
  <2>4. CASE pc = "reclaim" /\ \E m \in batch : Applies(m, attempts[m], "retryable")
    <3>1. PICK n \in batch : Applies(n, attempts[n], "retryable")
      BY <2>4
    <3>2. /\ \A m \in Row : m # n => status'[m] = status[m]
          /\ status[n] = "processing" /\ n \in Row
      BY <1>0, <3>1 DEF Applies, IInv, BatchInv
    <3>3. QED
      BY <1>0, <2>1, <2>4, <3>2 DEF Exposed
  <2>5. QED
    BY <2>1, <2>2, <2>3, <2>4
<1>10. CASE Crash
  <2>1. UNCHANGED <<mailed, status>> /\ faults' = faults + 1 /\ pc' = "down" /\ cur' = NULL
    BY <1>10 DEF Crash, Abandon
  <2>2. QED
    BY <1>0, <2>1 DEF Exposed
<1>11. CASE UNCHANGED vars
  <2>1. UNCHANGED <<mailed, status, cur, pc, faults>>
    BY <1>11 DEF vars, worker
  <2>2. QED
    BY <1>0, <2>1 DEF Exposed
<1>12. QED
  BY <1>1, <1>2, <1>3, <1>4, <1>5, <1>6, <1>7, <1>8, <1>9, <1>10, <1>11 DEF Next, WorkerStep

(* A mail is accepted only when it is sent. *)
LEMMA MailsAreSent == TypeOK /\ MailsWereSent /\ [Next]_vars => MailsWereSent'
<1> SUFFICES ASSUME TypeOK, MailsWereSent, [Next]_vars PROVE MailsWereSent'
  OBVIOUS
<1>1. CASE \E n \in Row : Deliver(n)
  <2>1. PICK n \in Row : Deliver(n)
    BY <1>1
  <2>2. /\ sends' = [sends EXCEPT ![n] = @ + 1]
        /\ mailed' = mailed \/ mailed' = [mailed EXCEPT ![n] = @ + 1]
    BY <2>1 DEF Deliver, SendAccepted, SendDeferred, AnswerLost, SendRejected, Send
  <2>3. QED
    BY <2>2 DEF TypeOK, MailsWereSent
<1>2. CASE ~ \E n \in Row : Deliver(n)
  <2>1. UNCHANGED mail
    BY <1>2 DEF Next, WorkerStep, Record, TimePasses, ClaimBatch, Resolve, MarkSent, ApplyState, Sweep,
       Retain, Restart, Reclaim, MarkSentFails, CycleFails, Crash, vars
  <2>2. QED
    BY <2>1 DEF mail, MailsWereSent
<1>3. QED
  BY <1>1, <1>2

(* Every mail that did not settle its row was paid for by a fault. *)
LEMMA WastedArePaid == Spec => [](FaultsPaid /\ MailsWereSent)
<1>1. Init => FaultsPaid /\ MailsWereSent
  <2> SUFFICES ASSUME Init PROVE FaultsPaid /\ MailsWereSent
    OBVIOUS
  <2>1. Wasted = {}
    BY WastedTells DEF Init
  <2>2. QED
    BY <2>1, FS_EmptySet DEF Init, FaultsPaid, MailsWereSent
<1>2. IInv /\ (FaultsPaid /\ MailsWereSent) /\ [Next]_vars => (FaultsPaid /\ MailsWereSent)'
  <2>1. ASSUME IInv, FaultsPaid, MailsWereSent, [Next]_vars PROVE FaultsPaid'
    BY <2>1, SendPaid, QuietPaid
  <2>2. QED
    BY <2>1, MailsAreSent DEF IInv
<1>3. QED
  BY <1>1, <1>2, OutboxInvariant, PTL DEF Spec

(* No more extra copies of mails than there were faults, however many rows there are. *)
THEOREM CopiesArePaid == Spec => []DuplicatesNeedFaults
<1>1. IInv /\ (FaultsPaid /\ MailsWereSent) => DuplicatesNeedFaults
  <2> SUFFICES ASSUME faults \in Nat, FaultsPaid PROVE Cardinality(Repeated) <= faults
    BY DEF IInv, TypeOK, DuplicatesNeedFaults
  <2>1. Repeated \subseteq Wasted
    BY DEF Repeated, Wasted
  <2>2. /\ Cardinality(Repeated) <= Cardinality(Wasted) /\ Cardinality(Repeated) \in Nat
        /\ Cardinality(Wasted) \in Nat
    BY <2>1, FS_Subset, FS_CardinalityType DEF FaultsPaid
  <2>3. QED
    BY <2>2 DEF FaultsPaid
<1>2. QED
  BY <1>1, OutboxInvariant, WastedArePaid, PTL

=============================================================================
