-------------------------- MODULE NotificationDelivery --------------------------
(***************************************************************************)
(* What the notification pipeline promises about each notification, with   *)
(* no worker, batch, claim or timeout in sight: once it is recorded it     *)
(* stays queued until it is settled; it is mailed only while it is queued; *)
(* it is settled as sent only if it was mailed; and only a settled one is  *)
(* ever cleaned away.  NotificationOutbox is shown to implement this.      *)
(***************************************************************************)
EXTENDS Naturals

CONSTANT Notification

VARIABLES
  state,     \* where each notification stands
  mailed     \* how often a mail server has accepted it

vars == <<state, mailed>>

Init ==
  /\ state = [m \in Notification |-> "absent"]
  /\ mailed = [m \in Notification |-> 0]

Move(m, from, to) ==
  /\ state[m] = from
  /\ state' = [state EXCEPT ![m] = to]
  /\ UNCHANGED mailed

Record(m) == Move(m, "absent", "queued")

Mail(m) ==
  /\ state[m] = "queued"
  /\ mailed' = [mailed EXCEPT ![m] = @ + 1]
  /\ UNCHANGED state

Sent(m)   == mailed[m] > 0 /\ Move(m, "queued", "sent")
GiveUp(m) == Move(m, "queued", "failed")

(* Settled notifications are cleaned away, any number at a time. *)
Retire(S) ==
  /\ \A m \in S : state[m] \in {"sent", "failed"}
  /\ state' = [m \in Notification |-> IF m \in S THEN "retired" ELSE state[m]]
  /\ UNCHANGED mailed

Next ==
  \/ \E m \in Notification : Record(m) \/ Mail(m) \/ Sent(m) \/ GiveUp(m)
  \/ \E S \in SUBSET Notification : Retire(S)

Spec == Init /\ [][Next]_vars
=============================================================================
