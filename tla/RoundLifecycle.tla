--------------------------- MODULE RoundLifecycle ---------------------------
(***************************************************************************)
(* What the round workflow promises, with no request, lock or transaction  *)
(* in sight: a round moves between its statuses one step at a time, and    *)
(* the very step that moves it leaves its player's Handicap Index counting *)
(* exactly the approved rounds (an index that cannot be computed from them *)
(* is left as it was).  RoundWorkflow is shown to implement this.          *)
(***************************************************************************)
EXTENDS Naturals, FiniteSets

CONSTANTS
  Round,       \* the rounds that may ever be recorded
  Player,
  PlayerOf,    \* the player a round belongs to
  MinRounds    \* approved rounds without which there is no index

VARIABLES
  status,      \* where each round stands
  counted      \* the rounds each player's index was last computed from

vars == <<status, counted>>

Statuses == {"none", "draft", "pending", "approved", "rejected", "amending", "deleted"}

TypeOK ==
  /\ status \in [Round -> Statuses]
  /\ counted \in [Player -> SUBSET Round]

ApprovedRounds(p) == {r \in Round : PlayerOf[r] = p /\ status[r] = "approved"}

Eligible(S) == Cardinality(S) >= MinRounds

Init ==
  /\ status = [r \in Round |-> "none"]
  /\ counted = [p \in Player |-> {}]

(* A step of one round, and the count that goes with it. *)
Move(r, from, to) ==
  /\ status[r] \in from
  /\ status' = [status EXCEPT ![r] = to]
  /\ counted' =
       [counted EXCEPT ![PlayerOf[r]] =
          IF Eligible(ApprovedRounds(PlayerOf[r])') THEN ApprovedRounds(PlayerOf[r])' ELSE @]

Create(r)  == Move(r, {"none"}, "draft")
Submit(r)  == Move(r, {"draft", "rejected", "amending"}, "pending")
Approve(r) == Move(r, {"pending", "amending"}, "approved")
Reject(r)  == Move(r, {"pending", "amending"}, "rejected")
Reopen(r)  == Move(r, {"approved"}, "amending")
Delete(r)  == Move(r, Statuses \ {"none", "deleted"}, "deleted")

Next ==
  \E r \in Round :
    Create(r) \/ Submit(r) \/ Approve(r) \/ Reject(r) \/ Reopen(r) \/ Delete(r)

Spec == Init /\ [][Next]_vars

(* The handicap rests on the approved rounds and on nothing else, whenever
   there are enough of them: no deleted, rejected or reopened round lingers in
   an index, and no approved one is missing from it. *)
CountsApproved ==
  \A p \in Player : Eligible(ApprovedRounds(p)) => counted[p] = ApprovedRounds(p)
=============================================================================
