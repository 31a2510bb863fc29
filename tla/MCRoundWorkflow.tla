--------------------------- MODULE MCRoundWorkflow ---------------------------
(* RoundWorkflow with small constants for TLC. *)
EXTENDS RoundWorkflow, TLC

\* Every round belongs to the one player, who has an account: they compete for
\* the player's row.
MCOnePlayer == CHOOSE p \in Player : TRUE
MCPlayerOf  == [r \in Round |-> MCOnePlayer]

\* The transitions that recalculate, and those that feed them.
MCTransitions == {"create", "submit", "adminSubmit", "approve", "reject", "delete",
                  "adminDelete", "reopen"}

\* The edits that race with reviewing one round.
MCEdits == {"create", "hole", "date", "remarks", "submit", "adminSubmit", "approve", "reject", "reopen"}

\* Enough to make requests wait for each other in every way they can.
MCProgress == {"create", "hole", "submit", "approve", "reopen"}

\* A round on its way to approval, with nothing edited.
MCReview == {"create", "submit", "approve"}

MCSymmetry == Permutations(Client)
=============================================================================
