------------------------------ MODULE MCPlatform ------------------------------
(***************************************************************************)
(* The migrations, the connection pool and, for their progress, the        *)
(* requests of the round workflow.  The three share no state: a behaviour  *)
(* is one of one of them, the other two stay as they began.                *)
(***************************************************************************)
EXTENDS SchemaMigrations, ConnectionPool, MCRoundWorkflow

(* A first release; one that adds a file; one that edits an old file; and  *)
(* one that brings in, late, a file that sorts before those of the others. *)
MCShipped ==
  { <<NoFile, "a", NoFile>>, <<NoFile, "a", "a">>, <<NoFile, "b", "a">>, <<"a", "a", "a">> }

ASSUME MCShipped \subseteq Releases

MCInit == LedgerInit /\ PoolInit /\ Init

NoRunStarted   == release = [p \in Runs \cup Boots |-> NoFile]
NoRequestMade  == /\ status = [r \in Round |-> "none"]
                  /\ fix = [a \in Corrector |-> NoFix] /\ faults = 0
PoolUntouched  == phase = [q \in PoolRequests |-> "connect"]

(* One of the initial states of the pool is enough beside the other two.   *)
PoolAside == PoolUntouched /\ row = CHOOSE f \in [Transactions -> Rows] : TRUE

MCNext ==
  \/ PoolAside /\ NoRequestMade /\ LedgerNext /\ UNCHANGED <<poolVars, vars>>
  \/ NoRunStarted /\ NoRequestMade /\ PoolNext /\ UNCHANGED <<ledgerVars, vars>>
  \/ NoRunStarted /\ PoolAside /\ Next /\ UNCHANGED <<ledgerVars, poolVars>>

MCSpec ==
  MCInit /\ [][MCNext]_<<ledgerVars, poolVars, vars>> /\ LedgerFairness /\ Fairness
=============================================================================
