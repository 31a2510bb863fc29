------------------------------ MODULE MCAccounts ------------------------------
(* Accounts and MfaLogin with users, addresses, tokens and requests
   interchangeable, and a bound on the requests of both together.  There is one
   password: no guard and no property tells passwords apart. *)
EXTENDS MfaLogin, TLC

CONSTANT MaxTogether   \* bound on both modules' requests, those of Accounts counted twice

Symmetry == Permutations(Users \ Members) \cup Permutations(Emails) \cup
            Permutations(Tokens) \cup Permutations(Requests)

MCNext == SystemNext /\ (numbers' = 1 \/ 2 * started' + numbers' <= MaxTogether)
MCSpec == SystemInit /\ [][MCNext]_<<vars, mfaVars>>
=============================================================================
