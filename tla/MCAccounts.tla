----------------------------- MODULE MCAccounts -----------------------------
(***************************************************************************)
(* Accounts on small instances.                                            *)
(***************************************************************************)
EXTENDS Accounts, TLC

CONSTANTS n1, n2

\* The migrations name the administrator and the protected accounts.
MCFirstName == [u \in Seeded |-> IF u = Root THEN n1 ELSE n2]

=============================================================================
