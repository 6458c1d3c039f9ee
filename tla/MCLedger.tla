------------------------------ MODULE MCLedger ------------------------------
(* Two users and two handlers: a second account can be anybody's, and the  *)
(* handlers overlap on one account or meet on another's.                   *)
EXTENDS Ledger, TLC

CONSTANTS r1, r2, alice, bob
MCRequests == {r1, r2}
MCUsers    == {alice, bob}
Symmetry   == Permutations(Requests) \cup Permutations(Users)

MCListed     == {"groceries", "other"}
MCSeverities == {"none", "high"}

=============================================================================
