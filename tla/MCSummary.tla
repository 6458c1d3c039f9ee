----------------------------- MODULE MCSummary -----------------------------
(* The request comes at noon of day 2 and asks for two days, so its window *)
(* begins at noon of day 0.  Transactions are dated on each side of both   *)
(* ends, on the same day and beyond, so that the first day has a movement  *)
(* of its own; and one category moves both ways.                           *)
EXTENDS Summary, TLC

CONSTANTS alice, bob
MCUsers    == {alice, bob}
Symmetry   == Permutations(Users)
MCBalances == {10}
MCWindows  == {<<0, 5>>, <<2, 4>>, <<4, 4>>}

Kind(amount, date, category, severity) ==
  [amount |-> amount, date |-> date, category |-> category, severity |-> severity]

MCKinds == {Kind(-2, 0, "transfer", "none"), Kind(6, 1, "transfer", "none"),
            Kind(-3, 2, "transfer", "medium"), Kind(4, 4, "transfer", "medium"),
            Kind(-1, 4, "groceries", "high"), Kind(-5, 5, "groceries", "none"),
            Kind(2, 6, "transfer", "none")}

=============================================================================
