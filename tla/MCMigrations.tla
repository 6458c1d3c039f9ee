---------------------------- MODULE MCMigrations ----------------------------
(* The two tasks the service runs, and two transactions: one can be there  *)
(* before the migration while the other arrives in the middle of it.       *)
EXTENDS Migrations

CONSTANTS t1, t2, x1, x2
MCTasks  == {t1, t2}
MCRowIds == {x1, x2}

=============================================================================
