----------------------------- MODULE Migrations -----------------------------
(***************************************************************************)
(* database.Migrate (app/internal/database/migrate.go), run by every task  *)
(* of the service as it starts: the service wants two of them, so both may *)
(* migrate the same database at once, while the release before them still  *)
(* serves and writes.  A task whose migration fails exits and is replaced, *)
(* until the circuit breaker of the deployment has counted Threshold       *)
(* failures, gives up and goes back to the release before: the service of  *)
(* infrastructure/modules/ecs/main.tf, with the number that is ECS's own.  *)
(*                                                                         *)
(* Of the SQL of a version what matters here is the locks it takes and, of *)
(* 004, the categories it rewrites.  001 to 003 ask for a table's          *)
(* exclusive lock at once (001 for the name of a table to be created,      *)
(* which excludes others likewise).  004 updates rows first, under the     *)
(* lock writers share, and then asks for the exclusive one.  The database  *)
(* grants locks in the order of the requests, runs each statement on what  *)
(* is committed when it starts, and ends a circular wait by failing one of *)
(* the transactions in it.                                                 *)
(*                                                                         *)
(* A category is "listed", "sloppy" (listed once lower-cased and trimmed), *)
(* "junk" or "other", which is listed too.                                 *)
(***************************************************************************)
EXTENDS Integers, Sequences, FiniteSets

CONSTANTS Tasks, RowIds, MaxKills, Threshold

ASSUME MigrationsAssumption == MaxKills \in Nat /\ Threshold \in Nat \ {0}

VARIABLES
  table,      \* schema_migrations exists
  recorded,   \* the versions in it
  applied,    \* history: the versions whose body was committed, in order
  rows,       \* the category of each transaction, "absent" before its insert
  closed,     \* transactions_category_check is in force
  task,       \* each task: [pc, version, change], change its uncommitted rows
  kills,
  deployment, \* "rolling" out, "steady" or "rolledback"
  failures,   \* the tasks that failed while it was rolling out
  disturbed   \* history: something but the tasks' first start made one fail

vars == <<table, recorded, applied, rows, closed, task, kills, deployment,
          failures, disturbed>>

Last == 4        \* the files of migrations/, in filename order
Versions == 1..Last

Closing == 4     \* 004_constrain_category

Relation(v) == IF v = 2 THEN "accounts" ELSE "transactions"

InSet == {"listed", "other"}
Categories == InSet \cup {"sloppy", "junk"}

NoChange == [i \in {} |-> "other"]
Fresh == [pc |-> "start", version |-> 1, change |-> NoChange]

(* A database left by an earlier release, or a new one.                    *)
Init ==
  /\ \E n \in 0..Last :
       /\ recorded = 1..n
       /\ applied = [v \in 1..n |-> v]
       /\ closed = (n >= Closing)
       /\ rows \in [RowIds -> IF n = 0 THEN {"absent"}
                              ELSE IF n >= Closing THEN InSet \cup {"absent"}
                              ELSE Categories \cup {"absent"}]
       /\ table \in BOOLEAN /\ (n > 0 => table)
  /\ task = [t \in Tasks |-> Fresh]
  /\ kills = 0
  /\ deployment = "rolling" /\ failures = 0 /\ disturbed = FALSE

-----------------------------------------------------------------------------
At(t, pc) == task[t].pc = pc
V(t)      == task[t].version

Become(t, state) == task' = [task EXCEPT ![t] = state]
Goto(t, pc)      == Become(t, [task[t] EXCEPT !.pc = pc])

(* Migrate returns an error: the transaction is rolled back, main exits.   *)
Fail(t) == Become(t, [Fresh EXCEPT !.pc = "failed"])

Schema == <<table, recorded, applied, rows, closed>>

(* The locks that a transaction has is a matter of where it is.            *)
Exclusive(t) == task[t].pc \in {"record", "commit"}
RowLock(t)   == V(t) = Closing /\ task[t].pc \in {"repair", "normalize", "request", "wait"}

SameTable(t, u) == t # u /\ Relation(V(t)) = Relation(V(u))

(* What the transaction of t sees of the rows when it starts a statement.  *)
Seen(t, i) == IF i \in DOMAIN task[t].change THEN task[t].change[i] ELSE rows[i]

ToRepair(t)    == {i \in RowIds : Seen(t, i) \in {"sloppy", "junk"}}
ToNormalize(t) == {i \in RowIds : Seen(t, i) = "sloppy"}

(* Another transaction has changed one of these rows and not ended.        *)
RowsHeld(t, ids, u) == u # t /\ ids \cap DOMAIN task[u].change # {}

Waits(t, u) ==
  \/ At(t, "touch") /\ SameTable(t, u) /\ (Exclusive(u) \/ At(u, "wait"))
  \/ At(t, "repair") /\ RowsHeld(t, ToRepair(t), u)
  \/ At(t, "normalize") /\ RowsHeld(t, ToNormalize(t), u)
  \/ At(t, "wait") /\ SameTable(t, u) /\ (Exclusive(u) \/ RowLock(u))
  \/ At(t, "record") /\ At(u, "commit") /\ V(u) = V(t)

Free(t) == \A u \in Tasks : ~Waits(t, u)

-----------------------------------------------------------------------------
(* Mutant: IF NOT EXISTS is left out.                                      *)
LookForTable_Plain(t) ==
  /\ At(t, "start")
  /\ Goto(t, "create")
  /\ UNCHANGED <<Schema, kills>>

(* CREATE TABLE IF NOT EXISTS looks first; of two that found nothing, one  *)
(* fails on the catalog.                                                   *)
LookForTable(t) ==
  /\ At(t, "start")
  /\ Goto(t, IF table THEN "check" ELSE "create")
  /\ UNCHANGED <<Schema, kills>>

CreateTable(t) ==
  /\ At(t, "create")
  /\ IF table THEN Fail(t) ELSE Goto(t, "check")
  /\ table' = TRUE
  /\ UNCHANGED <<recorded, applied, rows, closed, kills>>

NextVersion(t) ==
  [task[t] EXCEPT !.version = @ + 1, !.change = NoChange,
                  !.pc = IF V(t) = Last THEN "serving" ELSE "check"]

(* Mutant: the loop is left at the first version that is there already.    *)
Check_Stops(t) ==
  /\ At(t, "check")
  /\ IF V(t) \in recorded THEN Goto(t, "serving")
     ELSE Goto(t, IF V(t) = Closing THEN "touch" ELSE "request")
  /\ UNCHANGED <<Schema, kills>>

(* The question is asked outside the transaction it leads to.              *)
Check(t) ==
  /\ At(t, "check")
  /\ IF V(t) \in recorded THEN Become(t, NextVersion(t))
     ELSE Goto(t, IF V(t) = Closing THEN "touch" ELSE "request")
  /\ UNCHANGED <<Schema, kills>>

-----------------------------------------------------------------------------
(* The body of a version.  Each UPDATE of 004 has a snapshot of its own.   *)
Touch(t) ==
  /\ At(t, "touch") /\ Free(t)
  /\ Goto(t, "repair")
  /\ UNCHANGED <<Schema, kills>>

Update(t, ids, category, next) ==
  Become(t, [task[t] EXCEPT !.pc = next,
     !.change = [i \in DOMAIN @ \cup ids |-> IF i \in ids THEN category ELSE @[i]]])

(* Mutant: the repair uses a label that is not in the set either.          *)
Repair_Unlisted(t) ==
  /\ At(t, "repair") /\ Free(t)
  /\ Update(t, ToRepair(t), "junk", "normalize")
  /\ UNCHANGED <<Schema, kills>>

Repair(t) ==
  /\ At(t, "repair") /\ Free(t)
  /\ Update(t, ToRepair(t), "other", "normalize")
  /\ UNCHANGED <<Schema, kills>>

Normalize(t) ==
  /\ At(t, "normalize") /\ Free(t)
  /\ Update(t, ToNormalize(t), "listed", "request")
  /\ UNCHANGED <<Schema, kills>>

Request(t) ==
  /\ At(t, "request")
  /\ Goto(t, "wait")
  /\ UNCHANGED <<Schema, kills>>

(* Mutant: the constraint is added NOT VALID.                              *)
Granted_NotValid(t) ==
  /\ At(t, "wait") /\ Free(t)
  /\ Goto(t, "record")
  /\ UNCHANGED <<Schema, kills>>

(* The lock is there.  ADD CONSTRAINT looks at every row, also at those    *)
(* that were committed since the two updates.                              *)
Granted(t) ==
  /\ At(t, "wait") /\ Free(t)
  /\ IF V(t) = Closing /\ \E i \in RowIds : Seen(t, i) \notin InSet \cup {"absent"}
     THEN Fail(t) ELSE Goto(t, "record")
  /\ UNCHANGED <<Schema, kills>>

Deadlocked(t) ==
  /\ \E u \in Tasks : Waits(t, u) /\ Waits(u, t)
  /\ Fail(t)
  /\ UNCHANGED <<Schema, kills>>

(* Mutant: schema_migrations has no primary key.                           *)
Record_NoKey(t) ==
  /\ At(t, "record")
  /\ Goto(t, "commit")
  /\ UNCHANGED <<Schema, kills>>

(* The version is the primary key.                                         *)
Record(t) ==
  /\ At(t, "record") /\ Free(t)
  /\ IF V(t) \in recorded THEN Fail(t) ELSE Goto(t, "commit")
  /\ UNCHANGED <<Schema, kills>>

(* When its answer is lost the task fails, having committed: a Kill in the *)
(* state that follows.                                                     *)
Commit(t) ==
  /\ At(t, "commit")
  /\ recorded' = recorded \cup {V(t)}
  /\ applied' = Append(applied, V(t))
  /\ rows' = [i \in RowIds |-> Seen(t, i)]
  /\ closed' = (closed \/ V(t) = Closing)
  /\ Become(t, NextVersion(t))
  /\ UNCHANGED <<table, kills>>

-----------------------------------------------------------------------------
(* Whatever a task does, the service counts it when it ends by it.         *)
Counted(t) ==
  failures' = IF /\ deployment = "rolling" /\ failures < Threshold
                 /\ ~At(t, "failed") /\ task'[t].pc = "failed"
              THEN failures + 1 ELSE failures

Work(t) ==
  \/ LookForTable(t) \/ CreateTable(t) \/ Check(t)
  \/ Touch(t) \/ Repair(t) \/ Normalize(t) \/ Request(t) \/ Granted(t)
  \/ Deadlocked(t) \/ Record(t) \/ Commit(t)

Step(t) == Work(t) /\ Counted(t) /\ UNCHANGED <<deployment, disturbed>>

(* A task dies, or loses its connection, or a statement fails: the         *)
(* database rolls its transaction back.                                    *)
Kill(t) ==
  /\ kills < MaxKills /\ ~At(t, "failed")
  /\ kills' = kills + 1
  /\ Fail(t) /\ Counted(t)
  /\ disturbed' = TRUE
  /\ UNCHANGED <<Schema, deployment>>

(* The service replaces a task that failed.  The new one may come while    *)
(* another still migrates.                                                 *)
Restart(t) ==
  /\ At(t, "failed") /\ deployment # "rolledback"
  /\ Become(t, Fresh)
  /\ disturbed' = (disturbed \/ \E u \in Tasks : ~At(u, "failed") /\ ~At(u, "serving"))
  /\ UNCHANGED <<Schema, kills, deployment, failures>>

(* All the tasks are there: the circuit breaker has done its work.         *)
ReachSteadyState ==
  /\ deployment = "rolling" /\ \A t \in Tasks : At(t, "serving")
  /\ deployment' = "steady"
  /\ UNCHANGED <<Schema, task, kills, failures, disturbed>>

(* The circuit breaker: no task of this release is started any more, and   *)
(* those that run are stopped.                                             *)
RollBack ==
  /\ deployment = "rolling" /\ failures = Threshold
  /\ deployment' = "rolledback"
  /\ UNCHANGED <<Schema, task, kills, failures, disturbed>>

Stop(t) ==
  /\ deployment = "rolledback" /\ ~At(t, "failed")
  /\ Fail(t)
  /\ UNCHANGED <<Schema, kills, deployment, failures, disturbed>>

(* The release before this one, which did not look at categories, inserts  *)
(* a transaction.  004 may just have looked for the ones to repair.        *)
OldInsert(i) ==
  /\ rows[i] = "absent" /\ 1 \in recorded
  /\ \A t \in Tasks : Relation(V(t)) = "transactions" => ~(Exclusive(t) \/ At(t, "wait"))
  /\ \E c \in IF closed THEN InSet ELSE Categories :
       /\ rows' = [rows EXCEPT ![i] = c]
       /\ disturbed' = (disturbed \/ (c \notin InSet /\ \E t \in Tasks :
                          V(t) = Closing /\ task[t].pc \in {"normalize", "request"}))
  /\ UNCHANGED <<table, recorded, applied, closed, task, kills, deployment, failures>>

Done ==
  /\ \/ deployment = "steady" /\ \A t \in Tasks : At(t, "serving")
     \/ deployment = "rolledback" /\ \A t \in Tasks : At(t, "failed")
  /\ UNCHANGED vars

Next ==
  \/ \E t \in Tasks : Step(t) \/ Kill(t) \/ Restart(t) \/ Stop(t)
  \/ ReachSteadyState \/ RollBack
  \/ \E i \in RowIds : OldInsert(i)
  \/ Done

Spec     == Init /\ [][Next]_vars

(* Tasks run, and the service replaces those that exit as long as its      *)
(* circuit breaker lets it.                                                *)
FairSpec ==
  /\ Spec
  /\ \A t \in Tasks : WF_vars(Step(t)) /\ WF_vars(Restart(t)) /\ WF_vars(Stop(t))
  /\ WF_vars(ReachSteadyState) /\ WF_vars(RollBack)

-----------------------------------------------------------------------------
Pcs == {"start", "create", "check", "touch", "repair", "normalize", "request",
        "wait", "record", "commit", "serving", "failed"}

Changes == UNION {[ids -> InSet] : ids \in SUBSET RowIds}

TasksTypeOK ==
  /\ table \in BOOLEAN /\ closed \in BOOLEAN
  /\ recorded \subseteq Versions
  /\ applied \in Seq(Versions)
  /\ rows \in [RowIds -> Categories \cup {"absent"}]
  /\ task \in [Tasks -> [pc : Pcs, version : 1..(Last + 1), change : Changes]]
  /\ kills \in 0..MaxKills

DeploymentTypeOK ==
  /\ deployment \in {"rolling", "steady", "rolledback"}
  /\ failures \in 0..Threshold
  /\ disturbed \in BOOLEAN

TypeOK == TasksTypeOK /\ DeploymentTypeOK

(* migrate.go:16 - "applies every embedded migration exactly once, in      *)
(* filename order", and the versions recorded are those applied, though    *)
(* several tasks check, apply and record them at once and die on the way.  *)
AppliedOnceInOrder ==
  /\ \A n \in DOMAIN applied : applied[n] = n
  /\ recorded = DOMAIN applied

(* No task serves on a schema that is not complete.                        *)
ServingIsMigrated == \A t \in Tasks : At(t, "serving") => recorded = Versions

(* 004_constrain_category.sql:6 - the constraint "makes the invariant      *)
(* true": once it is there no transaction is outside the set, whatever the *)
(* old release inserted between the repair and the lock.                   *)
CategoriesAreClosed == closed => \A i \in RowIds : rows[i] \in InSet \cup {"absent"}

(* ecs/main.tf:101 - the circuit breaker is there to "stop a bad           *)
(* revision", and migrating must not make a good one look bad: every task  *)
(* comes up in the end, through lost races for the table and the versions, *)
(* deadlocks of two tasks in 004 and rows that keep its constraint from    *)
(* being added.  Only when a task was killed, when the old release wrote   *)
(* such a row behind the repair, or when a task was replaced while another *)
(* still migrated can the service give the release up instead.             *)
EveryTaskServes ==
  \/ <>[](\A t \in Tasks : At(t, "serving"))
  \/ <>[](deployment = "rolledback" /\ disturbed)

=============================================================================
