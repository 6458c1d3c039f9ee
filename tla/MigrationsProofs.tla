-------------------------- MODULE MigrationsProofs --------------------------
(***************************************************************************)
(* Proofs about Migrations for any number of tasks, rows and deaths: each  *)
(* version is applied once, in order, and no task serves too early.        *)
(***************************************************************************)
EXTENDS Migrations, SequenceTheorems, TLAPS

-----------------------------------------------------------------------------
(* Type correctness.                                                       *)

TaskState == [pc : Pcs, version : 1..(Last + 1), change : Changes]

LEMMA ChangesType ==
  ASSUME NEW f, NEW ids \in SUBSET RowIds, f \in [ids -> InSet]
  PROVE  f \in Changes
  BY DEF Changes

LEMMA FreshType == /\ Fresh \in TaskState
                   /\ [Fresh EXCEPT !.pc = "failed"] \in TaskState
<1>1. NoChange \in Changes
  <2>1. NoChange \in [{} -> InSet]
    BY DEF NoChange
  <2>. QED  BY <2>1, ChangesType
<1>. QED  BY <1>1 DEF Fresh, TaskState, Pcs, Last

LEMMA TypeInit == Init => TasksTypeOK
<1>. SUFFICES ASSUME Init PROVE TasksTypeOK
  OBVIOUS
<1>1. PICK n \in 0..Last :
        /\ recorded = 1..n
        /\ applied = [v \in 1..n |-> v]
        /\ closed = (n >= Closing)
        /\ rows \in [RowIds -> IF n = 0 THEN {"absent"}
                               ELSE IF n >= Closing THEN InSet \cup {"absent"}
                               ELSE Categories \cup {"absent"}]
        /\ table \in BOOLEAN
  BY DEF Init
<1>2. recorded \subseteq Versions
  BY <1>1 DEF Versions, Last
<1>3. applied \in Seq(Versions)
  <2>1. n \in Nat /\ \A v \in 1..n : v \in Versions
    BY <1>1 DEF Versions, Last
  <2>. QED  BY <1>1, <2>1, IsASeq
<1>4. rows \in [RowIds -> Categories \cup {"absent"}]
  BY <1>1 DEF Categories
<1>5. closed \in BOOLEAN /\ table \in BOOLEAN
  <2>1. (n >= Closing) \in BOOLEAN
    OBVIOUS
  <2>. QED  BY <1>1, <2>1, Zenon
<1>6. task \in [Tasks -> TaskState]
  BY FreshType DEF Init
<1>7. kills \in 0..MaxKills
  BY MigrationsAssumption DEF Init
<1>. QED  BY <1>2, <1>3, <1>4, <1>5, <1>6, <1>7 DEF TasksTypeOK, TaskState

(* A step that changes nothing but the state of one task.                  *)
LEMMA TypeBecome ==
  ASSUME TasksTypeOK, NEW t \in Tasks, NEW s \in TaskState, Become(t, s),
         UNCHANGED <<Schema, kills>>
  PROVE  TasksTypeOK'
  BY DEF TasksTypeOK, TaskState, Become, Schema

LEMMA TypeGoto ==
  ASSUME TasksTypeOK, NEW t \in Tasks, NEW pc \in Pcs
  PROVE  [task[t] EXCEPT !.pc = pc] \in TaskState
  BY DEF TasksTypeOK, TaskState

LEMMA NextVersionType ==
  ASSUME TasksTypeOK, NEW t \in Tasks, V(t) \in Versions
  PROVE  NextVersion(t) \in TaskState
<1>1. NoChange \in Changes
  BY FreshType DEF Fresh, TaskState
<1>2. task[t] \in TaskState /\ V(t) + 1 \in 1..(Last + 1)
  BY DEF TasksTypeOK, TaskState, Versions, Last
<1>3. (IF V(t) = Last THEN "serving" ELSE "check") \in Pcs
  BY DEF Pcs
<1>. QED  BY <1>1, <1>2, <1>3 DEF NextVersion, TaskState, V

LEMMA UpdateType ==
  ASSUME TasksTypeOK, NEW t \in Tasks, NEW ids \in SUBSET RowIds, NEW c \in InSet, NEW pc \in Pcs,
         Update(t, ids, c, pc), UNCHANGED <<Schema, kills>>
  PROVE  TasksTypeOK'
<1>. DEFINE old == task[t].change
            new == [i \in DOMAIN old \cup ids |-> IF i \in ids THEN c ELSE old[i]]
            s   == [task[t] EXCEPT !.pc = pc, !.change = new]
<1>0. task[t] \in TaskState
  BY DEF TasksTypeOK, TaskState
<1>1. PICK had \in SUBSET RowIds : old \in [had -> InSet]
  BY <1>0 DEF TaskState, Changes
<1>2. new \in [had \cup ids -> InSet]
  BY <1>1
<1>3. had \cup ids \in SUBSET RowIds
  BY <1>1
<1>4. new \in Changes
  <2>. HIDE DEF new
  <2>. QED  BY <1>2, <1>3, ChangesType
<1>5. s \in TaskState
  <2>. HIDE DEF new
  <2>. QED  BY <1>0, <1>4 DEF TaskState
<1>6. Become(t, s)
  BY DEF Update
<1>. HIDE DEF s
<1>. QED  BY <1>5, <1>6, TypeBecome

LEMMA SeenType ==
  ASSUME TasksTypeOK, NEW t \in Tasks, NEW i \in RowIds
  PROVE  Seen(t, i) \in Categories \cup {"absent"}
<1>1. task[t].change \in Changes
  BY DEF TasksTypeOK
<1>2. PICK had \in SUBSET RowIds : task[t].change \in [had -> InSet]
  BY <1>1 DEF Changes
<1>. QED  BY <1>2 DEF TasksTypeOK, Seen, Categories

-----------------------------------------------------------------------------
(* Where a task can be, given what is recorded.  Every version before its  *)
(* own is; a version it is about to commit is not; and no other task is    *)
(* past the lock at that version.                                          *)
Seniority ==
  /\ \A t \in Tasks : 1..(V(t) - 1) \subseteq recorded
  /\ \A t \in Tasks : At(t, "serving") <=> V(t) = Last + 1
  /\ \A t \in Tasks : At(t, "commit") => V(t) \notin recorded

OnePastTheLock ==
  \A t, u \in Tasks : Exclusive(t) /\ Exclusive(u) /\ V(t) = V(u) => t = u

MInv == TasksTypeOK /\ AppliedOnceInOrder /\ Seniority /\ OnePastTheLock

LEMMA MInvInit == Init => MInv
<1>. SUFFICES ASSUME Init PROVE MInv
  OBVIOUS
<1>1. AppliedOnceInOrder
  BY DEF Init, AppliedOnceInOrder
<1>2. \A t \in Tasks : task[t].pc = "start" /\ task[t].version = 1
  BY DEF Init, Fresh
<1>3. Seniority
  BY <1>2 DEF Seniority, At, V, Last
<1>4. OnePastTheLock
  BY <1>2 DEF OnePastTheLock, Exclusive
<1>. QED  BY <1>1, <1>3, <1>4, TypeInit DEF MInv

(* A step of one task that stays within its version and out of commit, and *)
(* enters the exclusive part only when nobody else is in it.               *)
LEMMA StaysInVersion ==
  ASSUME MInv, NEW t \in Tasks, NEW s \in TaskState, Become(t, s),
         UNCHANGED <<Schema, kills>>,
         1..(s.version - 1) \subseteq recorded,
         s.pc = "serving" <=> s.version = Last + 1,
         s.pc = "commit" => s.version \notin recorded,
         s.pc \in {"record", "commit"} =>
           \A u \in Tasks \ {t} : Exclusive(u) => V(u) # s.version
  PROVE  MInv'
<1>1. TasksTypeOK'
  BY TypeBecome DEF MInv
<1>2. AppliedOnceInOrder'
  BY DEF MInv, AppliedOnceInOrder, Schema
<1>3. /\ task'[t] = s
      /\ \A u \in Tasks \ {t} : task'[u] = task[u]
  BY DEF MInv, TasksTypeOK, Become
<1>4. recorded' = recorded
  BY DEF Schema
<1>5. Seniority'
  BY <1>3, <1>4 DEF MInv, Seniority, At, V
<1>6. OnePastTheLock'
  BY <1>3 DEF MInv, OnePastTheLock, Exclusive, V
<1>. QED  BY <1>1, <1>2, <1>5, <1>6 DEF MInv

LEMMA FailKeeps ==
  ASSUME MInv, NEW t \in Tasks, Fail(t), UNCHANGED <<Schema, kills>>
  PROVE  MInv'
<1>. DEFINE s == [Fresh EXCEPT !.pc = "failed"]
<1>1. s.pc = "failed" /\ s.version = 1 /\ s \in TaskState
  BY FreshType DEF Fresh
<1>2. Become(t, s)
  BY DEF Fail
<1>. HIDE DEF s
<1>3. 1..(s.version - 1) = {}
  BY <1>1
<1>. QED  BY <1>1, <1>2, <1>3, StaysInVersion DEF Last

(* Going on to a step that is neither past the lock nor serving.           *)
LEMMA GotoKeeps ==
  ASSUME MInv, NEW t \in Tasks, NEW pc \in Pcs \ {"serving", "record", "commit"},
         ~At(t, "serving"), Goto(t, pc), UNCHANGED <<Schema, kills>>
  PROVE  MInv'
<1>. DEFINE s == [task[t] EXCEPT !.pc = pc]
<1>1. s \in TaskState /\ s.pc = pc /\ s.version = V(t)
  BY TypeGoto DEF MInv, TasksTypeOK, V
<1>2. Become(t, s)
  BY DEF Goto
<1>. HIDE DEF s
<1>. QED  BY <1>1, <1>2, StaysInVersion DEF MInv, Seniority

LEMMA UpdateKeeps ==
  ASSUME MInv, NEW t \in Tasks, NEW ids \in SUBSET RowIds, NEW c \in InSet,
         NEW pc \in Pcs \ {"serving", "record", "commit"},
         ~At(t, "serving"), Update(t, ids, c, pc), UNCHANGED <<Schema, kills>>
  PROVE  MInv'
<1>1. TasksTypeOK'
  BY UpdateType DEF MInv
<1>2. AppliedOnceInOrder'
  BY DEF MInv, AppliedOnceInOrder, Schema
<1>3. /\ task'[t].pc = pc /\ task'[t].version = task[t].version
      /\ \A u \in Tasks \ {t} : task'[u] = task[u]
  BY DEF MInv, TasksTypeOK, Update, Become
<1>4. recorded' = recorded
  BY DEF Schema
<1>5. Seniority'
  BY <1>3, <1>4 DEF MInv, Seniority, At, V
<1>6. OnePastTheLock'
  BY <1>3 DEF MInv, OnePastTheLock, Exclusive, V
<1>. QED  BY <1>1, <1>2, <1>5, <1>6 DEF MInv

LEMMA CommitKeeps ==
  ASSUME MInv, NEW t \in Tasks, Commit(t) PROVE MInv'
<1>. DEFINE n == Len(applied)
<1>1. n \in Nat /\ DOMAIN applied = 1..n /\ recorded = 1..n /\ \A v \in 1..n : applied[v] = v
  BY LenProperties DEF MInv, TasksTypeOK, AppliedOnceInOrder
<1>2. task[t] \in TaskState /\ At(t, "commit") /\ V(t) \in 1..(Last + 1)
  BY DEF MInv, TasksTypeOK, TaskState, Commit, V
<1>3. V(t) = n + 1
  BY <1>1, <1>2 DEF MInv, Seniority
<1>4. V(t) \in Versions
  BY <1>2 DEF MInv, Seniority, Versions, At, Last
<1>5. /\ applied' = Append(applied, n + 1) /\ recorded' = 1..(n + 1)
  BY <1>1, <1>3 DEF Commit
<1>6. AppliedOnceInOrder'
  <2>1. DOMAIN applied' = 1..(n + 1)
    BY <1>1, <1>3, <1>4, <1>5, AppendProperties, LenProperties DEF MInv, TasksTypeOK
  <2>2. \A v \in 1..(n + 1) : applied'[v] = v
    BY <1>1, <1>3, <1>4, <1>5, AppendProperties DEF MInv, TasksTypeOK
  <2>. QED  BY <1>5, <2>1, <2>2 DEF AppliedOnceInOrder
<1>. DEFINE s == NextVersion(t)
<1>7. /\ s \in TaskState /\ s.version = n + 2
      /\ s.pc = IF n + 1 = Last THEN "serving" ELSE "check"
  <2>1. s \in TaskState
    BY <1>4, NextVersionType DEF MInv
  <2>2. s.version = V(t) + 1 /\ s.pc = IF V(t) = Last THEN "serving" ELSE "check"
    BY <1>2 DEF NextVersion, TaskState, V
  <2>. QED  BY <1>1, <1>3, <2>1, <2>2
<1>8. /\ task'[t] = s
      /\ \A u \in Tasks \ {t} : task'[u] = task[u]
      /\ task' \in [Tasks -> TaskState]
  BY <1>7 DEF Commit, Become, MInv, TasksTypeOK, TaskState
<1>. HIDE DEF s
<1>9. TasksTypeOK'
  <2>1. recorded' \subseteq Versions /\ applied' \in Seq(Versions)
    BY <1>3, <1>4, <1>5, AppendProperties DEF Commit, MInv, TasksTypeOK
  <2>2. rows' \in [RowIds -> Categories \cup {"absent"}]
    BY SeenType DEF Commit, MInv
  <2>3. closed' \in BOOLEAN
    BY Zenon DEF Commit
  <2>. QED  BY <1>8, <2>1, <2>2, <2>3 DEF Commit, MInv, TasksTypeOK, TaskState
<1>10. Seniority'
  <2>1. ASSUME NEW u \in Tasks PROVE 1..(V(u)' - 1) \subseteq recorded'
    <3>1. CASE u = t
      BY <1>1, <1>5, <1>7, <1>8, <3>1 DEF V
    <3>2. CASE u # t
      BY <1>1, <1>5, <1>8, <3>2 DEF V, MInv, Seniority
    <3>. QED  BY <3>1, <3>2
  <2>2. ASSUME NEW u \in Tasks PROVE At(u, "serving")' <=> V(u)' = Last + 1
    <3>1. CASE u = t
      BY <1>1, <1>7, <1>8, <3>1 DEF V, At, Last
    <3>2. CASE u # t
      BY <1>8, <3>2 DEF V, At, MInv, Seniority
    <3>. QED  BY <3>1, <3>2
  <2>3. ASSUME NEW u \in Tasks, At(u, "commit")' PROVE V(u)' \notin recorded'
    <3>1. u # t
      BY <1>7, <1>8, <2>3 DEF At
    <3>2. At(u, "commit") /\ V(u)' = V(u)
      BY <1>8, <2>3, <3>1 DEF At, V
    <3>3. V(u) # V(t)
      BY <1>2, <3>1, <3>2 DEF MInv, OnePastTheLock, Exclusive, At
    <3>4. V(u) \notin recorded
      BY <3>2 DEF MInv, Seniority
    <3>. QED  BY <3>2, <3>3, <3>4 DEF Commit
  <2>. QED  BY <2>1, <2>2, <2>3 DEF Seniority
<1>11. OnePastTheLock'
  BY <1>7, <1>8 DEF MInv, OnePastTheLock, Exclusive, V
<1>. QED  BY <1>6, <1>9, <1>10, <1>11 DEF MInv

LEMMA MInvNext == MInv /\ [Next]_vars => MInv'
<1>. SUFFICES ASSUME MInv, [Next]_vars PROVE MInv'
  OBVIOUS
<1>1. ASSUME NEW t \in Tasks, LookForTable(t) PROVE MInv'
  BY <1>1, GotoKeeps DEF LookForTable, At, Pcs
<1>2. ASSUME NEW t \in Tasks, CreateTable(t) PROVE MInv'
  <2>1. CASE table
    <3>1. Fail(t) /\ UNCHANGED <<Schema, kills>>
      BY <1>2, <2>1 DEF CreateTable, Schema, MInv, TasksTypeOK
    <3>. QED  BY <3>1, FailKeeps
  <2>2. CASE ~table
    <3>. DEFINE s == [task[t] EXCEPT !.pc = "check"]
    <3>1. Become(t, s) /\ s.version = V(t) /\ s.pc = "check" /\ s \in TaskState
      BY <1>2, <2>2, TypeGoto DEF CreateTable, Goto, MInv, TasksTypeOK, V, Pcs
    <3>. HIDE DEF s
    <3>2. /\ task'[t] = s /\ \A u \in Tasks \ {t} : task'[u] = task[u]
          /\ task' \in [Tasks -> TaskState]
      BY <3>1 DEF Become, MInv, TasksTypeOK, TaskState
    <3>3. TasksTypeOK'
      BY <1>2, <3>2 DEF CreateTable, MInv, TasksTypeOK, TaskState
    <3>4. Seniority'
      BY <1>2, <3>1, <3>2 DEF CreateTable, MInv, Seniority, At, V
    <3>5. OnePastTheLock'
      BY <3>1, <3>2 DEF MInv, OnePastTheLock, Exclusive, V
    <3>6. AppliedOnceInOrder'
      BY <1>2 DEF CreateTable, MInv, AppliedOnceInOrder
    <3>. QED  BY <3>3, <3>4, <3>5, <3>6 DEF MInv
  <2>. QED  BY <2>1, <2>2
<1>3. ASSUME NEW t \in Tasks, Check(t) PROVE MInv'
  <2>0. V(t) \in Versions /\ ~At(t, "serving")
    BY <1>3 DEF Check, At, V, MInv, TasksTypeOK, Seniority, Versions, Last
  <2>1. CASE V(t) \in recorded
    <3>. DEFINE s == NextVersion(t)
    <3>1. Become(t, s) /\ s \in TaskState /\ UNCHANGED <<Schema, kills>>
      BY <1>3, <2>0, <2>1, NextVersionType DEF Check, MInv
    <3>2. s.version = V(t) + 1 /\ s.pc = IF V(t) = Last THEN "serving" ELSE "check"
      BY DEF NextVersion, MInv, TasksTypeOK, V
    <3>. HIDE DEF s
    <3>3. 1..(s.version - 1) \subseteq recorded
      BY <2>0, <2>1, <3>2 DEF MInv, Seniority, Versions
    <3>4. s.pc = "serving" <=> s.version = Last + 1
      BY <2>0, <3>2 DEF Versions, Last
    <3>. QED  BY <3>1, <3>2, <3>3, <3>4, StaysInVersion
  <2>2. CASE V(t) \notin recorded
    BY <1>3, <2>0, <2>2, GotoKeeps DEF Check, Pcs
  <2>. QED  BY <2>1, <2>2
<1>4. ASSUME NEW t \in Tasks, Touch(t) PROVE MInv'
  BY <1>4, GotoKeeps DEF Touch, At, Pcs
<1>5. ASSUME NEW t \in Tasks, Repair(t) PROVE MInv'
  BY <1>5, UpdateKeeps DEF Repair, At, Pcs, InSet, ToRepair
<1>6. ASSUME NEW t \in Tasks, Normalize(t) PROVE MInv'
  BY <1>6, UpdateKeeps DEF Normalize, At, Pcs, InSet, ToNormalize
<1>7. ASSUME NEW t \in Tasks, Request(t) PROVE MInv'
  BY <1>7, GotoKeeps DEF Request, At, Pcs
<1>8. ASSUME NEW t \in Tasks, Granted(t) PROVE MInv'
  <2>0. UNCHANGED <<Schema, kills>> /\ At(t, "wait")
    BY <1>8 DEF Granted
  <2>1. CASE Fail(t)
    BY <2>0, <2>1, FailKeeps
  <2>2. CASE Goto(t, "record")
    <3>. DEFINE s == [task[t] EXCEPT !.pc = "record"]
    <3>1. Become(t, s) /\ s.version = V(t) /\ s.pc = "record" /\ s \in TaskState
      BY <2>2, TypeGoto DEF Goto, MInv, TasksTypeOK, V, Pcs
    <3>. HIDE DEF s
    <3>2. \A u \in Tasks \ {t} : Exclusive(u) => V(u) # V(t)
      BY <1>8 DEF Granted, Free, Waits, SameTable
    <3>3. V(t) # Last + 1
      BY <2>0 DEF MInv, Seniority, At
    <3>. QED  BY <2>0, <3>1, <3>2, <3>3, StaysInVersion DEF MInv, Seniority
  <2>. QED  BY <1>8, <2>1, <2>2 DEF Granted
<1>9. ASSUME NEW t \in Tasks, Deadlocked(t) PROVE MInv'
  BY <1>9, FailKeeps DEF Deadlocked
<1>10. ASSUME NEW t \in Tasks, Record(t) PROVE MInv'
  <2>0. UNCHANGED <<Schema, kills>> /\ At(t, "record")
    BY <1>10 DEF Record
  <2>1. CASE V(t) \in recorded
    BY <1>10, <2>0, <2>1, FailKeeps DEF Record
  <2>2. CASE V(t) \notin recorded
    <3>. DEFINE s == [task[t] EXCEPT !.pc = "commit"]
    <3>1. Become(t, s) /\ s.version = V(t) /\ s.pc = "commit" /\ s \in TaskState
      BY <1>10, <2>2, TypeGoto DEF Record, Goto, MInv, TasksTypeOK, V, Pcs
    <3>. HIDE DEF s
    <3>2. \A u \in Tasks \ {t} : Exclusive(u) => V(u) # V(t)
      BY <2>0 DEF MInv, OnePastTheLock, Exclusive, At
    <3>3. V(t) # Last + 1
      BY <2>0 DEF MInv, Seniority, At
    <3>. QED  BY <2>0, <2>2, <3>1, <3>2, <3>3, StaysInVersion DEF MInv, Seniority
  <2>. QED  BY <2>1, <2>2
<1>11. ASSUME NEW t \in Tasks, Commit(t) PROVE MInv'
  BY <1>11, CommitKeeps
<1>12. ASSUME NEW t \in Tasks, Kill(t) PROVE MInv'
  <2>. DEFINE s == [Fresh EXCEPT !.pc = "failed"]
  <2>1. s.pc = "failed" /\ s.version = 1 /\ s \in TaskState
    BY FreshType DEF Fresh
  <2>2. Become(t, s)
    BY <1>12 DEF Kill, Fail
  <2>. HIDE DEF s
  <2>3. /\ task'[t] = s /\ \A u \in Tasks \ {t} : task'[u] = task[u]
        /\ task' \in [Tasks -> TaskState]
    BY <2>1, <2>2 DEF Become, MInv, TasksTypeOK, TaskState
  <2>4. kills' \in 0..MaxKills
    BY <1>12, MigrationsAssumption DEF Kill, MInv, TasksTypeOK
  <2>5. TasksTypeOK'
    BY <1>12, <2>3, <2>4 DEF Kill, Schema, MInv, TasksTypeOK, TaskState
  <2>6. Seniority'
    <3>1. 1..(s.version - 1) = {}
      BY <2>1
    <3>. QED  BY <1>12, <2>1, <2>3, <3>1 DEF Kill, Schema, MInv, Seniority, At, V, Last
  <2>7. OnePastTheLock'
    BY <2>1, <2>3 DEF MInv, OnePastTheLock, Exclusive, V
  <2>8. AppliedOnceInOrder'
    BY <1>12 DEF Kill, Schema, MInv, AppliedOnceInOrder
  <2>. QED  BY <2>5, <2>6, <2>7, <2>8 DEF MInv
<1>13. ASSUME NEW t \in Tasks, Restart(t) PROVE MInv'
  <2>1. Fresh.pc = "start" /\ Fresh.version = 1 /\ Fresh \in TaskState
    BY FreshType DEF Fresh
  <2>2. 1..(Fresh.version - 1) = {}
    BY <2>1
  <2>. QED  BY <1>13, <2>1, <2>2, StaysInVersion DEF Restart, Last
<1>14. ASSUME NEW i \in RowIds, OldInsert(i) PROVE MInv'
  <2>1. rows' \in [RowIds -> Categories \cup {"absent"}]
    BY <1>14 DEF OldInsert, MInv, TasksTypeOK, Categories
  <2>. QED
    BY <1>14, <2>1 DEF OldInsert, MInv, TasksTypeOK, AppliedOnceInOrder, Seniority,
                       OnePastTheLock, Exclusive, At, V
<1>15. ASSUME NEW t \in Tasks, Stop(t) PROVE MInv'
  BY <1>15, FailKeeps DEF Stop
<1>16. CASE UNCHANGED <<Schema, task, kills>>
  BY <1>16 DEF Schema, MInv, TasksTypeOK, AppliedOnceInOrder, Seniority, OnePastTheLock,
               Exclusive, At, V
<1>17. ASSUME NEW t \in Tasks, Step(t) PROVE MInv'
  BY <1>1, <1>2, <1>3, <1>4, <1>5, <1>6, <1>7, <1>8, <1>9, <1>10, <1>11, <1>17
     DEF Step, Work
<1>18. CASE ReachSteadyState \/ RollBack \/ Done \/ UNCHANGED vars
  BY <1>16, <1>18 DEF ReachSteadyState, RollBack, Done, vars, Schema
<1>. QED
  BY <1>12, <1>13, <1>14, <1>15, <1>17, <1>18 DEF Next

(* The deployment's own state: what a step of the tasks does to it.        *)
LEMMA DeploymentTypeInit == Init => DeploymentTypeOK
<1>1. 0 \in 0..Threshold
  BY MigrationsAssumption
<1>2. Init => deployment = "rolling" /\ failures = 0 /\ disturbed = FALSE
  BY Zenon DEF Init
<1>. QED  BY <1>1, <1>2 DEF DeploymentTypeOK

LEMMA DeploymentTypeNext == DeploymentTypeOK /\ [Next]_vars => DeploymentTypeOK'
<1>. SUFFICES ASSUME DeploymentTypeOK, [Next]_vars PROVE DeploymentTypeOK'
  OBVIOUS
<1>1. ASSUME NEW t \in Tasks, Counted(t) PROVE failures' \in 0..Threshold
  BY <1>1, MigrationsAssumption DEF Counted, DeploymentTypeOK
<1>2. ASSUME NEW t \in Tasks, Step(t) PROVE DeploymentTypeOK'
  BY <1>1, <1>2 DEF Step, DeploymentTypeOK
<1>3. ASSUME NEW t \in Tasks, Kill(t) PROVE DeploymentTypeOK'
  BY <1>1, <1>3 DEF Kill, DeploymentTypeOK
<1>4. ASSUME NEW t \in Tasks, Restart(t) PROVE DeploymentTypeOK'
  <2>1. disturbed' \in BOOLEAN
    BY <1>4, Zenon DEF Restart
  <2>. QED  BY <1>4, <2>1 DEF Restart, DeploymentTypeOK
<1>5. ASSUME NEW t \in Tasks, Stop(t) PROVE DeploymentTypeOK'
  BY <1>5 DEF Stop, DeploymentTypeOK
<1>6. ASSUME NEW i \in RowIds, OldInsert(i) PROVE DeploymentTypeOK'
  <2>1. disturbed' \in BOOLEAN
    BY <1>6, Zenon DEF OldInsert
  <2>. QED  BY <1>6, <2>1 DEF OldInsert, DeploymentTypeOK
<1>7. CASE ReachSteadyState \/ RollBack \/ Done \/ UNCHANGED vars
  BY <1>7 DEF ReachSteadyState, RollBack, Done, vars, DeploymentTypeOK
<1>. QED  BY <1>2, <1>3, <1>4, <1>5, <1>6, <1>7 DEF Next

-----------------------------------------------------------------------------
(* Type correctness: no task is ever at a version that is not there, and   *)
(* 004 leaves no row of its own outside the set.                           *)
THEOREM MigrationsTypeCorrect == Spec => []TypeOK
  BY MInvInit, MInvNext, DeploymentTypeInit, DeploymentTypeNext, PTL
     DEF Spec, MInv, TypeOK

(* migrate.go:16 - every version is applied exactly once and in order,     *)
(* with any number of tasks migrating at once and dying on the way.        *)
THEOREM OnceInOrder == Spec => []AppliedOnceInOrder
  BY MInvInit, MInvNext, PTL DEF Spec, MInv

(* No task serves before the last version is recorded.                     *)
THEOREM NobodyServesEarly == Spec => []ServingIsMigrated
<1>1. MInv => ServingIsMigrated
  <2>. SUFFICES ASSUME MInv, NEW t \in Tasks, At(t, "serving") PROVE recorded = Versions
    BY DEF ServingIsMigrated
  <2>1. 1..Last \subseteq recorded
    <3>1. V(t) = Last + 1 /\ 1..(V(t) - 1) \subseteq recorded
      BY Zenon DEF MInv, Seniority
    <3>. QED  BY <3>1 DEF Last
  <2>2. recorded \subseteq Versions
    BY Zenon DEF MInv, TasksTypeOK
  <2>. QED  BY <2>1, <2>2 DEF Versions
<1>. QED  BY <1>1, MInvInit, MInvNext, PTL DEF Spec

-----------------------------------------------------------------------------
(* The closed set.  A task past the lock of 004 sees no row outside it,    *)
(* and the lock keeps it so until the constraint is in force.              *)
InSetOrAbsent == InSet \cup {"absent"}

CleanPastTheLock ==
  \A t \in Tasks : Exclusive(t) /\ V(t) = Closing =>
    \A i \in RowIds : Seen(t, i) \in InSetOrAbsent

CInv == /\ closed <=> Closing \in recorded
        /\ CategoriesAreClosed
        /\ CleanPastTheLock

LEMMA CInvInit == Init => CInv
<1>. SUFFICES ASSUME Init PROVE CInv
  OBVIOUS
<1>1. PICK n \in 0..Last :
        /\ recorded = 1..n
        /\ closed = (n >= Closing)
        /\ rows \in [RowIds -> IF n = 0 THEN {"absent"}
                               ELSE IF n >= Closing THEN InSet \cup {"absent"}
                               ELSE Categories \cup {"absent"}]
  BY DEF Init
<1>2. closed <=> Closing \in recorded
  <2>1. closed <=> n >= Closing
    BY <1>1, Zenon
  <2>2. Closing \in recorded <=> n >= Closing
    BY <1>1 DEF Closing, Last
  <2>. QED  BY <2>1, <2>2, Zenon
<1>3. CategoriesAreClosed
  <2>. SUFFICES ASSUME n >= Closing PROVE \A i \in RowIds : rows[i] \in InSet \cup {"absent"}
    BY <1>1 DEF CategoriesAreClosed
  <2>1. rows \in [RowIds -> InSet \cup {"absent"}]
    BY <1>1 DEF Closing
  <2>. QED  BY <2>1
<1>4. \A t \in Tasks : task[t].pc = "start"
  BY DEF Init, Fresh
<1>5. CleanPastTheLock
  BY <1>4 DEF CleanPastTheLock, Exclusive
<1>. QED  BY <1>2, <1>3, <1>5 DEF CInv

(* A step of one task that does not touch what is committed.               *)
LEMMA OneTaskKeepsClean ==
  ASSUME CInv, NEW t \in Tasks, UNCHANGED <<rows, closed, recorded>>,
         \A u \in Tasks \ {t} : task'[u] = task[u],
         Exclusive(t)' /\ V(t)' = Closing =>
           \A i \in RowIds : Seen(t, i)' \in InSetOrAbsent
  PROVE  CInv'
<1>1. CategoriesAreClosed'
  BY DEF CInv, CategoriesAreClosed
<1>2. ASSUME NEW u \in Tasks \ {t}, Exclusive(u)', V(u)' = Closing, NEW i \in RowIds
      PROVE  Seen(u, i)' \in InSetOrAbsent
  <2>1. task'[u] = task[u] /\ rows' = rows
    OBVIOUS
  <2>2. Exclusive(u) /\ V(u) = Closing
    BY <1>2, <2>1 DEF Exclusive, V
  <2>3. Seen(u, i)' = Seen(u, i)
    BY <2>1 DEF Seen
  <2>. QED  BY <2>2, <2>3 DEF CInv, CleanPastTheLock
<1>3. CleanPastTheLock'
  BY <1>2 DEF CleanPastTheLock
<1>4. closed' <=> Closing \in recorded'
  BY DEF CInv
<1>. QED  BY <1>1, <1>3, <1>4 DEF CInv

LEMMA CInvNext == MInv /\ CInv /\ [Next]_vars => CInv'
<1>. SUFFICES ASSUME MInv, CInv, [Next]_vars PROVE CInv'
  OBVIOUS
<1>0. ASSUME NEW t \in Tasks, NEW s, Become(t, s)
      PROVE  task'[t] = s /\ \A u \in Tasks \ {t} : task'[u] = task[u]
  BY <1>0 DEF Become, MInv, TasksTypeOK
<1>1. ASSUME NEW t \in Tasks, NEW s, Become(t, s), UNCHANGED <<rows, closed, recorded>>,
             s.pc \notin {"record", "commit"}
      PROVE  CInv'
  BY <1>0, <1>1, OneTaskKeepsClean DEF Exclusive
<1>2. ASSUME NEW t \in Tasks, Fail(t), UNCHANGED <<rows, closed, recorded>> PROVE CInv'
  <2>. DEFINE s == [Fresh EXCEPT !.pc = "failed"]
  <2>1. s.pc = "failed" /\ Become(t, s)
    BY <1>2 DEF Fail, Fresh
  <2>. HIDE DEF s
  <2>. QED  BY <1>1, <1>2, <2>1
<1>3. ASSUME NEW t \in Tasks, NEW pc \in Pcs \ {"record", "commit"}, Goto(t, pc),
             UNCHANGED <<rows, closed, recorded>>
      PROVE  CInv'
  <2>. DEFINE s == [task[t] EXCEPT !.pc = pc]
  <2>1. s.pc = pc /\ Become(t, s)
    BY <1>3 DEF Goto, MInv, TasksTypeOK
  <2>. HIDE DEF s
  <2>. QED  BY <1>1, <1>3, <2>1
<1>4. ASSUME NEW t \in Tasks, NEW ids, NEW c, NEW pc \in Pcs \ {"record", "commit"},
             Update(t, ids, c, pc), UNCHANGED <<rows, closed, recorded>>
      PROVE  CInv'
  <2>1. task'[t].pc = pc /\ \A u \in Tasks \ {t} : task'[u] = task[u]
    BY <1>4 DEF Update, Become, MInv, TasksTypeOK
  <2>. QED  BY <1>4, <2>1, OneTaskKeepsClean DEF Exclusive
<1>5. ASSUME NEW t \in Tasks, Granted(t) PROVE CInv'
  <2>0. UNCHANGED <<rows, closed, recorded>>
    BY <1>5 DEF Granted, Schema
  <2>1. CASE Fail(t)
    BY <1>2, <2>0, <2>1
  <2>2. CASE ~Fail(t)
    <3>1. /\ Goto(t, "record")
          /\ V(t) = Closing => \A i \in RowIds : Seen(t, i) \in InSetOrAbsent
      BY <1>5, <2>2 DEF Granted, InSetOrAbsent
    <3>2. /\ task'[t].version = task[t].version /\ task'[t].change = task[t].change
          /\ \A u \in Tasks \ {t} : task'[u] = task[u]
      BY <3>1 DEF Goto, Become, MInv, TasksTypeOK
    <3>3. V(t)' = V(t) /\ \A i \in RowIds : Seen(t, i)' = Seen(t, i)
      BY <2>0, <3>2 DEF V, Seen
    <3>. QED  BY <2>0, <3>1, <3>2, <3>3, OneTaskKeepsClean
  <2>. QED  BY <2>1, <2>2
<1>6. ASSUME NEW t \in Tasks, Record(t) PROVE CInv'
  <2>0. UNCHANGED <<rows, closed, recorded>> /\ Exclusive(t)
    BY <1>6 DEF Record, Schema, At, Exclusive
  <2>1. CASE V(t) \in recorded
    BY <1>2, <1>6, <2>0, <2>1 DEF Record
  <2>2. CASE V(t) \notin recorded
    <3>1. Goto(t, "commit")
      BY <1>6, <2>2 DEF Record
    <3>2. /\ task'[t].version = task[t].version /\ task'[t].change = task[t].change
          /\ \A u \in Tasks \ {t} : task'[u] = task[u]
      BY <3>1 DEF Goto, Become, MInv, TasksTypeOK
    <3>3. V(t)' = V(t) /\ \A i \in RowIds : Seen(t, i)' = Seen(t, i)
      BY <2>0, <3>2 DEF V, Seen
    <3>. QED  BY <2>0, <3>2, <3>3, OneTaskKeepsClean DEF CInv, CleanPastTheLock
  <2>. QED  BY <2>1, <2>2
<1>7. ASSUME NEW t \in Tasks, Commit(t) PROVE CInv'
  <2>1. /\ At(t, "commit") /\ Exclusive(t) /\ V(t) \notin recorded
        /\ 1..(V(t) - 1) \subseteq recorded /\ V(t) \in 1..(Last + 1)
    BY <1>7 DEF Commit, At, Exclusive, MInv, Seniority, TasksTypeOK, V
  <2>2. Become(t, NextVersion(t)) /\ NextVersion(t).pc \notin {"record", "commit"}
    BY <1>7 DEF Commit, NextVersion, MInv, TasksTypeOK
  <2>3. recorded' = recorded \cup {V(t)} /\ recorded \subseteq 1..Last
    BY <1>7 DEF Commit, MInv, TasksTypeOK, Versions
  <2>4. ~closed
    <3>1. Closing \notin recorded
      <4>1. PICK n \in Nat : recorded = 1..n
        BY LenProperties DEF MInv, TasksTypeOK, AppliedOnceInOrder
      <4>2. V(t) # Last + 1
        BY <2>1 DEF MInv, Seniority, At
      <4>. QED  BY <2>1, <4>1, <4>2 DEF Closing, Last
    <3>. QED  BY <3>1 DEF CInv
  <2>5. closed' <=> Closing \in recorded'
    <3>0. closed' = (closed \/ V(t) = Closing)
      BY <1>7 DEF Commit
    <3>1. CASE V(t) = Closing
      BY <2>3, <3>0, <3>1, Zenon
    <3>2. CASE V(t) # Closing
      <4>1. closed' = FALSE
        BY <2>4, <3>0, <3>2, Zenon
      <4>2. Closing \notin recorded'
        <5>1. Closing \notin recorded
          BY <2>4, Zenon DEF CInv
        <5>. QED  BY <2>3, <3>2, <5>1
      <4>. QED  BY <4>1, <4>2, Zenon
    <3>. QED  BY <3>1, <3>2
  <2>6. CategoriesAreClosed'
    <3>. SUFFICES ASSUME closed', NEW i \in RowIds PROVE rows'[i] \in InSet \cup {"absent"}
      BY DEF CategoriesAreClosed
    <3>1. V(t) = Closing
      BY <1>7, <2>4 DEF Commit
    <3>2. rows'[i] = Seen(t, i)
      BY <1>7 DEF Commit
    <3>. QED  BY <2>1, <3>1, <3>2 DEF CInv, CleanPastTheLock, InSetOrAbsent
  <2>7. CleanPastTheLock'
    <3>. SUFFICES ASSUME NEW u \in Tasks, Exclusive(u)', V(u)' = Closing PROVE FALSE
      BY DEF CleanPastTheLock
    <3>1. u # t
      BY <1>0, <2>2 DEF Exclusive
    <3>2. Exclusive(u) /\ V(u) = Closing
      BY <1>0, <2>2, <3>1 DEF Exclusive, V
    <3>3. 1..3 \subseteq recorded
      BY <3>2 DEF MInv, Seniority, Closing
    <3>4. V(t) = Closing
      <4>1. V(t) # Last + 1
        BY <2>1 DEF MInv, Seniority, At
      <4>. QED  BY <2>1, <3>3, <4>1 DEF Closing, Last
    <3>. QED  BY <2>1, <3>1, <3>2, <3>4 DEF MInv, OnePastTheLock
  <2>. QED  BY <2>5, <2>6, <2>7 DEF CInv
<1>8. ASSUME NEW i \in RowIds, OldInsert(i) PROVE CInv'
  <2>1. ASSUME NEW t \in Tasks, Exclusive(t)', V(t)' = Closing PROVE FALSE
    <3>1. Exclusive(t) /\ V(t) = Closing
      BY <1>8, <2>1 DEF OldInsert, Exclusive, V
    <3>. QED  BY <1>8, <3>1 DEF OldInsert, Relation, Closing
  <2>2. CategoriesAreClosed'
    BY <1>8 DEF OldInsert, CInv, CategoriesAreClosed, MInv, TasksTypeOK
  <2>3. closed' <=> Closing \in recorded'
    BY <1>8 DEF OldInsert, CInv
  <2>. QED  BY <2>1, <2>2, <2>3 DEF CInv, CleanPastTheLock
<1>9. ASSUME NEW t \in Tasks, Step(t) PROVE CInv'
  <2>1. CASE LookForTable(t)
    BY <1>3, <2>1 DEF LookForTable, Schema, Pcs
  <2>2. CASE CreateTable(t)
    BY <1>2, <1>3, <2>2 DEF CreateTable, Pcs
  <2>3. CASE Check(t)
    <3>1. UNCHANGED <<rows, closed, recorded>>
      BY <2>3 DEF Check, Schema
    <3>2. CASE Become(t, NextVersion(t))
      <4>1. NextVersion(t).pc \notin {"record", "commit"}
        BY DEF NextVersion, MInv, TasksTypeOK
      <4>. QED  BY <1>1, <3>1, <3>2, <4>1
    <3>3. CASE Goto(t, IF V(t) = Closing THEN "touch" ELSE "request")
      BY <1>3, <3>1, <3>3 DEF Pcs
    <3>. QED  BY <2>3, <3>2, <3>3 DEF Check
  <2>4. CASE Touch(t)
    BY <1>3, <2>4 DEF Touch, Schema, Pcs
  <2>5. CASE Repair(t)
    BY <1>4, <2>5 DEF Repair, Schema, Pcs
  <2>6. CASE Normalize(t)
    BY <1>4, <2>6 DEF Normalize, Schema, Pcs
  <2>7. CASE Request(t)
    BY <1>3, <2>7 DEF Request, Schema, Pcs
  <2>8. CASE Deadlocked(t)
    BY <1>2, <2>8 DEF Deadlocked, Schema
  <2>. QED
    BY <1>5, <1>6, <1>7, <1>9, <2>1, <2>2, <2>3, <2>4, <2>5, <2>6, <2>7, <2>8
       DEF Step, Work
<1>10. ASSUME NEW t \in Tasks, Kill(t) PROVE CInv'
  BY <1>2, <1>10 DEF Kill, Schema
<1>11. ASSUME NEW t \in Tasks, Restart(t) PROVE CInv'
  BY <1>1, <1>11 DEF Restart, Fresh, Schema
<1>12. ASSUME NEW t \in Tasks, Stop(t) PROVE CInv'
  BY <1>2, <1>12 DEF Stop, Schema
<1>13. CASE UNCHANGED <<Schema, task>>
  <2>1. CategoriesAreClosed'
    BY <1>13 DEF Schema, CInv, CategoriesAreClosed
  <2>2. CleanPastTheLock'
    BY <1>13 DEF Schema, CInv, CleanPastTheLock, Exclusive, V, Seen
  <2>. QED  BY <1>13, <2>1, <2>2 DEF Schema, CInv
<1>14. CASE ReachSteadyState \/ RollBack \/ Done \/ UNCHANGED vars
  BY <1>13, <1>14 DEF ReachSteadyState, RollBack, Done, vars, Schema
<1>. QED  BY <1>8, <1>9, <1>10, <1>11, <1>12, <1>14 DEF Next

(* 004 closes the set: once its constraint is in force no transaction has  *)
(* a category outside it, whatever the old release inserts and whenever.   *)
THEOREM TheSetIsClosed == Spec => []CategoriesAreClosed
<1>1. Init => MInv /\ CInv
  BY MInvInit, CInvInit
<1>2. MInv /\ CInv /\ [Next]_vars => (MInv /\ CInv)'
  BY MInvNext, CInvNext
<1>3. CInv => CategoriesAreClosed
  BY DEF CInv
<1>. QED  BY <1>1, <1>2, <1>3, PTL DEF Spec

=============================================================================
